------------------------- MODULE PersistenceProofs -------------------------
(* Proofs about what is kept on disk.  The save database, for every world,    *)
(* every set of chunks and every number of generations, whatever operation    *)
(* fails and wherever the process dies, as long as a write that fails says so *)
(* (~LateWriteErrors).  The authoritative server, for any players and         *)
(* revisions, whatever file operation, message or log entry fails and         *)
(* wherever the process dies: a profile reported as saved stays loadable, no  *)
(* change of a profile is dropped, and the ban list in memory is the one on   *)
(* disk.                                                                      *)
EXTENDS MCSaveDatabase, FiniteSetTheorems, WellFoundedInduction, TLAPS

-----------------------------------------------------------------------------
(* The inductive invariant of the save database.                              *)

TableSteps == {"clear_staged", "write_table", "settle_backup", "park_table",
               "install_table", "roll_back", "drop_backup", "undo_table"}

SnapshotSteps == TableSteps \cup {"next_generation", "clear_staging", "write_snapshot_file",
                                  "commit_generation", "publish", "undo_generation"}

ChunkSteps == TableSteps \cup {"merge_delta", "find_active"}

MaintainSteps == {"recover", "prune", "compact"}

StepsOf(kind) ==
    CASE kind = "snapshot" -> SnapshotSteps
      [] kind = "chunks"   -> ChunkSteps
      [] kind = "maintain" -> MaintainSteps

\* A root from which a save can be read.
Readable(r) ==
    /\ r \in SaveRoots
    /\ r.snapshot # Broken
    /\ EffectiveEdits(r) # Broken

\* current.txt names a generation from which a save can be read.
DiskIsSound ==
    /\ root \in [Locations -> SaveRoots \cup {None}]
    /\ root[<<"staging", 0>>] = None
    /\ current \in 0 .. MaxGeneration
    /\ Readable(root[Active])
    /\ current # 0 => current \in CommittedGenerations

OperationTypes ==
    /\ op \in Operations \cup {None}
    /\ pc = "idle" <=> op = None
    /\ op # None => pc \in StepsOf(op.kind)
    /\ reply \in {"none", "ok", "error"}

\* The save an operation asks for follows from its request, and its target is
\* the active generation or one with a number of its own.
RequestAgrees ==
    /\ op # None /\ op.kind = "snapshot" =>
           op.to = op.snapshot /\ op.snapshot \in SnapshotFiles /\ op.edits = op.snapshot.edits
    /\ op # None /\ op.kind = "chunks" =>
           /\ op.to.world = op.from.world
           /\ pc = "merge_delta" => /\ op.write \in Coords \X Deltas
                                    /\ op.to.edits = Merged(op.write, op.from.edits)
           /\ pc # "merge_delta" => op.edits = op.to.edits
           /\ pc \in TableSteps => op.at = Active
    /\ op # None /\ op.kind = "maintain" => op.to = op.from

GenerationIsNew ==
    op # None /\ op.kind = "snapshot" /\ pc # "next_generation" =>
        /\ op.at \in {"staging"} \X (1 .. MaxGeneration)
        /\ current < op.at[2]
        /\ pc # "publish" => \A g \in CommittedGenerations : g < op.at[2]

\* What a reader finds while an operation is under way.
OutcomeSoFar ==
    op # None => Saved = IF pc = "drop_backup" /\ op.kind = "chunks" THEN op.to ELSE op.from

\* What the steps of an operation o before this one have made of its target t.
TargetAfter(next, t, o) ==
    /\ next = "write_table" =>
           \/ t.staged = None
           \/ /\ t.staged.index = None
              /\ DOMAIN t.staged.files \subseteq DOMAIN o.edits
              /\ \A c \in DOMAIN t.staged.files : t.staged.files[c] = o.edits[c]
    /\ next \in {"settle_backup", "park_table", "install_table"} => t.staged = TableOf(o.edits)
    /\ next = "park_table" => t.backup = None
    /\ next \in {"install_table", "roll_back"} => t.chunks = None
    /\ next = "roll_back" => t.backup # None
    /\ next \in {"drop_backup", "write_snapshot_file", "commit_generation"} =>
           t.chunks = TableOf(o.edits)
    /\ next = "commit_generation" => t.snapshot = o.snapshot

\* The generation that current.txt is about to name holds the whole snapshot.
PromotedIsWhole ==
    pc = "publish" =>
        LET promoted == root[<<"committed", op.at[2]>>]
        IN  /\ promoted \in SaveRoots
            /\ promoted.chunks = TableOf(op.edits)
            /\ promoted.snapshot = op.snapshot

TargetAgrees ==
    /\ op # None => TargetAfter(pc, Target, op)
    /\ PromotedIsWhole

\* What the phases of a maintenance pass that are over have left.
PhasesAreDone ==
    op # None /\ op.kind = "maintain" =>
        /\ pc \in {"prune", "compact"} /\ "recover" \in op.phases => StagedGenerations = {}
        /\ pc = "compact" /\ "prune" \in op.phases /\ current # 0 =>
               Cardinality(Stale) <= op.keep

SaveInv ==
    /\ DiskIsSound
    /\ OperationTypes
    /\ RequestAgrees
    /\ GenerationIsNew
    /\ OutcomeSoFar
    /\ TargetAgrees
    /\ PhasesAreDone

-----------------------------------------------------------------------------
(* Edits, tables and roots.                                                   *)

\* What can be read from a root.
SavedIn(r) == [world |-> IF r.snapshot = None THEN None ELSE r.snapshot.world,
               edits |-> EffectiveEdits(r)]

\* A set of edits is a function from some of the coordinates.
LEMMA EditsAreFunctions ==
  ASSUME NEW edits
  PROVE  edits \in Edits <=> /\ DOMAIN edits \subseteq Coords
                             /\ edits \in [DOMAIN edits -> Deltas]
<1>1. ASSUME edits \in Edits
      PROVE  DOMAIN edits \subseteq Coords /\ edits \in [DOMAIN edits -> Deltas]
  <2>1. PICK S \in SUBSET Coords : edits \in [S -> Deltas]
    BY <1>1 DEF Edits
  <2> QED
    BY <2>1
<1>2. ASSUME DOMAIN edits \subseteq Coords, edits \in [DOMAIN edits -> Deltas]
      PROVE  edits \in Edits
  <2>1. DOMAIN edits \in SUBSET Coords
    BY <1>2
  <2> QED
    BY <1>2, <2>1 DEF Edits
<1> QED
  BY <1>1, <1>2

\* So are the payload files of a table, some of which may be unreadable.
Payloads == UNION {[cs -> Deltas \cup {Broken}] : cs \in SUBSET Coords}

LEMMA PayloadsAreFunctions ==
  ASSUME NEW files
  PROVE  files \in Payloads <=> /\ DOMAIN files \subseteq Coords
                                /\ files \in [DOMAIN files -> Deltas \cup {Broken}]
<1>1. ASSUME files \in Payloads
      PROVE  DOMAIN files \subseteq Coords /\ files \in [DOMAIN files -> Deltas \cup {Broken}]
  <2>1. PICK S \in SUBSET Coords : files \in [S -> Deltas \cup {Broken}]
    BY <1>1 DEF Payloads
  <2> QED
    BY <2>1
<1>2. ASSUME DOMAIN files \subseteq Coords, files \in [DOMAIN files -> Deltas \cup {Broken}]
      PROVE  files \in Payloads
  <2>1. DOMAIN files \in SUBSET Coords
    BY <1>2
  <2> QED
    BY <1>2, <2>1 DEF Payloads
<1> QED
  BY <1>1, <1>2

\* No edits are edits.
LEMMA NoEditsFacts ==
  NoEdits \in Edits /\ NoEdits \in Payloads /\ DOMAIN NoEdits = {}
<1>1. DOMAIN NoEdits = {} /\ NoEdits \in [{} -> Deltas] /\ NoEdits \in [{} -> Deltas \cup {Broken}]
  BY DEF NoEdits
<1> QED
  BY <1>1, EditsAreFunctions, PayloadsAreFunctions

\* Merging one delta into a set of edits gives a set of edits.
LEMMA MergedType ==
  ASSUME NEW write \in Coords \X Deltas, NEW edits \in Edits
  PROVE  Merged(write, edits) \in Edits
<1> DEFINE m == Merged(write, edits)
<1>1. write[1] \in Coords /\ write[2] \in Deltas
  OBVIOUS
<1>2. DOMAIN edits \subseteq Coords /\ edits \in [DOMAIN edits -> Deltas]
  BY EditsAreFunctions
<1>3. m \in [DOMAIN edits \cup {write[1]} -> Deltas]
  BY <1>1, <1>2 DEF Merged, Extended
<1> HIDE DEF m
<1>4. DOMAIN m \subseteq Coords /\ m \in [DOMAIN m -> Deltas]
  BY <1>1, <1>2, <1>3
<1> QED
  BY <1>4, EditsAreFunctions DEF m

\* The fields of a table and of a root.
LEMMA TableFields ==
  ASSUME NEW t \in Tables
  PROVE  /\ t.files \in Payloads /\ t.index \in (SUBSET Coords) \cup {None, Broken}
         /\ t # None /\ t # Broken
  BY MarkersStandApart DEF Tables, Payloads

LEMMA RootFields ==
  ASSUME NEW r \in SaveRoots
  PROVE  /\ r.snapshot \in SnapshotFiles \cup {None, Broken}
         /\ r.chunks \in Tables \cup {None} /\ r.staged \in Tables \cup {None}
         /\ r.backup \in Tables \cup {None}
         /\ r # None /\ r # Broken
         /\ ReadableTable(r) \in Tables \cup {None}
  BY MarkersStandApart DEF SaveRoots, ReadableTable

\* What is read depends on the snapshot file and on the table being read.
LEMMA SameSave ==
  ASSUME NEW r, NEW s, r.snapshot = s.snapshot, ReadableTable(r) = ReadableTable(s)
  PROVE  EffectiveEdits(r) = EffectiveEdits(s) /\ SavedIn(r) = SavedIn(s)
<1>1. EffectiveEdits(r) = EffectiveEdits(s)
  BY DEF EffectiveEdits, HasTable
<1> QED
  BY <1>1 DEF SavedIn

\* A root that can be read holds a save.
LEMMA ReadableIsSave ==
  ASSUME NEW r, Readable(r)
  PROVE  EffectiveEdits(r) \in Edits /\ SavedIn(r) \in Saves
<1>1. r \in SaveRoots /\ r.snapshot \in SnapshotFiles \cup {None}
  BY RootFields DEF Readable
<1>2. EffectiveEdits(r) \in Edits
  <2>1. CASE HasTable(r)
    <3> DEFINE table == ReadableTable(r)
    <3>1. table \in Tables /\ table.index # None
      BY <1>1, <2>1, RootFields DEF HasTable
    <3>2. EffectiveEdits(r) = IF TableIsWhole(table) THEN Restrict(table.files, table.index)
                                                     ELSE Broken
      BY <2>1 DEF EffectiveEdits
    <3> HIDE DEF table
    <3>3. TableIsWhole(table) /\ EffectiveEdits(r) = Restrict(table.files, table.index)
      BY <3>2 DEF Readable
    <3>4. table.index \in SUBSET Coords /\ table.files \in Payloads
      <4>1. table.index # Broken
        BY <3>3 DEF TableIsWhole
      <4> QED
        BY <3>1, <4>1, TableFields
    <3>5. table.files \in [DOMAIN table.files -> Deltas \cup {Broken}]
      BY <3>4, PayloadsAreFunctions
    <3>6. \A c \in table.index : c \in DOMAIN table.files /\ table.files[c] \in Deltas
      BY <3>3, <3>5 DEF TableIsWhole
    <3>7. /\ DOMAIN Restrict(table.files, table.index) = table.index
          /\ Restrict(table.files, table.index) \in [table.index -> Deltas]
      BY <3>6 DEF Restrict
    <3> QED
      BY <3>3, <3>4, <3>7, EditsAreFunctions
  <2>2. CASE ~HasTable(r) /\ r.snapshot = None
    <3>1. EffectiveEdits(r) = NoEdits
      BY <2>2, SaveConstants DEF EffectiveEdits
    <3> QED
      BY <3>1, NoEditsFacts
  <2>3. CASE ~HasTable(r) /\ r.snapshot \in SnapshotFiles
    <3>1. r.snapshot # None /\ r.snapshot # Broken
      BY <2>3, MarkersStandApart
    <3>2. EffectiveEdits(r) = r.snapshot.edits
      BY <2>3, <3>1 DEF EffectiveEdits
    <3> QED
      BY <2>3, <3>2 DEF SnapshotFiles
  <2> QED
    BY <1>1, <2>1, <2>2, <2>3
<1>3. SavedIn(r).world \in Worlds \cup {None}
  BY <1>1 DEF SavedIn, SnapshotFiles
<1> QED
  BY <1>1, <1>2 DEF SavedIn, Saves, SnapshotFiles

\* A whole table holds exactly the edits it was written from.
LEMMA InstalledIsRead ==
  ASSUME NEW r \in SaveRoots, NEW edits \in Edits, r.chunks = TableOf(edits),
         r.snapshot # Broken
  PROVE  /\ TableOf(edits) \in Tables
         /\ Readable(r) /\ EffectiveEdits(r) = edits
<1> DEFINE table == TableOf(edits)
<1>1. table.files = edits /\ table.index = DOMAIN edits
  BY DEF TableOf
<1>2. DOMAIN edits \in SUBSET Coords /\ edits \in [DOMAIN edits -> Deltas]
  BY EditsAreFunctions
<1>3. edits \in Payloads
  BY <1>2, PayloadsAreFunctions
<1>4. table \in Tables
  BY <1>2, <1>3 DEF TableOf, Tables, Payloads
<1>5. table # None /\ table.index # None /\ table.index # Broken
  BY <1>1, <1>2, <1>4, MarkersStandApart
<1> HIDE DEF table
<1>6. ReadableTable(r) = table
  BY <1>5 DEF ReadableTable, table
<1>7. \A c \in DOMAIN edits : edits[c] # Broken
  BY <1>2, SaveConstants
<1>8. TableIsWhole(table) /\ HasTable(r)
  BY <1>1, <1>5, <1>6, <1>7 DEF TableIsWhole, HasTable
<1>9. EffectiveEdits(r) = Restrict(edits, DOMAIN edits)
  BY <1>1, <1>6, <1>8 DEF EffectiveEdits
<1>10. Restrict(edits, DOMAIN edits) = edits
  BY <1>2 DEF Restrict
<1>11. edits # Broken
  BY MarkersStandApart
<1> QED
  BY <1>4, <1>9, <1>10, <1>11 DEF Readable, table

-----------------------------------------------------------------------------
(* The disk: what a reader finds there, and what changing one root does to it. *)

LEMMA OperationFields ==
  ASSUME NEW o \in Operations
  PROVE  /\ o # None
         /\ o.kind \in Kinds /\ o.from \in Saves /\ o.to \in Saves
         /\ o.edits \in Edits /\ o.snapshot \in SnapshotFiles \cup {None}
         /\ o.phases \subseteq MaintenancePhases /\ o.keep \in Nat
  BY MarkersStandApart DEF Operations

LEMMA ActiveFacts ==
  ASSUME DiskIsSound
  PROVE  /\ current # Broken /\ Active = <<"committed", current>> /\ Active \in Locations
         /\ root[Active] \in SaveRoots /\ root[Active] # None /\ ActiveExists
         /\ Saved = SavedIn(root[Active]) /\ Saved \in Saves /\ Saved # Broken
<1>1. current \in 0 .. MaxGeneration /\ Readable(root[Active])
  BY DEF DiskIsSound
<1>2. current # Broken /\ Active = <<"committed", current>> /\ Active \in Locations
  BY <1>1, SaveConstants, MarkersStandApart DEF Active, Locations
<1>3. root[Active] \in SaveRoots /\ root[Active] # None
  BY <1>1, RootFields DEF Readable
<1>4. Saved = SavedIn(root[Active])
  BY <1>1, <1>2, <1>3 DEF Saved, SavedIn, ActiveExists, Readable
<1>5. SavedIn(root[Active]) \in Saves
  BY <1>1, ReadableIsSave
<1> QED
  BY <1>2, <1>3, <1>4, <1>5, MarkersStandApart DEF ActiveExists

\* The same after a step.
LEMMA SavedNext ==
  ASSUME NEW r, Readable(r), root'[<<"committed", current'>>] = r, current' \in Nat
  PROVE  Saved' = SavedIn(r)
<1>1. r # None /\ current' # Broken
  BY RootFields, MarkersStandApart DEF Readable
<1>2. Active' = <<"committed", current'>> /\ root'[Active'] = r
  BY DEF Active
<1> QED
  BY <1>1, <1>2 DEF Saved, SavedIn, ActiveExists, Readable

\* The entries of the two kinds of directory.
LEMMA GenerationLocations ==
  /\ \A g \in 0 .. MaxGeneration : /\ <<"committed", g>> \in Locations
                                   /\ <<"staging", g>> \in Locations
  /\ \A g, h : <<"committed", g>> # <<"staging", h>>
  /\ \A g, h : <<"committed", g>> = <<"committed", h>> <=> g = h
  /\ \A g, h : <<"staging", g>> = <<"staging", h>> <=> g = h
  BY DEF Locations

LEMMA NumberedLocations ==
  ASSUME NEW g \in 1 .. MaxGeneration
  PROVE  <<"committed", g>> \in Locations /\ <<"staging", g>> \in Locations /\ g # 0
  BY SaveConstants DEF Locations

\* A step that writes one root leaves the disk sound, and a reader finds what
\* he found before unless it is the active root.
LEMMA RootStep ==
  ASSUME DiskIsSound, NEW at \in Locations, at # <<"staging", 0>>,
         NEW r \in SaveRoots \cup {None}, at = Active => Readable(r),
         root' = [root EXCEPT ![at] = r], current' = current
  PROVE  /\ root'[at] = r
         /\ root' \in [Locations -> SaveRoots \cup {None}]
         /\ \A other \in Locations : other # at => root'[other] = root[other]
         /\ DiskIsSound'
         /\ Saved' = IF at = Active THEN SavedIn(r) ELSE Saved
<1>1. /\ root \in [Locations -> SaveRoots \cup {None}] /\ root[<<"staging", 0>>] = None
      /\ current \in 0 .. MaxGeneration /\ Readable(root[Active])
      /\ current # 0 => current \in CommittedGenerations
  BY DEF DiskIsSound
<1>2. /\ root'[at] = r
      /\ root' \in [Locations -> SaveRoots \cup {None}]
      /\ \A other \in Locations : other # at => root'[other] = root[other]
  BY <1>1
<1>3. Active = <<"committed", current>> /\ Active \in Locations /\ current \in Nat
  BY <1>1, ActiveFacts, SaveConstants
<1>4. PICK a : a = root'[<<"committed", current>>]
  OBVIOUS
<1>5. Readable(a) /\ SavedIn(a) = IF at = Active THEN SavedIn(r) ELSE Saved
  <2>1. CASE at = Active
    BY <1>2, <1>3, <1>4, <2>1
  <2>2. CASE at # Active
    <3>1. a = root[Active]
      BY <1>2, <1>3, <1>4, <2>2
    <3> QED
      BY <1>1, <2>2, <3>1, ActiveFacts
  <2> QED
    BY <2>1, <2>2
<1>6. Saved' = SavedIn(a)
  BY <1>3, <1>4, <1>5, SavedNext
<1>7. current # 0 => current \in CommittedGenerations'
  <2> SUFFICES ASSUME current # 0
               PROVE  current \in CommittedGenerations'
    OBVIOUS
  <2>1. current \in 1 .. MaxGeneration
    BY <1>1
  <2>2. a # None
    BY <1>5, RootFields DEF Readable
  <2> QED
    BY <1>4, <2>1, <2>2 DEF CommittedGenerations
<1>8. root'[<<"staging", 0>>] = None
  BY <1>1, <1>2, GenerationLocations, SaveConstants
<1>9. Readable(root[Active])'
  BY <1>4, <1>5 DEF Active
<1> QED
  BY <1>1, <1>2, <1>5, <1>6, <1>7, <1>8, <1>9 DEF DiskIsSound

\* A step that leaves the disk alone.
LEMMA DiskStands ==
  ASSUME DiskIsSound, UNCHANGED disk
  PROVE  /\ DiskIsSound' /\ Saved' = Saved
         /\ CommittedGenerations' = CommittedGenerations
         /\ StagedGenerations' = StagedGenerations
         /\ Stale' = Stale
         /\ root' = root /\ current' = current
<1>1. root' = root /\ current' = current
  BY DEF disk
<1>2. /\ CommittedGenerations' = CommittedGenerations
      /\ StagedGenerations' = StagedGenerations
      /\ Active' = Active
  BY <1>1 DEF CommittedGenerations, StagedGenerations, Active
<1>3. Stale' = Stale
  BY <1>1, <1>2 DEF Stale
<1>4. Readable(root[Active]) /\ root'[<<"committed", current'>>] = root[Active]
  BY <1>1 DEF DiskIsSound, Active
<1>5. Saved' = Saved
  <2>1. current' \in Nat
    BY <1>1, SaveConstants DEF DiskIsSound
  <2> QED
    BY <1>4, <2>1, SavedNext, ActiveFacts
<1>6. Readable(root[Active])'
  BY <1>1, <1>2, <1>4
<1> QED
  BY <1>1, <1>2, <1>3, <1>5, <1>6 DEF DiskIsSound

-----------------------------------------------------------------------------
(* The operation: what a step that begins, continues or ends one does.        *)

\* What one step may do to the store, for its one caller.
Effect ==
    \/ /\ op = None /\ op' # None
       /\ op'.from = Saved /\ op'.from \in Saves /\ op'.to \in Saves
       /\ reply' = "none" /\ Saved' = Saved
    \/ /\ op # None /\ op' # None
       /\ op'.from = op.from /\ op'.to = op.to
       /\ reply' = reply /\ Saved' \in {Saved, op.to}
    \/ /\ op # None /\ op' = None
       /\ \/ reply' = "ok" /\ Saved' = op.to
          \/ reply' = "error" /\ Saved = op.from /\ Saved' = Saved
          \/ reply' = "none" /\ Saved' = Saved

LEMMA EffectIsStoreStep ==
  ASSUME OperationTypes, Effect
  PROVE  [Store!Next]_(Store!vars)
<1> DEFINE request == IF op = None THEN None ELSE [from |-> op.from, to |-> op.to]
<1>1. op # None => request = [from |-> op.from, to |-> op.to] /\ request # None
  <2> SUFFICES ASSUME op # None
               PROVE  request = [from |-> op.from, to |-> op.to] /\ request # None
    OBVIOUS
  <2>1. op.from \in Saves /\ op.to \in Saves
    BY OperationFields DEF OperationTypes
  <2>2. [from |-> op.from, to |-> op.to] \in [from : Saves, to : Saves]
    BY <2>1
  <2> QED
    BY <2>2, MarkersStandApart
<1>2. CASE /\ op = None /\ op' # None
           /\ op'.from = Saved /\ op'.from \in Saves /\ op'.to \in Saves
           /\ reply' = "none" /\ Saved' = Saved
  <2>1. request = None /\ request' = [from |-> Saved, to |-> op'.to]
    BY <1>2
  <2>2. request' # None
    <3>1. request' \in [from : Saves, to : Saves]
      BY <1>2, <2>1
    <3> QED
      BY <3>1, MarkersStandApart
  <2>3. Store!Ask
    BY <1>2, <2>1, <2>2 DEF Store!Ask
  <2> QED
    BY <2>3 DEF Store!Next
<1>3. CASE /\ op # None /\ op' # None
           /\ op'.from = op.from /\ op'.to = op.to
           /\ reply' = reply /\ Saved' \in {Saved, op.to}
  <2>1. request' = request /\ request.to = op.to
    BY <1>1, <1>3
  <2>2. CASE Saved' = Saved
    BY <1>3, <2>1, <2>2 DEF Store!vars
  <2>3. CASE Saved' = op.to
    <3>1. Store!Take
      BY <1>1, <1>3, <2>1, <2>3 DEF Store!Take
    <3> QED
      BY <3>1 DEF Store!Next
  <2> QED
    BY <1>3, <2>2, <2>3
<1>4. CASE /\ op # None /\ op' = None
           /\ \/ reply' = "ok" /\ Saved' = op.to
              \/ reply' = "error" /\ Saved = op.from /\ Saved' = Saved
              \/ reply' = "none" /\ Saved' = Saved
  <2>1. request # None /\ request' = None /\ request.from = op.from /\ request.to = op.to
    BY <1>1, <1>4
  <2>2. Store!Succeed \/ Store!Fail \/ Store!Die
    BY <1>4, <2>1 DEF Store!Succeed, Store!Fail, Store!Die, Store!Answer
  <2> QED
    BY <2>2 DEF Store!Next
<1> QED
  BY <1>2, <1>3, <1>4 DEF Effect

\* An operation that answers has done all or nothing.
LEMMA Returned ==
  ASSUME SaveInv, DiskIsSound', op # None, NEW answer, Return(answer),
         \/ answer = "ok" /\ Saved' = op.to
         \/ answer = "error" /\ Saved = op.from /\ Saved' = Saved
         \/ answer = "none" /\ Saved' = Saved
  PROVE  SaveInv' /\ Effect
<1>1. pc' = "idle" /\ op' = None /\ reply' = answer
  BY DEF Return
<1>2. OperationTypes'
  BY <1>1 DEF OperationTypes
<1>3. RequestAgrees' /\ GenerationIsNew' /\ OutcomeSoFar' /\ PhasesAreDone'
  BY <1>1 DEF RequestAgrees, GenerationIsNew, OutcomeSoFar, PhasesAreDone
<1>4. TargetAgrees'
  BY <1>1 DEF TargetAgrees, PromotedIsWhole
<1>5. Effect
  BY <1>1 DEF Effect
<1> QED
  BY <1>2, <1>3, <1>4, <1>5 DEF SaveInv

\* The steps at which the target is known.
TargetSteps == TableSteps \cup {"clear_staging", "write_snapshot_file", "commit_generation",
                                "undo_generation"}

LEMMA TargetFacts ==
  ASSUME SaveInv, pc \in TargetSteps
  PROVE  /\ op # None /\ op.kind \in {"snapshot", "chunks"} /\ op \in Operations
         /\ op.at \in Locations /\ op.at # <<"staging", 0>>
         /\ op.kind = "snapshot" => /\ op.at # Active
                                    /\ \E n \in 1 .. MaxGeneration : op.at = <<"staging", n>>
         /\ op.kind = "chunks" => op.at = Active /\ pc \in TableSteps
         /\ Target \in SaveRoots
<1>1. op # None /\ op \in Operations /\ pc \in StepsOf(op.kind)
  BY DEF SaveInv, OperationTypes, TargetSteps, TableSteps
<1>2. op.kind \in Kinds
  BY <1>1, OperationFields
<1>3. op.kind # "maintain"
  BY <1>1 DEF StepsOf, MaintainSteps, TargetSteps, TableSteps
<1>4. op.kind \in {"snapshot", "chunks"}
  BY <1>2, <1>3 DEF Kinds
<1>5. op.kind = "chunks" => pc \in TableSteps /\ op.at = Active
  <2>1. op.kind = "chunks" => pc \in ChunkSteps
    BY <1>1 DEF StepsOf
  <2>2. op.kind = "chunks" => pc \in TableSteps
    BY <2>1 DEF ChunkSteps, TargetSteps, TableSteps
  <2> QED
    BY <1>1, <2>2 DEF SaveInv, RequestAgrees
<1>6. op.kind = "snapshot" => \E n \in 1 .. MaxGeneration : op.at = <<"staging", n>>
  BY <1>1 DEF SaveInv, GenerationIsNew, TargetSteps, TableSteps
<1>7. DiskIsSound
  BY DEF SaveInv
<1>8. /\ op.at \in Locations /\ op.at # <<"staging", 0>>
      /\ op.kind = "snapshot" => op.at # Active
  <2>1. CASE op.kind = "chunks"
    BY <1>5, <1>7, <2>1, ActiveFacts
  <2>2. CASE op.kind = "snapshot"
    <3>1. PICK n \in 1 .. MaxGeneration : op.at = <<"staging", n>>
      BY <1>6, <2>2
    <3>2. <<"staging", n>> \in Locations /\ n # 0
      BY NumberedLocations
    <3>3. Active = <<"committed", current>>
      BY <1>7, ActiveFacts
    <3> QED
      BY <3>1, <3>2, <3>3
  <2> QED
    BY <1>4, <2>1, <2>2
<1>9. Target \in SaveRoots
  <2>1. root[op.at] \in SaveRoots \cup {None}
    BY <1>7, <1>8 DEF DiskIsSound
  <2>2. EmptyRoot \in SaveRoots
    BY DEF EmptyRoot, SaveRoots
  <2> QED
    BY <2>1, <2>2 DEF Target, Opened
<1> QED
  BY <1>1, <1>4, <1>5, <1>6, <1>8, <1>9

\* An operation that goes on has changed its target as the next step expects.
LEMMA Continued ==
  ASSUME SaveInv, DiskIsSound', pc \in TargetSteps,
         NEW next \in TargetSteps, next \in StepsOf(op.kind), Continue(next),
         current' = current, CommittedGenerations' = CommittedGenerations,
         Saved' \in {Saved, op.to},
         Saved' = IF next = "drop_backup" /\ op.kind = "chunks" THEN op.to ELSE op.from,
         NEW t, Target' = t, TargetAfter(next, t, op)
  PROVE  SaveInv' /\ Effect
<1>1. pc' = next /\ op' = op /\ reply' = reply
  BY DEF Continue
<1>2. /\ op # None /\ op.kind \in {"snapshot", "chunks"}
      /\ op.kind = "chunks" => op.at = Active /\ pc \in TableSteps
  BY TargetFacts
<1>3. next # "idle" /\ next # "publish" /\ next # "merge_delta" /\ next # "next_generation"
  BY DEF TargetSteps, TableSteps
<1>4. pc # "idle" /\ pc # "publish" /\ pc # "merge_delta" /\ pc # "next_generation"
  BY DEF TargetSteps, TableSteps
<1>5. OperationTypes'
  BY <1>1, <1>2, <1>3 DEF SaveInv, OperationTypes
<1>6. RequestAgrees'
  <2>1. Active' = Active
    BY DEF Active
  <2> QED
    BY <1>1, <1>2, <1>3, <1>4, <2>1 DEF SaveInv, RequestAgrees
<1>7. GenerationIsNew'
  BY <1>1, <1>3, <1>4 DEF SaveInv, GenerationIsNew
<1>8. OutcomeSoFar'
  BY <1>1 DEF OutcomeSoFar
<1>9. TargetAgrees'
  BY <1>1, <1>3 DEF TargetAgrees, PromotedIsWhole
<1>10. PhasesAreDone'
  BY <1>1, <1>2 DEF PhasesAreDone
<1>11. Effect
  BY <1>1, <1>2 DEF Effect
<1> QED
  BY <1>5, <1>6, <1>7, <1>8, <1>9, <1>10, <1>11 DEF SaveInv

\* An operation that begins.
LEMMA Begun ==
  ASSUME SaveInv, NEW o \in Operations, NEW next, Begin(o, next), o.from = Saved,
         \/ /\ o.kind = "snapshot" /\ next = "next_generation"
            /\ o.to = o.snapshot /\ o.snapshot \in SnapshotFiles /\ o.edits = o.snapshot.edits
         \/ /\ o.kind = "chunks" /\ next = "merge_delta" /\ o.to.world = Saved.world
            /\ o.write \in Coords \X Deltas /\ o.to.edits = Merged(o.write, Saved.edits)
         \/ /\ o.kind = "chunks" /\ next = "find_active" /\ o.to.world = Saved.world
            /\ o.edits = o.to.edits
         \/ o.kind = "maintain" /\ next = "recover" /\ o.to = Saved
  PROVE  SaveInv' /\ Effect
<1>1. pc = "idle" /\ pc' = next /\ op' = o /\ reply' = "none" /\ UNCHANGED disk
  BY DEF Begin
<1>2. op = None /\ o # None /\ o.from \in Saves /\ o.to \in Saves
  BY <1>1, OperationFields DEF SaveInv, OperationTypes
<1>3. DiskIsSound' /\ Saved' = Saved
  BY <1>1, DiskStands DEF SaveInv
<1>4. next # "idle" /\ next \in StepsOf(o.kind)
  BY DEF StepsOf, SnapshotSteps, ChunkSteps, MaintainSteps
<1>5. OperationTypes'
  BY <1>1, <1>2, <1>4 DEF OperationTypes
<1>6. next \notin TargetSteps /\ next # "publish" /\ next \notin {"prune", "compact"}
  BY DEF TargetSteps, TableSteps
<1>7. RequestAgrees'
  BY <1>1, <1>6 DEF RequestAgrees, TargetSteps
<1>8. GenerationIsNew' /\ PhasesAreDone'
  BY <1>1, <1>6 DEF GenerationIsNew, PhasesAreDone
<1>9. OutcomeSoFar'
  BY <1>1, <1>3, <1>6 DEF OutcomeSoFar, TargetSteps, TableSteps
<1>10. TargetAgrees'
  BY <1>1, <1>6 DEF TargetAgrees, TargetAfter, PromotedIsWhole, TargetSteps, TableSteps
<1>11. Effect
  BY <1>1, <1>2, <1>3 DEF Effect
<1> QED
  BY <1>3, <1>5, <1>7, <1>8, <1>9, <1>10, <1>11 DEF SaveInv

-----------------------------------------------------------------------------
(* Requests, and what may cut an operation short.                             *)

LEMMA RequestStep ==
  ASSUME SaveInv, Request
  PROVE  SaveInv' /\ Effect
<1>1. Saved \in Saves /\ Saved # Broken
  BY ActiveFacts DEF SaveInv
<1>2. NoTarget \in Locations \cup {NoTarget} /\ NoEdits \in Edits /\ 0 \in Nat
  BY NoEditsFacts
<1>3. ASSUME NEW s \in SnapshotFiles, WriteSnapshot(s)
      PROVE  SaveInv' /\ Effect
  <2> DEFINE o == [Operation("snapshot", s) EXCEPT !.snapshot = s, !.edits = s.edits]
  <2>1. s \in Saves /\ s.edits \in Edits
    BY DEF SnapshotFiles, Saves
  <2>2. o \in Operations
    BY <1>1, <1>2, <2>1 DEF Operation, Operations, Kinds
  <2>3. /\ o.from = Saved /\ o.kind = "snapshot" /\ o.to = s /\ o.snapshot = s
        /\ o.edits = s.edits
    BY DEF Operation
  <2>4. Begin(o, "next_generation")
    BY <1>3 DEF WriteSnapshot
  <2> HIDE DEF o
  <2>5. PICK p : p = o
    OBVIOUS
  <2> QED
    BY <2>2, <2>3, <2>4, <2>5, Begun
<1>4. ASSUME NEW s \in Snapshots, WriteSnapshot(s)
      PROVE  SaveInv' /\ Effect
  BY <1>3, <1>4, SaveConstants DEF SnapshotFiles
<1>5. ASSUME NEW w \in Worlds, MigrateToSchema(w)
      PROVE  SaveInv' /\ Effect
  <2>1. Saved.world \in Worlds /\ WriteSnapshot([Saved EXCEPT !.world = w])
    BY <1>5 DEF MigrateToSchema
  <2>2. [Saved EXCEPT !.world = w] \in SnapshotFiles
    BY <1>1 DEF Saves, SnapshotFiles
  <2> QED
    BY <1>3, <2>1, <2>2
<1>6. ASSUME NEW write \in ChunkDeltas, WriteChunkDelta(write)
      PROVE  SaveInv' /\ Effect
  <2> DEFINE to == [Saved EXCEPT !.edits = Merged(write, @)]
             o == [Operation("chunks", to) EXCEPT !.write = write]
  <2>1. write \in Coords \X Deltas
    BY SaveConstants
  <2>2. Merged(write, Saved.edits) \in Edits
    BY <1>1, <2>1, MergedType DEF Saves
  <2>3. to \in Saves /\ to.world = Saved.world /\ to.edits = Merged(write, Saved.edits)
    BY <1>1, <2>2 DEF Saves
  <2>4. Begin(o, "merge_delta")
    BY <1>6 DEF WriteChunkDelta
  <2> HIDE DEF to
  <2>5. o \in Operations
    BY <1>1, <1>2, <2>1, <2>3 DEF Operation, Operations, Kinds
  <2>6. o.from = Saved /\ o.kind = "chunks" /\ o.to = to /\ o.write = write
    BY DEF Operation
  <2> HIDE DEF o
  <2> QED
    BY <2>1, <2>3, <2>4, <2>5, <2>6, Begun
<1>7. ASSUME NEW edits \in BulkEdits, WriteChunkDeltas(edits)
      PROVE  SaveInv' /\ Effect
  <2> DEFINE to == [Saved EXCEPT !.edits = edits]
             o == [Operation("chunks", to) EXCEPT !.edits = edits]
  <2>1. edits \in Edits
    BY SaveConstants
  <2>2. to \in Saves /\ to.world = Saved.world /\ to.edits = edits
    BY <1>1, <2>1 DEF Saves
  <2>3. Begin(o, "find_active")
    BY <1>7 DEF WriteChunkDeltas
  <2> HIDE DEF to
  <2>4. o \in Operations
    BY <1>1, <1>2, <2>1, <2>2 DEF Operation, Operations, Kinds
  <2>5. o.from = Saved /\ o.kind = "chunks" /\ o.to = to /\ o.edits = edits
    BY DEF Operation
  <2> HIDE DEF o
  <2> QED
    BY <2>2, <2>3, <2>4, <2>5, Begun
<1>8. ASSUME NEW phases \in SUBSET MaintenancePhases, NEW keep \in 0 .. 1,
             Maintain(phases, keep)
      PROVE  SaveInv' /\ Effect
  <2> DEFINE o == [Operation("maintain", Saved) EXCEPT !.phases = phases, !.keep = keep]
  <2>1. Begin(o, "recover")
    BY <1>8 DEF Maintain
  <2>2. o \in Operations
    <3>1. keep \in Nat /\ phases \in SUBSET MaintenancePhases
      OBVIOUS
    <3> QED
      BY <1>1, <1>2, <3>1 DEF Operation, Operations, Kinds
  <2>3. o.from = Saved /\ o.kind = "maintain" /\ o.to = Saved
    BY DEF Operation
  <2> HIDE DEF o
  <2> QED
    BY <2>1, <2>2, <2>3, Begun
<1> QED
  BY <1>4, <1>5, <1>6, <1>7, <1>8 DEF Request

\* An operation that fails before it has changed anything, or is cut off.
LEMMA StoppedStep ==
  ASSUME SaveInv, ReadFails \/ GenerationsExhausted \/ Crash
  PROVE  SaveInv' /\ Effect
<1>1. UNCHANGED disk
  BY DEF ReadFails, GenerationsExhausted, Crash
<1>2. DiskIsSound' /\ Saved' = Saved
  BY <1>1, DiskStands DEF SaveInv
<1>3. pc # "idle" /\ op # None
  BY DEF ReadFails, GenerationsExhausted, Crash, SaveInv, OperationTypes
<1>4. CASE ReadFails \/ GenerationsExhausted
  <2>1. Return("error") /\ pc # "drop_backup"
    BY <1>4 DEF ReadFails, GenerationsExhausted
  <2>2. Saved = op.from
    BY <1>3, <2>1 DEF SaveInv, OutcomeSoFar
  <2> QED
    BY <1>2, <1>3, <2>1, <2>2, Returned
<1>5. CASE Crash
  <2>1. Return("none")
    BY <1>5 DEF Crash, Return
  <2> QED
    BY <1>2, <1>3, <2>1, Returned
<1> QED
  BY <1>4, <1>5

-----------------------------------------------------------------------------
(* Generation numbers.                                                        *)

LEMMA MinFacts ==
  ASSUME NEW S, S \subseteq Nat, S # {}
  PROVE  Min(S) \in S /\ \A x \in S : Min(S) <= x
<1>1. PICK least \in S : \A y \in S : <<y, least>> \notin OpToRel(<, Nat)
  BY NatLessThanWellFounded, WFMin
<1>2. \A y \in S : ~ (y < least)
  BY <1>1, Zenon DEF OpToRel
<1>3. \A y \in S : least <= y
  BY <1>2
<1> QED
  BY <1>3 DEF Min

LEMMA MaxFacts ==
  ASSUME NEW N \in Nat, NEW S, S \subseteq 0 .. N, S # {}
  PROVE  Max(S) \in S /\ \A x \in S : x <= Max(S)
<1> DEFINE distances == {N - x : x \in S}
<1>1. \A x \in S : x \in Nat /\ N - x \in Nat
  OBVIOUS
<1>2. distances \subseteq Nat /\ distances # {}
  BY <1>1
<1>3. PICK d \in distances : \A other \in distances : d <= other
  BY <1>2, MinFacts
<1>4. PICK greatest \in S : d = N - greatest
  OBVIOUS
<1>5. \A x \in S : N - greatest <= N - x
  BY <1>3, <1>4
<1>6. \A x \in S : greatest >= x
  BY <1>1, <1>5
<1> QED
  BY <1>6 DEF Max

\* The next generation is newer than every committed one, the active one included.
LEMMA NextGenerationIsNewest ==
  ASSUME DiskIsSound
  PROVE  /\ NextGeneration \in Nat \ {0}
         /\ \A g \in CommittedGenerations : g < NextGeneration
         /\ current < NextGeneration
<1> DEFINE S == CommittedGenerations \cup {0}
<1>1. S \subseteq 0 .. MaxGeneration /\ S # {}
  BY SaveConstants DEF CommittedGenerations
<1>2. Max(S) \in S /\ \A x \in S : x <= Max(S)
  BY <1>1, MaxFacts, SaveConstants
<1>3. Max(S) \in Nat /\ NextGeneration = Max(S) + 1
  BY <1>1, <1>2 DEF NextGeneration
<1>4. \A x \in S : x \in Nat
  BY <1>1
<1>5. current \in S
  BY SaveConstants DEF DiskIsSound
<1> HIDE DEF S
<1>6. \A x \in S : x < NextGeneration
  BY <1>2, <1>3, <1>4
<1>7. \A g \in CommittedGenerations : g < NextGeneration
  BY <1>6 DEF S
<1>8. current < NextGeneration
  BY <1>5, <1>6
<1> QED
  BY <1>3, <1>7, <1>8

-----------------------------------------------------------------------------
(* Finding the target.                                                        *)

LEMMA Located ==
  ASSUME SaveInv, op # None, pc # "drop_backup", UNCHANGED disk, reply' = reply,
         NEW o \in Operations, op' = o, NEW next, pc' = next,
         o.kind = op.kind, o.from = op.from, o.to = op.to, o.snapshot = op.snapshot,
         \/ /\ op.kind = "snapshot" /\ next = "clear_staging" /\ o.edits = op.edits
            /\ o.at = <<"staging", NextGeneration>> /\ NextGeneration <= MaxGeneration
         \/ /\ op.kind = "chunks" /\ next = "clear_staged" /\ o.edits = op.to.edits
            /\ o.at = Active
  PROVE  SaveInv' /\ Effect
<1>1. /\ DiskIsSound' /\ Saved' = Saved /\ current' = current /\ Active' = Active
      /\ CommittedGenerations' = CommittedGenerations
  BY DiskStands DEF SaveInv, disk, Active
<1>2. o # None /\ Saved = op.from
  BY OperationFields DEF SaveInv, OutcomeSoFar
<1>3. next \in StepsOf(o.kind) /\ next # "idle"
  BY DEF StepsOf, SnapshotSteps, ChunkSteps, TableSteps
<1>4. OperationTypes'
  BY <1>2, <1>3 DEF SaveInv, OperationTypes
<1>5. RequestAgrees'
  BY <1>1 DEF SaveInv, RequestAgrees, TableSteps
<1>6. GenerationIsNew'
  <2> SUFFICES ASSUME op.kind = "snapshot"
               PROVE  GenerationIsNew'
    BY DEF GenerationIsNew
  <2>1. /\ NextGeneration \in 1 .. MaxGeneration /\ current < NextGeneration
        /\ \A g \in CommittedGenerations : g < NextGeneration
    BY NextGenerationIsNewest, SaveConstants DEF SaveInv
  <2>2. PICK n \in 1 .. MaxGeneration : n = NextGeneration
    BY <2>1
  <2>3. o.at = <<"staging", n>> /\ o.at[2] = n
    BY <2>2
  <2> QED
    BY <1>1, <2>1, <2>2, <2>3 DEF GenerationIsNew
<1>7. OutcomeSoFar'
  BY <1>1, <1>2 DEF OutcomeSoFar
<1>8. TargetAgrees' /\ PhasesAreDone'
  BY DEF TargetAgrees, TargetAfter, PromotedIsWhole, PhasesAreDone
<1>9. Effect
  BY <1>1, <1>2 DEF Effect
<1> QED
  BY <1>1, <1>4, <1>5, <1>6, <1>7, <1>8, <1>9 DEF SaveInv

LEMMA FindStep ==
  ASSUME SaveInv, FindNextGeneration \/ FindActive \/ MergeDelta
  PROVE  SaveInv' /\ Effect
<1>1. /\ op # None /\ op \in Operations /\ pc \in StepsOf(op.kind)
      /\ pc \in {"next_generation", "find_active", "merge_delta"}
  BY DEF SaveInv, OperationTypes, FindNextGeneration, FindActive, MergeDelta
<1>2. op.kind \in Kinds /\ Saved = op.from
  BY <1>1, OperationFields DEF SaveInv, OutcomeSoFar
<1>3. DiskIsSound /\ Active \in Locations /\ Saved = SavedIn(root[Active])
  BY ActiveFacts DEF SaveInv
<1>4. ASSUME UNCHANGED disk, Return("error")
      PROVE  SaveInv' /\ Effect
  <2>1. DiskIsSound' /\ Saved' = Saved
    BY <1>3, <1>4, DiskStands
  <2> QED
    BY <1>1, <1>2, <1>4, <2>1, Returned
<1>5. CASE FindNextGeneration
  <2> DEFINE o == [op EXCEPT !.at = <<"staging", NextGeneration>>]
  <2>1. /\ pc = "next_generation" /\ NextGeneration <= MaxGeneration
        /\ op' = o /\ pc' = "clear_staging" /\ UNCHANGED disk /\ reply' = reply
    BY <1>5 DEF FindNextGeneration
  <2>2. op.kind = "snapshot"
    BY <1>1, <1>2, <2>1 DEF StepsOf, ChunkSteps, MaintainSteps, TableSteps, Kinds
  <2>3. NextGeneration \in 0 .. MaxGeneration
    BY <1>3, <2>1, NextGenerationIsNewest, SaveConstants
  <2>4. <<"staging", NextGeneration>> \in Locations
    BY <2>3, GenerationLocations
  <2>5. /\ o \in Operations /\ o.kind = op.kind /\ o.from = op.from /\ o.to = op.to
        /\ o.snapshot = op.snapshot /\ o.edits = op.edits
        /\ o.at = <<"staging", NextGeneration>>
    BY <1>1, <2>4 DEF Operations
  <2> HIDE DEF o
  <2> QED
    BY <1>1, <2>1, <2>2, <2>5, Located
<1>6. CASE FindActive
  <2>1. CASE ActiveExists
    <3> DEFINE o == [op EXCEPT !.at = Active]
    <3>1. /\ pc = "find_active" /\ op' = o /\ pc' = "clear_staged" /\ UNCHANGED disk
          /\ reply' = reply
      BY <1>6, <2>1 DEF FindActive
    <3>2. op.kind = "chunks"
      BY <1>1, <1>2, <3>1 DEF StepsOf, SnapshotSteps, MaintainSteps, TableSteps, Kinds
    <3>3. op.edits = op.to.edits
      BY <1>1, <3>1, <3>2 DEF SaveInv, RequestAgrees
    <3>4. /\ o \in Operations /\ o.kind = op.kind /\ o.from = op.from /\ o.to = op.to
          /\ o.snapshot = op.snapshot /\ o.edits = op.to.edits /\ o.at = Active
      BY <1>1, <1>3, <3>3 DEF Operations
    <3> HIDE DEF o
    <3> QED
      BY <1>1, <3>1, <3>2, <3>4, Located
  <2>2. CASE ~ActiveExists
    BY <1>4, <1>6, <2>2 DEF FindActive
  <2> QED
    BY <2>1, <2>2
<1>7. CASE MergeDelta
  <2> DEFINE found == EffectiveEdits(root[Active])
  <2>1. CASE ActiveExists /\ found # Broken
    <3> DEFINE o == [op EXCEPT !.at = Active, !.edits = Merged(op.write, found)]
    <3>1. /\ pc = "merge_delta" /\ op' = o /\ pc' = "clear_staged" /\ UNCHANGED disk
          /\ reply' = reply
      BY <1>7, <2>1 DEF MergeDelta
    <3>2. op.kind = "chunks"
      BY <1>1, <1>2, <3>1 DEF StepsOf, SnapshotSteps, MaintainSteps, TableSteps, Kinds
    <3>3. op.write \in Coords \X Deltas /\ op.to.edits = Merged(op.write, op.from.edits)
      BY <1>1, <3>1, <3>2 DEF SaveInv, RequestAgrees
    <3>4. op.from.edits = found
      BY <1>2, <1>3 DEF SavedIn
    <3>5. Merged(op.write, found) = op.to.edits /\ op.to.edits \in Edits
      BY <1>1, <3>3, <3>4, OperationFields DEF Saves
    <3> HIDE DEF found
    <3>6. /\ o \in Operations /\ o.kind = op.kind /\ o.from = op.from /\ o.to = op.to
          /\ o.snapshot = op.snapshot /\ o.edits = op.to.edits /\ o.at = Active
      BY <1>1, <1>3, <3>5 DEF Operations
    <3> HIDE DEF o
    <3> QED
      BY <1>1, <3>1, <3>2, <3>6, Located
  <2>2. CASE ~(ActiveExists /\ found # Broken)
    BY <1>4, <1>7, <2>2 DEF MergeDelta
  <2> QED
    BY <2>1, <2>2
<1> QED
  BY <1>5, <1>6, <1>7

-----------------------------------------------------------------------------
(* Working in the target.                                                     *)

LEMMA LeftOfTableType ==
  ASSUME NEW t \in Tables \cup {None}
  PROVE  LeftOfTable(t) \subseteq Tables \cup {None}
<1>1. CASE t = None
  BY <1>1 DEF LeftOfTable
<1>2. CASE t \in Tables
  <2>1. /\ [t EXCEPT !.index = None] \in Tables
        /\ [t EXCEPT !.files = NoEdits] \in Tables
    BY <1>2, NoEditsFacts DEF Tables, Payloads
  <2> QED
    BY <1>2, <2>1 DEF LeftOfTable
<1> QED
  BY <1>1, <1>2

LEMMA LeftOfRootType ==
  ASSUME NEW r \in SaveRoots \cup {None}
  PROVE  LeftOfRoot(r) \subseteq SaveRoots \cup {None}
<1>1. CASE r = None
  BY <1>1 DEF LeftOfRoot
<1>2. CASE r \in SaveRoots
  BY <1>2 DEF LeftOfRoot, SaveRoots, EmptyRoot
<1> QED
  BY <1>1, <1>2

\* What every step below leaves as it was.
DiskKept ==
    DiskIsSound' /\ current' = current /\ CommittedGenerations' = CommittedGenerations

LEMMA TargetStep ==
  ASSUME SaveInv, pc \in TargetSteps, NEW r \in SaveRoots \cup {None}, SetTarget(r),
         op.kind = "chunks" => Readable(r)
  PROVE  /\ DiskKept
         /\ Saved' = IF op.kind = "chunks" THEN SavedIn(r) ELSE Saved
         /\ op' = op => Target' = Opened(r, EmptyRoot)
<1>1. /\ op # None /\ op.kind \in {"snapshot", "chunks"}
      /\ op.at \in Locations /\ op.at # <<"staging", 0>>
      /\ op.kind = "snapshot" => /\ op.at # Active
                                 /\ \E n \in 1 .. MaxGeneration : op.at = <<"staging", n>>
      /\ op.kind = "chunks" => op.at = Active
  BY TargetFacts
<1>2. root' = [root EXCEPT ![op.at] = r] /\ current' = current
  BY DEF SetTarget
<1>3. PICK at \in Locations : at = op.at
  BY <1>1
<1>4. DiskIsSound
  BY DEF SaveInv
<1>5. /\ root'[at] = r
      /\ \A other \in Locations : other # at => root'[other] = root[other]
      /\ DiskIsSound'
      /\ Saved' = IF at = Active THEN SavedIn(r) ELSE Saved
  BY <1>1, <1>2, <1>3, <1>4, RootStep
<1>6. CommittedGenerations' = CommittedGenerations
  <2>1. CASE op.kind = "snapshot"
    <3>1. PICK n \in 1 .. MaxGeneration : at = <<"staging", n>>
      BY <1>1, <1>3, <2>1
    <3>2. \A g \in 1 .. MaxGeneration : <<"committed", g>> \in Locations \ {at}
      BY <3>1, NumberedLocations
    <3> QED
      BY <1>5, <3>2 DEF CommittedGenerations
  <2>2. CASE op.kind = "chunks"
    <3>1. r # None /\ root[at] # None /\ root'[at] # None
      BY <1>1, <1>3, <1>4, <1>5, <2>2, ActiveFacts, RootFields DEF Readable
    <3>2. \A g \in 1 .. MaxGeneration : <<"committed", g>> \in Locations
      BY NumberedLocations
    <3>3. \A g \in 1 .. MaxGeneration :
             root'[<<"committed", g>>] # None <=> root[<<"committed", g>>] # None
      BY <1>5, <3>1, <3>2
    <3> QED
      BY <3>3 DEF CommittedGenerations
  <2> QED
    BY <1>1, <2>1, <2>2
<1>7. op' = op => Target' = Opened(r, EmptyRoot)
  BY <1>3, <1>5 DEF Target
<1> QED
  BY <1>1, <1>2, <1>3, <1>5, <1>6, <1>7 DEF DiskKept

\* A step of a table write that leaves what can be read from its target.
LEMMA ReadingKept ==
  ASSUME SaveInv, pc \in TableSteps, NEW r \in SaveRoots, SetTarget(r),
         op.kind = "chunks" => r.snapshot = Target.snapshot
                               /\ ReadableTable(r) = ReadableTable(Target)
  PROVE  DiskKept /\ Saved' = Saved /\ (op' = op => Target' = r)
<1>1. pc \in TargetSteps /\ DiskIsSound
  BY DEF TargetSteps, SaveInv
<1>2. op.kind = "chunks" => /\ Target = root[Active] /\ Readable(Target)
                            /\ Saved = SavedIn(Target)
  <2> SUFFICES ASSUME op.kind = "chunks"
               PROVE  Target = root[Active] /\ Readable(Target) /\ Saved = SavedIn(Target)
    OBVIOUS
  <2>1. op.at = Active
    BY <1>1, TargetFacts
  <2>2. Target = root[Active] /\ Saved = SavedIn(root[Active])
    BY <1>1, <2>1, ActiveFacts DEF Target, Opened
  <2> QED
    BY <1>1, <2>2 DEF DiskIsSound
<1>3. PICK t : t = Target
  OBVIOUS
<1>4. op.kind = "chunks" => Readable(r) /\ SavedIn(r) = Saved
  BY <1>2, <1>3, SameSave DEF Readable
<1>5. r # None
  BY RootFields
<1> QED
  BY <1>1, <1>4, <1>5, TargetStep DEF Opened

\* A step that touches only the staged table.
LEMMA StagedStep ==
  ASSUME SaveInv, pc \in TableSteps, NEW left \in Tables \cup {None},
         RemoveStaged(left) \/ SetStaged(left)
  PROVE  /\ DiskKept /\ Saved' = Saved
         /\ op' = op => /\ Target'.staged \in {left, None}
                        /\ SetStaged(left) => Target' = [Target EXCEPT !.staged = left]
<1> DEFINE r == [Target EXCEPT !.staged = left]
<1>1. Target \in SaveRoots /\ pc \in TargetSteps
  BY TargetFacts DEF TargetSteps
<1>2. /\ r \in SaveRoots /\ r.staged = left /\ r.snapshot = Target.snapshot
      /\ r.chunks = Target.chunks /\ r.backup = Target.backup
  BY <1>1 DEF SaveRoots
<1>3. ReadableTable(r) = ReadableTable(Target)
  BY <1>2 DEF ReadableTable
<1>4. CASE SetTarget(r)
  <2> HIDE DEF r
  <2>1. DiskKept /\ Saved' = Saved /\ (op' = op => Target' = r)
    BY <1>2, <1>3, <1>4, ReadingKept
  <2> QED
    BY <1>2, <2>1 DEF r
<1>5. CASE ~SetStaged(left) /\ SetTarget(None) /\ root[op.at] = None
  <2>1. op.kind # "chunks"
    BY <1>1, <1>5, TargetFacts, ActiveFacts DEF SaveInv
  <2>2. DiskKept /\ Saved' = Saved /\ (op' = op => Target' = Opened(None, EmptyRoot))
    BY <1>1, <1>5, <2>1, TargetStep
  <2>3. Opened(None, EmptyRoot).staged = None
    BY DEF Opened, EmptyRoot
  <2> QED
    BY <1>5, <2>2, <2>3
<1> QED
  BY <1>4, <1>5 DEF RemoveStaged, SetStaged

\* How a table write ends.
LEMMA TableFailedStep ==
  ASSUME SaveInv, pc \in TableSteps \ {"drop_backup"}, DiskKept, Saved' = Saved, TableFailed
  PROVE  SaveInv' /\ Effect
<1>1. /\ op # None /\ op.kind \in {"snapshot", "chunks"} /\ pc \in TargetSteps
      /\ Saved = op.from
  BY TargetFacts DEF TargetSteps, SaveInv, OutcomeSoFar
<1>2. CASE op.kind = "snapshot"
  <2>1. Continue("undo_generation")
    BY <1>2 DEF TableFailed
  <2>2. "undo_generation" \in TargetSteps /\ "undo_generation" \in StepsOf(op.kind)
    BY <1>2 DEF TargetSteps, StepsOf, SnapshotSteps
  <2>3. PICK t : t = Target'
    OBVIOUS
  <2>4. TargetAfter("undo_generation", t, op)
    BY DEF TargetAfter
  <2> QED
    BY <1>1, <2>1, <2>2, <2>3, <2>4, Continued DEF DiskKept
<1>3. CASE op.kind = "chunks"
  <2>1. Return("error")
    BY <1>3 DEF TableFailed
  <2> QED
    BY <1>1, <2>1, Returned DEF DiskKept
<1> QED
  BY <1>1, <1>2, <1>3

LEMMA TableDoneStep ==
  ASSUME SaveInv, pc \in TableSteps, DiskKept, TableDone, NEW t, op' = op => Target' = t,
         op.kind = "snapshot" => Saved' = op.from /\ t.chunks = TableOf(op.edits),
         op.kind = "chunks" => Saved' = op.to
  PROVE  SaveInv' /\ Effect
<1>1. /\ op # None /\ op.kind \in {"snapshot", "chunks"} /\ pc \in TargetSteps
  BY TargetFacts DEF TargetSteps
<1>2. CASE op.kind = "snapshot"
  <2>1. Continue("write_snapshot_file") /\ op' = op /\ Target' = t
    BY <1>2 DEF TableDone, Continue
  <2>2. "write_snapshot_file" \in TargetSteps /\ "write_snapshot_file" \in StepsOf(op.kind)
    BY <1>2 DEF TargetSteps, StepsOf, SnapshotSteps
  <2>3. Saved' = op.from /\ Saved = op.from
    BY <1>1, <1>2 DEF SaveInv, OutcomeSoFar
  <2>4. TargetAfter("write_snapshot_file", t, op)
    BY <1>2 DEF TargetAfter
  <2> QED
    BY <1>1, <2>1, <2>2, <2>3, <2>4, Continued DEF DiskKept
<1>3. CASE op.kind = "chunks"
  <2>1. Return("ok")
    BY <1>3 DEF TableDone
  <2> QED
    BY <1>1, <1>3, <2>1, Returned DEF DiskKept
<1> QED
  BY <1>1, <1>2, <1>3

\* A table write that goes on, a reader finding what he found before.
LEMMA TableContinues ==
  ASSUME SaveInv, pc \in TableSteps \ {"drop_backup"}, DiskKept, Saved' = Saved,
         NEW next \in TableSteps \ {"drop_backup"}, Continue(next),
         NEW t, op' = op => Target' = t, TargetAfter(next, t, op)
  PROVE  SaveInv' /\ Effect
<1>1. /\ op # None /\ op.kind \in {"snapshot", "chunks"} /\ pc \in TargetSteps
      /\ Saved = op.from
  BY TargetFacts DEF TargetSteps, SaveInv, OutcomeSoFar
<1>2. next \in TargetSteps /\ next \in StepsOf(op.kind)
  BY <1>1 DEF TargetSteps, StepsOf, SnapshotSteps, ChunkSteps
<1>3. Target' = t
  BY DEF Continue
<1> QED
  BY <1>1, <1>2, <1>3, Continued DEF DiskKept

-----------------------------------------------------------------------------
(* The steps of a table write.                                                *)

LEMMA TargetHere ==
  ASSUME SaveInv, pc \in TableSteps
  PROVE  /\ op \in Operations /\ op.edits \in Edits
         /\ Target \in SaveRoots /\ TargetAfter(pc, Target, op)
  BY TargetFacts, OperationFields DEF SaveInv, TargetAgrees, TargetSteps

\* A new target differs from the old one in these fields.
LEMMA TargetFields ==
  ASSUME NEW r \in SaveRoots, NEW x \in Tables \cup {None}, NEW y \in Tables \cup {None}
  PROVE  /\ [r EXCEPT !.backup = x] \in SaveRoots
         /\ [r EXCEPT !.chunks = x, !.backup = y] \in SaveRoots
         /\ [r EXCEPT !.chunks = x, !.staged = y] \in SaveRoots
  BY DEF SaveRoots

LEMMA ClearStagedStep ==
  ASSUME SaveInv, ClearStaged
  PROVE  SaveInv' /\ Effect
<1>1. pc = "clear_staged" /\ pc \in TableSteps \ {"drop_backup"}
  BY DEF ClearStaged, TableSteps
<1>2. CASE RemoveStaged(None) /\ Continue("write_table")
  <2>1. DiskKept /\ Saved' = Saved /\ (op' = op => Target'.staged = None)
    BY <1>1, <1>2, StagedStep
  <2>2. PICK t : t = Target'
    OBVIOUS
  <2>3. TargetAfter("write_table", t, op)
    BY <1>2, <2>1, <2>2 DEF TargetAfter, Continue
  <2>4. "write_table" \in TableSteps \ {"drop_backup"}
    BY DEF TableSteps
  <2> QED
    BY <1>1, <1>2, <2>1, <2>2, <2>3, <2>4, TableContinues
<1>3. ASSUME NEW left \in LeftOfTable(Target.staged), RemoveStaged(left), TableFailed
      PROVE  SaveInv' /\ Effect
  <2>1. left \in Tables \cup {None}
    BY <1>1, TargetHere, RootFields, LeftOfTableType
  <2>2. DiskKept /\ Saved' = Saved
    BY <1>1, <1>3, <2>1, StagedStep
  <2> QED
    BY <1>1, <1>3, <2>2, TableFailedStep
<1> QED
  BY <1>2, <1>3 DEF ClearStaged

\* What write_table has staged so far.
LEMMA StagedHere ==
  ASSUME SaveInv, pc = "write_table"
  PROVE  /\ Staged \in Tables /\ Staged.index = None
         /\ DOMAIN Staged.files \subseteq DOMAIN op.edits
         /\ \A c \in DOMAIN Staged.files : Staged.files[c] = op.edits[c]
<1>1. Target \in SaveRoots /\ TargetAfter("write_table", Target, op)
  BY TargetHere DEF TableSteps
<1>2. Target.staged \in Tables \cup {None}
  BY <1>1, RootFields
<1>3. CASE Target.staged = None
  <2>1. Staged = NoDirectory
    BY <1>3 DEF Staged, Opened
  <2>2. NoDirectory \in Tables /\ NoDirectory.files = NoEdits /\ NoDirectory.index = None
    BY NoEditsFacts DEF NoDirectory, Tables, Payloads
  <2> QED
    BY <2>1, <2>2, NoEditsFacts
<1>4. CASE Target.staged # None
  BY <1>1, <1>2, <1>4 DEF TargetAfter, Staged, Opened
<1> QED
  BY <1>3, <1>4

LEMMA WritePayloadStep ==
  ASSUME ~LateWriteErrors, SaveInv, NEW c \in Coords, WritePayload(c)
  PROVE  SaveInv' /\ Effect
<1> DEFINE s == [Staged EXCEPT !.files = Extended(@, c, op.edits[c])]
           f == Extended(Staged.files, c, op.edits[c])
           t == [Target EXCEPT !.staged = s]
<1>1. /\ pc = "write_table" /\ pc \in TableSteps \ {"drop_backup"}
      /\ c \in DOMAIN op.edits /\ SetStaged(s) /\ Continue("write_table")
  BY DEF WritePayload, Written, TableSteps
<1>2. /\ Staged \in Tables /\ Staged.index = None
      /\ DOMAIN Staged.files \subseteq DOMAIN op.edits
      /\ \A d \in DOMAIN Staged.files : Staged.files[d] = op.edits[d]
  BY <1>1, StagedHere
<1>3. Target \in SaveRoots /\ op.edits \in Edits
  BY <1>1, TargetHere
<1>4. DOMAIN op.edits \subseteq Coords /\ op.edits \in [DOMAIN op.edits -> Deltas]
  BY <1>3, EditsAreFunctions
<1>5. /\ DOMAIN f \subseteq DOMAIN op.edits /\ \A d \in DOMAIN f : f[d] = op.edits[d]
      /\ f = [d \in DOMAIN f |-> f[d]]
  <2>1. /\ DOMAIN f = DOMAIN Staged.files \cup {c} /\ f[c] = op.edits[c]
        /\ \A d \in DOMAIN Staged.files \ {c} : f[d] = Staged.files[d]
        /\ f = [d \in DOMAIN Staged.files \cup {c} |-> f[d]]
    BY DEF Extended
  <2> QED
    BY <1>1, <1>2, <2>1
<1>6. s.files = f /\ s.index = None /\ t.staged = s
  BY <1>2, <1>3 DEF Tables, SaveRoots
<1> HIDE DEF f
<1>7. f \in Payloads
  <2>1. DOMAIN f \subseteq Coords /\ f \in [DOMAIN f -> Deltas \cup {Broken}]
    BY <1>4, <1>5
  <2> QED
    BY <2>1, PayloadsAreFunctions
<1>8. s \in Tables
  BY <1>2, <1>6, <1>7 DEF Tables, Payloads
<1> HIDE DEF s
<1>9. DiskKept /\ Saved' = Saved /\ (op' = op => Target' = t)
  BY <1>1, <1>8, StagedStep
<1>10. TargetAfter("write_table", t, op)
  BY <1>5, <1>6 DEF TargetAfter
<1> HIDE DEF t
<1> QED
  BY <1>1, <1>9, <1>10, TableContinues

LEMMA WriteIndexStep ==
  ASSUME ~LateWriteErrors, SaveInv, WriteIndex
  PROVE  SaveInv' /\ Effect
<1> DEFINE s == [Staged EXCEPT !.index = DOMAIN op.edits]
           t == [Target EXCEPT !.staged = s]
<1>1. /\ pc = "write_table" /\ pc \in TableSteps \ {"drop_backup"}
      /\ DOMAIN op.edits = DOMAIN Staged.files /\ SetStaged(s) /\ Continue("settle_backup")
  BY DEF WriteIndex, Written, TableSteps
<1>2. /\ Staged \in Tables
      /\ \A d \in DOMAIN Staged.files : Staged.files[d] = op.edits[d]
  BY <1>1, StagedHere
<1>3. Target \in SaveRoots /\ op.edits \in Edits
  BY <1>1, TargetHere
<1>4. DOMAIN op.edits \subseteq Coords /\ op.edits \in [DOMAIN op.edits -> Deltas]
  BY <1>3, EditsAreFunctions
<1>5. Staged.files \in [DOMAIN Staged.files -> Deltas \cup {Broken}]
  BY <1>2, TableFields, PayloadsAreFunctions
<1>6. Staged.files = op.edits
  BY <1>1, <1>2, <1>4, <1>5
<1>7. s \in Tables /\ s = TableOf(op.edits)
  BY <1>2, <1>4, <1>6 DEF Tables, TableOf
<1>8. t.staged = s
  BY <1>3 DEF SaveRoots
<1> HIDE DEF s
<1>9. DiskKept /\ Saved' = Saved /\ (op' = op => Target' = t)
  BY <1>1, <1>7, StagedStep
<1>10. TargetAfter("settle_backup", t, op)
  BY <1>7, <1>8 DEF TargetAfter
<1>11. "settle_backup" \in TableSteps \ {"drop_backup"}
  BY DEF TableSteps
<1> HIDE DEF t
<1> QED
  BY <1>1, <1>9, <1>10, <1>11, TableContinues

\* Every step may fail without having touched the disk.
LEMMA TableStepFails ==
  ASSUME SaveInv, pc \in TableSteps \ {"drop_backup"}, UNCHANGED disk,
         TableFailed \/ Continue("undo_table")
  PROVE  SaveInv' /\ Effect
<1>1. DiskKept /\ Saved' = Saved
  BY DiskStands DEF SaveInv, DiskKept
<1>2. PICK t : t = Target'
  OBVIOUS
<1>3. TargetAfter("undo_table", t, op) /\ "undo_table" \in TableSteps \ {"drop_backup"}
  BY DEF TargetAfter, TableSteps
<1> QED
  BY <1>1, <1>2, <1>3, TableContinues, TableFailedStep

LEMMA SettleBackupStep ==
  ASSUME SaveInv, SettleBackup
  PROVE  SaveInv' /\ Effect
<1>1. pc = "settle_backup" /\ pc \in TableSteps \ {"drop_backup"}
  BY DEF SettleBackup, TableSteps
<1>2. /\ Target \in SaveRoots /\ Target.staged = TableOf(op.edits)
      /\ Target.chunks \in Tables \cup {None} /\ Target.backup \in Tables \cup {None}
  BY <1>1, TargetHere, RootFields DEF TargetAfter
<1>3. "park_table" \in TableSteps \ {"drop_backup"} /\ "undo_table" \in TableSteps \ {"drop_backup"}
  BY DEF TableSteps
<1>4. CASE /\ Target.backup = None \/ Target.chunks # None
           /\ SetTarget([Target EXCEPT !.backup = None])
           /\ Continue("park_table")
  <2> DEFINE t == [Target EXCEPT !.backup = None]
  <2>1. t \in SaveRoots /\ t.snapshot = Target.snapshot /\ ReadableTable(t) = ReadableTable(Target)
    BY <1>2, <1>4 DEF SaveRoots, ReadableTable
  <2>2. TargetAfter("park_table", t, op)
    BY <1>2 DEF TargetAfter, SaveRoots
  <2> HIDE DEF t
  <2>3. DiskKept /\ Saved' = Saved /\ (op' = op => Target' = t)
    BY <1>1, <1>4, <2>1, ReadingKept DEF t
  <2> QED
    BY <1>1, <1>3, <1>4, <2>2, <2>3, TableContinues
<1>5. CASE /\ Target.backup # None /\ Target.chunks = None
           /\ SetTarget([Target EXCEPT !.chunks = Target.backup, !.backup = None])
           /\ Continue("park_table")
  <2> DEFINE t == [Target EXCEPT !.chunks = Target.backup, !.backup = None]
  <2>1. t \in SaveRoots /\ t.snapshot = Target.snapshot /\ ReadableTable(t) = ReadableTable(Target)
    BY <1>2, <1>5 DEF SaveRoots, ReadableTable
  <2>2. TargetAfter("park_table", t, op)
    BY <1>2 DEF TargetAfter, SaveRoots
  <2> HIDE DEF t
  <2>3. DiskKept /\ Saved' = Saved /\ (op' = op => Target' = t)
    BY <1>1, <1>5, <2>1, ReadingKept DEF t
  <2> QED
    BY <1>1, <1>3, <1>5, <2>2, <2>3, TableContinues
<1>6. ASSUME Target.chunks # None, NEW left \in LeftOfTable(Target.backup),
             SetTarget([Target EXCEPT !.backup = left]), Continue("undo_table")
      PROVE  SaveInv' /\ Effect
  <2> DEFINE t == [Target EXCEPT !.backup = left]
  <2>1. left \in Tables \cup {None}
    BY <1>2, LeftOfTableType
  <2>2. t \in SaveRoots /\ t.snapshot = Target.snapshot /\ ReadableTable(t) = ReadableTable(Target)
    BY <1>2, <1>6, <2>1 DEF SaveRoots, ReadableTable
  <2>3. TargetAfter("undo_table", t, op)
    BY DEF TargetAfter
  <2> HIDE DEF t
  <2>4. DiskKept /\ Saved' = Saved /\ (op' = op => Target' = t)
    BY <1>1, <1>6, <2>2, ReadingKept DEF t
  <2> QED
    BY <1>1, <1>3, <1>6, <2>3, <2>4, TableContinues
<1>7. CASE Continue("undo_table") /\ UNCHANGED disk
  BY <1>1, <1>7, TableStepFails
<1> QED
  BY <1>4, <1>5, <1>6, <1>7 DEF SettleBackup

LEMMA ParkTableStep ==
  ASSUME SaveInv, ParkTable
  PROVE  SaveInv' /\ Effect
<1>1. pc = "park_table" /\ pc \in TableSteps \ {"drop_backup"}
  BY DEF ParkTable, TableSteps
<1>2. /\ Target \in SaveRoots /\ Target.staged = TableOf(op.edits) /\ Target.backup = None
      /\ Target.chunks \in Tables \cup {None}
  BY <1>1, TargetHere, RootFields DEF TargetAfter
<1>3. CASE /\ SetTarget([Target EXCEPT !.chunks = None, !.backup = Target.chunks])
           /\ Continue("install_table")
  <2> DEFINE t == [Target EXCEPT !.chunks = None, !.backup = Target.chunks]
  <2>1. t \in SaveRoots /\ t.snapshot = Target.snapshot /\ ReadableTable(t) = ReadableTable(Target)
    BY <1>2 DEF SaveRoots, ReadableTable
  <2>2. TargetAfter("install_table", t, op)
    BY <1>2 DEF TargetAfter, SaveRoots
  <2>3. "install_table" \in TableSteps \ {"drop_backup"}
    BY DEF TableSteps
  <2> HIDE DEF t
  <2>4. DiskKept /\ Saved' = Saved /\ (op' = op => Target' = t)
    BY <1>1, <1>3, <2>1, ReadingKept DEF t
  <2> QED
    BY <1>1, <1>3, <2>2, <2>3, <2>4, TableContinues
<1>4. CASE Continue("undo_table") /\ UNCHANGED disk
  BY <1>1, <1>4, TableStepFails
<1> QED
  BY <1>3, <1>4 DEF ParkTable

\* The step at which the edits of a write to the active generation take effect.
LEMMA InstallTableStep ==
  ASSUME SaveInv, InstallTable
  PROVE  SaveInv' /\ Effect
<1>1. pc = "install_table" /\ pc \in TableSteps \ {"drop_backup"} /\ pc \in TargetSteps
  BY DEF InstallTable, TableSteps, TargetSteps
<1>2. /\ op \in Operations /\ op.edits \in Edits
      /\ Target \in SaveRoots /\ Target.staged = TableOf(op.edits) /\ Target.chunks = None
      /\ Target.staged \in Tables \cup {None}
  BY <1>1, TargetHere, RootFields DEF TargetAfter
<1>3. /\ op # None /\ op.kind \in {"snapshot", "chunks"} /\ DiskIsSound /\ Saved = op.from
      /\ op.kind = "chunks" => op.at = Active
  BY <1>1, TargetFacts DEF SaveInv, OutcomeSoFar
<1>4. CASE /\ SetTarget([Target EXCEPT !.chunks = Target.staged, !.staged = None])
           /\ IF HadTable THEN Continue("drop_backup") ELSE TableDone
  <2> DEFINE t == [Target EXCEPT !.chunks = Target.staged, !.staged = None]
  <2>1. t \in SaveRoots /\ t.snapshot = Target.snapshot /\ t.chunks = TableOf(op.edits)
    BY <1>2 DEF SaveRoots
  <2> HIDE DEF t
  <2>2. op.kind = "chunks" => Readable(t) /\ SavedIn(t) = op.to
    <3> SUFFICES ASSUME op.kind = "chunks"
                 PROVE  Readable(t) /\ SavedIn(t) = op.to
      OBVIOUS
    <3>1. Target = root[Active] /\ Readable(root[Active]) /\ Saved = SavedIn(root[Active])
      BY <1>3, ActiveFacts DEF Target, Opened, DiskIsSound
    <3>2. t.snapshot # Broken
      BY <2>1, <3>1 DEF Readable
    <3>3. PICK edits \in Edits : edits = op.edits
      BY <1>2
    <3>4. PICK r \in SaveRoots : r = t
      BY <2>1
    <3>5. Readable(t) /\ EffectiveEdits(t) = op.edits
      BY <2>1, <3>2, <3>3, <3>4, InstalledIsRead
    <3>6. /\ op.to.edits = op.edits /\ op.to.world = op.from.world /\ op.to \in Saves
      BY <1>1, <1>2, <1>3, OperationFields DEF SaveInv, RequestAgrees
    <3>7. SavedIn(t).world = SavedIn(root[Active]).world
      BY <2>1, <3>1 DEF SavedIn
    <3>8. SavedIn(t) = [world |-> op.to.world, edits |-> op.to.edits]
      BY <1>3, <3>1, <3>5, <3>6, <3>7 DEF SavedIn
    <3> QED
      BY <3>5, <3>6, <3>8 DEF Saves
  <2>3. /\ DiskKept /\ Saved' = IF op.kind = "chunks" THEN op.to ELSE op.from
        /\ op' = op => Target' = t
    <3>1. t # None /\ Opened(t, EmptyRoot) = t
      BY <2>1, RootFields DEF Opened
    <3> QED
      BY <1>1, <1>3, <1>4, <2>1, <2>2, <3>1, TargetStep DEF t
  <2>4. CASE HadTable
    <3>1. Continue("drop_backup") /\ Target' = t
      BY <1>4, <2>3, <2>4 DEF Continue
    <3>2. "drop_backup" \in TargetSteps /\ "drop_backup" \in StepsOf(op.kind)
      BY <1>3 DEF TargetSteps, TableSteps, StepsOf, SnapshotSteps, ChunkSteps
    <3>3. TargetAfter("drop_backup", t, op)
      BY <2>1 DEF TargetAfter
    <3>4. Saved' \in {Saved, op.to}
      BY <1>3, <2>3
    <3>5. Saved' = IF "drop_backup" = "drop_backup" /\ op.kind = "chunks" THEN op.to ELSE op.from
      BY <2>3
    <3> QED
      BY <1>1, <2>3, <3>1, <3>2, <3>3, <3>4, <3>5, Continued DEF DiskKept
  <2>5. CASE ~HadTable
    <3>1. TableDone
      BY <1>4, <2>5
    <3>2. op.kind = "snapshot" => Saved' = op.from /\ t.chunks = TableOf(op.edits)
      BY <2>1, <2>3
    <3>3. op.kind = "chunks" => Saved' = op.to
      BY <2>3
    <3> QED
      BY <1>1, <2>3, <3>1, <3>2, <3>3, TableDoneStep
  <2> QED
    BY <2>4, <2>5
<1>5. CASE /\ Continue(IF HadTable THEN "roll_back" ELSE "undo_table")
           /\ UNCHANGED disk
  <2>1. CASE HadTable
    <3>1. Continue("roll_back") /\ Target.backup # None
      BY <1>5, <2>1 DEF HadTable
    <3>2. DiskKept /\ Saved' = Saved
      BY <1>3, <1>5, DiskStands DEF DiskKept
    <3>3. op' = op => Target' = Target
      BY <1>5 DEF Target, disk
    <3>4. TargetAfter("roll_back", Target, op)
      BY <1>2, <3>1 DEF TargetAfter
    <3>5. "roll_back" \in TableSteps \ {"drop_backup"}
      BY DEF TableSteps
    <3>6. PICK t : t = Target
      OBVIOUS
    <3> QED
      BY <1>1, <3>1, <3>2, <3>3, <3>4, <3>5, <3>6, TableContinues
  <2>2. CASE ~HadTable
    BY <1>1, <1>5, <2>2, TableStepFails
  <2> QED
    BY <2>1, <2>2
<1> QED
  BY <1>4, <1>5 DEF InstallTable

LEMMA RollBackStep ==
  ASSUME SaveInv, RollBack
  PROVE  SaveInv' /\ Effect
<1>1. pc = "roll_back" /\ pc \in TableSteps \ {"drop_backup"}
  BY DEF RollBack, TableSteps
<1>2. /\ Target \in SaveRoots /\ Target.chunks = None /\ Target.backup # None
      /\ Target.backup \in Tables \cup {None}
  BY <1>1, TargetHere, RootFields DEF TargetAfter
<1>3. CASE /\ SetTarget([Target EXCEPT !.chunks = Target.backup, !.backup = None])
           /\ Continue("undo_table")
  <2> DEFINE t == [Target EXCEPT !.chunks = Target.backup, !.backup = None]
  <2>1. t \in SaveRoots /\ t.snapshot = Target.snapshot /\ ReadableTable(t) = ReadableTable(Target)
    BY <1>2 DEF SaveRoots, ReadableTable
  <2>2. TargetAfter("undo_table", t, op) /\ "undo_table" \in TableSteps \ {"drop_backup"}
    BY DEF TargetAfter, TableSteps
  <2> HIDE DEF t
  <2>3. DiskKept /\ Saved' = Saved /\ (op' = op => Target' = t)
    BY <1>1, <1>3, <2>1, ReadingKept DEF t
  <2> QED
    BY <1>1, <1>3, <2>2, <2>3, TableContinues
<1>4. CASE TableFailed /\ UNCHANGED disk
  BY <1>1, <1>4, TableStepFails
<1> QED
  BY <1>3, <1>4 DEF RollBack

LEMMA DropBackupStep ==
  ASSUME SaveInv, DropBackup
  PROVE  SaveInv' /\ Effect
<1>1. pc = "drop_backup" /\ pc \in TableSteps /\ TableDone
  BY DEF DropBackup, TableSteps
<1>2. /\ Target \in SaveRoots /\ Target.chunks = TableOf(op.edits) /\ op.edits \in Edits
      /\ Target.chunks \in Tables \cup {None} /\ Target.backup \in Tables \cup {None}
  BY <1>1, TargetHere, RootFields DEF TargetAfter
<1>3. PICK left \in {None} \cup LeftOfTable(Target.backup) :
          SetTarget([Target EXCEPT !.backup = left])
  BY DEF DropBackup
<1> DEFINE t == [Target EXCEPT !.backup = left]
<1>4. left \in Tables \cup {None}
  BY <1>2, LeftOfTableType
<1>5. TableOf(op.edits) # None
  <2>1. TableOf(op.edits) \in Tables
    BY <1>2, EditsAreFunctions, PayloadsAreFunctions DEF TableOf, Tables, Payloads
  <2> QED
    BY <2>1, TableFields
<1>6. /\ t \in SaveRoots /\ t.snapshot = Target.snapshot /\ t.chunks = TableOf(op.edits)
      /\ ReadableTable(t) = ReadableTable(Target)
  BY <1>2, <1>4, <1>5 DEF SaveRoots, ReadableTable
<1> HIDE DEF t
<1>7. DiskKept /\ Saved' = Saved /\ (op' = op => Target' = t)
  BY <1>1, <1>3, <1>6, ReadingKept DEF t
<1>8. /\ op # None /\ Saved = IF op.kind = "chunks" THEN op.to ELSE op.from
  BY <1>1, TargetFacts DEF SaveInv, OutcomeSoFar, TargetSteps
<1>9. /\ op.kind = "snapshot" => Saved' = op.from /\ t.chunks = TableOf(op.edits)
      /\ op.kind = "chunks" => Saved' = op.to
  BY <1>6, <1>7, <1>8
<1> QED
  BY <1>1, <1>7, <1>9, TableDoneStep

LEMMA UndoTableStep ==
  ASSUME SaveInv, UndoTable
  PROVE  SaveInv' /\ Effect
<1>1. pc = "undo_table" /\ pc \in TableSteps \ {"drop_backup"} /\ TableFailed
  BY DEF UndoTable, TableSteps
<1>2. PICK left \in {None} \cup LeftOfTable(Target.staged) : RemoveStaged(left)
  BY DEF UndoTable
<1>3. left \in Tables \cup {None}
  BY <1>1, TargetHere, RootFields, LeftOfTableType
<1>4. DiskKept /\ Saved' = Saved
  BY <1>1, <1>2, <1>3, StagedStep
<1> QED
  BY <1>1, <1>4, TableFailedStep

LEMMA WriteTableStep ==
  ASSUME ~LateWriteErrors, SaveInv, WriteTable
  PROVE  SaveInv' /\ Effect
<1>1. ASSUME WriteTableFails
      PROVE  SaveInv' /\ Effect
  BY <1>1, TableStepFails DEF WriteTableFails, TableSteps
<1> QED
  BY <1>1, ClearStagedStep, WritePayloadStep, WriteIndexStep, SettleBackupStep, ParkTableStep,
     InstallTableStep, RollBackStep, DropBackupStep, UndoTableStep DEF WriteTable

-----------------------------------------------------------------------------
(* The other steps of write_snapshot.                                         *)

LEMMA ClearStagingStep ==
  ASSUME SaveInv, ClearStaging \/ UndoGeneration
  PROVE  SaveInv' /\ Effect
<1>1. pc \in TargetSteps \ TableSteps
  BY DEF ClearStaging, UndoGeneration, TargetSteps, TableSteps
<1>2. /\ op # None /\ op.kind = "snapshot" /\ op.at \in Locations /\ Saved = op.from
  BY <1>1, TargetFacts DEF SaveInv, OutcomeSoFar, TableSteps
<1>3. LeftOfRoot(root[op.at]) \subseteq SaveRoots \cup {None}
  BY <1>2, LeftOfRootType DEF SaveInv, DiskIsSound
<1>4. ASSUME NEW r \in SaveRoots \cup {None}, SetTarget(r)
      PROVE  DiskKept /\ Saved' = Saved
  BY <1>1, <1>2, <1>4, TargetStep
<1>5. CASE SetTarget(None) /\ Continue("clear_staged")
  <2>1. "clear_staged" \in TargetSteps /\ "clear_staged" \in StepsOf(op.kind)
    BY <1>2 DEF TargetSteps, TableSteps, StepsOf, SnapshotSteps
  <2>2. PICK t : t = Target'
    OBVIOUS
  <2>3. TargetAfter("clear_staged", t, op)
    BY DEF TargetAfter
  <2> QED
    BY <1>1, <1>2, <1>4, <1>5, <2>1, <2>2, <2>3, Continued DEF DiskKept
<1>6. ASSUME NEW left \in LeftOfRoot(root[op.at]), RemovePartly(op.at, left), Return("error")
      PROVE  SaveInv' /\ Effect
  <2>1. left \in SaveRoots \cup {None} /\ SetTarget(left)
    BY <1>3, <1>6 DEF RemovePartly, SetTarget
  <2> QED
    BY <1>2, <1>4, <1>6, <2>1, Returned DEF DiskKept
<1>7. CASE SetTarget(None) /\ Return("error")
  BY <1>2, <1>4, <1>7, Returned DEF DiskKept
<1> QED
  BY <1>5, <1>6, <1>7 DEF ClearStaging, UndoGeneration

\* A step of write_snapshot that fails without having touched the disk.
LEMMA GenerationStepFails ==
  ASSUME SaveInv, pc \in TargetSteps, op.kind = "snapshot", UNCHANGED disk,
         Continue("undo_generation")
  PROVE  SaveInv' /\ Effect
<1>1. DiskKept /\ Saved' = Saved /\ Saved = op.from
  BY DiskStands, TargetFacts DEF SaveInv, DiskKept, OutcomeSoFar
<1>2. PICK t : t = Target'
  OBVIOUS
<1>3. /\ TargetAfter("undo_generation", t, op)
      /\ "undo_generation" \in TargetSteps /\ "undo_generation" \in StepsOf(op.kind)
  BY DEF TargetAfter, TargetSteps, StepsOf, SnapshotSteps
<1> QED
  BY <1>1, <1>2, <1>3, Continued DEF DiskKept

LEMMA WriteSnapshotFileStep ==
  ASSUME ~LateWriteErrors, SaveInv, WriteSnapshotFile
  PROVE  SaveInv' /\ Effect
<1>1. pc = "write_snapshot_file" /\ pc \in TargetSteps \ TableSteps
  BY DEF WriteSnapshotFile, TargetSteps, TableSteps
<1>2. /\ op # None /\ op.kind = "snapshot" /\ Saved = op.from
      /\ Target \in SaveRoots /\ Target.chunks = TableOf(op.edits)
      /\ op.snapshot \in SnapshotFiles
  BY <1>1, TargetFacts
  DEF SaveInv, OutcomeSoFar, TargetAgrees, TargetAfter, RequestAgrees, TableSteps
<1>3. CASE SetTarget([Target EXCEPT !.snapshot = op.snapshot]) /\ Continue("commit_generation")
  <2> DEFINE t == [Target EXCEPT !.snapshot = op.snapshot]
  <2>1. t \in SaveRoots /\ t.snapshot = op.snapshot /\ t.chunks = TableOf(op.edits)
    BY <1>2 DEF SaveRoots
  <2> HIDE DEF t
  <2>2. t # None /\ Opened(t, EmptyRoot) = t
    BY <2>1, RootFields DEF Opened
  <2>3. DiskKept /\ Saved' = Saved /\ (op' = op => Target' = t)
    BY <1>1, <1>2, <1>3, <2>1, <2>2, TargetStep DEF t
  <2>4. TargetAfter("commit_generation", t, op)
    BY <2>1 DEF TargetAfter
  <2>5. "commit_generation" \in TargetSteps /\ "commit_generation" \in StepsOf(op.kind)
    BY <1>2 DEF TargetSteps, StepsOf, SnapshotSteps
  <2>6. Target' = t
    BY <1>3, <2>3 DEF Continue
  <2> QED
    BY <1>1, <1>2, <1>3, <2>3, <2>4, <2>5, <2>6, Continued DEF DiskKept
<1>4. CASE Continue("undo_generation") /\ UNCHANGED disk
  BY <1>1, <1>2, <1>4, GenerationStepFails
<1> QED
  BY <1>3, <1>4 DEF WriteSnapshotFile, Written

\* The staged generation gets its number, and is not the active one yet.
LEMMA CommitGenerationStep ==
  ASSUME SaveInv, CommitGeneration
  PROVE  SaveInv' /\ Effect
<1>1. pc = "commit_generation" /\ pc \in TargetSteps \ TableSteps
  BY DEF CommitGeneration, TargetSteps, TableSteps
<1>2. /\ op # None /\ op \in Operations /\ op.kind = "snapshot" /\ Saved = op.from
      /\ Target \in SaveRoots /\ Target.chunks = TableOf(op.edits)
      /\ Target.snapshot = op.snapshot /\ op.edits \in Edits
  BY <1>1, TargetFacts, OperationFields
  DEF SaveInv, OutcomeSoFar, TargetAgrees, TargetAfter, TableSteps
<1>3. PICK n \in 1 .. MaxGeneration : op.at = <<"staging", n>>
  BY <1>1, <1>2, TargetFacts
<1>4. /\ op.at[2] = n /\ current < n /\ <<"committed", n>> \in Locations
      /\ <<"staging", n>> \in Locations
  BY <1>1, <1>2, <1>3, NumberedLocations DEF SaveInv, GenerationIsNew
<1>5. CASE /\ root' = [root EXCEPT ![op.at] = None,
                                  ![<<"committed", op.at[2]>>] = root[op.at]]
           /\ Continue("publish") /\ UNCHANGED current
  <2>1. DiskIsSound /\ current \in 0 .. MaxGeneration /\ root \in [Locations -> SaveRoots \cup {None}]
    BY DEF SaveInv, DiskIsSound
  <2>2. root[op.at] = Target
    <3>1. TableOf(op.edits) \in Tables
      BY <1>2, EditsAreFunctions, PayloadsAreFunctions DEF TableOf, Tables, Payloads
    <3>2. EmptyRoot.chunks # TableOf(op.edits)
      BY <3>1, TableFields DEF EmptyRoot
    <3> QED
      BY <1>2, <3>2 DEF Target, Opened
  <2>3. /\ root' \in [Locations -> SaveRoots \cup {None}]
        /\ root'[<<"committed", n>>] = Target
        /\ \A g \in 0 .. MaxGeneration : g # n => /\ root'[<<"committed", g>>] = root[<<"committed", g>>]
                                                 /\ root'[<<"staging", g>>] = root[<<"staging", g>>]
    BY <1>2, <1>3, <1>4, <1>5, <2>1, <2>2, GenerationLocations
  <2>4. Active = <<"committed", current>> /\ root'[<<"committed", current'>>] = root[Active]
    <3>1. current # n
      BY <1>4, <2>1
    <3> QED
      BY <1>5, <2>1, <2>3, <3>1 DEF Active
  <2>5. Readable(root[Active]) /\ Saved = SavedIn(root[Active])
    BY <2>1, ActiveFacts DEF DiskIsSound
  <2>6. current' \in Nat /\ Saved' = Saved
    <3>1. current' \in Nat
      BY <1>5, <2>1, SaveConstants
    <3>2. PICK a : a = root[Active]
      OBVIOUS
    <3> QED
      BY <2>4, <2>5, <3>1, <3>2, SavedNext
  <2>7. DiskIsSound'
    <3>1. Readable(root[Active])'
      BY <2>4, <2>5 DEF Active
    <3>2. current' # 0 => current' \in CommittedGenerations'
      <4>1. root[Active] # None
        BY <2>1, ActiveFacts
      <4> QED
        BY <1>5, <2>1, <2>4, <4>1 DEF CommittedGenerations
    <3>3. root'[<<"staging", 0>>] = None
      <4>1. 0 \in 0 .. MaxGeneration /\ 0 # n
        BY SaveConstants
      <4> QED
        BY <2>1, <2>3, <4>1 DEF DiskIsSound
    <3> QED
      BY <1>5, <2>1, <2>3, <3>1, <3>2, <3>3 DEF DiskIsSound
  <2>8. pc' = "publish" /\ op' = op /\ reply' = reply
    BY <1>5 DEF Continue
  <2>9. OperationTypes'
    BY <1>2, <2>8 DEF SaveInv, OperationTypes, StepsOf, SnapshotSteps
  <2>10. RequestAgrees' /\ GenerationIsNew' /\ PhasesAreDone'
    BY <1>1, <1>2, <1>5, <2>8 DEF SaveInv, RequestAgrees, GenerationIsNew, PhasesAreDone
  <2>11. OutcomeSoFar'
    BY <1>2, <2>6, <2>8 DEF OutcomeSoFar
  <2>12. TargetAgrees'
    <3>1. PromotedIsWhole'
      BY <1>2, <1>4, <2>3, <2>8 DEF PromotedIsWhole
    <3>2. PICK t : t = Target'
      OBVIOUS
    <3>3. TargetAfter("publish", t, op)
      BY DEF TargetAfter
    <3> QED
      BY <2>8, <3>1, <3>2, <3>3 DEF TargetAgrees
  <2>13. Effect
    BY <1>2, <2>6, <2>8 DEF Effect
  <2> QED
    BY <2>7, <2>9, <2>10, <2>11, <2>12, <2>13 DEF SaveInv
<1>6. CASE Continue("undo_generation") /\ UNCHANGED disk
  BY <1>1, <1>2, <1>6, GenerationStepFails
<1> QED
  BY <1>5, <1>6 DEF CommitGeneration

\* current.txt is written: the snapshot takes effect.
LEMMA PublishGenerationStep ==
  ASSUME ~LateWriteErrors, SaveInv, PublishGeneration
  PROVE  SaveInv' /\ Effect /\ (current' # current => current' > current)
<1>1. pc = "publish" /\ pc # "idle"
  BY DEF PublishGeneration
<1>2. op # None /\ op \in Operations /\ op.kind = "snapshot" /\ Saved = op.from
  <2>1. op # None /\ op \in Operations /\ pc \in StepsOf(op.kind)
    BY <1>1 DEF SaveInv, OperationTypes
  <2>2. op.kind = "snapshot"
    BY <1>1, <2>1, OperationFields DEF StepsOf, ChunkSteps, MaintainSteps, TableSteps, Kinds
  <2> QED
    BY <1>1, <2>1, <2>2 DEF SaveInv, OutcomeSoFar
<1>3. /\ op.to = op.snapshot /\ op.snapshot \in SnapshotFiles /\ op.edits = op.snapshot.edits
      /\ op.edits \in Edits
  BY <1>2, OperationFields DEF SaveInv, RequestAgrees
<1>4. PICK n \in 1 .. MaxGeneration : op.at[2] = n /\ current < n
  BY <1>1, <1>2 DEF SaveInv, GenerationIsNew
<1>5. PICK promoted \in SaveRoots :
          /\ promoted = root[<<"committed", n>>]
          /\ promoted.chunks = TableOf(op.edits) /\ promoted.snapshot = op.snapshot
  BY <1>1, <1>4 DEF SaveInv, TargetAgrees, PromotedIsWhole
<1>6. DiskIsSound
  BY DEF SaveInv
<1>7. CASE current' \in Written(op.at[2]) /\ Return("ok") /\ UNCHANGED root
  <2>1. current' = n /\ current' \in Nat
    BY <1>4, <1>7 DEF Written
  <2>2. op.snapshot # Broken /\ op.snapshot # None
    BY <1>3, MarkersStandApart
  <2>3. PICK edits \in Edits : edits = op.edits
    BY <1>3
  <2>4. Readable(promoted) /\ EffectiveEdits(promoted) = op.edits
    BY <1>5, <2>2, <2>3, InstalledIsRead
  <2>5. root'[<<"committed", current'>>] = promoted
    BY <1>5, <1>7, <2>1
  <2>6. Saved' = SavedIn(promoted)
    BY <2>1, <2>4, <2>5, SavedNext
  <2>7. SavedIn(promoted) = op.to
    BY <1>3, <1>5, <2>2, <2>4 DEF SavedIn, SnapshotFiles
  <2>8. DiskIsSound'
    <3>1. Readable(root[Active])'
      BY <2>4, <2>5 DEF Active
    <3>2. current' \in CommittedGenerations'
      BY <2>1, <2>4, <2>5, RootFields DEF CommittedGenerations
    <3>3. current' \in 0 .. MaxGeneration
      BY <2>1
    <3> QED
      BY <1>6, <1>7, <3>1, <3>2, <3>3 DEF DiskIsSound
  <2>9. SaveInv' /\ Effect
    BY <1>2, <1>7, <2>6, <2>7, <2>8, Returned
  <2>10. current' > current
    BY <1>4, <1>6, <2>1 DEF DiskIsSound
  <2> QED
    BY <2>9, <2>10
<1>8. CASE Return("error") /\ UNCHANGED disk
  BY <1>2, <1>6, <1>8, DiskStands, Returned DEF disk
<1> QED
  BY <1>7, <1>8 DEF PublishGeneration

-----------------------------------------------------------------------------
(* Maintenance.                                                               *)

LEMMA MaintainContinues ==
  ASSUME SaveInv, op # None, op.kind = "maintain", DiskIsSound', current' = current,
         Saved' = Saved, NEW next \in MaintainSteps, Continue(next),
         next # "recover" /\ "recover" \in op.phases => StagedGenerations' = {},
         next = "compact" /\ "prune" \in op.phases /\ current # 0 =>
             Cardinality(Stale') <= op.keep
  PROVE  SaveInv' /\ Effect
<1>1. pc' = next /\ op' = op /\ reply' = reply
  BY DEF Continue
<1>2. op \in Operations /\ pc \in MaintainSteps /\ Saved = op.from
  BY DEF SaveInv, OperationTypes, StepsOf, OutcomeSoFar
<1>3. OperationTypes'
  BY <1>1, <1>2 DEF SaveInv, OperationTypes, StepsOf, MaintainSteps
<1>4. RequestAgrees' /\ GenerationIsNew'
  BY <1>1 DEF SaveInv, RequestAgrees, GenerationIsNew
<1>5. OutcomeSoFar'
  BY <1>1, <1>2 DEF OutcomeSoFar
<1>6. TargetAgrees'
  BY <1>1 DEF TargetAgrees, TargetAfter, PromotedIsWhole, MaintainSteps
<1>7. PhasesAreDone'
  BY <1>1 DEF PhasesAreDone
<1>8. Effect
  BY <1>1, <1>2 DEF Effect
<1> QED
  BY <1>3, <1>4, <1>5, <1>6, <1>7, <1>8 DEF SaveInv

LEMMA MaintainFacts ==
  ASSUME SaveInv, pc \in MaintainSteps
  PROVE  /\ op # None /\ op \in Operations /\ op.kind = "maintain"
         /\ Saved = op.from /\ Saved = op.to /\ DiskIsSound /\ op.keep \in Nat
<1>1. op # None /\ op \in Operations /\ pc \in StepsOf(op.kind)
  BY DEF SaveInv, OperationTypes, MaintainSteps
<1>2. op.kind = "maintain"
  BY <1>1, OperationFields DEF StepsOf, SnapshotSteps, ChunkSteps, MaintainSteps, TableSteps, Kinds
<1> QED
  BY <1>1, <1>2, OperationFields DEF SaveInv, OutcomeSoFar, RequestAgrees, MaintainSteps

\* The removal of a generation nobody reads.
LEMMA RemovalStep ==
  ASSUME SaveInv, pc \in MaintainSteps, NEW at \in Locations, at # Active,
         at # <<"staging", 0>>, NEW next, RemoveGeneration(at, next)
  PROVE  /\ DiskIsSound' /\ Saved' = Saved /\ current' = current
         /\ \A other \in Locations : other # at => root'[other] = root[other]
         /\ Continue(next) \/ Return("error")
<1>1. DiskIsSound /\ root[at] \in SaveRoots \cup {None}
  BY DEF SaveInv, DiskIsSound
<1>2. LeftOfRoot(root[at]) \subseteq SaveRoots \cup {None}
  BY <1>1, LeftOfRootType
<1>3. PICK r \in SaveRoots \cup {None} : root' = [root EXCEPT ![at] = r] /\ current' = current
  BY <1>2 DEF RemoveGeneration, RemovePartly
<1>4. Continue(next) \/ Return("error")
  BY DEF RemoveGeneration
<1> QED
  BY <1>1, <1>3, <1>4, RootStep

LEMMA RecoverStep ==
  ASSUME SaveInv, Recover
  PROVE  SaveInv' /\ Effect
<1>1. pc = "recover" /\ pc \in MaintainSteps
  BY DEF Recover, MaintainSteps
<1>2. op # None /\ op.kind = "maintain" /\ Saved = op.from /\ DiskIsSound
  BY <1>1, MaintainFacts
<1>3. CASE /\ "recover" \notin op.phases \/ StagedGenerations = {}
           /\ Continue("prune") /\ UNCHANGED disk
  BY <1>2, <1>3, DiskStands, MaintainContinues DEF MaintainSteps
<1>4. CASE Return("error") /\ UNCHANGED disk
  BY <1>2, <1>4, DiskStands, Returned
<1>5. CASE /\ StagedGenerations # {}
           /\ RemoveGeneration(<<"staging", Min(StagedGenerations)>>, "recover")
  <2>1. StagedGenerations \subseteq Nat /\ StagedGenerations \subseteq 1 .. MaxGeneration
    BY DEF StagedGenerations
  <2>2. PICK g \in 1 .. MaxGeneration : g = Min(StagedGenerations)
    BY <1>5, <2>1, MinFacts
  <2>3. /\ <<"staging", g>> \in Locations /\ <<"staging", g>> # Active
        /\ <<"staging", g>> # <<"staging", 0>>
    <3>1. Active = <<"committed", current>> /\ g # 0 /\ <<"staging", g>> \in Locations
      BY <1>2, NumberedLocations, ActiveFacts
    <3> QED
      BY <3>1, GenerationLocations
  <2>4. /\ DiskIsSound' /\ Saved' = Saved /\ current' = current
        /\ Continue("recover") \/ Return("error")
    BY <1>1, <1>5, <2>2, <2>3, RemovalStep
  <2>5. "recover" \in MaintainSteps
    BY DEF MaintainSteps
  <2> QED
    BY <1>2, <2>4, <2>5, MaintainContinues, Returned
<1> QED
  BY <1>3, <1>4, <1>5, ActiveFacts, <1>2 DEF Recover

\* Pruning has nothing left to remove only when few enough are left.
LEMMA NothingDoomed ==
  ASSUME NEW keep \in Nat, Doomed(keep) = {}
  PROVE  Cardinality(Stale) <= keep
<1>1. Stale \subseteq 1 .. MaxGeneration /\ Stale \subseteq Nat
  BY DEF Stale, CommittedGenerations
<1>2. IsFiniteSet(Stale)
  <2>1. IsFiniteSet(1 .. MaxGeneration)
    BY FS_Interval, SaveConstants
  <2> QED
    BY <1>1, <2>1, FS_Subset
<1>3. CASE Stale = {}
  BY <1>3, FS_EmptySet
<1>4. CASE Stale # {}
  <2> DEFINE oldest == Min(Stale)
  <2>1. oldest \in Stale /\ \A g \in Stale : oldest <= g
    BY <1>1, <1>4, MinFacts
  <2> HIDE DEF oldest
  <2>2. {newer \in Stale : newer > oldest} = Stale \ {oldest}
    <3>1. oldest \in Nat /\ \A g \in Stale : g \in Nat /\ oldest <= g
      BY <1>1, <2>1
    <3>2. \A g \in Stale : g > oldest <=> g # oldest
      BY <3>1
    <3> QED
      BY <3>2
  <2>3. ~ (Cardinality(Stale \ {oldest}) >= keep)
    BY <2>1, <2>2 DEF Doomed
  <2>4. Cardinality(Stale \ {oldest}) = Cardinality(Stale) - 1 /\ Cardinality(Stale) \in Nat
    BY <1>2, <2>1, FS_RemoveElement, FS_CardinalityType
  <2> QED
    BY <2>3, <2>4
<1> QED
  BY <1>3, <1>4

LEMMA PruneStep ==
  ASSUME SaveInv, Prune
  PROVE  SaveInv' /\ Effect
<1>1. pc = "prune" /\ pc \in MaintainSteps
  BY DEF Prune, MaintainSteps
<1>2. /\ op # None /\ op.kind = "maintain" /\ Saved = op.from /\ DiskIsSound
      /\ op.keep \in Nat /\ ActiveExists
      /\ "recover" \in op.phases => StagedGenerations = {}
  BY <1>1, MaintainFacts, ActiveFacts DEF SaveInv, PhasesAreDone
<1>3. CASE /\ "prune" \notin op.phases \/ current = 0 \/ Doomed(op.keep) = {}
           /\ Continue("compact") /\ UNCHANGED disk
  <2>1. PICK keep \in Nat : keep = op.keep
    BY <1>2
  <2>2. "prune" \in op.phases /\ current # 0 => Cardinality(Stale') <= op.keep
    BY <1>2, <1>3, <2>1, NothingDoomed, DiskStands, SaveConstants
  <2> QED
    BY <1>2, <1>3, <2>2, DiskStands, MaintainContinues DEF MaintainSteps
<1>4. CASE Return("error") /\ UNCHANGED disk
  BY <1>2, <1>4, DiskStands, Returned
<1>5. CASE /\ Doomed(op.keep) # {}
           /\ RemoveGeneration(<<"committed", Max(Doomed(op.keep))>>, "prune")
  <2>1. Doomed(op.keep) \subseteq Stale /\ Stale \subseteq 0 .. MaxGeneration
    BY SaveConstants DEF Doomed, Stale, CommittedGenerations
  <2>2. Max(Doomed(op.keep)) \in Doomed(op.keep)
    BY <1>5, <2>1, MaxFacts, SaveConstants
  <2>3. PICK g \in 1 .. MaxGeneration : g = Max(Doomed(op.keep)) /\ g # current
    BY <2>1, <2>2 DEF Stale, CommittedGenerations
  <2>4. /\ <<"committed", g>> \in Locations /\ <<"committed", g>> # Active
        /\ <<"committed", g>> # <<"staging", 0>>
    <3>1. Active = <<"committed", current>> /\ <<"committed", g>> \in Locations
      BY <1>2, NumberedLocations, ActiveFacts
    <3> QED
      BY <2>3, <3>1, GenerationLocations
  <2>5. /\ DiskIsSound' /\ Saved' = Saved /\ current' = current
        /\ \A other \in Locations : other # <<"committed", g>> => root'[other] = root[other]
        /\ Continue("prune") \/ Return("error")
    BY <1>1, <1>5, <2>3, <2>4, RemovalStep
  <2>6. StagedGenerations' = StagedGenerations
    BY <2>5, NumberedLocations DEF StagedGenerations
  <2>7. "prune" \in MaintainSteps
    BY DEF MaintainSteps
  <2> QED
    BY <1>2, <2>5, <2>6, <2>7, MaintainContinues, Returned
<1> QED
  BY <1>2, <1>3, <1>4, <1>5 DEF Prune

\* Compaction removes only payloads that no reader looks at.
LEMMA PayloadRemoved ==
  ASSUME NEW r, Readable(r), NEW c, ReadableTable(r) # None,
         c \notin ReadIndex(r), NEW s, NEW table,
         table = [files |-> Restrict(ReadableTable(r).files,
                                     DOMAIN ReadableTable(r).files \ {c}),
                  index |-> ReadableTable(r).index],
         s = IF r.chunks # None THEN [r EXCEPT !.chunks = table] ELSE [r EXCEPT !.backup = table]
  PROVE  s \in SaveRoots /\ Readable(s) /\ SavedIn(s) = SavedIn(r)
<1> DEFINE old == ReadableTable(r)
           files == Restrict(old.files, DOMAIN old.files \ {c})
<1>1. r \in SaveRoots /\ old \in Tables
  BY RootFields DEF Readable
<1>2. /\ old.files \in Payloads /\ DOMAIN old.files \subseteq Coords
      /\ old.files \in [DOMAIN old.files -> Deltas \cup {Broken}]
  BY <1>1, TableFields, PayloadsAreFunctions
<1>3. /\ DOMAIN files = DOMAIN old.files \ {c}
      /\ \A d \in DOMAIN files : files[d] = old.files[d]
      /\ files \in [DOMAIN files -> Deltas \cup {Broken}]
  BY <1>2 DEF Restrict
<1>4. table = [files |-> files, index |-> old.index]
  OBVIOUS
<1> HIDE DEF files, old
<1>5. files \in Payloads
  BY <1>2, <1>3, PayloadsAreFunctions
<1>6. table \in Tables /\ table.files = files /\ table.index = old.index
  <2>1. old.index \in (SUBSET Coords) \cup {None, Broken}
    BY <1>1, TableFields
  <2>2. files \in UNION {[cs -> Deltas \cup {Broken}] : cs \in SUBSET Coords}
    BY <1>5 DEF Payloads
  <2>3. [files |-> files, index |-> old.index] \in Tables
    BY <2>1, <2>2 DEF Tables
  <2> QED
    BY <1>4, <2>3
<1>7. table # None
  BY <1>6, TableFields
<1>8. s \in SaveRoots /\ s.snapshot = r.snapshot /\ ReadableTable(s) = table
  BY <1>1, <1>6, <1>7 DEF SaveRoots, ReadableTable
<1>9. HasTable(s) <=> HasTable(r)
  BY <1>6, <1>7, <1>8 DEF HasTable, old
<1>10. EffectiveEdits(s) = EffectiveEdits(r)
  <2>1. CASE ~HasTable(r)
    BY <1>8, <1>9, <2>1 DEF EffectiveEdits
  <2>2. CASE HasTable(r)
    <3>1. EffectiveEdits(r) = IF TableIsWhole(old) THEN Restrict(old.files, old.index) ELSE Broken
      BY <2>2 DEF EffectiveEdits, old
    <3>2. TableIsWhole(old)
      BY <3>1 DEF Readable
    <3>3. c \notin old.index
      BY <2>2 DEF ReadIndex, old
    <3>4. TableIsWhole(table)
      BY <1>3, <1>6, <3>2, <3>3 DEF TableIsWhole
    <3>5. EffectiveEdits(s) = Restrict(files, old.index)
      BY <1>6, <1>8, <1>9, <2>2, <3>4 DEF EffectiveEdits
    <3>6. Restrict(files, old.index) = Restrict(old.files, old.index)
      BY <1>3, <3>2, <3>3 DEF Restrict, TableIsWhole
    <3> QED
      BY <3>1, <3>2, <3>5, <3>6
  <2> QED
    BY <2>1, <2>2
<1> QED
  BY <1>8, <1>10 DEF Readable, SavedIn

LEMMA CompactStep ==
  ASSUME SaveInv, Compact
  PROVE  SaveInv' /\ Effect
<1>1. pc = "compact" /\ pc \in MaintainSteps
  BY DEF Compact, MaintainSteps
<1>2. /\ op # None /\ op.kind = "maintain" /\ Saved = op.from /\ Saved = op.to /\ DiskIsSound
  BY <1>1, MaintainFacts
<1>3. CASE (Return("ok") \/ Return("error")) /\ UNCHANGED disk
  BY <1>2, <1>3, DiskStands, Returned
<1>4. ASSUME NEW c \in Orphans, ReadableTable(root[Active]) # None, RemovePayload(c),
             Continue("compact")
      PROVE  SaveInv' /\ Effect
  <2>1. PICK r : r = root[Active]
    OBVIOUS
  <2>2. PICK table : table = [ReadableTable(r) EXCEPT !.files = Restrict(@, DOMAIN @ \ {c})]
    OBVIOUS
  <2>3. PICK s : s = IF r.chunks # None THEN [r EXCEPT !.chunks = table]
                                        ELSE [r EXCEPT !.backup = table]
    OBVIOUS
  <2>4. root' = [root EXCEPT ![Active] = s] /\ current' = current
    BY <1>4, <2>1, <2>2, <2>3 DEF RemovePayload
  <2>5. Readable(r) /\ c \notin ReadIndex(r) /\ ReadableTable(r) # None
    BY <1>2, <1>4, <2>1 DEF DiskIsSound, Orphans
  <2>6. s \in SaveRoots /\ Readable(s) /\ SavedIn(s) = SavedIn(r)
    <3>1. PICK old \in Tables : old = ReadableTable(r)
      BY <2>5, RootFields DEF Readable
    <3>2. table = [old EXCEPT !.files = Restrict(old.files, DOMAIN old.files \ {c})]
      BY <2>2, <3>1
    <3>3. table = [files |-> Restrict(old.files, DOMAIN old.files \ {c}), index |-> old.index]
      BY <3>2 DEF Tables
    <3> QED
      BY <2>3, <2>5, <3>1, <3>3, PayloadRemoved
  <2>7. PICK at \in Locations : at = Active /\ at = <<"committed", current>>
    BY <1>2, ActiveFacts
  <2>8. at # <<"staging", 0>>
    BY <2>7
  <2>9. /\ DiskIsSound' /\ Saved' = SavedIn(s) /\ root'[at] = s
        /\ \A other \in Locations : other # at => root'[other] = root[other]
    BY <1>2, <2>4, <2>6, <2>7, <2>8, RootStep
  <2>10. Saved' = Saved
    BY <1>2, <2>1, <2>6, <2>9, ActiveFacts
  <2>11. StagedGenerations' = StagedGenerations
    <3>1. ASSUME NEW g \in 1 .. MaxGeneration
          PROVE  <<"staging", g>> \in Locations /\ <<"staging", g>> # at
      BY <2>7, NumberedLocations, GenerationLocations
    <3> QED
      BY <2>9, <3>1 DEF StagedGenerations
  <2>12. CommittedGenerations' = CommittedGenerations
    <3>1. root'[at] # None /\ root[at] # None
      BY <1>2, <2>6, <2>7, <2>9, RootFields, ActiveFacts
    <3>2. \A g \in 1 .. MaxGeneration :
             root'[<<"committed", g>>] # None <=> root[<<"committed", g>>] # None
      BY <2>9, <3>1, NumberedLocations
    <3> QED
      BY <3>2 DEF CommittedGenerations
  <2>13. Stale' = Stale
    BY <2>4, <2>12 DEF Stale
  <2>14. /\ "recover" \in op.phases => StagedGenerations' = {}
         /\ "prune" \in op.phases /\ current # 0 => Cardinality(Stale') <= op.keep
    BY <1>1, <1>2, <2>11, <2>13 DEF SaveInv, PhasesAreDone
  <2> QED
    BY <1>1, <1>2, <1>4, <2>4, <2>9, <2>10, <2>14, MaintainContinues
<1> QED
  BY <1>3, <1>4 DEF Compact

-----------------------------------------------------------------------------
(* The theorems.                                                              *)

LEMMA SaveStep ==
  ASSUME ~LateWriteErrors, SaveInv, Next
  PROVE  SaveInv' /\ Effect
<1>1. CASE Request
  BY <1>1, RequestStep
<1>2. CASE ReadFails \/ GenerationsExhausted \/ Crash
  BY <1>2, StoppedStep
<1>3. CASE FindNextGeneration \/ FindActive \/ MergeDelta
  BY <1>3, FindStep
<1>4. CASE WriteTable
  BY <1>4, WriteTableStep
<1>5. CASE ClearStaging \/ UndoGeneration
  BY <1>5, ClearStagingStep
<1>6. CASE WriteSnapshotFile
  BY <1>6, WriteSnapshotFileStep
<1>7. CASE CommitGeneration
  BY <1>7, CommitGenerationStep
<1>8. CASE PublishGeneration
  BY <1>8, PublishGenerationStep
<1>9. CASE Recover
  BY <1>9, RecoverStep
<1>10. CASE Prune
  BY <1>10, PruneStep
<1>11. CASE Compact
  BY <1>11, CompactStep
<1> QED
  BY <1>1, <1>2, <1>3, <1>4, <1>5, <1>6, <1>7, <1>8, <1>9, <1>10, <1>11 DEF Next, WriteGeneration

LEMMA SaveInitially ==
  ASSUME Init
  PROVE  SaveInv
<1>1. PICK plain \in PlainRoots :
         root = [location \in Locations |-> IF location = PlainRoot THEN plain ELSE None]
  BY DEF Init
<1>2. plain \in SaveRoots /\ Readable(plain)
  BY PlainRootsAreReadable DEF Readable
<1>3. current = 0 /\ pc = "idle" /\ op = None /\ reply = "none"
  BY DEF Init
<1>4. Active = PlainRoot /\ PlainRoot \in Locations /\ <<"staging", 0>> \in Locations
      /\ PlainRoot # <<"staging", 0>> /\ current \in 0 .. MaxGeneration
  BY <1>3, SaveConstants DEF Active, PlainRoot, Locations
<1>5. root[Active] = plain /\ root[<<"staging", 0>>] = None
  BY <1>1, <1>4
<1>6. root \in [Locations -> SaveRoots \cup {None}]
  BY <1>1, <1>2
<1>7. DiskIsSound
  BY <1>2, <1>3, <1>4, <1>5, <1>6 DEF DiskIsSound
<1> QED
  BY <1>3, <1>7 DEF SaveInv, OperationTypes, RequestAgrees, GenerationIsNew, OutcomeSoFar,
                    TargetAgrees, PromotedIsWhole, PhasesAreDone

LEMMA SaveStutter ==
  ASSUME SaveInv, UNCHANGED vars
  PROVE  SaveInv' /\ UNCHANGED (Store!vars)
<1>1. UNCHANGED disk /\ root' = root /\ current' = current
      /\ pc' = pc /\ op' = op /\ reply' = reply
  BY DEF vars, disk
<1>2. /\ DiskIsSound' /\ Saved' = Saved
      /\ CommittedGenerations' = CommittedGenerations
      /\ StagedGenerations' = StagedGenerations /\ Stale' = Stale
  BY <1>1, DiskStands DEF SaveInv
<1>3. Active' = Active /\ Target' = Target
  BY <1>1 DEF Active, Target
<1>4. OperationTypes' /\ RequestAgrees' /\ GenerationIsNew' /\ OutcomeSoFar'
  BY <1>1, <1>2, <1>3 DEF SaveInv, OperationTypes, RequestAgrees, GenerationIsNew, OutcomeSoFar
<1>5. TargetAgrees' /\ PhasesAreDone'
  BY <1>1, <1>2, <1>3 DEF SaveInv, TargetAgrees, TargetAfter, PromotedIsWhole, PhasesAreDone
<1>6. UNCHANGED (Store!vars)
  BY <1>1, <1>2 DEF Store!vars
<1> QED
  BY <1>2, <1>4, <1>5, <1>6 DEF SaveInv

\* The inductive invariant holds in every reachable state.
LEMMA SaveInvariant ==
  ASSUME ~LateWriteErrors
  PROVE  Spec => []SaveInv
<1>1. Init => SaveInv
  BY SaveInitially
<1>2. SaveInv /\ [Next]_vars => SaveInv'
  BY SaveStep, SaveStutter
<1> QED
  BY <1>1, <1>2, PTL DEF Spec

\* What is on disk stays of its type: directories hold save roots, current.txt
\* names a generation, and there is an operation exactly while one is under way.
THEOREM SaveTypeCorrect ==
  ASSUME ~LateWriteErrors
  PROVE  Spec => []TypeOK
<1>1. SaveInv => TypeOK
  <2> SUFFICES ASSUME SaveInv
               PROVE  TypeOK
    OBVIOUS
  <2> QED
    BY DEF SaveInv, DiskIsSound, OperationTypes, TypeOK
<1> QED
  BY <1>1, SaveInvariant, PTL

\* Wherever a directory is about to be renamed its destination is free, whatever
\* earlier failures and crashes have left on the disk.
THEOREM DestinationsStayFree ==
  ASSUME ~LateWriteErrors
  PROVE  Spec => []DestinationsAreFree
<1>1. ASSUME SaveInv
      PROVE  DestinationsAreFree
  <2>1. ASSUME pc \in {"park_table", "install_table", "roll_back"}
        PROVE  TargetAfter(pc, Target, op)
    BY <1>1, <2>1, TargetHere DEF TableSteps
  <2>2. ASSUME pc = "commit_generation"
        PROVE  root[<<"committed", op.at[2]>>] = None
    <3>1. op # None /\ op.kind = "snapshot" /\ \E n \in 1 .. MaxGeneration : op.at = <<"staging", n>>
      BY <1>1, <2>2, TargetFacts DEF TargetSteps, TableSteps
    <3>2. PICK n \in 1 .. MaxGeneration : op.at[2] = n
      BY <3>1
    <3>3. \A g \in CommittedGenerations : g < n
      BY <1>1, <2>2, <3>1, <3>2 DEF SaveInv, GenerationIsNew
    <3>4. n \notin CommittedGenerations
      BY <3>3
    <3> QED
      BY <3>2, <3>4 DEF CommittedGenerations
  <2> QED
    BY <2>1, <2>2 DEF DestinationsAreFree, TargetAfter
<1>2. SaveInv => DestinationsAreFree
  BY <1>1
<1> QED
  BY <1>2, SaveInvariant, PTL

\* The database implements SaveStore: whatever fails and wherever the process
\* dies, a reader finds the save before the operation or the one it asked for,
\* and the answer says which.
THEOREM DatabaseImplementsStore ==
  ASSUME ~LateWriteErrors
  PROVE  Spec => ImplementsSaveStore
<1>1. ASSUME Init
      PROVE  Store!Init
  <2>1. SaveInv
    BY <1>1, SaveInitially
  <2>2. Saved \in Saves
    BY <2>1, ActiveFacts DEF SaveInv
  <2>3. op = None /\ reply = "none"
    BY <1>1 DEF Init
  <2> QED
    BY <2>2, <2>3 DEF Store!Init
<1>2. ASSUME SaveInv, [Next]_vars
      PROVE  [Store!Next]_(Store!vars)
  <2>1. CASE Next
    BY <1>2, <2>1, SaveStep, EffectIsStoreStep DEF SaveInv
  <2>2. CASE UNCHANGED vars
    BY <1>2, <2>2, SaveStutter
  <2> QED
    BY <1>2, <2>1, <2>2
<1>3. Init => Store!Init
  BY <1>1
<1>4. SaveInv /\ [Next]_vars => [Store!Next]_(Store!vars)
  BY <1>2
<1> QED
  BY <1>3, <1>4, SaveInvariant, PTL DEF Spec, ImplementsSaveStore, Store!Spec

\* Only the publication of a generation writes current.txt.
LEMMA CurrentIsKept ==
  ASSUME Next, ~PublishGeneration
  PROVE  current' = current
<1>1. CASE Request
  BY <1>1 DEF Request, WriteSnapshot, MigrateToSchema, WriteChunkDelta, WriteChunkDeltas,
              Maintain, Begin, disk
<1>2. CASE ReadFails \/ FindActive \/ MergeDelta \/ FindNextGeneration \/ GenerationsExhausted
           \/ Crash
  BY <1>2 DEF ReadFails, FindActive, MergeDelta, FindNextGeneration, GenerationsExhausted,
              Crash, disk
<1>3. CASE WriteTable
  BY <1>3 DEF WriteTable, ClearStaged, WritePayload, WriteIndex, WriteTableFails, SettleBackup,
              ParkTable, InstallTable, RollBack, DropBackup, UndoTable, RemoveStaged, SetStaged,
              SetTarget, disk
<1>4. CASE ClearStaging \/ WriteSnapshotFile \/ CommitGeneration \/ UndoGeneration
  BY <1>4 DEF ClearStaging, WriteSnapshotFile, CommitGeneration, UndoGeneration, SetTarget,
              RemovePartly, disk
<1>5. CASE Recover \/ Prune \/ Compact
  BY <1>5 DEF Recover, Prune, Compact, RemoveGeneration, RemovePartly, RemovePayload, disk
<1> QED
  BY <1>1, <1>2, <1>3, <1>4, <1>5 DEF Next, WriteGeneration

\* current.txt never goes back to the number of an earlier generation.
THEOREM CurrentAdvances ==
  ASSUME ~LateWriteErrors
  PROVE  Spec => CurrentOnlyAdvances
<1>1. ASSUME SaveInv, Next
      PROVE  current' # current => current' > current
  BY <1>1, PublishGenerationStep, CurrentIsKept
<1>2. SaveInv /\ [Next]_vars => [current' # current => current' > current]_vars
  BY <1>1
<1> QED
  BY <1>2, SaveInvariant, PTL DEF Spec, CurrentOnlyAdvances

\* A maintenance pass answers "ok" only from its last phase, and the phases
\* before it have left nothing they were asked to remove.
LEMMA ReclaimedStep ==
  ASSUME SaveInv, Next, op # None, op' = None, reply' = "ok", op.kind = "maintain"
  PROVE  Reclaimed
<1>1. pc \in MaintainSteps /\ op \in Operations
  BY DEF SaveInv, OperationTypes, StepsOf
<1>2. Compact
  <2>1. ~ Request
    BY <1>1 DEF Request, WriteSnapshot, MigrateToSchema, WriteChunkDelta, WriteChunkDeltas,
                Maintain, Begin, MaintainSteps
  <2>2. ~ (ReadFails \/ FindActive \/ MergeDelta \/ Crash)
    BY <1>1 DEF ReadFails, FindActive, MergeDelta, Crash, Return, MaintainSteps
  <2>3. ~ WriteTable
    BY <1>1 DEF WriteTable, ClearStaged, WritePayload, WriteIndex, WriteTableFails, SettleBackup,
                ParkTable, InstallTable, RollBack, DropBackup, UndoTable, MaintainSteps
  <2>4. ~ WriteGeneration
    BY <1>1 DEF WriteGeneration, FindNextGeneration, GenerationsExhausted, ClearStaging,
                WriteSnapshotFile, CommitGeneration, PublishGeneration, UndoGeneration,
                MaintainSteps
  <2>5. ~ (Recover \/ Prune)
    BY DEF Recover, Prune, RemoveGeneration, Continue, Return
  <2> QED
    BY <2>1, <2>2, <2>3, <2>4, <2>5 DEF Next
<1>3. /\ pc = "compact" /\ UNCHANGED disk
      /\ \/ "compact" \notin op.phases
         \/ ReadableTable(root[Active]) = None \/ Orphans = {}
  BY <1>2 DEF Compact, Continue, Return
<1>4. DiskIsSound
  BY DEF SaveInv
<1>5. /\ StagedGenerations' = StagedGenerations /\ Stale' = Stale
      /\ root' = root /\ current' = current
  BY <1>3, <1>4, DiskStands
<1>6. /\ "recover" \in op.phases => StagedGenerations' = {}
      /\ "prune" \in op.phases /\ current # 0 => Cardinality(Stale') <= op.keep
  BY <1>3, <1>5 DEF SaveInv, PhasesAreDone
<1>7. PICK r : r = root[Active] /\ r = root'[Active']
  BY <1>5 DEF Active
<1>8. Readable(r) /\ r \in SaveRoots /\ ReadableTable(r) \in Tables \cup {None}
  BY <1>4, <1>7, RootFields DEF DiskIsSound, Readable
<1>9. ASSUME "compact" \in op.phases, ReadableTable(r) # None
      PROVE  DOMAIN ReadableTable(r).files = ReadIndex(r)
  <2>1. DOMAIN ReadableTable(r).files \subseteq ReadIndex(r)
    BY <1>3, <1>7, <1>9 DEF Orphans
  <2>2. CASE HasTable(r)
    <3>1. TableIsWhole(ReadableTable(r))
      BY <1>8, <2>2 DEF Readable, EffectiveEdits
    <3>2. ReadIndex(r) = ReadableTable(r).index /\ ReadableTable(r).index \in SUBSET Coords
      BY <1>8, <1>9, <2>2, <3>1, TableFields DEF ReadIndex, HasTable, TableIsWhole
    <3> QED
      BY <2>1, <3>1, <3>2 DEF TableIsWhole
  <2>3. CASE ~HasTable(r)
    BY <2>1, <2>3 DEF ReadIndex
  <2> QED
    BY <2>2, <2>3
<1> QED
  BY <1>6, <1>7, <1>9 DEF Reclaimed

\* A maintenance pass that answers "ok" has reclaimed what it was asked to.
THEOREM MaintenanceReclaimsAll ==
  ASSUME ~LateWriteErrors
  PROVE  Spec => MaintenanceReclaims
<1>1. SaveInv /\ [Next]_vars =>
         [op # None /\ op' = None /\ reply' = "ok" /\ op.kind = "maintain" => Reclaimed]_vars
  BY ReclaimedStep
<1> QED
  BY <1>1, SaveInvariant, PTL DEF Spec, MaintenanceReclaims

-----------------------------------------------------------------------------
(* The inductive invariant of the server and its profiles.                    *)

Contents == Profiles \cup {None, Broken}

Entries == [directory : Contents, previous : Contents, staging : Contents]

\* The steps of a save before the new directory is in place.
Preparing == {"clear_staging", "write_profile", "write_map", "drop_previous", "park", "install"}

SaveSteps == Preparing \cup {"clean_up", "saved"}

StoreTypes ==
  /\ stored \in [Uuids -> Entries]
  /\ latest \in [Uuids -> Profiles \cup {None}]
  /\ promised \in [Uuids -> Profiles \cup {None}]
  /\ overwritten \subseteq Uuids

MemoryTypes ==
  /\ Connected \subseteq Uuids
  /\ players \in [Connected -> [profile : Profiles, dirty : BOOLEAN]]
  /\ banned \subseteq Uuids /\ banFile \subseteq Uuids
  /\ running \in BOOLEAN /\ initialized \in BOOLEAN

\* The steps of each kind of operation, and what it is about.
OperationAgrees ==
  /\ step = "idle" <=> task = None
  /\ task # None =>
       /\ task \in Tasks
       /\ task.kind = "join" =>
            /\ step = "enter"
            /\ task.uuid \in Uuids \ Connected
            /\ task.profile \in Profiles
            /\ task.profile = stored[task.uuid].directory
       /\ task.kind \in {"create", "leave", "edit"} => step \in SaveSteps
       /\ task.kind = "stop" => step \in SaveSteps \cup {"stop"}
       /\ task.kind = "flush" => step \in SaveSteps \cup {"flush"} /\ task.todo \subseteq Connected
       /\ task.kind \in {"ban", "unban"} => step = "audit" /\ task.uuid \in Uuids
       /\ task.kind = "ban" => task.uuid \in Connected
       /\ step \in SaveSteps =>
            /\ task.uuid \in Uuids
            /\ task.profile \in Profiles
            /\ task.kind = "create" => task.uuid \notin Connected
            /\ task.kind \in {"leave", "stop", "flush"} =>
                 task.uuid \in Connected /\ task.profile = players[task.uuid].profile

\* What the steps of a save have made of the directories.
SaveAgrees ==
  step \in SaveSteps =>
    LET entry == stored[task.uuid]
    IN  /\ step \in {"drop_previous", "park", "install"} => entry.staging = task.profile
        /\ step = "park" => entry.previous = None
        /\ step = "install" => entry.directory = None
        /\ step \in {"clean_up", "saved"} => entry.directory = task.profile

\* A new profile takes the place of none that was reported as saved, unless that
\* had been overwritten before.
NewIsNew ==
  step \in SaveSteps /\ task.kind = "create" =>
    LET entry == stored[task.uuid]
    IN  /\ step \in Preparing \ {"install"} => entry.directory \in {None, Broken}
        /\ step = "install" => entry.previous \in {None, Broken}
        /\ step = "clean_up" => task.uuid \in overwritten \/ promised[task.uuid] = None

\* What was reported as saved can be loaded; while the parked directory is
\* being removed, the new profile that is about to be reported.
PromisesAreKept ==
  \A u \in Uuids \ overwritten :
    Loadable(u) = IF step = "clean_up" /\ task.uuid = u THEN task.profile ELSE promised[u]

\* What the server knows is what its players have, and stored unless it is
\* marked for the next flush or its save is being finished.
ChangesAreKept ==
  /\ \A u \in Connected : players[u].profile = latest[u]
  /\ \A u \in Uuids \ overwritten :
       \/ latest[u] = Loadable(u)
       \/ u \in Connected /\ players[u].dirty
       \/ step \in {"clean_up", "saved"} /\ task.uuid = u

BansAgree == initialized => banned = banFile

ServerInv ==
  /\ StoreTypes
  /\ MemoryTypes
  /\ OperationAgrees
  /\ SaveAgrees
  /\ NewIsNew
  /\ PromisesAreKept
  /\ ChangesAreKept
  /\ BansAgree

-----------------------------------------------------------------------------
(* The profile store.                                                      *)

\* What can be loaded from an entry of the store.
LoadableFrom(entry) ==
  IF entry.directory = None THEN entry.previous ELSE entry.directory

LEMMA LoadableIsFrom == \A u : Loadable(u) = LoadableFrom(stored[u])
BY DEF Loadable, LoadableFrom

\* Changing one entry of the store.
LEMMA EntryReplaced ==
  ASSUME StoreTypes, NEW u \in Uuids, NEW e \in Entries, stored' = [stored EXCEPT ![u] = e]
  PROVE  /\ stored' \in [Uuids -> Entries]
         /\ stored'[u] = e
         /\ \A v \in Uuids \ {u} : stored'[v] = stored[v]
BY DEF StoreTypes

\* Changing one directory of one entry.
LEMMA DirectorySet ==
  ASSUME StoreTypes, task.uuid \in Uuids, NEW content \in Contents
  PROVE  /\ SetStored("directory", content) =>
              stored' = [stored EXCEPT ![task.uuid] = [stored[task.uuid] EXCEPT !.directory = content]]
         /\ SetStored("previous", content) =>
              stored' = [stored EXCEPT ![task.uuid] = [stored[task.uuid] EXCEPT !.previous = content]]
         /\ SetStored("staging", content) =>
              stored' = [stored EXCEPT ![task.uuid] = [stored[task.uuid] EXCEPT !.staging = content]]
BY DEF StoreTypes, SetStored, Entries

-----------------------------------------------------------------------------
(* A save.                                                                 *)

\* A step of a save that leaves what can be loaded as it is, and goes on or
\* fails with the whole operation.
LEMMA SaveKeeps ==
  ASSUME ServerConstants, ServerInv, step \in Preparing, NEW e \in Entries,
         stored' = [stored EXCEPT ![task.uuid] = e],
         UNCHANGED <<players, bans, running, latest, promised>>,
         overwritten' \in {overwritten, overwritten \cup {task.uuid}},
         LoadableFrom(e) = Loadable(task.uuid) \/ task.uuid \in overwritten',
         \/ task' = task /\ step' \in Preparing /\ SaveAgrees' /\ NewIsNew'
         \/ task' = None /\ step' = "idle"
  PROVE  ServerInv'
<1>1. task # None /\ task \in Tasks /\ task.uuid \in Uuids
  BY DEF ServerInv, OperationAgrees, Preparing, SaveSteps
<1>2. /\ stored' \in [Uuids -> Entries]
      /\ stored'[task.uuid] = e
      /\ \A v \in Uuids \ {task.uuid} : stored'[v] = stored[v]
  BY <1>1, EntryReplaced DEF ServerInv
<1>3. StoreTypes'
  BY <1>1, <1>2 DEF ServerInv, StoreTypes
<1>4. MemoryTypes' /\ Connected' = Connected
  BY DEF ServerInv, MemoryTypes, bans, Connected
<1>5. OperationAgrees'
  BY <1>1, <1>2, <1>4 DEF ServerInv, OperationAgrees, Preparing, SaveSteps
<1>6. SaveAgrees' /\ NewIsNew'
  BY DEF SaveAgrees, NewIsNew, SaveSteps, Preparing
<1>7. \A u \in Uuids \ overwritten' : u \notin overwritten /\ Loadable(u)' = Loadable(u)
  BY <1>1, <1>2, LoadableIsFrom DEF LoadableFrom, Loadable
<1>8. PromisesAreKept'
  BY <1>7 DEF ServerInv, PromisesAreKept, Preparing
<1>9. ChangesAreKept'
  BY <1>4, <1>7 DEF ServerInv, ChangesAreKept, Preparing
<1>10. BansAgree'
  BY DEF ServerInv, BansAgree, bans
<1>11. QED
  BY <1>3, <1>4, <1>5, <1>6, <1>8, <1>9, <1>10 DEF ServerInv

LEMMA SaveContents ==
  ASSUME ServerConstants, ServerInv, step \in SaveSteps
  PROVE  /\ task # None /\ task \in Tasks /\ task.uuid \in Uuids /\ task.profile \in Profiles
         /\ task.profile # None
         /\ stored[task.uuid] \in Entries
         /\ StoreTypes
         /\ {None, Broken} \subseteq Contents
         /\ \A content \in Contents : LeftOf(content) \subseteq Contents
BY DEF ServerInv, OperationAgrees, SaveSteps, Preparing, StoreTypes, Contents, LeftOf,
       ServerConstants

LEMMA StagingSteps ==
  ASSUME ServerConstants, ServerInv, ClearTmp \/ WriteProfile \/ WriteMap,
         UNCHANGED <<players, bans, running, latest>>
  PROVE  ServerInv'
<1> DEFINE entry == stored[task.uuid]
<1>1. step \in {"clear_staging", "write_profile", "write_map"} /\ step \in SaveSteps
  BY DEF ClearTmp, WriteProfile, WriteMap, SaveSteps, Preparing
<1>2. /\ task.uuid \in Uuids /\ task.profile \in Contents /\ entry \in Entries /\ StoreTypes
      /\ entry.staging \in Contents /\ None \in Contents /\ Broken \in Contents
      /\ LeftOf(entry.staging) \subseteq Contents
  BY <1>1, SaveContents DEF Entries, Contents
<1>3. PICK content \in Contents :
        /\ SetStored("staging", content)
        /\ \/ /\ task' = task
              /\ step' \in {"write_profile", "write_map", "drop_previous"}
              /\ step' = "drop_previous" => content = task.profile
           \/ task' = None /\ step' = "idle"
        /\ UNCHANGED <<promised, overwritten>>
  BY <1>1, <1>2 DEF ClearTmp, WriteProfile, WriteMap, SaveFails, EndTask, Go
<1> DEFINE e == [entry EXCEPT !.staging = content]
<1>4. stored' = [stored EXCEPT ![task.uuid] = e]
  BY <1>2, <1>3, DirectorySet
<1>5. /\ e \in Entries /\ e.staging = content
      /\ e.directory = entry.directory /\ e.previous = entry.previous
  BY <1>2 DEF Entries
<1> HIDE DEF e
<1>6. stored'[task.uuid] = e
  BY <1>2, <1>4, <1>5, EntryReplaced
<1>7. LoadableFrom(e) = Loadable(task.uuid)
  BY <1>5 DEF LoadableFrom, Loadable
<1>8. ASSUME task' = task, step' \in Preparing
      PROVE  SaveAgrees' /\ NewIsNew'
  BY <1>1, <1>3, <1>5, <1>6, <1>8
     DEF ServerInv, SaveAgrees, NewIsNew, Preparing, SaveSteps
<1>9. step \in Preparing
  BY <1>1 DEF Preparing
<1>10. \/ task' = task /\ step' \in Preparing /\ SaveAgrees' /\ NewIsNew'
       \/ task' = None /\ step' = "idle"
  BY <1>3, <1>8 DEF Preparing
<1>11. QED
  BY <1>3, <1>4, <1>5, <1>7, <1>9, <1>10, SaveKeeps

\* Only a save that finds no directory can lose what is loadable, and it says so.
LEMMA DropPreviousStep ==
  ASSUME ServerConstants, ServerInv, DropPrevious, UNCHANGED <<players, bans, running, latest>>
  PROVE  ServerInv'
<1> DEFINE entry == stored[task.uuid]
<1>1. step = "drop_previous" /\ step \in SaveSteps /\ step \in Preparing
  BY DEF DropPrevious, SaveSteps, Preparing
<1>2. /\ task.uuid \in Uuids /\ entry \in Entries /\ StoreTypes
      /\ entry.previous \in Contents /\ None \in Contents
      /\ LeftOf(entry.previous) \subseteq Contents
  BY <1>1, SaveContents DEF Entries
<1>3. PICK content \in Contents :
        /\ SetStored("previous", content)
        /\ content \in LeftOf(entry.previous) \cup {None}
        /\ \/ task' = task /\ step' = "park" /\ content = None
           \/ task' = None /\ step' = "idle"
  BY <1>2 DEF DropPrevious, EndTask, Go, LeftOf
<1>4. /\ promised' = promised
      /\ overwritten' \in {overwritten, overwritten \cup {task.uuid}}
      /\ entry.directory = None /\ entry.previous # None => task.uuid \in overwritten'
  BY <1>2 DEF DropPrevious
<1> DEFINE e == [entry EXCEPT !.previous = content]
<1>5. stored' = [stored EXCEPT ![task.uuid] = e]
  BY <1>2, <1>3, DirectorySet
<1>6. /\ e \in Entries /\ e.previous = content
      /\ e.directory = entry.directory /\ e.staging = entry.staging
  BY <1>2 DEF Entries
<1> HIDE DEF e
<1>7. stored'[task.uuid] = e
  BY <1>2, <1>5, <1>6, EntryReplaced
<1>8. LoadableFrom(e) = Loadable(task.uuid) \/ task.uuid \in overwritten'
  BY <1>3, <1>4, <1>6 DEF LoadableFrom, Loadable, LeftOf
<1>9. ASSUME task' = task, step' = "park", content = None
      PROVE  SaveAgrees' /\ NewIsNew'
  BY <1>1, <1>6, <1>7, <1>9 DEF ServerInv, SaveAgrees, NewIsNew, Preparing, SaveSteps
<1>10. \/ task' = task /\ step' \in Preparing /\ SaveAgrees' /\ NewIsNew'
       \/ task' = None /\ step' = "idle"
  BY <1>3, <1>9 DEF Preparing
<1>11. QED
  BY <1>1, <1>4, <1>5, <1>6, <1>8, <1>10, SaveKeeps

LEMMA ParkStep ==
  ASSUME ServerConstants, ServerInv, Park, UNCHANGED <<players, bans, running, latest>>
  PROVE  ServerInv'
<1> DEFINE entry == stored[task.uuid]
<1>1. step = "park" /\ step \in SaveSteps /\ step \in Preparing
  BY DEF Park, SaveSteps, Preparing
<1>2. /\ task.uuid \in Uuids /\ entry \in Entries /\ StoreTypes
      /\ entry.directory \in Contents /\ None \in Contents
      /\ entry.previous = None /\ entry.staging = task.profile
  BY <1>1, SaveContents DEF Entries, ServerInv, SaveAgrees
<1>3. CASE UNCHANGED stored /\ SaveFails
  <2>1. stored' = [stored EXCEPT ![task.uuid] = entry]
    BY <1>2, <1>3 DEF StoreTypes
  <2>2. LoadableFrom(entry) = Loadable(task.uuid)
    BY LoadableIsFrom
  <2>3. task' = None /\ step' = "idle" /\ UNCHANGED <<promised, overwritten>>
    BY <1>3 DEF SaveFails, EndTask
  <2>4. QED
    BY <1>1, <1>2, <2>1, <2>2, <2>3, SaveKeeps
<1>4. CASE /\ stored' = [stored EXCEPT ![task.uuid].previous = stored[task.uuid].directory,
                                       ![task.uuid].directory = None]
           /\ Go("install")
           /\ UNCHANGED <<task, promised, overwritten>>
  <2> DEFINE e == [directory |-> None, previous |-> entry.directory, staging |-> entry.staging]
  <2>1. e \in Entries
    BY <1>2 DEF Entries
  <2>2. stored' = [stored EXCEPT ![task.uuid] = e]
    <3> DEFINE moved == [entry EXCEPT !.previous = entry.directory]
               store1 == [stored EXCEPT ![task.uuid] = moved]
    <3>1. /\ moved \in Entries
          /\ moved.staging = entry.staging /\ moved.previous = entry.directory
      BY <1>2 DEF Entries
    <3>2. [stored EXCEPT ![task.uuid].previous = entry.directory] = store1
      OBVIOUS
    <3>3. stored' = [store1 EXCEPT ![task.uuid].directory = None]
      BY <1>4, <3>2
    <3> HIDE DEF moved
    <3>4. [moved EXCEPT !.directory = None] = e
      BY <3>1 DEF Entries
    <3>5. store1[task.uuid] = moved
      BY <1>2 DEF StoreTypes
    <3>6. stored' = [store1 EXCEPT ![task.uuid] = e]
      BY <3>3, <3>4, <3>5
    <3>7. QED
      BY <3>6
  <2>3. stored'[task.uuid] = e
    BY <1>2, <2>1, <2>2, EntryReplaced
  <2>4. LoadableFrom(e) = Loadable(task.uuid)
    BY <1>2 DEF LoadableFrom, Loadable
  <2>5. task' = task /\ step' = "install" /\ UNCHANGED <<promised, overwritten>>
    BY <1>4 DEF Go
  <2>6. SaveAgrees' /\ NewIsNew'
    BY <1>1, <1>2, <2>3, <2>5 DEF ServerInv, SaveAgrees, NewIsNew, Preparing, SaveSteps
  <2>7. step' \in Preparing
    BY <2>5 DEF Preparing
  <2> HIDE DEF e
  <2>8. QED
    BY <1>1, <2>1, <2>2, <2>4, <2>5, <2>6, <2>7, SaveKeeps
<1>5. QED
  BY <1>3, <1>4 DEF Park

LEMMA InstallFailsStep ==
  ASSUME ServerConstants, ServerInv, InstallFails, UNCHANGED <<players, bans, running, latest>>
  PROVE  ServerInv'
<1> DEFINE entry == stored[task.uuid]
<1>1. step = "install" /\ step \in SaveSteps /\ step \in Preparing
  BY DEF InstallFails, SaveSteps, Preparing
<1>2. /\ task.uuid \in Uuids /\ entry \in Entries /\ StoreTypes
      /\ entry.previous \in Contents /\ entry.staging \in Contents
      /\ None \in Contents /\ Broken \in Contents /\ entry.directory = None
  BY <1>1, SaveContents DEF Entries, ServerInv, SaveAgrees
<1>3. PICK left \in Contents, back \in BOOLEAN :
        stored' = [stored EXCEPT ![task.uuid] =
                    [directory |-> IF back THEN @.previous ELSE @.directory,
                     previous |-> IF back THEN None ELSE @.previous,
                     staging |-> left]]
  BY <1>2 DEF InstallFails
<1> DEFINE e == [directory |-> IF back THEN entry.previous ELSE None,
                 previous |-> IF back THEN None ELSE entry.previous,
                 staging |-> left]
<1>4. e \in Entries
  BY <1>2 DEF Entries
<1>5. stored' = [stored EXCEPT ![task.uuid] = e]
  BY <1>2, <1>3
<1>6. LoadableFrom(e) = Loadable(task.uuid)
  BY <1>2 DEF LoadableFrom, Loadable
<1>7. task' = None /\ step' = "idle" /\ UNCHANGED <<promised, overwritten>>
  BY DEF InstallFails, SaveFails, EndTask
<1> HIDE DEF e
<1>8. QED
  BY <1>1, <1>4, <1>5, <1>6, <1>7, SaveKeeps

\* The new directory takes its place.
LEMMA InstallStep ==
  ASSUME ServerConstants, ServerInv, Install, UNCHANGED <<players, bans, running, latest>>
  PROVE  ServerInv'
<1> DEFINE entry == stored[task.uuid]
           e == [directory |-> task.profile, previous |-> entry.previous, staging |-> None]
<1>1. step = "install" /\ step \in SaveSteps
  BY DEF Install, SaveSteps, Preparing
<1>2. /\ task # None /\ task.uuid \in Uuids /\ entry \in Entries /\ StoreTypes
      /\ task.profile \in Profiles /\ task.profile # None
      /\ task.profile \in Contents /\ None \in Contents /\ entry.previous \in Contents
      /\ entry.directory = None /\ entry.staging = task.profile
  BY <1>1, SaveContents DEF Entries, Contents, ServerInv, SaveAgrees
<1>3. /\ stored' = [stored EXCEPT ![task.uuid].directory = stored[task.uuid].staging,
                                  ![task.uuid].staging = None]
      /\ task' = task /\ step' = "clean_up" /\ UNCHANGED <<promised, overwritten>>
  BY DEF Install, Go
<1>4. e \in Entries
  BY <1>2 DEF Entries
<1>5. stored' = [stored EXCEPT ![task.uuid] = e]
  <2> DEFINE filled == [entry EXCEPT !.directory = entry.staging]
             store1 == [stored EXCEPT ![task.uuid] = filled]
  <2>1. /\ filled \in Entries
        /\ filled.previous = entry.previous /\ filled.directory = task.profile
    BY <1>2 DEF Entries
  <2>2. [stored EXCEPT ![task.uuid].directory = stored[task.uuid].staging] = store1
    OBVIOUS
  <2>3. stored' = [store1 EXCEPT ![task.uuid].staging = None]
    BY <1>3, <2>2
  <2> HIDE DEF filled
  <2>4. [filled EXCEPT !.staging = None] = e
    BY <2>1 DEF Entries
  <2>5. store1[task.uuid] = filled
    BY <1>2 DEF StoreTypes
  <2>6. stored' = [store1 EXCEPT ![task.uuid] = e]
    BY <2>3, <2>4, <2>5
  <2>7. QED
    BY <2>6
<1>6. e.directory = task.profile
  OBVIOUS
<1> HIDE DEF e
<1>7. /\ stored' \in [Uuids -> Entries]
      /\ stored'[task.uuid].directory = task.profile
      /\ \A v \in Uuids \ {task.uuid} : stored'[v] = stored[v]
  BY <1>2, <1>4, <1>5, <1>6, EntryReplaced
<1>8. StoreTypes'
  BY <1>3, <1>7 DEF ServerInv, StoreTypes
<1>9. MemoryTypes' /\ Connected' = Connected
  BY DEF ServerInv, MemoryTypes, bans, Connected
<1>10. OperationAgrees'
  BY <1>1, <1>2, <1>3, <1>9 DEF ServerInv, OperationAgrees, Preparing, SaveSteps
<1>11. SaveAgrees'
  BY <1>3, <1>7 DEF SaveAgrees
<1>12. Loadable(task.uuid)' = task.profile
  BY <1>2, <1>3, <1>7 DEF Loadable
<1>13. \A v \in Uuids \ {task.uuid} : Loadable(v)' = Loadable(v)
  BY <1>7 DEF Loadable
<1>14. NewIsNew'
  <2>1. ASSUME task.kind = "create"
        PROVE  task.uuid \in overwritten \/ promised[task.uuid] = None
    <3>1. Loadable(task.uuid) \in {None, Broken}
      BY <1>1, <1>2, <2>1 DEF ServerInv, NewIsNew, Loadable
    <3>2. task.uuid \notin overwritten => Loadable(task.uuid) = promised[task.uuid]
      BY <1>1, <1>2 DEF ServerInv, PromisesAreKept
    <3>3. promised[task.uuid] \in Profiles \cup {None} /\ None # Broken /\ Broken \notin Profiles
      BY <1>2 DEF StoreTypes, ServerConstants
    <3>4. QED
      BY <3>1, <3>2, <3>3
  <2>2. QED
    BY <1>3, <2>1 DEF NewIsNew, Preparing
<1>15. PromisesAreKept'
  BY <1>1, <1>2, <1>3, <1>12, <1>13 DEF ServerInv, PromisesAreKept
<1>16. ChangesAreKept'
  BY <1>1, <1>2, <1>3, <1>9, <1>13 DEF ServerInv, ChangesAreKept
<1>17. BansAgree'
  BY DEF ServerInv, BansAgree, bans
<1>18. QED
  BY <1>8, <1>9, <1>10, <1>11, <1>14, <1>15, <1>16, <1>17 DEF ServerInv

\* The save is reported: what it wrote is what is promised from now on.
LEMMA CleanUpStep ==
  ASSUME ServerConstants, ServerInv, CleanUp, UNCHANGED <<players, bans, running, latest>>
  PROVE  ServerInv'
<1> DEFINE entry == stored[task.uuid]
<1>1. step = "clean_up" /\ step \in SaveSteps
  BY DEF CleanUp, SaveSteps
<1>2. /\ task # None /\ task.uuid \in Uuids /\ entry \in Entries /\ StoreTypes
      /\ task.profile \in Profiles /\ task.profile # None /\ None \in Contents
      /\ entry.directory = task.profile /\ entry.previous \in Contents
      /\ LeftOf(entry.previous) \subseteq Contents
  BY <1>1, SaveContents DEF Entries, ServerInv, SaveAgrees
<1>3. PICK content \in Contents : SetStored("previous", content)
  BY <1>2 DEF CleanUp
<1>4. /\ promised' = [promised EXCEPT ![task.uuid] = task.profile]
      /\ overwritten' = overwritten \ {task.uuid}
      /\ step' = "saved" /\ task' = task
  BY DEF CleanUp, Go
<1> DEFINE e == [entry EXCEPT !.previous = content]
<1>5. stored' = [stored EXCEPT ![task.uuid] = e]
  BY <1>2, <1>3, DirectorySet
<1>6. e \in Entries /\ e.directory = task.profile
  BY <1>2 DEF Entries
<1> HIDE DEF e
<1>7. /\ stored' \in [Uuids -> Entries]
      /\ stored'[task.uuid].directory = task.profile
      /\ \A v \in Uuids \ {task.uuid} : stored'[v] = stored[v]
  BY <1>2, <1>5, <1>6, EntryReplaced
<1>8. StoreTypes'
  BY <1>2, <1>4, <1>7 DEF ServerInv, StoreTypes
<1>9. MemoryTypes' /\ Connected' = Connected
  BY DEF ServerInv, MemoryTypes, bans, Connected
<1>10. OperationAgrees'
  BY <1>1, <1>2, <1>4, <1>9 DEF ServerInv, OperationAgrees, Preparing, SaveSteps
<1>11. SaveAgrees' /\ NewIsNew'
  BY <1>4, <1>7 DEF SaveAgrees, NewIsNew, Preparing
<1>12. Loadable(task.uuid)' = task.profile
  BY <1>2, <1>4, <1>7 DEF Loadable
<1>13. \A v \in Uuids \ {task.uuid} : Loadable(v)' = Loadable(v) /\ promised'[v] = promised[v]
  BY <1>2, <1>4, <1>7 DEF Loadable, StoreTypes
<1>14. promised'[task.uuid] = task.profile
  BY <1>2, <1>4 DEF StoreTypes
<1>15. PromisesAreKept'
  BY <1>1, <1>2, <1>4, <1>12, <1>13, <1>14 DEF ServerInv, PromisesAreKept
<1>16. ChangesAreKept'
  BY <1>1, <1>2, <1>4, <1>9, <1>13 DEF ServerInv, ChangesAreKept
<1>17. BansAgree'
  BY DEF ServerInv, BansAgree, bans
<1>18. QED
  BY <1>8, <1>9, <1>10, <1>11, <1>15, <1>16, <1>17 DEF ServerInv

LEMMA ProfileSaveStep ==
  ASSUME ServerConstants, ServerInv, Save
  PROVE  ServerInv'
BY StagingSteps, DropPreviousStep, ParkStep, InstallStep, InstallFailsStep, CleanUpStep DEF Save

-----------------------------------------------------------------------------
(* Operations that begin, go on or end without touching a profile.         *)

\* What stays when only the operation and the ban list move on.
LEMMA NothingStored ==
  ASSUME ServerInv, step \notin {"clean_up", "saved"}, step' \notin {"clean_up", "saved"},
         UNCHANGED <<store, players, latest>>,
         banned' \subseteq Uuids, banFile' \subseteq Uuids,
         running' \in BOOLEAN, initialized' \in BOOLEAN, BansAgree',
         OperationAgrees', SaveAgrees', NewIsNew'
  PROVE  ServerInv'
<1>1. StoreTypes' /\ MemoryTypes' /\ Connected' = Connected
  BY DEF ServerInv, StoreTypes, MemoryTypes, Connected, store
<1>2. \A u : Loadable(u)' = Loadable(u)
  BY DEF Loadable, store
<1>3. PromisesAreKept'
  BY <1>2 DEF ServerInv, PromisesAreKept, store
<1>4. ChangesAreKept'
  BY <1>1, <1>2 DEF ServerInv, ChangesAreKept, store
<1>5. QED
  BY <1>1, <1>3, <1>4 DEF ServerInv

\* An operation on a player begins.
LEMMA BegunOperation ==
  ASSUME ServerConstants, NEW kind \in TaskKinds, NEW u \in Uuids \cup {None},
         NEW profile \in Profiles \cup {None}, BeginTask(kind, u, profile)
  PROVE  /\ task' \in Tasks /\ task' # None
         /\ task'.kind = kind /\ task'.uuid = u /\ task'.profile = profile
BY DEF BeginTask, Tasks, ServerConstants

\* It begins with a save.
LEMMA BegunSave ==
  ASSUME ServerConstants, NEW kind \in {"create", "leave", "stop", "edit"},
         NEW u \in Uuids, NEW profile \in Profiles, BeginTask(kind, u, profile),
         Go("clear_staging"), Connected' = Connected, players' = players,
         stored' \in [Uuids -> Entries],
         kind = "create" => u \notin Connected /\ stored'[u].directory \in {None, Broken},
         kind \in {"leave", "stop"} => u \in Connected /\ profile = players[u].profile
  PROVE  OperationAgrees' /\ SaveAgrees' /\ NewIsNew' /\ step' \notin {"clean_up", "saved"}
<1>1. /\ task' \in Tasks /\ task' # None
      /\ task'.kind = kind /\ task'.uuid = u /\ task'.profile = profile
  BY BegunOperation DEF TaskKinds
<1>2. step' = "clear_staging"
  BY DEF Go
<1>3. OperationAgrees'
  BY <1>1, <1>2 DEF OperationAgrees, SaveSteps, Preparing
<1>4. SaveAgrees' /\ NewIsNew'
  BY <1>1, <1>2 DEF SaveAgrees, NewIsNew, Preparing
<1>5. QED
  BY <1>2, <1>3, <1>4

\* Nothing is under way.
LEMMA NothingUnderWay ==
  ASSUME task' = None, step' = "idle"
  PROVE  OperationAgrees' /\ SaveAgrees' /\ NewIsNew' /\ step' \notin {"clean_up", "saved"}
BY DEF OperationAgrees, SaveAgrees, NewIsNew, SaveSteps, Preparing

LEMMA ConnectedProfile ==
  ASSUME ServerInv, NEW u \in Connected
  PROVE  u \in Uuids /\ players[u].profile \in Profiles /\ players[u].dirty \in BOOLEAN
BY DEF ServerInv, MemoryTypes

LEMMA StartStep ==
  ASSUME ServerConstants, ServerInv, Start \/ LoadBans
  PROVE  ServerInv'
<1>1. /\ step = "idle" /\ UNCHANGED <<store, players, latest, task, step>>
      /\ banFile' = banFile /\ running' \in BOOLEAN /\ initialized' \in BOOLEAN
      /\ banned' \in {banned, banFile} /\ BansAgree'
      /\ banned \subseteq Uuids /\ banFile \subseteq Uuids
  <2>1. CASE Start
    BY <2>1 DEF Start, bans, ServerInv, BansAgree, MemoryTypes
  <2>2. CASE LoadBans
    BY <2>2 DEF LoadBans, ServerInv, BansAgree, MemoryTypes
  <2>3. QED
    BY <2>1, <2>2
<1>2. task = None
  BY <1>1 DEF ServerInv, OperationAgrees
<1>3. QED
  BY <1>1, <1>2, NothingUnderWay, NothingStored

LEMMA JoinStep ==
  ASSUME ServerConstants, ServerInv, NEW u \in Uuids, Join(u)
  PROVE  ServerInv'
<1>1. /\ step = "idle" /\ u \notin Connected
      /\ UNCHANGED <<store, players, bans, running, latest>>
      /\ stored' = stored /\ stored \in [Uuids -> Entries] /\ Connected' = Connected
      /\ banned' \subseteq Uuids /\ banFile' \subseteq Uuids /\ running' \in BOOLEAN
      /\ initialized' \in BOOLEAN /\ BansAgree'
  BY DEF Join, ServerInv, MemoryTypes, StoreTypes, BansAgree, bans, store, Connected
<1>2. OperationAgrees' /\ SaveAgrees' /\ NewIsNew' /\ step' \notin {"clean_up", "saved"}
  <2>1. CASE /\ stored[u].directory \in Profiles
             /\ BeginTask("join", u, stored[u].directory)
             /\ Go("enter")
    <3>1. /\ task' \in Tasks /\ task' # None
          /\ task'.kind = "join" /\ task'.uuid = u /\ task'.profile = stored[u].directory
      BY <2>1, BegunOperation DEF TaskKinds
    <3>2. QED
      BY <1>1, <2>1, <3>1
         DEF Go, OperationAgrees, SaveAgrees, NewIsNew, SaveSteps, Preparing
  <2>2. CASE /\ stored[u].directory \in {None, Broken}
             /\ BeginTask("create", u, NewProfile)
             /\ Go("clear_staging")
    <3>1. NewProfile \in Profiles
      BY DEF NewProfile, Profiles, ServerConstants
    <3>2. QED
      BY <1>1, <2>2, <3>1, BegunSave
  <2>3. QED
    BY <2>1, <2>2 DEF Join
<1>3. QED
  BY <1>1, <1>2, NothingStored

LEMMA LeaveStep ==
  ASSUME ServerConstants, ServerInv, NEW u \in Uuids, Leave(u)
  PROVE  ServerInv'
<1>1. /\ step = "idle" /\ u \in Connected
      /\ BeginTask("leave", u, players[u].profile) /\ Go("clear_staging")
      /\ UNCHANGED <<store, players, bans, running, latest>>
      /\ stored' \in [Uuids -> Entries] /\ Connected' = Connected
      /\ banned' \subseteq Uuids /\ banFile' \subseteq Uuids /\ running' \in BOOLEAN
      /\ initialized' \in BOOLEAN /\ BansAgree'
  BY DEF Leave, ServerInv, MemoryTypes, StoreTypes, BansAgree, bans, store, Connected
<1>2. OperationAgrees' /\ SaveAgrees' /\ NewIsNew' /\ step' \notin {"clean_up", "saved"}
  BY <1>1, ConnectedProfile, BegunSave
<1>3. QED
  BY <1>1, <1>2, NothingStored

LEMMA StopSteps ==
  ASSUME ServerConstants, ServerInv, Stop \/ StopStep
  PROVE  ServerInv'
<1>1. /\ step \in {"idle", "stop"}
      /\ UNCHANGED <<store, players, bans, latest>>
      /\ stored' \in [Uuids -> Entries] /\ Connected' = Connected
      /\ banned' \subseteq Uuids /\ banFile' \subseteq Uuids /\ running' \in BOOLEAN
      /\ initialized' \in BOOLEAN /\ BansAgree'
  <2>1. /\ step \in {"idle", "stop"}
        /\ UNCHANGED <<store, players, bans, latest>>
        /\ running' \in {running, FALSE}
    BY DEF Stop, StopStep
  <2>2. QED
    BY <2>1 DEF ServerInv, MemoryTypes, StoreTypes, BansAgree, bans, store, Connected
<1>2. OperationAgrees' /\ SaveAgrees' /\ NewIsNew' /\ step' \notin {"clean_up", "saved"}
  <2>1. CASE BeginTask("stop", None, None) /\ Go("stop")
    <3>1. task' \in Tasks /\ task' # None /\ task'.kind = "stop"
      BY <2>1, BegunOperation DEF TaskKinds
    <3>2. QED
      BY <2>1, <3>1 DEF Go, OperationAgrees, SaveAgrees, NewIsNew, SaveSteps, Preparing
  <2>2. CASE \E u \in Connected : /\ BeginTask("stop", u, players[u].profile)
                                  /\ Go("clear_staging")
    BY <1>1, <2>2, ConnectedProfile, BegunSave
  <2>3. CASE EndTask
    BY <2>3, NothingUnderWay DEF EndTask
  <2>4. QED
    BY <2>1, <2>2, <2>3 DEF Stop, StopStep
<1>3. QED
  BY <1>1, <1>2, NothingStored

LEMMA FlushSteps ==
  ASSUME ServerConstants, ServerInv, Flush \/ FlushStep
  PROVE  ServerInv'
<1>1. /\ step \in {"idle", "flush"}
      /\ UNCHANGED <<store, players, bans, running, latest>>
      /\ Connected' = Connected /\ Connected \subseteq Uuids
      /\ banned' \subseteq Uuids /\ banFile' \subseteq Uuids /\ running' \in BOOLEAN
      /\ initialized' \in BOOLEAN /\ BansAgree'
  <2>1. /\ step \in {"idle", "flush"}
        /\ UNCHANGED <<store, players, bans, running, latest>>
    BY DEF Flush, FlushStep
  <2>2. QED
    BY <2>1 DEF ServerInv, MemoryTypes, BansAgree, bans, Connected
<1>2. OperationAgrees' /\ SaveAgrees' /\ NewIsNew' /\ step' \notin {"clean_up", "saved"}
  <2>1. CASE Flush
    <3>1. task' \in Tasks /\ task' # None /\ task'.kind = "flush" /\ task'.todo = Connected
      BY <1>1, <2>1 DEF Flush, Tasks, TaskKinds, ServerConstants
    <3>2. QED
      BY <1>1, <2>1, <3>1
         DEF Flush, Go, OperationAgrees, SaveAgrees, NewIsNew, SaveSteps, Preparing
  <2>2. ASSUME FlushStep, NEW u \in task.todo,
               task' = [task EXCEPT !.uuid = u, !.profile = players[u].profile, !.todo = @ \ {u}],
               Go("clear_staging")
        PROVE  OperationAgrees' /\ SaveAgrees' /\ NewIsNew' /\ step' \notin {"clean_up", "saved"}
    <3>1. task # None /\ task \in Tasks /\ task.kind = "flush" /\ task.todo \subseteq Connected
      BY <2>2
         DEF FlushStep, ServerInv, OperationAgrees, Tasks, TaskKinds, SaveSteps, Preparing
    <3>2. u \in Uuids /\ u \in Connected /\ players[u].profile \in Profiles
      BY <2>2, <3>1, ConnectedProfile
    <3>3. /\ task' \in Tasks /\ task'.kind = "flush" /\ task'.uuid = u
          /\ task'.profile = players[u].profile /\ task'.todo \subseteq Connected
      BY <2>2, <3>1, <3>2 DEF Tasks
    <3>4. task' # None /\ step' = "clear_staging"
      BY <2>2, <3>3 DEF ServerConstants, Go
    <3>5. OperationAgrees'
      BY <1>1, <3>2, <3>3, <3>4 DEF OperationAgrees, SaveSteps, Preparing
    <3>6. QED
      BY <3>3, <3>4, <3>5 DEF SaveAgrees, NewIsNew, Preparing
  <2>3. CASE EndTask
    BY <2>3, NothingUnderWay DEF EndTask
  <2>4. QED
    BY <2>1, <2>2, <2>3 DEF FlushStep
<1>3. QED
  BY <1>1, <1>2, NothingStored

-----------------------------------------------------------------------------
(* The admin service.                                                      *)

\* Loading a profile puts a parked directory back; what can be loaded stays.
LEMMA LoadedEntry ==
  ASSUME ServerInv, step = "idle", NEW u \in Uuids, Load(u),
         UNCHANGED <<players, bans, running, latest>>
  PROVE  /\ StoreTypes' /\ MemoryTypes' /\ Connected' = Connected
         /\ stored' \in [Uuids -> Entries]
         /\ \A v \in Uuids : Loadable(v)' = Loadable(v)
         /\ UNCHANGED <<promised, overwritten>>
<1> DEFINE entry == stored[u]
           e == IF entry.directory = None
                  THEN [directory |-> entry.previous, previous |-> None, staging |-> entry.staging]
                  ELSE entry
<1>1. /\ stored' = [stored EXCEPT ![u] = e] /\ UNCHANGED <<promised, overwritten>>
      /\ StoreTypes /\ entry \in Entries
  BY DEF Load, ServerInv, StoreTypes
<1>2. e \in Entries /\ LoadableFrom(e) = LoadableFrom(entry)
  BY <1>1 DEF Entries, Contents, LoadableFrom
<1> HIDE DEF e
<1>3. /\ stored' \in [Uuids -> Entries]
      /\ stored'[u] = e
      /\ \A v \in Uuids \ {u} : stored'[v] = stored[v]
  BY <1>1, <1>2, EntryReplaced
<1>4. \A v \in Uuids : LoadableFrom(stored'[v]) = LoadableFrom(stored[v])
  BY <1>2, <1>3
<1>5. \A v \in Uuids : Loadable(v)' = Loadable(v)
  BY <1>4 DEF Loadable, LoadableFrom
<1>6. StoreTypes' /\ MemoryTypes' /\ Connected' = Connected
  BY <1>1, <1>3 DEF ServerInv, StoreTypes, MemoryTypes, Connected, bans
<1>7. QED
  BY <1>1, <1>3, <1>5, <1>6

LEMMA LoadKeeps ==
  ASSUME ServerInv, step = "idle", NEW u \in Uuids, Load(u),
         UNCHANGED <<players, bans, running, latest>>,
         OperationAgrees', SaveAgrees', NewIsNew', step' \notin {"clean_up", "saved"}
  PROVE  ServerInv'
<1>1. /\ StoreTypes' /\ MemoryTypes' /\ Connected' = Connected
      /\ \A v \in Uuids : Loadable(v)' = Loadable(v)
      /\ UNCHANGED <<promised, overwritten>>
  BY LoadedEntry
<1>2. PromisesAreKept'
  BY <1>1 DEF ServerInv, PromisesAreKept
<1>3. ChangesAreKept'
  BY <1>1 DEF ServerInv, ChangesAreKept
<1>4. BansAgree'
  BY DEF ServerInv, BansAgree, bans
<1>5. QED
  BY <1>1, <1>2, <1>3, <1>4 DEF ServerInv

LEMMA ExportStep ==
  ASSUME ServerConstants, ServerInv, NEW u \in Uuids, Export(u)
  PROVE  ServerInv'
<1>1. /\ step = "idle" /\ Load(u) /\ UNCHANGED <<players, bans, running, task, step, latest>>
      /\ task = None
  BY DEF Export, ServerInv, OperationAgrees
<1>2. QED
  BY <1>1, NothingUnderWay, LoadKeeps

LEMMA EditedProfiles ==
  ASSUME ServerConstants, NEW old \in Profiles, NEW profile \in Edited(old),
         profile.revision <= MaxRevision
  PROVE  profile \in Profiles
<1>1. old.revision \in 1 .. MaxRevision /\ {old.map, FALSE} \subseteq BOOLEAN
  BY DEF Profiles
<1>2. PICK map \in {old.map, FALSE} : profile = [revision |-> old.revision + 1, map |-> map]
  BY DEF Edited
<1>3. old.revision + 1 \in 1 .. MaxRevision
  BY <1>1, <1>2 DEF ServerConstants
<1>4. map \in BOOLEAN
  BY <1>1
<1>5. QED
  BY <1>2, <1>3, <1>4 DEF Profiles

LEMMA EditStep ==
  ASSUME ServerConstants, ServerInv, NEW u \in Uuids, Edit(u)
  PROVE  ServerInv'
<1>1. /\ step = "idle" /\ UNCHANGED <<players, bans, running, latest>>
      /\ Go("clear_staging") /\ task'.profile.revision <= MaxRevision
      /\ Connected' = Connected
      /\ banned' \subseteq Uuids /\ banFile' \subseteq Uuids /\ running' \in BOOLEAN
      /\ initialized' \in BOOLEAN /\ BansAgree' /\ stored \in [Uuids -> Entries]
  BY DEF Edit, ServerInv, MemoryTypes, StoreTypes, BansAgree, bans, Connected
<1>2. CASE /\ u \in Connected
           /\ \E profile \in Edited(players[u].profile) : BeginTask("edit", u, profile)
           /\ UNCHANGED store
  <2>1. PICK profile \in Edited(players[u].profile) : BeginTask("edit", u, profile)
    BY <1>2
  <2>2. task'.profile = profile
    BY <2>1 DEF BeginTask
  <2>3. profile \in Profiles
    BY <1>1, <1>2, <2>2, ConnectedProfile, EditedProfiles
  <2>4. stored' \in [Uuids -> Entries]
    BY <1>1, <1>2 DEF store
  <2>5. OperationAgrees' /\ SaveAgrees' /\ NewIsNew' /\ step' \notin {"clean_up", "saved"}
    BY <1>1, <2>1, <2>3, <2>4, BegunSave
  <2>6. QED
    BY <1>1, <1>2, <2>5, NothingStored
<1>3. CASE /\ u \notin Connected
           /\ Load(u)
           /\ stored'[u].directory \in Profiles
           /\ \E profile \in Edited(stored'[u].directory) : BeginTask("edit", u, profile)
  <2>1. PICK profile \in Edited(stored'[u].directory) : BeginTask("edit", u, profile)
    BY <1>3
  <2>2. task'.profile = profile
    BY <2>1 DEF BeginTask
  <2>3. profile \in Profiles
    BY <1>1, <1>3, <2>2, EditedProfiles
  <2>4. stored' \in [Uuids -> Entries]
    BY <1>1, <1>3, LoadedEntry
  <2>5. OperationAgrees' /\ SaveAgrees' /\ NewIsNew' /\ step' \notin {"clean_up", "saved"}
    BY <1>1, <2>1, <2>3, <2>4, BegunSave
  <2>6. QED
    BY <1>1, <1>3, <2>5, LoadKeeps
<1>4. QED
  BY <1>2, <1>3 DEF Edit

LEMMA ImportStep ==
  ASSUME ServerConstants, ServerInv, NEW u \in Uuids, Import(u)
  PROVE  ServerInv'
<1>1. PICK profile \in Profiles : BeginTask("edit", u, profile)
  BY DEF Import
<1>2. /\ step = "idle" /\ Go("clear_staging")
      /\ UNCHANGED <<store, players, bans, running, latest>>
      /\ stored' \in [Uuids -> Entries] /\ Connected' = Connected
      /\ banned' \subseteq Uuids /\ banFile' \subseteq Uuids /\ running' \in BOOLEAN
      /\ initialized' \in BOOLEAN /\ BansAgree'
  BY DEF Import, ServerInv, MemoryTypes, StoreTypes, BansAgree, bans, store, Connected
<1>3. OperationAgrees' /\ SaveAgrees' /\ NewIsNew' /\ step' \notin {"clean_up", "saved"}
  BY <1>1, <1>2, BegunSave
<1>4. QED
  BY <1>2, <1>3, NothingStored

LEMMA BanStep ==
  ASSUME ServerConstants, ServerInv, NEW u \in Uuids, Ban(u) \/ Unban(u)
  PROVE  ServerInv'
<1>1. PICK kind \in {"ban", "unban"}, list \in SUBSET Uuids :
        /\ ChangeBans(kind, u, list)
        /\ kind = "ban" => u \in Connected
  <2>1. banned \subseteq Uuids
    BY DEF ServerInv, MemoryTypes
  <2>2. CASE Ban(u)
    <3>1. banned \cup {u} \in SUBSET Uuids
      BY <2>1
    <3>2. QED
      BY <2>2, <3>1 DEF Ban
  <2>3. CASE Unban(u)
    <3>1. banned \ {u} \in SUBSET Uuids
      BY <2>1
    <3>2. QED
      BY <2>3, <3>1 DEF Unban
  <2>4. QED
    BY <2>2, <2>3
<1>2. /\ step = "idle" /\ UNCHANGED <<store, players, initialized, running, latest>>
      /\ banned' = list /\ banFile' = list
      /\ BeginTask(kind, u, None) /\ step' = "audit"
  BY <1>1 DEF ChangeBans, SaveBans, Go
<1>3. /\ task' \in Tasks /\ task' # None /\ task'.kind = kind /\ task'.uuid = u
  BY <1>2, BegunOperation DEF TaskKinds
<1>4. OperationAgrees' /\ SaveAgrees' /\ NewIsNew' /\ step' \notin {"clean_up", "saved"}
  BY <1>1, <1>2, <1>3
     DEF OperationAgrees, SaveAgrees, NewIsNew, SaveSteps, Preparing, Connected
<1>5. running' \in BOOLEAN /\ initialized' \in BOOLEAN /\ BansAgree'
  BY <1>2 DEF ServerInv, MemoryTypes, BansAgree
<1>6. QED
  BY <1>2, <1>4, <1>5, NothingStored

LEMMA AuditSteps ==
  ASSUME ServerConstants, ServerInv, Audited \/ AuditFails
  PROVE  ServerInv'
<1>1. /\ step = "audit" /\ UNCHANGED <<store, players, initialized, running, latest>>
      /\ task # None /\ task.kind \in {"ban", "unban"} /\ task.uuid \in Uuids
      /\ task.kind = "ban" => task.uuid \in Connected
  <2>1. /\ step = "audit" /\ UNCHANGED <<store, players, initialized, running, latest>>
    BY DEF Audited, AuditFails, bans
  <2>2. QED
    BY <2>1 DEF ServerInv, OperationAgrees, Tasks, TaskKinds, SaveSteps, Preparing
<1>2. /\ banned \subseteq Uuids /\ banFile \subseteq Uuids
      /\ running' \in BOOLEAN /\ initialized' \in BOOLEAN
      /\ stored' \in [Uuids -> Entries] /\ Connected' = Connected /\ BansAgree
  BY <1>1 DEF ServerInv, MemoryTypes, StoreTypes, Connected, store
<1>3. CASE UNCHANGED bans /\ task.kind = "ban" /\ BeginTask("leave", task.uuid, players[task.uuid].profile)
           /\ Go("clear_staging")
  <2>1. PICK u \in Uuids : u = task.uuid
    BY <1>1
  <2>2. OperationAgrees' /\ SaveAgrees' /\ NewIsNew' /\ step' \notin {"clean_up", "saved"}
    BY <1>1, <1>2, <1>3, <2>1, ConnectedProfile, BegunSave
  <2>3. banned' \subseteq Uuids /\ banFile' \subseteq Uuids /\ BansAgree'
    BY <1>2, <1>3 DEF bans, BansAgree
  <2>4. QED
    BY <1>1, <1>2, <2>2, <2>3, NothingStored
<1>4. CASE UNCHANGED bans /\ EndTask
  <2>1. OperationAgrees' /\ SaveAgrees' /\ NewIsNew' /\ step' \notin {"clean_up", "saved"}
    BY <1>4, NothingUnderWay DEF EndTask
  <2>2. banned' \subseteq Uuids /\ banFile' \subseteq Uuids /\ BansAgree'
    BY <1>2, <1>4 DEF bans, BansAgree
  <2>3. QED
    BY <1>1, <1>2, <2>1, <2>2, NothingStored
<1>5. CASE /\ SaveBans(IF task.kind = "ban" THEN banned \ {task.uuid} ELSE banned \cup {task.uuid})
           /\ EndTask
  <2>1. OperationAgrees' /\ SaveAgrees' /\ NewIsNew' /\ step' \notin {"clean_up", "saved"}
    BY <1>5, NothingUnderWay DEF EndTask
  <2>2. banned' \subseteq Uuids /\ banFile' \subseteq Uuids /\ BansAgree'
    BY <1>1, <1>2, <1>5 DEF SaveBans, BansAgree
  <2>3. QED
    BY <1>1, <1>2, <2>1, <2>2, NothingStored
<1>6. QED
  BY <1>1, <1>3, <1>4, <1>5 DEF Audited, AuditFails, bans

-----------------------------------------------------------------------------
(* Players come, change and go.                                            *)

\* What stays when an operation on the player u ends, or leaves no save under
\* way: the store is as it was, and so is every other player.
LEMMA OnePlayer ==
  ASSUME ServerInv, NEW u \in Uuids, UNCHANGED <<store, bans>>, running' \in BOOLEAN,
         step \in {"clean_up", "saved"} => task.uuid = u,
         step # "clean_up", step' \notin {"clean_up", "saved"},
         OperationAgrees', SaveAgrees', NewIsNew',
         latest' \in [Uuids -> Profiles \cup {None}],
         Connected' \subseteq Connected \cup {u}, Connected \subseteq Connected' \cup {u},
         players' \in [Connected' -> [profile : Profiles, dirty : BOOLEAN]],
         \A v \in Connected \ {u} : players'[v] = players[v],
         \A v \in Uuids \ {u} : latest'[v] = latest[v],
         u \in Connected' => players'[u].profile = latest'[u],
         u \notin overwritten =>
           latest'[u] = Loadable(u) \/ (u \in Connected' /\ players'[u].dirty)
  PROVE  ServerInv'
<1>1. StoreTypes'
  BY DEF ServerInv, StoreTypes, store
<1>2. MemoryTypes'
  BY DEF ServerInv, MemoryTypes, bans
<1>3. \A v : Loadable(v)' = Loadable(v)
  BY DEF Loadable, store
<1>4. PromisesAreKept'
  BY <1>3 DEF ServerInv, PromisesAreKept, store
<1>5. ChangesAreKept'
  <2>1. overwritten' = overwritten
    BY DEF store
  <2>2. ASSUME NEW v \in Connected'
        PROVE  players'[v].profile = latest'[v]
    BY <2>2 DEF ServerInv, ChangesAreKept, MemoryTypes
  <2>3. ASSUME NEW v \in Uuids \ overwritten
        PROVE  latest'[v] = Loadable(v)' \/ (v \in Connected' /\ players'[v].dirty)
    BY <1>3, <2>3 DEF ServerInv, ChangesAreKept
  <2>4. QED
    BY <2>1, <2>2, <2>3 DEF ChangesAreKept
<1>6. BansAgree'
  BY DEF ServerInv, BansAgree, bans
<1>7. QED
  BY <1>1, <1>2, <1>4, <1>5, <1>6 DEF ServerInv

\* A player comes in or changes.
LEMMA PlayerSet ==
  ASSUME ServerInv, NEW u \in Uuids, NEW profile \in Profiles, NEW dirty \in BOOLEAN,
         players' = [v \in Connected \cup {u} |->
                       IF v = u THEN [profile |-> profile, dirty |-> dirty] ELSE players[v]]
  PROVE  /\ Connected' = Connected \cup {u}
         /\ players' \in [Connected' -> [profile : Profiles, dirty : BOOLEAN]]
         /\ \A v \in Connected \ {u} : players'[v] = players[v]
         /\ players'[u] = [profile |-> profile, dirty |-> dirty]
BY DEF ServerInv, MemoryTypes, Connected

LEMMA LatestSet ==
  ASSUME ServerInv, NEW u \in Uuids, NEW profile \in Profiles \cup {None},
         latest' = [latest EXCEPT ![u] = profile]
  PROVE  /\ latest' \in [Uuids -> Profiles \cup {None}]
         /\ latest'[u] = profile
         /\ \A v \in Uuids \ {u} : latest'[v] = latest[v]
BY DEF ServerInv, StoreTypes

\* What a save that is about to end has stored.
LEMMA SavedEntry ==
  ASSUME ServerConstants, ServerInv, step = "saved"
  PROVE  /\ task # None /\ task \in Tasks
         /\ task.kind \in {"create", "leave", "stop", "flush", "edit"}
         /\ task.uuid \in Uuids /\ task.profile \in Profiles
         /\ Loadable(task.uuid) = task.profile
<1>1. task # None /\ task \in Tasks /\ task.uuid \in Uuids /\ task.profile \in Profiles
  BY SaveContents DEF SaveSteps
<1>2. task.kind \in {"create", "leave", "stop", "flush", "edit"}
  BY <1>1 DEF ServerInv, OperationAgrees, Tasks, TaskKinds
<1>3. stored[task.uuid].directory = task.profile /\ task.profile # None
  BY <1>1 DEF ServerInv, SaveAgrees, SaveSteps, ServerConstants
<1>4. QED
  BY <1>1, <1>2, <1>3 DEF Loadable

LEMMA EnterStep ==
  ASSUME ServerConstants, ServerInv, Enter
  PROVE  ServerInv'
<1>1. /\ UNCHANGED <<store, bans, running>> /\ task' = None /\ step' = "idle"
      /\ step = "enter" \/ (step = "saved" /\ task.kind = "create")
  BY DEF Enter, EndTask
<1>2. /\ task.uuid \in Uuids /\ task.uuid \notin Connected /\ task.profile \in Profiles
      /\ Loadable(task.uuid) = task.profile
  <2>1. CASE step = "enter"
    <3>1. task # None /\ task.kind = "join"
      BY <2>1
         DEF ServerInv, OperationAgrees, Tasks, TaskKinds, SaveSteps, Preparing
    <3>2. /\ task.uuid \in Uuids \ Connected /\ task.profile \in Profiles
          /\ stored[task.uuid].directory = task.profile
      BY <3>1 DEF ServerInv, OperationAgrees
    <3>3. QED
      BY <3>2 DEF Loadable, ServerConstants
  <2>2. CASE step = "saved" /\ task.kind = "create"
    BY <2>2, SavedEntry DEF ServerInv, OperationAgrees, SaveSteps
  <2>3. QED
    BY <1>1, <2>1, <2>2
<1>3. OperationAgrees' /\ SaveAgrees' /\ NewIsNew' /\ step' \notin {"clean_up", "saved"}
  BY <1>1, NothingUnderWay
<1>4. running' \in BOOLEAN
  BY <1>1 DEF ServerInv, MemoryTypes
<1>5. PICK u \in Uuids : u = task.uuid
  BY <1>2
<1>6. ASSUME NEW profile \in Profiles,
             players' = [v \in Connected \cup {u} |->
                           IF v = u THEN [profile |-> profile, dirty |-> TRUE]
                                    ELSE players[v]],
             latest' = [latest EXCEPT ![u] = profile]
      PROVE  ServerInv'
  <2>1. /\ Connected' = Connected \cup {u}
        /\ players' \in [Connected' -> [profile : Profiles, dirty : BOOLEAN]]
        /\ \A v \in Connected \ {u} : players'[v] = players[v]
        /\ players'[u] = [profile |-> profile, dirty |-> TRUE]
    BY <1>6, PlayerSet
  <2>2. /\ latest' \in [Uuids -> Profiles \cup {None}]
        /\ latest'[u] = profile
        /\ \A v \in Uuids \ {u} : latest'[v] = latest[v]
    BY <1>6, LatestSet
  <2>3. players'[u].profile = latest'[u] /\ u \in Connected' /\ players'[u].dirty
    BY <2>1, <2>2
  <2>4. QED
    BY <1>1, <1>3, <1>4, <1>5, <2>1, <2>2, <2>3, OnePlayer
<1>7. ASSUME UNCHANGED players, latest' = [latest EXCEPT ![u] = task.profile]
      PROVE  ServerInv'
  <2>1. /\ latest' \in [Uuids -> Profiles \cup {None}]
        /\ latest'[u] = task.profile
        /\ \A v \in Uuids \ {u} : latest'[v] = latest[v]
    BY <1>2, <1>7, LatestSet
  <2>2. /\ Connected' = Connected /\ u \notin Connected
        /\ players' \in [Connected' -> [profile : Profiles, dirty : BOOLEAN]]
        /\ latest'[u] = Loadable(u)
    BY <1>2, <1>5, <1>7, <2>1 DEF ServerInv, MemoryTypes, Connected
  <2>3. QED
    BY <1>1, <1>3, <1>4, <1>5, <1>7, <2>1, <2>2, OnePlayer
<1>8. CASE /\ \E renamed \in IF task.kind = "join" THEN {0, 1} ELSE {0} :
                LET profile == [task.profile EXCEPT !.revision = @ + renamed]
                IN  /\ profile.revision <= MaxRevision
                    /\ players' = [v \in Connected \cup {task.uuid} |->
                                     IF v = task.uuid THEN [profile |-> profile, dirty |-> TRUE]
                                                    ELSE players[v]]
                    /\ latest' = [latest EXCEPT ![task.uuid] = profile]
  <2>1. PICK renamed \in {0, 1} :
          LET profile == [task.profile EXCEPT !.revision = @ + renamed]
          IN  /\ profile.revision <= MaxRevision
              /\ players' = [v \in Connected \cup {task.uuid} |->
                               IF v = task.uuid THEN [profile |-> profile, dirty |-> TRUE]
                                              ELSE players[v]]
              /\ latest' = [latest EXCEPT ![task.uuid] = profile]
    BY <1>8
  <2> DEFINE profile == [task.profile EXCEPT !.revision = @ + renamed]
  <2>2. profile \in Profiles
    <3>1. task.profile.revision \in 1 .. MaxRevision /\ task.profile.map \in BOOLEAN
      BY <1>2 DEF Profiles
    <3>2. profile = [revision |-> task.profile.revision + renamed, map |-> task.profile.map]
      BY <1>2 DEF Profiles
    <3>3. task.profile.revision + renamed \in 1 .. MaxRevision
      BY <2>1, <3>1, <3>2 DEF ServerConstants
    <3>4. QED
      BY <3>1, <3>2, <3>3 DEF Profiles
  <2>3. /\ players' = [v \in Connected \cup {u} |->
                         IF v = u THEN [profile |-> profile, dirty |-> TRUE] ELSE players[v]]
        /\ latest' = [latest EXCEPT ![u] = profile]
    BY <1>5, <2>1
  <2> HIDE DEF profile
  <2>4. QED
    BY <1>6, <2>2, <2>3
<1>9. CASE UNCHANGED players /\ latest' = [latest EXCEPT ![task.uuid] = task.profile]
  BY <1>5, <1>7, <1>9
<1>10. QED
  BY <1>8, <1>9 DEF Enter

LEMMA GoneStep ==
  ASSUME ServerConstants, ServerInv, Gone
  PROVE  ServerInv'
<1>1. /\ step = "saved" /\ task.kind \in {"leave", "stop"}
      /\ UNCHANGED <<store, bans, running, latest>>
  BY DEF Gone
<1>2. /\ task # None /\ task \in Tasks /\ task.uuid \in Uuids /\ task.profile \in Profiles
      /\ Loadable(task.uuid) = task.profile
      /\ task.uuid \in Connected /\ task.profile = players[task.uuid].profile
  BY <1>1, SavedEntry DEF ServerInv, OperationAgrees, SaveSteps
<1>3. PICK u \in Uuids : u = task.uuid
  BY <1>2
<1>4. /\ latest' \in [Uuids -> Profiles \cup {None}]
      /\ latest'[u] = Loadable(u) /\ latest'[u] = players[u].profile
      /\ \A v \in Uuids \ {u} : latest'[v] = latest[v]
      /\ running' \in BOOLEAN
  BY <1>1, <1>2, <1>3 DEF ServerInv, StoreTypes, MemoryTypes, ChangesAreKept
<1>5. /\ OperationAgrees' /\ SaveAgrees' /\ NewIsNew' /\ step' \notin {"clean_up", "saved"}
  <2>1. CASE task' = None /\ step' = "idle"
    BY <2>1, NothingUnderWay
  <2>2. CASE task.kind = "stop" /\ step' = "stop" /\ task' = task
    BY <1>2, <2>2 DEF OperationAgrees, SaveAgrees, NewIsNew, SaveSteps, Preparing
  <2>3. QED
    BY <1>1, <2>1, <2>2 DEF Gone, EndTask, Go
<1>6. CASE players' = [v \in Connected \ {task.uuid} |-> players[v]]
  <2>1. /\ Connected' = Connected \ {u}
        /\ players' \in [Connected' -> [profile : Profiles, dirty : BOOLEAN]]
        /\ \A v \in Connected \ {u} : players'[v] = players[v]
    BY <1>3, <1>6 DEF ServerInv, MemoryTypes, Connected
  <2>2. \A v \in Connected' : v # u
    BY <2>1
  <2>3. QED
    BY <1>1, <1>3, <1>4, <1>5, <2>1, <2>2, OnePlayer
<1>7. CASE UNCHANGED players
  <2>1. /\ Connected' = Connected
        /\ players' \in [Connected' -> [profile : Profiles, dirty : BOOLEAN]]
    BY <1>7 DEF ServerInv, MemoryTypes, Connected
  <2>2. QED
    BY <1>1, <1>3, <1>4, <1>5, <1>7, <2>1, OnePlayer
<1>8. QED
  BY <1>6, <1>7 DEF Gone

LEMMA DiscoverStep ==
  ASSUME ServerConstants, ServerInv, NEW u \in Uuids, Discover(u)
  PROVE  ServerInv'
<1> DEFINE known == players[u].profile
           profile == [revision |-> known.revision + 1, map |-> TRUE]
<1>1. /\ step = "idle" /\ u \in Connected /\ known.revision < MaxRevision
      /\ players' = [players EXCEPT ![u] =
                       [profile |-> [revision |-> @.profile.revision + 1, map |-> TRUE],
                        dirty |-> TRUE]]
      /\ latest' = [latest EXCEPT ![u] = players'[u].profile]
      /\ UNCHANGED <<store, bans, running, task, step>>
      /\ task = None
  BY DEF Discover, ServerInv, OperationAgrees
<1>2. known \in Profiles
  BY <1>1, ConnectedProfile
<1>3. profile \in Profiles
  BY <1>1, <1>2 DEF Profiles, ServerConstants
<1>4. players' = [players EXCEPT ![u] = [profile |-> profile, dirty |-> TRUE]]
  BY <1>1
<1> HIDE DEF profile
<1>5. /\ Connected' = Connected
      /\ players' \in [Connected' -> [profile : Profiles, dirty : BOOLEAN]]
      /\ \A v \in Connected \ {u} : players'[v] = players[v]
      /\ players'[u] = [profile |-> profile, dirty |-> TRUE]
  <2> DEFINE entry == [profile |-> profile, dirty |-> TRUE]
  <2>1. entry \in [profile : Profiles, dirty : BOOLEAN]
    BY <1>3
  <2>2. players' = [players EXCEPT ![u] = entry]
    BY <1>4
  <2> HIDE DEF entry
  <2>3. /\ Connected' = Connected
        /\ players' \in [Connected' -> [profile : Profiles, dirty : BOOLEAN]]
        /\ \A v \in Connected \ {u} : players'[v] = players[v]
        /\ players'[u] = entry
    BY <1>1, <2>1, <2>2 DEF ServerInv, MemoryTypes, Connected
  <2>4. QED
    BY <2>3 DEF entry
<1>6. /\ latest' \in [Uuids -> Profiles \cup {None}]
      /\ latest'[u] = profile
      /\ \A v \in Uuids \ {u} : latest'[v] = latest[v]
  BY <1>1, <1>3, <1>5, LatestSet
<1>7. /\ OperationAgrees' /\ SaveAgrees' /\ NewIsNew' /\ step' \notin {"clean_up", "saved"}
      /\ running' \in BOOLEAN
  BY <1>1, NothingUnderWay DEF ServerInv, MemoryTypes
<1>8. u \in Connected' /\ players'[u].dirty /\ players'[u].profile = latest'[u]
  BY <1>1, <1>5, <1>6
<1>9. QED
  BY <1>1, <1>5, <1>6, <1>7, <1>8, OnePlayer

LEMMA FlushedStep ==
  ASSUME ServerConstants, ServerInv, Flushed
  PROVE  ServerInv'
<1>1. /\ step = "saved" /\ task.kind = "flush" /\ step' = "flush"
      /\ players' = [players EXCEPT ![task.uuid].dirty = FALSE]
      /\ UNCHANGED <<store, bans, running, task, latest>>
  BY DEF Flushed, Go
<1>2. /\ task # None /\ task \in Tasks /\ task.uuid \in Uuids /\ task.profile \in Profiles
      /\ Loadable(task.uuid) = task.profile
      /\ task.uuid \in Connected /\ task.profile = players[task.uuid].profile
      /\ task.todo \subseteq Connected
  BY <1>1, SavedEntry DEF ServerInv, OperationAgrees, SaveSteps
<1>3. PICK u \in Uuids : u = task.uuid
  BY <1>2
<1>4. /\ latest' \in [Uuids -> Profiles \cup {None}]
      /\ latest'[u] = Loadable(u) /\ latest'[u] = players[u].profile
      /\ \A v \in Uuids \ {u} : latest'[v] = latest[v]
      /\ running' \in BOOLEAN
  BY <1>1, <1>2, <1>3 DEF ServerInv, StoreTypes, MemoryTypes, ChangesAreKept
<1>5. /\ Connected' = Connected
      /\ players' \in [Connected' -> [profile : Profiles, dirty : BOOLEAN]]
      /\ \A v \in Connected \ {u} : players'[v] = players[v]
      /\ players'[u].profile = players[u].profile
  BY <1>1, <1>2, <1>3 DEF ServerInv, MemoryTypes, Connected
<1>6. /\ OperationAgrees' /\ SaveAgrees' /\ NewIsNew' /\ step' \notin {"clean_up", "saved"}
  BY <1>1, <1>2, <1>5 DEF OperationAgrees, SaveAgrees, NewIsNew, SaveSteps, Preparing
<1>7. QED
  BY <1>1, <1>3, <1>4, <1>5, <1>6, OnePlayer

LEMMA ReplacedStep ==
  ASSUME ServerConstants, ServerInv, Replaced
  PROVE  ServerInv'
<1>1. /\ step = "saved" /\ task' = None /\ step' = "idle"
      /\ players' = [u \in Connected |->
                       IF u = task.uuid THEN [profile |-> task.profile, dirty |-> FALSE]
                                      ELSE players[u]]
      /\ latest' = [latest EXCEPT ![task.uuid] = task.profile]
      /\ UNCHANGED <<store, bans, running>>
  BY DEF Replaced, EndTask
<1>2. /\ task.uuid \in Uuids /\ task.profile \in Profiles /\ Loadable(task.uuid) = task.profile
  BY <1>1, SavedEntry
<1>3. PICK u \in Uuids : u = task.uuid
  BY <1>2
<1>4. /\ latest' \in [Uuids -> Profiles \cup {None}]
      /\ latest'[u] = task.profile
      /\ \A v \in Uuids \ {u} : latest'[v] = latest[v]
  BY <1>1, <1>2, <1>3, LatestSet
<1>5. /\ Connected' = Connected
      /\ players' \in [Connected' -> [profile : Profiles, dirty : BOOLEAN]]
      /\ \A v \in Connected \ {u} : players'[v] = players[v]
      /\ u \in Connected => players'[u].profile = task.profile
  BY <1>1, <1>2, <1>3 DEF ServerInv, MemoryTypes, Connected
<1>6. /\ OperationAgrees' /\ SaveAgrees' /\ NewIsNew' /\ step' \notin {"clean_up", "saved"}
      /\ running' \in BOOLEAN
  BY <1>1, NothingUnderWay DEF ServerInv, MemoryTypes
<1>7. latest'[u] = Loadable(u) /\ (u \in Connected' => players'[u].profile = latest'[u])
  BY <1>2, <1>3, <1>4, <1>5
<1>8. QED
  BY <1>1, <1>3, <1>4, <1>5, <1>6, <1>7, OnePlayer

\* The process dies: memory is gone, and the store is what it was.
LEMMA CrashStep ==
  ASSUME ServerConstants, ServerInv, ServerDies
  PROVE  ServerInv'
<1>1. /\ players' = <<>> /\ task' = None /\ step' = "idle"
      /\ latest' = promised'
      /\ UNCHANGED <<stored, banFile, overwritten>>
      /\ banned' = {} /\ initialized' = FALSE /\ running' = FALSE
  BY DEF ServerDies
<1>2. promised' = [u \in Uuids |->
                     IF task # None /\ task.uuid = u /\ Loadable(u) = task.profile
                       THEN Loadable(u) ELSE promised[u]]
  BY DEF ServerDies
<1>3. Connected' = {} /\ players' \in [Connected' -> [profile : Profiles, dirty : BOOLEAN]]
  <2>1. DOMAIN <<>> = {} /\ <<>> \in [{} -> [profile : Profiles, dirty : BOOLEAN]]
    OBVIOUS
  <2>2. QED
    BY <1>1, <2>1 DEF Connected
<1>4. task # None => task.profile \in Profiles \cup {None}
  BY DEF ServerInv, OperationAgrees, Tasks
<1>5. promised' \in [Uuids -> Profiles \cup {None}]
  BY <1>2, <1>4 DEF ServerInv, StoreTypes
<1>6. StoreTypes' /\ MemoryTypes'
  BY <1>1, <1>3, <1>5 DEF ServerInv, StoreTypes, MemoryTypes
<1>7. OperationAgrees' /\ SaveAgrees' /\ NewIsNew'
  BY <1>1, NothingUnderWay
<1>8. ASSUME NEW u \in Uuids \ overwritten
      PROVE  Loadable(u)' = promised'[u]
  <2>1. Loadable(u)' = Loadable(u)
    BY <1>1 DEF Loadable
  <2>2. CASE task # None /\ task.uuid = u /\ Loadable(u) = task.profile
    BY <1>2, <2>1, <2>2
  <2>3. CASE ~(task # None /\ task.uuid = u /\ Loadable(u) = task.profile)
    <3>1. promised'[u] = promised[u]
      BY <1>2, <2>3
    <3>2. step = "clean_up" => task # None
      BY DEF ServerInv, OperationAgrees
    <3>3. ~(step = "clean_up" /\ task.uuid = u)
      BY <2>3, <3>2 DEF ServerInv, PromisesAreKept
    <3>4. QED
      BY <2>1, <3>1, <3>3 DEF ServerInv, PromisesAreKept
  <2>4. QED
    BY <2>2, <2>3
<1>9. PromisesAreKept' /\ ChangesAreKept' /\ BansAgree'
  BY <1>1, <1>3, <1>8 DEF PromisesAreKept, ChangesAreKept, BansAgree
<1>10. QED
  BY <1>6, <1>7, <1>9 DEF ServerInv

-----------------------------------------------------------------------------
(* The theorems.                                                           *)

LEMMA ServerStart ==
  ASSUME ServerConstants, ServerInit
  PROVE  ServerInv
<1>1. Connected = {} /\ players \in [Connected -> [profile : Profiles, dirty : BOOLEAN]]
  <2>1. DOMAIN <<>> = {} /\ <<>> \in [{} -> [profile : Profiles, dirty : BOOLEAN]]
    OBVIOUS
  <2>2. QED
    BY <2>1 DEF ServerInit, Connected
<1>2. /\ stored = [u \in Uuids |-> [directory |-> None, previous |-> None, staging |-> None]]
      /\ task = None /\ step = "idle" /\ overwritten = {}
      /\ latest = [u \in Uuids |-> None] /\ promised = [u \in Uuids |-> None]
      /\ banned = {} /\ banFile = {} /\ running = FALSE /\ initialized = FALSE
  BY DEF ServerInit
<1>3. [directory |-> None, previous |-> None, staging |-> None] \in Entries
  BY DEF Entries, Contents
<1>4. StoreTypes
  BY <1>2, <1>3 DEF StoreTypes
<1>5. MemoryTypes
  BY <1>1, <1>2 DEF MemoryTypes
<1>6. OperationAgrees /\ SaveAgrees /\ NewIsNew
  BY <1>2 DEF OperationAgrees, SaveAgrees, NewIsNew, SaveSteps, Preparing
<1>7. \A u \in Uuids : Loadable(u) = None
  BY <1>2 DEF Loadable
<1>8. PromisesAreKept /\ ChangesAreKept /\ BansAgree
  BY <1>1, <1>2, <1>7 DEF PromisesAreKept, ChangesAreKept, BansAgree
<1>9. QED
  BY <1>4, <1>5, <1>6, <1>8 DEF ServerInv

LEMMA ServerStep ==
  ASSUME ServerConstants, ServerInv, [ServerNext]_serverVars
  PROVE  ServerInv'
<1>1. CASE Save
  BY <1>1, ProfileSaveStep
<1>2. CASE Start \/ LoadBans
  BY <1>2, StartStep
<1>3. CASE Stop \/ StopStep
  BY <1>3, StopSteps
<1>4. CASE Flush \/ FlushStep
  BY <1>4, FlushSteps
<1>5. CASE Flushed
  BY <1>5, FlushedStep
<1>6. CASE Enter
  BY <1>6, EnterStep
<1>7. CASE Gone
  BY <1>7, GoneStep
<1>8. CASE Replaced
  BY <1>8, ReplacedStep
<1>9. CASE Audited \/ AuditFails
  BY <1>9, AuditSteps
<1>10. ASSUME NEW u \in Uuids,
              \/ Join(u) \/ Leave(u) \/ Discover(u) \/ Export(u)
              \/ Edit(u) \/ Import(u) \/ Ban(u) \/ Unban(u)
       PROVE  ServerInv'
  BY <1>10, JoinStep, LeaveStep, DiscoverStep, ExportStep, EditStep, ImportStep, BanStep
<1>11. CASE ServerDies
  BY <1>11, CrashStep
<1>12. CASE UNCHANGED serverVars
  BY <1>12 DEF serverVars, ServerInv, StoreTypes, MemoryTypes, OperationAgrees, SaveAgrees,
               NewIsNew, PromisesAreKept, ChangesAreKept, BansAgree, Connected, Loadable
<1>13. QED
  BY <1>1, <1>2, <1>3, <1>4, <1>5, <1>6, <1>7, <1>8, <1>9, <1>10, <1>11, <1>12 DEF ServerNext

LEMMA ServerInvariant ==
  ASSUME ServerConstants
  PROVE  ServerSpec => []ServerInv
<1>1. ServerInit => ServerInv
  BY ServerStart
<1>2. ServerInv /\ [ServerNext]_serverVars => ServerInv'
  BY ServerStep
<1>3. QED
  BY <1>1, <1>2, PTL DEF ServerSpec

\* The store, the memory and the histories stay of their types, and an operation
\* is under way exactly between its first step and its last.
THEOREM ServerTypeCorrect ==
  ServerSpec => []ServerTypeOK
<1>1. ServerInv => ServerTypeOK
  BY DEF ServerInv, StoreTypes, MemoryTypes, OperationAgrees, ServerTypeOK, Entries, Contents
<1>2. QED
  BY <1>1, ServerInvariant, ServerAssumption, PTL

\* A profile that was reported as saved can be loaded until another save has
\* replaced it, unless that save began while it was there as .old only.
THEOREM SavedProfilesAreKept ==
  ServerSpec => []SavedProfileIsKept
<1>1. ASSUME ServerInv
      PROVE  SavedProfileIsKept
  <2> SUFFICES ASSUME NEW u \in Uuids \ overwritten, promised[u] # None
               PROVE  Loadable(u) \in {promised[u]} \cup Update(u)
    BY DEF SavedProfileIsKept
  <2>1. CASE ~(step = "clean_up" /\ task.uuid = u)
    BY <1>1, <2>1 DEF ServerInv, PromisesAreKept
  <2>2. CASE step = "clean_up" /\ task.uuid = u
    <3>1. Loadable(u) = task.profile /\ task # None /\ task.kind # "create"
      BY <1>1, <2>2
         DEF ServerInv, PromisesAreKept, OperationAgrees, NewIsNew, SaveSteps
    <3>2. QED
      BY <2>2, <3>1 DEF Update
  <2>3. QED
    BY <2>1, <2>2
<1>2. ServerInv => SavedProfileIsKept
  BY <1>1
<1>3. QED
  BY <1>2, ServerInvariant, ServerAssumption, PTL

\* No order of joins, leaves, discoveries, flushes, admin edits and stops, each of
\* which may fail half way, drops a change of a profile.
THEOREM ChangesAreNotDropped ==
  ServerSpec => []ChangesAreStoredOrDirty
<1>1. ASSUME ServerInv
      PROVE  ChangesAreStoredOrDirty
  <2> SUFFICES ASSUME step = "idle", NEW u \in Uuids \ overwritten
               PROVE  \/ latest[u] = Loadable(u)
                      \/ /\ u \in Connected
                         /\ players[u] = [profile |-> latest[u], dirty |-> TRUE]
    BY DEF ChangesAreStoredOrDirty
  <2>1. CASE latest[u] = Loadable(u)
    BY <2>1
  <2>2. CASE u \in Connected /\ players[u].dirty
    <3>1. players[u] \in [profile : Profiles, dirty : BOOLEAN]
      BY <1>1, <2>2 DEF ServerInv, MemoryTypes
    <3>2. players[u].profile = latest[u] /\ players[u].dirty = TRUE
      BY <1>1, <2>2, <3>1 DEF ServerInv, ChangesAreKept
    <3>3. QED
      BY <2>2, <3>1, <3>2
  <2>3. QED
    BY <1>1, <2>1, <2>2 DEF ServerInv, ChangesAreKept
<1>2. ServerInv => ChangesAreStoredOrDirty
  BY <1>1
<1>3. QED
  BY <1>2, ServerInvariant, ServerAssumption, PTL

\* The ban list in memory is the one on disk, however far a ban, an unban or its
\* rollback came.
THEOREM BansStayOnDisk ==
  ServerSpec => []BansAreOnDisk
<1>1. ServerInv => BansAreOnDisk
  BY DEF ServerInv, BansAgree, BansAreOnDisk
<1>2. QED
  BY <1>1, ServerInvariant, ServerAssumption, PTL

-----------------------------------------------------------------------------
(* Both parts side by side, as the model checker's run has them.              *)

\* A behaviour of the two side by side is a behaviour of each.
LEMMA SideBySide ==
  MCSpec => Spec /\ ServerSpec
<1>1. MCInit => Init /\ ServerInit
  BY DEF MCInit
<1>2. [MCNext]_<<vars, serverVars, part>> => [Next]_vars
  BY DEF MCNext, vars
<1>3. [MCNext]_<<vars, serverVars, part>> => [ServerNext]_serverVars
  BY DEF MCNext, serverVars
<1> QED
  BY <1>1, <1>2, <1>3, PTL DEF MCSpec, Spec, ServerSpec

\* What is on disk, in memory and under way stays of its type, in the database and
\* in the server with its profile store.
THEOREM SavesAndProfilesTyped ==
  ASSUME ~LateWriteErrors
  PROVE  MCSpec => []MCTypeOK
<1>1. TypeOK /\ ServerTypeOK => MCTypeOK
  BY DEF MCTypeOK
<1> QED
  BY <1>1, SideBySide, SaveTypeCorrect, ServerTypeCorrect, PTL
=============================================================================
