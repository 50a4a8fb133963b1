---------------------------- MODULE SaveDatabase ----------------------------
(* FileSaveDatabase (engine/save/save_database.cpp): a directory of numbered  *)
(* generations, each a snapshot and an external table of chunk deltas, and    *)
(* current.txt, which names the active one.  One step is one file-system      *)
(* operation; each may fail, and the process may die between any two (or, as  *)
(* a removal that fails half way, in the middle of one).  Callers serialize   *)
(* their writes (docs/architecture/save_database.md:78), so one operation is  *)
(* under way at a time.  File contents are records, temporary files of the    *)
(* single-file replacement are not visible to any reader and are left out.    *)
EXTENDS Naturals, FiniteSets, FiniteSetsExt, Functions, FileMarkers

CONSTANTS Worlds,           \* the bodies of a snapshot, chunk edits aside
          Coords,           \* chunk coordinates
          Deltas,           \* encoded chunk deltas
          Snapshots,        \* the snapshots callers write
          ChunkDeltas,      \* the <<coordinate, delta>> pairs write_chunk_delta gets
          BulkEdits,        \* the tables write_chunk_deltas is called with
          PlainRoots,       \* what the layout before generations may have left
          MaxGeneration,    \* the largest generation number
          LateWriteErrors   \* TRUE: a write may fail only when its stream closes

Edits == UNION {[cs -> Deltas] : cs \in SUBSET Coords}

ASSUME SaveConstants ==
    /\ MaxGeneration \in Nat
    /\ LateWriteErrors \in BOOLEAN
    /\ None \notin Worlds \cup Deltas
    /\ Broken \notin Worlds \cup Deltas
    /\ None # Broken
    /\ Snapshots \subseteq [world : Worlds, edits : Edits]
    /\ ChunkDeltas \subseteq Coords \X Deltas
    /\ BulkEdits \subseteq Edits

VARIABLES root,     \* location -> the save root kept there, or None
          current,  \* the generation current.txt names; 0 without the file
          pc,       \* the step the operation under way takes next
          op,       \* its parameters and local variables, or None
          reply     \* what its caller has: "none", "ok" or "error"

vars == <<root, current, pc, op, reply>>

disk == <<root, current>>

-----------------------------------------------------------------------------
(* The layout.  Location <<"committed", 0>> is the plain root of the layout   *)
(* before generations; the .tmp directories are the "staging" ones.           *)

Locations == {"committed", "staging"} \X (0 .. MaxGeneration)

PlainRoot == <<"committed", 0>>

NoEdits == [c \in {} |-> None]

SnapshotFiles == [world : Worlds, edits : Edits]

Tables == [files : UNION {[cs -> Deltas \cup {Broken}] : cs \in SUBSET Coords},
           index : (SUBSET Coords) \cup {None, Broken}]

SaveRoots == [snapshot : SnapshotFiles \cup {None, Broken},
              chunks : Tables \cup {None}, staged : Tables \cup {None},
              backup : Tables \cup {None}]

Saves == [world : Worlds \cup {None}, edits : Edits]

NoDirectory == [files |-> NoEdits, index |-> None]

EmptyRoot == [snapshot |-> None, chunks |-> None, staged |-> None, backup |-> None]

\* A directory is created by the first write below it.
Opened(directory, empty) == IF directory = None THEN empty ELSE directory

\* A chunk table holding these edits.
TableOf(edits) == [files |-> edits, index |-> DOMAIN edits]

\* A function with one entry added or replaced.
Extended(f, c, x) == [d \in DOMAIN f \cup {c} |-> IF d = c THEN x ELSE f[d]]

\* What may be left of a directory when a recursive removal fails or dies: the
\* entries go in no particular order, so either half may be the one that is left.
LeftOfTable(table) ==
    IF table = None THEN {None}
    ELSE {table, [table EXCEPT !.index = None], [table EXCEPT !.files = NoEdits]}

LeftOfRoot(r) ==
    IF r = None THEN {None}
    ELSE {r, [r EXCEPT !.snapshot = None], [EmptyRoot EXCEPT !.snapshot = r.snapshot]}

\* What a file holds after a write that reported success: a small file reaches
\* the disk only when its stream is destroyed, where errors go unseen.
Written(content) == IF LateWriteErrors THEN {content, Broken} ELSE {content}

-----------------------------------------------------------------------------
(* Reading. *)

\* Faulty variant: the backup is not a table to read.
ReadableTableOnly(r) == r.chunks

ReadableTable(r) == IF r.chunks # None THEN r.chunks ELSE r.backup

HasTable(r) == ReadableTable(r) # None /\ ReadableTable(r).index # None

ReadIndex(r) == IF HasTable(r) THEN ReadableTable(r).index ELSE {}

TableIsWhole(table) ==
    /\ table.index # Broken
    /\ \A c \in table.index : c \in DOMAIN table.files /\ table.files[c] # Broken

EffectiveEdits(r) ==
    CASE HasTable(r) -> LET table == ReadableTable(r)
                        IN  IF TableIsWhole(table) THEN Restrict(table.files, table.index)
                                                   ELSE Broken
      [] ~HasTable(r) /\ r.snapshot = None -> NoEdits
      [] ~HasTable(r) /\ r.snapshot = Broken -> Broken
      [] OTHER -> r.snapshot.edits

\* What the older layout left can be read.
ASSUME PlainRootsAreReadable ==
    \A plain \in PlainRoots :
        /\ plain \in SaveRoots
        /\ plain.snapshot # Broken
        /\ EffectiveEdits(plain) # Broken

Active == <<"committed", current>>

ActiveExists == current # Broken /\ root[Active] # None

Saved ==
    IF ~ActiveExists \/ root[Active].snapshot = Broken \/ EffectiveEdits(root[Active]) = Broken
    THEN Broken
    ELSE [world |-> IF root[Active].snapshot = None THEN None ELSE root[Active].snapshot.world,
          edits |-> EffectiveEdits(root[Active])]

CommittedGenerations == {g \in 1 .. MaxGeneration : root[<<"committed", g>>] # None}

StagedGenerations == {g \in 1 .. MaxGeneration : root[<<"staging", g>>] # None}

\* Faulty variant: the next number is counted, not taken from the highest one.
NextGenerationCounted == Cardinality(CommittedGenerations) + 1

NextGeneration == Max(CommittedGenerations \cup {0}) + 1

-----------------------------------------------------------------------------
(* The operation under way.  "from" and "to" are history: the save before it  *)
(* and the one it asks for; no guard reads them.                              *)

NoTarget == <<"committed", MaxGeneration + 1>>

Kinds == {"snapshot", "chunks", "maintain"}

MaintenancePhases == {"recover", "prune", "compact"}

Operations == [kind : Kinds, at : Locations \cup {NoTarget}, from : Saves, to : Saves,
               snapshot : SnapshotFiles \cup {None}, edits : Edits,
               write : (Coords \X Deltas) \cup {None},
               phases : SUBSET MaintenancePhases, keep : Nat]

\* The markers are no values of any other kind.
ASSUME MarkersStandApart ==
    \A marker \in {None, Broken} :
        /\ marker \notin Nat
        /\ \A coords \in SUBSET Coords : coords # marker
        /\ marker \notin Edits
        /\ marker \notin SnapshotFiles
        /\ marker \notin Tables
        /\ marker \notin SaveRoots
        /\ marker \notin Saves
        /\ marker \notin Operations
        /\ marker \notin [from : Saves, to : Saves]

\* An operation of which only the kind is known, and the save it asks for.
Operation(kind, to) ==
    [kind |-> kind, at |-> NoTarget, from |-> Saved, to |-> to,
     snapshot |-> None, edits |-> NoEdits, write |-> None, phases |-> {}, keep |-> 0]

Begin(operation, step) ==
    /\ pc = "idle"
    /\ pc' = step
    /\ op' = operation
    /\ reply' = "none"
    /\ UNCHANGED disk

Return(answer) ==
    /\ pc' = "idle"
    /\ op' = None
    /\ reply' = answer

Continue(step) ==
    /\ pc' = step
    /\ UNCHANGED <<op, reply>>

\* The save root the operation works in.
Target == Opened(root[op.at], EmptyRoot)

SetTarget(r) ==
    /\ root' = [root EXCEPT ![op.at] = r]
    /\ UNCHANGED current

\* A recursive removal that fails part of the way.
RemovePartly(location, left) ==
    /\ left \in LeftOfRoot(root[location])
    /\ root' = [root EXCEPT ![location] = left]
    /\ UNCHANGED current

-----------------------------------------------------------------------------
(* Requests. *)

WriteSnapshot(s) ==
    Begin([Operation("snapshot", s) EXCEPT !.snapshot = s, !.edits = s.edits],
          "next_generation")

\* A migration that applies rewrites what was read as a new generation.
MigrateToSchema(w) ==
    /\ Saved # Broken
    /\ Saved.world \in Worlds \ {w}
    /\ WriteSnapshot([Saved EXCEPT !.world = w])

\* One more delta, <<coordinate, delta>>, in a set of edits.
Merged(write, edits) == Extended(edits, write[1], write[2])

WriteChunkDelta(write) ==
    Begin([Operation("chunks", [Saved EXCEPT !.edits = Merged(write, @)])
              EXCEPT !.write = write],
          "merge_delta")

WriteChunkDeltas(edits) ==
    Begin([Operation("chunks", [Saved EXCEPT !.edits = edits]) EXCEPT !.edits = edits],
          "find_active")

\* maintain(policy); recover, prune and compact alone are policies of one phase.
Maintain(phases, keep) ==
    Begin([Operation("maintain", Saved) EXCEPT !.phases = phases, !.keep = keep], "recover")

\* Any read or directory listing before the first change may fail.
ReadFails ==
    /\ pc \in {"next_generation", "merge_delta", "find_active", "recover", "prune", "compact"}
    /\ Return("error")
    /\ UNCHANGED disk

-----------------------------------------------------------------------------
(* write_snapshot and the start of the chunk-delta writes. *)

\* Faulty variant: the number wraps round after the largest one.
FindNextGenerationWrapping ==
    /\ pc = "next_generation"
    /\ op' = [op EXCEPT !.at = <<"staging", NextGeneration % (MaxGeneration + 1)>>]
    /\ pc' = "clear_staging"
    /\ UNCHANGED <<disk, reply>>

FindNextGeneration ==
    /\ pc = "next_generation"
    /\ NextGeneration <= MaxGeneration
    /\ op' = [op EXCEPT !.at = <<"staging", NextGeneration>>]
    /\ pc' = "clear_staging"
    /\ UNCHANGED <<disk, reply>>

GenerationsExhausted ==
    /\ pc = "next_generation"
    /\ NextGeneration > MaxGeneration
    /\ Return("error")
    /\ UNCHANGED disk

ClearStaging ==
    /\ pc = "clear_staging"
    /\ \/ SetTarget(None) /\ Continue("clear_staged")
       \/ \E left \in LeftOfRoot(root[op.at]) : RemovePartly(op.at, left) /\ Return("error")

FindActive ==
    /\ pc = "find_active"
    /\ IF ActiveExists
       THEN /\ op' = [op EXCEPT !.at = Active]
            /\ pc' = "clear_staged"
            /\ UNCHANGED reply
       ELSE Return("error")
    /\ UNCHANGED disk

MergeDelta ==
    /\ pc = "merge_delta"
    /\ IF ActiveExists /\ EffectiveEdits(root[Active]) # Broken
       THEN /\ op' = [op EXCEPT !.at = Active,
                                !.edits = Merged(op.write, EffectiveEdits(root[Active]))]
            /\ pc' = "clear_staged"
            /\ UNCHANGED reply
       ELSE Return("error")
    /\ UNCHANGED disk

-----------------------------------------------------------------------------
(* write_chunk_deltas_to_root: stage a whole table, park the old one as the   *)
(* backup, move the new one in, drop the backup.  A directory is renamed only *)
(* where there is none yet: the file system refuses otherwise.                *)

\* How the table write ends for its caller.
TableDone ==
    IF op.kind = "snapshot" THEN Continue("write_snapshot_file") ELSE Return("ok")

TableFailed ==
    IF op.kind = "snapshot" THEN Continue("undo_generation") ELSE Return("error")

SetStaged(table) == SetTarget([Target EXCEPT !.staged = table])

RemoveStaged(left) ==
    SetTarget(IF root[op.at] = None THEN None ELSE [Target EXCEPT !.staged = left])

Staged == Opened(Target.staged, NoDirectory)

ClearStaged ==
    /\ pc = "clear_staged"
    /\ \/ RemoveStaged(None) /\ Continue("write_table")
       \/ \E left \in LeftOfTable(Target.staged) : RemoveStaged(left) /\ TableFailed

WritePayload(c) ==
    /\ pc = "write_table"
    /\ c \in DOMAIN op.edits \ DOMAIN Staged.files
    /\ \E content \in Written(op.edits[c]) :
          SetStaged([Staged EXCEPT !.files = Extended(@, c, content)])
    /\ Continue("write_table")

WriteIndex ==
    /\ pc = "write_table"
    /\ DOMAIN op.edits = DOMAIN Staged.files
    /\ \E content \in Written(DOMAIN op.edits) : SetStaged([Staged EXCEPT !.index = content])
    /\ Continue("settle_backup")

WriteTableFails ==
    /\ pc = "write_table"
    /\ Continue("undo_table")
    /\ UNCHANGED disk

\* Faulty variant: only a backup without a table beside it is looked at.
SettleBackupIfAlone ==
    /\ pc = "settle_backup"
    /\ IF Target.backup # None /\ Target.chunks = None
       THEN SetTarget([Target EXCEPT !.chunks = Target.backup, !.backup = None])
       ELSE UNCHANGED disk
    /\ Continue("park_table")

\* A backup left by an earlier crash is moved back or removed first.
SettleBackup ==
    /\ pc = "settle_backup"
    /\ \/ /\ Target.backup = None \/ Target.chunks # None
          /\ SetTarget([Target EXCEPT !.backup = None])
          /\ Continue("park_table")
       \/ /\ Target.backup # None /\ Target.chunks = None
          /\ SetTarget([Target EXCEPT !.chunks = Target.backup, !.backup = None])
          /\ Continue("park_table")
       \/ /\ Target.chunks # None
          /\ \E left \in LeftOfTable(Target.backup) : SetTarget([Target EXCEPT !.backup = left])
          /\ Continue("undo_table")
       \/ Continue("undo_table") /\ UNCHANGED disk

ParkTable ==
    /\ pc = "park_table"
    /\ \/ /\ Target.chunks # None => Target.backup = None
          /\ SetTarget([Target EXCEPT !.chunks = None, !.backup = Target.chunks])
          /\ Continue("install_table")
       \/ /\ Target.chunks # None
          /\ Continue("undo_table")
          /\ UNCHANGED disk

\* The code's has_target: there was a table, and ParkTable made it the backup.
HadTable == Target.backup # None

InstallTable ==
    /\ pc = "install_table"
    /\ \/ /\ Target.chunks = None
          /\ SetTarget([Target EXCEPT !.chunks = Target.staged, !.staged = None])
          /\ IF HadTable THEN Continue("drop_backup") ELSE TableDone
       \/ /\ Continue(IF HadTable THEN "roll_back" ELSE "undo_table")
          /\ UNCHANGED disk

RollBack ==
    /\ pc = "roll_back"
    /\ \/ /\ SetTarget([Target EXCEPT !.chunks = Target.backup, !.backup = None])
          /\ Continue("undo_table")
       \/ TableFailed /\ UNCHANGED disk

\* The removal of the parked table is not checked.
DropBackup ==
    /\ pc = "drop_backup"
    /\ \E left \in {None} \cup LeftOfTable(Target.backup) :
          SetTarget([Target EXCEPT !.backup = left])
    /\ TableDone

UndoTable ==
    /\ pc = "undo_table"
    /\ \E left \in {None} \cup LeftOfTable(Target.staged) : RemoveStaged(left)
    /\ TableFailed

-----------------------------------------------------------------------------
(* The rest of write_snapshot: the snapshot file, the promotion of the staged *)
(* generation, and current.txt, which alone makes it the active one.          *)

WriteSnapshotFile ==
    /\ pc = "write_snapshot_file"
    /\ \/ /\ \E content \in Written(op.snapshot) : SetTarget([Target EXCEPT !.snapshot = content])
          /\ Continue("commit_generation")
       \/ Continue("undo_generation") /\ UNCHANGED disk

CommitGeneration ==
    /\ pc = "commit_generation"
    /\ \/ /\ root[<<"committed", op.at[2]>>] = None
          /\ root' = [root EXCEPT ![op.at] = None, ![<<"committed", op.at[2]>>] = root[op.at]]
          /\ Continue("publish")
          /\ UNCHANGED current
       \/ Continue("undo_generation") /\ UNCHANGED disk

PublishGeneration ==
    /\ pc = "publish"
    /\ \/ /\ current' \in Written(op.at[2])
          /\ Return("ok")
          /\ UNCHANGED root
       \/ Return("error") /\ UNCHANGED disk

\* The removal of the staged generation after a failure is not checked.
UndoGeneration ==
    /\ pc = "undo_generation"
    /\ \/ SetTarget(None)
       \/ \E left \in LeftOfRoot(root[op.at]) : RemovePartly(op.at, left)
    /\ Return("error")

-----------------------------------------------------------------------------
(* maintain: the phases the policy selects, always in this order. *)

\* One removal of a phase: whole, or failing and ending the operation.
RemoveGeneration(location, step) ==
    \/ /\ root' = [root EXCEPT ![location] = None]
       /\ UNCHANGED current
       /\ Continue(step)
    \/ /\ \E left \in LeftOfRoot(root[location]) : RemovePartly(location, left)
       /\ Return("error")

\* recover_staged_generations: every .tmp directory, lowest number first.
Recover ==
    /\ pc = "recover"
    /\ IF "recover" \notin op.phases \/ (ActiveExists /\ StagedGenerations = {})
       THEN Continue("prune") /\ UNCHANGED disk
       ELSE IF ~ActiveExists THEN Return("error") /\ UNCHANGED disk
            ELSE RemoveGeneration(<<"staging", Min(StagedGenerations)>>, "recover")

\* prune_stale_generations(keep): all but the active one and the newest keep.
Stale == CommittedGenerations \ {current}

\* Faulty variant: one stale generation too many is kept.
DoomedButOne(keep) ==
    {g \in Stale : Cardinality({newer \in Stale : newer > g}) > keep}

Doomed(keep) ==
    {g \in Stale : Cardinality({newer \in Stale : newer > g}) >= keep}

Prune ==
    /\ pc = "prune"
    /\ IF "prune" \notin op.phases \/ current = 0 \/ (ActiveExists /\ Doomed(op.keep) = {})
       THEN Continue("compact") /\ UNCHANGED disk
       ELSE IF ~ActiveExists THEN Return("error") /\ UNCHANGED disk
            ELSE RemoveGeneration(<<"committed", Max(Doomed(op.keep))>>, "prune")

\* compact_chunk_deltas: payloads of the table being read that its index omits.
Orphans == DOMAIN ReadableTable(root[Active]).files \ ReadIndex(root[Active])

RemovePayload(c) ==
    LET active == root[Active]
        table == [ReadableTable(active) EXCEPT !.files = Restrict(@, DOMAIN @ \ {c})]
    IN  /\ root' = [root EXCEPT ![Active] = IF active.chunks # None
                                             THEN [active EXCEPT !.chunks = table]
                                             ELSE [active EXCEPT !.backup = table]]
        /\ UNCHANGED current

Compact ==
    /\ pc = "compact"
    /\ IF "compact" \notin op.phases
       THEN Return("ok") /\ UNCHANGED disk
       ELSE IF ~ActiveExists \/ ReadIndex(root[Active]) = Broken
            THEN Return("error") /\ UNCHANGED disk
            ELSE IF ReadableTable(root[Active]) = None \/ Orphans = {}
                 THEN Return("ok") /\ UNCHANGED disk
                 ELSE \E c \in Orphans : RemovePayload(c) /\ Continue("compact")

-----------------------------------------------------------------------------
(* The process dies: what is on disk stays, the operation is forgotten. *)

Crash ==
    /\ pc # "idle"
    /\ pc' = "idle"
    /\ op' = None
    /\ reply' = "none"
    /\ UNCHANGED disk

Init ==
    /\ \E plain \in PlainRoots :
          root = [location \in Locations |-> IF location = PlainRoot THEN plain ELSE None]
    /\ current = 0
    /\ pc = "idle"
    /\ op = None
    /\ reply = "none"

Request ==
    \/ \E s \in Snapshots : WriteSnapshot(s)
    \/ \E w \in Worlds : MigrateToSchema(w)
    \/ \E write \in ChunkDeltas : WriteChunkDelta(write)
    \/ \E edits \in BulkEdits : WriteChunkDeltas(edits)
    \/ \E phases \in SUBSET MaintenancePhases, keep \in 0 .. 1 :
          Maintain(phases, keep)

WriteTable ==
    \/ ClearStaged
    \/ \E c \in Coords : WritePayload(c)
    \/ WriteIndex
    \/ WriteTableFails
    \/ SettleBackup
    \/ ParkTable
    \/ InstallTable
    \/ RollBack
    \/ DropBackup
    \/ UndoTable

WriteGeneration ==
    \/ FindNextGeneration
    \/ GenerationsExhausted
    \/ ClearStaging
    \/ WriteSnapshotFile
    \/ CommitGeneration
    \/ PublishGeneration
    \/ UndoGeneration

Next ==
    \/ Request
    \/ ReadFails
    \/ FindActive
    \/ MergeDelta
    \/ WriteTable
    \/ WriteGeneration
    \/ Recover
    \/ Prune
    \/ Compact
    \/ Crash

Spec == Init /\ [][Next]_vars

-----------------------------------------------------------------------------
(* Properties. *)

\* The type invariant.
TypeOK ==
    /\ \A location \in Locations : root[location] \in SaveRoots \cup {None}
    /\ root[<<"staging", 0>>] = None
    /\ current \in 0 .. MaxGeneration \cup {Broken}
    /\ pc = "idle" <=> op = None
    /\ reply \in {"none", "ok", "error"}

Store == INSTANCE SaveStore
    WITH Saves <- Saves,
         NoRequest <- None,
         saved <- Saved,
         request <- IF op = None THEN None ELSE [from |-> op.from, to |-> op.to],
         reply <- reply

\* Whatever fails and wherever the process dies, a reader finds the save before
\* the operation or the one it asked for, never a mixture of them and never a
\* save that cannot be read; "ok" means the new one, "error" the old one.
ImplementsSaveStore == Store!Spec

\* A maintenance pass that reports success leaves none of what it was asked to
\* remove: no staged generation, at most "keep" stale ones, and no payload
\* outside the index of the active table.
Reclaimed ==
    /\ "recover" \in op.phases => StagedGenerations' = {}
    /\ "prune" \in op.phases /\ current # 0 => Cardinality(Stale') <= op.keep
    /\ "compact" \in op.phases =>
          LET table == ReadableTable(root[Active])'
          IN  table # None => DOMAIN table.files = ReadIndex(root[Active])'

MaintenanceReclaims ==
    [][op # None /\ op'= None /\ reply' = "ok" /\ op.kind = "maintain" => Reclaimed]_vars

\* current.txt never goes back: neither a number freed by pruning a generation
\* that was promoted but not published, nor a crash, makes a write reuse the
\* number of the active generation or of an older one.
CurrentOnlyAdvances == [][current' # current => current' > current]_vars

\* Nothing an earlier failure or crash left behind can be in the way of a later
\* write: wherever a directory is about to be renamed, its destination is free.
DestinationsAreFree ==
    /\ pc = "park_table" /\ Target.chunks # None => Target.backup = None
    /\ pc \in {"install_table", "roll_back"} => Target.chunks = None
    /\ pc = "commit_generation" => root[<<"committed", op.at[2]>>] = None

\* "this foundation provides staged failure isolation for ordinary API errors"
\* (docs/architecture/save_database.md:77): no error of a write makes the save
\* unreadable.
FailuresAreIsolated == Saved # Broken
=============================================================================
