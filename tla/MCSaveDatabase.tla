--------------------------- MODULE MCSaveDatabase ---------------------------
(* A small instance of SaveDatabase: two chunk coordinates and two deltas,    *)
(* two snapshots that differ in both halves, and three plain roots of the     *)
(* older layout (tests/engine_tests.cpp:7013): an empty one, one with         *)
(* embedded edits and no table, and one with a table, an orphaned payload and *)
(* embedded edits that the table overrides.                                   *)
(* The authoritative server with its profile store is the other part of the   *)
(* run: a behaviour is one of SaveDatabase or AuthoritativeServer, the other  *)
(* standing still.                                                            *)
EXTENDS SaveDatabase, AuthoritativeServer, TLC

VARIABLE part

CONSTANTS w1, w2, c1, c2, d1, d2

MCInit ==
    /\ Init
    /\ ServerInit
    /\ \/ part = "saves"
       \/ part = "server" /\ root[PlainRoot] = EmptyRoot

MCNext ==
    /\ UNCHANGED part
    /\ \/ part = "saves" /\ Next /\ UNCHANGED serverVars
       \/ part = "server" /\ ServerNext /\ UNCHANGED vars

MCSpec == MCInit /\ [][MCNext]_<<vars, serverVars, part>>

Only(c) == c :> d1

Both == (c1 :> d2) @@ (c2 :> d1)

MCSnapshots == {[world |-> w1, edits |-> Only(c1)], [world |-> w2, edits |-> Both]}

MCChunkDeltas == {<<c1, d2>>, <<c2, d1>>}

MCBulkEdits == {NoEdits, Only(c2)}

MCPlainRoots ==
    {EmptyRoot,
     [EmptyRoot EXCEPT !.snapshot = [world |-> w1, edits |-> Only(c1)]],
     [EmptyRoot EXCEPT !.snapshot = [world |-> w1, edits |-> Only(c1)],
                       !.chunks = [files |-> Both, index |-> {c2}]]}

(* The view: states that differ only in files no step can read any more are   *)
(* one state.  Of a generation that is neither active nor being written, and  *)
(* of a staged table outside its write or a backup beside its table, only the *)
(* existence matters: the next step that touches them removes them.           *)
Exists(x) == IF x = None THEN None ELSE Broken

Seen(r) ==
    IF r = None THEN None
    ELSE [r EXCEPT !.staged = IF pc \in {"write_table", "settle_backup", "park_table",
                                         "install_table"}
                              THEN @ ELSE Exists(@),
                   !.backup = IF r.chunks = None THEN @ ELSE Exists(@)]

Relevant(location) ==
    \/ current # Broken /\ location = Active
    \/ op # None /\ location \in {op.at, <<"committed", op.at[2]>>}

SeenState ==
    <<[location \in Locations |-> IF Relevant(location) THEN Seen(root[location])
                                                      ELSE Exists(root[location])],
      current, pc, op, reply>>

(* What the profile store has put aside is removed before it is written: a    *)
(* staged directory is read only by the save that has written it, a parked    *)
(* one only while the directory it stands for is not there.                   *)
SeenProfile(p) ==
    IF p.directory = None THEN <<p.previous>> ELSE p.directory

View ==
    IF part = "saves" THEN <<part, SeenState>> ELSE
    <<part, [u \in Uuids |-> SeenProfile(stored[u])], players, banned,
      banFile, initialized, running, task, step, latest, promised, overwritten>>

(* No operation tells the players apart.                                      *)
Symmetry == Permutations(Uuids)

(* The variables of the part that moves keep their types.                     *)
MCTypeOK == IF part = "saves" THEN TypeOK ELSE ServerTypeOK
=============================================================================
