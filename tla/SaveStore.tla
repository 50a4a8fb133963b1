------------------------------ MODULE SaveStore ------------------------------
(* What a save database promises its one caller (docs/architecture/           *)
(* save_database.md, "staged failure isolation for ordinary API errors"),     *)
(* with no files: there is one saved value, an operation that is under way    *)
(* replaces it in a single step or leaves it alone, "ok" is only answered     *)
(* when the replacement has happened, "error" only when it has not, and a     *)
(* process that dies keeps one value or the other.  SaveDatabase is shown to  *)
(* implement it.                                                              *)
CONSTANTS Saves,      \* the values that can be saved
          NoRequest   \* no operation is under way

VARIABLES saved,      \* what a reader gets
          request,    \* the operation under way: [from |-> a save, to |-> a save]
          reply       \* what the caller has of its last operation

vars == <<saved, request, reply>>

Init ==
    /\ saved \in Saves
    /\ request = NoRequest
    /\ reply = "none"

Ask ==
    /\ request = NoRequest /\ request' # NoRequest
    /\ \E wanted \in Saves : request' = [from |-> saved, to |-> wanted]
    /\ reply' = "none"
    /\ UNCHANGED saved

Take ==
    /\ request # NoRequest
    /\ UNCHANGED <<request, reply>>
    /\ saved' = request.to

Answer(answer) ==
    /\ request # NoRequest
    /\ request' = NoRequest
    /\ reply' = answer

Succeed ==
    /\ Answer("ok")
    /\ saved' = request.to

Fail ==
    /\ Answer("error")
    /\ saved = request.from
    /\ UNCHANGED saved

Die ==
    /\ Answer("none")
    /\ UNCHANGED saved

Next ==
    \/ Ask
    \/ Take
    \/ Succeed
    \/ Fail
    \/ Die

Spec == Init /\ [][Next]_vars
=============================================================================
