-------------------------- MODULE CommandSequencer -------------------------
(***************************************************************************)
(* net::TransportReliableCommandSequencer: commands that arrive out of     *)
(* order wait until the gap before them closes.                            *)
(***************************************************************************)
EXTENDS Integers, Sequences, FiniteSets

CONSTANTS
  ReorderWindow,     \* max_pending_commands_
  MaxSequence        \* the largest uint64, where the sequence space ends

ASSUME SequencerAssumption ==
  /\ ReorderWindow \in Nat \ {0}
  /\ MaxSequence \in Nat \ {0}

VARIABLES
  nextExpected,      \* next_expected_sequence_, 0 once exhausted
  reordered,         \* keys of pending_
  delivered          \* history: sequences handed on, oldest first

sequencerVars == <<nextExpected, reordered, delivered>>

Sequences == 1 .. MaxSequence

SequencerTypeOK ==
  /\ nextExpected \in 0 .. MaxSequence
  /\ reordered \in SUBSET Sequences
  /\ delivered \in Seq(Sequences)

SequencerInit ==
  /\ nextExpected = 1
  /\ reordered = {}
  /\ delivered = <<>>

\* preflight: what the sequencer can place, old and pending sequences included.
Preflight(seq) ==
  /\ nextExpected # 0
  /\ \/ seq <= nextExpected
     \/ seq \in reordered
     \/ /\ seq - nextExpected <= ReorderWindow
        /\ Cardinality(reordered) < ReorderWindow

\* Faulty variant: everything pending is handed on, gaps or not.
ReadyRunWithGaps(pending, first) == {n \in pending : first <= n}

\* The run that `pending' makes ready when the sequencer expects `first'.
ReadyRun(pending, first) ==
  {n \in pending : first <= n /\ first .. n \subseteq pending}

\* The members of a finite set of numbers in increasing order.
Nth(S, i) == CHOOSE n \in S : Cardinality({m \in S : m < n}) = i - 1
InOrder(S) == [i \in 1 .. Cardinality(S) |-> Nth(S, i)]

\* next_expected_sequence_ after `length' increments.
AfterRun(first, length) ==
  IF first + length > MaxSequence THEN 0 ELSE first + length

\* accept: old and pending sequences are dropped; any other one is buffered,
\* and what is ready leaves the buffer in order.
Sequence(seq) ==
  /\ Preflight(seq)
  /\ IF seq < nextExpected \/ seq \in reordered
       THEN UNCHANGED sequencerVars
       ELSE LET pending == reordered \cup {seq}
                ready   == ReadyRun(pending, nextExpected)
            IN  /\ reordered' = pending \ ready
                /\ nextExpected' = AfterRun(nextExpected, Cardinality(ready))
                /\ delivered' = delivered \o InOrder(ready)

\* clear, when the client is disconnected.
ClearSequencer ==
  /\ nextExpected' = 1
  /\ reordered' = {}
  /\ UNCHANGED delivered

-----------------------------------------------------------------------------
\* Commands are handed on in sequence order, each once, none skipped.
DeliveredInOrder == \A i \in 1 .. Len(delivered) : delivered[i] = i
=============================================================================
