--------------------------- MODULE SessionProofs ---------------------------
(***************************************************************************)
(* What surrounds the command loop of a runtime session.                   *)
(*                                                                         *)
(* Packets: what the reassembler hands on is a whole message, for any      *)
(* messages, limits and timeout, and whatever the network does with the    *)
(* fragments; and the budget of the packets that wait is exact.            *)
(*                                                                         *)
(* Players: the session's client comes to know every player as the server  *)
(* does and shows each as one object of its own, for any number of         *)
(* connections, ticks and saved players, and whichever sends fail.         *)
(***************************************************************************)
EXTENDS PacketReassembly, PlayerReplication, FoldLemmas, SequenceTheorems

\* The entry of a packet cut from m of which the pieces `have' have arrived.
Holding(m, have, age) ==
  [parts |-> Fragments[m], pieces |-> [i \in have |-> m],
   count |-> Cardinality(have), age |-> age]

Incomplete(entry, m) ==
  \E have \in SUBSET Indices(m), age \in Nat :
    /\ entry = Holding(m, have, age)
    /\ Cardinality(have) < Fragments[m]

FragmentsAreCut ==
  \A f \in flying :
    /\ f.message \in Messages
    /\ f.index \in Indices(f.message)
    /\ f.id \in Nat
    /\ f.id < nextPacketId

\* A packet number belongs to one message, in flight and among what is pending.
OneMessagePerNumber == \A f, g \in flying : f.id = g.id => f.message = g.message

PendingHasOneOrigin ==
  \A k \in DOMAIN pending :
    /\ k[2] \in Nat
    /\ k[2] < nextPacketId
    /\ \E m \in Messages :
         /\ Incomplete(pending[k], m)
         /\ \A f \in flying : f.id = k[2] => f.message = m

PacketInv ==
  /\ nextPacketId \in Nat
  /\ FragmentsAreCut
  /\ OneMessagePerNumber
  /\ PendingHasOneOrigin
  /\ PacketsAreWhole

-----------------------------------------------------------------------------
(* Counting the pieces.                                                    *)

LEMMA IndicesCounted ==
  ASSUME NEW m \in Messages
  PROVE  IsFiniteSet(Indices(m)) /\ Cardinality(Indices(m)) = Fragments[m]
PROOF
<1>1. Fragments[m] \in Nat \ {0}
  BY ReassemblyAssumption
<1> DEFINE last == Fragments[m] - 1
<1>2. last \in Int /\ 0 <= last /\ last - 0 + 1 = Fragments[m]
  BY <1>1
<1> HIDE DEF last
<1>3. IsFiniteSet(0 .. last) /\ Cardinality(0 .. last) = last - 0 + 1
  BY <1>2, FS_Interval
<1> QED BY <1>2, <1>3 DEF last, Indices

\* One more piece leaves the packet incomplete or makes it whole.
LEMMA OneMorePiece ==
  ASSUME NEW m \in Messages, NEW have \in SUBSET Indices(m), NEW i \in Indices(m),
         Cardinality(have) < Fragments[m]
  PROVE  LET more == have \cup {i}
         IN  /\ more \in SUBSET Indices(m)
             /\ Cardinality(have) \in Nat
             /\ Cardinality(more) = IF i \in have THEN Cardinality(have)
                                    ELSE Cardinality(have) + 1
             /\ \/ Cardinality(more) < Fragments[m]
                \/ Cardinality(more) = Fragments[m] /\ more = Indices(m)
PROOF
<1> DEFINE more == have \cup {i}
<1>1. IsFiniteSet(Indices(m)) /\ Cardinality(Indices(m)) = Fragments[m]
  BY IndicesCounted
<1>2. Fragments[m] \in Nat
  BY ReassemblyAssumption
<1>3. IsFiniteSet(have)
  BY <1>1, FS_Subset
<1>4. Cardinality(have) \in Nat
  BY <1>3, FS_CardinalityType
<1>5. Cardinality(more) = IF i \in have THEN Cardinality(have) ELSE Cardinality(have) + 1
  BY <1>3, FS_AddElement
<1>6. more \in SUBSET Indices(m)
  OBVIOUS
<1>7. Cardinality(more) = Cardinality(Indices(m)) => more = Indices(m)
  BY <1>1, <1>6, FS_Subset, Zenon
<1>8. Cardinality(more) <= Fragments[m]
  BY <1>2, <1>4, <1>5
<1> QED
  <2>1. Cardinality(more) \in Nat
    BY <1>4, <1>5
  <2>2. Cardinality(more) < Fragments[m] \/ Cardinality(more) = Fragments[m]
    BY <1>2, <1>8, <2>1
  <2> QED BY <1>1, <1>4, <1>5, <1>6, <1>7, <2>2

-----------------------------------------------------------------------------
(* One fragment.                                                           *)

\* A fragment agrees with its packet, which it completes or not.
LEMMA OneFragment ==
  ASSUME PacketInv, NEW f \in flying
  PROVE  /\ Agrees(f)
         /\ Added(f).parts = Fragments[f.message] /\ Added(f).age = 0
         /\ \/ ~Complete(f) /\ Incomplete(Added(f), f.message)
            \/ Complete(f) /\ Added(f).pieces = [i \in Indices(f.message) |-> f.message]
PROOF
<1> DEFINE m == f.message
<1>1. m \in Messages /\ f.index \in Indices(m)
  BY DEF PacketInv, FragmentsAreCut
<1>2. Incomplete(Entry(f), m)
  <2>1. CASE Key(f) \in DOMAIN pending
    <3>1. Key(f)[2] = f.id
      BY DEF Key
    <3>2. PICK n \in Messages :
            /\ Incomplete(pending[Key(f)], n)
            /\ \A g \in flying : g.id = Key(f)[2] => g.message = n
      BY <2>1 DEF PacketInv, PendingHasOneOrigin
    <3>3. n = m
      BY <3>1, <3>2
    <3> QED BY <2>1, <3>2, <3>3 DEF Entry
  <2>2. CASE Key(f) \notin DOMAIN pending
    <3>1. Entry(f) = Holding(m, {}, 0)
      BY <2>2, FS_EmptySet DEF Entry, Holding
    <3>2. Cardinality({}) < Fragments[m]
      BY <1>1, ReassemblyAssumption, FS_EmptySet
    <3> QED BY <3>1, <3>2 DEF Incomplete
  <2> QED BY <2>1, <2>2
<1>3. PICK have \in SUBSET Indices(m), age \in Nat :
        Entry(f) = Holding(m, have, age) /\ Cardinality(have) < Fragments[m]
  BY <1>2 DEF Incomplete
<1> DEFINE more == have \cup {f.index}
<1>4. Agrees(f)
  BY <1>3 DEF Agrees, Repeated, Holding
<1>5. Added(f) = Holding(m, more, 0)
  <2>1. Cardinality(more) = IF f.index \in have THEN Cardinality(have)
                            ELSE Cardinality(have) + 1
    BY <1>1, <1>3, OneMorePiece
  <2>2. CASE f.index \in have
    <3>1. more = have
      BY <2>2
    <3>2. Repeated(f)
      BY <1>3, <2>2 DEF Repeated, Holding
    <3> QED BY <1>3, <3>1, <3>2 DEF Added, Holding
  <2>3. CASE f.index \notin have
    <3>1. ~Repeated(f)
      BY <1>3, <2>3 DEF Repeated, Holding
    <3>2. Entry(f).pieces = [i \in have |-> m] /\ Entry(f).parts = Fragments[m]
          /\ Entry(f).count = Cardinality(have)
      BY <1>3 DEF Holding
    <3>3. [i \in DOMAIN Entry(f).pieces \cup {f.index} |->
             IF i = f.index THEN m ELSE Entry(f).pieces[i]] = [i \in more |-> m]
      BY <3>2
    <3> QED BY <2>1, <2>3, <3>1, <3>2, <3>3 DEF Added, Holding
  <2> QED BY <2>2, <2>3
<1>6. /\ more \in SUBSET Indices(m)
      /\ \/ Cardinality(more) < Fragments[m]
         \/ Cardinality(more) = Fragments[m] /\ more = Indices(m)
  BY <1>1, <1>3, OneMorePiece
<1>7. Complete(f) <=> Cardinality(more) = Fragments[m]
  BY <1>5 DEF Complete, Holding
<1>8. Added(f).parts = Fragments[m] /\ Added(f).age = 0
  BY <1>5 DEF Holding
<1>9. CASE Cardinality(more) = Fragments[m] /\ more = Indices(m)
  BY <1>4, <1>5, <1>7, <1>8, <1>9 DEF Holding
<1>10. CASE Cardinality(more) < Fragments[m]
  <2>1. Fragments[m] \in Nat
    BY <1>1, ReassemblyAssumption
  <2>2. Cardinality(more) # Fragments[m]
    BY <1>10, <2>1
  <2>3. Incomplete(Added(f), m)
    BY <1>5, <1>6, <1>10 DEF Incomplete
  <2>4. ~Complete(f)
    BY <1>7, <2>2
  <2> QED BY <1>4, <1>8, <2>3, <2>4
<1> QED BY <1>6, <1>9, <1>10

-----------------------------------------------------------------------------
(* The steps.                                                              *)

\* What is forgotten, and fragments that leave the network, take nothing from
\* the invariant.
LEMMA LessIsFine ==
  ASSUME PacketInv, flying' \subseteq flying, UNCHANGED nextPacketId,
         DOMAIN pending' \subseteq DOMAIN pending,
         \A k \in DOMAIN pending' : pending'[k] = pending[k],
         PacketsAreWhole'
  PROVE  PacketInv'
PROOF
<1>1. FragmentsAreCut'
  BY DEF PacketInv, FragmentsAreCut
<1>2. OneMessagePerNumber'
  BY DEF PacketInv, OneMessagePerNumber
<1>3. PendingHasOneOrigin'
  <2> SUFFICES ASSUME NEW k \in DOMAIN pending'
               PROVE  /\ k[2] \in Nat
                      /\ k[2] < nextPacketId'
                      /\ \E m \in Messages :
                           /\ Incomplete(pending'[k], m)
                           /\ \A f \in flying' : f.id = k[2] => f.message = m
    BY DEF PendingHasOneOrigin, Incomplete
  <2> QED BY DEF PacketInv, PendingHasOneOrigin
<1> QED BY <1>1, <1>2, <1>3 DEF PacketInv

\* A step that hands nothing on keeps PacketsAreWhole.
LEMMA NothingHanded == ASSUME handed' = {} PROVE PacketsAreWhole'
PROOF BY DEF PacketsAreWhole

\* A packet is sent: its number is new.
LEMMA SendKeeps ==
  ASSUME PacketInv, NEW m \in Messages, SendPacket(m) PROVE PacketInv'
PROOF
<1>1. PICK n \in 1 .. Fragments[m] : flying' = flying \cup Cut(m, n)
  BY DEF SendPacket
<1>2. nextPacketId \in Nat /\ nextPacketId' = nextPacketId + 1 /\ pending' = pending
  BY DEF PacketInv, SendPacket
<1>3. \A f \in Cut(m, n) : f.id = nextPacketId /\ f.message = m /\ f.index \in Indices(m)
  BY DEF Cut
<1>4. FragmentsAreCut'
  BY <1>1, <1>2, <1>3 DEF PacketInv, FragmentsAreCut
<1>5. \A f \in flying : f.id # nextPacketId
  BY <1>2 DEF PacketInv, FragmentsAreCut
<1>6. OneMessagePerNumber'
  BY <1>1, <1>3, <1>5 DEF PacketInv, OneMessagePerNumber
<1>7. PendingHasOneOrigin'
  <2> SUFFICES ASSUME NEW k \in DOMAIN pending
               PROVE  /\ k[2] \in Nat
                      /\ k[2] < nextPacketId'
                      /\ \E o \in Messages :
                           /\ Incomplete(pending[k], o)
                           /\ \A f \in flying' : f.id = k[2] => f.message = o
    BY <1>2 DEF PendingHasOneOrigin, Incomplete
  <2>1. k[2] \in Nat /\ k[2] < nextPacketId
    BY DEF PacketInv, PendingHasOneOrigin
  <2>2. PICK o \in Messages :
          /\ Incomplete(pending[k], o)
          /\ \A f \in flying : f.id = k[2] => f.message = o
    BY DEF PacketInv, PendingHasOneOrigin
  <2>3. \A f \in Cut(m, n) : f.id # k[2]
    BY <1>2, <1>3, <2>1
  <2> QED BY <1>1, <1>2, <2>1, <2>2, <2>3
<1>8. PacketsAreWhole'
  BY NothingHanded DEF SendPacket
<1> QED BY <1>2, <1>4, <1>6, <1>7, <1>8 DEF PacketInv

\* A fragment arrives: it agrees with the packet it belongs to.
LEMMA ArriveKeeps ==
  ASSUME PacketInv, NEW f \in flying, Arrive(f) PROVE PacketInv'
PROOF
<1>1. flying' \subseteq flying /\ UNCHANGED nextPacketId
  BY DEF Arrive
<1>2. CASE Refuse(f)
  BY <1>1, <1>2, NothingHanded, LessIsFine DEF Refuse
<1>3. CASE Keep(f)
  <2>1. pending' = [k \in DOMAIN pending \cup {Key(f)} |->
                      IF k = Key(f) THEN Added(f) ELSE pending[k]]
    BY <1>3 DEF Keep
  <2>2. Incomplete(Added(f), f.message)
    BY <1>3, OneFragment DEF Keep
  <2>3. f.message \in Messages /\ f.id \in Nat /\ f.id < nextPacketId
    BY DEF PacketInv, FragmentsAreCut
  <2>4. PendingHasOneOrigin'
    <3> SUFFICES ASSUME NEW k \in DOMAIN pending'
                 PROVE  /\ k[2] \in Nat
                        /\ k[2] < nextPacketId'
                        /\ \E m \in Messages :
                             /\ Incomplete(pending'[k], m)
                             /\ \A g \in flying' : g.id = k[2] => g.message = m
      BY DEF PendingHasOneOrigin, Incomplete
    <3>1. CASE k = Key(f)
      <4>1. pending'[k] = Added(f) /\ k[2] = f.id
        BY <2>1, <3>1 DEF Key
      <4>2. \A g \in flying' : g.id = f.id => g.message = f.message
        BY <1>1 DEF PacketInv, OneMessagePerNumber
      <4> QED BY <1>1, <2>2, <2>3, <4>1, <4>2
    <3>2. CASE k # Key(f)
      <4>1. k \in DOMAIN pending /\ pending'[k] = pending[k]
        BY <2>1, <3>2
      <4> QED BY <1>1, <4>1 DEF PacketInv, PendingHasOneOrigin
    <3> QED BY <3>1, <3>2
  <2>5. PacketsAreWhole'
    BY <1>3, NothingHanded DEF Keep
  <2>6. FragmentsAreCut' /\ OneMessagePerNumber'
    BY <1>1 DEF PacketInv, FragmentsAreCut, OneMessagePerNumber
  <2> QED BY <1>1, <2>4, <2>5, <2>6 DEF PacketInv
<1>4. CASE Finish(f)
  <2>1. Added(f).pieces = [i \in Indices(f.message) |-> f.message]
    BY <1>4, OneFragment DEF Finish
  <2>2. f.message \in Messages
    BY DEF PacketInv, FragmentsAreCut
  <2>3. handed' \subseteq {Added(f).pieces}
    BY <1>4 DEF Finish
  <2>4. PacketsAreWhole'
    BY <2>1, <2>2, <2>3 DEF PacketsAreWhole
  <2>5. pending' = [k \in DOMAIN pending \ {Key(f)} |-> pending[k]]
    BY <1>4 DEF Finish, Forget
  <2> QED BY <1>1, <2>4, <2>5, LessIsFine
<1> QED BY <1>2, <1>3, <1>4 DEF Arrive

\* Packets that waited too long go.
LEMMA ExpireKeeps ==
  ASSUME PacketInv, NEW elapsed \in 1 .. PacketTimeout, Expire(elapsed) PROVE PacketInv'
PROOF
<1>1. PICK rest \in SUBSET DOMAIN pending :
        pending' = [k \in rest |-> [pending[k] EXCEPT !.age = @ + elapsed]]
  BY DEF Expire
<1>2. UNCHANGED <<flying, nextPacketId>>
  BY DEF Expire
<1>3. elapsed \in Nat
  BY ReassemblyAssumption
<1>4. PendingHasOneOrigin'
  <2> SUFFICES ASSUME NEW k \in rest
               PROVE  /\ k[2] \in Nat
                      /\ k[2] < nextPacketId
                      /\ \E m \in Messages :
                           /\ Incomplete(pending'[k], m)
                           /\ \A f \in flying : f.id = k[2] => f.message = m
    BY <1>1, <1>2 DEF PendingHasOneOrigin, Incomplete
  <2>1. PICK m \in Messages :
          /\ Incomplete(pending[k], m)
          /\ \A f \in flying : f.id = k[2] => f.message = m
    BY DEF PacketInv, PendingHasOneOrigin
  <2>2. PICK have \in SUBSET Indices(m), age \in Nat :
          pending[k] = Holding(m, have, age) /\ Cardinality(have) < Fragments[m]
    BY <2>1 DEF Incomplete
  <2>3. pending'[k] = Holding(m, have, age + elapsed) /\ age + elapsed \in Nat
    BY <1>1, <1>3, <2>2 DEF Holding
  <2>4. Incomplete(pending'[k], m)
    BY <2>2, <2>3 DEF Incomplete
  <2> QED BY <2>1, <2>4 DEF PacketInv, PendingHasOneOrigin
<1>5. PacketsAreWhole'
  BY NothingHanded DEF Expire
<1> QED BY <1>2, <1>4, <1>5 DEF PacketInv, FragmentsAreCut, OneMessagePerNumber

\* The packets of a client that leaves go with it.
LEMMA DisconnectKeeps ==
  ASSUME PacketInv, NEW s \in Sources, DisconnectEndpoint(s) PROVE PacketInv'
PROOF
<1>1. UNCHANGED <<flying, nextPacketId>>
  BY DEF DisconnectEndpoint
<1>2. PICK gone \in SUBSET DOMAIN pending :
        pending' = [k \in DOMAIN pending \ gone |-> pending[k]]
  BY DEF DisconnectEndpoint, Forget
<1>3. PacketsAreWhole'
  BY NothingHanded DEF DisconnectEndpoint
<1> QED BY <1>1, <1>2, <1>3, LessIsFine

-----------------------------------------------------------------------------
(* What is handed on.                                                      *)

\* The invariant of the packets.
LEMMA PacketInvariant == PacketsSpec => []PacketInv
PROOF
<1>1. PacketsInit => PacketInv
  BY DEF PacketsInit, PacketInv, FragmentsAreCut, OneMessagePerNumber,
         PendingHasOneOrigin, PacketsAreWhole
<1>2. PacketInv /\ [PacketsNext]_packetVars => PacketInv'
  <2> SUFFICES ASSUME PacketInv, [PacketsNext]_packetVars PROVE PacketInv'
    OBVIOUS
  <2>1. ASSUME NEW m \in Messages, SendPacket(m) PROVE PacketInv'
    BY <2>1, SendKeeps
  <2>2. ASSUME NEW f \in flying, Arrive(f) PROVE PacketInv'
    BY <2>2, ArriveKeeps
  <2>3. ASSUME NEW elapsed \in 1 .. PacketTimeout, Expire(elapsed) PROVE PacketInv'
    BY <2>3, ExpireKeeps
  <2>4. ASSUME NEW s \in Sources, DisconnectEndpoint(s) PROVE PacketInv'
    BY <2>4, DisconnectKeeps
  <2>5. CASE UNCHANGED packetVars
    BY <2>5 DEF packetVars, PacketInv, FragmentsAreCut, OneMessagePerNumber,
                PendingHasOneOrigin, PacketsAreWhole, Incomplete
  <2> QED BY <2>1, <2>2, <2>3, <2>4, <2>5 DEF PacketsNext
<1> QED BY <1>1, <1>2, PTL DEF PacketsSpec

\* PacketsAreWhole: what accept_fragment completes is one message, whole, for
\* any number of clients, packets and repeated fragments.
THEOREM WholePackets == PacketsSpec => []PacketsAreWhole
PROOF
<1>1. PacketInv => PacketsAreWhole
  BY DEF PacketInv
<1> QED BY <1>1, PacketInvariant, PTL

-----------------------------------------------------------------------------
(* The budget.                                                             *)

\* The bytes every pending packet accounts for.
Parts == [k \in DOMAIN pending |-> pending[k].parts]

BudgetInv ==
  /\ IsFiniteSet(DOMAIN pending)
  /\ \A k \in DOMAIN pending : pending[k].parts \in Nat /\ pending[k].age < PacketTimeout
  /\ pendingBytes = Sum(DOMAIN pending, Parts)
  /\ pendingBytes <= MaxPendingBytes
  /\ Cardinality(DOMAIN pending) <= MaxPendingPackets

\* Bytes is a sum.
LEMMA BytesIsSum ==
  ASSUME BudgetInv, NEW keys \in SUBSET DOMAIN pending
  PROVE  Bytes(keys) = Sum(keys, Parts)
PROOF
<1> DEFINE Law(g) == g = [s \in SUBSET keys |->
                            IF s = {} THEN 0
                            ELSE pending[CHOOSE x \in s : TRUE].parts
                                 + g[s \ {CHOOSE x \in s : TRUE}]]
<1>1. IsFiniteSet(keys)
  BY FS_Subset DEF BudgetInv
<1>2. \A k \in keys : Parts[k] \in Nat
  BY DEF BudgetInv, Parts
<1>3. \A s \in SUBSET keys : s # {} =>
        Parts[CHOOSE x \in s : TRUE] = pending[CHOOSE x \in s : TRUE].parts
  <2> SUFFICES ASSUME NEW s \in SUBSET keys, s # {}
               PROVE  Parts[CHOOSE x \in s : TRUE] = pending[CHOOSE x \in s : TRUE].parts
    OBVIOUS
  <2>1. (CHOOSE x \in s : TRUE) \in DOMAIN pending
    OBVIOUS
  <2> QED BY <2>1 DEF Parts
<1>4. ASSUME NEW g
      PROVE  Law(g) <=> IsSum(g, keys, Parts)
  <2>1. [s \in SUBSET keys |-> IF s = {} THEN 0
                               ELSE pending[CHOOSE x \in s : TRUE].parts
                                    + g[s \ {CHOOSE x \in s : TRUE}]]
        = [s \in SUBSET keys |-> IF s = {} THEN 0
                                 ELSE Parts[CHOOSE x \in s : TRUE]
                                      + g[s \ {CHOOSE x \in s : TRUE}]]
    BY <1>3
  <2> QED BY <2>1 DEF IsSum
<1> DEFINE it == CHOOSE g : Law(g)
<1>5. Bytes(keys) = it[keys]
  BY Zenon DEF Bytes, MapThenSumSet, MapThenFoldSet
<1>6. \E g : IsSum(g, keys, Parts)
  BY <1>1, <1>2, SumExists
<1> HIDE DEF Law
<1>7. Law(it)
  BY <1>4, <1>6
<1> HIDE DEF it
<1>8. IsSum(it, keys, Parts)
  BY <1>4, <1>7
<1>9. it[keys] = Sum(keys, Parts)
  BY <1>1, <1>2, <1>8, SumIs
<1> QED BY <1>5, <1>9

\* Packets that go give back what they account for.
LEMMA ForgettingKeepsBudget ==
  ASSUME BudgetInv, NEW gone \in SUBSET DOMAIN pending,
         DOMAIN pending' = DOMAIN pending \ gone,
         \A k \in DOMAIN pending' : /\ pending'[k].parts = pending[k].parts
                                    /\ pending'[k].age < PacketTimeout,
         pendingBytes' = pendingBytes - Bytes(gone)
  PROVE  BudgetInv'
PROOF
<1> DEFINE rest == DOMAIN pending \ gone
<1>1. IsFiniteSet(DOMAIN pending) /\ (\A k \in DOMAIN pending : Parts[k] \in Nat)
  BY DEF BudgetInv, Parts
<1>2. IsFiniteSet(rest) /\ IsFiniteSet(gone)
  BY <1>1, FS_Subset
<1>3. Sum(DOMAIN pending, Parts) = Sum(gone, Parts) + Sum(rest, Parts)
  BY <1>1, SumSplits
<1>4. (\A k \in rest : Parts[k] \in Nat) /\ (\A k \in gone : Parts[k] \in Nat)
  BY <1>1
<1>5. Sum(rest, Parts) \in Nat /\ Sum(gone, Parts) \in Nat
  BY <1>2, <1>4, SumLaws
<1>6. \A k \in rest : Parts'[k] = Parts[k]
  BY DEF Parts
<1>7. Sum(rest, Parts') = Sum(rest, Parts)
  BY <1>2, <1>4, <1>6, SumLaws
<1>8. pendingBytes' = Sum(DOMAIN pending, Parts) - Sum(gone, Parts)
  BY BytesIsSum DEF BudgetInv
<1>9. pendingBytes' = Sum(DOMAIN pending', Parts')
  BY <1>3, <1>5, <1>7, <1>8
<1>10. pendingBytes' <= MaxPendingBytes
  <2>1. pendingBytes = Sum(gone, Parts) + Sum(rest, Parts) /\ pendingBytes <= MaxPendingBytes
    BY <1>3 DEF BudgetInv
  <2>2. pendingBytes' = Sum(rest, Parts)
    BY <1>7, <1>9
  <2> QED BY <1>5, <2>1, <2>2, ReassemblyAssumption
<1>11. Cardinality(rest) <= MaxPendingPackets
  <2>1. Cardinality(rest) <= Cardinality(DOMAIN pending)
    BY <1>1, FS_Subset
  <2>2. Cardinality(rest) \in Nat /\ Cardinality(DOMAIN pending) \in Nat
    BY <1>1, <1>2, FS_CardinalityType
  <2> QED BY <2>1, <2>2, ReassemblyAssumption DEF BudgetInv
<1>12. \A k \in DOMAIN pending' : pending'[k].parts \in Nat
  BY DEF BudgetInv
<1> QED BY <1>2, <1>9, <1>10, <1>11, <1>12 DEF BudgetInv

\* The budget stands while what is pending does.
LEMMA SameBudget ==
  ASSUME BudgetInv, UNCHANGED <<pending, pendingBytes>> PROVE BudgetInv'
PROOF BY DEF BudgetInv, Parts

\* A fragment that is kept may open a packet, which is accounted for.
LEMMA KeepKeepsBudget ==
  ASSUME PacketInv, BudgetInv, NEW f \in flying, Keep(f) PROVE BudgetInv'
PROOF
<1>1. pending' = [k \in DOMAIN pending \cup {Key(f)} |->
                    IF k = Key(f) THEN Added(f) ELSE pending[k]]
  BY DEF Keep
<1>2. f.message \in Messages
  BY DEF PacketInv, FragmentsAreCut
<1>3. Fragments[f.message] \in Nat
  BY <1>2, ReassemblyAssumption
<1>4. Added(f).age = 0 /\ 0 < PacketTimeout
  <2>1. 0 < PacketTimeout
    BY ReassemblyAssumption
  <2> QED BY <2>1, OneFragment
<1>5. Added(f).parts = Fragments[f.message] /\ Entry(f).parts = Fragments[f.message]
  BY OneFragment DEF Agrees
<1>6. IsFiniteSet(DOMAIN pending) /\ (\A k \in DOMAIN pending : Parts[k] \in Nat)
  BY DEF BudgetInv, Parts
<1>7. CASE Key(f) \in DOMAIN pending
  <2>1. DOMAIN pending' = DOMAIN pending /\ pendingBytes' = pendingBytes
    BY <1>1, <1>7 DEF Keep
  <2>2. \A k \in DOMAIN pending : /\ pending'[k].parts = pending[k].parts
                                  /\ pending'[k].age < PacketTimeout
    BY <1>1, <1>4, <1>5, <1>7 DEF Entry, BudgetInv
  <2>3. Parts' = Parts
    BY <2>1, <2>2 DEF Parts
  <2> QED BY <2>1, <2>2, <2>3 DEF BudgetInv
<1>8. CASE Key(f) \notin DOMAIN pending
  <2> DEFINE more == DOMAIN pending \cup {Key(f)}
  <2>1. DOMAIN pending' = more /\ pendingBytes' = pendingBytes + Fragments[f.message]
    BY <1>1, <1>8 DEF Keep
  <2>2. Parts'[Key(f)] = Fragments[f.message]
    BY <1>1, <1>5, <1>8 DEF Parts, Entry
  <2>3. \A k \in DOMAIN pending : Parts'[k] = Parts[k]
    BY <1>1, <1>8 DEF Parts
  <2>4. \A k \in more : Parts'[k] \in Nat
    BY <1>3, <1>6, <2>2, <2>3
  <2>5. IsFiniteSet(more) /\ Cardinality(more) = Cardinality(DOMAIN pending) + 1
    BY <1>6, <1>8, FS_AddElement
  <2>6. Sum(more, Parts') = Parts'[Key(f)] + Sum(more \ {Key(f)}, Parts')
    BY <2>4, <2>5, SumLaws
  <2>7. more \ {Key(f)} = DOMAIN pending
    BY <1>8
  <2>8. Sum(DOMAIN pending, Parts') = Sum(DOMAIN pending, Parts)
    BY <1>6, <2>3, SumLaws
  <2>9. Sum(DOMAIN pending, Parts) \in Nat
    BY <1>6, SumLaws
  <2>10. pendingBytes' = Sum(DOMAIN pending', Parts')
    <3>1. pendingBytes = Sum(DOMAIN pending, Parts)
      BY DEF BudgetInv
    <3> QED BY <1>3, <2>1, <2>2, <2>6, <2>7, <2>8, <2>9, <3>1
  <2>11. /\ Cardinality(DOMAIN pending) < MaxPendingPackets
         /\ pendingBytes + Fragments[f.message] <= MaxPendingBytes
    BY <1>8 DEF Keep, HasRoom
  <2>12. Cardinality(DOMAIN pending) \in Nat
    BY <1>6, FS_CardinalityType
  <2>13. Cardinality(DOMAIN pending') <= MaxPendingPackets
    BY <2>1, <2>5, <2>11, <2>12, ReassemblyAssumption
  <2>14. \A k \in DOMAIN pending' : pending'[k].parts \in Nat
                                    /\ pending'[k].age < PacketTimeout
    <3> SUFFICES ASSUME NEW k \in DOMAIN pending'
                 PROVE  pending'[k].parts \in Nat /\ pending'[k].age < PacketTimeout
      OBVIOUS
    <3>1. CASE k = Key(f)
      BY <1>1, <1>3, <1>4, <1>5, <1>8, <3>1 DEF Entry
    <3>2. CASE k # Key(f)
      BY <1>1, <3>2 DEF BudgetInv
    <3> QED BY <3>1, <3>2
  <2> QED BY <2>1, <2>5, <2>10, <2>11, <2>13, <2>14 DEF BudgetInv
<1> QED BY <1>7, <1>8

\* Packets that are forgotten are no longer accounted for.
LEMMA ForgetKeepsBudget ==
  ASSUME BudgetInv, NEW keys, Forget(keys) PROVE BudgetInv'
PROOF
<1> DEFINE gone == DOMAIN pending \cap keys
<1>1. DOMAIN pending' = DOMAIN pending \ gone
      /\ pendingBytes' = pendingBytes - Bytes(gone)
  BY DEF Forget
<1>2. \A k \in DOMAIN pending' : /\ pending'[k].parts = pending[k].parts
                                 /\ pending'[k].age < PacketTimeout
  BY DEF Forget, BudgetInv
<1> HIDE DEF gone
<1>3. gone \in SUBSET DOMAIN pending
  BY DEF gone
<1> QED BY <1>1, <1>2, <1>3, ForgettingKeepsBudget

\* So it is with packets that waited too long.
LEMMA ExpireKeepsBudget ==
  ASSUME PacketInv, BudgetInv, NEW elapsed \in 1 .. PacketTimeout, Expire(elapsed)
  PROVE  BudgetInv'
PROOF
<1> DEFINE late == {k \in DOMAIN pending : pending[k].age + elapsed >= PacketTimeout}
           rest == DOMAIN pending \ late
<1>1. pending' = [k \in rest |-> [pending[k] EXCEPT !.age = @ + elapsed]]
      /\ pendingBytes' = pendingBytes - Bytes(late)
  BY DEF Expire
<1>2. ASSUME NEW k \in rest
      PROVE  pending'[k].parts = pending[k].parts /\ pending'[k].age < PacketTimeout
  <2>1. PICK m \in Messages : \E have \in SUBSET Indices(m), a \in Nat :
          pending[k] = Holding(m, have, a)
    BY DEF PacketInv, PendingHasOneOrigin, Incomplete
  <2> PICK have \in SUBSET Indices(m), age \in Nat : pending[k] = Holding(m, have, age)
    BY <2>1
  <2>2. pending'[k].age = age + elapsed /\ pending[k].age = age
        /\ pending'[k].parts = pending[k].parts
    BY <1>1 DEF Holding
  <2>3. ~(age + elapsed >= PacketTimeout)
    BY <2>2
  <2> QED BY <2>2, <2>3, ReassemblyAssumption
<1> HIDE DEF late
<1>3. late \in SUBSET DOMAIN pending
  BY DEF late
<1>4. DOMAIN pending' = DOMAIN pending \ late
  BY <1>1
<1> QED BY <1>1, <1>2, <1>3, <1>4, ForgettingKeepsBudget

\* BudgetIsExact: the packets that wait for fragments account for the bytes
\* counted, within the limits and the timeout, for any clients and messages.
THEOREM ExactBudget == PacketsSpec => []BudgetIsExact
PROOF
<1>1. PacketsInit => BudgetInv
  <2> SUFFICES ASSUME PacketsInit PROVE BudgetInv
    OBVIOUS
  <2>1. DOMAIN pending = {} /\ pendingBytes = 0
    BY DEF PacketsInit
  <2>2. IsFiniteSet({}) /\ Cardinality({}) = 0
    BY FS_EmptySet
  <2>3. Sum({}, Parts) = 0
    BY <2>2, SumLaws
  <2> QED BY <2>1, <2>2, <2>3, ReassemblyAssumption DEF BudgetInv
<1>2. PacketInv /\ BudgetInv /\ [PacketsNext]_packetVars => BudgetInv'
  <2> SUFFICES ASSUME PacketInv, BudgetInv, [PacketsNext]_packetVars PROVE BudgetInv'
    OBVIOUS
  <2>1. ASSUME NEW m \in Messages, SendPacket(m) PROVE BudgetInv'
    BY <2>1, SameBudget DEF SendPacket
  <2>2. ASSUME NEW f \in flying, Arrive(f) PROVE BudgetInv'
    <3>1. CASE Refuse(f)
      BY <3>1, SameBudget DEF Refuse
    <3>2. CASE Keep(f)
      BY <3>2, KeepKeepsBudget
    <3>3. CASE Finish(f)
      BY <3>3, ForgetKeepsBudget DEF Finish
    <3> QED BY <2>2, <3>1, <3>2, <3>3 DEF Arrive
  <2>3. ASSUME NEW elapsed \in 1 .. PacketTimeout, Expire(elapsed) PROVE BudgetInv'
    BY <2>3, ExpireKeepsBudget
  <2>4. ASSUME NEW s \in Sources, DisconnectEndpoint(s) PROVE BudgetInv'
    BY <2>4, ForgetKeepsBudget DEF DisconnectEndpoint
  <2>5. CASE UNCHANGED packetVars
    BY <2>5, SameBudget DEF packetVars
  <2> QED BY <2>1, <2>2, <2>3, <2>4, <2>5 DEF PacketsNext
<1>3. BudgetInv => BudgetIsExact
  BY BytesIsSum DEF BudgetInv, BudgetIsExact
<1> QED BY <1>1, <1>2, <1>3, PacketInvariant, PTL DEF PacketsSpec

-----------------------------------------------------------------------------
(* The invariant of the players.                                              *)

Notices == [kind : {"removal", "snapshot"}, net : Nat, tick : Nat]

\* What is on its way to the client: in the transport, in the host's queue and
\* among the removals that wait for a tick.
Pending == outbound \o Removals
Stream == inbox \o Pending

Silent(s, n) == \A i \in DOMAIN s : s[i].net # n
LastAt(s, i) == \A j \in DOMAIN s : j > i => s[j].net # s[i].net

Moving(n) == \E c \in DOMAIN player : player[c].net = n /\ player[c].tick > 0
HoldsLocal(n) == Local \in DOMAIN player /\ player[Local].net = n

\* What the client has to be told last about a player.
Expected(n) ==
  IF Moving(n) THEN Snapshot(n, tick)
  ELSE IF HoldsLocal(n) THEN Snapshot(n, 0)
  ELSE Removal(n)

ServerInv ==
  /\ nextConnection \in Nat \ {0}
  /\ tick \in Nat
  /\ player \in [DOMAIN player -> [net : Nat, tick : {0, tick}]]
  /\ DOMAIN player \subseteq 1 .. nextConnection - 1
  /\ nextConnection > Local => Local \in DOMAIN player
  /\ \A c, d \in DOMAIN player : player[c].net = player[d].net => c = d
  /\ players = {player[c].net : c \in DOMAIN player}
  /\ players \subseteq records
  /\ \E k \in Nat : records = 1 .. k
  /\ removals \in Seq(Nat)
  /\ outbound \in Seq(Notices)
  /\ inbox \in Seq(Notices)

\* Nothing happens before the session's client is there.
QuietInv ==
  nextConnection = Local =>
    /\ tick = 0
    /\ removals = <<>> /\ outbound = <<>> /\ inbox = <<>>
    /\ DOMAIN snapshots = {} /\ overtaken = {}

SnapshotsInv ==
  /\ snapshots \in [DOMAIN snapshots -> 0 .. tick]
  /\ DOMAIN snapshots \subseteq Nat
  /\ IsFiniteSet(DOMAIN snapshots)
  /\ overtaken \subseteq Nat

IsSnapshot(m) == m.kind = "snapshot"

\* The stream brings the client's record to the server's.
StreamInv ==
  /\ \A n \in Nat :
        Silent(Stream, n) =>
          /\ n \in DOMAIN snapshots <=> Moving(n) \/ HoldsLocal(n) \/ n \in overtaken
          /\ Moving(n) => snapshots[n] = tick
  /\ \A i \in DOMAIN Stream, n \in Nat :
        Stream[i].net = n /\ LastAt(Stream, i) => Stream[i] = Expected(n)

\* Ticks never go back along the stream.
TicksInv ==
  /\ \A i \in DOMAIN Stream :
        IsSnapshot(Stream[i]) =>
          /\ Stream[i].tick <= tick
          /\ Stream[i].net \in DOMAIN snapshots => snapshots[Stream[i].net] <= Stream[i].tick
  /\ \A i, j \in DOMAIN Stream :
        i < j /\ IsSnapshot(Stream[i]) /\ IsSnapshot(Stream[j]) => Stream[i].tick <= Stream[j].tick

Slots == [occupied : BOOLEAN, generation : Nat]

\* Objects, slots and the free list of a presentation fit each other.
ProxiesOK(p) ==
  /\ p.slots \in Seq(Slots)
  /\ p.free \in Seq(Nat)
  /\ DOMAIN p.objects \subseteq Nat
  /\ p.objects \in [DOMAIN p.objects -> [id : Nat \X Nat, revision : Nat]]
  /\ \A n \in DOMAIN p.objects :
        LET id == p.objects[n].id
        IN  /\ id[1] \in DOMAIN p.slots
            /\ p.slots[id[1]] = [occupied |-> TRUE, generation |-> id[2]]
  /\ \A n, k \in DOMAIN p.objects : p.objects[n].id[1] = p.objects[k].id[1] => n = k
  /\ \A i \in DOMAIN p.free : /\ p.free[i] \in DOMAIN p.slots
                              /\ ~p.slots[p.free[i]].occupied
  /\ \A i, j \in DOMAIN p.free : p.free[i] = p.free[j] => i = j

\* The ids of a set are of earlier generations of their slots.
AllGone(ids, p) ==
  \A id \in ids : id[1] \in DOMAIN p.slots /\ id[2] < p.slots[id[1]].generation

ClientInv ==
  /\ ~sessionFaulted
  /\ ~pumpDue => inbox = <<>>
  /\ retained = DOMAIN snapshots
  /\ DOMAIN objects = DOMAIN snapshots
  /\ \A n \in DOMAIN objects : objects[n].revision = snapshots[n] + 1
  /\ ProxiesOK(Proxies)
  /\ retired \subseteq Nat \X Nat
  /\ AllGone(retired, Proxies)

PlayersInv ==
  ServerInv /\ QuietInv /\ SnapshotsInv /\ StreamInv /\ TicksInv /\ ClientInv

-----------------------------------------------------------------------------
(* Sequences of distinct numbers.                                             *)

IsAscending(s, S) ==
  /\ s \in [1 .. Cardinality(S) -> S]
  /\ \A i, j \in DOMAIN s : i < j => s[i] < s[j]

\* A finite set of numbers can be put in order.
LEMMA AscendingExists ==
  ASSUME NEW S, S \subseteq Nat, IsFiniteSet(S)
  PROVE  \E s : IsAscending(s, S)
<1> DEFINE G == {T \in SUBSET S : \E s : IsAscending(s, T)}
<1>1. ASSUME NEW T \in SUBSET S, \A x \in T : T \ {x} \in G
      PROVE  \E s : IsAscending(s, T)
  <2>0. IsFiniteSet(T) /\ Cardinality(T) \in Nat
    BY FS_Subset, FS_CardinalityType
  <2>1. CASE T = {}
    <3>1. Cardinality(T) = 0
      BY <2>1, FS_EmptySet
    <3>2. 1 .. Cardinality(T) = {}
      BY <3>1
    <3>3. IsAscending([i \in 1 .. Cardinality(T) |-> i], T)
      BY <3>2 DEF IsAscending
    <3> QED
      BY <3>3
  <2>2. CASE T # {}
    <3>1. PICK x \in T : \A m \in T : m <= x
      <4>1. T \subseteq Nat
        OBVIOUS
      <4> QED
        BY <2>0, <2>2, <4>1, GreatestNumber
    <3> DEFINE rest == T \ {x}
               n == Cardinality(rest)
    <3>2. PICK r : IsAscending(r, rest)
      BY <1>1, <3>1
    <3>3. n \in Nat /\ Cardinality(T) = n + 1
      <4>1. IsFiniteSet(rest) /\ n = Cardinality(T) - 1
        BY <2>0, <3>1, FS_RemoveElement
      <4>2. n \in Nat
        BY <4>1, FS_CardinalityType
      <4> QED
        BY <2>0, <4>1, <4>2
    <3> DEFINE s == [i \in 1 .. n + 1 |-> IF i <= n THEN r[i] ELSE x]
    <3>4. r \in [1 .. n -> rest] /\ \A i, j \in 1 .. n : i < j => r[i] < r[j]
      BY <3>2 DEF IsAscending
    <3>5. rest \subseteq Nat /\ \A m \in rest : m < x
      <4>1. x \in Nat /\ \A m \in rest : m \in Nat /\ m <= x /\ m # x
        BY <3>1
      <4> QED
        BY <4>1
    <3>6. rest \subseteq T
      OBVIOUS
    <3> HIDE DEF n, rest
    <3>7. \A i \in 1 .. n + 1 : /\ i \in 1 .. n => s[i] = r[i] /\ r[i] \in rest
                                /\ i \notin 1 .. n => i = n + 1 /\ s[i] = x
      BY <3>3, <3>4
    <3>8. s \in [1 .. n + 1 -> T]
      <4>1. \A i \in 1 .. n + 1 : s[i] \in T
        BY <3>1, <3>6, <3>7
      <4> QED
        BY <4>1
    <3> HIDE DEF s
    <3>9. \A i, j \in 1 .. n + 1 : i < j => s[i] < s[j]
      <4> SUFFICES ASSUME NEW i \in 1 .. n + 1, NEW j \in 1 .. n + 1, i < j
                   PROVE  s[i] < s[j]
        OBVIOUS
      <4>1. i \in 1 .. n
        BY <3>3
      <4>2. CASE j \in 1 .. n
        BY <3>4, <3>7, <4>1, <4>2
      <4>3. CASE j \notin 1 .. n
        BY <3>5, <3>7, <4>1, <4>3
      <4> QED
        BY <4>2, <4>3
    <3>10. IsAscending(s, T)
      BY <3>3, <3>8, <3>9 DEF IsAscending
    <3> QED
      BY <3>10
  <2> QED
    BY <2>1, <2>2
<1>2. Inductive(S, G)
  BY <1>1 DEF Inductive
<1> HIDE DEF G
<1>3. S \in G
  BY <1>2, SubsetInduction
<1> QED
  BY <1>3 DEF G

\* An enumeration of a finite set has each of its elements once.
LEMMA Enumerated ==
  ASSUME NEW S, IsFiniteSet(S), NEW s \in SetToSeqs(S)
  PROVE  /\ Cardinality(S) \in Nat
         /\ s \in [1 .. Cardinality(S) -> S]
         /\ \A i, j \in DOMAIN s : s[i] = s[j] => i = j
         /\ ToSet(s) = S
<1>1. Cardinality(S) \in Nat
  BY FS_CardinalityType
<1>2. s \in [1 .. Cardinality(S) -> S] /\ \A i, j \in 1 .. Cardinality(S) : s[i] = s[j] => i = j
  BY DEF SetToSeqs
<1>3. s \in Injection(1 .. Cardinality(S), S)
  BY <1>2 DEF Injection, IsInjective
<1>4. Cardinality(1 .. Cardinality(S)) = Cardinality(S)
  BY <1>1, FS_Interval
<1>5. s \in Surjection(1 .. Cardinality(S), S)
  BY <1>3, <1>4, FS_Injection
<1>6. ToSet(s) = S
  BY <1>2, <1>5 DEF Surjection, ToSet
<1> QED
  BY <1>1, <1>2, <1>6

\* Ascending puts a set of numbers in order.
LEMMA AscendingEnumerates ==
  ASSUME NEW S, S \subseteq Nat, IsFiniteSet(S)
  PROVE  Ascending(S) \in SetToSeqs(S)
<1>1. PICK s : IsAscending(s, S)
  BY AscendingExists
<1>2. Cardinality(S) \in Nat
  BY FS_CardinalityType
<1>3. \A i, j \in 1 .. Cardinality(S) : i # j => s[i] # s[j]
  <2> SUFFICES ASSUME NEW i \in 1 .. Cardinality(S), NEW j \in 1 .. Cardinality(S), i # j
               PROVE  s[i] # s[j]
    OBVIOUS
  <2>1. s[i] \in Nat /\ s[j] \in Nat
    BY <1>1 DEF IsAscending
  <2>2. i < j \/ j < i
    BY <1>2
  <2> QED
    BY <1>1, <2>1, <2>2 DEF IsAscending
<1>4. s \in SetToSeqs(S)
  BY <1>1, <1>3 DEF IsAscending, SetToSeqs
<1>5. \E t \in SetToSeqs(S) : \A i, j \in DOMAIN t : i < j => t[i] < t[j]
  BY <1>1, <1>4 DEF IsAscending
<1> QED
  BY <1>5 DEF Ascending
-----------------------------------------------------------------------------
(* Objects and slots.                                                         *)

Objects == [id : Nat \X Nat, revision : Nat]

ProxySets ==
  {p \in [objects : UNION {[D -> Objects] : D \in SUBSET Nat},
          slots : Seq(Slots), free : Seq(Nat)] :
     ProxiesOK(p)}

\* What upsert_object makes of p: the object of n has a revision, the others are
\* as they were, and no id given back is in use again.
Upserts(p, q, n, revision) ==
  /\ DOMAIN q.objects = DOMAIN p.objects \cup {n}
  /\ q.objects[n].revision = revision
  /\ \A k \in DOMAIN p.objects \ {n} : q.objects[k] = p.objects[k]
  /\ \A ids \in SUBSET (Nat \X Nat) : AllGone(ids, p) => AllGone(ids, q)

\* Objects, slots and free list of a presentation, as one record.
LEMMA ProxiesAre ==
  ASSUME NEW p
  PROVE  p \in ProxySets <=>
           /\ p = [objects |-> p.objects, slots |-> p.slots, free |-> p.free]
           /\ ProxiesOK(p)
<1>1. ASSUME p = [objects |-> p.objects, slots |-> p.slots, free |-> p.free], ProxiesOK(p)
      PROVE  p \in ProxySets
  <2>1. /\ DOMAIN p.objects \in SUBSET Nat /\ p.objects \in [DOMAIN p.objects -> Objects]
        /\ p.slots \in Seq(Slots) /\ p.free \in Seq(Nat)
    BY <1>1 DEF ProxiesOK, Objects
  <2>2. p.objects \in UNION {[D -> Objects] : D \in SUBSET Nat}
    BY <2>1
  <2> QED
    BY <1>1, <2>1, <2>2 DEF ProxySets
<1> QED
  BY <1>1 DEF ProxySets

\* An object that is there keeps its id and its slot.
LEMMA UpsertOld ==
  ASSUME NEW p, ProxiesOK(p), NEW n \in DOMAIN p.objects, NEW revision \in Nat
  PROVE  /\ Upsert(p, n, revision) \in ProxySets
         /\ Upserts(p, Upsert(p, n, revision), n, revision)
<1> DEFINE old == p.objects
           object == [id |-> old[n].id, revision |-> revision]
           new == [old EXCEPT ![n] = object]
           q == [objects |-> new, slots |-> p.slots, free |-> p.free]
<1>1. Upsert(p, n, revision) = q
  BY DEF Upsert
<1>2. old \in [DOMAIN old -> Objects] /\ DOMAIN old \subseteq Nat
  BY DEF ProxiesOK, Objects
<1>3. object \in Objects
  BY <1>2 DEF Objects
<1>4. /\ new \in [DOMAIN old -> Objects] /\ DOMAIN new = DOMAIN old
      /\ \A k \in DOMAIN old : new[k].id = old[k].id
      /\ new[n].revision = revision
      /\ \A k \in DOMAIN old \ {n} : new[k] = old[k]
  <2> HIDE DEF old
  <2>1. new \in [DOMAIN old -> Objects] /\ DOMAIN new = DOMAIN old
    BY <1>2, <1>3 DEF old
  <2>2. new[n] = object /\ \A k \in DOMAIN old \ {n} : new[k] = old[k]
    BY <1>2 DEF old
  <2> QED
    BY <2>1, <2>2
<1> HIDE DEF new
<1>5. ProxiesOK(q)
  <2>1. q.objects = new /\ q.slots = p.slots /\ q.free = p.free
    OBVIOUS
  <2> HIDE DEF q
  <2>2. \A k \in DOMAIN new :
          /\ new[k].id[1] \in DOMAIN p.slots
          /\ p.slots[new[k].id[1]] = [occupied |-> TRUE, generation |-> new[k].id[2]]
    BY <1>4 DEF ProxiesOK
  <2>3. \A k, l \in DOMAIN new : new[k].id[1] = new[l].id[1] => k = l
    BY <1>4 DEF ProxiesOK
  <2>4. new \in [DOMAIN new -> Objects] /\ DOMAIN new \subseteq Nat
    BY <1>2, <1>4
  <2> QED
    BY <2>1, <2>2, <2>3, <2>4 DEF ProxiesOK, Objects
<1>6. Upserts(p, q, n, revision)
  BY <1>4 DEF Upserts, AllGone
<1>7. q \in ProxySets
  BY <1>5, ProxiesAre
<1> QED
  BY <1>1, <1>6, <1>7

\* A new object takes the slot given back last, at its next generation.
LEMMA UpsertReused ==
  ASSUME NEW p, ProxiesOK(p), NEW n \in Nat, n \notin DOMAIN p.objects, NEW revision \in Nat,
         p.free # <<>>
  PROVE  /\ Upsert(p, n, revision) \in ProxySets
         /\ Upserts(p, Upsert(p, n, revision), n, revision)
<1> DEFINE old == p.objects
           m == Len(p.free)
           index == p.free[m]
           generation == p.slots[index].generation
           slot == [occupied |-> TRUE, generation |-> generation]
           object == [id |-> <<index, generation>>, revision |-> revision]
           new == [k \in DOMAIN old \cup {n} |-> IF k = n THEN object ELSE old[k]]
           table == [p.slots EXCEPT ![index] = slot]
           free == Front(p.free)
           q == [objects |-> new, slots |-> table, free |-> free]
<1>1. Upsert(p, n, revision) = q
  BY DEF Upsert, UpsertNew, Last
<1>2. /\ old \in [DOMAIN old -> Objects] /\ DOMAIN old \subseteq Nat
      /\ p.slots \in Seq(Slots) /\ p.free \in Seq(Nat)
      /\ \A k \in DOMAIN old :
           old[k].id[1] \in DOMAIN p.slots
           /\ p.slots[old[k].id[1]] = [occupied |-> TRUE, generation |-> old[k].id[2]]
      /\ \A k, l \in DOMAIN old : old[k].id[1] = old[l].id[1] => k = l
      /\ \A i \in DOMAIN p.free : p.free[i] \in DOMAIN p.slots /\ ~p.slots[p.free[i]].occupied
      /\ \A i, j \in DOMAIN p.free : p.free[i] = p.free[j] => i = j
  BY DEF ProxiesOK, Objects
<1>3. m \in Nat \ {0} /\ m \in DOMAIN p.free /\ DOMAIN p.free = 1 .. m
  BY <1>2
<1>4. index \in DOMAIN p.slots /\ index \in Nat /\ ~p.slots[index].occupied
  BY <1>2, <1>3
<1>5. slot \in Slots /\ generation \in Nat
  <2>1. p.slots[index] \in Slots
    BY <1>2, <1>4
  <2> QED
    BY <2>1 DEF Slots
<1>6. object \in Objects
  BY <1>4, <1>5 DEF Objects
<1>7. /\ table \in Seq(Slots) /\ DOMAIN table = DOMAIN p.slots
      /\ table[index] = slot
      /\ \A i \in DOMAIN p.slots : i # index => table[i] = p.slots[i]
  BY <1>2, <1>4, <1>5
<1>8. /\ free \in Seq(Nat) /\ DOMAIN free = 1 .. m - 1
      /\ \A i \in 1 .. m - 1 : free[i] = p.free[i]
  BY <1>2, <1>3 DEF Front
<1>9. /\ DOMAIN new = DOMAIN old \cup {n} /\ new[n] = object
      /\ \A k \in DOMAIN old : new[k] = old[k] /\ k # n
      /\ new \in [DOMAIN new -> Objects] /\ DOMAIN new \subseteq Nat
  <2>1. DOMAIN new = DOMAIN old \cup {n} /\ new[n] = object
    OBVIOUS
  <2>2. \A k \in DOMAIN old : new[k] = old[k] /\ k # n
    OBVIOUS
  <2>3. \A k \in DOMAIN new : new[k] \in Objects
    <3> HIDE DEF object
    <3> QED
      BY <1>2, <1>6
  <2> HIDE DEF object
  <2> QED
    BY <1>2, <2>1, <2>2, <2>3
<1>10. /\ object.id = <<index, generation>> /\ object.revision = revision
       /\ object.id[1] = index /\ object.id[2] = generation
       /\ slot.occupied = TRUE /\ slot.generation = generation
  OBVIOUS
<1>11. q.objects = new /\ q.slots = table /\ q.free = free
  OBVIOUS
<1> HIDE DEF table, free, new, q, index
<1>12. \A k \in DOMAIN old : old[k].id[1] # index
  <2> SUFFICES ASSUME NEW k \in DOMAIN old, old[k].id[1] = index PROVE FALSE
    OBVIOUS
  <2>1. p.slots[index] = [occupied |-> TRUE, generation |-> old[k].id[2]]
    BY <1>2
  <2>2. p.slots[index].occupied
    BY <2>1
  <2> QED
    BY <1>4, <2>2
<1> HIDE DEF object
<1>13. ProxiesOK(q)
  <2>1. \A k \in DOMAIN new :
          new[k].id[1] \in DOMAIN table
          /\ table[new[k].id[1]] = [occupied |-> TRUE, generation |-> new[k].id[2]]
    <3> SUFFICES ASSUME NEW k \in DOMAIN new
                 PROVE  new[k].id[1] \in DOMAIN table
                        /\ table[new[k].id[1]] = [occupied |-> TRUE, generation |-> new[k].id[2]]
      OBVIOUS
    <3>1. CASE k = n
      BY <1>4, <1>7, <1>9, <1>10, <3>1
    <3>2. CASE k # n
      <4>1. k \in DOMAIN old /\ new[k] = old[k]
        BY <1>9, <3>2
      <4>2. /\ old[k].id[1] \in DOMAIN p.slots /\ old[k].id[1] # index
            /\ p.slots[old[k].id[1]] = [occupied |-> TRUE, generation |-> old[k].id[2]]
        BY <1>2, <1>12, <4>1
      <4> QED
        BY <1>7, <4>1, <4>2
    <3> QED
      BY <3>1, <3>2
  <2>2. \A k, l \in DOMAIN new : new[k].id[1] = new[l].id[1] => k = l
    BY <1>2, <1>9, <1>10, <1>12
  <2>3. \A i \in DOMAIN free : /\ free[i] \in DOMAIN table
                               /\ ~table[free[i]].occupied
    <3> SUFFICES ASSUME NEW i \in 1 .. m - 1
                 PROVE  free[i] \in DOMAIN table /\ ~table[free[i]].occupied
      BY <1>8
    <3>1. i \in DOMAIN p.free /\ i # m /\ free[i] = p.free[i]
      BY <1>3, <1>8
    <3>2. p.free[i] # index
      BY <1>2, <1>3, <3>1 DEF index
    <3> QED
      BY <1>2, <1>7, <3>1, <3>2
  <2>4. \A i, j \in DOMAIN free : free[i] = free[j] => i = j
    <3>1. \A i \in DOMAIN free : i \in DOMAIN p.free /\ free[i] = p.free[i]
      BY <1>3, <1>8
    <3> QED
      BY <1>2, <3>1
  <2> QED
    BY <1>7, <1>8, <1>9, <1>11, <2>1, <2>2, <2>3, <2>4 DEF ProxiesOK, Objects
<1>14. Upserts(p, q, n, revision)
  <2>1. ASSUME NEW ids \in SUBSET (Nat \X Nat), AllGone(ids, p)
        PROVE  AllGone(ids, q)
    <3> SUFFICES ASSUME NEW id \in ids
                 PROVE  id[1] \in DOMAIN table /\ id[2] < table[id[1]].generation
      BY <1>11 DEF AllGone
    <3>1. id[1] \in DOMAIN p.slots /\ id[2] < p.slots[id[1]].generation
      BY <2>1 DEF AllGone
    <3> QED
      BY <1>7, <1>10, <3>1
  <2> QED
    BY <1>9, <1>10, <1>11, <2>1 DEF Upserts
<1>15. q \in ProxySets
  BY <1>13, ProxiesAre DEF q
<1> QED
  BY <1>1, <1>14, <1>15

\* A new object takes a new slot when none was given back.
LEMMA UpsertAppended ==
  ASSUME NEW p, ProxiesOK(p), NEW n \in Nat, n \notin DOMAIN p.objects, NEW revision \in Nat,
         p.free = <<>>
  PROVE  /\ Upsert(p, n, revision) \in ProxySets
         /\ Upserts(p, Upsert(p, n, revision), n, revision)
<1> DEFINE old == p.objects
           index == Len(p.slots) + 1
           slot == [occupied |-> TRUE, generation |-> 1]
           object == [id |-> <<index, 1>>, revision |-> revision]
           new == [k \in DOMAIN old \cup {n} |-> IF k = n THEN object ELSE old[k]]
           table == Append(p.slots, slot)
           q == [objects |-> new, slots |-> table, free |-> p.free]
<1>1. Upsert(p, n, revision) = q
  BY DEF Upsert, UpsertNew
<1>2. /\ old \in [DOMAIN old -> Objects] /\ DOMAIN old \subseteq Nat
      /\ p.slots \in Seq(Slots) /\ p.free \in Seq(Nat)
      /\ \A k \in DOMAIN old :
           old[k].id[1] \in DOMAIN p.slots
           /\ p.slots[old[k].id[1]] = [occupied |-> TRUE, generation |-> old[k].id[2]]
      /\ \A k, l \in DOMAIN old : old[k].id[1] = old[l].id[1] => k = l
  BY DEF ProxiesOK, Objects
<1>3. index \in Nat \ {0} /\ DOMAIN p.slots = 1 .. index - 1
  BY <1>2
<1>4. slot \in Slots
  BY DEF Slots
<1>5. object \in Objects
  BY <1>3 DEF Objects
<1>6. /\ table \in Seq(Slots) /\ DOMAIN table = 1 .. index
      /\ table[index] = slot
      /\ \A i \in DOMAIN p.slots : i \in DOMAIN table /\ i # index /\ table[i] = p.slots[i]
  BY <1>2, <1>3, <1>4
<1>7. /\ DOMAIN new = DOMAIN old \cup {n} /\ new[n] = object
      /\ \A k \in DOMAIN old : new[k] = old[k] /\ k # n
      /\ new \in [DOMAIN new -> Objects] /\ DOMAIN new \subseteq Nat
  <2>1. DOMAIN new = DOMAIN old \cup {n} /\ new[n] = object
    OBVIOUS
  <2>2. \A k \in DOMAIN old : new[k] = old[k] /\ k # n
    OBVIOUS
  <2>3. \A k \in DOMAIN new : new[k] \in Objects
    <3> HIDE DEF object
    <3> QED
      BY <1>2, <1>5
  <2> HIDE DEF object
  <2> QED
    BY <1>2, <2>1, <2>2, <2>3
<1>8. /\ object.id[1] = index /\ object.id[2] = 1 /\ object.revision = revision
      /\ q.objects = new /\ q.slots = table /\ q.free = <<>>
  OBVIOUS
<1> HIDE DEF table, new, q, index, object
<1>9. ProxiesOK(q)
  <2>1. \A k \in DOMAIN new :
          new[k].id[1] \in DOMAIN table
          /\ table[new[k].id[1]] = [occupied |-> TRUE, generation |-> new[k].id[2]]
    <3> SUFFICES ASSUME NEW k \in DOMAIN new
                 PROVE  new[k].id[1] \in DOMAIN table
                        /\ table[new[k].id[1]] = [occupied |-> TRUE, generation |-> new[k].id[2]]
      OBVIOUS
    <3>1. CASE k = n
      <4>1. new[k].id[1] = index /\ new[k].id[2] = 1
        BY <1>7, <1>8, <3>1
      <4>2. index \in DOMAIN table /\ table[index] = [occupied |-> TRUE, generation |-> 1]
        BY <1>3, <1>6
      <4> QED
        BY <4>1, <4>2
    <3>2. CASE k # n
      <4>1. k \in DOMAIN old /\ new[k] = old[k]
        BY <1>7, <3>2
      <4>2. /\ old[k].id[1] \in DOMAIN p.slots
            /\ p.slots[old[k].id[1]] = [occupied |-> TRUE, generation |-> old[k].id[2]]
        BY <1>2, <4>1
      <4> QED
        BY <1>6, <4>1, <4>2
    <3> QED
      BY <3>1, <3>2
  <2>2. \A k, l \in DOMAIN new : new[k].id[1] = new[l].id[1] => k = l
    <3>1. \A k \in DOMAIN old : old[k].id[1] # index
      BY <1>2, <1>6
    <3> QED
      BY <1>2, <1>7, <1>8, <3>1
  <2>3. <<>> \in Seq(Nat) /\ DOMAIN <<>> = {}
    OBVIOUS
  <2> QED
    BY <1>6, <1>7, <1>8, <2>1, <2>2, <2>3 DEF ProxiesOK, Objects
<1>10. Upserts(p, q, n, revision)
  <2>1. ASSUME NEW ids \in SUBSET (Nat \X Nat), AllGone(ids, p)
        PROVE  AllGone(ids, q)
    <3> SUFFICES ASSUME NEW id \in ids
                 PROVE  id[1] \in DOMAIN table /\ id[2] < table[id[1]].generation
      BY <1>8 DEF AllGone
    <3>1. id[1] \in DOMAIN p.slots /\ id[2] < p.slots[id[1]].generation
      BY <2>1 DEF AllGone
    <3> QED
      BY <1>6, <3>1
  <2> QED
    BY <1>7, <1>8, <2>1 DEF Upserts
<1>11. q \in ProxySets
  BY <1>9, ProxiesAre DEF q
<1> QED
  BY <1>1, <1>10, <1>11

\* What upsert_object does to objects, slots and ids given back.
LEMMA UpsertLemma ==
  ASSUME NEW p \in ProxySets, NEW n \in Nat, NEW revision \in Nat
  PROVE  /\ Upsert(p, n, revision) \in ProxySets
         /\ Upserts(p, Upsert(p, n, revision), n, revision)
<1>1. ProxiesOK(p)
  BY ProxiesAre
<1> QED
  BY <1>1, UpsertOld, UpsertReused, UpsertAppended

\* What remove_object makes of p: the object of n is gone and its id with it.
Removes(p, q, n) ==
  /\ DOMAIN q.objects = DOMAIN p.objects \ {n}
  /\ \A k \in DOMAIN q.objects : q.objects[k] = p.objects[k]
  /\ \A ids \in SUBSET (Nat \X Nat) : AllGone(ids, p) => AllGone(ids, q)
  /\ n \in DOMAIN p.objects => AllGone({p.objects[n].id}, q)

\* What remove_object does to them.
LEMMA RemoveLemma ==
  ASSUME NEW p \in ProxySets, NEW n \in Nat
  PROVE  RemoveObject(p, n) \in ProxySets /\ Removes(p, RemoveObject(p, n), n)
<1>1. CASE n \notin DOMAIN p.objects
  <2>1. RemoveObject(p, n) = p
    BY <1>1 DEF RemoveObject
  <2>2. DOMAIN p.objects = DOMAIN p.objects \ {n}
    BY <1>1
  <2>3. Removes(p, p, n)
    BY <1>1, <2>2 DEF Removes
  <2> QED
    BY <2>1, <2>3
<1>2. CASE n \in DOMAIN p.objects
  <2> DEFINE old == p.objects
             index == old[n].id[1]
             slot == [occupied |-> FALSE, generation |-> p.slots[index].generation + 1]
             new == [k \in DOMAIN old \ {n} |-> old[k]]
             table == [p.slots EXCEPT ![index] = slot]
             free == Append(p.free, index)
             q == [objects |-> new, slots |-> table, free |-> free]
  <2>1. RemoveObject(p, n) = q
    BY <1>2 DEF RemoveObject
  <2>2. /\ old \in [DOMAIN old -> Objects] /\ DOMAIN old \subseteq Nat
        /\ p.slots \in Seq(Slots) /\ p.free \in Seq(Nat)
        /\ \A k \in DOMAIN old :
             old[k].id[1] \in DOMAIN p.slots
             /\ p.slots[old[k].id[1]] = [occupied |-> TRUE, generation |-> old[k].id[2]]
        /\ \A k, l \in DOMAIN old : old[k].id[1] = old[l].id[1] => k = l
        /\ \A i \in DOMAIN p.free : p.free[i] \in DOMAIN p.slots /\ ~p.slots[p.free[i]].occupied
        /\ \A i, j \in DOMAIN p.free : p.free[i] = p.free[j] => i = j
    BY ProxiesAre DEF ProxiesOK, Objects
  <2>3. /\ index \in DOMAIN p.slots /\ index \in Nat
        /\ p.slots[index].occupied /\ p.slots[index].generation = old[n].id[2]
    <3>1. p.slots[index] = [occupied |-> TRUE, generation |-> old[n].id[2]]
      BY <1>2, <2>2
    <3>2. index \in DOMAIN p.slots
      BY <1>2, <2>2
    <3>3. DOMAIN p.slots \subseteq Nat
      BY <2>2
    <3> QED
      BY <3>1, <3>2, <3>3
  <2>4. slot \in Slots /\ p.slots[index].generation \in Nat
    <3>1. p.slots[index] \in Slots
      BY <2>2, <2>3
    <3> QED
      BY <3>1 DEF Slots
  <2>5. /\ table \in Seq(Slots) /\ DOMAIN table = DOMAIN p.slots
        /\ table[index] = slot
        /\ \A i \in DOMAIN p.slots : i # index => table[i] = p.slots[i]
    BY <2>2, <2>3, <2>4
  <2> DEFINE m == Len(p.free)
  <2>6. /\ m \in Nat /\ free \in Seq(Nat) /\ DOMAIN free = 1 .. m + 1 /\ free[m + 1] = index
        /\ DOMAIN p.free = 1 .. m
        /\ \A i \in 1 .. m : free[i] = p.free[i]
    BY <2>2, <2>3
  <2>7. /\ DOMAIN new = DOMAIN old \ {n}
        /\ \A k \in DOMAIN new : k \in DOMAIN old /\ new[k] = old[k]
        /\ new \in [DOMAIN new -> Objects] /\ DOMAIN new \subseteq Nat
    BY <2>2
  <2>8. /\ slot.occupied = FALSE /\ slot.generation = old[n].id[2] + 1
        /\ q.objects = new /\ q.slots = table /\ q.free = free
    BY <2>3
  <2>9. \A k \in DOMAIN new : new[k].id[1] # index
    BY <1>2, <2>2, <2>7
  <2>10. \A i \in 1 .. m : p.free[i] \in DOMAIN p.slots /\ p.free[i] # index
    BY <2>2, <2>3, <2>6
  <2> HIDE DEF table, free, new, q, m, index
  <2>11. ProxiesOK(q)
    <3>1. \A k \in DOMAIN new :
            new[k].id[1] \in DOMAIN table
            /\ table[new[k].id[1]] = [occupied |-> TRUE, generation |-> new[k].id[2]]
      <4> SUFFICES ASSUME NEW k \in DOMAIN new
                   PROVE  new[k].id[1] \in DOMAIN table
                          /\ table[new[k].id[1]] = [occupied |-> TRUE, generation |-> new[k].id[2]]
        OBVIOUS
      <4>1. k \in DOMAIN old /\ new[k] = old[k] /\ old[k].id[1] # index
        BY <2>7, <2>9
      <4>2. /\ old[k].id[1] \in DOMAIN p.slots
            /\ p.slots[old[k].id[1]] = [occupied |-> TRUE, generation |-> old[k].id[2]]
        BY <2>2, <4>1
      <4> QED
        BY <2>5, <4>1, <4>2
    <3>2. \A k, l \in DOMAIN new : new[k].id[1] = new[l].id[1] => k = l
      BY <2>2, <2>7
    <3>3. \A i \in DOMAIN free : free[i] \in DOMAIN table /\ ~table[free[i]].occupied
      <4> SUFFICES ASSUME NEW i \in 1 .. m + 1
                   PROVE  free[i] \in DOMAIN table /\ ~table[free[i]].occupied
        BY <2>6
      <4>1. CASE i = m + 1
        BY <2>3, <2>5, <2>6, <2>8, <4>1
      <4>2. CASE i # m + 1
        <5>1. i \in 1 .. m /\ free[i] = p.free[i]
          BY <2>6, <4>2
        <5>2. /\ p.free[i] \in DOMAIN p.slots /\ p.free[i] # index
              /\ ~p.slots[p.free[i]].occupied
          BY <2>2, <2>6, <2>10, <5>1
        <5> QED
          BY <2>5, <5>1, <5>2
      <4> QED
        BY <4>1, <4>2
    <3>4. \A i, j \in DOMAIN free : free[i] = free[j] => i = j
      <4>1. \A i \in DOMAIN free : i = m + 1 \/ (i \in 1 .. m /\ i # m + 1)
        BY <2>6
      <4> QED
        BY <2>2, <2>6, <2>10, <4>1
    <3> QED
      BY <2>5, <2>6, <2>7, <2>8, <3>1, <3>2, <3>3, <3>4 DEF ProxiesOK, Objects
  <2>12. Removes(p, q, n)
    <3>1. ASSUME NEW ids \in SUBSET (Nat \X Nat), AllGone(ids, p)
          PROVE  AllGone(ids, q)
      <4> SUFFICES ASSUME NEW id \in ids
                   PROVE  id[1] \in DOMAIN table /\ id[2] < table[id[1]].generation
        BY <2>8 DEF AllGone
      <4>1. /\ id[1] \in DOMAIN p.slots /\ id[2] < p.slots[id[1]].generation /\ id[2] \in Nat
        BY <3>1 DEF AllGone
      <4>2. CASE id[1] = index
        <5>1. id[1] \in DOMAIN table /\ table[id[1]].generation = p.slots[index].generation + 1
          BY <2>5, <4>1, <4>2
        <5> QED
          BY <2>4, <4>1, <4>2, <5>1
      <4>3. CASE id[1] # index
        BY <2>5, <4>1, <4>3
      <4> QED
        BY <4>2, <4>3
    <3>2. AllGone({old[n].id}, q)
      BY <2>3, <2>4, <2>5, <2>8 DEF AllGone, index
    <3> QED
      BY <2>7, <2>8, <3>1, <3>2 DEF Removes
  <2>13. q \in ProxySets
    BY <2>11, ProxiesAre DEF q
  <2> QED
    BY <2>1, <2>12, <2>13
<1> QED
  BY <1>1, <1>2
-----------------------------------------------------------------------------
(* The two loops over the objects, step by step.                              *)

\* A run of the first loop: f[k] is what k steps make of p.
UpsertRun(f, p, N, order, shown) ==
  /\ f[0] = p
  /\ f[N] = UpsertAll(p, order, shown)
  /\ \A k \in 0 .. N - 1 : f[k + 1] = Upsert(f[k], order[k + 1], shown[order[k + 1]] + 1)

\* The first loop is a run of its steps.
LEMMA UpsertAllRuns ==
  ASSUME NEW p \in ProxySets, NEW N \in Nat, NEW order \in [1 .. N -> Nat],
         NEW shown, \A i \in 1 .. N : shown[order[i]] \in Nat
  PROVE  \E f \in [0 .. N -> ProxySets] : UpsertRun(f, p, N, order, shown)
<1> DEFINE S == 1 .. N
           Law(g) == g = [T \in SUBSET S |->
                            IF T = {} THEN p
                            ELSE Upsert(g[T \ {Max(T)}], order[Max(T)], shown[order[Max(T)]] + 1)]
           it == CHOOSE g : Law(g)
           step == [d \in S \X ProxySets |-> Upsert(d[2], order[d[1]], shown[order[d[1]]] + 1)]
<1>1. UpsertAll(p, order, shown) = it[S]
  <2>1. DOMAIN order = S
    OBVIOUS
  <2>2. UpsertAll(p, order, shown) =
          (CHOOSE g : g = [T \in SUBSET DOMAIN order |->
                            IF T = {} THEN p
                            ELSE Upsert(g[T \ {Max(T)}], order[Max(T)], shown[order[Max(T)]] + 1)])
          [DOMAIN order]
    BY Zenon DEF UpsertAll, FoldLeft, MapThenFoldSet
  <2> QED
    BY <2>1, <2>2
<1>2. \A x \in S, q \in ProxySets :
        step[<<x, q>>] = Upsert(q, order[x], shown[order[x]] + 1)
  <2> HIDE DEF S
  <2> QED
    OBVIOUS
<1>3. step \in [S \X ProxySets -> ProxySets]
  <2> SUFFICES ASSUME NEW d \in S \X ProxySets
               PROVE  Upsert(d[2], order[d[1]], shown[order[d[1]]] + 1) \in ProxySets
    OBVIOUS
  <2>1. d[2] \in ProxySets /\ order[d[1]] \in Nat /\ shown[order[d[1]]] + 1 \in Nat
    OBVIOUS
  <2> QED
    BY <2>1, UpsertLemma
<1> HIDE DEF step
<1>4. PICK g \in [SUBSET S -> ProxySets] : AlongSequence(g, N, p, step)
  BY <1>3, SequenceFoldExists
<1>5. /\ \A T \in SUBSET S : T # {} => Max(T) \in T
      /\ \A k \in 0 .. N - 1 : Max(1 .. k + 1) = k + 1 /\ (1 .. k + 1) \ {k + 1} = 1 .. k
  BY MaxOfPositions
<1>6. Law(g)
  <2>1. ASSUME NEW T \in SUBSET S
        PROVE  (IF T = {} THEN p ELSE step[<<Max(T), g[T \ {Max(T)}]>>])
               = IF T = {} THEN p
                 ELSE Upsert(g[T \ {Max(T)}], order[Max(T)], shown[order[Max(T)]] + 1)
    <3>1. CASE T = {}
      BY <3>1
    <3>2. CASE T # {}
      <4>1. Max(T) \in S /\ g[T \ {Max(T)}] \in ProxySets
        BY <1>5, <3>2
      <4> QED
        BY <1>2, <3>2, <4>1
    <3> QED
      BY <3>1, <3>2
  <2> QED
    BY <1>4, <2>1 DEF AlongSequence
<1>7. Law(it)
  <2> HIDE DEF Law
  <2> QED
    BY <1>6
<1> HIDE DEF it
<1>8. it[{}] = p
  BY <1>7
<1>9. \A T \in SUBSET S : T # {} =>
        it[T] = Upsert(it[T \ {Max(T)}], order[Max(T)], shown[order[Max(T)]] + 1)
  BY <1>7
<1> HIDE DEF Law
<1> DEFINE f == [k \in 0 .. N |-> it[1 .. k]]
<1>10. f[0] = p /\ f[N] = it[S]
  <2>1. 1 .. 0 = {} /\ 0 \in 0 .. N /\ N \in 0 .. N
    OBVIOUS
  <2> QED
    BY <1>8, <2>1
<1>11. \A k \in 0 .. N - 1 : f[k + 1] = Upsert(f[k], order[k + 1], shown[order[k + 1]] + 1)
  <2> SUFFICES ASSUME NEW k \in 0 .. N - 1
               PROVE  it[1 .. k + 1] = Upsert(it[1 .. k], order[k + 1], shown[order[k + 1]] + 1)
    OBVIOUS
  <2>1. k + 1 \in 1 .. k + 1 /\ 1 .. k + 1 \subseteq S
    OBVIOUS
  <2> DEFINE T == 1 .. k + 1
  <2>2. Max(T) = k + 1 /\ T \ {k + 1} = 1 .. k
    BY <1>5
  <2>3. T \in SUBSET S /\ T # {}
    BY <2>1
  <2> HIDE DEF T, S
  <2>4. it[T] = Upsert(it[T \ {Max(T)}], order[Max(T)], shown[order[Max(T)]] + 1)
    BY <1>9, <2>3
  <2>5. it[T] = Upsert(it[1 .. k], order[k + 1], shown[order[k + 1]] + 1)
    BY <2>2, <2>4
  <2> QED
    BY <2>5 DEF T
<1> HIDE DEF f
<1>12. \A k \in 0 .. N : f[k] \in ProxySets
  <2> DEFINE G == {k \in Nat : k <= N => f[k] \in ProxySets}
  <2>1. 0 \in G
    BY <1>10
  <2>2. ASSUME NEW k \in Nat, k \in G
        PROVE  k + 1 \in G
    <3> SUFFICES ASSUME k + 1 <= N PROVE f[k + 1] \in ProxySets
      OBVIOUS
    <3>1. f[k] \in ProxySets /\ k \in 0 .. N - 1 /\ k + 1 \in 1 .. N
      BY <2>2
    <3>2. order[k + 1] \in Nat /\ shown[order[k + 1]] + 1 \in Nat
      BY <3>1
    <3>3. Upsert(f[k], order[k + 1], shown[order[k + 1]] + 1) \in ProxySets
      BY <3>1, <3>2, UpsertLemma
    <3> QED
      BY <1>11, <3>1, <3>3
  <2> HIDE DEF G
  <2>3. Nat \subseteq G
    BY <2>1, <2>2, Induction
  <2> QED
    BY <2>3 DEF G
<1>13. f \in [0 .. N -> ProxySets]
  BY <1>12 DEF f
<1> QED
  BY <1>1, <1>10, <1>11, <1>13 DEF UpsertRun

\* So is the second.
LEMMA RemoveAllRuns ==
  ASSUME NEW p \in ProxySets, NEW N \in Nat, NEW order \in [1 .. N -> Nat]
  PROVE  \E f \in [0 .. N -> ProxySets] :
           /\ f[0] = p
           /\ f[N] = RemoveAll(p, order)
           /\ \A k \in 0 .. N - 1 : f[k + 1] = RemoveObject(f[k], order[k + 1])
<1> DEFINE S == 1 .. N
           Law(g) == g = [T \in SUBSET S |->
                            IF T = {} THEN p
                            ELSE RemoveObject(g[T \ {Max(T)}], order[Max(T)])]
           it == CHOOSE g : Law(g)
           step == [d \in S \X ProxySets |-> RemoveObject(d[2], order[d[1]])]
<1>1. RemoveAll(p, order) = it[S]
  <2>1. DOMAIN order = S
    OBVIOUS
  <2>2. RemoveAll(p, order) =
          (CHOOSE g : g = [T \in SUBSET DOMAIN order |->
                            IF T = {} THEN p
                            ELSE RemoveObject(g[T \ {Max(T)}], order[Max(T)])])
          [DOMAIN order]
    BY Zenon DEF RemoveAll, FoldLeft, MapThenFoldSet
  <2> QED
    BY <2>1, <2>2
<1>2. \A x \in S, q \in ProxySets :
        step[<<x, q>>] = RemoveObject(q, order[x])
  <2> HIDE DEF S
  <2> QED
    OBVIOUS
<1>3. step \in [S \X ProxySets -> ProxySets]
  <2> SUFFICES ASSUME NEW d \in S \X ProxySets
               PROVE  RemoveObject(d[2], order[d[1]]) \in ProxySets
    OBVIOUS
  <2>1. d[2] \in ProxySets /\ order[d[1]] \in Nat
    OBVIOUS
  <2> QED
    BY <2>1, RemoveLemma
<1> HIDE DEF step
<1>4. PICK g \in [SUBSET S -> ProxySets] : AlongSequence(g, N, p, step)
  BY <1>3, SequenceFoldExists
<1>5. /\ \A T \in SUBSET S : T # {} => Max(T) \in T
      /\ \A k \in 0 .. N - 1 : Max(1 .. k + 1) = k + 1 /\ (1 .. k + 1) \ {k + 1} = 1 .. k
  BY MaxOfPositions
<1>6. Law(g)
  <2>1. ASSUME NEW T \in SUBSET S
        PROVE  (IF T = {} THEN p ELSE step[<<Max(T), g[T \ {Max(T)}]>>])
               = IF T = {} THEN p
                 ELSE RemoveObject(g[T \ {Max(T)}], order[Max(T)])
    <3>1. CASE T = {}
      BY <3>1
    <3>2. CASE T # {}
      <4>1. Max(T) \in S /\ g[T \ {Max(T)}] \in ProxySets
        BY <1>5, <3>2
      <4> QED
        BY <1>2, <3>2, <4>1
    <3> QED
      BY <3>1, <3>2
  <2> QED
    BY <1>4, <2>1 DEF AlongSequence
<1>7. Law(it)
  <2> HIDE DEF Law
  <2> QED
    BY <1>6
<1> HIDE DEF it
<1>8. it[{}] = p
  BY <1>7
<1>9. \A T \in SUBSET S : T # {} =>
        it[T] = RemoveObject(it[T \ {Max(T)}], order[Max(T)])
  BY <1>7
<1> HIDE DEF Law
<1> DEFINE f == [k \in 0 .. N |-> it[1 .. k]]
<1>10. f[0] = p /\ f[N] = it[S]
  <2>1. 1 .. 0 = {} /\ 0 \in 0 .. N /\ N \in 0 .. N
    OBVIOUS
  <2> QED
    BY <1>8, <2>1
<1>11. \A k \in 0 .. N - 1 : f[k + 1] = RemoveObject(f[k], order[k + 1])
  <2> SUFFICES ASSUME NEW k \in 0 .. N - 1
               PROVE  it[1 .. k + 1] = RemoveObject(it[1 .. k], order[k + 1])
    OBVIOUS
  <2>1. k + 1 \in 1 .. k + 1 /\ 1 .. k + 1 \subseteq S
    OBVIOUS
  <2> DEFINE T == 1 .. k + 1
  <2>2. Max(T) = k + 1 /\ T \ {k + 1} = 1 .. k
    BY <1>5
  <2>3. T \in SUBSET S /\ T # {}
    BY <2>1
  <2> HIDE DEF T, S
  <2>4. it[T] = RemoveObject(it[T \ {Max(T)}], order[Max(T)])
    BY <1>9, <2>3
  <2>5. it[T] = RemoveObject(it[1 .. k], order[k + 1])
    BY <2>2, <2>4
  <2> QED
    BY <2>5 DEF T
<1> HIDE DEF f
<1>12. \A k \in 0 .. N : f[k] \in ProxySets
  <2> DEFINE G == {k \in Nat : k <= N => f[k] \in ProxySets}
  <2>1. 0 \in G
    BY <1>10
  <2>2. ASSUME NEW k \in Nat, k \in G
        PROVE  k + 1 \in G
    <3> SUFFICES ASSUME k + 1 <= N PROVE f[k + 1] \in ProxySets
      OBVIOUS
    <3>1. f[k] \in ProxySets /\ k \in 0 .. N - 1 /\ k + 1 \in 1 .. N
      BY <2>2
    <3>2. order[k + 1] \in Nat
      BY <3>1
    <3>3. RemoveObject(f[k], order[k + 1]) \in ProxySets
      BY <3>1, <3>2, RemoveLemma
    <3> QED
      BY <1>11, <3>1, <3>3
  <2> HIDE DEF G
  <2>3. Nat \subseteq G
    BY <2>1, <2>2, Induction
  <2> QED
    BY <2>3 DEF G
<1>13. f \in [0 .. N -> ProxySets]
  BY <1>12 DEF f
<1> QED
  BY <1>1, <1>10, <1>11, <1>13

\* What the first loop makes of the objects.
LEMMA UpsertAllLemma ==
  ASSUME NEW p \in ProxySets, NEW D, D \subseteq Nat, IsFiniteSet(D),
         NEW order \in SetToSeqs(D), NEW shown, \A n \in D : shown[n] \in Nat
  PROVE  LET q == UpsertAll(p, order, shown)
         IN  /\ q \in ProxySets
             /\ DOMAIN q.objects = DOMAIN p.objects \cup D
             /\ \A n \in D : q.objects[n].revision = shown[n] + 1
             /\ \A ids \in SUBSET (Nat \X Nat) : AllGone(ids, p) => AllGone(ids, q)
<1> DEFINE N == Cardinality(D)
<1>1. /\ N \in Nat /\ order \in [1 .. N -> D]
      /\ \A i, j \in 1 .. N : order[i] = order[j] => i = j
      /\ D = {order[i] : i \in 1 .. N}
  BY Enumerated DEF ToSet
<1> HIDE DEF N
<1>2. order \in [1 .. N -> Nat]
  BY <1>1
<1>20. \A i \in 1 .. N : shown[order[i]] \in Nat
  BY <1>1
<1>3. PICK f \in [0 .. N -> ProxySets] : UpsertRun(f, p, N, order, shown)
  BY <1>1, <1>2, <1>20, UpsertAllRuns
<1> DEFINE Done(k) == {order[i] : i \in 1 .. k}
           Fine(q, k) ==
             /\ DOMAIN q.objects = DOMAIN p.objects \cup Done(k)
             /\ \A n \in Done(k) : q.objects[n].revision = shown[n] + 1
             /\ \A ids \in SUBSET (Nat \X Nat) : AllGone(ids, p) => AllGone(ids, q)
           G == {k \in Nat : k <= N => Fine(f[k], k)}
<1> HIDE DEF Fine
<1>4. 0 \in G
  <2>1. Done(0) = {}
    OBVIOUS
  <2> QED
    BY <1>3, <2>1 DEF Fine, UpsertRun
<1>5. ASSUME NEW k \in Nat, k \in G
      PROVE  k + 1 \in G
  <2> SUFFICES ASSUME k + 1 <= N PROVE Fine(f[k + 1], k + 1)
    OBVIOUS
  <2>1. k \in 0 .. N - 1 /\ k + 1 \in 1 .. N /\ k \in 0 .. N
    BY <1>1
  <2> DEFINE n == order[k + 1]
             q == f[k]
             r == f[k + 1]
  <2>2. n \in Nat /\ shown[n] + 1 \in Nat /\ q \in ProxySets
    BY <1>2, <1>20, <2>1
  <2>3. Upserts(q, r, n, shown[n] + 1)
    BY <1>3, <2>1, <2>2, UpsertLemma DEF UpsertRun
  <2>4. Fine(q, k)
    BY <1>1, <1>5
  <2>5. Done(k + 1) = Done(k) \cup {n}
    BY <2>1
  <2>6. n \notin Done(k)
    BY <1>1, <2>1
  <2> HIDE DEF n, q, r, Done
  <2>7. Fine(r, k + 1)
    BY <2>3, <2>4, <2>5, <2>6 DEF Upserts, Fine
  <2> QED
    BY <2>7 DEF r
<1> HIDE DEF G
<1>6. N \in G
  <2>1. Nat \subseteq G
    BY <1>4, <1>5, Induction
  <2> QED
    BY <1>1, <2>1
<1>7. Fine(f[N], N) /\ f[N] \in ProxySets
  BY <1>1, <1>6 DEF G
<1>8. Done(N) = D
  BY <1>1
<1> HIDE DEF Done
<1> QED
  BY <1>3, <1>7, <1>8 DEF Fine, UpsertRun

\* What the second loop makes of them.
LEMMA RemoveAllLemma ==
  ASSUME NEW p \in ProxySets, NEW D, D \subseteq Nat, IsFiniteSet(D),
         NEW order \in SetToSeqs(D)
  PROVE  LET q == RemoveAll(p, order)
         IN  /\ q \in ProxySets
             /\ DOMAIN q.objects = DOMAIN p.objects \ D
             /\ \A n \in DOMAIN q.objects : q.objects[n] = p.objects[n]
             /\ \A ids \in SUBSET (Nat \X Nat) : AllGone(ids, p) => AllGone(ids, q)
             /\ \A n \in D \cap DOMAIN p.objects : AllGone({p.objects[n].id}, q)
<1> DEFINE N == Cardinality(D)
<1>1. /\ N \in Nat /\ order \in [1 .. N -> D]
      /\ \A i, j \in 1 .. N : order[i] = order[j] => i = j
      /\ D = {order[i] : i \in 1 .. N}
  BY Enumerated DEF ToSet
<1> HIDE DEF N
<1>2. order \in [1 .. N -> Nat]
  BY <1>1
<1>3. PICK f \in [0 .. N -> ProxySets] :
           /\ f[0] = p
           /\ f[N] = RemoveAll(p, order)
           /\ \A k \in 0 .. N - 1 : f[k + 1] = RemoveObject(f[k], order[k + 1])
  BY <1>1, <1>2, RemoveAllRuns
<1> DEFINE Done(k) == {order[i] : i \in 1 .. k}
           Fine(q, k) ==
             /\ DOMAIN q.objects = DOMAIN p.objects \ Done(k)
             /\ \A n \in DOMAIN q.objects : q.objects[n] = p.objects[n]
             /\ \A ids \in SUBSET (Nat \X Nat) : AllGone(ids, p) => AllGone(ids, q)
             /\ \A n \in Done(k) \cap DOMAIN p.objects : AllGone({p.objects[n].id}, q)
           G == {k \in Nat : k <= N => Fine(f[k], k)}
<1> HIDE DEF Fine
<1>4. 0 \in G
  <2>1. Done(0) = {}
    OBVIOUS
  <2> QED
    BY <1>3, <2>1 DEF Fine
<1>5. ASSUME NEW k \in Nat, k \in G
      PROVE  k + 1 \in G
  <2> SUFFICES ASSUME k + 1 <= N PROVE Fine(f[k + 1], k + 1)
    OBVIOUS
  <2>1. k \in 0 .. N - 1 /\ k + 1 \in 1 .. N /\ k \in 0 .. N
    BY <1>1
  <2> DEFINE n == order[k + 1]
             q == f[k]
             r == f[k + 1]
  <2>2. n \in Nat /\ q \in ProxySets
    BY <1>2, <2>1
  <2>3. Removes(q, r, n)
    BY <1>3, <2>1, <2>2, RemoveLemma
  <2>4. Fine(q, k)
    BY <1>1, <1>5
  <2>5. Done(k + 1) = Done(k) \cup {n}
    BY <2>1
  <2>6. n \notin Done(k)
    BY <1>1, <2>1
  <2> HIDE DEF n, q, r, Done
  <2>7. \A i \in DOMAIN p.objects : {p.objects[i].id} \in SUBSET (Nat \X Nat)
    BY ProxiesAre DEF ProxiesOK
  <2>8. Fine(r, k + 1)
    BY <2>3, <2>4, <2>5, <2>6, <2>7 DEF Removes, Fine
  <2> QED
    BY <2>8 DEF r
<1> HIDE DEF G
<1>6. N \in G
  <2>1. Nat \subseteq G
    BY <1>4, <1>5, Induction
  <2> QED
    BY <1>1, <2>1
<1>7. Fine(f[N], N) /\ f[N] \in ProxySets
  BY <1>1, <1>6 DEF G
<1>8. Done(N) = D
  BY <1>1
<1> HIDE DEF Done
<1> QED
  BY <1>3, <1>7, <1>8 DEF Fine
-----------------------------------------------------------------------------
(* The stream of messages.                                                    *)

\* Positions in two sequences that follow each other.
LEMMA Joined ==
  ASSUME NEW s \in Seq(Notices), NEW t \in Seq(Notices)
  PROVE  /\ s \o t \in Seq(Notices)
         /\ \A i \in DOMAIN s : i \in DOMAIN (s \o t) /\ (s \o t)[i] = s[i]
         /\ \A i \in DOMAIN t : Len(s) + i \in DOMAIN (s \o t) /\ (s \o t)[Len(s) + i] = t[i]
         /\ \A i \in DOMAIN (s \o t) : i \notin DOMAIN s =>
              /\ i - Len(s) \in DOMAIN t /\ (s \o t)[i] = t[i - Len(s)]
         /\ Len(s) \in Nat /\ DOMAIN s = 1 .. Len(s)
         /\ Len(t) \in Nat /\ DOMAIN t = 1 .. Len(t)
OBVIOUS

\* A joint sequence names whom one of its parts names.
LEMMA JoinedSilence ==
  ASSUME NEW s \in Seq(Notices), NEW t \in Seq(Notices), NEW n
  PROVE  Silent(s \o t, n) <=> Silent(s, n) /\ Silent(t, n)
<1> DEFINE u == s \o t
<1>1. /\ \A i \in DOMAIN s : i \in DOMAIN u /\ u[i] = s[i]
      /\ \A i \in DOMAIN t : Len(s) + i \in DOMAIN u /\ u[Len(s) + i] = t[i]
      /\ \A i \in DOMAIN u : i \notin DOMAIN s =>
              /\ i - Len(s) \in DOMAIN t /\ u[i] = t[i - Len(s)]
  BY Joined
<1> HIDE DEF u
<1>2. Silent(u, n) <=> Silent(s, n) /\ Silent(t, n)
  BY <1>1 DEF Silent
<1> QED
  BY <1>2 DEF u

\* The last message about a player in a joint sequence.
LEMMA JoinedLast ==
  ASSUME NEW s \in Seq(Notices), NEW t \in Seq(Notices)
  PROVE  /\ \A i \in DOMAIN s : LastAt(s \o t, i) <=> LastAt(s, i) /\ Silent(t, s[i].net)
         /\ \A i \in DOMAIN t : LastAt(s \o t, Len(s) + i) <=> LastAt(t, i)
<1> DEFINE u == s \o t
           m == Len(s)
<1>1. /\ \A i \in DOMAIN s : i \in DOMAIN u /\ u[i] = s[i]
      /\ \A i \in DOMAIN t : m + i \in DOMAIN u /\ u[m + i] = t[i]
      /\ \A i \in DOMAIN u : i \notin DOMAIN s =>
              /\ i - m \in DOMAIN t /\ u[i] = t[i - m]
      /\ m \in Nat /\ DOMAIN s = 1 .. m
      /\ Len(t) \in Nat /\ DOMAIN t = 1 .. Len(t)
  BY Joined
<1> HIDE DEF u, m
<1>2. ASSUME NEW i \in DOMAIN s, LastAt(u, i)
      PROVE  LastAt(s, i) /\ Silent(t, s[i].net)
  <2>1. \A j \in DOMAIN s : j > i => s[j].net # s[i].net
    BY <1>1, <1>2 DEF LastAt
  <2>2. \A j \in DOMAIN t : t[j].net # s[i].net
    <3> SUFFICES ASSUME NEW j \in DOMAIN t PROVE t[j].net # s[i].net
      OBVIOUS
    <3>1. m + j \in DOMAIN u /\ u[m + j] = t[j] /\ m + j > i /\ u[i] = s[i]
      BY <1>1
    <3> QED
      BY <1>2, <3>1 DEF LastAt
  <2> QED
    BY <2>1, <2>2 DEF LastAt, Silent
<1>3. ASSUME NEW i \in DOMAIN s, LastAt(s, i), Silent(t, s[i].net)
      PROVE  LastAt(u, i)
  BY <1>1, <1>3 DEF LastAt, Silent
<1>4. ASSUME NEW i \in DOMAIN t, LastAt(u, m + i)
      PROVE  LastAt(t, i)
  <2> SUFFICES ASSUME NEW j \in DOMAIN t, j > i PROVE t[j].net # t[i].net
    BY DEF LastAt
  <2>1. m + j \in DOMAIN u /\ u[m + j] = t[j] /\ m + j > m + i /\ u[m + i] = t[i]
    BY <1>1
  <2> QED
    BY <1>4, <2>1 DEF LastAt
<1>5. ASSUME NEW i \in DOMAIN t, LastAt(t, i)
      PROVE  LastAt(u, m + i)
  <2> SUFFICES ASSUME NEW j \in DOMAIN u, j > m + i PROVE u[j].net # u[m + i].net
    BY DEF LastAt
  <2>1. j \notin DOMAIN s /\ u[m + i] = t[i]
    BY <1>1
  <2>2. j - m \in DOMAIN t /\ u[j] = t[j - m]
    BY <1>1, <2>1
  <2>3. j - m > i
    BY <1>1, <2>2
  <2> QED
    BY <1>5, <2>1, <2>2, <2>3 DEF LastAt
<1> QED
  BY <1>2, <1>3, <1>4, <1>5 DEF u, m

\* A player that a sequence names has a last message in it.
LEMMA LastExists ==
  ASSUME NEW s \in Seq(Notices), NEW n, ~Silent(s, n)
  PROVE  \E i \in DOMAIN s : s[i].net = n /\ LastAt(s, i)
<1> DEFINE T == {i \in DOMAIN s : s[i].net = n}
<1>1. T # {}
  BY DEF Silent
<1>2. T \subseteq Nat /\ T \subseteq 1 .. Len(s) /\ Len(s) \in Nat
  OBVIOUS
<1>3. IsFiniteSet(T)
  <2>1. IsFiniteSet(1 .. Len(s))
    BY <1>2, FS_Interval
  <2> QED
    BY <1>2, <2>1, FS_Subset
<1>4. PICK i \in T : \A j \in T : j <= i
  BY <1>1, <1>2, <1>3, GreatestNumber
<1>5. LastAt(s, i)
  <2> SUFFICES ASSUME NEW j \in DOMAIN s, j > i, s[j].net = s[i].net PROVE FALSE
    BY DEF LastAt
  <2>1. j \in T
    OBVIOUS
  <2>2. j <= i /\ i \in Nat /\ j \in Nat
    BY <1>2, <1>4, <2>1
  <2> QED
    BY <2>2
<1> QED
  BY <1>4, <1>5

\* A sequence is what comes before a position and what comes after it.
LEMMA CutInTwo ==
  ASSUME NEW s \in Seq(Notices), NEW k \in 0 .. Len(s)
  PROVE  /\ SubSeq(s, 1, k) \in Seq(Notices)
         /\ SubSeq(s, k + 1, Len(s)) \in Seq(Notices)
         /\ Len(SubSeq(s, k + 1, Len(s))) = Len(s) - k
         /\ SubSeq(s, 1, k) \o SubSeq(s, k + 1, Len(s)) = s
<1>1. Len(s) \in Nat /\ 1 \in 1 .. Len(s) + 1 /\ k \in 1 - 1 .. Len(s) /\ Len(s) \in k .. Len(s)
  OBVIOUS
<1>2. SubSeq(s, 1, k) \o SubSeq(s, k + 1, Len(s)) = SubSeq(s, 1, Len(s))
  BY <1>1, ConcatAdjacentSubSeq
<1>3. SubSeq(s, 1, Len(s)) = s
  BY SubSeqFull
<1>4. \A i \in 1 .. Len(s) : s[i] \in Notices
  OBVIOUS
<1>5. SubSeq(s, 1, k) \in Seq(Notices)
  BY <1>1, <1>4, SubSeqProperties
<1>6. /\ SubSeq(s, k + 1, Len(s)) \in Seq(Notices)
      /\ Len(SubSeq(s, k + 1, Len(s))) = Len(s) - k
  BY <1>1, <1>4, SubSeqProperties
<1> QED
  BY <1>2, <1>3, <1>5, <1>6

\* Joining sequences of messages is associative,
LEMMA Regrouped ==
  ASSUME NEW s \in Seq(Notices), NEW t \in Seq(Notices), NEW u \in Seq(Notices)
  PROVE  (s \o t) \o u = s \o (t \o u)
BY ConcatAssociative

\* and the empty one adds nothing.
LEMMA JoinedEmpty ==
  ASSUME NEW s \in Seq(Notices)
  PROVE  s \o <<>> = s /\ <<>> \o s = s
BY ConcatEmptySeq

\* Sending and flushing keep the order of what is on its way.
LEMMA DeliverLemma ==
  ASSUME inbox \in Seq(Notices), outbound \in Seq(Notices),
         NEW messages \in Seq(Notices), NEW flushed \in 0 .. Len(outbound),
         Deliver(SubSeq(outbound, flushed + 1, Len(outbound)), messages)
  PROVE  /\ inbox' \in Seq(Notices)
         /\ outbound' \in Seq(Notices)
         /\ inbox' \o outbound' = (inbox \o outbound) \o messages
<1> DEFINE queued == SubSeq(outbound, flushed + 1, Len(outbound))
           head == SubSeq(outbound, 1, flushed)
<1>0. outbound \in Seq(Notices) /\ Len(outbound) \in Nat
  OBVIOUS
<1>1. /\ queued \in Seq(Notices) /\ head \in Seq(Notices)
      /\ Len(queued) = Len(outbound) - flushed
      /\ head \o queued = outbound
  BY CutInTwo
<1>2. Len(outbound) - Len(queued) = flushed
  BY <1>0, <1>1
<1>3. PICK sent \in 0 .. Len(messages) :
        /\ queued # <<>> => sent = 0
        /\ inbox' = inbox \o SubSeq(outbound, 1, Len(outbound) - Len(queued))
                          \o SubSeq(messages, 1, sent)
        /\ outbound' = queued \o SubSeq(messages, sent + 1, Len(messages))
  BY DEF Deliver
<1> DEFINE first == SubSeq(messages, 1, sent)
           rest == SubSeq(messages, sent + 1, Len(messages))
<1>4. first \in Seq(Notices) /\ rest \in Seq(Notices) /\ first \o rest = messages
  BY CutInTwo
<1>5. ASSUME queued # <<>>
      PROVE  first = <<>> /\ rest = messages
  <2>1. first = <<>>
    BY <1>3, <1>5
  <2> HIDE DEF first, rest
  <2>2. <<>> \o rest = messages
    BY <1>4, <2>1
  <2>3. <<>> \o rest = rest
    BY <1>4, JoinedEmpty
  <2> QED
    BY <2>1, <2>2, <2>3
<1>6. inbox' = (inbox \o head) \o first /\ outbound' = queued \o rest
  BY <1>2, <1>3
<1> HIDE DEF queued, head, first, rest
<1>7. inbox \o head \in Seq(Notices) /\ inbox \o outbound \in Seq(Notices)
  BY <1>0, <1>1, Joined
<1>8. inbox' \in Seq(Notices) /\ outbound' \in Seq(Notices)
  BY <1>1, <1>4, <1>6, <1>7, Joined
<1>9. CASE queued = <<>>
  <2>1. head = outbound
    <3>1. head \o <<>> = head
      BY <1>1, JoinedEmpty
    <3> QED
      BY <1>1, <1>9, <3>1
  <2>2. outbound' = rest
    BY <1>4, <1>6, <1>9, JoinedEmpty
  <2>3. ((inbox \o outbound) \o first) \o rest = (inbox \o outbound) \o (first \o rest)
    <3> DEFINE front == inbox \o outbound
    <3>1. front \in Seq(Notices)
      BY <1>7
    <3> HIDE DEF front
    <3>2. (front \o first) \o rest = front \o (first \o rest)
      BY <1>4, <3>1, Regrouped
    <3> QED
      BY <3>2 DEF front
  <2> QED
    BY <1>4, <1>6, <1>8, <2>1, <2>2, <2>3
<1>10. CASE queued # <<>>
  <2>1. inbox' = inbox \o head
    BY <1>5, <1>6, <1>7, <1>10, JoinedEmpty
  <2>2. outbound' = queued \o messages
    BY <1>5, <1>6, <1>10
  <2>3. ((inbox \o head) \o queued) \o messages = (inbox \o head) \o (queued \o messages)
    <3> DEFINE front == inbox \o head
    <3>1. front \in Seq(Notices)
      BY <1>7
    <3> HIDE DEF front
    <3>2. (front \o queued) \o messages = front \o (queued \o messages)
      BY <1>1, <3>1, Regrouped
    <3> QED
      BY <3>2 DEF front
  <2>4. (inbox \o head) \o queued = inbox \o outbound
    BY <1>1, Regrouped
  <2> QED
    BY <1>8, <2>1, <2>2, <2>3, <2>4
<1> QED
  BY <1>9, <1>10

\* The parts of the stream.
LEMMA StreamTyped ==
  ASSUME ServerInv
  PROVE  /\ Removals \in Seq(Notices)
         /\ Pending \in Seq(Notices)
         /\ Stream \in Seq(Notices)
         /\ Stream = (inbox \o outbound) \o Removals
<1>1. Removals \in Seq(Notices)
  <2>1. removals \in [1 .. Len(removals) -> Nat] /\ Len(removals) \in Nat
    BY DEF ServerInv
  <2>2. \A i \in 1 .. Len(removals) : Removal(removals[i]) \in Notices
    BY <2>1 DEF Removal, Notices
  <2>3. Removals \in [1 .. Len(removals) -> Notices]
    BY <2>1, <2>2 DEF Removals
  <2> QED
    BY <2>1, <2>3
<1>2. inbox \in Seq(Notices) /\ outbound \in Seq(Notices)
  BY DEF ServerInv
<1>3. Pending \in Seq(Notices)
  BY <1>1, <1>2, Joined DEF Pending
<1>4. Stream \in Seq(Notices)
  BY <1>2, <1>3, Joined DEF Stream
<1>5. (inbox \o outbound) \o Removals = inbox \o Pending
  BY <1>1, <1>2, Regrouped DEF Pending
<1> QED
  BY <1>1, <1>3, <1>4, <1>5 DEF Stream

\* The server adds to the stream what the client has to be told.
LEMMA StreamGrows ==
  ASSUME ServerInv, StreamInv, NEW A \in Seq(Notices), Stream' = Stream \o A,
         UNCHANGED <<snapshots, overtaken>>,
         \A i \in DOMAIN A, n \in Nat : A[i].net = n /\ LastAt(A, i) => A[i] = Expected(n)',
         \A n \in Nat : Silent(A, n) =>
           /\ Moving(n)' <=> Moving(n)
           /\ HoldsLocal(n)' <=> HoldsLocal(n)
           /\ Moving(n) => tick' = tick
  PROVE  StreamInv'
<1> DEFINE S == Stream
           T == Stream'
           m == Len(S)
<1>1. S \in Seq(Notices) /\ T = S \o A
  BY StreamTyped
<1>2. /\ \A n \in Nat : Silent(S, n) =>
            /\ n \in DOMAIN snapshots <=> Moving(n) \/ HoldsLocal(n) \/ n \in overtaken
            /\ Moving(n) => snapshots[n] = tick
      /\ \A i \in DOMAIN S, n \in Nat : S[i].net = n /\ LastAt(S, i) => S[i] = Expected(n)
  BY DEF StreamInv
<1>3. \A n \in Nat : Silent(A, n) => Expected(n)' = Expected(n)
  <2> SUFFICES ASSUME NEW n \in Nat, Silent(A, n)
               PROVE  Expected(n)' = Expected(n)
    OBVIOUS
  <2>1. /\ Moving(n)' <=> Moving(n)
        /\ HoldsLocal(n)' <=> HoldsLocal(n)
        /\ Moving(n) => tick' = tick
    OBVIOUS
  <2>2. CASE Moving(n)
    BY <2>1, <2>2 DEF Expected
  <2>3. CASE ~Moving(n)
    BY <2>1, <2>3 DEF Expected
  <2> QED
    BY <2>2, <2>3
<1> HIDE DEF S, T, m
<1>4. ASSUME NEW n \in Nat, Silent(T, n)
      PROVE  /\ n \in DOMAIN snapshots <=> Moving(n)' \/ HoldsLocal(n)' \/ n \in overtaken
             /\ Moving(n)' => snapshots[n] = tick'
  <2>1. Silent(S, n) /\ Silent(A, n)
    BY <1>1, <1>4, JoinedSilence
  <2> QED
    BY <1>2, <2>1
<1>5. ASSUME NEW i \in DOMAIN T, NEW n \in Nat, T[i].net = n, LastAt(T, i)
      PROVE  T[i] = Expected(n)'
  <2>1. CASE i \in DOMAIN S
    <3>1. LastAt(S, i) /\ Silent(A, S[i].net) /\ T[i] = S[i]
      BY <1>1, <1>5, <2>1, JoinedLast, Joined
    <3>2. S[i] = Expected(n) /\ Silent(A, n)
      BY <1>2, <1>5, <2>1, <3>1
    <3> QED
      BY <1>3, <3>1, <3>2
  <2>2. CASE i \notin DOMAIN S
    <3> DEFINE j == i - Len(S)
    <3>1. j \in DOMAIN A /\ T[i] = A[j] /\ i = Len(S) + j
      BY <1>1, <2>2, Joined
    <3> HIDE DEF j
    <3>2. LastAt(A, j)
      BY <1>1, <1>5, <3>1, JoinedLast
    <3> QED
      BY <1>5, <3>1, <3>2
  <2> QED
    BY <2>1, <2>2
<1> QED
  BY <1>4, <1>5 DEF StreamInv, T

\* What the server adds does not go back in time.
LEMMA TicksGrow ==
  ASSUME ServerInv, SnapshotsInv, TicksInv, NEW A \in Seq(Notices), Stream' = Stream \o A,
         snapshots' = snapshots, tick' \in Nat, tick <= tick',
         \A i \in DOMAIN A : IsSnapshot(A[i]) => A[i].tick = tick'
  PROVE  TicksInv'
<1> DEFINE S == Stream
           T == Stream'
<1>1. S \in Seq(Notices) /\ T = S \o A
  BY StreamTyped
<1>2. /\ \A i \in DOMAIN S : IsSnapshot(S[i]) =>
            /\ S[i].tick <= tick
            /\ S[i].net \in DOMAIN snapshots => snapshots[S[i].net] <= S[i].tick
      /\ \A i, j \in DOMAIN S :
            i < j /\ IsSnapshot(S[i]) /\ IsSnapshot(S[j]) => S[i].tick <= S[j].tick
  BY DEF TicksInv
<1>3. tick \in Nat /\ \A n \in DOMAIN snapshots : snapshots[n] \in 0 .. tick
  BY DEF ServerInv, SnapshotsInv
<1> HIDE DEF S, T
<1>4. \A i \in DOMAIN S : i \in Nat /\ S[i].tick \in Nat
  <2>1. \A i \in DOMAIN S : i \in Nat /\ S[i] \in Notices
    BY <1>1
  <2> QED
    BY <2>1 DEF Notices
<1>5. \A i \in DOMAIN T :
        \/ i \in DOMAIN S /\ T[i] = S[i]
        \/ i \notin DOMAIN S /\ (IsSnapshot(T[i]) => T[i].tick = tick')
  BY <1>1, Joined
<1>6. \A i, j \in DOMAIN T : i < j /\ j \in DOMAIN S => i \in DOMAIN S
  <2>1. Len(S) \in Nat /\ DOMAIN S = 1 .. Len(S)
    BY <1>1
  <2>2. \A i \in DOMAIN T : i \in Nat \ {0}
    BY <1>1, Joined
  <2> QED
    BY <2>1, <2>2
<1>7. ASSUME NEW i \in DOMAIN T, IsSnapshot(T[i])
      PROVE  /\ T[i].tick <= tick'
             /\ T[i].net \in DOMAIN snapshots => snapshots[T[i].net] <= T[i].tick
  <2>1. CASE i \in DOMAIN S /\ T[i] = S[i]
    BY <1>2, <1>3, <1>4, <1>7, <2>1
  <2>2. CASE T[i].tick = tick'
    BY <1>3, <2>2
  <2> QED
    BY <1>5, <1>7, <2>1, <2>2
<1>8. ASSUME NEW i \in DOMAIN T, NEW j \in DOMAIN T, i < j, IsSnapshot(T[i]), IsSnapshot(T[j])
      PROVE  T[i].tick <= T[j].tick
  <2>1. CASE j \in DOMAIN S
    <3>1. i \in DOMAIN S /\ T[i] = S[i] /\ T[j] = S[j]
      BY <1>5, <1>6, <1>8, <2>1
    <3> QED
      BY <1>2, <1>8, <2>1, <3>1
  <2>2. CASE j \notin DOMAIN S
    <3>1. T[j].tick = tick'
      BY <1>5, <1>8, <2>2
    <3> QED
      BY <1>7, <1>8, <3>1
  <2> QED
    BY <2>1, <2>2
<1> QED
  BY <1>7, <1>8 DEF TicksInv, T

\* The client stands still while the server runs.
LEMMA ClientStands ==
  ASSUME ClientInv, UNCHANGED shownVars, ~pumpDue' => inbox' = <<>>
  PROVE  ClientInv'
BY DEF ClientInv, shownVars, Proxies, ProxiesOK, AllGone

\* A sequence of one message.
LEMMA OneMessage ==
  ASSUME NEW m \in Notices
  PROVE  /\ <<m>> \in Seq(Notices)
         /\ DOMAIN <<m>> = {1} /\ <<m>>[1] = m
         /\ \A n : Silent(<<m>>, n) <=> m.net # n
<1>1. DOMAIN <<m>> = {1} /\ <<m>>[1] = m
  OBVIOUS
<1> QED
  BY <1>1 DEF Silent

\* One snapshot for each connection.
LEMMA SnapshotsOfLemma ==
  ASSUME NEW D, D \subseteq Nat, IsFiniteSet(D), NEW conns \in [D -> [net : Nat, tick : Nat]]
  PROVE  LET s == SnapshotsOf(conns)
         IN  /\ s \in Seq(Notices)
             /\ \A i \in DOMAIN s : \E c \in D : s[i] = Snapshot(conns[c].net, conns[c].tick)
             /\ \A c \in D : \E i \in DOMAIN s : s[i] = Snapshot(conns[c].net, conns[c].tick)
<1> DEFINE order == Ascending(D)
           N == Cardinality(D)
           s == [i \in 1 .. N |-> Snapshot(conns[order[i]].net, conns[order[i]].tick)]
<1>1. order \in SetToSeqs(D)
  BY AscendingEnumerates
<1>2. N \in Nat /\ order \in [1 .. N -> D] /\ ToSet(order) = D
  <2> HIDE DEF order
  <2> QED
    BY <1>1, Enumerated
<1>3. SnapshotsOf(conns) = s
  BY <1>2 DEF SnapshotsOf
<1> HIDE DEF order, N
<1>4. \A i \in 1 .. N : order[i] \in D
  BY <1>2
<1>5. s \in Seq(Notices)
  <2>1. \A c \in D : conns[c].net \in Nat /\ conns[c].tick \in Nat
    OBVIOUS
  <2>2. \A i \in 1 .. N : s[i] \in Notices
    BY <1>4, <2>1 DEF Snapshot, Notices
  <2> QED
    BY <1>2, <2>2
<1>6. \A c \in D : \E i \in 1 .. N : c = order[i]
  BY <1>2 DEF ToSet
<1>7. \A i \in DOMAIN s : \E c \in D : s[i] = Snapshot(conns[c].net, conns[c].tick)
  BY <1>4
<1>8. \A c \in D : \E i \in DOMAIN s : s[i] = Snapshot(conns[c].net, conns[c].tick)
  BY <1>6
<1> HIDE DEF s
<1> QED
  BY <1>3, <1>5, <1>7, <1>8

\* The connections a server has are finitely many.
LEMMA ConnectionsAre ==
  ASSUME ServerInv
  PROVE  /\ DOMAIN player \subseteq Nat
         /\ IsFiniteSet(DOMAIN player)
         /\ player \in [DOMAIN player -> [net : Nat, tick : Nat]]
<1>1. nextConnection - 1 \in Nat /\ DOMAIN player \subseteq 1 .. nextConnection - 1
  BY DEF ServerInv
<1>2. IsFiniteSet(1 .. nextConnection - 1)
  BY <1>1, FS_Interval
<1>3. IsFiniteSet(DOMAIN player)
  BY <1>1, <1>2, FS_Subset
<1>4. player \in [DOMAIN player -> [net : Nat, tick : Nat]]
  <2>1. tick \in Nat /\ player \in [DOMAIN player -> [net : Nat, tick : {0, tick}]]
    BY DEF ServerInv
  <2>2. [net : Nat, tick : {0, tick}] \subseteq [net : Nat, tick : Nat]
    BY <2>1
  <2> QED
    BY <2>1, <2>2
<1> QED
  BY <1>1, <1>3, <1>4

-----------------------------------------------------------------------------
(* The steps of the server.                                                   *)

\* A player leaves: its removal is the last the client will be told.
LEMMA DisconnectPlayerKeeps ==
  ASSUME PlayersInv, NEW c \in DOMAIN player \ {Local}, DisconnectPlayer(c)
  PROVE  PlayersInv'
<1>1. /\ ServerInv /\ QuietInv /\ SnapshotsInv /\ StreamInv /\ TicksInv /\ ClientInv
  BY DEF PlayersInv
<1> PICK gone \in Nat : gone = player[c].net
  BY <1>1 DEF ServerInv
<1>2. /\ ~pumpDue /\ players' = players \ {gone}
      /\ player' = [k \in DOMAIN player \ {c} |-> player[k]]
      /\ removals' = Append(removals, gone)
      /\ UNCHANGED <<records, nextConnection, tick, outbound, inbox, pumpDue, shownVars>>
      /\ UNCHANGED <<snapshots, overtaken>>
  BY DEF DisconnectPlayer, shownVars
<1>3. gone \in Nat /\ tick \in Nat
  BY <1>1 DEF ServerInv
<1>4. /\ DOMAIN player' = DOMAIN player \ {c}
      /\ \A k \in DOMAIN player' : player'[k] = player[k]
      /\ \A k \in DOMAIN player' : player[k].net # gone
  BY <1>1, <1>2 DEF ServerInv
<1>5. ServerInv'
  <2>1. player' \in [DOMAIN player' -> [net : Nat, tick : {0, tick'}]]
    BY <1>1, <1>2, <1>4 DEF ServerInv
  <2>2. /\ DOMAIN player' \subseteq 1 .. nextConnection' - 1
        /\ nextConnection' > Local => Local \in DOMAIN player'
        /\ \A k, l \in DOMAIN player' : player'[k].net = player'[l].net => k = l
    BY <1>1, <1>2, <1>4 DEF ServerInv
  <2>3. players' = {player'[k].net : k \in DOMAIN player'}
    BY <1>1, <1>2, <1>4 DEF ServerInv
  <2>4. removals' \in Seq(Nat)
    BY <1>1, <1>2, <1>3 DEF ServerInv
  <2>5. /\ nextConnection' \in Nat \ {0} /\ tick' \in Nat
        /\ players' \subseteq records' /\ (\E k \in Nat : records' = 1 .. k)
        /\ outbound' \in Seq(Notices) /\ inbox' \in Seq(Notices)
    BY <1>1, <1>2 DEF ServerInv
  <2> QED
    BY <2>1, <2>2, <2>3, <2>4, <2>5 DEF ServerInv
<1>6. Removal(gone) \in Notices
  BY <1>3 DEF Removal, Notices
<1> DEFINE A == <<Removal(gone)>>
<1>7. A \in Seq(Notices) /\ DOMAIN A = {1} /\ A[1] = Removal(gone)
      /\ \A n : Silent(A, n) <=> Removal(gone).net # n
  BY <1>6, OneMessage
<1>8. Stream' = Stream \o A
  <2>0. Removals \in Seq(Notices) /\ inbox \in Seq(Notices) /\ outbound \in Seq(Notices)
    BY <1>1, StreamTyped DEF ServerInv
  <2>1. Removals' = Removals \o A
    <3>1. Removals' = Append(Removals, Removal(gone))
      BY <1>1, <1>2, <1>3 DEF Removals, ServerInv
    <3> QED
      BY <1>1, <1>6, <3>1, StreamTyped, AppendIsConcat
  <2>2. Stream' = (inbox \o outbound) \o (Removals \o A)
    <3> DEFINE after == Removals \o A
    <3>1. after \in Seq(Notices)
      BY <1>7, <2>0, Joined
    <3>2. Stream' = inbox \o (outbound \o after)
      BY <1>2, <2>1 DEF Stream, Pending
    <3> HIDE DEF after
    <3>3. (inbox \o outbound) \o after = inbox \o (outbound \o after)
      BY <2>0, <3>1, Regrouped
    <3> QED
      BY <3>2, <3>3 DEF after
  <2> DEFINE front == inbox \o outbound
  <2>3. front \in Seq(Notices) /\ Removals \in Seq(Notices) /\ Stream = front \o Removals
    BY <1>1, StreamTyped, Joined DEF ServerInv
  <2> HIDE DEF front, A
  <2>4. (front \o Removals) \o A = front \o (Removals \o A)
    BY <1>7, <2>3, Regrouped
  <2> QED
    BY <2>2, <2>3, <2>4 DEF front
<1>9. Removal(gone).net = gone /\ ~IsSnapshot(Removal(gone))
  BY DEF Removal, IsSnapshot
<1>10. \A n \in Nat : n # gone => (Moving(n)' <=> Moving(n)) /\ (HoldsLocal(n)' <=> HoldsLocal(n))
  BY <1>2, <1>4 DEF Moving, HoldsLocal
<1>11. Expected(gone)' = Removal(gone)
  <2>1. ~Moving(gone)'
    BY <1>4 DEF Moving
  <2>2. ~HoldsLocal(gone)'
    BY <1>2, <1>4 DEF HoldsLocal
  <2> QED
    BY <2>1, <2>2 DEF Expected
<1> HIDE DEF A
<1>12. StreamInv'
  <2>1. \A i \in DOMAIN A, n \in Nat : A[i].net = n /\ LastAt(A, i) => A[i] = Expected(n)'
    BY <1>7, <1>9, <1>11
  <2>2. \A n \in Nat : Silent(A, n) =>
          /\ Moving(n)' <=> Moving(n)
          /\ HoldsLocal(n)' <=> HoldsLocal(n)
          /\ Moving(n) => tick' = tick
    BY <1>2, <1>7, <1>9, <1>10
  <2> QED
    BY <1>1, <1>2, <1>7, <1>8, <2>1, <2>2, StreamGrows
<1>13. TicksInv'
  <2>1. \A i \in DOMAIN A : IsSnapshot(A[i]) => A[i].tick = tick'
    BY <1>7, <1>9
  <2>2. tick' \in Nat /\ tick <= tick'
    BY <1>2, <1>3
  <2> QED
    BY <1>1, <1>2, <1>7, <1>8, <2>1, <2>2, TicksGrow
<1>14. QuietInv'
  <2>1. nextConnection' # Local
    BY <1>1, <1>2 DEF ServerInv, Local
  <2> QED
    BY <2>1 DEF QuietInv
<1>15. SnapshotsInv'
  BY <1>1, <1>2 DEF SnapshotsInv
<1>16. ClientInv'
  BY <1>1, <1>2, ClientStands DEF ClientInv
<1> QED
  BY <1>5, <1>12, <1>13, <1>14, <1>15, <1>16 DEF PlayersInv

\* A player joins with the number of the next connection.
LEMMA SpawnJoins ==
  ASSUME ServerInv, NEW new \in Nat, new = nextConnection,
         NEW n \in 1 .. Cardinality(records) + 1, Spawn(new, n)
  PROVE  /\ n \in Nat /\ n \notin players
         /\ new \notin DOMAIN player
         /\ player' = [c \in DOMAIN player \cup {new} |->
                         IF c = new THEN [net |-> n, tick |-> 0] ELSE player[c]]
         /\ players' = players \cup {n}
         /\ players' \subseteq records'
         /\ \E k \in Nat : records' = 1 .. k
<1>1. PICK k \in Nat : records = 1 .. k
  BY DEF ServerInv
<1>2. Cardinality(records) = k
  BY <1>1, FS_Interval
<1>3. players \subseteq records /\ DOMAIN player \subseteq 1 .. new - 1
  BY DEF ServerInv
<1>4. /\ n \in records \ players \/ (records \subseteq players /\ n = k + 1)
      /\ players' = players \cup {n}
      /\ records' = records \cup {n}
      /\ player' = [c \in DOMAIN player \cup {new} |->
                         IF c = new THEN [net |-> n, tick |-> 0] ELSE player[c]]
  <2>1. n \in records \ players \/ (records \subseteq players /\ n = Cardinality(records) + 1)
    BY Zenon DEF Spawn
  <2>2. n \in records \ players \/ (records \subseteq players /\ n = k + 1)
    BY <1>2, <2>1
  <2> QED
    BY <2>2, Zenon DEF Spawn
<1>5. n \in Nat /\ n \notin players
  BY <1>1, <1>3, <1>4
<1>6. \E j \in Nat : records' = 1 .. j
  <2>1. CASE n \in records
    BY <1>1, <1>4, <2>1
  <2>2. CASE n = k + 1
    <3>1. records' = 1 .. k + 1
      BY <1>1, <1>4, <2>2
    <3> QED
      BY <3>1
  <2> QED
    BY <1>4, <2>1, <2>2
<1>7. new \notin DOMAIN player
  BY <1>3
<1>8. players' \subseteq records'
  BY <1>3, <1>4
<1> QED
  BY <1>4, <1>5, <1>6, <1>7, <1>8

\* A player connects; the session's own client is told who is there.
LEMMA ConnectPlayerKeeps ==
  ASSUME PlayersInv, ConnectPlayer
  PROVE  PlayersInv'
<1>1. /\ ServerInv /\ QuietInv /\ SnapshotsInv /\ StreamInv /\ TicksInv /\ ClientInv
  BY DEF PlayersInv
<1> PICK new \in Nat \ {0} : new = nextConnection
  BY <1>1 DEF ServerInv
<1>2. /\ ~pumpDue /\ nextConnection' = new + 1
      /\ IF new = Local
           THEN Deliver(outbound, SnapshotsOf(player')) /\ pumpDue' = TRUE
           ELSE UNCHANGED <<outbound, inbox, pumpDue>>
      /\ UNCHANGED <<removals, tick, shownVars>>
      /\ UNCHANGED <<snapshots, overtaken>>
  BY DEF ConnectPlayer, shownVars
<1>3. PICK n \in 1 .. Cardinality(records) + 1 : Spawn(new, n)
  BY DEF ConnectPlayer
<1>4. /\ n \in Nat /\ n \notin players
      /\ new \notin DOMAIN player
      /\ player' = [c \in DOMAIN player \cup {new} |->
                      IF c = new THEN [net |-> n, tick |-> 0] ELSE player[c]]
      /\ players' = players \cup {n}
      /\ players' \subseteq records'
      /\ \E k \in Nat : records' = 1 .. k
  BY <1>1, <1>3, SpawnJoins
<1>5. /\ DOMAIN player' = DOMAIN player \cup {new}
      /\ player'[new] = [net |-> n, tick |-> 0]
      /\ \A c \in DOMAIN player : c # new /\ player'[c] = player[c] /\ player[c].net # n
  BY <1>1, <1>4 DEF ServerInv
<1>6. tick \in Nat /\ tick' = tick
  BY <1>1, <1>2 DEF ServerInv
<1>7. ASSUME inbox' \in Seq(Notices), outbound' \in Seq(Notices)
      PROVE  ServerInv'
  <2>1. player' \in [DOMAIN player' -> [net : Nat, tick : {0, tick'}]]
    <3>1. player \in [DOMAIN player -> [net : Nat, tick : {0, tick}]]
      BY <1>1 DEF ServerInv
    <3>2. [net |-> n, tick |-> 0] \in [net : Nat, tick : {0, tick'}]
      BY <1>4
    <3>3. \A c \in DOMAIN player' : player'[c] \in [net : Nat, tick : {0, tick'}]
      BY <1>5, <1>6, <3>1, <3>2
    <3> QED
      BY <1>4, <1>5, <3>3
  <2>2. DOMAIN player' \subseteq 1 .. nextConnection' - 1
    <3>1. DOMAIN player \subseteq 1 .. new - 1
      BY <1>1 DEF ServerInv
    <3> QED
      BY <1>2, <1>5, <3>1
  <2>3. Local \in DOMAIN player'
    BY <1>1, <1>5 DEF ServerInv, Local
  <2>4. \A c, d \in DOMAIN player' : player'[c].net = player'[d].net => c = d
    BY <1>1, <1>5 DEF ServerInv
  <2>5. players' = {player'[c].net : c \in DOMAIN player'}
    <3>1. players = {player[c].net : c \in DOMAIN player}
      BY <1>1 DEF ServerInv
    <3> QED
      BY <1>4, <1>5, <3>1
  <2>6. nextConnection' \in Nat \ {0} /\ tick' \in Nat /\ removals' \in Seq(Nat)
    BY <1>1, <1>2 DEF ServerInv
  <2> QED
    BY <1>4, <1>7, <2>1, <2>2, <2>3, <2>4, <2>5, <2>6 DEF ServerInv
<1>8. \A m \in Nat : Moving(m)' <=> Moving(m)
  BY <1>5 DEF Moving
<1>9. QuietInv'
  BY <1>2 DEF QuietInv, Local
<1>10. SnapshotsInv'
  BY <1>1, <1>2, <1>6 DEF SnapshotsInv
<1>11. Removals' = Removals
  BY <1>2 DEF Removals
<1>12. Removals \in Seq(Notices) /\ Stream \in Seq(Notices)
  BY <1>1, StreamTyped
<1>13. CASE new # Local
  <2> DEFINE A == <<>>
  <2>1. UNCHANGED <<outbound, inbox, pumpDue>>
    BY <1>2, <1>13
  <2>2. A \in Seq(Notices) /\ DOMAIN A = {}
    OBVIOUS
  <2>3. Stream' = Stream \o A
    <3>1. Stream' = Stream
      BY <1>11, <2>1 DEF Stream, Pending
    <3> QED
      BY <1>12, <3>1, JoinedEmpty
  <2>4. Local \in DOMAIN player
    BY <1>1, <1>13 DEF ServerInv, Local
  <2>5. \A m \in Nat : HoldsLocal(m)' <=> HoldsLocal(m)
    BY <1>5, <2>4 DEF HoldsLocal
  <2> HIDE DEF A
  <2>6. StreamInv'
    <3>1. \A i \in DOMAIN A, m \in Nat : A[i].net = m /\ LastAt(A, i) => A[i] = Expected(m)'
      BY <2>2
    <3>2. \A m \in Nat : Silent(A, m) =>
          /\ Moving(m)' <=> Moving(m)
          /\ HoldsLocal(m)' <=> HoldsLocal(m)
          /\ Moving(m) => tick' = tick
      BY <1>6, <1>8, <2>5
    <3> QED
      BY <1>1, <1>2, <2>2, <2>3, <3>1, <3>2, StreamGrows
  <2>7. TicksInv'
    <3>1. \A i \in DOMAIN A : IsSnapshot(A[i]) => A[i].tick = tick'
      BY <2>2
    <3>2. tick' \in Nat /\ tick <= tick' /\ snapshots' = snapshots
      BY <1>2, <1>6
    <3> QED
      BY <1>1, <2>2, <2>3, <3>1, <3>2, TicksGrow
  <2>8. ServerInv'
    BY <1>1, <1>7, <2>1 DEF ServerInv
  <2>9. ClientInv'
    BY <1>1, <1>2, <2>1, ClientStands DEF ClientInv
  <2> QED
    BY <1>9, <1>10, <2>6, <2>7, <2>8, <2>9 DEF PlayersInv
<1>14. CASE new = Local
  <2>1. DOMAIN player = {} /\ DOMAIN player' = {Local} /\ player'[Local] = [net |-> n, tick |-> 0]
    <3>1. DOMAIN player \subseteq 1 .. new - 1 /\ new = 1
      BY <1>1, <1>14 DEF ServerInv, Local
    <3>2. 1 .. 1 - 1 = {}
      OBVIOUS
    <3>3. DOMAIN player = {}
      BY <3>1, <3>2
    <3> QED
      BY <1>5, <1>14, <3>3
  <2>2. /\ tick = 0 /\ removals = <<>> /\ outbound = <<>> /\ inbox = <<>>
    BY <1>1, <1>14 DEF QuietInv
  <2> PICK A : A = SnapshotsOf(player')
    OBVIOUS
  <2>3. /\ A \in Seq(Notices)
        /\ \A i \in DOMAIN A : A[i] = Snapshot(n, 0)
        /\ \E i \in DOMAIN A : A[i] = Snapshot(n, 0)
    <3> PICK conns : conns = player'
      OBVIOUS
    <3>1. conns \in [{Local} -> [net : Nat, tick : Nat]] /\ conns[Local] = [net |-> n, tick |-> 0]
      BY <1>4, <2>1
    <3>2. Local \in Nat /\ IsFiniteSet({Local})
      <4>1. Local \in Nat
        BY DEF Local
      <4>2. IsFiniteSet({Local})
        BY FS_Singleton
      <4> QED
        BY <4>1, <4>2
    <3> DEFINE s == SnapshotsOf(conns)
    <3>3. /\ s \in Seq(Notices)
          /\ \A i \in DOMAIN s : \E c \in {Local} : s[i] = Snapshot(conns[c].net, conns[c].tick)
          /\ \A c \in {Local} : \E i \in DOMAIN s : s[i] = Snapshot(conns[c].net, conns[c].tick)
      BY <3>1, <3>2, SnapshotsOfLemma
    <3>4. A = s
      OBVIOUS
    <3> HIDE DEF s
    <3> QED
      BY <3>1, <3>3, <3>4
  <2>4. /\ inbox' \in Seq(Notices) /\ outbound' \in Seq(Notices)
        /\ inbox' \o outbound' = (inbox \o outbound) \o A
    <3>1. inbox \in Seq(Notices) /\ outbound \in Seq(Notices) /\ 0 \in 0 .. Len(outbound)
      BY <2>2
    <3>2. SubSeq(outbound, 0 + 1, Len(outbound)) = outbound
      BY <2>2
    <3>3. Deliver(SubSeq(outbound, 0 + 1, Len(outbound)), A)
      BY <1>2, <1>14, <3>2
    <3> QED
      BY <2>3, <3>1, <3>3, DeliverLemma
  <2>5. Stream' = Stream \o A
    <3>1. Removals = <<>>
      BY <2>2 DEF Removals
    <3>2. Stream = <<>>
      BY <2>2, <3>1 DEF Stream, Pending
    <3>3. inbox' \o outbound' = A
      <4>1. inbox \o outbound = <<>>
        BY <2>2
      <4> QED
        BY <2>3, <2>4, <4>1, JoinedEmpty
    <3>4. outbound' \o <<>> = outbound'
      BY <2>4, JoinedEmpty
    <3>5. Stream' = inbox' \o (outbound' \o <<>>)
      BY <1>11, <3>1 DEF Stream, Pending
    <3>6. <<>> \o A = A
      BY <2>3, JoinedEmpty
    <3> QED
      BY <3>2, <3>3, <3>4, <3>5, <3>6
  <2>6. Snapshot(n, 0).net = n /\ Snapshot(n, 0).tick = 0
    BY DEF Snapshot
  <2>7. Expected(n)' = Snapshot(n, 0)
    <3>1. ~Moving(n)'
      BY <2>1 DEF Moving
    <3>2. HoldsLocal(n)'
      BY <2>1 DEF HoldsLocal
    <3> QED
      BY <3>1, <3>2 DEF Expected
  <2>8. StreamInv'
    <3>1. \A i \in DOMAIN A, m \in Nat : A[i].net = m /\ LastAt(A, i) => A[i] = Expected(m)'
      <4> SUFFICES ASSUME NEW i \in DOMAIN A, NEW m \in Nat, A[i].net = m
                   PROVE  A[i] = Expected(m)'
        OBVIOUS
      <4>1. m = n
        BY <2>3, <2>6
      <4> QED
        BY <2>3, <2>7, <4>1
    <3>2. \A m \in Nat : Silent(A, m) =>
          /\ Moving(m)' <=> Moving(m)
          /\ HoldsLocal(m)' <=> HoldsLocal(m)
          /\ Moving(m) => tick' = tick
      <4> SUFFICES ASSUME NEW m \in Nat, Silent(A, m)
                   PROVE  HoldsLocal(m)' <=> HoldsLocal(m)
        BY <1>6, <1>8
      <4>1. m # n
        BY <2>3, <2>6 DEF Silent
      <4> QED
        BY <2>1, <4>1 DEF HoldsLocal
    <3> QED
      BY <1>1, <1>2, <2>3, <2>5, <3>1, <3>2, StreamGrows
  <2>9. TicksInv'
    <3>1. \A i \in DOMAIN A : IsSnapshot(A[i]) => A[i].tick = tick'
      BY <1>6, <2>2, <2>3, <2>6
    <3>2. tick' \in Nat /\ tick <= tick' /\ snapshots' = snapshots
      BY <1>2, <1>6
    <3> QED
      BY <1>1, <2>3, <2>5, <3>1, <3>2, TicksGrow
  <2>10. ServerInv'
    BY <1>7, <2>4
  <2>11. ClientInv'
    BY <1>1, <1>2, <1>14, ClientStands
  <2> QED
    BY <1>9, <1>10, <2>8, <2>9, <2>10, <2>11 DEF PlayersInv
<1> QED
  BY <1>13, <1>14

\* A tick: the removals that waited and a snapshot of whoever has moved follow
\* what is on its way.
LEMMA TickKeeps ==
  ASSUME PlayersInv, RunPlayerTick
  PROVE  PlayersInv'
<1>1. /\ ServerInv /\ QuietInv /\ SnapshotsInv /\ StreamInv /\ TicksInv /\ ClientInv
  BY DEF PlayersInv
<1> PICK t \in Nat : t = tick
  BY <1>1 DEF ServerInv
<1>2. /\ ~pumpDue /\ Local \in DOMAIN player
      /\ tick' = t + 1
      /\ pumpDue' = TRUE
      /\ UNCHANGED <<players, records, nextConnection, shownVars>>
      /\ UNCHANGED <<snapshots, overtaken>>
  BY DEF RunPlayerTick, shownVars
<1>3. PICK flushed \in 0 .. Len(outbound), active \in SUBSET DOMAIN player :
        LET queued == SubSeq(outbound, flushed + 1, Len(outbound))
        IN  Simulate(active) /\ Replicate(queued)
  BY DEF RunPlayerTick
<1>4. player' = [c \in DOMAIN player |->
                   IF c \in active \/ player[c].tick > 0
                     THEN [net |-> player[c].net, tick |-> t + 1]
                     ELSE player[c]]
  BY <1>3 DEF Simulate
<1>5. player \in [DOMAIN player -> [net : Nat, tick : {0, t}]]
  BY <1>1 DEF ServerInv
<1>6. /\ DOMAIN player' = DOMAIN player
      /\ \A c \in DOMAIN player :
           /\ player'[c] \in [net : Nat, tick : {0, t + 1}]
           /\ player'[c].net = player[c].net
           /\ player[c].tick > 0 => player'[c].tick > 0
  <2> SUFFICES ASSUME NEW c \in DOMAIN player
               PROVE  /\ player'[c] \in [net : Nat, tick : {0, t + 1}]
                      /\ player'[c].net = player[c].net
                      /\ player[c].tick > 0 => player'[c].tick > 0
    BY <1>4
  <2>1. player[c] \in [net : Nat, tick : {0, t}]
    BY <1>5
  <2>2. CASE c \in active \/ player[c].tick > 0
    <3>1. player'[c] = [net |-> player[c].net, tick |-> t + 1]
      BY <1>4, <2>2
    <3> QED
      BY <2>1, <3>1
  <2>3. CASE ~(c \in active \/ player[c].tick > 0)
    <3>1. player'[c] = player[c]
      BY <1>4, <2>3
    <3>2. player[c].tick = 0
      BY <2>1, <2>3
    <3> QED
      BY <2>1, <3>1, <3>2
  <2> QED
    BY <2>2, <2>3
<1> PICK D : D = {c \in DOMAIN player' : player'[c].tick > 0}
  OBVIOUS
<1> PICK conns : conns = [c \in D |-> player'[c]]
  OBVIOUS
<1> PICK A : A = SnapshotsOf(conns)
  OBVIOUS
<1> PICK R : R = Removals
  OBVIOUS
<1>7. /\ A \in Seq(Notices)
      /\ \A i \in DOMAIN A : \E c \in D : A[i] = Snapshot(player'[c].net, t + 1)
      /\ \A c \in D : \E i \in DOMAIN A : A[i] = Snapshot(player'[c].net, t + 1)
  <2>1. D \subseteq DOMAIN player /\ DOMAIN player \subseteq Nat /\ IsFiniteSet(DOMAIN player)
    BY <1>1, <1>6, ConnectionsAre
  <2>2. IsFiniteSet(D) /\ D \subseteq Nat
    <3>1. IsFiniteSet(D)
      BY <2>1, FS_Subset
    <3> QED
      BY <2>1, <3>1
  <2>3. \A c \in D : /\ conns[c] = player'[c]
                     /\ conns[c] \in [net : Nat, tick : Nat]
                     /\ player'[c].tick = t + 1
    <3> SUFFICES ASSUME NEW c \in D
                 PROVE  /\ conns[c] = player'[c]
                        /\ conns[c] \in [net : Nat, tick : Nat]
                        /\ player'[c].tick = t + 1
      OBVIOUS
    <3>1. player'[c] \in [net : Nat, tick : {0, t + 1}] /\ player'[c].tick > 0
      BY <1>6, <2>1
    <3>2. conns[c] = player'[c]
      OBVIOUS
    <3> QED
      BY <3>1, <3>2
  <2>4. conns \in [D -> [net : Nat, tick : Nat]]
    BY <2>3
  <2> DEFINE s == SnapshotsOf(conns)
  <2>5. /\ s \in Seq(Notices)
        /\ \A i \in DOMAIN s : \E c \in D : s[i] = Snapshot(conns[c].net, conns[c].tick)
        /\ \A c \in D : \E i \in DOMAIN s : s[i] = Snapshot(conns[c].net, conns[c].tick)
    BY <2>2, <2>4, SnapshotsOfLemma
  <2>6. A = s
    OBVIOUS
  <2> HIDE DEF s
  <2> QED
    BY <2>3, <2>5, <2>6
<1>8. /\ R \in Seq(Notices) /\ inbox \in Seq(Notices) /\ outbound \in Seq(Notices)
      /\ Stream = (inbox \o outbound) \o R
  BY <1>1, StreamTyped DEF ServerInv
<1>9. removals' = <<>> /\ Removals' = <<>>
  BY <1>3 DEF Replicate, Removals
<1>10. /\ inbox' \in Seq(Notices) /\ outbound' \in Seq(Notices)
       /\ inbox' \o outbound' = (inbox \o outbound) \o (R \o A)
  <2> DEFINE messages == R \o A
  <2>1. messages \in Seq(Notices)
    BY <1>7, <1>8, Joined
  <2>2. Deliver(SubSeq(outbound, flushed + 1, Len(outbound)), messages)
    BY <1>3 DEF Replicate
  <2> HIDE DEF messages
  <2>3. /\ inbox' \in Seq(Notices) /\ outbound' \in Seq(Notices)
        /\ inbox' \o outbound' = (inbox \o outbound) \o messages
    BY <1>8, <2>1, <2>2, DeliverLemma
  <2> QED
    BY <2>3 DEF messages
<1>11. Stream' = Stream \o A
  <2> DEFINE front == inbox \o outbound
  <2>1. front \in Seq(Notices)
    BY <1>8, Joined
  <2>2. Stream' = inbox' \o outbound'
    <3>1. outbound' \o <<>> = outbound'
      BY <1>10, JoinedEmpty
    <3> QED
      BY <1>9, <3>1 DEF Stream, Pending
  <2>3. inbox' \o outbound' = front \o (R \o A) /\ Stream = front \o R
    BY <1>8, <1>10
  <2> HIDE DEF front
  <2>4. A \in Seq(Notices) /\ R \in Seq(Notices)
    BY <1>7, <1>8
  <2>5. (front \o R) \o A = front \o (R \o A)
    BY <2>1, <2>4, Regrouped
  <2> QED
    BY <2>2, <2>3, <2>5
<1>12. \A n \in Nat : Snapshot(n, t + 1).net = n /\ Snapshot(n, t + 1).tick = t + 1
  BY DEF Snapshot
<1>13. \A c \in D : player'[c].net \in Nat
  BY <1>6
<1>14. StreamInv'
  <2>1. \A i \in DOMAIN A, n \in Nat : A[i].net = n /\ LastAt(A, i) => A[i] = Expected(n)'
    <3> SUFFICES ASSUME NEW i \in DOMAIN A, NEW n \in Nat, A[i].net = n
                 PROVE  A[i] = Expected(n)'
      OBVIOUS
    <3>1. PICK c \in D : A[i] = Snapshot(player'[c].net, t + 1)
      BY <1>7
    <3>2. n = player'[c].net
      BY <1>12, <1>13, <3>1
    <3>3. Moving(n)'
      BY <3>2 DEF Moving
    <3>4. Expected(n)' = Snapshot(n, t + 1)
      BY <1>2, <3>3 DEF Expected
    <3> QED
      BY <3>1, <3>2, <3>4
  <2>2. \A n \in Nat : Silent(A, n) =>
          /\ Moving(n)' <=> Moving(n)
          /\ HoldsLocal(n)' <=> HoldsLocal(n)
          /\ Moving(n) => tick' = tick
    <3> SUFFICES ASSUME NEW n \in Nat, Silent(A, n)
                 PROVE  ~Moving(n)' /\ ~Moving(n) /\ (HoldsLocal(n)' <=> HoldsLocal(n))
      OBVIOUS
    <3>1. \A c \in D : player'[c].net # n
      BY <1>7, <1>12, <1>13 DEF Silent
    <3>2. ~Moving(n)'
      BY <3>1 DEF Moving
    <3>3. ~Moving(n)
      BY <1>6, <3>1 DEF Moving
    <3>4. HoldsLocal(n)' <=> HoldsLocal(n)
      BY <1>6 DEF HoldsLocal
    <3> QED
      BY <3>2, <3>3, <3>4
  <2> QED
    BY <1>1, <1>2, <1>7, <1>11, <2>1, <2>2, StreamGrows
<1>15. TicksInv'
  <2>1. \A i \in DOMAIN A : IsSnapshot(A[i]) => A[i].tick = tick'
    BY <1>2, <1>7, <1>12, <1>13
  <2>2. tick' \in Nat /\ tick <= tick' /\ snapshots' = snapshots
    BY <1>2
  <2> QED
    BY <1>1, <1>7, <1>11, <2>1, <2>2, TicksGrow
<1>16. ServerInv'
  <2>1. player' \in [DOMAIN player' -> [net : Nat, tick : {0, tick'}]]
    BY <1>2, <1>4, <1>6
  <2>2. /\ DOMAIN player' \subseteq 1 .. nextConnection' - 1
        /\ nextConnection' > Local => Local \in DOMAIN player'
        /\ nextConnection' \in Nat \ {0} /\ tick' \in Nat
        /\ players' \subseteq records' /\ (\E k \in Nat : records' = 1 .. k)
    BY <1>1, <1>2, <1>6 DEF ServerInv
  <2>3. \A c, d \in DOMAIN player' : player'[c].net = player'[d].net => c = d
    BY <1>1, <1>6 DEF ServerInv
  <2>4. players' = {player'[c].net : c \in DOMAIN player'}
    BY <1>1, <1>2, <1>6 DEF ServerInv
  <2>5. removals' \in Seq(Nat)
    BY <1>9
  <2> QED
    BY <1>10, <2>1, <2>2, <2>3, <2>4, <2>5 DEF ServerInv
<1>17. QuietInv'
  <2>1. nextConnection' # Local
    BY <1>1, <1>2 DEF ServerInv, Local
  <2> QED
    BY <2>1 DEF QuietInv
<1>18. SnapshotsInv'
  <2>1. snapshots \in [DOMAIN snapshots -> 0 .. t] /\ 0 .. t \subseteq 0 .. t + 1
    BY <1>1 DEF SnapshotsInv
  <2>2. snapshots \in [DOMAIN snapshots -> 0 .. t + 1]
    BY <2>1
  <2> QED
    BY <1>1, <1>2, <2>2 DEF SnapshotsInv
<1>19. ClientInv'
  BY <1>1, <1>2, ClientStands
<1> QED
  BY <1>14, <1>15, <1>16, <1>17, <1>18, <1>19 DEF PlayersInv

-----------------------------------------------------------------------------
(* The step of the client.                                                    *)

\* The players of the batch, by their messages.
LEMMA BatchLemma ==
  ASSUME ServerInv
  PROVE  /\ \A n : n \in Removed <=>
                  \E i \in DOMAIN inbox : inbox[i].kind = "removal" /\ inbox[i].net = n
         /\ \A n : n \in Moved <=> \E i \in DOMAIN inbox : IsSnapshot(inbox[i]) /\ inbox[i].net = n
         /\ Removed \subseteq Nat
         /\ Moved \subseteq Nat
         /\ IsFiniteSet(Moved)
<1>1. inbox \in Seq(Notices)
  BY DEF ServerInv
<1>2. \A i \in DOMAIN inbox : inbox[i].net \in Nat
  <2>1. \A i \in DOMAIN inbox : inbox[i] \in Notices
    BY <1>1
  <2> QED
    BY <2>1 DEF Notices
<1>3. \A n : n \in Removed <=> \E i \in DOMAIN inbox : inbox[i].kind = "removal" /\ inbox[i].net = n
  BY DEF Removed, ToSet
<1>4. \A n : n \in Moved <=> \E i \in DOMAIN inbox : IsSnapshot(inbox[i]) /\ inbox[i].net = n
  BY DEF Moved, ToSet, IsSnapshot
<1>5. IsFiniteSet(Moved)
  <2> DEFINE D == DOMAIN inbox
             f == [i \in D |-> inbox[i].net]
             F == {f[i] : i \in D}
  <2>1. IsFiniteSet(D)
    <3>1. D = 1 .. Len(inbox) /\ Len(inbox) \in Nat
      BY <1>1
    <3>2. IsFiniteSet(1 .. Len(inbox))
      BY <3>1, FS_Interval
    <3> QED
      BY <3>1, <3>2
  <2>2. Moved \subseteq F
    BY <1>4
  <2> HIDE DEF f, D
  <2>3. IsFiniteSet(F)
    BY <2>1, ImageIsFinite
  <2> HIDE DEF F
  <2> QED
    BY <2>2, <2>3, FS_Subset
<1> QED
  BY <1>2, <1>3, <1>4, <1>5

\* What the batch makes of the client's record: the latest tick there is.
LEMMA TakenLemma ==
  ASSUME ServerInv, SnapshotsInv, TicksInv, NEW taken, taken = TakeSnapshots
  PROVE  /\ taken \in [DOMAIN taken -> 0 .. tick]
         /\ DOMAIN taken = (DOMAIN snapshots \ Removed) \cup Moved
         /\ DOMAIN taken \subseteq Nat
         /\ IsFiniteSet(DOMAIN taken)
         /\ \A n \in DOMAIN taken :
              /\ n \in DOMAIN snapshots => snapshots[n] <= taken[n]
              /\ \/ n \in DOMAIN snapshots /\ taken[n] = snapshots[n]
                 \/ \E i \in DOMAIN inbox : inbox[i] = Snapshot(n, taken[n])
              /\ \A k \in Nat, i \in DOMAIN inbox : inbox[i] = Snapshot(n, k) => k <= taken[n]
<1>1. /\ tick \in Nat /\ inbox \in Seq(Notices) /\ outbound \in Seq(Notices)
      /\ snapshots \in [DOMAIN snapshots -> 0 .. tick]
      /\ DOMAIN snapshots \subseteq Nat
      /\ IsFiniteSet(DOMAIN snapshots)
  BY DEF ServerInv, SnapshotsInv
<1>2. /\ \A n : n \in Moved <=> \E i \in DOMAIN inbox : IsSnapshot(inbox[i]) /\ inbox[i].net = n
      /\ Moved \subseteq Nat /\ IsFiniteSet(Moved)
  BY BatchLemma
<1>3. ASSUME NEW i \in DOMAIN inbox, IsSnapshot(inbox[i])
      PROVE  /\ inbox[i] = Snapshot(inbox[i].net, inbox[i].tick)
             /\ inbox[i].tick \in 0 .. tick
             /\ inbox[i].net \in DOMAIN snapshots => snapshots[inbox[i].net] <= inbox[i].tick
  <2>1. inbox[i] \in Notices
    BY <1>1
  <2>2. inbox[i] = Snapshot(inbox[i].net, inbox[i].tick) /\ inbox[i].tick \in Nat
    BY <1>3, <2>1 DEF Notices, IsSnapshot, Snapshot
  <2>3. Pending \in Seq(Notices)
    BY StreamTyped
  <2>4. i \in DOMAIN Stream /\ Stream[i] = inbox[i]
    BY <1>1, <2>3, Joined DEF Stream
  <2>5. /\ inbox[i].tick <= tick
        /\ inbox[i].net \in DOMAIN snapshots => snapshots[inbox[i].net] <= inbox[i].tick
    BY <1>3, <2>4 DEF TicksInv
  <2> QED
    BY <1>1, <2>2, <2>5
<1> DEFINE kept == DOMAIN snapshots \ Removed
           batch(n) == {m.tick : m \in {k \in ToSet(inbox) : k = Snapshot(n, k.tick)}}
           ticks(n) == batch(n) \cup (IF n \in kept THEN {snapshots[n]} ELSE {})
<1>4. taken = [n \in kept \cup Moved |-> Max(ticks(n))]
  BY DEF TakeSnapshots
<1>5. \A n, k : k \in batch(n) <=> \E i \in DOMAIN inbox : inbox[i] = Snapshot(n, k)
  BY DEF ToSet, Snapshot
<1>6. \A n, k : Snapshot(n, k).net = n /\ Snapshot(n, k).tick = k /\ IsSnapshot(Snapshot(n, k))
  BY DEF Snapshot, IsSnapshot
<1> HIDE DEF batch
<1>7. \A n, k : k \in batch(n) =>
        k \in 0 .. tick /\ (n \in DOMAIN snapshots => snapshots[n] <= k)
  BY <1>3, <1>5, <1>6
<1>8. ASSUME NEW n \in kept \cup Moved
      PROVE  /\ taken[n] \in ticks(n)
             /\ \A k \in ticks(n) : k <= taken[n]
             /\ taken[n] \in 0 .. tick
  <2> DEFINE T == ticks(n)
  <2>1. T \subseteq 0 .. tick
    BY <1>1, <1>7
  <2>2. T # {}
    <3>1. CASE n \in kept
      BY <3>1
    <3>2. CASE n \in Moved
      <4>1. PICK i \in DOMAIN inbox : IsSnapshot(inbox[i]) /\ inbox[i].net = n
        BY <1>2, <3>2
      <4>2. inbox[i] = Snapshot(n, inbox[i].tick)
        BY <1>3, <4>1
      <4>3. inbox[i].tick \in batch(n)
        BY <1>5, <4>2
      <4> QED
        BY <4>3
    <3> QED
      BY <3>1, <3>2
  <2>3. taken[n] = Max(T)
    BY <1>4
  <2> HIDE DEF T
  <2>4. IsFiniteSet(T) /\ T \subseteq Nat
    <3>1. IsFiniteSet(0 .. tick)
      <4>1. 0 \in Int /\ tick \in Int
        BY <1>1
      <4> QED
        BY <4>1, FS_Interval
    <3>2. IsFiniteSet(T)
      BY <2>1, <3>1, FS_Subset
    <3> QED
      BY <2>1, <3>2
  <2>5. taken[n] \in T /\ \A k \in T : k <= taken[n]
    BY <2>2, <2>3, <2>4, MaxOf
  <2> QED
    BY <2>1, <2>5 DEF T
<1>9. DOMAIN taken = kept \cup Moved
  BY <1>4
<1>10. taken \in [DOMAIN taken -> 0 .. tick]
  BY <1>4, <1>8, <1>9
<1>11. DOMAIN taken \subseteq Nat /\ IsFiniteSet(DOMAIN taken)
  <2>1. IsFiniteSet(kept)
    BY <1>1, FS_Subset
  <2>2. IsFiniteSet(kept \cup Moved)
    BY <1>2, <2>1, FS_Union
  <2> QED
    BY <1>1, <1>2, <1>9, <2>2
<1>12. ASSUME NEW n \in DOMAIN taken
       PROVE  /\ n \in DOMAIN snapshots => snapshots[n] <= taken[n]
              /\ \/ n \in DOMAIN snapshots /\ taken[n] = snapshots[n]
                 \/ \E i \in DOMAIN inbox : inbox[i] = Snapshot(n, taken[n])
              /\ \A k \in Nat, i \in DOMAIN inbox : inbox[i] = Snapshot(n, k) => k <= taken[n]
  <2>1. taken[n] \in ticks(n) /\ \A k \in ticks(n) : k <= taken[n]
    BY <1>8, <1>9
  <2>2. taken[n] \in batch(n) \/ (n \in DOMAIN snapshots /\ taken[n] = snapshots[n])
    BY <2>1
  <2>3. n \in DOMAIN snapshots => snapshots[n] <= taken[n]
    <3>1. n \in DOMAIN snapshots => snapshots[n] \in 0 .. tick
      BY <1>1
    <3> QED
      BY <1>1, <1>7, <2>2, <3>1
  <2>4. \A k \in Nat, i \in DOMAIN inbox : inbox[i] = Snapshot(n, k) => k <= taken[n]
    BY <1>5, <2>1
  <2> QED
    BY <1>5, <2>2, <2>3, <2>4
<1> QED
  BY <1>9, <1>10, <1>11, <1>12

\* A player the batch does not name keeps its snapshot; one it names last is in
\* the record as the server has it, or left with an older snapshot.
LEMMA RecordFollows ==
  ASSUME PlayersInv, NEW taken, taken = TakeSnapshots, NEW n \in Nat, Silent(Pending, n)
  PROVE  /\ n \in DOMAIN taken <=>
              Moving(n) \/ HoldsLocal(n) \/ n \in (overtaken \ (Removed \cup Moved)) \cup Overtaken
         /\ Moving(n) => taken[n] = tick
<1>1. ServerInv /\ SnapshotsInv /\ StreamInv /\ TicksInv
  BY DEF PlayersInv
<1> DEFINE I == inbox
           P == Pending
<1>2. I \in Seq(Notices) /\ P \in Seq(Notices) /\ Stream = I \o P
  BY <1>1, StreamTyped DEF ServerInv, Stream
<1>3. /\ taken \in [DOMAIN taken -> 0 .. tick]
      /\ DOMAIN taken = (DOMAIN snapshots \ Removed) \cup Moved
      /\ \A m \in DOMAIN taken :
           /\ \/ m \in DOMAIN snapshots /\ taken[m] = snapshots[m]
              \/ \E i \in DOMAIN I : I[i] = Snapshot(m, taken[m])
           /\ \A k \in Nat, i \in DOMAIN I : I[i] = Snapshot(m, k) => k <= taken[m]
  BY <1>1, TakenLemma
<1>4. /\ \A m : m \in Removed <=> \E i \in DOMAIN I : I[i].kind = "removal" /\ I[i].net = m
      /\ \A m : m \in Moved <=> \E i \in DOMAIN I : IsSnapshot(I[i]) /\ I[i].net = m
  BY <1>1, BatchLemma
<1>5. \A k : Snapshot(n, k).net = n /\ IsSnapshot(Snapshot(n, k))
  BY DEF Snapshot, IsSnapshot
<1>6. tick \in Nat
  BY <1>1 DEF ServerInv
<1>7. CASE Silent(I, n)
  <2>1. Silent(Stream, n)
    BY <1>2, <1>7, JoinedSilence
  <2>2. /\ n \in DOMAIN snapshots <=> Moving(n) \/ HoldsLocal(n) \/ n \in overtaken
        /\ Moving(n) => snapshots[n] = tick
    BY <1>1, <2>1 DEF StreamInv
  <2>3. n \notin Removed /\ n \notin Moved /\ n \notin Overtaken
    BY <1>4, <1>7 DEF Silent, Overtaken
  <2>4. n \in DOMAIN taken => taken[n] = snapshots[n]
    BY <1>3, <1>5, <1>7 DEF Silent
  <2> QED
    BY <1>3, <2>2, <2>3, <2>4
<1>8. CASE ~Silent(I, n)
  <2> HIDE DEF I, P
  <2>1. PICK i \in DOMAIN I : I[i].net = n /\ LastAt(I, i)
    BY <1>2, <1>8, LastExists
  <2>2. I[i] = Expected(n)
    <3>1. i \in DOMAIN Stream /\ Stream[i] = I[i]
      BY <1>2, Joined
    <3>2. LastAt(Stream, i)
      <4>1. Silent(P, I[i].net)
        BY <2>1 DEF P
      <4> QED
        BY <1>2, <2>1, <4>1, JoinedLast
    <3> QED
      BY <1>1, <2>1, <3>1, <3>2 DEF StreamInv
  <2>3. CASE Moving(n)
    <3>1. I[i] = Snapshot(n, tick)
      BY <2>2, <2>3 DEF Expected
    <3>2. n \in Moved
      BY <1>4, <1>5, <3>1
    <3>3. n \in DOMAIN taken /\ tick <= taken[n] /\ taken[n] \in 0 .. tick
      BY <1>3, <1>6, <3>1, <3>2
    <3> QED
      BY <1>6, <2>3, <3>3
  <2>4. CASE ~Moving(n) /\ HoldsLocal(n)
    <3>1. I[i] = Snapshot(n, 0)
      BY <2>2, <2>4 DEF Expected
    <3>2. n \in Moved
      BY <1>4, <1>5, <3>1
    <3> QED
      BY <1>3, <2>4, <3>2
  <2>5. CASE ~Moving(n) /\ ~HoldsLocal(n)
    <3>1. I[i] = Removal(n)
      BY <2>2, <2>5 DEF Expected
    <3>2. n \in Removed
      BY <1>4, <3>1 DEF Removal
    <3>3. n \in Moved => n \in Overtaken
      <4> SUFFICES ASSUME n \in Moved PROVE n \in Overtaken
        OBVIOUS
      <4>1. \A j \in i + 1 .. Len(I) : I[j].net # n
        <5> SUFFICES ASSUME NEW j \in i + 1 .. Len(I) PROVE I[j].net # n
          OBVIOUS
        <5>1. j \in DOMAIN I /\ j > i
          BY <1>2, <2>1
        <5> QED
          BY <2>1, <5>1 DEF LastAt
      <4>2. /\ i \in DOMAIN inbox /\ inbox[i] = Removal(n)
            /\ \A j \in i + 1 .. Len(inbox) : inbox[j].net # n
        BY <3>1, <4>1 DEF I
      <4> QED
        BY <3>2, <4>2 DEF Overtaken
    <3>4. n \in Overtaken => n \in Moved
      BY DEF Overtaken
    <3> QED
      BY <1>3, <2>5, <3>2, <3>3, <3>4
  <2> QED
    BY <2>3, <2>4, <2>5
<1> QED
  BY <1>7, <1>8

\* The client's objects after its record has become what is shown.
LEMMA PresentLemma ==
  ASSUME ProxiesOK(Proxies), DOMAIN objects = retained,
         retained \subseteq Nat, IsFiniteSet(retained),
         retired \subseteq Nat \X Nat, AllGone(retired, Proxies),
         NEW shown, DOMAIN shown \subseteq Nat, IsFiniteSet(DOMAIN shown),
         \A n \in DOMAIN shown : shown[n] \in Nat, Present(shown)
  PROVE  /\ retained' = DOMAIN shown
         /\ DOMAIN objects' = DOMAIN shown
         /\ \A n \in DOMAIN shown : objects'[n].revision = shown[n] + 1
         /\ ProxiesOK(Proxies)'
         /\ retired' \subseteq Nat \X Nat
         /\ AllGone(retired', Proxies')
<1> DEFINE D == DOMAIN shown
           G == retained \ D
           p == Proxies
           order == Ascending(D)
           q == UpsertAll(p, order, shown)
<1>1. PICK gone \in SetToSeqs(G) :
        /\ objects' = RemoveAll(q, gone).objects
        /\ slots' = RemoveAll(q, gone).slots
        /\ freeSlots' = RemoveAll(q, gone).free
        /\ retained' = D
        /\ retired' = retired \cup {q.objects[n].id : n \in ToSet(gone)}
  BY DEF Present
<1> DEFINE r == RemoveAll(q, gone)
<1>2. p \in ProxySets /\ p.objects = objects
  <2>1. p = [objects |-> p.objects, slots |-> p.slots, free |-> p.free] /\ p.objects = objects
    BY DEF Proxies
  <2> QED
    BY <2>1, ProxiesAre
<1>3. order \in SetToSeqs(D)
  BY AscendingEnumerates
<1>4. IsFiniteSet(G) /\ G \subseteq Nat
  <2>1. IsFiniteSet(G)
    BY FS_Subset
  <2> QED
    BY <2>1
<1>5. ToSet(gone) = G
  <2> HIDE DEF G
  <2> QED
    BY <1>4, Enumerated
<1> HIDE DEF p, order, D, G
<1>6. /\ D \subseteq Nat /\ IsFiniteSet(D) /\ \A n \in D : shown[n] \in Nat
  BY DEF D
<1>7. /\ q \in ProxySets
      /\ DOMAIN q.objects = DOMAIN p.objects \cup D
      /\ \A n \in D : q.objects[n].revision = shown[n] + 1
      /\ \A ids \in SUBSET (Nat \X Nat) : AllGone(ids, p) => AllGone(ids, q)
  BY <1>2, <1>3, <1>6, UpsertAllLemma
<1> HIDE DEF q
<1>8. /\ r \in ProxySets
      /\ DOMAIN r.objects = DOMAIN q.objects \ G
      /\ \A n \in DOMAIN r.objects : r.objects[n] = q.objects[n]
      /\ \A ids \in SUBSET (Nat \X Nat) : AllGone(ids, q) => AllGone(ids, r)
      /\ \A n \in G \cap DOMAIN q.objects : AllGone({q.objects[n].id}, r)
  BY <1>4, <1>7, RemoveAllLemma
<1>9. objects' = r.objects /\ slots' = r.slots /\ freeSlots' = r.free /\ retained' = D
      /\ retired' = retired \cup {q.objects[n].id : n \in G}
  BY <1>1, <1>5
<1> HIDE DEF r
<1>10. ProxiesOK(r) /\ r = [objects |-> r.objects, slots |-> r.slots, free |-> r.free]
  BY <1>8, ProxiesAre
<1>11. Proxies' = r
  BY <1>9, <1>10 DEF Proxies
<1>12. DOMAIN r.objects = D
  BY <1>2, <1>7, <1>8 DEF G
<1>13. \A n \in G : n \in DOMAIN q.objects /\ q.objects[n].id \in Nat \X Nat
  <2>1. ProxiesOK(q)
    BY <1>7, ProxiesAre
  <2>2. G \subseteq DOMAIN q.objects
    BY <1>2, <1>7 DEF G
  <2> QED
    BY <2>1, <2>2 DEF ProxiesOK
<1>14. \A n \in G : AllGone({q.objects[n].id}, r)
  BY <1>8, <1>13
<1>15. AllGone(retired, r)
  <2>1. retired \in SUBSET (Nat \X Nat) /\ AllGone(retired, p)
    BY DEF p
  <2> QED
    BY <1>7, <1>8, <2>1
<1>16. AllGone(retired', r)
  BY <1>9, <1>14, <1>15 DEF AllGone
<1>17. ProxiesOK(Proxies)'
  BY <1>10, <1>11
<1> QED
  BY <1>7, <1>8, <1>9, <1>11, <1>12, <1>13, <1>16, <1>17 DEF D

\* The client takes the batch and shows the players.
LEMMA SynchronizeKeeps ==
  ASSUME PlayersInv, SynchronizePlayers
  PROVE  PlayersInv'
<1>1. /\ ServerInv /\ QuietInv /\ SnapshotsInv /\ StreamInv /\ TicksInv /\ ClientInv
  BY DEF PlayersInv
<1> PICK taken : taken = TakeSnapshots
  OBVIOUS
<1> DEFINE I == inbox
           P == Pending
<1>2. /\ pumpDue' = FALSE /\ inbox' = <<>> /\ snapshots' = taken
      /\ overtaken' = (overtaken \ (Removed \cup Moved)) \cup Overtaken
      /\ IF StaleUpdate(taken)
           THEN sessionFaulted' = TRUE /\ UNCHANGED <<objects, slots, freeSlots, retained, retired>>
           ELSE Present(taken) /\ UNCHANGED sessionFaulted
      /\ UNCHANGED <<players, player, records, nextConnection, removals, tick, outbound>>
  BY DEF SynchronizePlayers, serverVars
<1>3. /\ tick \in Nat
      /\ I \in Seq(Notices) /\ P \in Seq(Notices) /\ Stream = I \o P
  BY <1>1, StreamTyped DEF ServerInv, Stream
<1>4. /\ taken \in [DOMAIN taken -> 0 .. tick]
      /\ DOMAIN taken = (DOMAIN snapshots \ Removed) \cup Moved
      /\ DOMAIN taken \subseteq Nat
      /\ IsFiniteSet(DOMAIN taken)
      /\ \A n \in DOMAIN taken :
           /\ n \in DOMAIN snapshots => snapshots[n] <= taken[n]
           /\ \/ n \in DOMAIN snapshots /\ taken[n] = snapshots[n]
              \/ \E i \in DOMAIN I : I[i] = Snapshot(n, taken[n])
  BY <1>1, TakenLemma
<1>5. Pending' = Pending /\ Stream' = P
  <2>1. Pending' = Pending
    BY <1>2 DEF Pending, Removals
  <2> QED
    BY <1>2, <1>3, <2>1, JoinedEmpty DEF Stream
<1> HIDE DEF I, P
<1>6. /\ \A n \in Nat : Moving(n)' <=> Moving(n)
      /\ \A n \in Nat : HoldsLocal(n)' <=> HoldsLocal(n)
      /\ \A n \in Nat : Expected(n)' = Expected(n)
  BY <1>2 DEF Moving, HoldsLocal, Expected
<1>7. ServerInv'
  <2>1. inbox' \in Seq(Notices)
    BY <1>2
  <2> QED
    BY <1>1, <1>2, <2>1 DEF ServerInv
<1>8. QuietInv'
  <2> SUFFICES ASSUME nextConnection' = Local
               PROVE  /\ tick' = 0
                      /\ removals' = <<>> /\ outbound' = <<>> /\ inbox' = <<>>
                      /\ DOMAIN snapshots' = {} /\ overtaken' = {}
    BY DEF QuietInv
  <2>1. /\ tick = 0 /\ removals = <<>> /\ outbound = <<>> /\ inbox = <<>>
        /\ DOMAIN snapshots = {} /\ overtaken = {}
    BY <1>1, <1>2 DEF QuietInv
  <2>2. DOMAIN inbox = {}
    BY <2>1
  <2>3. Removed = {} /\ Moved = {}
    BY <1>1, <2>2, BatchLemma
  <2>4. Overtaken = {}
    BY <2>3 DEF Overtaken
  <2> QED
    BY <1>2, <1>4, <2>1, <2>3, <2>4
<1>9. SnapshotsInv'
  <2>1. Overtaken \subseteq Nat
    BY <1>1, BatchLemma DEF Overtaken
  <2> QED
    BY <1>1, <1>2, <1>4, <2>1 DEF SnapshotsInv
<1>10. StreamInv'
  <2>1. ASSUME NEW n \in Nat, Silent(P, n)
        PROVE  /\ n \in DOMAIN snapshots' <=> Moving(n)' \/ HoldsLocal(n)' \/ n \in overtaken'
               /\ Moving(n)' => snapshots'[n] = tick'
    <3>1. Silent(Pending, n)
      BY <2>1 DEF P
    <3>2. /\ n \in DOMAIN taken <=>
               Moving(n) \/ HoldsLocal(n) \/ n \in (overtaken \ (Removed \cup Moved)) \cup Overtaken
          /\ Moving(n) => taken[n] = tick
      BY <3>1, RecordFollows
    <3> QED
      BY <1>2, <1>6, <3>2
  <2>2. ASSUME NEW i \in DOMAIN P, NEW n \in Nat, P[i].net = n, LastAt(P, i)
        PROVE  P[i] = Expected(n)'
    <3>1. Len(I) + i \in DOMAIN Stream /\ Stream[Len(I) + i] = P[i] /\ LastAt(Stream, Len(I) + i)
      BY <1>3, <2>2, Joined, JoinedLast
    <3>2. P[i] = Expected(n)
      BY <1>1, <2>2, <3>1 DEF StreamInv
    <3> QED
      BY <1>6, <3>2
  <2> QED
    BY <1>5, <2>1, <2>2 DEF StreamInv
<1>11. TicksInv'
  <2>1. /\ \A i \in DOMAIN I : i \in DOMAIN Stream /\ Stream[i] = I[i] /\ i \in Nat /\ i <= Len(I)
        /\ \A i \in DOMAIN P : Len(I) + i \in DOMAIN Stream /\ Stream[Len(I) + i] = P[i]
        /\ \A i \in DOMAIN P : i \in Nat \ {0}
        /\ Len(I) \in Nat
    BY <1>3, Joined
  <2>2. /\ \A i \in DOMAIN Stream :
             IsSnapshot(Stream[i]) =>
               /\ Stream[i].tick <= tick
               /\ Stream[i].net \in DOMAIN snapshots => snapshots[Stream[i].net] <= Stream[i].tick
        /\ \A i, j \in DOMAIN Stream :
             i < j /\ IsSnapshot(Stream[i]) /\ IsSnapshot(Stream[j]) =>
               Stream[i].tick <= Stream[j].tick
    BY <1>1 DEF TicksInv
  <2>3. ASSUME NEW i \in DOMAIN P, IsSnapshot(P[i])
        PROVE  /\ P[i].tick <= tick
               /\ P[i].net \in DOMAIN taken => taken[P[i].net] <= P[i].tick
    <3>1. /\ P[i].tick <= tick
          /\ P[i].net \in DOMAIN snapshots => snapshots[P[i].net] <= P[i].tick
      BY <2>1, <2>2, <2>3
    <3>2. ASSUME NEW n \in DOMAIN taken, n = P[i].net
          PROVE  taken[n] <= P[i].tick
      <4>1. CASE n \in DOMAIN snapshots /\ taken[n] = snapshots[n]
        BY <3>1, <3>2, <4>1
      <4>2. CASE \E j \in DOMAIN I : I[j] = Snapshot(n, taken[n])
        <5>1. PICK j \in DOMAIN I : I[j] = Snapshot(n, taken[n])
          BY <4>2
        <5>2. IsSnapshot(I[j]) /\ I[j].tick = taken[n]
          BY <5>1 DEF IsSnapshot, Snapshot
        <5>3. j < Len(I) + i
          BY <2>1
        <5> QED
          BY <2>1, <2>2, <2>3, <5>2, <5>3
      <4> QED
        BY <1>4, <4>1, <4>2
    <3> QED
      BY <3>1, <3>2
  <2>4. ASSUME NEW i \in DOMAIN P, NEW j \in DOMAIN P, i < j, IsSnapshot(P[i]), IsSnapshot(P[j])
        PROVE  P[i].tick <= P[j].tick
    <3>1. Len(I) + i < Len(I) + j
      BY <2>1, <2>4
    <3> QED
      BY <2>1, <2>2, <2>4, <3>1
  <2> QED
    BY <1>2, <1>5, <2>3, <2>4 DEF TicksInv
<1>12. ClientInv'
  <2>1. /\ ~sessionFaulted /\ retained = DOMAIN snapshots /\ DOMAIN objects = DOMAIN snapshots
        /\ \A n \in DOMAIN objects : objects[n].revision = snapshots[n] + 1
        /\ ProxiesOK(Proxies)
        /\ retired \subseteq Nat \X Nat /\ AllGone(retired, Proxies)
    BY <1>1 DEF ClientInv
  <2>2. /\ DOMAIN snapshots \subseteq Nat /\ IsFiniteSet(DOMAIN snapshots)
        /\ \A n \in DOMAIN snapshots : snapshots[n] \in Nat
    BY <1>1 DEF SnapshotsInv
  <2>3. \A n \in DOMAIN taken : taken[n] \in Nat
    BY <1>4
  <2>4. ~StaleUpdate(taken)
    <3>1. \A n \in DOMAIN objects \cap DOMAIN taken : ~(taken[n] + 1 < objects[n].revision)
      BY <1>4, <2>1, <2>2, <2>3
    <3> QED
      BY <2>1, <3>1 DEF StaleUpdate
  <2>5. Present(taken) /\ ~sessionFaulted'
    BY <1>2, <2>1, <2>4
  <2>6. /\ retained' = DOMAIN taken
        /\ DOMAIN objects' = DOMAIN taken
        /\ \A n \in DOMAIN taken : objects'[n].revision = taken[n] + 1
        /\ ProxiesOK(Proxies)'
        /\ retired' \subseteq Nat \X Nat
        /\ AllGone(retired', Proxies')
    BY <1>4, <2>1, <2>2, <2>3, <2>5, PresentLemma
  <2> QED
    BY <1>2, <2>5, <2>6 DEF ClientInv
<1> QED
  BY <1>7, <1>8, <1>9, <1>10, <1>11, <1>12 DEF PlayersInv

-----------------------------------------------------------------------------
(* The theorems.                                                              *)

\* The invariant holds in the beginning,
LEMMA PlayersStart ==
  ASSUME PlayersInit
  PROVE  PlayersInv
<1>1. /\ players = {} /\ player = <<>> /\ nextConnection = Local /\ removals = <<>>
      /\ tick = 0 /\ outbound = <<>> /\ inbox = <<>> /\ pumpDue = FALSE
      /\ snapshots = <<>> /\ objects = <<>> /\ slots = <<>> /\ freeSlots = <<>>
      /\ retained = {} /\ sessionFaulted = FALSE /\ overtaken = {} /\ retired = {}
  BY DEF PlayersInit
<1>2. DOMAIN player = {} /\ DOMAIN snapshots = {} /\ DOMAIN objects = {}
  BY <1>1
<1>3. PICK k \in 0 .. SavedPlayers : records = 1 .. k
  BY DEF PlayersInit
<1>4. k \in Nat
  BY PlayersAssumption
<1>5. ServerInv
  <2>1. player \in [DOMAIN player -> [net : Nat, tick : {0, tick}]]
    BY <1>1
  <2>2. players = {player[c].net : c \in DOMAIN player}
    BY <1>1, <1>2
  <2> QED
    BY <1>1, <1>2, <1>3, <1>4, <2>1, <2>2 DEF ServerInv, Local
<1>6. QuietInv
  BY <1>1, <1>2 DEF QuietInv
<1>7. SnapshotsInv
  <2>1. IsFiniteSet(DOMAIN snapshots)
    BY <1>2, FS_EmptySet
  <2> QED
    BY <1>1, <1>2, <2>1 DEF SnapshotsInv
<1>8. Stream = <<>> /\ DOMAIN Stream = {}
  <2>1. Removals = <<>>
    BY <1>1 DEF Removals
  <2> QED
    BY <1>1, <2>1 DEF Stream, Pending
<1>9. StreamInv
  BY <1>1, <1>2, <1>8 DEF StreamInv, Moving, HoldsLocal
<1>10. TicksInv
  BY <1>8 DEF TicksInv
<1>11. ClientInv
  <2>1. ProxiesOK(Proxies)
    <3>1. slots \in Seq(Slots) /\ freeSlots \in Seq(Nat) /\ DOMAIN freeSlots = {}
      BY <1>1
    <3>2. objects \in [DOMAIN objects -> [id : Nat \X Nat, revision : Nat]]
      BY <1>1
    <3> QED
      BY <1>2, <3>1, <3>2 DEF ProxiesOK, Proxies
  <2>2. retired \subseteq Nat \X Nat /\ AllGone(retired, Proxies)
    BY <1>1 DEF AllGone
  <2> QED
    BY <1>1, <1>2, <2>1, <2>2 DEF ClientInv
<1> QED
  BY <1>5, <1>6, <1>7, <1>9, <1>10, <1>11 DEF PlayersInv

\* every step keeps it,
LEMMA PlayersStep ==
  ASSUME PlayersInv, [PlayersNext]_playerVars
  PROVE  PlayersInv'
<1>1. CASE ConnectPlayer
  BY <1>1, ConnectPlayerKeeps
<1>2. CASE \E c \in DOMAIN player \ {Local} : DisconnectPlayer(c)
  BY <1>2, DisconnectPlayerKeeps
<1>3. CASE RunPlayerTick
  BY <1>3, TickKeeps
<1>4. CASE SynchronizePlayers
  BY <1>4, SynchronizeKeeps
<1>5. CASE UNCHANGED playerVars
  <2>1. UNCHANGED <<players, player, records, nextConnection, removals, tick, outbound, inbox,
                    pumpDue, snapshots, objects, slots, freeSlots, retained, sessionFaulted,
                    overtaken, retired>>
    BY <1>5 DEF playerVars
  <2>2. Stream' = Stream /\ Proxies' = Proxies
    BY <2>1 DEF Stream, Pending, Removals, Proxies
  <2>3. ServerInv' /\ QuietInv' /\ SnapshotsInv'
    BY <2>1 DEF PlayersInv, ServerInv, QuietInv, SnapshotsInv
  <2>4. StreamInv'
    <3>1. \A n \in Nat : /\ Moving(n)' <=> Moving(n)
                         /\ HoldsLocal(n)' <=> HoldsLocal(n)
                         /\ Expected(n)' = Expected(n)
      BY <2>1 DEF Moving, HoldsLocal, Expected
    <3> QED
      BY <2>1, <2>2, <3>1 DEF PlayersInv, StreamInv
  <2>5. TicksInv'
    BY <2>1, <2>2 DEF PlayersInv, TicksInv
  <2>6. ClientInv'
    BY <2>1, ClientStands DEF PlayersInv, ClientInv, shownVars
  <2> QED
    BY <2>3, <2>4, <2>5, <2>6 DEF PlayersInv
<1> QED
  BY <1>1, <1>2, <1>3, <1>4, <1>5 DEF PlayersNext

\* so it always holds.
LEMMA PlayersInvariant == PlayersSpec => []PlayersInv
<1>1. PlayersInit => PlayersInv
  BY PlayersStart
<1>2. PlayersInv /\ [PlayersNext]_playerVars => PlayersInv'
  BY PlayersStep
<1> QED
  BY <1>1, <1>2, PTL DEF PlayersSpec

\* The invariant says that the players are shown.
LEMMA InvariantShows ==
  ASSUME PlayersInv
  PROVE  PlayersAreShown
<1>1. /\ ServerInv /\ SnapshotsInv /\ StreamInv /\ ClientInv
  BY DEF PlayersInv
<1>2. PlayersConverge
  <2> SUFFICES ASSUME ~pumpDue, outbound = <<>>, removals = <<>>, Local \in DOMAIN player
               PROVE  LET moving == {player[c].net :
                                       c \in {k \in DOMAIN player : player[k].tick > 0}}
                      IN  /\ DOMAIN snapshots = moving \cup {player[Local].net} \cup overtaken
                          /\ \A c \in DOMAIN player :
                               player[c].tick > 0 => snapshots[player[c].net] = player[c].tick
    BY DEF PlayersConverge
  <2> DEFINE moving == {player[c].net : c \in {k \in DOMAIN player : player[k].tick > 0}}
  <2>1. DOMAIN Stream = {}
    <3>1. Removals = <<>>
      BY DEF Removals
    <3>2. inbox = <<>>
      BY <1>1 DEF ClientInv
    <3> QED
      BY <3>1, <3>2 DEF Stream, Pending
  <2>2. \A n \in Nat :
          /\ n \in DOMAIN snapshots <=> Moving(n) \/ HoldsLocal(n) \/ n \in overtaken
          /\ Moving(n) => snapshots[n] = tick
    BY <1>1, <2>1 DEF StreamInv, Silent
  <2>3. \A n : n \in moving <=> Moving(n)
    BY DEF Moving
  <2>4. \A n : n = player[Local].net <=> HoldsLocal(n)
    BY DEF HoldsLocal
  <2>5. \A c \in DOMAIN player : player[c].net \in Nat /\ player[c].tick \in {0, tick}
    BY <1>1 DEF ServerInv
  <2>6. /\ DOMAIN snapshots \subseteq Nat /\ overtaken \subseteq Nat
        /\ moving \subseteq Nat /\ player[Local].net \in Nat
    BY <1>1, <2>5 DEF SnapshotsInv
  <2> HIDE DEF moving
  <2>7. DOMAIN snapshots = moving \cup {player[Local].net} \cup overtaken
    BY <2>2, <2>3, <2>4, <2>6
  <2>8. \A c \in DOMAIN player :
          player[c].tick > 0 => snapshots[player[c].net] = player[c].tick
    <3> SUFFICES ASSUME NEW c \in DOMAIN player, player[c].tick > 0
                 PROVE  snapshots[player[c].net] = player[c].tick
      OBVIOUS
    <3>1. Moving(player[c].net) /\ player[c].tick = tick
      BY <2>5 DEF Moving
    <3> QED
      BY <2>2, <2>5, <3>1
  <2> QED
    BY <2>7, <2>8 DEF moving
<1>3. ObjectsFollowPlayers
  <2>1. /\ ~sessionFaulted /\ DOMAIN objects = DOMAIN snapshots
        /\ \A n \in DOMAIN objects : objects[n].revision = snapshots[n] + 1
        /\ ProxiesOK(Proxies) /\ AllGone(retired, Proxies)
    BY <1>1 DEF ClientInv
  <2>2. /\ \A n \in DOMAIN objects :
             /\ objects[n].id \in Nat \X Nat
             /\ slots[objects[n].id[1]] = [occupied |-> TRUE, generation |-> objects[n].id[2]]
        /\ \A n, k \in DOMAIN objects : objects[n].id[1] = objects[k].id[1] => n = k
    BY <2>1 DEF ProxiesOK, Proxies
  <2>3. \A id \in retired : id[2] < slots[id[1]].generation
    BY <2>1 DEF AllGone, Proxies
  <2>4. \A n \in DOMAIN objects : objects[n].id \notin retired
    <3> SUFFICES ASSUME NEW n \in DOMAIN objects, NEW id, id = objects[n].id, id \in retired
                 PROVE  FALSE
      OBVIOUS
    <3>1. id \in Nat \X Nat /\ slots[id[1]] = [occupied |-> TRUE, generation |-> id[2]]
      BY <2>2
    <3>2. id[2] \in Nat
      BY <3>1
    <3>3. slots[id[1]].generation = id[2]
      BY <3>1
    <3>4. id[2] < id[2]
      BY <2>3, <3>3
    <3> QED
      BY <3>2, <3>4
  <2> QED
    BY <2>1, <2>2, <2>4 DEF ObjectsFollowPlayers
<1> QED
  BY <1>2, <1>3 DEF PlayersAreShown

\* PlayersAreShown: when nothing is on its way the client's record of the
\* players is the server's, but for players whose removal arrived together with
\* an older snapshot; every player of the record is shown as one object whose id
\* no other object has or had, and no update looks stale: for any order of
\* connections, departures, takeovers, ticks and sends that fail
\* (ServerRuntime::replicate_players, ClientRuntime::synchronize and
\* ClientPresentationSynchronizer::synchronize), and any number of saved players.
THEOREM PlayersShown == PlayersSpec => []PlayersAreShown
<1>1. PlayersInv => PlayersAreShown
  BY InvariantShows
<1> QED
  BY <1>1, PlayersInvariant, PTL
=============================================================================
