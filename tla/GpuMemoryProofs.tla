-------------------------- MODULE GpuMemoryProofs --------------------------
(* The arenas stay tiled, every allocation has one owner, and nothing that a  *)
(* submission still uses is given away: for any arenas, staging ring, number  *)
(* of contexts and batches, and however far the GPU lags behind.              *)
EXTENDS GpuMemory, FoldLemmas

-----------------------------------------------------------------------------
(* Least and greatest.                                                        *)

LEMMA MinOf ==
  ASSUME NEW T, T \subseteq Nat, T # {}
  PROVE  Min(T) \in T /\ \A m \in T : Min(T) <= m
<1>1. \E n \in T : \A m \in T : n <= m
  BY LeastNumber
<1> QED
  BY <1>1 DEF Min

LEMMA MaxOfTwo ==
  ASSUME NEW a \in Nat, NEW b \in Nat
  PROVE  Max({a, b}) = IF a <= b THEN b ELSE a
<1>1. IsFiniteSet({a, b})
  <2>1. IsFiniteSet({} \cup {a})
    BY FS_EmptySet, FS_AddElement
  <2>2. IsFiniteSet(({} \cup {a}) \cup {b})
    BY <2>1, FS_AddElement
  <2>3. {a, b} = ({} \cup {a}) \cup {b}
    OBVIOUS
  <2> QED
    BY <2>2, <2>3
<1>2. Max({a, b}) \in {a, b} /\ \A m \in {a, b} : m <= Max({a, b})
  BY <1>1, MaxOf
<1> QED
  BY <1>2

-----------------------------------------------------------------------------
(* Ranges.                                                                    *)

Ranges == [offset : Nat, size : Nat \ {0}]

Holds(r, n) == r.offset <= n /\ n < r.offset + r.size

Disjoint(r, s) == r.offset + r.size <= s.offset \/ s.offset + s.size <= r.offset

\* Neither do they overlap nor touch.
Apart(f, g) == f.offset + f.size < g.offset \/ g.offset + g.size < f.offset

FreeLists == {free \in SUBSET Ranges : IsFiniteSet(free)}

Merged(free) == \A f, g \in free : f # g => Apart(f, g)

LEMMA DisjointSpans ==
  ASSUME NEW r, NEW s, r.offset \in Nat, r.size \in Nat \ {0},
         s.offset \in Nat, s.size \in Nat \ {0}
  PROVE  Disjoint(r, s) <=> \A n \in Nat : ~(Holds(r, n) /\ Holds(s, n))
<1>1. ASSUME ~Disjoint(r, s)
      PROVE  \E n \in Nat : Holds(r, n) /\ Holds(s, n)
  <2>1. CASE r.offset <= s.offset
    BY <1>1, <2>1 DEF Disjoint, Holds
  <2>2. CASE s.offset <= r.offset
    BY <1>1, <2>2 DEF Disjoint, Holds
  <2> QED
    BY <2>1, <2>2
<1>2. ASSUME Disjoint(r, s), NEW n \in Nat, Holds(r, n), Holds(s, n)
      PROVE  FALSE
  BY <1>2 DEF Disjoint, Holds
<1> QED
  BY <1>1, <1>2

Neighbours(free, range) ==
  {f \in free : f.offset + f.size = range.offset \/ range.offset + range.size = f.offset}

\* What insert_free_range makes of the range and its neighbours.
LEMMA InsertedRange ==
  ASSUME NEW free \in FreeLists, NEW r \in Ranges
  PROVE  \E lo, hi \in Nat :
           /\ InsertFreeRange(free, r) =
                (free \ Neighbours(free, r)) \cup {[offset |-> lo, size |-> hi - lo]}
           /\ \E m \in Neighbours(free, r) \cup {r} : m.offset = lo
           /\ \E m \in Neighbours(free, r) \cup {r} : m.offset + m.size = hi
           /\ \A m \in Neighbours(free, r) \cup {r} : lo <= m.offset /\ m.offset + m.size <= hi
<1> DEFINE merged == Neighbours(free, r) \cup {r}
           offsets == {f.offset : f \in merged}
           ends == {f.offset + f.size : f \in merged}
<1>1. merged \subseteq Ranges /\ r \in merged
  BY DEF Neighbours, FreeLists
<1>2. IsFiniteSet(merged)
  <2>1. IsFiniteSet(Neighbours(free, r))
    BY FS_Subset DEF Neighbours, FreeLists
  <2> QED
    BY <2>1, FS_AddElement
<1> HIDE DEF merged
<1>3. \A f \in merged : f.offset \in Nat /\ f.offset + f.size \in Nat
  BY <1>1 DEF Ranges
<1>4. offsets \subseteq Nat /\ offsets # {} /\ ends \subseteq Nat /\ ends # {}
  BY <1>1, <1>3
<1>5. IsFiniteSet(ends)
  <2> DEFINE end == [f \in merged |-> f.offset + f.size]
  <2>1. IsFiniteSet({end[f] : f \in merged})
    BY <1>2, ImageIsFinite
  <2>2. ends = {end[f] : f \in merged}
    OBVIOUS
  <2> QED
    BY <2>1, <2>2
<1>6. Min(offsets) \in offsets /\ \A m \in offsets : Min(offsets) <= m
  <2> HIDE DEF offsets
  <2> QED
    BY <1>4, MinOf
<1>7. Max(ends) \in ends /\ \A m \in ends : m <= Max(ends)
  <2> HIDE DEF ends
  <2> QED
    BY <1>4, <1>5, MaxOf
<1>8. InsertFreeRange(free, r) =
        (free \ Neighbours(free, r)) \cup
          {[offset |-> Min(offsets), size |-> Max(ends) - Min(offsets)]}
  BY DEF InsertFreeRange, Neighbours, merged
<1>9. /\ \E m \in merged : m.offset = Min(offsets)
      /\ \E m \in merged : m.offset + m.size = Max(ends)
      /\ \A m \in merged : Min(offsets) <= m.offset /\ m.offset + m.size <= Max(ends)
  BY <1>6, <1>7
<1>10. Min(offsets) \in Nat /\ Max(ends) \in Nat
  BY <1>4, <1>6, <1>7
<1> HIDE DEF offsets, ends
<1> QED
  BY <1>8, <1>9, <1>10 DEF merged

LEMMA InsertKeepsLists ==
  ASSUME NEW free \in FreeLists, NEW r \in Ranges
  PROVE  InsertFreeRange(free, r) \in FreeLists
<1>1. PICK lo, hi \in Nat :
           /\ InsertFreeRange(free, r) =
                (free \ Neighbours(free, r)) \cup {[offset |-> lo, size |-> hi - lo]}
           /\ lo <= r.offset /\ r.offset + r.size <= hi
  BY InsertedRange
<1>2. [offset |-> lo, size |-> hi - lo] \in Ranges
  BY <1>1 DEF Ranges
<1>3. IsFiniteSet(free \ Neighbours(free, r))
  BY FS_Subset DEF FreeLists
<1>4. IsFiniteSet(InsertFreeRange(free, r))
  <2>1. IsFiniteSet((free \ Neighbours(free, r)) \cup {[offset |-> lo, size |-> hi - lo]})
    BY <1>3, FS_AddElement, Zenon
  <2> QED
    BY <1>1, <2>1
<1> QED
  BY <1>1, <1>2, <1>4 DEF FreeLists

\* The list stays merged, and the range is free in addition to what was.
LEMMA InsertMerges ==
  ASSUME NEW free \in FreeLists, NEW r \in Ranges, Merged(free),
         \A f \in free : Disjoint(f, r)
  PROVE  /\ Merged(InsertFreeRange(free, r))
         /\ \A n \in Nat : (\E f \in InsertFreeRange(free, r) : Holds(f, n)) <=>
                           Holds(r, n) \/ \E f \in free : Holds(f, n)
<1> DEFINE near == Neighbours(free, r)
<1>1. PICK lo \in Nat, hi \in Nat :
           /\ InsertFreeRange(free, r) = (free \ near) \cup {[offset |-> lo, size |-> hi - lo]}
           /\ \E m \in near \cup {r} : m.offset = lo
           /\ \E m \in near \cup {r} : m.offset + m.size = hi
           /\ \A m \in near \cup {r} : lo <= m.offset /\ m.offset + m.size <= hi
  BY InsertedRange
<1> DEFINE new == [offset |-> lo, size |-> hi - lo]
<1>2. \A f \in free \cup {r} : f.offset \in Nat /\ f.size \in Nat /\ f.size > 0
  BY DEF FreeLists, Ranges
<1>3. \A f \in near : f \in free /\ (\/ f.offset + f.size = r.offset
                                     \/ r.offset + r.size = f.offset)
  BY DEF Neighbours
<1>4. lo <= r.offset /\ r.offset + r.size <= hi
  BY <1>1
<1>5. lo = r.offset \/ \E m \in near : m.offset = lo /\ m.offset + m.size = r.offset
  <2>1. PICK m \in near \cup {r} : m.offset = lo
    BY <1>1
  <2>2. CASE m = r
    BY <2>1, <2>2
  <2>3. CASE m \in near
    <3>1. m.offset + m.size = r.offset \/ r.offset + r.size = m.offset
      BY <1>3, <2>3
    <3>2. r.offset + r.size # m.offset
      BY <1>2, <1>4, <2>1
    <3> QED
      BY <2>1, <2>3, <3>1, <3>2
  <2> QED
    BY <2>1, <2>2, <2>3
<1>6. hi = r.offset + r.size
      \/ \E m \in near : m.offset + m.size = hi /\ m.offset = r.offset + r.size
  <2>1. PICK m \in near \cup {r} : m.offset + m.size = hi
    BY <1>1
  <2>2. CASE m = r
    BY <2>1, <2>2
  <2>3. CASE m \in near
    <3>1. m.offset + m.size = r.offset \/ r.offset + r.size = m.offset
      BY <1>3, <2>3
    <3>2. m.offset + m.size # r.offset
      BY <1>2, <1>4, <2>1
    <3> QED
      BY <2>1, <2>3, <3>1, <3>2
  <2> QED
    BY <2>1, <2>2, <2>3
<1>7. ASSUME NEW f \in free \ near
      PROVE  f.offset + f.size < lo \/ hi < f.offset
  <2>1. Disjoint(f, r) /\ f.offset + f.size # r.offset /\ r.offset + r.size # f.offset
    BY DEF Neighbours
  <2>2. \A m \in near : Apart(f, m)
    BY <1>3 DEF Merged
  <2>3. CASE f.offset + f.size < r.offset
    <3>1. CASE lo = r.offset
      BY <2>3, <3>1
    <3>2. ASSUME NEW m \in near, m.offset = lo, m.offset + m.size = r.offset
          PROVE  f.offset + f.size < lo
      <4>1. Apart(f, m) /\ m.offset \in Nat /\ m.size \in Nat
        BY <1>2, <1>3, <2>2
      <4> QED
        BY <1>2, <2>3, <3>2, <4>1 DEF Apart
    <3> QED
      BY <1>5, <3>1, <3>2
  <2>4. CASE r.offset + r.size < f.offset
    <3>1. CASE hi = r.offset + r.size
      BY <2>4, <3>1
    <3>2. ASSUME NEW m \in near, m.offset + m.size = hi, m.offset = r.offset + r.size
          PROVE  hi < f.offset
      <4>1. Apart(f, m) /\ m.offset \in Nat /\ m.size \in Nat
        BY <1>2, <1>3, <2>2
      <4> QED
        BY <1>2, <2>4, <3>2, <4>1 DEF Apart
    <3> QED
      BY <1>6, <3>1, <3>2
  <2> QED
    BY <1>2, <2>1, <2>3, <2>4 DEF Disjoint
<1>8. new.offset = lo /\ new.offset + new.size = hi
  BY <1>1
<1>9. Merged(InsertFreeRange(free, r))
  <2> SUFFICES ASSUME NEW f \in (free \ near) \cup {new}, NEW g \in (free \ near) \cup {new},
                      f # g
               PROVE  Apart(f, g)
    BY <1>1 DEF Merged
  <2>1. CASE f = new
    BY <1>7, <1>8, <2>1 DEF Apart
  <2>2. CASE g = new
    BY <1>7, <1>8, <2>2 DEF Apart
  <2>3. CASE f # new /\ g # new
    BY <2>3 DEF Merged
  <2> QED
    BY <2>1, <2>2, <2>3
<1>10. ASSUME NEW n \in Nat
       PROVE  Holds(new, n) <=> \E m \in near \cup {r} : Holds(m, n)
  <2>1. ASSUME NEW m \in near \cup {r}, Holds(m, n)
        PROVE  Holds(new, n)
    <3>1. lo <= m.offset /\ m.offset + m.size <= hi /\ m.offset \in Nat /\ m.size \in Nat
      BY <1>1, <1>2, <1>3
    <3> QED
      BY <1>8, <2>1, <3>1 DEF Holds
  <2>2. ASSUME Holds(new, n)
        PROVE  \E m \in near \cup {r} : Holds(m, n)
    <3>1. lo <= n /\ n < hi
      BY <1>8, <2>2 DEF Holds
    <3>2. CASE n < r.offset
      BY <1>5, <3>1, <3>2 DEF Holds
    <3>3. CASE r.offset + r.size <= n
      BY <1>6, <3>1, <3>3 DEF Holds
    <3>4. CASE r.offset <= n /\ n < r.offset + r.size
      BY <3>4 DEF Holds
    <3> QED
      BY <1>2, <3>2, <3>3, <3>4
  <2> QED
    BY <2>1, <2>2
<1>11. ASSUME NEW n \in Nat
       PROVE  (\E f \in InsertFreeRange(free, r) : Holds(f, n)) <=>
              Holds(r, n) \/ \E f \in free : Holds(f, n)
  <2> HIDE DEF new
  <2>1. (\E f \in InsertFreeRange(free, r) : Holds(f, n)) <=>
        (\E f \in free \ near : Holds(f, n)) \/ Holds(new, n)
    BY <1>1 DEF new
  <2>2. near \subseteq free
    BY <1>3
  <2> HIDE DEF near
  <2> QED
    BY <1>10, <2>1, <2>2
<1> QED
  BY <1>9, <1>11

\* Ranges that are freed one after the other are free in addition to what was.
LEMMA FreeingFolds ==
  ASSUME NEW free \in FreeLists, Merged(free), NEW S, S \subseteq Ranges, IsFiniteSet(S),
         \A r, s \in S : r # s => Disjoint(r, s),
         \A r \in S, f \in free : Disjoint(f, r)
  PROVE  LET new == InsertFreeRanges(free, S)
         IN  /\ new \in FreeLists
             /\ Merged(new)
             /\ \A n \in Nat : (\E f \in new : Holds(f, n)) <=>
                               \/ \E f \in free : Holds(f, n)
                               \/ \E r \in S : Holds(r, n)
<1> DEFINE Law(g) == g = [T \in SUBSET S |->
                            IF T = {} THEN free
                            ELSE InsertFreeRange(g[T \ {CHOOSE x \in T : TRUE}],
                                                 CHOOSE x \in T : TRUE)]
           it == CHOOSE g : Law(g)
           new == InsertFreeRanges(free, S)
           pick == [T \in SUBSET S |-> CHOOSE x \in T : TRUE]
           step == [p \in S \X FreeLists |-> InsertFreeRange(p[2], p[1])]
<1>1. new = it[S]
  BY Zenon DEF InsertFreeRanges, FoldSet, MapThenFoldSet
<1>2. \A T \in SUBSET S : T # {} => pick[T] \in T
  OBVIOUS
<1>3. \A T \in SUBSET S : pick[T] = CHOOSE x \in T : TRUE
  OBVIOUS
<1>4. \A x \in S, list \in FreeLists : step[<<x, list>>] = InsertFreeRange(list, x)
  OBVIOUS
<1>5. step \in [S \X FreeLists -> FreeLists]
  <2> SUFFICES ASSUME NEW x \in S, NEW list \in FreeLists
               PROVE  InsertFreeRange(list, x) \in FreeLists
    OBVIOUS
  <2> QED
    BY InsertKeepsLists
<1> HIDE DEF pick, step
<1>6. PICK g \in [SUBSET S -> FreeLists] : IsFold(g, S, free, pick, step)
  BY <1>2, <1>5, FoldExists
<1>7. Law(g)
  <2>1. ASSUME NEW T \in SUBSET S
        PROVE  (IF T = {} THEN free ELSE step[<<pick[T], g[T \ {pick[T]}]>>])
               = IF T = {} THEN free
                 ELSE InsertFreeRange(g[T \ {CHOOSE x \in T : TRUE}], CHOOSE x \in T : TRUE)
    <3>1. CASE T = {}
      BY <3>1
    <3>2. CASE T # {}
      <4>1. pick[T] \in S /\ g[T \ {pick[T]}] \in FreeLists
        BY <1>2, <1>6, <3>2
      <4>2. step[<<pick[T], g[T \ {pick[T]}]>>] = InsertFreeRange(g[T \ {pick[T]}], pick[T])
        BY <1>4, <4>1
      <4> QED
        BY <1>3, <3>2, <4>2
    <3> QED
      BY <3>1, <3>2
  <2>2. g = [T \in SUBSET S |-> IF T = {} THEN free ELSE step[<<pick[T], g[T \ {pick[T]}]>>]]
    BY <1>6 DEF IsFold
  <2>3. [T \in SUBSET S |-> IF T = {} THEN free ELSE step[<<pick[T], g[T \ {pick[T]}]>>]]
        = [T \in SUBSET S |-> IF T = {} THEN free
             ELSE InsertFreeRange(g[T \ {CHOOSE x \in T : TRUE}], CHOOSE x \in T : TRUE)]
    BY <2>1
  <2> QED
    BY <2>2, <2>3
<1> HIDE DEF Law, new
<1>8. Law(it)
  BY <1>7
<1> HIDE DEF it
<1>9. ASSUME NEW T \in SUBSET S
      PROVE  /\ T = {} => it[T] = free
             /\ T # {} => \E x \in T : it[T] = InsertFreeRange(it[T \ {x}], x)
  <2>1. it[T] = IF T = {} THEN free
                ELSE InsertFreeRange(it[T \ {CHOOSE x \in T : TRUE}], CHOOSE x \in T : TRUE)
    BY <1>8 DEF Law
  <2>2. T # {} => (CHOOSE x \in T : TRUE) \in T
    OBVIOUS
  <2> QED
    BY <2>1, <2>2
<1> DEFINE Right(list, T) ==
             /\ list \in FreeLists
             /\ Merged(list)
             /\ \A n \in Nat : (\E f \in list : Holds(f, n)) <=>
                               \/ \E f \in free : Holds(f, n)
                               \/ \E r \in T : Holds(r, n)
           G == {T \in SUBSET S : Right(it[T], T)}
<1>10. ASSUME NEW T \in SUBSET S, \A x \in T : T \ {x} \in G
       PROVE  T \in G
  <2>1. CASE T = {}
    BY <1>9, <2>1
  <2>2. CASE T # {}
    <3>1. PICK x \in T : it[T] = InsertFreeRange(it[T \ {x}], x)
      BY <1>9, <2>2
    <3> DEFINE list == it[T \ {x}]
    <3>2. Right(list, T \ {x})
      BY <1>10
    <3>3. x \in Ranges
      OBVIOUS
    <3> HIDE DEF list
    <3>4. ASSUME NEW f \in list
          PROVE  Disjoint(f, x)
      <4>1. f \in Ranges
        BY <3>2 DEF FreeLists
      <4>2. ASSUME NEW n \in Nat, Holds(f, n), Holds(x, n)
            PROVE  FALSE
        <5>1. PICK q \in free \cup (T \ {x}) : Holds(q, n)
          BY <3>2, <4>2
        <5>2. Disjoint(q, x)
          BY <5>1
        <5>3. q \in Ranges
          BY DEF FreeLists
        <5> QED
          BY <3>3, <4>2, <5>1, <5>2, <5>3, DisjointSpans DEF Ranges
      <4> QED
        BY <3>3, <4>1, <4>2, DisjointSpans DEF Ranges
    <3>5. /\ InsertFreeRange(list, x) \in FreeLists
          /\ Merged(InsertFreeRange(list, x))
          /\ \A n \in Nat : (\E f \in InsertFreeRange(list, x) : Holds(f, n)) <=>
                            Holds(x, n) \/ \E f \in list : Holds(f, n)
      BY <3>2, <3>3, <3>4, InsertKeepsLists, InsertMerges
    <3>6. ASSUME NEW n \in Nat
          PROVE  (\E f \in it[T] : Holds(f, n)) <=>
                               \/ \E f \in free : Holds(f, n)
                               \/ \E r \in T : Holds(r, n)
      <4>1. (\E f \in it[T] : Holds(f, n)) <=> Holds(x, n) \/ \E f \in list : Holds(f, n)
        BY <3>1, <3>5 DEF list
      <4>2. (\E f \in list : Holds(f, n)) <=>
                               \/ \E f \in free : Holds(f, n)
                               \/ \E r \in T \ {x} : Holds(r, n)
        BY <3>2
      <4> QED
        BY <4>1, <4>2
    <3>7. Right(it[T], T)
      BY <3>1, <3>5, <3>6 DEF list
    <3> QED
      BY <3>7
  <2> QED
    BY <2>1, <2>2
<1> HIDE DEF G, Right
<1>11. Inductive(S, G)
  BY <1>10 DEF Inductive
<1>12. S \in G
  <2>1. SUBSET S \subseteq G
    BY <1>11, SubsetInduction
  <2> QED
    BY <2>1
<1>13. Right(new, S)
  BY <1>1, <1>12 DEF G
<1> QED
  BY <1>13 DEF Right, new

-----------------------------------------------------------------------------
(* An arena.                                                                  *)

Allocations == [block : Nat, offset : Nat, size : Nat \ {0}]

Arenas ==
  [blocks : Seq([capacity : Nat, free : FreeLists]),
   live : SUBSET Allocations,
   retired : SUBSET [allocation : Allocations, serial : Nat]]

\* A block is tiled by its free ranges and its allocations.
BlockOK(blocks, live, b) ==
  /\ Merged(blocks[b].free)
  /\ \A f \in blocks[b].free : /\ f.offset + f.size <= blocks[b].capacity
                               /\ \A a \in live : a.block = b => Disjoint(f, a)
  /\ \A n \in Nat : n < blocks[b].capacity =>
        \/ \E f \in blocks[b].free : Holds(f, n)
        \/ \E a \in live : a.block = b /\ Holds(a, n)

LiveOK(blocks, live) ==
  /\ IsFiniteSet(live)
  /\ \A a \in live : /\ a.block \in DOMAIN blocks
                     /\ a.offset + a.size <= blocks[a.block].capacity
  /\ \A a, d \in live : a # d /\ a.block = d.block => Disjoint(a, d)

RetiredOK(live, retired) ==
  /\ IsFiniteSet(retired)
  /\ \A r \in retired : r.allocation \in live
  /\ \A r, q \in retired : r.allocation = q.allocation => r = q

ArenaOK(a) ==
  /\ a \in Arenas
  /\ LiveOK(a.blocks, a.live)
  /\ \A b \in DOMAIN a.blocks : BlockOK(a.blocks, a.live, b)
  /\ RetiredOK(a.live, a.retired)

Unretired(a) == a.live \ Retired(a)

LEMMA ArenaFields ==
  ASSUME NEW a, a \in Arenas
  PROVE  /\ a.blocks \in Seq([capacity : Nat, free : FreeLists])
         /\ DOMAIN a.blocks = 1 .. Len(a.blocks) /\ Len(a.blocks) \in Nat
         /\ \A b \in DOMAIN a.blocks : /\ a.blocks[b].capacity \in Nat
                                       /\ a.blocks[b].free \in FreeLists
                                       /\ a.blocks[b] \in [capacity : Nat, free : FreeLists]
         /\ a.live \subseteq Allocations
         /\ \A r \in a.retired : r.allocation \in Allocations /\ r.serial \in Nat
         /\ a = [blocks |-> a.blocks, live |-> a.live, retired |-> a.retired]
<1> DEFINE Block == [capacity : Nat, free : FreeLists]
<1>1. /\ a.blocks \in Seq(Block)
      /\ a.live \subseteq Allocations
      /\ a.retired \subseteq [allocation : Allocations, serial : Nat]
      /\ a = [blocks |-> a.blocks, live |-> a.live, retired |-> a.retired]
  BY DEF Arenas
<1>2. \A r \in a.retired : r.allocation \in Allocations /\ r.serial \in Nat
  BY <1>1
<1>3. DOMAIN a.blocks = 1 .. Len(a.blocks) /\ Len(a.blocks) \in Nat
      /\ \A b \in DOMAIN a.blocks : a.blocks[b] \in Block
  <2> HIDE DEF Block
  <2> QED
    BY <1>1
<1>4. \A b \in DOMAIN a.blocks : a.blocks[b].capacity \in Nat /\ a.blocks[b].free \in FreeLists
  BY <1>3
<1> QED
  BY <1>1, <1>2, <1>3, <1>4

LEMMA SizesOfRanges ==
  /\ \A r \in Ranges : r.offset \in Nat /\ r.size \in Nat \ {0}
  /\ \A a \in Allocations : a.block \in Nat /\ a.offset \in Nat /\ a.size \in Nat \ {0}
BY DEF Ranges, Allocations

\* Tiled follows.
LEMMA TiledArena ==
  ASSUME NEW a, ArenaOK(a)
  PROVE  Tiled(a)
<1> SUFFICES ASSUME NEW b \in DOMAIN a.blocks
             PROVE  LET free == a.blocks[b].free
                        taken == {d \in a.live : d.block = b}
                        pieces == {<<"free", f.offset, f.size>> : f \in free}
                                  \cup {<<"live", d.offset, d.size>> : d \in taken}
                    IN /\ UNION {Span(p[2], p[3]) : p \in pieces} = Span(0, a.blocks[b].capacity)
                       /\ \A p, q \in pieces : p # q => Span(p[2], p[3]) \cap Span(q[2], q[3]) = {}
                       /\ \A f, g \in free : f.offset + f.size # g.offset
  BY DEF Tiled
<1> DEFINE free == a.blocks[b].free
           taken == {d \in a.live : d.block = b}
           pieces == {<<"free", f.offset, f.size>> : f \in free}
                     \cup {<<"live", d.offset, d.size>> : d \in taken}
           capacity == a.blocks[b].capacity
<1>1. /\ capacity \in Nat /\ free \in FreeLists
      /\ \A f \in free : f \in Ranges /\ f.offset \in Nat /\ f.size \in Nat \ {0}
      /\ \A d \in taken : d \in Allocations /\ d.offset \in Nat /\ d.size \in Nat \ {0}
  <2>1. a.blocks[b].capacity \in Nat /\ a.blocks[b].free \in FreeLists
        /\ a.live \subseteq Allocations
    BY ArenaFields DEF ArenaOK
  <2>2. \A f \in free : f \in Ranges
    BY <2>1 DEF FreeLists
  <2> QED
    BY <2>1, <2>2, SizesOfRanges
<1>2. BlockOK(a.blocks, a.live, b) /\ LiveOK(a.blocks, a.live)
  BY DEF ArenaOK
<1>3. /\ Merged(free)
      /\ \A f \in free : /\ f.offset + f.size <= capacity
                         /\ \A d \in taken : Disjoint(f, d)
      /\ \A n \in Nat : n < capacity => \/ \E f \in free : Holds(f, n)
                                        \/ \E d \in taken : Holds(d, n)
  BY <1>2 DEF BlockOK
<1>4. \A d \in taken : d.offset + d.size <= capacity
  BY <1>2 DEF LiveOK
<1>5. \A d, e \in taken : d # e => Disjoint(d, e)
  BY <1>2 DEF LiveOK
<1> HIDE DEF free, taken, capacity
<1>6. \A p \in pieces : \/ \E f \in free : p = <<"free", f.offset, f.size>>
                        \/ \E d \in taken : p = <<"live", d.offset, d.size>>
  OBVIOUS
<1>7. \A f \in free : <<"free", f.offset, f.size>> \in pieces
  OBVIOUS
<1>8. \A d \in taken : <<"live", d.offset, d.size>> \in pieces
  OBVIOUS
<1>9. \A p \in pieces : /\ p[2] \in Nat /\ p[3] \in Nat /\ p[2] + p[3] <= capacity
  BY <1>1, <1>3, <1>4, <1>6
<1>10. \A p \in pieces : Span(p[2], p[3]) \subseteq Span(0, capacity)
  BY <1>1, <1>9 DEF Span
<1>11. ASSUME NEW n \in Span(0, capacity)
       PROVE  \E p \in pieces : n \in Span(p[2], p[3])
  <2>1. n \in Nat /\ n < capacity
    BY <1>1 DEF Span
  <2>2. CASE \E f \in free : Holds(f, n)
    <3>1. PICK f \in free : Holds(f, n)
      BY <2>2
    <3>2. n \in Span(f.offset, f.size)
      BY <1>1, <2>1, <3>1 DEF Holds, Span
    <3> QED
      BY <1>7, <3>2
  <2>3. CASE \E d \in taken : Holds(d, n)
    <3>1. PICK d \in taken : Holds(d, n)
      BY <2>3
    <3>2. n \in Span(d.offset, d.size)
      BY <1>1, <2>1, <3>1 DEF Holds, Span
    <3> QED
      BY <1>8, <3>2
  <2> QED
    BY <1>3, <2>1, <2>2, <2>3
<1>12. ASSUME NEW r, NEW s, Disjoint(r, s), r.offset \in Nat, r.size \in Nat \ {0},
              s.offset \in Nat, s.size \in Nat \ {0}
       PROVE  Span(r.offset, r.size) \cap Span(s.offset, s.size) = {}
  BY <1>12 DEF Disjoint, Span
<1>13. \A f, g \in free : f # g => Disjoint(f, g) /\ Disjoint(g, f)
  <2> SUFFICES ASSUME NEW f \in free, NEW g \in free, f # g
               PROVE  Disjoint(f, g) /\ Disjoint(g, f)
    OBVIOUS
  <2>1. Apart(f, g)
    BY <1>3 DEF Merged
  <2> QED
    BY <1>1, <2>1 DEF Apart, Disjoint
<1>14. ASSUME NEW p \in pieces, NEW q \in pieces, p # q
       PROVE  Span(p[2], p[3]) \cap Span(q[2], q[3]) = {}
  <2>1. ASSUME NEW f \in free, NEW g \in free, p = <<"free", f.offset, f.size>>,
               q = <<"free", g.offset, g.size>>
        PROVE  Span(p[2], p[3]) \cap Span(q[2], q[3]) = {}
    <3>1. Disjoint(f, g)
      BY <1>13, <1>14, <2>1
    <3>2. Span(f.offset, f.size) \cap Span(g.offset, g.size) = {}
      BY <1>1, <1>12, <3>1
    <3> QED
      BY <2>1, <3>2
  <2>2. ASSUME NEW f \in free, NEW d \in taken, p = <<"free", f.offset, f.size>>,
               q = <<"live", d.offset, d.size>>
        PROVE  Span(p[2], p[3]) \cap Span(q[2], q[3]) = {}
    <3>1. Span(f.offset, f.size) \cap Span(d.offset, d.size) = {}
      BY <1>1, <1>3, <1>12
    <3> QED
      BY <2>2, <3>1
  <2>3. ASSUME NEW f \in free, NEW d \in taken, q = <<"free", f.offset, f.size>>,
               p = <<"live", d.offset, d.size>>
        PROVE  Span(p[2], p[3]) \cap Span(q[2], q[3]) = {}
    <3>1. Span(f.offset, f.size) \cap Span(d.offset, d.size) = {}
      BY <1>1, <1>3, <1>12
    <3> QED
      BY <2>3, <3>1
  <2>4. ASSUME NEW d \in taken, NEW e \in taken, p = <<"live", d.offset, d.size>>,
               q = <<"live", e.offset, e.size>>
        PROVE  Span(p[2], p[3]) \cap Span(q[2], q[3]) = {}
    <3>1. Disjoint(d, e)
      BY <1>5, <1>14, <2>4
    <3>2. Span(d.offset, d.size) \cap Span(e.offset, e.size) = {}
      BY <1>1, <1>12, <3>1
    <3> QED
      BY <2>4, <3>2
  <2> QED
    BY <1>6, <2>1, <2>2, <2>3, <2>4
<1>15. ASSUME NEW f \in free, NEW g \in free
       PROVE  f.offset + f.size # g.offset
  <2>1. CASE f = g
    BY <1>1, <2>1
  <2>2. CASE f # g
    <3>1. Apart(f, g)
      BY <1>3, <2>2 DEF Merged
    <3> QED
      BY <1>1, <3>1 DEF Apart
  <2> QED
    BY <2>1, <2>2
<1> HIDE DEF pieces
<1>16. UNION {Span(p[2], p[3]) : p \in pieces} = Span(0, capacity)
  BY <1>10, <1>11
<1>17. \A p, q \in pieces : p # q => Span(p[2], p[3]) \cap Span(q[2], q[3]) = {}
  BY <1>14
<1> QED
  BY <1>15, <1>16, <1>17 DEF pieces, free, taken, capacity

\* The empty arena.
LEMMA EmptyArenaOK ==
  ArenaOK(EmptyArena) /\ EmptyArena.live = {} /\ EmptyArena.retired = {}
<1>1. EmptyArena.blocks = <<>> /\ EmptyArena.live = {} /\ EmptyArena.retired = {}
  BY DEF EmptyArena
<1>2. EmptyArena \in Arenas
  BY DEF EmptyArena, Arenas
<1>3. IsFiniteSet({}) /\ DOMAIN <<>> = {}
  BY FS_EmptySet
<1> QED
  BY <1>1, <1>2, <1>3 DEF ArenaOK, LiveOK, RetiredOK

\* What is retired keeps its place.
LEMMA RetireLemma ==
  ASSUME NEW a, ArenaOK(a), NEW X, NEW serial \in Nat
  PROVE  LET new == Retire(a, X, serial)
         IN  /\ ArenaOK(new)
             /\ new.live = a.live
             /\ Unretired(new) = Unretired(a) \ X
             /\ a.retired \subseteq new.retired
             /\ \A r \in new.retired \ a.retired :
                   r.allocation \in X \cap Unretired(a) /\ r.serial = serial
<1> DEFINE new == Retire(a, X, serial)
           gone == (X \cap a.live) \ Retired(a)
           made == {[allocation |-> d, serial |-> serial] : d \in gone}
<1>1. new = [blocks |-> a.blocks, live |-> a.live, retired |-> a.retired \cup made]
  <2>1. new = [a EXCEPT !.retired = a.retired \cup made]
    BY DEF Retire
  <2> HIDE DEF new, made
  <2> QED
    BY <2>1 DEF ArenaOK, Arenas
<1>2. new.blocks = a.blocks /\ new.live = a.live /\ new.retired = a.retired \cup made
  BY <1>1
<1>3. gone \subseteq Allocations /\ gone = X \cap Unretired(a)
  BY ArenaFields DEF ArenaOK, Unretired
<1>4. made \subseteq [allocation : Allocations, serial : Nat]
  BY <1>3
<1>5. \A r \in made : r.allocation \in gone /\ r.serial = serial
  OBVIOUS
<1>6. \A d \in gone : \E r \in made : r.allocation = d
  <2> SUFFICES ASSUME NEW d \in gone PROVE \E r \in made : r.allocation = d
    OBVIOUS
  <2>1. [allocation |-> d, serial |-> serial] \in made
    OBVIOUS
  <2> QED
    BY <2>1
<1>7. IsFiniteSet(made)
  <2> DEFINE record == [d \in gone |-> [allocation |-> d, serial |-> serial]]
  <2>1. IsFiniteSet(gone)
    <3>1. IsFiniteSet(a.live) /\ gone \subseteq a.live
      BY DEF ArenaOK, LiveOK
    <3> QED
      BY <3>1, FS_Subset
  <2>2. IsFiniteSet({record[d] : d \in gone})
    BY <2>1, ImageIsFinite
  <2>3. {record[d] : d \in gone} = made
    OBVIOUS
  <2> QED
    BY <2>2, <2>3
<1>8. \A r, q \in made : r.allocation = q.allocation => r = q
  OBVIOUS
<1>9. new \in Arenas
  BY <1>1, <1>4, ArenaFields DEF ArenaOK, Arenas
<1> HIDE DEF made, gone
<1>10. RetiredOK(new.live, new.retired)
  <2>1. RetiredOK(a.live, a.retired)
    BY DEF ArenaOK
  <2>2. IsFiniteSet(a.retired \cup made)
    BY <1>7, <2>1, FS_Union DEF RetiredOK
  <2>3. \A r \in a.retired \cup made : r.allocation \in a.live
    BY <1>5, <2>1 DEF RetiredOK, gone
  <2>4. \A r \in a.retired, q \in made : r.allocation # q.allocation
    BY <1>5 DEF gone, Retired
  <2>5. \A r, q \in a.retired \cup made : r.allocation = q.allocation => r = q
    BY <1>8, <2>1, <2>4 DEF RetiredOK
  <2> QED
    BY <1>2, <2>2, <2>3, <2>5 DEF RetiredOK
<1>11. ArenaOK(new)
  BY <1>2, <1>9, <1>10 DEF ArenaOK
<1>12. Retired(new) = Retired(a) \cup gone
  <2>1. Retired(new) = {r.allocation : r \in a.retired} \cup {r.allocation : r \in made}
    BY <1>2 DEF Retired
  <2>2. {r.allocation : r \in made} = gone
    BY <1>5, <1>6
  <2> QED
    BY <2>1, <2>2 DEF Retired
<1>13. Unretired(new) = Unretired(a) \ X
  BY <1>2, <1>12 DEF Unretired, gone
<1> QED
  BY <1>2, <1>3, <1>5, <1>11, <1>13

\* What is collected is free, what is live and not retired stays so.
LEMMA CollectLemma ==
  ASSUME NEW a, ArenaOK(a), NEW upTo \in Nat
  PROVE  LET new == Collect(a, upTo)
         IN  /\ ArenaOK(new)
             /\ Unretired(new) = Unretired(a)
             /\ new.retired = {r \in a.retired : r.serial > upTo}
             /\ \A d \in a.live : d \in new.live \/ \E r \in a.retired :
                                     r.allocation = d /\ r.serial <= upTo
             /\ new.live \subseteq a.live
<1> DEFINE new == Collect(a, upTo)
           done == {r \in a.retired : r.serial <= upTo}
           gone == {r.allocation : r \in done}
           Freed(b) == RangesIn(b, done)
           list(b) == InsertFreeRanges(a.blocks[b].free, Freed(b))
           blocks == [b \in DOMAIN a.blocks |->
                        [capacity |-> a.blocks[b].capacity, free |-> list(b)]]
<1>1. new = [blocks |-> blocks, live |-> a.live \ gone, retired |-> a.retired \ done]
  BY DEF Collect
<1>2. /\ DOMAIN a.blocks = 1 .. Len(a.blocks) /\ Len(a.blocks) \in Nat
      /\ \A b \in DOMAIN a.blocks : /\ a.blocks[b].capacity \in Nat
                                    /\ a.blocks[b].free \in FreeLists
                                    /\ a.blocks[b] \in [capacity : Nat, free : FreeLists]
      /\ a.live \subseteq Allocations
      /\ \A r \in a.retired : r.allocation \in Allocations /\ r.serial \in Nat
  BY ArenaFields DEF ArenaOK
<1>3. RetiredOK(a.live, a.retired) /\ LiveOK(a.blocks, a.live)
      /\ \A b \in DOMAIN a.blocks : BlockOK(a.blocks, a.live, b)
  BY DEF ArenaOK
<1>4. \A r \in done : r.allocation \in a.live /\ r.allocation \in gone
  BY <1>3 DEF RetiredOK
<1>5. \A d \in gone : d \in a.live /\ \E r \in done : r.allocation = d
  BY <1>4
<1>6. \A b : \A d \in gone : d.block = b => [offset |-> d.offset, size |-> d.size] \in Freed(b)
  <2> SUFFICES ASSUME NEW b, NEW d \in gone, d.block = b
               PROVE  [offset |-> d.offset, size |-> d.size] \in Freed(b)
    OBVIOUS
  <2>1. PICK r \in done : r.allocation = d
    BY <1>5
  <2> QED
    BY <2>1 DEF RangesIn
<1>7. \A b : \A f \in Freed(b) : \E d \in gone : d.block = b /\ f.offset = d.offset
                                                 /\ f.size = d.size
  <2> SUFFICES ASSUME NEW b, NEW f \in Freed(b)
               PROVE  \E d \in gone : d.block = b /\ f.offset = d.offset /\ f.size = d.size
    OBVIOUS
  <2>1. PICK r \in done : r.allocation.block = b
          /\ f = [offset |-> r.allocation.offset, size |-> r.allocation.size]
    BY DEF RangesIn
  <2> QED
    BY <1>4, <2>1
<1>8. \A b : Freed(b) \subseteq Ranges
  <2> SUFFICES ASSUME NEW b, NEW r \in done
               PROVE  [offset |-> r.allocation.offset, size |-> r.allocation.size] \in Ranges
    BY DEF RangesIn
  <2> QED
    BY <1>2, SizesOfRanges DEF Ranges
<1>9. \A b : IsFiniteSet(Freed(b))
  <2> SUFFICES ASSUME NEW b PROVE IsFiniteSet(Freed(b))
    OBVIOUS
  <2> DEFINE here == {d \in done : d.allocation.block = b}
             f == [r \in here |-> [offset |-> r.allocation.offset, size |-> r.allocation.size]]
  <2>1. IsFiniteSet(here)
    <3>1. IsFiniteSet(a.retired) /\ here \subseteq a.retired
      BY <1>3 DEF RetiredOK
    <3> QED
      BY <3>1, FS_Subset
  <2>2. IsFiniteSet({f[r] : r \in here})
    BY <2>1, ImageIsFinite
  <2>3. {f[r] : r \in here} = Freed(b)
    BY DEF RangesIn
  <2> QED
    BY <2>2, <2>3
<1> HIDE DEF Freed, done, gone
<1>10. ASSUME NEW b \in DOMAIN a.blocks
       PROVE  /\ list(b) \in FreeLists
              /\ Merged(list(b))
              /\ \A n \in Nat : (\E f \in list(b) : Holds(f, n)) <=>
                                \/ \E f \in a.blocks[b].free : Holds(f, n)
                                \/ \E d \in gone : d.block = b /\ Holds(d, n)
  <2> DEFINE free == a.blocks[b].free
  <2>1. free \in FreeLists /\ Merged(free)
    BY <1>2, <1>3 DEF BlockOK
  <2>2. \A r, s \in Freed(b) : r # s => Disjoint(r, s)
    <3> SUFFICES ASSUME NEW r \in Freed(b), NEW s \in Freed(b), r # s
                 PROVE  Disjoint(r, s)
      OBVIOUS
    <3>1. PICK d \in gone : d.block = b /\ r.offset = d.offset /\ r.size = d.size
      BY <1>7
    <3>2. PICK e \in gone : e.block = b /\ s.offset = e.offset /\ s.size = e.size
      BY <1>7
    <3>3. d # e
      <4>1. r \in Ranges /\ s \in Ranges
        BY <1>8
      <4> QED
        BY <3>1, <3>2, <4>1 DEF Ranges
    <3>4. Disjoint(d, e)
      BY <1>3, <1>5, <3>1, <3>2, <3>3 DEF LiveOK
    <3> QED
      BY <3>1, <3>2, <3>4 DEF Disjoint
  <2>3. \A r \in Freed(b), f \in free : Disjoint(f, r)
    <3> SUFFICES ASSUME NEW r \in Freed(b), NEW f \in free
                 PROVE  Disjoint(f, r)
      OBVIOUS
    <3>1. PICK d \in gone : d.block = b /\ r.offset = d.offset /\ r.size = d.size
      BY <1>7
    <3>2. Disjoint(f, d)
      BY <1>3, <1>5, <3>1 DEF BlockOK
    <3> QED
      BY <3>1, <3>2 DEF Disjoint
  <2> HIDE DEF free
  <2>4. /\ list(b) \in FreeLists
        /\ Merged(list(b))
        /\ \A n \in Nat : (\E f \in list(b) : Holds(f, n)) <=>
                                \/ \E f \in free : Holds(f, n)
                                \/ \E r \in Freed(b) : Holds(r, n)
    BY <1>8, <1>9, <2>1, <2>2, <2>3, FreeingFolds DEF free
  <2>5. ASSUME NEW n \in Nat
        PROVE  (\E r \in Freed(b) : Holds(r, n)) <=> \E d \in gone : d.block = b /\ Holds(d, n)
    <3>1. ASSUME NEW r \in Freed(b), Holds(r, n)
          PROVE  \E d \in gone : d.block = b /\ Holds(d, n)
      BY <1>7, <3>1 DEF Holds
    <3>2. ASSUME NEW d \in gone, d.block = b, Holds(d, n)
          PROVE  \E r \in Freed(b) : Holds(r, n)
      <4>1. Holds([offset |-> d.offset, size |-> d.size], n)
        BY <3>2 DEF Holds
      <4> QED
        BY <1>6, <3>2, <4>1
    <3> QED
      BY <3>1, <3>2
  <2> HIDE DEF list
  <2> QED
    BY <2>4, <2>5 DEF free
<1> HIDE DEF list
<1>11. /\ DOMAIN blocks = DOMAIN a.blocks
       /\ \A b \in DOMAIN a.blocks : /\ blocks[b] \in [capacity : Nat, free : FreeLists]
                                     /\ blocks[b].capacity = a.blocks[b].capacity
                                     /\ blocks[b].free = list(b)
  <2>1. ASSUME NEW b \in DOMAIN a.blocks
        PROVE  /\ blocks[b] \in [capacity : Nat, free : FreeLists]
               /\ blocks[b].capacity = a.blocks[b].capacity
               /\ blocks[b].free = list(b)
    <3>1. a.blocks[b] \in [capacity : Nat, free : FreeLists] /\ list(b) \in FreeLists
      BY <1>2, <1>10
    <3> QED
      BY <3>1
  <2> QED
    BY <2>1
<1> HIDE DEF blocks
<1>12. blocks \in Seq([capacity : Nat, free : FreeLists])
  <2> DEFINE Block == [capacity : Nat, free : FreeLists]
  <2>1. blocks \in [1 .. Len(a.blocks) -> Block]
    <3>1. blocks = [b \in DOMAIN a.blocks |-> blocks[b]]
      BY DEF blocks
    <3> QED
      BY <1>2, <1>11, <3>1
  <2> HIDE DEF Block
  <2>2. \A n \in Nat : [1 .. n -> Block] \subseteq Seq(Block)
    OBVIOUS
  <2> QED
    BY <1>2, <2>1, <2>2 DEF Block
<1>13. new \in Arenas
  BY <1>1, <1>2, <1>12, ArenaFields DEF ArenaOK, Arenas
<1>14. new.blocks = blocks /\ new.live = a.live \ gone /\ new.retired = a.retired \ done
  BY <1>1
<1> HIDE DEF new
<1>15. LiveOK(new.blocks, new.live)
  <2>1. IsFiniteSet(a.live \ gone)
    BY <1>3, FS_Subset DEF LiveOK
  <2>2. \A d \in a.live : /\ d.block \in DOMAIN blocks
                          /\ d.offset + d.size <= blocks[d.block].capacity
    BY <1>3, <1>11 DEF LiveOK
  <2> QED
    BY <1>3, <1>14, <2>1, <2>2 DEF LiveOK
<1>16. ASSUME NEW b \in DOMAIN a.blocks
       PROVE  BlockOK(new.blocks, new.live, b)
  <2> DEFINE free == a.blocks[b].free
             capacity == a.blocks[b].capacity
  <2>1. BlockOK(a.blocks, a.live, b)
    BY <1>3
  <2>2. capacity \in Nat /\ free \in FreeLists
    BY <1>2
  <2>3. list(b) \subseteq Ranges
    BY <1>10 DEF FreeLists
  <2>4. ASSUME NEW f \in list(b)
        PROVE  f.offset + f.size <= capacity
    <3>1. f.offset \in Nat /\ f.size \in Nat \ {0}
      BY <2>3, SizesOfRanges
    <3> DEFINE n == f.offset + f.size - 1
    <3>2. n \in Nat /\ Holds(f, n)
      BY <3>1 DEF Holds
    <3> HIDE DEF n
    <3>3. (\E g \in free : Holds(g, n)) \/ \E d \in gone : d.block = b /\ Holds(d, n)
      BY <1>10, <3>2
    <3>4. n < capacity
      <4>1. ASSUME NEW g \in free, Holds(g, n)
            PROVE  n < capacity
        <5>1. g.offset \in Nat /\ g.size \in Nat /\ g.offset + g.size <= capacity
          BY <2>1, <2>2, SizesOfRanges DEF BlockOK, FreeLists
        <5> QED
          BY <2>2, <3>2, <4>1, <5>1 DEF Holds
      <4>2. ASSUME NEW d \in gone, d.block = b, Holds(d, n)
            PROVE  n < capacity
        <5>1. d.offset + d.size <= capacity
          BY <1>3, <1>5, <4>2 DEF LiveOK
        <5>2. d.offset \in Nat /\ d.size \in Nat
          BY <1>2, <1>5, SizesOfRanges
        <5> QED
          BY <2>2, <3>2, <4>2, <5>1, <5>2 DEF Holds
      <4> QED
        BY <3>3, <4>1, <4>2
    <3> QED
      BY <2>2, <3>1, <3>4 DEF n
  <2>5. ASSUME NEW f \in list(b), NEW d \in a.live \ gone, d.block = b
        PROVE  Disjoint(f, d)
    <3>1. /\ f.offset \in Nat /\ f.size \in Nat \ {0}
          /\ d.offset \in Nat /\ d.size \in Nat \ {0}
      BY <1>2, <2>3, SizesOfRanges
    <3>2. ASSUME NEW n \in Nat, Holds(f, n), Holds(d, n)
          PROVE  FALSE
      <4>1. (\E g \in free : Holds(g, n)) \/ \E e \in gone : e.block = b /\ Holds(e, n)
        BY <1>10, <3>2
      <4>2. ASSUME NEW g \in free, Holds(g, n)
            PROVE  FALSE
        <5>1. Disjoint(g, d)
          BY <2>1, <2>5 DEF BlockOK
        <5>2. g.offset \in Nat /\ g.size \in Nat \ {0}
          BY <2>2, SizesOfRanges DEF FreeLists
        <5> QED
          BY <3>1, <3>2, <4>2, <5>1, <5>2, DisjointSpans
      <4>3. ASSUME NEW e \in gone, e.block = b, Holds(e, n)
            PROVE  FALSE
        <5>1. Disjoint(e, d)
          BY <1>3, <1>5, <2>5, <4>3 DEF LiveOK
        <5>2. e.offset \in Nat /\ e.size \in Nat \ {0}
          BY <1>2, <1>5, SizesOfRanges
        <5> QED
          BY <3>1, <3>2, <4>3, <5>1, <5>2, DisjointSpans
      <4> QED
        BY <4>1, <4>2, <4>3
    <3> QED
      BY <3>1, <3>2, DisjointSpans
  <2>6. ASSUME NEW n \in Nat, n < capacity
        PROVE  \/ \E f \in list(b) : Holds(f, n)
               \/ \E d \in a.live \ gone : d.block = b /\ Holds(d, n)
    <3>1. (\E f \in free : Holds(f, n)) \/ \E d \in a.live : d.block = b /\ Holds(d, n)
      BY <2>1, <2>6 DEF BlockOK
    <3> QED
      BY <1>10, <3>1
  <2>7. new.blocks[b].free = list(b) /\ new.blocks[b].capacity = capacity
        /\ new.live = a.live \ gone
    BY <1>11, <1>14
  <2> QED
    BY <1>10, <2>4, <2>5, <2>6, <2>7 DEF BlockOK
<1>17. RetiredOK(new.live, new.retired)
  <2>1. IsFiniteSet(a.retired \ done)
    BY <1>3, FS_Subset DEF RetiredOK
  <2>2. \A r \in a.retired \ done : r.allocation \notin gone
    BY <1>3, <1>5 DEF RetiredOK, done
  <2> QED
    BY <1>3, <1>14, <2>1, <2>2 DEF RetiredOK
<1>18. ArenaOK(new)
  BY <1>11, <1>13, <1>14, <1>15, <1>16, <1>17 DEF ArenaOK
<1>19. new.retired = {r \in a.retired : r.serial > upTo}
  BY <1>2, <1>14 DEF done
<1>20. Unretired(new) = Unretired(a)
  <2>1. \A d : d \in Retired(a) <=> \E r \in a.retired : r.allocation = d
    BY DEF Retired
  <2>2. \A d : d \in Retired(new) <=> \E r \in a.retired \ done : r.allocation = d
    BY <1>14 DEF Retired
  <2>3. \A d : d \in gone <=> \E r \in done : r.allocation = d
    BY DEF gone
  <2>4. done \subseteq a.retired
    BY DEF done
  <2> QED
    BY <1>14, <2>1, <2>2, <2>3, <2>4 DEF Unretired
<1>21. \A d \in a.live : d \in new.live \/ \E r \in a.retired :
                                     r.allocation = d /\ r.serial <= upTo
  BY <1>5, <1>14 DEF done
<1>22. new.live \subseteq a.live
  BY <1>14
<1> QED
  BY <1>18, <1>19, <1>20, <1>21, <1>22 DEF new

-----------------------------------------------------------------------------
(* Allocating.                                                                *)

\* res is an allocation from a.
AllocatedFrom(a, res) ==
  /\ res.ok = TRUE
  /\ res.allocation \in Allocations \ a.live
  /\ ArenaOK(res.arena)
  /\ res.arena.live = a.live \cup {res.allocation}
  /\ res.arena.retired = a.retired

LEMMA AllocateFromLemma ==
  ASSUME NEW a, ArenaOK(a), NEW b \in DOMAIN a.blocks, NEW range \in a.blocks[b].free,
         NEW size \in Nat \ {0}, size <= range.size
  PROVE  AllocatedFrom(a, AllocateFrom(a, b, range, size))
<1> DEFINE res == AllocateFrom(a, b, range, size)
           rest == [offset |-> range.offset + size, size |-> range.size - size]
           others == a.blocks[b].free \ {range}
           free == IF rest.size = 0 THEN others ELSE InsertFreeRange(others, rest)
           made == [block |-> b, offset |-> range.offset, size |-> size]
           capacity == a.blocks[b].capacity
           blocks == [a.blocks EXCEPT ![b] = [capacity |-> capacity, free |-> free]]
           new == [blocks |-> blocks, live |-> a.live \cup {made}, retired |-> a.retired]
<1>1. /\ DOMAIN a.blocks = 1 .. Len(a.blocks) /\ Len(a.blocks) \in Nat
      /\ \A c \in DOMAIN a.blocks : /\ a.blocks[c].capacity \in Nat
                                    /\ a.blocks[c].free \in FreeLists
                                    /\ a.blocks[c] \in [capacity : Nat, free : FreeLists]
      /\ a.live \subseteq Allocations
      /\ \A r \in a.retired : r.allocation \in Allocations /\ r.serial \in Nat
  BY ArenaFields DEF ArenaOK
<1>2. RetiredOK(a.live, a.retired) /\ LiveOK(a.blocks, a.live)
      /\ \A c \in DOMAIN a.blocks : BlockOK(a.blocks, a.live, c)
  BY DEF ArenaOK
<1>3. range \in Ranges /\ range.offset \in Nat /\ range.size \in Nat /\ capacity \in Nat
      /\ range.size > 0 /\ range.offset + range.size <= capacity
      /\ a.blocks[b].free \subseteq Ranges
  <2>1. a.blocks[b].free \subseteq Ranges /\ capacity \in Nat
    BY <1>1 DEF FreeLists
  <2>2. range.offset + range.size <= capacity
    BY <1>2 DEF BlockOK
  <2> QED
    BY <2>1, <2>2, SizesOfRanges
<1>4. res = [ok |-> TRUE, allocation |-> made, arena |-> new]
  BY DEF AllocateFrom
<1>5. res.ok = TRUE /\ res.allocation = made /\ res.arena = new
  BY <1>4
<1>6. made \in Allocations
  BY <1>1, <1>3 DEF Allocations
<1>7. rest.offset = range.offset + size /\ rest.size = range.size - size /\ rest.size \in Nat
  BY <1>3
<1>8. made.block = b /\ made.offset = range.offset /\ made.size = size
  OBVIOUS
<1> HIDE DEF rest, made
<1>9. \A n \in Nat : Holds(range, n) <=> Holds(made, n) \/ Holds(rest, n)
  BY <1>3, <1>7, <1>8 DEF Holds
<1>10. \A n \in Nat : ~(Holds(made, n) /\ Holds(rest, n))
  BY <1>3, <1>7, <1>8 DEF Holds
<1>11. others \in FreeLists /\ Merged(others)
  <2>1. IsFiniteSet(others)
    BY <1>1, FS_Subset DEF FreeLists
  <2>2. Merged(a.blocks[b].free)
    BY <1>2 DEF BlockOK
  <2> QED
    BY <1>3, <2>1, <2>2 DEF FreeLists, Merged
<1>12. \A f \in others : Disjoint(f, range)
  <2> SUFFICES ASSUME NEW f \in others PROVE Disjoint(f, range)
    OBVIOUS
  <2>1. Apart(f, range)
    BY <1>2 DEF BlockOK, Merged
  <2>2. f.offset \in Nat /\ f.size \in Nat
    BY <1>3, SizesOfRanges
  <2> QED
    BY <1>3, <2>1, <2>2 DEF Apart, Disjoint
<1>13. /\ free \in FreeLists
       /\ Merged(free)
       /\ \A n \in Nat : (\E f \in free : Holds(f, n)) <=>
                         Holds(rest, n) \/ \E f \in others : Holds(f, n)
  <2>1. CASE rest.size = 0
    <3>1. \A n \in Nat : ~Holds(rest, n)
      BY <1>3, <1>7, <2>1 DEF Holds
    <3> QED
      BY <1>11, <2>1, <3>1
  <2>2. CASE rest.size # 0
    <3>1. rest \in Ranges
      BY <1>3, <1>7, <2>2 DEF Ranges, rest
    <3>2. ASSUME NEW f \in others
          PROVE  Disjoint(f, rest)
      <4>1. f.offset \in Nat /\ f.size \in Nat
        BY <1>3, SizesOfRanges
      <4> QED
        BY <1>3, <1>7, <1>12, <4>1 DEF Disjoint
    <3> HIDE DEF others
    <3>3. /\ InsertFreeRange(others, rest) \in FreeLists
          /\ Merged(InsertFreeRange(others, rest))
          /\ \A n \in Nat : (\E f \in InsertFreeRange(others, rest) : Holds(f, n)) <=>
                            Holds(rest, n) \/ \E f \in others : Holds(f, n)
      BY <1>11, <3>1, <3>2, InsertKeepsLists, InsertMerges
    <3> QED
      BY <2>2, <3>3
  <2> QED
    BY <2>1, <2>2
<1> HIDE DEF free
<1>14. /\ blocks \in Seq([capacity : Nat, free : FreeLists])
       /\ DOMAIN blocks = DOMAIN a.blocks
       /\ blocks[b].free = free /\ blocks[b].capacity = capacity
       /\ \A c \in DOMAIN a.blocks \ {b} : blocks[c] = a.blocks[c]
       /\ \A c \in DOMAIN a.blocks : blocks[c].capacity = a.blocks[c].capacity
  <2>1. [capacity |-> capacity, free |-> free] \in [capacity : Nat, free : FreeLists]
    BY <1>3, <1>13
  <2>2. a.blocks \in Seq([capacity : Nat, free : FreeLists])
    BY ArenaFields DEF ArenaOK
  <2>3. blocks \in Seq([capacity : Nat, free : FreeLists])
    <3> DEFINE Block == [capacity : Nat, free : FreeLists]
               block == [capacity |-> capacity, free |-> free]
    <3>1. block \in Block /\ a.blocks \in Seq(Block)
      BY <2>1, <2>2
    <3> HIDE DEF Block, block
    <3>2. [a.blocks EXCEPT ![b] = block] \in Seq(Block)
      BY <3>1
    <3> QED
      BY <3>2 DEF Block, block
  <2> QED
    BY <2>3
<1> HIDE DEF blocks
<1>15. new \in Arenas
  <2>1. a.retired \subseteq [allocation : Allocations, serial : Nat]
    BY DEF ArenaOK, Arenas
  <2> QED
    BY <1>1, <1>6, <1>14, <2>1 DEF Arenas
<1>16. new.blocks = blocks /\ new.live = a.live \cup {made} /\ new.retired = a.retired
  OBVIOUS
<1>17. ASSUME NEW d \in a.live, d.block = b
       PROVE  Disjoint(made, d) /\ Disjoint(d, made)
  <2>1. Disjoint(range, d)
    BY <1>2, <1>17 DEF BlockOK
  <2>2. d.offset \in Nat /\ d.size \in Nat
    BY <1>1, SizesOfRanges
  <2> QED
    BY <1>3, <1>8, <2>1, <2>2 DEF Disjoint
<1>18. made \notin a.live
  <2>1. ~Disjoint(made, made)
    BY <1>3, <1>8 DEF Disjoint
  <2> QED
    BY <1>8, <1>17, <2>1
<1>19. LiveOK(blocks, a.live \cup {made})
  <2>1. IsFiniteSet(a.live \cup {made})
    BY <1>2, FS_AddElement DEF LiveOK
  <2>2. made.block \in DOMAIN blocks /\ made.offset + made.size <= blocks[made.block].capacity
    BY <1>3, <1>8, <1>14
  <2>3. \A d \in a.live : /\ d.block \in DOMAIN blocks
                          /\ d.offset + d.size <= blocks[d.block].capacity
    BY <1>2, <1>14 DEF LiveOK
  <2>4. \A d, e \in a.live : d # e /\ d.block = e.block => Disjoint(d, e)
    BY <1>2 DEF LiveOK
  <2>5. \A d, e \in a.live \cup {made} : d # e /\ d.block = e.block => Disjoint(d, e)
    BY <1>8, <1>17, <2>4
  <2> QED
    BY <2>1, <2>2, <2>3, <2>5 DEF LiveOK
<1>20. BlockOK(blocks, a.live \cup {made}, b)
  <2>1. BlockOK(a.blocks, a.live, b)
    BY <1>2
  <2>2. \A f \in free : f.offset \in Nat /\ f.size \in Nat \ {0}
    BY <1>13, SizesOfRanges DEF FreeLists
  <2>3. \A f \in others : /\ f.offset \in Nat /\ f.size \in Nat \ {0}
                          /\ f.offset + f.size <= capacity
                          /\ \A d \in a.live : d.block = b => Disjoint(f, d)
    BY <1>3, <2>1, SizesOfRanges DEF BlockOK
  <2>4. \A d \in a.live : d.offset \in Nat /\ d.size \in Nat \ {0}
    BY <1>1, SizesOfRanges
  <2>5. ASSUME NEW f \in free
        PROVE  f.offset + f.size <= capacity
    <3> DEFINE n == f.offset + f.size - 1
    <3>1. n \in Nat /\ Holds(f, n)
      BY <2>2 DEF Holds
    <3> HIDE DEF n
    <3>2. Holds(rest, n) \/ \E g \in others : Holds(g, n)
      BY <1>13, <3>1
    <3>3. CASE Holds(rest, n)
      <4>1. n < capacity
        BY <1>3, <1>7, <3>1, <3>3 DEF Holds
      <4> QED
        BY <1>3, <2>2, <4>1 DEF n
    <3>4. ASSUME NEW g \in others, Holds(g, n)
          PROVE  f.offset + f.size <= capacity
      <4>1. n < capacity
        BY <1>3, <2>3, <3>1, <3>4 DEF Holds
      <4> QED
        BY <1>3, <2>2, <4>1 DEF n
    <3> QED
      BY <3>2, <3>3, <3>4
  <2>6. ASSUME NEW f \in free, NEW d \in a.live \cup {made}, d.block = b
        PROVE  Disjoint(f, d)
    <3>1. d.offset \in Nat /\ d.size \in Nat \ {0}
      BY <1>3, <1>8, <2>4
    <3>2. ASSUME NEW n \in Nat, Holds(f, n), Holds(d, n)
          PROVE  FALSE
      <4>1. CASE Holds(rest, n)
        <5>1. d # made
          BY <1>10, <3>2, <4>1
        <5>2. Disjoint(range, d)
          BY <2>1, <2>6, <5>1 DEF BlockOK
        <5>3. Holds(range, n)
          BY <1>9, <4>1
        <5> QED
          BY <1>3, <3>1, <3>2, <5>2, <5>3, DisjointSpans
      <4>2. ASSUME NEW g \in others, Holds(g, n)
            PROVE  FALSE
        <5>1. CASE d = made
          <6>1. Holds(range, n)
            BY <1>9, <3>2, <5>1
          <6>2. Disjoint(g, range)
            BY <1>12
          <6> QED
            BY <1>3, <2>3, <4>2, <6>1, <6>2, DisjointSpans
        <5>2. CASE d # made
          <6>1. Disjoint(g, d)
            BY <2>3, <2>6, <5>2
          <6> QED
            BY <2>3, <3>1, <3>2, <4>2, <6>1, DisjointSpans
        <5> QED
          BY <5>1, <5>2
      <4>3. Holds(rest, n) \/ \E g \in others : Holds(g, n)
        BY <1>13, <3>2
      <4> QED
        BY <4>1, <4>2, <4>3
    <3> QED
      BY <2>2, <3>1, <3>2, DisjointSpans
  <2>7. ASSUME NEW n \in Nat, n < capacity
        PROVE  \/ \E f \in free : Holds(f, n)
               \/ \E d \in a.live \cup {made} : d.block = b /\ Holds(d, n)
    <3>1. (\E f \in a.blocks[b].free : Holds(f, n)) \/ \E d \in a.live : d.block = b /\ Holds(d, n)
      BY <2>1, <2>7 DEF BlockOK
    <3>2. CASE Holds(range, n)
      BY <1>8, <1>9, <1>13, <3>2
    <3>3. ASSUME NEW f \in others, Holds(f, n)
          PROVE  \E g \in free : Holds(g, n)
      BY <1>13, <3>3
    <3> QED
      BY <3>1, <3>2, <3>3
  <2> QED
    BY <1>13, <1>14, <2>5, <2>6, <2>7 DEF BlockOK
<1>21. ASSUME NEW c \in DOMAIN a.blocks, c # b
       PROVE  BlockOK(blocks, a.live \cup {made}, c)
  <2>1. blocks[c] = a.blocks[c] /\ BlockOK(a.blocks, a.live, c)
    BY <1>2, <1>14, <1>21
  <2>2. \A d \in a.live \cup {made} : d.block = c => d \in a.live
    BY <1>8, <1>21
  <2> QED
    BY <2>1, <2>2 DEF BlockOK
<1>22. RetiredOK(a.live \cup {made}, a.retired)
  BY <1>2 DEF RetiredOK
<1>23. ArenaOK(new)
  BY <1>14, <1>15, <1>16, <1>19, <1>20, <1>21, <1>22 DEF ArenaOK
<1> HIDE DEF res, new
<1> QED
  BY <1>5, <1>6, <1>16, <1>18, <1>23 DEF AllocatedFrom, res

\* The capacity of an arena is a number.
LEMMA CapacityIsNat ==
  ASSUME NEW a, ArenaOK(a)
  PROVE  Capacity(a) \in Nat
<1> DEFINE S == DOMAIN a.blocks
           w == [b \in S |-> a.blocks[b].capacity]
           Law(g) == g = [T \in SUBSET S |->
                            IF T = {} THEN 0
                            ELSE a.blocks[CHOOSE x \in T : TRUE].capacity
                                 + g[T \ {CHOOSE x \in T : TRUE}]]
           it == CHOOSE g : Law(g)
<1>1. IsFiniteSet(S) /\ \A b \in S : a.blocks[b].capacity \in Nat
  <2>1. S = 1 .. Len(a.blocks) /\ Len(a.blocks) \in Nat
        /\ \A b \in S : a.blocks[b].capacity \in Nat
    BY ArenaFields DEF ArenaOK
  <2>2. IsFiniteSet(1 .. Len(a.blocks))
    BY <2>1, FS_Interval
  <2> QED
    BY <2>1, <2>2
<1>2. Capacity(a) = it[S]
  BY Zenon DEF Capacity, MapThenSumSet, MapThenFoldSet
<1> HIDE DEF S
<1>3. \A b \in S : w[b] \in Nat /\ w[b] = a.blocks[b].capacity
  BY <1>1
<1> HIDE DEF w
<1>4. \A T \in SUBSET S : T # {} =>
        w[CHOOSE x \in T : TRUE] = a.blocks[CHOOSE x \in T : TRUE].capacity
  BY <1>3
<1>5. ASSUME NEW g
      PROVE  Law(g) <=> IsSum(g, S, w)
  <2>1. [T \in SUBSET S |-> IF T = {} THEN 0
                            ELSE a.blocks[CHOOSE x \in T : TRUE].capacity
                                 + g[T \ {CHOOSE x \in T : TRUE}]]
        = [T \in SUBSET S |-> IF T = {} THEN 0
                              ELSE w[CHOOSE x \in T : TRUE]
                                   + g[T \ {CHOOSE x \in T : TRUE}]]
    BY <1>4
  <2> QED
    BY <2>1 DEF IsSum
<1>6. \E g : IsSum(g, S, w)
  BY <1>1, <1>3, SumExists
<1> HIDE DEF Law
<1>7. Law(it)
  BY <1>5, <1>6
<1> HIDE DEF it
<1>8. it[S] = Sum(S, w)
  BY <1>1, <1>3, <1>5, <1>7, SumIs
<1> QED
  BY <1>1, <1>2, <1>3, <1>8, SumLaws

\* Appending a block that is free keeps an arena in order.
LEMMA GrowLemma ==
  ASSUME NEW a, ArenaOK(a), NEW capacity \in Nat \ {0}
  PROVE  LET whole == [offset |-> 0, size |-> capacity]
             block == [capacity |-> capacity, free |-> {whole}]
             grown == [blocks |-> Append(a.blocks, block), live |-> a.live, retired |-> a.retired]
         IN  /\ ArenaOK(grown)
             /\ Len(a.blocks) + 1 \in DOMAIN grown.blocks
             /\ grown.blocks[Len(a.blocks) + 1] = block
             /\ grown.live = a.live
             /\ grown.retired = a.retired
<1> DEFINE Block == [capacity : Nat, free : FreeLists]
           whole == [offset |-> 0, size |-> capacity]
           block == [capacity |-> capacity, free |-> {whole}]
           blocks == Append(a.blocks, block)
           last == Len(a.blocks) + 1
           grown == [blocks |-> blocks, live |-> a.live, retired |-> a.retired]
<1>1. /\ a.blocks \in Seq(Block)
      /\ Len(a.blocks) \in Nat
      /\ DOMAIN a.blocks = 1 .. Len(a.blocks)
      /\ a.live \subseteq Allocations
      /\ a.retired \subseteq [allocation : Allocations, serial : Nat]
  BY ArenaFields DEF ArenaOK, Arenas
<1>2. /\ whole \in Ranges /\ whole.offset = 0 /\ whole.size = capacity
      /\ block.capacity = capacity /\ block.free = {whole}
  BY DEF Ranges
<1>3. block \in Block
  BY <1>2, FS_Singleton DEF FreeLists
<1> HIDE DEF block, whole, Block
<1>4. /\ blocks \in Seq(Block)
      /\ DOMAIN blocks = DOMAIN a.blocks \cup {last}
      /\ last \notin DOMAIN a.blocks
      /\ blocks[last] = block
      /\ \A b \in DOMAIN a.blocks : blocks[b] = a.blocks[b]
  BY <1>1, <1>3
<1> HIDE DEF blocks, last
<1>5. grown.blocks = blocks /\ grown.live = a.live /\ grown.retired = a.retired
  OBVIOUS
<1>6. grown \in Arenas
  BY <1>1, <1>4 DEF Arenas, Block
<1>7. LiveOK(blocks, a.live)
  BY <1>4 DEF ArenaOK, LiveOK
<1>8. ASSUME NEW b \in DOMAIN a.blocks
      PROVE  BlockOK(blocks, a.live, b)
  BY <1>4 DEF ArenaOK, BlockOK
<1>9. BlockOK(blocks, a.live, last)
  <2>1. \A d \in a.live : d.block # last
    BY <1>4 DEF ArenaOK, LiveOK
  <2>2. \A n \in Nat : n < capacity => Holds(whole, n)
    BY <1>2 DEF Holds
  <2> QED
    BY <1>2, <1>4, <2>1, <2>2 DEF BlockOK, Merged
<1>10. RetiredOK(a.live, a.retired)
  BY DEF ArenaOK
<1>11. ArenaOK(grown)
  BY <1>4, <1>5, <1>6, <1>7, <1>8, <1>9, <1>10 DEF ArenaOK
<1> QED
  BY <1>4, <1>5, <1>11 DEF block, whole, blocks, last

\* An allocation succeeds with a range of its own, or leaves the arena as it was.
LEMMA AllocateLemma ==
  ASSUME NEW a, ArenaOK(a), NEW size \in Nat \ {0}, NEW grows
  PROVE  LET res == Allocate(a, size, grows)
         IN  \/ AllocatedFrom(a, res)
             \/ res.ok = FALSE /\ res.arena = a
<1> DEFINE Fitting(b) == {r \in a.blocks[b].free : r.size >= size}
           roomy == {b \in DOMAIN a.blocks : Fitting(b) # {}}
           last == Len(a.blocks) + 1
           b == Min(roomy)
           range == CHOOSE r \in Fitting(b) : \A s \in Fitting(b) : r.offset <= s.offset
           block == NewBlock(a, size)
           grown == [a EXCEPT !.blocks = Append(@, block)]
           res == Allocate(a, size, grows)
<1>1. /\ DOMAIN a.blocks = 1 .. Len(a.blocks) /\ Len(a.blocks) \in Nat
      /\ \A c \in DOMAIN a.blocks : /\ a.blocks[c].capacity \in Nat
                                    /\ a.blocks[c].free \in FreeLists
      /\ a = [blocks |-> a.blocks, live |-> a.live, retired |-> a.retired]
      /\ a.blocks \in Seq([capacity : Nat, free : FreeLists])
  BY ArenaFields DEF ArenaOK
<1>2. res = IF roomy # {} THEN AllocateFrom(a, b, range, size)
            ELSE IF grows /\ size <= MaxCapacity - Capacity(a)
            THEN AllocateFrom(grown, last, [offset |-> 0, size |-> grown.blocks[last].capacity],
                              size)
            ELSE [ok |-> FALSE, arena |-> a]
  BY DEF Allocate
<1>3. CASE roomy # {}
  <2>1. b \in DOMAIN a.blocks /\ Fitting(b) # {}
    <3>1. roomy \subseteq Nat
      BY <1>1
    <3>2. Min(roomy) \in roomy
      <4> HIDE DEF roomy
      <4> QED
        BY <1>3, <3>1, MinOf
    <3> QED
      BY <3>2
  <2> HIDE DEF b
  <2>2. Fitting(b) \subseteq Ranges
    BY <1>1, <2>1 DEF FreeLists
  <2>3. \E r \in Fitting(b) : \A s \in Fitting(b) : r.offset <= s.offset
    <3> DEFINE offsets == {r.offset : r \in Fitting(b)}
    <3>1. offsets \subseteq Nat /\ offsets # {}
      BY <2>1, <2>2, SizesOfRanges
    <3>2. \E n \in offsets : \A m \in offsets : n <= m
      <4> HIDE DEF offsets
      <4> QED
        BY <3>1, LeastNumber
    <3> QED
      BY <3>2
  <2>4. range \in Fitting(b)
    BY <2>3
  <2> HIDE DEF range
  <2>5. range \in a.blocks[b].free /\ size <= range.size
    <3>1. range.size \in Nat
      BY <2>2, <2>4, SizesOfRanges
    <3> QED
      BY <2>4, <3>1
  <2>6. res = AllocateFrom(a, b, range, size)
    BY <1>2, <1>3
  <2> QED
    BY <2>1, <2>5, <2>6, AllocateFromLemma
<1>4. CASE roomy = {} /\ grows /\ size <= MaxCapacity - Capacity(a)
  <2> DEFINE desired == IF a.blocks = <<>> THEN InitialBlock ELSE 2 * Last(a.blocks).capacity
             capacity == Min({Max({desired, size}), MaxCapacity - Capacity(a)})
             whole == [offset |-> 0, size |-> capacity]
  <2>1. block = [capacity |-> capacity, free |-> {whole}]
    BY DEF NewBlock
  <2>2. desired \in Nat
    <3>1. CASE a.blocks = <<>>
      BY <3>1, ArenaAssumption
    <3>2. CASE a.blocks # <<>>
      <4>1. Last(a.blocks) = a.blocks[Len(a.blocks)]
        BY DEF Last
      <4>2. Len(a.blocks) \in DOMAIN a.blocks
        BY <1>1, <3>2
      <4> QED
        BY <1>1, <3>2, <4>1, <4>2
    <3> QED
      BY <3>1, <3>2
  <2>3. MaxCapacity - Capacity(a) \in Nat \ {0}
    BY <1>4, CapacityIsNat, ArenaAssumption
  <2> HIDE DEF desired
  <2>4. Max({desired, size}) \in Nat /\ Max({desired, size}) >= size
    BY <2>2, MaxOfTwo
  <2>5. capacity \in Nat \ {0} /\ size <= capacity
    <3> DEFINE most == Max({desired, size})
               left == MaxCapacity - Capacity(a)
    <3>1. most \in Nat /\ most >= size /\ left \in Nat /\ left >= size
      BY <1>4, <2>3, <2>4
    <3> HIDE DEF most, left
    <3>2. {most, left} \subseteq Nat /\ {most, left} # {}
      BY <3>1
    <3>3. Min({most, left}) \in {most, left}
      BY <3>2, MinOf
    <3> QED
      BY <3>1, <3>3 DEF most, left
  <2> HIDE DEF capacity
  <2>6. grown = [blocks |-> Append(a.blocks, block), live |-> a.live, retired |-> a.retired]
    <3> DEFINE longer == Append(a.blocks, block)
    <3>1. grown = [a EXCEPT !.blocks = longer]
      OBVIOUS
    <3> HIDE DEF longer, block
    <3>2. [a EXCEPT !.blocks = longer] = [blocks |-> longer, live |-> a.live, retired |-> a.retired]
      BY DEF ArenaOK, Arenas
    <3> QED
      BY <3>1, <3>2 DEF longer
  <2> HIDE DEF grown, block
  <2>7. /\ ArenaOK(grown)
        /\ last \in DOMAIN grown.blocks
        /\ grown.blocks[last] = [capacity |-> capacity, free |-> {whole}]
        /\ grown.live = a.live
        /\ grown.retired = a.retired
    BY <2>1, <2>5, <2>6, GrowLemma
  <2> HIDE DEF last
  <2>8. grown.blocks[last].capacity = capacity /\ whole \in grown.blocks[last].free
        /\ size <= whole.size
    BY <2>5, <2>7
  <2>9. res = AllocateFrom(grown, last, whole, size)
    BY <1>2, <1>4, <2>8
  <2> HIDE DEF whole, res
  <2>10. AllocatedFrom(grown, res)
    BY <2>7, <2>8, <2>9, AllocateFromLemma
  <2> QED
    BY <2>7, <2>10 DEF AllocatedFrom, res
<1>5. CASE roomy = {} /\ ~(grows /\ size <= MaxCapacity - Capacity(a))
  <2> HIDE DEF roomy
  <2>1. res = [ok |-> FALSE, arena |-> a]
    BY <1>2, <1>5
  <2> QED
    BY <2>1
<1> QED
  BY <1>3, <1>4, <1>5

-----------------------------------------------------------------------------
(* Preparing a batch.                                                         *)

Preparations ==
  [ok : BOOLEAN, arenas : [Kinds -> Arenas], made : SUBSET (Chunks \X Kinds \X Allocations)]

InOrder(p) == p \in Preparations /\ \A k \in Kinds : ArenaOK(p.arenas[k])

\* What p has made is what it allocated beyond the old arenas, for the chunks C.
Prepares(p, old, C) ==
  /\ InOrder(p)
  /\ IsFiniteSet(p.made)
  /\ \A k \in Kinds : /\ p.arenas[k].retired = old[k].retired
                      /\ old[k].live \subseteq p.arenas[k].live
                      /\ \A d \in p.arenas[k].live :
                            d \in old[k].live \/ \E m \in p.made : m[2] = k /\ m[3] = d
  /\ \A m \in p.made : m[1] \in C /\ m[3] \in p.arenas[m[2]].live \ old[m[2]].live
  /\ \A m, n \in p.made : m[2] = n[2] /\ (m[1] = n[1] \/ m[3] = n[3]) => m = n

LEMMA OneMoreMade ==
  ASSUME NEW p, NEW old, NEW C, Prepares(p, old, C),
         NEW k \in Kinds, NEW c \in Chunks, c \in C,
         \A m \in p.made : ~(m[1] = c /\ m[2] = k),
         NEW res, AllocatedFrom(p.arenas[k], res),
         NEW q, q \in Preparations, q.arenas[k] = res.arena,
         \A j \in Kinds : j # k => q.arenas[j] = p.arenas[j],
         q.made = p.made \cup {<<c, k, res.allocation>>}
  PROVE  Prepares(q, old, C)
<1> DEFINE new == <<c, k, res.allocation>>
<1>1. new[1] = c /\ new[2] = k /\ new[3] = res.allocation /\ q.made = p.made \cup {new}
  OBVIOUS
<1> HIDE DEF new
<1>2. /\ res.allocation \notin p.arenas[k].live
      /\ ArenaOK(q.arenas[k])
      /\ q.arenas[k].live = p.arenas[k].live \cup {res.allocation}
      /\ q.arenas[k].retired = p.arenas[k].retired
  BY DEF AllocatedFrom
<1>3. \A j \in Kinds : ArenaOK(q.arenas[j])
  BY <1>2 DEF Prepares, InOrder
<1>4. IsFiniteSet(q.made)
  BY <1>1, FS_AddElement DEF Prepares
<1>5. \A m \in p.made : m[2] \in Kinds
  BY DEF Prepares, InOrder, Preparations
<1>6. \A j \in Kinds : /\ q.arenas[j].retired = old[j].retired
                       /\ old[j].live \subseteq q.arenas[j].live
                       /\ \A d \in q.arenas[j].live :
                             d \in old[j].live \/ \E m \in q.made : m[2] = j /\ m[3] = d
  BY <1>1, <1>2 DEF Prepares
<1>7. \A m \in q.made : m[1] \in C /\ m[3] \in q.arenas[m[2]].live \ old[m[2]].live
  <2>1. \A m \in p.made : m[1] \in C /\ m[3] \in p.arenas[m[2]].live \ old[m[2]].live
    BY DEF Prepares
  <2>2. \A m \in p.made : m[3] \in q.arenas[m[2]].live
    BY <1>2, <1>5, <2>1
  <2>3. res.allocation \in q.arenas[k].live \ old[k].live
    BY <1>2 DEF Prepares
  <2> QED
    BY <1>1, <2>1, <2>2, <2>3
<1>8. \A m, n \in q.made : m[2] = n[2] /\ (m[1] = n[1] \/ m[3] = n[3]) => m = n
  <2>1. \A m, n \in p.made : m[2] = n[2] /\ (m[1] = n[1] \/ m[3] = n[3]) => m = n
    BY DEF Prepares
  <2>2. \A m \in p.made : ~(m[2] = k /\ (m[1] = c \/ m[3] = res.allocation))
    BY <1>2 DEF Prepares
  <2> QED
    BY <1>1, <2>1, <2>2
<1> QED
  BY <1>3, <1>4, <1>6, <1>7, <1>8 DEF Prepares, InOrder

LEMMA PreparingOne ==
  ASSUME NEW p, InOrder(p), NEW c \in Chunks, NEW sizes \in [Kinds -> Nat],
         sizes["vertices"] = 0 <=> sizes["indices"] = 0, NEW refused
  PROVE  LET q == PrepareOne(p, c, sizes, refused)
         IN  /\ InOrder(q)
             /\ \A old, C : Prepares(p, old, C) /\ c \notin C => Prepares(q, old, C \cup {c})
<1> DEFINE v == Allocate(p.arenas["vertices"], sizes["vertices"], refused # "vertices")
           i == Allocate(p.arenas["indices"], sizes["indices"], refused # "indices")
           q == PrepareOne(p, c, sizes, refused)
           vMade == p.made \cup {<<c, "vertices", v.allocation>>}
           vArenas == [p.arenas EXCEPT !["vertices"] = v.arena]
           viArenas == [p.arenas EXCEPT !["vertices"] = v.arena, !["indices"] = i.arena]
<1>1. /\ p.ok \in BOOLEAN /\ p.arenas \in [Kinds -> Arenas]
      /\ p.made \subseteq Chunks \X Kinds \X Allocations
      /\ p = [ok |-> p.ok, arenas |-> p.arenas, made |-> p.made]
      /\ \A k \in Kinds : ArenaOK(p.arenas[k])
      /\ "vertices" \in Kinds /\ "indices" \in Kinds
      /\ \A k \in Kinds : k = "vertices" \/ k = "indices"
  BY DEF InOrder, Preparations, Kinds
<1>2. \A r : ArenaOK(r) => r \in Arenas
  BY DEF ArenaOK
<1>3. ASSUME ~p.ok \/ sizes["vertices"] = 0
      PROVE  q = p
  BY <1>3 DEF PrepareOne
<1>4. ASSUME p.ok, sizes["vertices"] # 0
      PROVE  /\ AllocatedFrom(p.arenas["vertices"], v) \/ v.ok = FALSE
             /\ \/ AllocatedFrom(p.arenas["indices"], i)
                \/ i.ok = FALSE /\ i.arena = p.arenas["indices"]
  <2>1. sizes["vertices"] \in Nat \ {0} /\ sizes["indices"] \in Nat \ {0}
    BY <1>1, <1>4
  <2>2. ArenaOK(p.arenas["vertices"]) /\ ArenaOK(p.arenas["indices"])
    BY <1>1
  <2> DEFINE Outcome(a, res) == AllocatedFrom(a, res) \/ (res.ok = FALSE /\ res.arena = a)
  <2>3. \A a, size, grows : ArenaOK(a) /\ size \in Nat \ {0} =>
                             Outcome(a, Allocate(a, size, grows))
    <3> SUFFICES ASSUME NEW a, NEW size, NEW grows, ArenaOK(a), size \in Nat \ {0}
                 PROVE  Outcome(a, Allocate(a, size, grows))
      BY Zenon
    <3> QED
      BY AllocateLemma
  <2> HIDE DEF Outcome
  <2>4. Outcome(p.arenas["vertices"], v)
    BY <2>1, <2>2, <2>3, Zenon
  <2>5. Outcome(p.arenas["indices"], i)
    BY <2>1, <2>2, <2>3, Zenon
  <2> HIDE DEF v, i
  <2> QED
    BY <2>4, <2>5 DEF Outcome
<1>5. ASSUME p.ok, sizes["vertices"] # 0, v.ok = FALSE
      PROVE  q = [ok |-> FALSE, arenas |-> p.arenas, made |-> p.made]
  <2>1. q = [p EXCEPT !.ok = FALSE]
    BY <1>5 DEF PrepareOne
  <2> HIDE DEF q
  <2> QED
    BY <1>1, <2>1
<1>6. ASSUME p.ok, sizes["vertices"] # 0, AllocatedFrom(p.arenas["vertices"], v)
      PROVE  q = [ok |-> i.ok, arenas |-> viArenas,
                  made |-> vMade \cup IF i.ok THEN {<<c, "indices", i.allocation>>} ELSE {}]
  BY <1>6 DEF PrepareOne, AllocatedFrom
<1> HIDE DEF q, v, i
<1>7. CASE ~p.ok \/ sizes["vertices"] = 0
  <2>1. \A old, C : Prepares(p, old, C) => Prepares(p, old, C \cup {c})
    BY DEF Prepares
  <2> QED
    BY <1>3, <1>7, <2>1 DEF q
<1>8. CASE p.ok /\ sizes["vertices"] # 0 /\ v.ok = FALSE
  <2>1. q = [ok |-> FALSE, arenas |-> p.arenas, made |-> p.made]
    BY <1>5, <1>8
  <2>2. q.arenas = p.arenas /\ q.made = p.made /\ q \in Preparations
    BY <1>1, <2>1 DEF Preparations
  <2>3. InOrder(q)
    BY <1>1, <2>2 DEF InOrder
  <2>4. \A old, C : Prepares(p, old, C) => Prepares(q, old, C \cup {c})
    BY <2>2, <2>3 DEF Prepares
  <2> QED
    BY <2>3, <2>4 DEF q
<1>9. CASE p.ok /\ sizes["vertices"] # 0 /\ AllocatedFrom(p.arenas["vertices"], v)
  <2> DEFINE one == [ok |-> TRUE, arenas |-> vArenas, made |-> vMade]
  <2>1. /\ v.allocation \in Allocations /\ ArenaOK(v.arena) /\ v.arena \in Arenas
        /\ v.ok = TRUE
    BY <1>2, <1>9 DEF AllocatedFrom
  <2>2. /\ vArenas \in [Kinds -> Arenas]
        /\ vArenas["vertices"] = v.arena /\ vArenas["indices"] = p.arenas["indices"]
    BY <1>1, <2>1
  <2>3. vMade \subseteq Chunks \X Kinds \X Allocations
    BY <1>1, <2>1
  <2> HIDE DEF vArenas, vMade
  <2>4. one \in Preparations /\ one.arenas = vArenas /\ one.made = vMade
    BY <2>2, <2>3 DEF Preparations
  <2> HIDE DEF one
  <2>5. InOrder(one)
    BY <1>1, <2>1, <2>2, <2>4 DEF InOrder
  <2>6. ASSUME NEW old, NEW C, Prepares(p, old, C), c \notin C
        PROVE  Prepares(one, old, C \cup {c})
    <3>1. Prepares(p, old, C \cup {c})
      BY <2>6 DEF Prepares
    <3>2. \A m \in p.made : m[1] # c
      BY <2>6 DEF Prepares
    <3>3. \A j \in Kinds : j # "vertices" => one.arenas[j] = p.arenas[j]
      BY <1>1, <2>2, <2>4
    <3>4. one.made = p.made \cup {<<c, "vertices", v.allocation>>}
      BY <2>4 DEF vMade
    <3>5. one.arenas["vertices"] = v.arena
      BY <2>2, <2>4
    <3>6. c \in C \cup {c}
      OBVIOUS
    <3> QED
      BY <1>1, <1>9, <2>4, <3>1, <3>2, <3>3, <3>4, <3>5, <3>6, OneMoreMade
  <2>7. CASE AllocatedFrom(p.arenas["indices"], i)
    <3>1. i.allocation \in Allocations /\ ArenaOK(i.arena) /\ i.arena \in Arenas /\ i.ok = TRUE
      BY <1>2, <2>7 DEF AllocatedFrom
    <3>2. /\ viArenas \in [Kinds -> Arenas]
          /\ viArenas["vertices"] = v.arena /\ viArenas["indices"] = i.arena
      BY <1>1, <2>1, <3>1
    <3> DEFINE viMade == vMade \cup {<<c, "indices", i.allocation>>}
    <3>3. viMade \subseteq Chunks \X Kinds \X Allocations
      BY <1>1, <2>3, <3>1
    <3> HIDE DEF viArenas, viMade
    <3>4. q = [ok |-> TRUE, arenas |-> viArenas, made |-> viMade]
      BY <1>6, <1>9, <3>1 DEF viMade
    <3>5. q \in Preparations /\ q.arenas = viArenas /\ q.made = viMade
      BY <3>2, <3>3, <3>4 DEF Preparations
    <3>6. InOrder(q)
      BY <1>1, <2>1, <3>1, <3>2, <3>5 DEF InOrder
    <3>7. ASSUME NEW old, NEW C, Prepares(p, old, C), c \notin C
          PROVE  Prepares(q, old, C \cup {c})
      <4>1. Prepares(one, old, C \cup {c})
        BY <2>6, <3>7
      <4>2. \A m \in p.made : m[1] # c
        BY <3>7 DEF Prepares
      <4>3. \A m \in one.made : ~(m[1] = c /\ m[2] = "indices")
        BY <2>4, <4>2 DEF vMade
      <4>4. \A j \in Kinds : j # "indices" => q.arenas[j] = one.arenas[j]
        BY <1>1, <2>2, <2>4, <3>2, <3>5
      <4>5. q.made = one.made \cup {<<c, "indices", i.allocation>>}
        BY <2>4, <3>5 DEF viMade
      <4>6. q.arenas["indices"] = i.arena /\ c \in C \cup {c}
        BY <3>2, <3>5
      <4>7. AllocatedFrom(one.arenas["indices"], i)
        BY <2>2, <2>4, <2>7
      <4> QED
        BY <1>1, <3>5, <4>1, <4>3, <4>4, <4>5, <4>6, <4>7, OneMoreMade
    <3> QED
      BY <3>6, <3>7 DEF q
  <2>8. CASE i.ok = FALSE /\ i.arena = p.arenas["indices"]
    <3>1. viArenas = vArenas
      BY <1>1, <2>8 DEF vArenas
    <3> HIDE DEF viArenas
    <3>2. q = [ok |-> FALSE, arenas |-> vArenas, made |-> vMade]
      BY <1>6, <1>9, <2>8, <3>1
    <3>3. q \in Preparations /\ q.arenas = one.arenas /\ q.made = one.made
      BY <2>2, <2>3, <2>4, <3>2 DEF Preparations
    <3>4. InOrder(q)
      BY <2>5, <3>3 DEF InOrder
    <3>5. \A old, C : Prepares(one, old, C) => Prepares(q, old, C)
      BY <3>3, <3>4 DEF Prepares
    <3> QED
      BY <2>6, <3>4, <3>5 DEF q
  <2> QED
    BY <1>4, <1>9, <2>7, <2>8
<1> QED
  BY <1>4, <1>7, <1>8, <1>9

-----------------------------------------------------------------------------
(* The invariant.                                                             *)

\* Allocated, and not to be freed before s has completed.
KeptFor(a, d, s) ==
  /\ d \in a.live
  /\ \A r \in a.retired : r.allocation = d => r.serial >= s

\* What is allocated and not retired is owned, by one mesh; and nothing else is.
OwnersOK(arenas, meshes) ==
  \A k \in Kinds :
     /\ \A c \in DOMAIN meshes : k \in DOMAIN meshes[c] =>
           meshes[c][k] \in Unretired(arenas[k])
     /\ \A d \in Unretired(arenas[k]) : \E c \in DOMAIN meshes :
           k \in DOMAIN meshes[c] /\ meshes[c][k] = d
     /\ \A c, e \in DOMAIN meshes :
           k \in DOMAIN meshes[c] /\ k \in DOMAIN meshes[e] /\ meshes[c][k] = meshes[e][k]
           => c = e

\* The arenas in order, and the meshes they hold.
ArenasInv ==
  /\ arena \in [Kinds -> Arenas]
  /\ \A k \in Kinds : ArenaOK(arena[k])
  /\ DOMAIN mesh \subseteq Chunks
  /\ \A c \in DOMAIN mesh : DOMAIN mesh[c] \subseteq Kinds
  /\ OwnersOK(arena, mesh)

ContextsOK(contexts, last) ==
  /\ contexts \in [context : [0..(Contexts - 1) -> Nat], next : 0..(Contexts - 1)]
  /\ \A i \in 0..(Contexts - 1) : contexts.context[i] <= last

\* Submissions finish in their order, and the GPU is never ahead of the host.
SerialsInv ==
  /\ submitted \in Nat
  /\ completed \in Nat
  /\ completed <= submitted
  /\ \A s \in DOMAIN executing : s \in Nat /\ completed < s /\ s <= submitted
  /\ \A s \in DOMAIN executing : \A t \in Nat : s < t /\ t <= submitted => t \in DOMAIN executing
  /\ ContextsOK(frameContexts, submitted)
  /\ ContextsOK(uploadContexts, submitted)

\* What a submission uses is kept for it.
UsesOK(arenas, uses, s) ==
  \A use \in uses : use[1] \in Kinds /\ KeptFor(arenas[use[1]], use[2], s)

UsesInv == \A s \in DOMAIN executing : UsesOK(arena, executing[s].uses, s)

Stagings == [offset : Nat, size : Nat, serial : Nat]

\* No two staging ranges overlap, and the GPU reads active ones.
RingInv ==
  /\ ring \in [head : Nat, active : SUBSET Stagings]
  /\ \A r, q \in ring.active : r # q => Disjoint(r, q)
  /\ \A s \in DOMAIN executing :
        /\ executing[s].staging \in Stagings
        /\ executing[s].staging.size > 0 => /\ executing[s].staging \in ring.active
                                            /\ executing[s].staging.serial = s

MemoryInv == ArenasInv /\ SerialsInv /\ UsesInv /\ RingInv

\* What a batch prepares, for all of its chunks.
LEMMA PreparedLemma ==
  ASSUME arena \in [Kinds -> Arenas], \A k \in Kinds : ArenaOK(arena[k]),
         NEW batch \in Batches, NEW refused
  PROVE  Prepares(Prepared(batch, refused), arena, {batch[i][1] : i \in DOMAIN batch})
<1> DEFINE S == DOMAIN batch
           base == [ok |-> TRUE, arenas |-> arena, made |-> {}]
           Law(g) == g = [T \in SUBSET S |->
                            IF T = {} THEN base
                            ELSE PrepareOne(g[T \ {Max(T)}], batch[Max(T)][1], batch[Max(T)][2],
                                            refused)]
           it == CHOOSE g : Law(g)
           A == {p \in Preparations : InOrder(p)}
           Carries(p, c, q) ==
             \A old, C : Prepares(p, old, C) /\ c \notin C => Prepares(q, old, C \cup {c})
           pick == [T \in SUBSET S |-> Max(T)]
           step == [d \in S \X A |-> PrepareOne(d[2], batch[d[1]][1], batch[d[1]][2], refused)]
<1>1. Prepared(batch, refused) = it[S]
  BY Zenon DEF Prepared, FoldLeft, MapThenFoldSet
<1>2. S = 1 .. Len(batch) /\ Len(batch) \in Nat
      /\ \A i \in S : batch[i][1] \in Chunks /\ batch[i][2] \in [Kinds -> Nat]
  <2> DEFINE Upload == Chunks \X [Kinds -> Nat]
  <2>1. batch \in Seq(Upload)
    BY MemoryAssumption
  <2> HIDE DEF Upload
  <2>2. S = 1 .. Len(batch) /\ Len(batch) \in Nat /\ \A i \in S : batch[i] \in Upload
    BY <2>1
  <2> QED
    BY <2>2 DEF Upload
<1>3. /\ \A i, j \in S : batch[i][1] = batch[j][1] => i = j
      /\ \A i \in S : batch[i][2]["vertices"] = 0 <=> batch[i][2]["indices"] = 0
  BY MemoryAssumption
<1>4. S \subseteq Nat /\ IsFiniteSet(S)
  <2>1. IsFiniteSet(1 .. Len(batch))
    BY <1>2, FS_Interval
  <2> QED
    BY <1>2, <2>1
<1> HIDE DEF S
<1>5. \A T \in SUBSET S : T # {} => Max(T) \in T
  <2> SUFFICES ASSUME NEW T \in SUBSET S, T # {} PROVE Max(T) \in T
    OBVIOUS
  <2>1. T \subseteq Nat /\ IsFiniteSet(T)
    BY <1>4, FS_Subset
  <2> QED
    BY <2>1, MaxOf
<1>6. base \in Preparations /\ Prepares(base, arena, {})
  <2>1. base.ok = TRUE /\ base.arenas = arena /\ base.made = {}
    OBVIOUS
  <2>2. base \in Preparations
    BY DEF Preparations
  <2> QED
    BY <2>1, <2>2, FS_EmptySet DEF Prepares, InOrder
<1>7. base \in A
  BY <1>6 DEF Prepares
<1> HIDE DEF base
<1>8. ASSUME NEW x \in S, NEW p \in A
      PROVE  /\ PrepareOne(p, batch[x][1], batch[x][2], refused) \in A
             /\ Carries(p, batch[x][1], PrepareOne(p, batch[x][1], batch[x][2], refused))
  <2> DEFINE c == batch[x][1]
             sizes == batch[x][2]
             q == PrepareOne(p, c, sizes, refused)
  <2>1. /\ c \in Chunks /\ sizes \in [Kinds -> Nat] /\ InOrder(p)
        /\ sizes["vertices"] = 0 <=> sizes["indices"] = 0
    BY <1>2, <1>3
  <2> HIDE DEF c, sizes
  <2>2. InOrder(q) /\ \A old, C : Prepares(p, old, C) /\ c \notin C => Prepares(q, old, C \cup {c})
    BY <2>1, PreparingOne
  <2> HIDE DEF q
  <2>3. q \in A
    BY <2>2 DEF InOrder
  <2> QED
    BY <2>2, <2>3 DEF q, c, sizes
<1>9. \A T \in SUBSET S : T # {} => pick[T] \in T /\ pick[T] = Max(T)
  BY <1>5
<1>10. step \in [S \X A -> A]
  <2> SUFFICES ASSUME NEW d \in S \X A
               PROVE  PrepareOne(d[2], batch[d[1]][1], batch[d[1]][2], refused) \in A
    OBVIOUS
  <2> HIDE DEF A
  <2> QED
    BY <1>8
<1>11. \A x \in S, p \in A : step[<<x, p>>] = PrepareOne(p, batch[x][1], batch[x][2], refused)
  <2> HIDE DEF A
  <2> QED
    OBVIOUS
<1> HIDE DEF pick, step, A, Carries
<1>12. PICK g \in [SUBSET S -> A] : IsFold(g, S, base, pick, step)
  BY <1>4, <1>7, <1>9, <1>10, FoldExists
<1>13. Law(g)
  <2>1. ASSUME NEW T \in SUBSET S
        PROVE  (IF T = {} THEN base ELSE step[<<pick[T], g[T \ {pick[T]}]>>])
               = IF T = {} THEN base
                 ELSE PrepareOne(g[T \ {Max(T)}], batch[Max(T)][1], batch[Max(T)][2], refused)
    <3>1. CASE T = {}
      BY <3>1
    <3>2. CASE T # {}
      <4>1. pick[T] = Max(T) /\ Max(T) \in S /\ T \ {Max(T)} \in SUBSET S
        BY <1>9, <3>2
      <4>2. g[T \ {Max(T)}] \in A
        BY <4>1
      <4> QED
        BY <1>11, <3>2, <4>1, <4>2
    <3> QED
      BY <3>1, <3>2
  <2> QED
    BY <1>12, <2>1 DEF IsFold
<1>14. Law(it)
  <2> HIDE DEF Law
  <2> QED
    BY <1>13
<1> HIDE DEF it
<1>15. it[{}] = base
  BY <1>14
<1>16. \A T \in SUBSET S : T # {} =>
         it[T] = PrepareOne(it[T \ {Max(T)}], batch[Max(T)][1], batch[Max(T)][2], refused)
  BY <1>14
<1> HIDE DEF Law
<1> DEFINE Named(T) == {batch[i][1] : i \in T}
           G == {T \in SUBSET S : Prepares(it[T], arena, Named(T))}
<1>17. ASSUME NEW T \in SUBSET S, \A x \in T : T \ {x} \in G
       PROVE  T \in G
  <2>1. CASE T = {}
    <3>1. Named(T) = {}
      BY <2>1
    <3> QED
      BY <1>6, <1>15, <2>1, <3>1
  <2>2. CASE T # {}
    <3> DEFINE x == Max(T)
               rest == T \ {x}
               c == batch[x][1]
               p == it[rest]
    <3>1. x \in T /\ x \in S
      BY <1>5, <2>2
    <3> HIDE DEF x
    <3>2. Prepares(p, arena, Named(rest))
      BY <1>17, <3>1
    <3>3. c \notin Named(rest)
      BY <1>3, <3>1
    <3>4. Named(T) = Named(rest) \cup {c}
      BY <3>1
    <3>5. p \in A
      BY <3>2 DEF Prepares, InOrder, A
    <3> HIDE DEF p, c, Named
    <3>6. it[T] = PrepareOne(p, batch[x][1], batch[x][2], refused)
      BY <1>16, <2>2 DEF p, x
    <3>7. Prepares(it[T], arena, Named(rest) \cup {c})
      <4>1. Carries(p, c, it[T])
        BY <1>8, <3>1, <3>5, <3>6 DEF c
      <4> QED
        BY <3>2, <3>3, <4>1 DEF Carries
    <3> QED
      BY <3>4, <3>7
  <2> QED
    BY <2>1, <2>2
<1> HIDE DEF G
<1>18. Inductive(S, G)
  BY <1>17 DEF Inductive
<1>19. S \in G
  <2>1. SUBSET S \subseteq G
    BY <1>4, <1>18, SubsetInduction
  <2> QED
    BY <2>1
<1>20. Prepares(it[S], arena, Named(S))
  BY <1>19 DEF G
<1> QED
  BY <1>1, <1>20 DEF S

LEMMA SizeIsNat ==
  ASSUME NEW p, p.made \subseteq Chunks \X Kinds \X Allocations, IsFiniteSet(p.made)
  PROVE  SizeOf(p) \in Nat
<1> DEFINE S == p.made
           w == [m \in S |-> m[3].size]
           Law(g) == g = [T \in SUBSET S |->
                            IF T = {} THEN 0
                            ELSE (CHOOSE x \in T : TRUE)[3].size
                                 + g[T \ {CHOOSE x \in T : TRUE}]]
           it == CHOOSE g : Law(g)
<1>1. \A m \in S : w[m] \in Nat /\ w[m] = m[3].size
  <2>1. \A m \in S : m[3].size \in Nat
    BY SizesOfRanges
  <2> QED
    BY <2>1
<1>2. SizeOf(p) = it[S]
  BY Zenon DEF SizeOf, MapThenSumSet, MapThenFoldSet
<1> HIDE DEF S, w
<1>3. \A T \in SUBSET S : T # {} => w[CHOOSE x \in T : TRUE] = (CHOOSE x \in T : TRUE)[3].size
  BY <1>1
<1>4. ASSUME NEW g
      PROVE  Law(g) <=> IsSum(g, S, w)
  <2>1. [T \in SUBSET S |-> IF T = {} THEN 0
                            ELSE (CHOOSE x \in T : TRUE)[3].size
                                 + g[T \ {CHOOSE x \in T : TRUE}]]
        = [T \in SUBSET S |-> IF T = {} THEN 0
                              ELSE w[CHOOSE x \in T : TRUE]
                                   + g[T \ {CHOOSE x \in T : TRUE}]]
    BY <1>3
  <2> QED
    BY <2>1 DEF IsSum
<1>5. IsFiniteSet(S)
  BY DEF S
<1>6. \E g : IsSum(g, S, w)
  BY <1>1, <1>5, SumExists
<1> HIDE DEF Law
<1>7. Law(it)
  BY <1>4, <1>6
<1> HIDE DEF it
<1>8. it[S] = Sum(S, w)
  BY <1>1, <1>4, <1>5, <1>7, SumIs
<1> QED
  BY <1>1, <1>2, <1>5, <1>8, SumLaws

\* What is kept for a submission stays kept, when what is not its own is
\* retired for it or earlier and what has completed before it is collected.
LEMMA RetiredAndCollected ==
  ASSUME NEW a, ArenaOK(a), NEW X, NEW serial \in Nat, NEW upTo \in Nat
  PROVE  LET new == Collect(Retire(a, X, serial), upTo)
         IN  /\ ArenaOK(new)
             /\ Unretired(new) = Unretired(a) \ X
             /\ \A d : \A s \in Nat :
                   KeptFor(a, d, s) /\ upTo < s /\ (s <= serial \/ d \notin X)
                   => KeptFor(new, d, s)
<1> DEFINE mid == Retire(a, X, serial)
           new == Collect(mid, upTo)
<1>1. /\ ArenaOK(mid)
      /\ mid.live = a.live
      /\ Unretired(mid) = Unretired(a) \ X
      /\ \A r \in mid.retired \ a.retired :
            r.allocation \in X \cap Unretired(a) /\ r.serial = serial
  BY RetireLemma
<1> HIDE DEF mid
<1>2. /\ ArenaOK(new)
      /\ Unretired(new) = Unretired(mid)
      /\ new.retired = {r \in mid.retired : r.serial > upTo}
      /\ \A d \in mid.live : d \in new.live \/ \E r \in mid.retired :
                                r.allocation = d /\ r.serial <= upTo
  BY <1>1, CollectLemma
<1> HIDE DEF new
<1>3. ASSUME NEW d, NEW s \in Nat, KeptFor(a, d, s), upTo < s, s <= serial \/ d \notin X
      PROVE  KeptFor(new, d, s)
  <2>1. \A r \in mid.retired : r.allocation = d => r.serial \in Nat /\ r.serial >= s
    <3>1. \A r \in mid.retired : r.serial \in Nat
      BY <1>1, ArenaFields DEF ArenaOK
    <3> QED
      BY <1>1, <1>3, <3>1 DEF KeptFor
  <2>2. d \in new.live
    BY <1>1, <1>2, <1>3, <2>1 DEF KeptFor
  <2> QED
    BY <1>2, <2>1, <2>2 DEF KeptFor
<1> QED
  BY <1>1, <1>2, <1>3 DEF new, mid

\* The same, of both arenas.
Retires(new, arenas, owned, serial, upTo) ==
  /\ new \in [Kinds -> Arenas]
  /\ \A k \in Kinds :
        /\ ArenaOK(new[k])
        /\ Unretired(new[k]) = Unretired(arenas[k]) \ Of(k, owned)
        /\ \A d : \A s \in Nat :
              KeptFor(arenas[k], d, s) /\ upTo < s /\ (s <= serial \/ d \notin Of(k, owned))
              => KeptFor(new[k], d, s)

LEMMA RetiredFromBoth ==
  ASSUME NEW arenas, \A k \in Kinds : ArenaOK(arenas[k]),
         NEW owned, NEW serial \in Nat, NEW upTo \in Nat
  PROVE  Retires(CollectRetired(RetireOwned(arenas, owned, serial), upTo),
                 arenas, owned, serial, upTo)
<1> DEFINE new == CollectRetired(RetireOwned(arenas, owned, serial), upTo)
<1>1. new = [k \in Kinds |-> Collect(Retire(arenas[k], Of(k, owned), serial), upTo)]
  <2> DEFINE mid == [k \in Kinds |-> Retire(arenas[k], Of(k, owned), serial)]
  <2>1. new = [k \in Kinds |-> Collect(mid[k], upTo)]
    BY DEF CollectRetired, RetireOwned
  <2>2. \A k \in Kinds : mid[k] = Retire(arenas[k], Of(k, owned), serial)
    OBVIOUS
  <2> HIDE DEF mid
  <2> QED
    BY <2>1, <2>2
<1>2. \A k \in Kinds : new[k] = Collect(Retire(arenas[k], Of(k, owned), serial), upTo)
  BY <1>1
<1>3. ASSUME NEW k \in Kinds
      PROVE  /\ ArenaOK(new[k])
             /\ Unretired(new[k]) = Unretired(arenas[k]) \ Of(k, owned)
             /\ \A d : \A s \in Nat :
                   KeptFor(arenas[k], d, s) /\ upTo < s /\ (s <= serial \/ d \notin Of(k, owned))
                   => KeptFor(new[k], d, s)
  BY <1>2, RetiredAndCollected
<1>4. new \in [Kinds -> Arenas]
  BY <1>1, <1>2, <1>3 DEF ArenaOK
<1> HIDE DEF new
<1> QED
  BY <1>3, <1>4 DEF Retires, new

\* What is retired of meshes, of a batch.
LEMMA OfOwned ==
  /\ \A k, m, d : d \in Of(k, Owned(m)) <=> k \in DOMAIN m /\ d = m[k]
  /\ \A k, C, d : d \in Of(k, UNION {Owned(mesh[c]) : c \in C}) <=>
                     \E c \in C : k \in DOMAIN mesh[c] /\ d = mesh[c][k]
  /\ \A k, p, d : d \in Of(k, Made(p)) <=> \E m \in p.made : m[2] = k /\ m[3] = d
<1> DEFINE Is(o, k, d) == o[1] = k /\ o[2] = d
<1>1. ASSUME NEW k, NEW d, NEW owned
      PROVE  d \in Of(k, owned) <=> \E o \in owned : Is(o, k, d)
  BY DEF Of
<1>2. ASSUME NEW k, NEW d, NEW m
      PROVE  (\E o \in Owned(m) : Is(o, k, d)) <=> k \in DOMAIN m /\ d = m[k]
  <2>1. ASSUME NEW o \in Owned(m), Is(o, k, d)
        PROVE  k \in DOMAIN m /\ d = m[k]
    <3>1. PICK j \in DOMAIN m : o = <<j, m[j]>>
      BY DEF Owned
    <3> QED
      BY <2>1, <3>1
  <2>2. ASSUME k \in DOMAIN m, d = m[k]
        PROVE  \E o \in Owned(m) : Is(o, k, d)
    <3>1. <<k, m[k]>> \in Owned(m)
      BY <2>2 DEF Owned
    <3>2. Is(<<k, m[k]>>, k, d)
      BY <2>2
    <3> QED
      BY <3>1, <3>2
  <2> QED
    BY <2>1, <2>2
<1>3. ASSUME NEW k, NEW d, NEW p
      PROVE  (\E o \in Made(p) : Is(o, k, d)) <=> \E m \in p.made : Is(<<m[2], m[3]>>, k, d)
  BY DEF Made
<1>4. \A k, d, x, y : Is(<<x, y>>, k, d) <=> x = k /\ y = d
  OBVIOUS
<1> HIDE DEF Is
<1>5. \A k, m, d : d \in Of(k, Owned(m)) <=> k \in DOMAIN m /\ d = m[k]
  BY <1>1, <1>2
<1>6. ASSUME NEW k, NEW C, NEW d
      PROVE  d \in Of(k, UNION {Owned(mesh[c]) : c \in C}) <=>
                \E c \in C : k \in DOMAIN mesh[c] /\ d = mesh[c][k]
  <2> DEFINE all == UNION {Owned(mesh[c]) : c \in C}
  <2>1. d \in Of(k, all) <=> \E o \in all : Is(o, k, d)
    BY <1>1
  <2>2. \A o : o \in all <=> \E c \in C : o \in Owned(mesh[c])
    OBVIOUS
  <2> HIDE DEF all
  <2>3. d \in Of(k, all) <=> \E c \in C : \E o \in Owned(mesh[c]) : Is(o, k, d)
    BY <2>1, <2>2
  <2> QED
    BY <1>2, <2>3 DEF all
<1>7. ASSUME NEW k, NEW p, NEW d
      PROVE  d \in Of(k, Made(p)) <=> \E m \in p.made : m[2] = k /\ m[3] = d
  <2>1. d \in Of(k, Made(p)) <=> \E o \in Made(p) : Is(o, k, d)
    BY <1>1
  <2>2. (\E o \in Made(p) : Is(o, k, d)) <=> \E m \in p.made : Is(<<m[2], m[3]>>, k, d)
    BY <1>3
  <2>3. \A m \in p.made : Is(<<m[2], m[3]>>, k, d) <=> m[2] = k /\ m[3] = d
    BY <1>4
  <2> QED
    BY <2>1, <2>2, <2>3
<1> QED
  BY <1>5, <1>6, <1>7

\* The mesh of a chunk, of what has been made for it.
LEMMA MeshOfMade ==
  ASSUME NEW p, NEW old, NEW C, Prepares(p, old, C), NEW c
  PROVE  /\ DOMAIN MeshOf(c, p) \subseteq Kinds
         /\ \A k : k \in DOMAIN MeshOf(c, p) <=> \E m \in p.made : m[1] = c /\ m[2] = k
         /\ \A m \in p.made : m[1] = c => MeshOf(c, p)[m[2]] = m[3]
<1> DEFINE mine == {m \in p.made : m[1] = c}
           kinds == {m[2] : m \in mine}
<1>1. MeshOf(c, p) = [k \in kinds |-> (CHOOSE m \in mine : m[2] = k)[3]]
  BY DEF MeshOf
<1>2. \A m \in p.made : m[2] \in Kinds
  BY DEF Prepares, InOrder, Preparations
<1>3. ASSUME NEW m \in p.made, m[1] = c
      PROVE  MeshOf(c, p)[m[2]] = m[3]
  <2> DEFINE n == CHOOSE n \in mine : n[2] = m[2]
  <2>1. n \in mine /\ n[2] = m[2] /\ m[2] \in kinds
    BY <1>3
  <2>2. MeshOf(c, p)[m[2]] = n[3]
    BY <1>1, <2>1
  <2> HIDE DEF n
  <2>3. n = m
    BY <1>3, <2>1 DEF Prepares
  <2> QED
    BY <2>2, <2>3
<1> QED
  BY <1>1, <1>2, <1>3

-----------------------------------------------------------------------------
(* The device's steps.                                                        *)

LEMMA ContextLemma ==
  ASSUME NEW contexts, NEW last \in Nat, ContextsOK(contexts, last)
  PROVE  /\ contexts.context[contexts.next] \in Nat
         /\ contexts.context[contexts.next] <= last
         /\ ContextsOK(ReleasedContext(contexts), last)
         /\ \A n \in Nat : last <= n => ContextsOK(contexts, n)
<1> DEFINE I == 0..(Contexts - 1)
<1>1. /\ contexts = [context |-> contexts.context, next |-> contexts.next]
      /\ contexts.context \in [I -> Nat] /\ contexts.next \in I
      /\ \A i \in I : contexts.context[i] <= last
  BY DEF ContextsOK
<1>2. contexts.context[contexts.next] \in Nat /\ contexts.context[contexts.next] <= last
  BY <1>1
<1>3. ContextsOK(ReleasedContext(contexts), last)
  <2> DEFINE freed == [contexts.context EXCEPT ![contexts.next] = 0]
  <2>1. ReleasedContext(contexts) = [context |-> freed, next |-> contexts.next]
    BY <1>1 DEF ReleasedContext
  <2>2. freed \in [I -> Nat] /\ \A i \in I : freed[i] <= last
    BY <1>1
  <2> HIDE DEF freed
  <2> QED
    BY <1>1, <2>1, <2>2 DEF ContextsOK
<1>4. \A n \in Nat : last <= n => ContextsOK(contexts, n)
  <2>1. \A n \in Nat : last <= n => \A i \in I : contexts.context[i] <= n
    <3> DEFINE f == contexts.context
    <3>1. \A i \in I : f[i] \in Nat /\ f[i] <= last
      BY <1>1
    <3> HIDE DEF f, I
    <3> QED
      BY <3>1 DEF f
  <2> QED
    BY <2>1 DEF ContextsOK
<1> QED
  BY <1>2, <1>3, <1>4

LEMMA OccupiedContext ==
  ASSUME submitted \in Nat, NEW contexts, ContextsOK(contexts, submitted)
  PROVE  ContextsOK(Occupied(contexts), submitted + 1)
<1> DEFINE I == 0..(Contexts - 1)
           taken == [contexts.context EXCEPT ![contexts.next] = submitted + 1]
           following == (contexts.next + 1) % Contexts
<1>1. /\ contexts = [context |-> contexts.context, next |-> contexts.next]
      /\ contexts.context \in [I -> Nat] /\ contexts.next \in I
      /\ \A i \in I : contexts.context[i] <= submitted
  BY DEF ContextsOK
<1>2. Occupied(contexts) = [context |-> taken, next |-> following]
  BY DEF Occupied
<1>3. taken \in [I -> Nat] /\ \A i \in I : taken[i] <= submitted + 1
  <2> DEFINE f == contexts.context
  <2>1. f \in [I -> Nat] /\ contexts.next \in I /\ \A i \in I : f[i] \in Nat /\ f[i] <= submitted
    BY <1>1
  <2>2. submitted + 1 \in Nat
    OBVIOUS
  <2> HIDE DEF f, I
  <2>3. [f EXCEPT ![contexts.next] = submitted + 1] \in [I -> Nat]
    BY <2>1, <2>2
  <2>4. \A i \in I : [f EXCEPT ![contexts.next] = submitted + 1][i] <= submitted + 1
    BY <2>1
  <2> QED
    BY <2>3, <2>4 DEF f
<1>4. following \in I
  BY <1>1, MemoryAssumption
<1> HIDE DEF taken, following
<1> QED
  BY <1>2, <1>3, <1>4 DEF ContextsOK

\* Once a context has been waited for, what is still executing is younger.
LEMMA WaitedLemma ==
  ASSUME SerialsInv, NEW contexts, ContextsOK(contexts, submitted), Waited(contexts)
  PROVE  /\ CompletedAfter(contexts) \in Nat
         /\ completed <= CompletedAfter(contexts)
         /\ CompletedAfter(contexts) <= submitted
         /\ \A s \in DOMAIN executing : CompletedAfter(contexts) < s
<1> DEFINE serial == contexts.context[contexts.next]
<1>1. serial \in Nat /\ serial <= submitted
  BY ContextLemma DEF SerialsInv
<1>2. serial \notin DOMAIN executing
  BY DEF Waited, Finished
<1>3. CompletedAfter(contexts) = IF completed <= serial THEN serial ELSE completed
  <2>1. CompletedAfter(contexts) = Max({completed, serial})
    BY DEF CompletedAfter
  <2> HIDE DEF serial
  <2> QED
    BY <1>1, <2>1, MaxOfTwo DEF SerialsInv
<1> HIDE DEF serial
<1>4. ASSUME NEW s \in DOMAIN executing
      PROVE  serial < s
  BY <1>1, <1>2 DEF SerialsInv
<1> QED
  BY <1>1, <1>3, <1>4 DEF SerialsInv

\* A place found in the ring is free.
LEMMA StagingPlace ==
  ASSUME NEW active, active \subseteq Stagings, NEW size \in Nat
  PROVE  LET offsets == StagingOffsets(active, size)
         IN  /\ offsets \subseteq Nat
             /\ offsets # {} =>
                   /\ Min(offsets) \in Nat
                   /\ \A r \in active : \/ Min(offsets) + size <= r.offset
                                        \/ r.offset + r.size <= Min(offsets)
<1> DEFINE places == {s \in 0..(StagingCapacity - size) :
                       \A r \in active : s + size <= r.offset \/ r.offset + r.size <= s}
           ahead == {s \in places : s >= ring.head}
           behind == {s \in places : s + size <= ring.head}
           offsets == StagingOffsets(active, size)
<1>1. places \subseteq Nat /\ ahead \subseteq places /\ behind \subseteq places
  BY MemoryAssumption
<1>2. offsets = IF size > StagingCapacity THEN {}
                ELSE IF ahead # {} THEN {Min(ahead)}
                ELSE IF behind # {} THEN {Min(behind)}
                ELSE {}
  BY DEF StagingOffsets
<1>3. \A s \in places : \A r \in active : s + size <= r.offset \/ r.offset + r.size <= s
  OBVIOUS
<1> HIDE DEF places, ahead, behind, offsets
<1>4. ahead # {} => Min(ahead) \in places
  BY <1>1, MinOf
<1>5. behind # {} => Min(behind) \in places
  BY <1>1, MinOf
<1>6. offsets \subseteq places
  BY <1>2, <1>4, <1>5
<1>7. offsets # {} => Min(offsets) \in offsets
  BY <1>1, <1>6, MinOf
<1> QED
  BY <1>1, <1>3, <1>6, <1>7 DEF offsets

\* What has completed is no longer staged.
LEMMA StillStaged ==
  ASSUME RingInv, NEW upTo
  PROVE  /\ StillActive(upTo) \subseteq ring.active
         /\ StillActive(upTo) \subseteq Stagings
         /\ \A r \in ring.active : r.serial > upTo => r \in StillActive(upTo)
BY DEF StillActive, RingInv

\* One more submission.
LEMMA SubmissionLemma ==
  ASSUME SerialsInv, NEW what, executing' = Extended(executing, submitted', what),
         submitted' = submitted + 1
  PROVE  /\ submitted + 1 \notin DOMAIN executing
         /\ DOMAIN executing' = DOMAIN executing \cup {submitted + 1}
         /\ executing'[submitted + 1] = what
         /\ \A s \in DOMAIN executing : executing'[s] = executing[s]
<1>1. submitted + 1 \notin DOMAIN executing
  BY DEF SerialsInv
<1>2. executing' = [s \in DOMAIN executing \cup {submitted + 1} |->
                      IF s = submitted + 1 THEN what ELSE executing[s]]
  BY DEF Extended
<1> QED
  BY <1>1, <1>2

LEMMA SubmittedSerials ==
  ASSUME SerialsInv, completed' \in Nat, completed' <= submitted,
         \A s \in DOMAIN executing : completed' < s,
         submitted' = submitted + 1,
         DOMAIN executing' = DOMAIN executing \cup {submitted + 1},
         ContextsOK(frameContexts', submitted + 1), ContextsOK(uploadContexts', submitted + 1)
  PROVE  SerialsInv'
<1>1. submitted' \in Nat /\ completed' <= submitted'
  BY DEF SerialsInv
<1>2. \A s \in DOMAIN executing' : s \in Nat /\ completed' < s /\ s <= submitted'
  BY DEF SerialsInv
<1>3. ASSUME NEW s \in DOMAIN executing', NEW t \in Nat, s < t, t <= submitted'
      PROVE  t \in DOMAIN executing'
  <2>1. CASE t = submitted + 1
    BY <2>1
  <2>2. CASE t # submitted + 1
    <3>1. t <= submitted
      BY <1>3, <2>2 DEF SerialsInv
    <3>2. s \in DOMAIN executing
      BY <1>3, <3>1 DEF SerialsInv
    <3> QED
      BY <1>3, <3>1, <3>2 DEF SerialsInv
  <2> QED
    BY <2>1, <2>2
<1> QED
  BY <1>1, <1>2, <1>3 DEF SerialsInv

LEMMA UnsubmittedSerials ==
  ASSUME SerialsInv, completed' \in Nat, completed' <= submitted,
         \A s \in DOMAIN executing : completed' < s,
         UNCHANGED <<submitted, executing>>,
         ContextsOK(frameContexts', submitted), ContextsOK(uploadContexts', submitted)
  PROVE  SerialsInv'
BY DEF SerialsInv

LEMMA RingAfterCompletion ==
  ASSUME SerialsInv, RingInv, \A s \in DOMAIN executing : completed' < s,
         UNCHANGED executing, NEW head \in Nat,
         ring' = [head |-> head, active |-> StillActive(completed')]
  PROVE  RingInv'
<1>1. ring'.active = StillActive(completed') /\ ring' \in [head : Nat, active : SUBSET Stagings]
  BY StillStaged
<1>2. \A r, q \in ring'.active : r # q => Disjoint(r, q)
  BY <1>1, StillStaged DEF RingInv
<1>3. ASSUME NEW s \in DOMAIN executing, executing[s].staging.size > 0
      PROVE  executing[s].staging \in ring'.active
  <2>1. executing[s].staging \in ring.active /\ executing[s].staging.serial = s
    BY <1>3 DEF RingInv
  <2>2. s \in Nat /\ completed' < s
    BY DEF SerialsInv
  <2>3. executing[s].staging.serial > completed'
    BY <2>1, <2>2
  <2> QED
    BY <1>1, <2>1, <2>3, StillStaged
<1> QED
  BY <1>1, <1>2, <1>3 DEF RingInv

LEMMA SameArenas ==
  ASSUME ArenasInv, UNCHANGED <<arena, mesh>> PROVE ArenasInv'
BY DEF ArenasInv

LEMMA SameDevice ==
  ASSUME SerialsInv, RingInv,
         UNCHANGED <<submitted, completed, frameContexts, uploadContexts, ring, executing>>
  PROVE  SerialsInv' /\ RingInv'
BY DEF SerialsInv, RingInv

\* What is not retired is kept for whatever uses it.
LEMMA UnretiredIsKept ==
  ASSUME NEW a, NEW d \in Unretired(a), NEW s
  PROVE  KeptFor(a, d, s)
BY DEF Unretired, Retired, KeptFor

\* A submission finishes: only less is in use.
LEMMA FinishKeeps ==
  ASSUME MemoryInv, NEW serial, Finish(serial) PROVE MemoryInv'
<1>1. /\ serial \in DOMAIN executing
      /\ \A older \in DOMAIN executing : serial <= older
      /\ DOMAIN executing' = DOMAIN executing \ {serial}
      /\ \A s \in DOMAIN executing' : executing'[s] = executing[s]
      /\ UNCHANGED <<arena, mesh, submitted, completed, frameContexts, uploadContexts, ring>>
  BY DEF Finish
<1>2. SerialsInv /\ ArenasInv /\ UsesInv /\ RingInv
  BY DEF MemoryInv
<1>3. ArenasInv'
  BY <1>1, <1>2, SameArenas
<1>4. SerialsInv'
  <2>1. ASSUME NEW s \in DOMAIN executing', NEW t \in Nat, s < t, t <= submitted
        PROVE  t \in DOMAIN executing'
    <3>1. t \in DOMAIN executing
      BY <1>1, <1>2, <2>1 DEF SerialsInv
    <3>2. serial <= s /\ serial \in Nat /\ s \in Nat
      BY <1>1, <1>2 DEF SerialsInv
    <3> QED
      BY <1>1, <2>1, <3>1, <3>2
  <2> QED
    BY <1>1, <1>2, <2>1 DEF SerialsInv
<1>5. UsesInv'
  BY <1>1, <1>2 DEF UsesInv
<1>6. RingInv'
  BY <1>1, <1>2 DEF RingInv
<1> QED
  BY <1>3, <1>4, <1>5, <1>6 DEF MemoryInv

\* A frame draws what the meshes own, which is allocated and not retired.
LEMMA ExecuteFrameKeeps ==
  ASSUME MemoryInv, ExecuteFrame PROVE MemoryInv'
<1>1. SerialsInv /\ ArenasInv /\ UsesInv /\ RingInv /\ ContextsOK(frameContexts, submitted)
      /\ ContextsOK(uploadContexts, submitted) /\ submitted \in Nat
  BY DEF MemoryInv, SerialsInv
<1> DEFINE all == UNION {Owned(mesh[c]) : c \in DOMAIN mesh}
           what == [uses |-> all, staging |-> NoStaging]
<1>2. /\ Waited(frameContexts)
      /\ completed' = CompletedAfter(frameContexts)
      /\ ring' = [ring EXCEPT !.active = StillActive(completed')]
      /\ UNCHANGED <<arena, mesh, uploadContexts>>
      /\ \/ /\ submitted' = submitted + 1
            /\ frameContexts' = Occupied(frameContexts)
            /\ executing' = Extended(executing, submitted', what)
         \/ /\ frameContexts' = ReleasedContext(frameContexts)
            /\ UNCHANGED <<submitted, executing>>
  BY DEF ExecuteFrame
<1> HIDE DEF what
<1>3. /\ completed' \in Nat /\ completed' <= submitted
      /\ \A s \in DOMAIN executing : completed' < s
  BY <1>1, <1>2, WaitedLemma
<1>4. ArenasInv'
  BY <1>1, <1>2, SameArenas
<1>5. ring' = [head |-> ring.head, active |-> StillActive(completed')] /\ ring.head \in Nat
  BY <1>1, <1>2 DEF RingInv
<1>6. CASE UNCHANGED <<submitted, executing>> /\ frameContexts' = ReleasedContext(frameContexts)
  <2>1. SerialsInv'
    BY <1>1, <1>2, <1>3, <1>6, ContextLemma, UnsubmittedSerials
  <2>2. RingInv'
    BY <1>1, <1>3, <1>5, <1>6, RingAfterCompletion
  <2>3. UsesInv'
    BY <1>1, <1>2, <1>6 DEF UsesInv
  <2> QED
    BY <1>4, <2>1, <2>2, <2>3 DEF MemoryInv
<1>7. CASE /\ submitted' = submitted + 1
           /\ frameContexts' = Occupied(frameContexts)
           /\ executing' = Extended(executing, submitted', what)
  <2>1. /\ DOMAIN executing' = DOMAIN executing \cup {submitted + 1}
        /\ executing'[submitted + 1] = what
        /\ \A s \in DOMAIN executing : executing'[s] = executing[s]
    BY <1>1, <1>7, SubmissionLemma
  <2>2. SerialsInv'
    <3>1. ContextsOK(frameContexts', submitted + 1)
      BY <1>1, <1>7, OccupiedContext
    <3>2. ContextsOK(uploadContexts', submitted + 1)
      <4>1. \A n \in Nat : submitted <= n => ContextsOK(uploadContexts, n)
        BY <1>1, ContextLemma
      <4> QED
        BY <1>1, <1>2, <4>1
    <3> QED
      BY <1>1, <1>3, <1>7, <2>1, <3>1, <3>2, SubmittedSerials
  <2>3. what.uses = all /\ what.staging = NoStaging
    BY DEF what
  <2> HIDE DEF all
  <2>4. RingInv'
    <3>1. ring'.active = StillActive(completed') /\ ring' \in [head : Nat, active : SUBSET Stagings]
      BY <1>1, <1>5, StillStaged
    <3>2. \A r, q \in ring'.active : r # q => Disjoint(r, q)
      BY <1>1, <3>1, StillStaged DEF RingInv
    <3>3. ASSUME NEW s \in DOMAIN executing
          PROVE  /\ executing[s].staging \in Stagings
                 /\ executing[s].staging.size > 0 => /\ executing[s].staging \in ring'.active
                                                     /\ executing[s].staging.serial = s
      <4>1. s \in Nat /\ completed' < s
        BY <1>1, <1>3 DEF SerialsInv
      <4> QED
        BY <1>1, <3>1, <4>1, StillStaged DEF RingInv
    <3>4. NoStaging \in Stagings /\ NoStaging.size = 0
      BY DEF NoStaging, Stagings
    <3> QED
      BY <2>1, <2>3, <3>1, <3>2, <3>3, <3>4 DEF RingInv
  <2>5. UsesOK(arena, all, submitted + 1)
    <3> SUFFICES ASSUME NEW c \in DOMAIN mesh, NEW use \in Owned(mesh[c])
                 PROVE  use[1] \in Kinds /\ KeptFor(arena[use[1]], use[2], submitted + 1)
      BY DEF UsesOK, all
    <3>1. PICK k \in DOMAIN mesh[c] : use = <<k, mesh[c][k]>>
      BY DEF Owned
    <3>2. use[1] = k /\ use[2] = mesh[c][k]
      BY <3>1
    <3>3. k \in Kinds /\ mesh[c][k] \in Unretired(arena[k])
      BY <1>1 DEF ArenasInv, OwnersOK
    <3> QED
      BY <3>2, <3>3, UnretiredIsKept
  <2>6. UsesInv'
    BY <1>1, <1>2, <2>1, <2>3, <2>5 DEF UsesInv
  <2> QED
    BY <1>4, <2>2, <2>4, <2>6 DEF MemoryInv
<1> QED
  BY <1>2, <1>6, <1>7

\* Polling moves the completed serial no further than the GPU has come.
LEMMA PollKeeps ==
  ASSUME MemoryInv, PollCompletedSubmissions PROVE MemoryInv'
<1> DEFINE signalled == {s \in Busy(frameContexts) \cup Busy(uploadContexts) : Finished(s)}
           Observed(contexts) ==
             [context |-> [i \in DOMAIN contexts.context |->
                             IF contexts.context[i] \in signalled THEN 0 ELSE contexts.context[i]],
              next |-> contexts.next]
           I == 0..(Contexts - 1)
<1>1. /\ signalled # {}
      /\ completed' = Max(signalled \cup {completed})
      /\ frameContexts' = Observed(frameContexts)
      /\ uploadContexts' = Observed(uploadContexts)
      /\ ring' = [ring EXCEPT !.active = StillActive(completed')]
      /\ UNCHANGED <<arena, mesh, submitted, executing>>
  BY DEF PollCompletedSubmissions
<1>2. SerialsInv /\ ArenasInv /\ UsesInv /\ RingInv /\ ContextsOK(frameContexts, submitted)
      /\ ContextsOK(uploadContexts, submitted) /\ submitted \in Nat /\ completed \in Nat
      /\ completed <= submitted
  BY DEF MemoryInv, SerialsInv
<1>3. ASSUME NEW contexts, ContextsOK(contexts, submitted)
      PROVE  /\ Busy(contexts) \subseteq Nat /\ IsFiniteSet(Busy(contexts))
             /\ \A s \in Busy(contexts) : s <= submitted
  <2> DEFINE f == contexts.context
  <2>1. f \in [I -> Nat] /\ \A i \in I : f[i] \in Nat /\ f[i] <= submitted
    BY <1>3 DEF ContextsOK
  <2>2. IsFiniteSet(I)
    BY FS_Interval, MemoryAssumption
  <2>3. Busy(contexts) = {f[i] : i \in I} \ {0}
    BY <2>1 DEF Busy
  <2> HIDE DEF f, I
  <2>4. IsFiniteSet({f[i] : i \in I})
    BY <2>2, ImageIsFinite
  <2> QED
    BY <2>1, <2>3, <2>4, FS_Subset
<1>4. /\ signalled \subseteq Nat /\ IsFiniteSet(signalled)
      /\ \A s \in signalled : s <= submitted /\ s \notin DOMAIN executing
  <2>1. IsFiniteSet(Busy(frameContexts) \cup Busy(uploadContexts))
    BY <1>2, <1>3, FS_Union
  <2>2. IsFiniteSet(signalled)
    BY <2>1, FS_Subset
  <2> QED
    BY <1>2, <1>3, <2>2 DEF Finished
<1>5. ASSUME NEW contexts, ContextsOK(contexts, submitted)
      PROVE  ContextsOK(Observed(contexts), submitted)
  <2> DEFINE f == contexts.context
             g == [i \in DOMAIN f |-> IF f[i] \in signalled THEN 0 ELSE f[i]]
  <2>1. f \in [I -> Nat] /\ contexts.next \in I /\ \A i \in I : f[i] \in Nat /\ f[i] <= submitted
    BY <1>5 DEF ContextsOK
  <2>2. Observed(contexts) = [context |-> g, next |-> contexts.next]
    OBVIOUS
  <2> HIDE DEF f, signalled
  <2>3. g \in [I -> Nat] /\ \A i \in I : g[i] <= submitted
    BY <1>2, <2>1
  <2> HIDE DEF g
  <2> QED
    BY <2>1, <2>2, <2>3 DEF ContextsOK
<1>6. /\ completed' \in signalled \cup {completed}
      /\ \A s \in signalled \cup {completed} : s <= completed'
  <2>1. signalled \cup {completed} \subseteq Nat /\ IsFiniteSet(signalled \cup {completed})
    BY <1>2, <1>4, FS_AddElement
  <2> HIDE DEF signalled
  <2> QED
    BY <1>1, <2>1, MaxOf
<1>7. /\ completed' \in Nat /\ completed' <= submitted
      /\ \A s \in DOMAIN executing : completed' < s
  <2> HIDE DEF signalled
  <2>1. \A s \in DOMAIN executing : \A t \in signalled : t < s
    BY <1>2, <1>4 DEF SerialsInv
  <2> QED
    BY <1>2, <1>4, <1>6, <2>1 DEF SerialsInv
<1>8. ArenasInv'
  BY <1>1, <1>2, SameArenas
<1>9. SerialsInv'
  BY <1>1, <1>2, <1>5, <1>7, UnsubmittedSerials
<1>10. RingInv'
  <2>1. ring' = [head |-> ring.head, active |-> StillActive(completed')] /\ ring.head \in Nat
    BY <1>1, <1>2 DEF RingInv
  <2> QED
    BY <1>1, <1>2, <1>7, <2>1, RingAfterCompletion
<1>11. UsesInv'
  BY <1>1, <1>2 DEF UsesInv
<1> QED
  BY <1>8, <1>9, <1>10, <1>11 DEF MemoryInv

\* A new cache entry owns nothing.
LEMMA InsertEntryKeeps ==
  ASSUME MemoryInv, NEW c \in Chunks, InsertEntry(c) PROVE MemoryInv'
<1>1. /\ c \notin DOMAIN mesh
      /\ DOMAIN mesh' = DOMAIN mesh \cup {c}
      /\ mesh'[c] = <<>>
      /\ \A d \in DOMAIN mesh : mesh'[d] = mesh[d]
      /\ UNCHANGED <<arena, submitted, completed, frameContexts, uploadContexts, ring, executing>>
  BY DEF InsertEntry, Extended
<1>2. DOMAIN mesh'[c] = {}
  BY <1>1
<1>3. SerialsInv /\ ArenasInv /\ UsesInv /\ RingInv
  BY DEF MemoryInv
<1>4. OwnersOK(arena, mesh)'
  BY <1>1, <1>2, <1>3 DEF ArenasInv, OwnersOK
<1>5. ArenasInv'
  BY <1>1, <1>2, <1>3, <1>4 DEF ArenasInv
<1>6. UsesInv'
  BY <1>1, <1>3 DEF UsesInv
<1> QED
  BY <1>1, <1>3, <1>5, <1>6, SameDevice DEF MemoryInv

\* A mesh that goes, and what it owns is retired.
LEMMA MeshGoes ==
  ASSUME MemoryInv, NEW c \in DOMAIN mesh,
         arena' = CollectRetired(RetireOwned(arena, Owned(mesh[c]), submitted), completed),
         DOMAIN mesh' \subseteq DOMAIN mesh, DOMAIN mesh \ {c} \subseteq DOMAIN mesh',
         \A d \in DOMAIN mesh' : d # c => mesh'[d] = mesh[d],
         c \in DOMAIN mesh' => DOMAIN mesh'[c] = {},
         UNCHANGED <<submitted, completed, frameContexts, uploadContexts, ring, executing>>
  PROVE  MemoryInv'
<1>1. SerialsInv /\ ArenasInv /\ UsesInv /\ RingInv /\ submitted \in Nat /\ completed \in Nat
  BY DEF MemoryInv, SerialsInv
<1>2. \A k \in Kinds : ArenaOK(arena[k])
  BY <1>1 DEF ArenasInv
<1> DEFINE owned == Owned(mesh[c])
<1>3. /\ arena' \in [Kinds -> Arenas]
      /\ \A k \in Kinds :
            /\ ArenaOK(arena'[k])
            /\ Unretired(arena'[k]) = Unretired(arena[k]) \ Of(k, owned)
            /\ \A d : \A s \in Nat :
                  KeptFor(arena[k], d, s) /\ completed < s /\ (s <= submitted \/ d \notin Of(k, owned))
                  => KeptFor(arena'[k], d, s)
  <2>1. Retires(arena', arena, owned, submitted, completed)
    BY <1>1, <1>2, RetiredFromBoth
  <2> HIDE DEF owned
  <2> QED
    BY <2>1 DEF Retires
<1> HIDE DEF owned
<1>4. \A k, d : d \in Of(k, owned) <=> k \in DOMAIN mesh[c] /\ d = mesh[c][k]
  BY OfOwned DEF owned
<1>5. ASSUME NEW k \in Kinds
      PROVE  /\ \A e \in DOMAIN mesh' : k \in DOMAIN mesh'[e] =>
                   mesh'[e][k] \in Unretired(arena'[k])
             /\ \A d \in Unretired(arena'[k]) : \E e \in DOMAIN mesh' :
                   k \in DOMAIN mesh'[e] /\ mesh'[e][k] = d
             /\ \A e, f \in DOMAIN mesh' :
                   k \in DOMAIN mesh'[e] /\ k \in DOMAIN mesh'[f] /\ mesh'[e][k] = mesh'[f][k]
                   => e = f
  <2>1. /\ \A e \in DOMAIN mesh : k \in DOMAIN mesh[e] => mesh[e][k] \in Unretired(arena[k])
        /\ \A d \in Unretired(arena[k]) : \E e \in DOMAIN mesh :
              k \in DOMAIN mesh[e] /\ mesh[e][k] = d
        /\ \A e, f \in DOMAIN mesh :
              k \in DOMAIN mesh[e] /\ k \in DOMAIN mesh[f] /\ mesh[e][k] = mesh[f][k] => e = f
    BY <1>1 DEF ArenasInv, OwnersOK
  <2>2. \A d : d \in Unretired(arena'[k]) <=>
               d \in Unretired(arena[k]) /\ ~(k \in DOMAIN mesh[c] /\ d = mesh[c][k])
    BY <1>3, <1>4
  <2>3. \A e \in DOMAIN mesh' : k \in DOMAIN mesh'[e] =>
           e \in DOMAIN mesh /\ e # c /\ mesh'[e] = mesh[e]
    OBVIOUS
  <2>4. \A e \in DOMAIN mesh : e # c => e \in DOMAIN mesh' /\ mesh'[e] = mesh[e]
    OBVIOUS
  <2>5. \A e \in DOMAIN mesh' : k \in DOMAIN mesh'[e] => mesh'[e][k] \in Unretired(arena'[k])
    BY <2>1, <2>2, <2>3
  <2>6. \A d \in Unretired(arena'[k]) : \E e \in DOMAIN mesh' :
           k \in DOMAIN mesh'[e] /\ mesh'[e][k] = d
    BY <2>1, <2>2, <2>4
  <2> QED
    BY <2>1, <2>3, <2>5, <2>6
<1>6. ArenasInv'
  <2>1. DOMAIN mesh' \subseteq Chunks
    BY <1>1 DEF ArenasInv
  <2>2. \A e \in DOMAIN mesh' : DOMAIN mesh'[e] \subseteq Kinds
    BY <1>1 DEF ArenasInv
  <2> QED
    BY <1>3, <1>5, <2>1, <2>2 DEF ArenasInv, OwnersOK
<1>7. UsesInv'
  <2> SUFFICES ASSUME NEW s \in DOMAIN executing, NEW use \in executing[s].uses
               PROVE  use[1] \in Kinds /\ KeptFor(arena'[use[1]], use[2], s)
    BY DEF UsesInv, UsesOK
  <2>1. use[1] \in Kinds /\ KeptFor(arena[use[1]], use[2], s)
    BY <1>1 DEF UsesInv, UsesOK
  <2>2. s \in Nat /\ completed < s /\ s <= submitted
    BY <1>1 DEF SerialsInv
  <2> QED
    BY <1>3, <2>1, <2>2
<1> QED
  BY <1>1, <1>6, <1>7, SameDevice DEF MemoryInv

\* An entry goes with its mesh, whose ranges are retired for the frames under way.
LEMMA EraseEntryKeeps ==
  ASSUME MemoryInv, NEW c \in Chunks, EraseEntry(c) PROVE MemoryInv'
<1>1. /\ DOMAIN mesh' = DOMAIN mesh \ {c}
      /\ \A d \in DOMAIN mesh' : mesh'[d] = mesh[d]
  BY DEF EraseEntry
<1> QED
  BY <1>1, MeshGoes DEF EraseEntry

\* A mesh goes, its entry stays.
LEMMA ReleaseMeshKeeps ==
  ASSUME MemoryInv, NEW c \in Chunks, ReleaseMesh(c) PROVE MemoryInv'
<1>1. /\ DOMAIN mesh' = DOMAIN mesh
      /\ \A d \in DOMAIN mesh' : d # c => mesh'[d] = mesh[d]
      /\ mesh'[c] = <<>>
  BY DEF ReleaseMesh
<1>2. DOMAIN mesh'[c] = {}
  BY <1>1
<1> QED
  BY <1>1, <1>2, MeshGoes DEF ReleaseMesh

-----------------------------------------------------------------------------
(* Replacing meshes.                                                          *)

LEMMA UploadLemma ==
  ASSUME SerialsInv, RingInv, NEW writes, NEW size \in Nat,
         UploadBufferBatch(writes, size), UNCHANGED frameContexts
  PROVE  /\ SerialsInv' /\ RingInv'
         /\ submitted' = submitted + 1
         /\ completed' \in Nat /\ completed' <= submitted
         /\ DOMAIN executing' = DOMAIN executing \cup {submitted + 1}
         /\ executing'[submitted + 1].uses = writes
         /\ \A s \in DOMAIN executing : executing'[s] = executing[s] /\ completed' < s
<1> DEFINE active == StillActive(CompletedAfter(uploadContexts))
           offsets == StagingOffsets(active, size)
           staged == [offset |-> Min(offsets), size |-> size, serial |-> submitted + 1]
           staging == IF offsets = {} THEN NoStaging ELSE staged
           what == [uses |-> writes, staging |-> staging]
           head == IF offsets = {} THEN ring.head ELSE (Min(offsets) + size) % StagingCapacity
           taken == IF offsets = {} THEN active ELSE active \cup {staged}
<1>1. /\ Waited(uploadContexts)
      /\ completed' = CompletedAfter(uploadContexts)
      /\ submitted' = submitted + 1
      /\ uploadContexts' = Occupied(uploadContexts)
      /\ ring' = IF offsets = {} THEN [ring EXCEPT !.active = active]
                 ELSE [head |-> (staged.offset + size) % StagingCapacity,
                       active |-> active \cup {staged}]
      /\ executing' = Extended(executing, submitted', what)
  BY DEF UploadBufferBatch
<1>2. /\ ContextsOK(frameContexts, submitted) /\ ContextsOK(uploadContexts, submitted)
      /\ submitted \in Nat
  BY DEF SerialsInv
<1>3. /\ completed' \in Nat /\ completed' <= submitted
      /\ \A s \in DOMAIN executing : completed' < s
  BY <1>1, <1>2, WaitedLemma
<1>4. active = StillActive(completed')
  BY <1>1
<1>5. active \subseteq Stagings
  BY StillStaged
<1> HIDE DEF active
<1>6. /\ offsets \subseteq Nat
      /\ offsets # {} =>
            /\ Min(offsets) \in Nat
            /\ \A r \in active : \/ Min(offsets) + size <= r.offset
                                 \/ r.offset + r.size <= Min(offsets)
  BY <1>5, StagingPlace
<1> HIDE DEF offsets
<1>7. staged.offset = Min(offsets) /\ staged.size = size /\ staged.serial = submitted + 1
      /\ (offsets # {} => staged \in Stagings)
  BY <1>2, <1>6 DEF Stagings
<1>8. ring' = [head |-> head, active |-> taken]
  BY <1>1, <1>7 DEF RingInv
<1> HIDE DEF staged
<1>9. what.uses = writes /\ what.staging = staging
  OBVIOUS
<1> HIDE DEF what
<1>10. /\ DOMAIN executing' = DOMAIN executing \cup {submitted + 1}
       /\ executing'[submitted + 1] = what
       /\ \A s \in DOMAIN executing : executing'[s] = executing[s]
  BY <1>1, SubmissionLemma
<1>11. SerialsInv'
  <2>1. ContextsOK(uploadContexts', submitted + 1)
    BY <1>1, <1>2, OccupiedContext
  <2>2. ContextsOK(frameContexts', submitted + 1)
    <3>1. \A n \in Nat : submitted <= n => ContextsOK(frameContexts, n)
      BY <1>2, ContextLemma
    <3> QED
      BY <1>2, <3>1
  <2> QED
    BY <1>1, <1>3, <1>10, <2>1, <2>2, SubmittedSerials
<1>12. head \in Nat
  <2>1. CASE offsets = {}
    BY <2>1 DEF RingInv
  <2>2. CASE offsets # {}
    BY <1>6, <2>2, MemoryAssumption
  <2> QED
    BY <2>1, <2>2
<1>13. taken \subseteq Stagings /\ active \subseteq taken
  BY <1>5, <1>7
<1>14. \A r, q \in taken : r # q => Disjoint(r, q)
  <2>1. \A r, q \in active : r # q => Disjoint(r, q)
    BY <1>4, StillStaged DEF RingInv
  <2>2. ASSUME offsets # {}
        PROVE  \A r \in active : Disjoint(r, staged) /\ Disjoint(staged, r)
    BY <1>6, <1>7, <2>2 DEF Disjoint
  <2> QED
    BY <2>1, <2>2
<1>15. staging \in Stagings /\ (staging.size > 0 => staging \in taken
                                                    /\ staging.serial = submitted + 1)
  <2>1. NoStaging \in Stagings /\ NoStaging.size = 0
    BY DEF NoStaging, Stagings
  <2> QED
    BY <1>7, <2>1
<1> HIDE DEF head, taken, staging
<1>16. RingInv'
  <2>1. ring'.active = taken /\ ring' \in [head : Nat, active : SUBSET Stagings]
    BY <1>8, <1>12, <1>13
  <2>2. ASSUME NEW s \in DOMAIN executing
        PROVE  /\ executing[s].staging \in Stagings
               /\ executing[s].staging.size > 0 => /\ executing[s].staging \in taken
                                                   /\ executing[s].staging.serial = s
    <3>1. s \in Nat /\ completed' < s
      BY <1>3 DEF SerialsInv
    <3> QED
      BY <1>3, <1>4, <1>13, <3>1, StillStaged DEF RingInv
  <2> QED
    BY <1>9, <1>10, <1>14, <1>15, <2>1, <2>2 DEF RingInv
<1> QED
  BY <1>1, <1>3, <1>9, <1>10, <1>11, <1>16

LEMMA FailedUploadLemma ==
  ASSUME SerialsInv, RingInv, NEW size \in Nat, UploadFails(size), UNCHANGED frameContexts
  PROVE  SerialsInv' /\ RingInv' /\ UNCHANGED executing
<1> DEFINE active == StillActive(CompletedAfter(uploadContexts))
           offsets == StagingOffsets(active, size)
<1>1. /\ Waited(uploadContexts)
      /\ completed' = CompletedAfter(uploadContexts)
      /\ uploadContexts' = ReleasedContext(uploadContexts)
      /\ \E head \in {ring.head} \cup {(s + size) % StagingCapacity : s \in offsets} :
             ring' = [head |-> head, active |-> active]
      /\ UNCHANGED <<submitted, executing>>
  BY DEF UploadFails
<1>2. /\ ContextsOK(frameContexts, submitted) /\ ContextsOK(uploadContexts, submitted)
      /\ submitted \in Nat
  BY DEF SerialsInv
<1>3. /\ completed' \in Nat /\ completed' <= submitted
      /\ \A s \in DOMAIN executing : completed' < s
  BY <1>1, <1>2, WaitedLemma
<1>4. active = StillActive(completed')
  BY <1>1
<1>5. active \subseteq Stagings
  BY StillStaged
<1> HIDE DEF active
<1>6. offsets \subseteq Nat
  BY <1>5, StagingPlace
<1> HIDE DEF offsets
<1>7. PICK head \in {ring.head} \cup {(s + size) % StagingCapacity : s \in offsets} :
             ring' = [head |-> head, active |-> active]
  BY <1>1
<1>8. head \in Nat
  <2>1. ring.head \in Nat
    BY DEF RingInv
  <2>2. \A s \in Nat : (s + size) % StagingCapacity \in Nat
    BY MemoryAssumption
  <2> QED
    BY <1>6, <2>1, <2>2
<1>9. RingInv'
  BY <1>1, <1>3, <1>4, <1>7, <1>8, RingAfterCompletion
<1>10. SerialsInv'
  <2>1. ContextsOK(uploadContexts', submitted)
    BY <1>1, <1>2, ContextLemma
  <2>2. ContextsOK(frameContexts', submitted)
    BY <1>2
  <2> QED
    BY <1>1, <1>3, <2>1, <2>2, UnsubmittedSerials
<1> QED
  BY <1>1, <1>9, <1>10

\* What has been prepared is new, and nobody's yet.
LEMMA PreparedIsNew ==
  ASSUME ArenasInv, NEW p, NEW C, Prepares(p, arena, C), NEW k \in Kinds
  PROVE  /\ \A d : d \in Unretired(p.arenas[k]) <=>
                   d \in Unretired(arena[k]) \/ d \in Of(k, Made(p))
         /\ \A d \in Of(k, Made(p)) : d \notin arena[k].live /\ d \notin Unretired(arena[k])
         /\ \A d, s : KeptFor(arena[k], d, s) => KeptFor(p.arenas[k], d, s)
<1>1. \A d : d \in Of(k, Made(p)) <=> \E m \in p.made : m[2] = k /\ m[3] = d
  BY OfOwned
<1>2. /\ p.arenas[k].retired = arena[k].retired
      /\ arena[k].live \subseteq p.arenas[k].live
      /\ \A d \in p.arenas[k].live : d \in arena[k].live \/ d \in Of(k, Made(p))
      /\ \A d \in Of(k, Made(p)) : d \in p.arenas[k].live /\ d \notin arena[k].live
  BY <1>1 DEF Prepares
<1>3. Retired(p.arenas[k]) = Retired(arena[k])
  BY <1>2 DEF Retired
<1>4. \A d \in Retired(arena[k]) : d \in arena[k].live
  BY DEF ArenasInv, ArenaOK, RetiredOK, Retired
<1>5. \A d, s : KeptFor(arena[k], d, s) => KeptFor(p.arenas[k], d, s)
  BY <1>2 DEF KeptFor
<1> QED
  BY <1>2, <1>3, <1>4, <1>5 DEF Unretired

LEMMA RolledBackKeeps ==
  ASSUME ArenasInv, NEW p, NEW C, Prepares(p, arena, C), arena' = RolledBack(p), UNCHANGED mesh
  PROVE  /\ ArenasInv'
         /\ \A uses : \A s \in Nat \ {0} : UsesOK(arena, uses, s) => UsesOK(arena', uses, s)
<1>1. Retires(arena', p.arenas, Made(p), 0, 0)
  BY RetiredFromBoth DEF RolledBack, Prepares, InOrder
<1>2. ASSUME NEW k \in Kinds
      PROVE  Unretired(arena'[k]) = Unretired(arena[k])
  <2>1. Unretired(arena'[k]) = Unretired(p.arenas[k]) \ Of(k, Made(p))
    BY <1>1 DEF Retires
  <2> QED
    BY <2>1, PreparedIsNew
<1>3. OwnersOK(arena', mesh')
  BY <1>2 DEF ArenasInv, OwnersOK
<1>4. ArenasInv'
  BY <1>1, <1>3 DEF ArenasInv, Retires
<1>5. ASSUME NEW uses, NEW s \in Nat \ {0}, UsesOK(arena, uses, s), NEW use \in uses
      PROVE  use[1] \in Kinds /\ KeptFor(arena'[use[1]], use[2], s)
  <2> DEFINE k == use[1]
             d == use[2]
  <2>1. k \in Kinds /\ KeptFor(arena[k], d, s)
    BY <1>5 DEF UsesOK
  <2> HIDE DEF k, d
  <2>2. KeptFor(p.arenas[k], d, s) /\ d \notin Of(k, Made(p))
    BY <2>1, PreparedIsNew DEF KeptFor
  <2>3. KeptFor(arena'[k], d, s)
    BY <1>1, <2>1, <2>2 DEF Retires
  <2> QED
    BY <2>1, <2>3 DEF k, d
<1>6. \A uses : \A s \in Nat \ {0} : UsesOK(arena, uses, s) => UsesOK(arena', uses, s)
  BY <1>5 DEF UsesOK
<1> QED
  BY <1>4, <1>6

LEMMA PublishKeeps ==
  ASSUME ArenasInv, NEW batch, NEW p,
         Prepares(p, arena, {batch[i][1] : i \in DOMAIN batch}),
         \A i \in DOMAIN batch : batch[i][1] \in DOMAIN mesh,
         submitted' \in Nat, completed' \in Nat, Publish(batch, p)
  PROVE  /\ ArenasInv'
         /\ \A uses : \A s \in Nat : completed' < s /\ s <= submitted' /\ UsesOK(arena, uses, s)
                                     => UsesOK(arena', uses, s)
         /\ \A s \in Nat : completed' < s /\ s <= submitted' => UsesOK(arena', Made(p), s)
<1> DEFINE chunks == {batch[i][1] : i \in DOMAIN batch}
           old == UNION {Owned(mesh[c]) : c \in chunks}
<1>1. /\ mesh' = [c \in DOMAIN mesh |-> IF c \in chunks THEN MeshOf(c, p) ELSE mesh[c]]
      /\ arena' = CollectRetired(RetireOwned(p.arenas, old, submitted'), completed')
  BY DEF Publish
<1>2. Retires(arena', p.arenas, old, submitted', completed')
  BY <1>1, RetiredFromBoth DEF Prepares, InOrder
<1>3. \A k, d : d \in Of(k, old) <=> \E c \in chunks : k \in DOMAIN mesh[c] /\ d = mesh[c][k]
  <2> HIDE DEF chunks
  <2>1. \A k, C, d : d \in Of(k, UNION {Owned(mesh[c]) : c \in C}) <=>
                        \E c \in C : k \in DOMAIN mesh[c] /\ d = mesh[c][k]
    BY OfOwned
  <2> QED
    BY <2>1, Zenon
<1>4. chunks \subseteq DOMAIN mesh /\ Prepares(p, arena, chunks)
  OBVIOUS
<1> HIDE DEF chunks, old
<1>5. ASSUME NEW k \in Kinds
      PROVE  /\ \A e \in DOMAIN mesh' : k \in DOMAIN mesh'[e] =>
                   mesh'[e][k] \in Unretired(arena'[k])
             /\ \A d \in Unretired(arena'[k]) : \E e \in DOMAIN mesh' :
                   k \in DOMAIN mesh'[e] /\ mesh'[e][k] = d
             /\ \A e, f \in DOMAIN mesh' :
                   k \in DOMAIN mesh'[e] /\ k \in DOMAIN mesh'[f] /\ mesh'[e][k] = mesh'[f][k]
                   => e = f
  <2>1. /\ \A e \in DOMAIN mesh : k \in DOMAIN mesh[e] => mesh[e][k] \in Unretired(arena[k])
        /\ \A d \in Unretired(arena[k]) : \E e \in DOMAIN mesh :
              k \in DOMAIN mesh[e] /\ mesh[e][k] = d
        /\ \A e, f \in DOMAIN mesh :
              k \in DOMAIN mesh[e] /\ k \in DOMAIN mesh[f] /\ mesh[e][k] = mesh[f][k] => e = f
    BY DEF ArenasInv, OwnersOK
  <2>2. \A d : d \in Unretired(arena'[k]) <=>
               /\ d \in Unretired(arena[k]) \/ d \in Of(k, Made(p))
               /\ ~\E c \in chunks : k \in DOMAIN mesh[c] /\ d = mesh[c][k]
    <3>1. Unretired(arena'[k]) = Unretired(p.arenas[k]) \ Of(k, old)
      BY <1>2 DEF Retires
    <3> QED
      BY <1>3, <1>4, <3>1, PreparedIsNew
  <2>3. \A d \in Of(k, Made(p)) : d \notin Unretired(arena[k])
    BY <1>4, PreparedIsNew
  <2>4. \A d : d \in Of(k, Made(p)) <=> \E m \in p.made : m[2] = k /\ m[3] = d
    BY OfOwned
  <2>5. \A m \in p.made : m[1] \in chunks
    BY <1>4 DEF Prepares
  <2>6. ASSUME NEW e \in DOMAIN mesh
        PROVE  /\ e \in DOMAIN mesh'
               /\ e \notin chunks => mesh'[e] = mesh[e]
               /\ e \in chunks => /\ k \in DOMAIN mesh'[e] <=> \E m \in p.made : m[1] = e /\ m[2] = k
                                  /\ \A m \in p.made : m[1] = e /\ m[2] = k => mesh'[e][k] = m[3]
    BY <1>1, <1>4, MeshOfMade
  <2>7. DOMAIN mesh' = DOMAIN mesh
    BY <1>1
  <2>8. \A e \in DOMAIN mesh' : k \in DOMAIN mesh'[e] =>
           \/ e \notin chunks /\ k \in DOMAIN mesh[e] /\ mesh'[e][k] = mesh[e][k]
           \/ e \in chunks /\ \E m \in p.made : m[1] = e /\ m[2] = k /\ mesh'[e][k] = m[3]
    BY <2>6, <2>7
  <2>9. ASSUME NEW e \in DOMAIN mesh', k \in DOMAIN mesh'[e]
        PROVE  mesh'[e][k] \in Unretired(arena'[k])
    <3>1. CASE e \notin chunks /\ k \in DOMAIN mesh[e] /\ mesh'[e][k] = mesh[e][k]
      BY <1>4, <2>1, <2>2, <2>7, <3>1
    <3>2. CASE e \in chunks /\ \E m \in p.made : m[1] = e /\ m[2] = k /\ mesh'[e][k] = m[3]
      <4>1. mesh'[e][k] \in Of(k, Made(p))
        BY <2>4, <3>2
      <4>2. ~\E c \in chunks : k \in DOMAIN mesh[c] /\ mesh'[e][k] = mesh[c][k]
        BY <1>4, <2>1, <2>3, <4>1
      <4> QED
        BY <2>2, <4>1, <4>2
    <3> QED
      BY <2>8, <2>9, <3>1, <3>2
  <2>10. ASSUME NEW d \in Unretired(arena'[k])
         PROVE  \E e \in DOMAIN mesh' : k \in DOMAIN mesh'[e] /\ mesh'[e][k] = d
    <3>1. CASE d \in Unretired(arena[k])
      BY <2>1, <2>2, <2>6, <2>7, <3>1
    <3>2. CASE d \in Of(k, Made(p))
      BY <1>4, <2>4, <2>5, <2>6, <2>7, <3>2
    <3> QED
      BY <2>2, <3>1, <3>2
  <2>11. ASSUME NEW e \in DOMAIN mesh', NEW f \in DOMAIN mesh',
                k \in DOMAIN mesh'[e], k \in DOMAIN mesh'[f], mesh'[e][k] = mesh'[f][k]
         PROVE  e = f
    <3>1. \A m, n \in p.made : m[2] = n[2] /\ m[3] = n[3] => m = n
      BY <1>4 DEF Prepares
    <3>2. \A m \in p.made : m[2] = k => m[3] \notin Unretired(arena[k])
      BY <2>3, <2>4
    <3>3. CASE e \notin chunks /\ f \notin chunks
      BY <2>1, <2>7, <2>8, <2>11, <3>3
    <3>4. CASE e \notin chunks /\ f \in chunks
      BY <2>1, <2>7, <2>8, <2>11, <3>2, <3>4
    <3>5. CASE e \in chunks /\ f \notin chunks
      BY <2>1, <2>7, <2>8, <2>11, <3>2, <3>5
    <3>6. CASE e \in chunks /\ f \in chunks
      <4>1. PICK m \in p.made : m[1] = e /\ m[2] = k /\ mesh'[e][k] = m[3]
        BY <2>8, <2>11, <3>6
      <4>2. PICK n \in p.made : n[1] = f /\ n[2] = k /\ mesh'[f][k] = n[3]
        BY <2>8, <2>11, <3>6
      <4>3. m = n
        BY <2>11, <3>1, <4>1, <4>2
      <4> QED
        BY <4>1, <4>2, <4>3
    <3> QED
      BY <3>3, <3>4, <3>5, <3>6
  <2> QED
    BY <2>9, <2>10, <2>11
<1>6. ArenasInv'
  <2>1. DOMAIN mesh' \subseteq Chunks
    BY <1>1 DEF ArenasInv
  <2>2. \A e \in DOMAIN mesh' : DOMAIN mesh'[e] \subseteq Kinds
    BY <1>1, <1>4, MeshOfMade DEF ArenasInv
  <2>3. OwnersOK(arena', mesh')
    BY <1>5 DEF OwnersOK
  <2> QED
    BY <1>2, <2>1, <2>2, <2>3 DEF ArenasInv, Retires
<1>7. ASSUME NEW k \in Kinds, NEW d, NEW s \in Nat, completed' < s, s <= submitted',
             KeptFor(p.arenas[k], d, s)
      PROVE  KeptFor(arena'[k], d, s)
  BY <1>2, <1>7 DEF Retires
<1>8. ASSUME NEW uses, NEW s \in Nat, completed' < s, s <= submitted', UsesOK(arena, uses, s)
      PROVE  UsesOK(arena', uses, s)
  <2> SUFFICES ASSUME NEW use \in uses
               PROVE  use[1] \in Kinds /\ KeptFor(arena'[use[1]], use[2], s)
    BY DEF UsesOK
  <2>1. use[1] \in Kinds /\ KeptFor(arena[use[1]], use[2], s)
    BY <1>8 DEF UsesOK
  <2>2. KeptFor(p.arenas[use[1]], use[2], s)
    BY <1>4, <2>1, PreparedIsNew
  <2> QED
    BY <1>7, <1>8, <2>1, <2>2
<1>9. ASSUME NEW s \in Nat, completed' < s, s <= submitted'
      PROVE  UsesOK(arena', Made(p), s)
  <2> SUFFICES ASSUME NEW use \in Made(p)
               PROVE  use[1] \in Kinds /\ KeptFor(arena'[use[1]], use[2], s)
    BY DEF UsesOK
  <2>1. PICK m \in p.made : use = <<m[2], m[3]>>
    BY DEF Made
  <2>2. use[1] = m[2] /\ use[2] = m[3] /\ m[2] \in Kinds
    BY <1>4, <2>1 DEF Prepares, InOrder, Preparations
  <2>3. m[3] \in Of(m[2], Made(p))
    BY OfOwned
  <2>4. m[3] \in Unretired(p.arenas[m[2]])
    BY <1>4, <2>2, <2>3, PreparedIsNew
  <2>5. KeptFor(p.arenas[m[2]], m[3], s)
    BY <2>4, UnretiredIsKept
  <2> QED
    BY <1>7, <1>9, <2>2, <2>5
<1> QED
  BY <1>6, <1>8, <1>9

\* A batch is published as a whole, replacing older meshes, or rolled back as a
\* whole after its allocations or its upload failed.
LEMMA ReplaceMeshesKeeps ==
  ASSUME MemoryInv, NEW batch \in Batches, NEW refused, ReplaceMeshes(batch, refused)
  PROVE  MemoryInv'
<1> DEFINE p == Prepared(batch, refused)
           size == SizeOf(p)
           C == {batch[i][1] : i \in DOMAIN batch}
<1>1. /\ \A i \in DOMAIN batch : batch[i][1] \in DOMAIN mesh
      /\ UNCHANGED frameContexts
      /\ \/ /\ p.made = {}
            /\ UNCHANGED <<submitted, completed, uploadContexts, ring, executing>>
            /\ Publish(batch, p)
         \/ /\ UploadBufferBatch(Made(p), size)
            /\ Publish(batch, p)
         \/ /\ UploadFails(size)
            /\ arena' = RolledBack(p)
            /\ UNCHANGED mesh
         \/ /\ arena' = RolledBack(p)
            /\ UNCHANGED <<mesh, submitted, completed, uploadContexts, ring, executing>>
  BY DEF ReplaceMeshes
<1>2. SerialsInv /\ ArenasInv /\ UsesInv /\ RingInv /\ submitted \in Nat /\ completed \in Nat
  BY DEF MemoryInv, SerialsInv
<1>3. Prepares(p, arena, C)
  BY <1>2, PreparedLemma DEF ArenasInv
<1>4. \A s \in DOMAIN executing : s \in Nat \ {0} /\ completed < s /\ s <= submitted
                                  /\ UsesOK(arena, executing[s].uses, s)
  BY <1>2 DEF SerialsInv, UsesInv
<1> HIDE DEF p
<1>5. size \in Nat
  BY <1>3, SizeIsNat DEF Prepares, InOrder, Preparations
<1> HIDE DEF size
<1>6. CASE /\ UNCHANGED <<submitted, completed, uploadContexts, ring, executing>>
           /\ Publish(batch, p)
  <2>1. /\ ArenasInv'
        /\ \A uses : \A s \in Nat : completed' < s /\ s <= submitted' /\ UsesOK(arena, uses, s)
                                    => UsesOK(arena', uses, s)
    BY <1>1, <1>2, <1>3, <1>6, PublishKeeps
  <2>2. UsesInv'
    BY <1>4, <1>6, <2>1 DEF UsesInv
  <2> QED
    BY <1>1, <1>2, <1>6, <2>1, <2>2, SameDevice DEF MemoryInv
<1>7. CASE UploadBufferBatch(Made(p), size) /\ Publish(batch, p)
  <2>1. /\ SerialsInv' /\ RingInv'
        /\ submitted' = submitted + 1
        /\ completed' \in Nat /\ completed' <= submitted
        /\ DOMAIN executing' = DOMAIN executing \cup {submitted + 1}
        /\ executing'[submitted + 1].uses = Made(p)
        /\ \A s \in DOMAIN executing : executing'[s] = executing[s] /\ completed' < s
    BY <1>1, <1>2, <1>5, <1>7, UploadLemma
  <2>2. submitted' \in Nat
    BY <1>2, <2>1
  <2>3. /\ ArenasInv'
        /\ \A uses : \A s \in Nat : completed' < s /\ s <= submitted' /\ UsesOK(arena, uses, s)
                                    => UsesOK(arena', uses, s)
        /\ \A s \in Nat : completed' < s /\ s <= submitted' => UsesOK(arena', Made(p), s)
    BY <1>1, <1>2, <1>3, <1>7, <2>1, <2>2, PublishKeeps
  <2>4. ASSUME NEW s \in DOMAIN executing
        PROVE  UsesOK(arena', executing'[s].uses, s)
    <3>1. s \in Nat /\ completed' < s /\ s <= submitted' /\ UsesOK(arena, executing[s].uses, s)
      BY <1>2, <1>4, <2>1
    <3> QED
      BY <2>1, <2>3, <3>1
  <2>5. UsesOK(arena', executing'[submitted + 1].uses, submitted + 1)
    <3>1. submitted + 1 \in Nat /\ completed' < submitted + 1 /\ submitted + 1 <= submitted'
      BY <1>2, <2>1
    <3> QED
      BY <2>1, <2>3, <3>1
  <2>6. UsesInv'
    BY <2>1, <2>4, <2>5 DEF UsesInv
  <2> QED
    BY <2>1, <2>3, <2>6 DEF MemoryInv
<1>8. CASE UploadFails(size) /\ arena' = RolledBack(p) /\ UNCHANGED mesh
  <2>1. SerialsInv' /\ RingInv' /\ UNCHANGED executing
    BY <1>1, <1>2, <1>5, <1>8, FailedUploadLemma
  <2>2. /\ ArenasInv'
        /\ \A uses : \A s \in Nat \ {0} : UsesOK(arena, uses, s) => UsesOK(arena', uses, s)
    BY <1>2, <1>3, <1>8, RolledBackKeeps
  <2>3. UsesInv'
    BY <1>4, <2>1, <2>2 DEF UsesInv
  <2> QED
    BY <2>1, <2>2, <2>3 DEF MemoryInv
<1>9. CASE /\ arena' = RolledBack(p)
           /\ UNCHANGED <<mesh, submitted, completed, uploadContexts, ring, executing>>
  <2>1. /\ ArenasInv'
        /\ \A uses : \A s \in Nat \ {0} : UsesOK(arena, uses, s) => UsesOK(arena', uses, s)
    BY <1>2, <1>3, <1>9, RolledBackKeeps
  <2>2. UsesInv'
    BY <1>4, <1>9, <2>1 DEF UsesInv
  <2> QED
    BY <1>1, <1>2, <1>9, <2>1, <2>2, SameDevice DEF MemoryInv
<1> QED
  BY <1>1, <1>6, <1>7, <1>8, <1>9

-----------------------------------------------------------------------------
(* The theorems.                                                              *)

\* The invariant holds of empty arenas and idle contexts.
LEMMA MemoryStarts == MemoryInit => MemoryInv
<1> SUFFICES ASSUME MemoryInit PROVE MemoryInv
  OBVIOUS
<1>1. /\ arena = [k \in Kinds |-> EmptyArena] /\ mesh = <<>> /\ executing = <<>>
      /\ submitted = 0 /\ completed = 0 /\ ring = [head |-> 0, active |-> {}]
      /\ frameContexts = IdleContexts /\ uploadContexts = IdleContexts
  BY DEF MemoryInit
<1>2. DOMAIN mesh = {} /\ DOMAIN executing = {}
  BY <1>1
<1>3. \A k \in Kinds : arena[k] = EmptyArena
  BY <1>1
<1>4. ArenasInv
  <2>1. Unretired(EmptyArena) = {} /\ EmptyArena \in Arenas /\ ArenaOK(EmptyArena)
    BY EmptyArenaOK DEF Unretired, ArenaOK
  <2> QED
    BY <1>1, <1>2, <1>3, <2>1 DEF ArenasInv, OwnersOK
<1>5. ContextsOK(IdleContexts, 0)
  <2>1. 0 \in 0..(Contexts - 1)
    BY MemoryAssumption
  <2> QED
    BY <2>1 DEF ContextsOK, IdleContexts
<1>6. SerialsInv
  BY <1>1, <1>2, <1>5 DEF SerialsInv
<1>7. UsesInv
  BY <1>2 DEF UsesInv
<1>8. RingInv
  BY <1>1, <1>2 DEF RingInv
<1> QED
  BY <1>4, <1>6, <1>7, <1>8 DEF MemoryInv

\* The inductive invariant of the GPU memory: ranges are apart and merged, every
\* allocation has one owner, serials and contexts fit each other, and what the
\* GPU has yet to read is allocated or active in the ring.
THEOREM MemoryInvariant == MemorySpec => []MemoryInv
<1>1. ASSUME MemoryInv, [MemoryNext]_memoryVars PROVE MemoryInv'
  <2>1. CASE UNCHANGED memoryVars
    BY <1>1, <2>1, SameArenas, SameDevice DEF memoryVars, MemoryInv, SerialsInv, UsesInv, RingInv
  <2>2. ASSUME NEW serial \in DOMAIN executing, Finish(serial) PROVE MemoryInv'
    BY <1>1, <2>2, FinishKeeps
  <2>3. CASE PollCompletedSubmissions
    BY <1>1, <2>3, PollKeeps
  <2>4. CASE ExecuteFrame
    BY <1>1, <2>4, ExecuteFrameKeeps
  <2>5. ASSUME NEW c \in Chunks, InsertEntry(c) PROVE MemoryInv'
    BY <1>1, <2>5, InsertEntryKeeps
  <2>6. ASSUME NEW c \in Chunks, EraseEntry(c) PROVE MemoryInv'
    BY <1>1, <2>6, EraseEntryKeeps
  <2>7. ASSUME NEW c \in Chunks, ReleaseMesh(c) PROVE MemoryInv'
    BY <1>1, <2>7, ReleaseMeshKeeps
  <2>8. ASSUME NEW batch \in Batches, NEW refused \in Kinds \cup {"none"},
               ReplaceMeshes(batch, refused)
        PROVE  MemoryInv'
    BY <1>1, <2>8, ReplaceMeshesKeeps
  <2> QED
    BY <1>1, <2>1, <2>2, <2>3, <2>4, <2>5, <2>6, <2>7, <2>8 DEF MemoryNext
<1> QED
  BY <1>1, MemoryStarts, PTL DEF MemorySpec

\* The arenas are tiled by what is allocated and what is free, and everything
\* allocated and not retired belongs to exactly one cached mesh, whatever is
\* inserted, erased, released or replaced, and whichever upload fails: nothing
\* leaks, is freed twice or is given to two meshes.
THEOREM ArenasAreOwned == MemorySpec => []MeshesOwnTheArenas
<1>1. MemoryInv => MeshesOwnTheArenas
  <2> SUFFICES ASSUME MemoryInv, NEW k \in Kinds
               PROVE  LET owners(a) == {c \in DOMAIN mesh : <<k, a>> \in Owned(mesh[c])}
                      IN /\ Tiled(arena[k])
                         /\ \A a \in arena[k].live \ Retired(arena[k]) :
                               Cardinality(owners(a)) = 1
                         /\ \A c \in DOMAIN mesh : k \in DOMAIN mesh[c] =>
                               mesh[c][k] \in arena[k].live \ Retired(arena[k])
    BY DEF MeshesOwnTheArenas
  <2>1. ArenaOK(arena[k])
    BY DEF MemoryInv, ArenasInv
  <2>2. Tiled(arena[k])
    BY <2>1, TiledArena
  <2>3. \A c \in DOMAIN mesh : k \in DOMAIN mesh[c] => mesh[c][k] \in Unretired(arena[k])
    BY DEF MemoryInv, ArenasInv, OwnersOK
  <2>4. ASSUME NEW a \in Unretired(arena[k])
        PROVE  Cardinality({c \in DOMAIN mesh : <<k, a>> \in Owned(mesh[c])}) = 1
    <3> DEFINE owners == {c \in DOMAIN mesh : <<k, a>> \in Owned(mesh[c])}
    <3>1. \A c : <<k, a>> \in Owned(mesh[c]) <=> k \in DOMAIN mesh[c] /\ mesh[c][k] = a
      BY DEF Owned
    <3>2. PICK c \in DOMAIN mesh : k \in DOMAIN mesh[c] /\ mesh[c][k] = a
      BY <2>4 DEF MemoryInv, ArenasInv, OwnersOK
    <3>3. \A e \in DOMAIN mesh : k \in DOMAIN mesh[e] /\ mesh[e][k] = a => e = c
      BY <3>2 DEF MemoryInv, ArenasInv, OwnersOK
    <3>4. owners = {c}
      BY <3>1, <3>2, <3>3
    <3> QED
      BY <3>4, FS_Singleton
  <2> QED
    BY <2>2, <2>3, <2>4 DEF Unretired
<1> QED
  BY <1>1, MemoryInvariant, PTL

\* What a submission that has not finished draws or fills stays allocated, and
\* the bytes it still uploads are not written over, however far behind the GPU is.
THEOREM SubmissionsKeepTheirMemory == MemorySpec => []InUseIsKept
<1>1. MemoryInv => MemoryInUseIsKept
  BY DEF MemoryInv, UsesInv, UsesOK, KeptFor, MemoryInUseIsKept
<1>2. MemoryInv => StagingInUseIsKept
  <2> SUFFICES ASSUME MemoryInv, NEW serial \in DOMAIN executing
               PROVE  LET mine == executing[serial].staging
                      IN /\ mine.size > 0 => mine \in ring.active
                         /\ \A r \in ring.active :
                                r.serial # serial =>
                                    Span(r.offset, r.size) \cap Span(mine.offset, mine.size) = {}
    BY DEF StagingInUseIsKept
  <2> DEFINE mine == executing[serial].staging
  <2>1. /\ mine \in Stagings
        /\ mine.size > 0 => mine \in ring.active /\ mine.serial = serial
        /\ ring.active \subseteq Stagings
        /\ \A r, q \in ring.active : r # q => Disjoint(r, q)
    BY DEF MemoryInv, RingInv
  <2> HIDE DEF mine
  <2>2. ASSUME NEW r \in ring.active, r.serial # serial
        PROVE  Span(r.offset, r.size) \cap Span(mine.offset, mine.size) = {}
    <3>1. /\ r.offset \in Nat /\ r.size \in Nat /\ mine.offset \in Nat /\ mine.size \in Nat
      BY <2>1 DEF Stagings
    <3>2. CASE mine.size = 0
      BY <3>1, <3>2 DEF Span
    <3>3. CASE mine.size > 0
      <4>1. Disjoint(r, mine)
        BY <2>1, <2>2, <3>3
      <4> QED
        BY <3>1, <4>1 DEF Disjoint, Span
    <3> QED
      BY <3>1, <3>2, <3>3
  <2> QED
    BY <2>1, <2>2 DEF mine
<1>3. MemoryInv => InUseIsKept
  BY <1>1, <1>2 DEF InUseIsKept
<1> QED
  BY <1>3, MemoryInvariant, PTL
=============================================================================
