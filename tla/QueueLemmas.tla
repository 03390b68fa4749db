---------------------------- MODULE QueueLemmas ----------------------------
(***************************************************************************)
(* Facts about the ready queues that the proofs about the scheduler use.   *)
(***************************************************************************)
EXTENDS ReadyQueue, WellFoundedInduction, TLAPS

\* The time each leaf is given.
USE SMTT(30), ZenonT(30)

\* A non-empty set of naturals has a least element, which Min picks: the loop of
\* pop_from stops at the first level and the first entry that will do.
LEMMA MinIsLeast ==
  ASSUME NEW S, S \subseteq Nat, S # {}
  PROVE  Min(S) \in S /\ \A y \in S : Min(S) <= y
<1> DEFINE Less == {ss \in Nat \X Nat : ss[1] < ss[2]}
<1>1. IsWellFoundedOn(Less, Nat)
  BY NatLessThanWellFounded DEF OpToRel
<1> HIDE DEF Less
<1>2. PICK x \in S : \A y \in S : ~(<<y, x>> \in Less)
  BY <1>1, WFMin, Zenon
<1>3. \A y \in S : x <= y
  <2> SUFFICES ASSUME NEW y \in S PROVE x <= y
    OBVIOUS
  <2>1. ~(y < x)
    BY <1>2 DEF Less
  <2> QED
    BY <2>1
<1> QED
  BY <1>3, Zenon DEF Min

\* Every order pop_runnable uses names levels.
LEMMA OrderNamesLevels ==
  ASSUME NEW order \in PickOrders
  PROVE  \A k \in 1..3 : order[k] \in Level
<1>1. CASE order = <<2, 1, 0>>
  BY <1>1 DEF Level
<1>2. CASE order = <<0, 1, 2>>
  BY <1>2 DEF Level
<1>3. CASE order = <<1, 0, 2>>
  BY <1>3 DEF Level
<1> QED
  BY <1>1, <1>2, <1>3 DEF PickOrders, HighestFirst

\* The level pop_from takes its thread from is the first in the order that holds
\* a runnable one.
LEMMA FirstPlace ==
  ASSUME NEW q, NEW order, NEW runnable, HitPlaces(q, order, runnable) # {}
  PROVE  LET k == Min(HitPlaces(q, order, runnable))
         IN  /\ k \in 1..3
             /\ Hits(q[order[k]], runnable) # {}
             /\ \A j \in 1..3 : Hits(q[order[j]], runnable) # {} => k <= j
<1>1. HitPlaces(q, order, runnable) \subseteq Nat
  BY DEF HitPlaces
<1>2. /\ Min(HitPlaces(q, order, runnable)) \in HitPlaces(q, order, runnable)
      /\ \A j \in HitPlaces(q, order, runnable) :
            Min(HitPlaces(q, order, runnable)) <= j
  BY <1>1, MinIsLeast, Zenon
<1> QED
  BY <1>2 DEF HitPlaces

\* The entry it takes is the first runnable one of that level.
LEMMA FirstHit ==
  ASSUME NEW W, NEW s \in Seq(W), NEW runnable, Hits(s, runnable) # {}
  PROVE  /\ Min(Hits(s, runnable)) \in 1..Len(s)
         /\ s[Min(Hits(s, runnable))] \in runnable
<1>1. Hits(s, runnable) \subseteq Nat
  BY DEF Hits
<1>2. Min(Hits(s, runnable)) \in Hits(s, runnable)
  BY <1>1, MinIsLeast, Zenon
<1> QED
  BY <1>2 DEF Hits

\* pop_from returns nothing, or a queued thread that is runnable.
LEMMA PopFromRunnable ==
  ASSUME NEW W, NEW q \in [Level -> Seq(W)], NEW order \in PickOrders, NEW runnable,
         PopFrom(q, order, runnable) # NoThread
  PROVE  PopFrom(q, order, runnable) \in W \cap runnable
<1> DEFINE places == HitPlaces(q, order, runnable)
           level  == order[Min(places)]
<1>1. places # {}
  BY DEF PopFrom
<1>2. Min(places) \in 1..3 /\ Hits(q[level], runnable) # {}
  BY <1>1, FirstPlace
<1>3. q[level] \in Seq(W)
  BY <1>2, OrderNamesLevels
<1>4. Min(Hits(q[level], runnable)) \in 1..Len(q[level])
      /\ q[level][Min(Hits(q[level], runnable))] \in runnable
  BY <1>2, <1>3, FirstHit
<1>5. PopFrom(q, order, runnable) = q[level][Min(Hits(q[level], runnable))]
  BY <1>1 DEF PopFrom
<1> QED
  BY <1>3, <1>4, <1>5

\* One level after a pop is still a queue of the same threads.
LEMMA AfterHitType ==
  ASSUME NEW W, NEW s \in Seq(W), NEW runnable
  PROVE  AfterHit(s, runnable) \in Seq(W)
<1>1. CASE Hits(s, runnable) = {}
  BY <1>1 DEF AfterHit
<1>2. CASE Hits(s, runnable) # {}
  <2>1. Min(Hits(s, runnable)) \in 1..Len(s)
    BY <1>2, FirstHit
  <2>2. SubSeq(s, Min(Hits(s, runnable)) + 1, Len(s)) \in Seq(W)
    BY <2>1
  <2> QED
    BY <1>2, <2>2 DEF AfterHit
<1> QED
  BY <1>1, <1>2

\* So are all of them.
LEMMA PopRestType ==
  ASSUME NEW W, NEW q \in [Level -> Seq(W)], NEW order, NEW runnable
  PROVE  PopRest(q, order, runnable) \in [Level -> Seq(W)]
BY AfterHitType DEF PopRest

\* What waits on queues of threads of W is in W.
LEMMA WaitingType ==
  ASSUME NEW W, NEW q \in [Level -> Seq(W)]
  PROVE  \A t \in Waiting(q) : t \in W
<1>1. \A l \in Level : \A i \in 1..Len(q[l]) : q[l][i] \in W
  OBVIOUS
<1> QED
  BY <1>1 DEF Waiting

\* enqueue keeps the queues queues.
LEMMA EnqueueType ==
  ASSUME NEW W, NEW q \in [Level -> Seq(W)], NEW l \in Level, NEW t \in W
  PROVE  Enqueue(q, l, t) \in [Level -> Seq(W)]
BY DEF Enqueue

-----------------------------------------------------------------------------
\* Queues in which every thread is runnable and none is filed twice, as those of
\* the scheduler turn out to be.

Once(q) ==
  \A l, m \in Level : \A i \in 1..Len(q[l]), j \in 1..Len(q[m]) :
    q[l][i] = q[m][j] => l = m /\ i = j

\* Two places that hold one thread are one place.
LEMMA OnceAt ==
  ASSUME NEW q, Once(q), NEW m \in Level, NEW k \in Level, NEW i \in 1..Len(q[m]),
         NEW j \in 1..Len(q[k]), q[m][i] = q[k][j]
  PROVE  m = k /\ i = j
BY Zenon DEF Once

\* enqueue adds the one thread, and files none twice.
LEMMA EnqueueAdds ==
  ASSUME NEW W, NEW q \in [Level -> Seq(W)], NEW l \in Level, NEW t \in W
  PROVE  /\ Waiting(Enqueue(q, l, t)) = Waiting(q) \cup {t}
         /\ Once(q) /\ t \notin Waiting(q) => Once(Enqueue(q, l, t))
<1> DEFINE n == Enqueue(q, l, t)
<1>1. /\ Len(n[l]) = Len(q[l]) + 1 /\ n[l][Len(q[l]) + 1] = t
      /\ \A i \in 1..Len(q[l]) : n[l][i] = q[l][i]
      /\ \A m \in Level : m # l => n[m] = q[m]
  BY DEF Enqueue
<1>2. \A m \in Level : Len(q[m]) \in Nat
  OBVIOUS
<1> HIDE DEF n
<1>3. Waiting(n) = Waiting(q) \cup {t}
  <2>1. ASSUME NEW x \in Waiting(n) PROVE x \in Waiting(q) \cup {t}
    <3>0. PICK m \in Level : \E i \in 1..Len(n[m]) : n[m][i] = x
      BY <2>1 DEF Waiting
    <3>1. PICK i \in 1..Len(n[m]) : n[m][i] = x
      BY <3>0
    <3>2. CASE m # l
      BY <1>1, <3>1, <3>2 DEF Waiting
    <3>3. CASE m = l
      <4>1. i = Len(q[l]) + 1 \/ i \in 1..Len(q[l])
        BY <1>1, <1>2, <3>1, <3>3
      <4> QED
        BY <1>1, <3>1, <3>3, <4>1 DEF Waiting
    <3> QED
      BY <3>2, <3>3
  <2>2. ASSUME NEW x \in Waiting(q) PROVE x \in Waiting(n)
    <3>0. PICK m \in Level : \E i \in 1..Len(q[m]) : q[m][i] = x
      BY <2>2 DEF Waiting
    <3>1. PICK i \in 1..Len(q[m]) : q[m][i] = x
      BY <3>0
    <3>2. i \in 1..Len(n[m]) /\ n[m][i] = x
      BY <1>1, <1>2, <3>1
    <3> QED
      BY <3>2 DEF Waiting
  <2>3. t \in Waiting(n)
    <3>1. Len(q[l]) + 1 \in 1..Len(n[l])
      BY <1>1, <1>2
    <3> QED
      BY <1>1, <3>1 DEF Waiting
  <2> QED
    BY <2>1, <2>2, <2>3
<1>4. ASSUME Once(q), t \notin Waiting(q) PROVE Once(n)
  <2> SUFFICES ASSUME NEW m \in Level, NEW k \in Level, NEW i \in 1..Len(n[m]),
                      NEW j \in 1..Len(n[k]), n[m][i] = n[k][j]
               PROVE  m = k /\ i = j
    BY DEF Once
  <2>1. \A h \in Level : \A b \in 1..Len(n[h]) :
          \/ b \in 1..Len(q[h]) /\ n[h][b] = q[h][b] /\ q[h][b] \in Waiting(q)
          \/ h = l /\ b = Len(q[l]) + 1 /\ n[h][b] = t
    <3> SUFFICES ASSUME NEW h \in Level, NEW b \in 1..Len(n[h])
                 PROVE  \/ b \in 1..Len(q[h]) /\ n[h][b] = q[h][b] /\ q[h][b] \in Waiting(q)
                        \/ h = l /\ b = Len(q[l]) + 1 /\ n[h][b] = t
      OBVIOUS
    <3>1. CASE h # l
      BY <1>1, <3>1 DEF Waiting
    <3>2. CASE h = l
      <4>1. b = Len(q[l]) + 1 \/ b \in 1..Len(q[l])
        BY <1>1, <1>2, <3>2
      <4> QED
        BY <1>1, <3>2, <4>1 DEF Waiting
    <3> QED
      BY <3>1, <3>2
  <2>2. CASE i \in 1..Len(q[m]) /\ j \in 1..Len(q[k]) /\ n[m][i] = q[m][i] /\ n[k][j] = q[k][j]
    <3>1. i \in 1..Len(q[m]) /\ j \in 1..Len(q[k]) /\ q[m][i] = q[k][j]
      BY <2>2, Zenon
    <3>2. \A h, g \in Level : \A a \in 1..Len(q[h]), b \in 1..Len(q[g]) :
            q[h][a] = q[g][b] => h = g /\ a = b
      BY <1>4, Zenon DEF Once
    <3>3. \A a \in 1..Len(q[m]), b \in 1..Len(q[k]) : q[m][a] = q[k][b] => m = k /\ a = b
      BY <3>2
    <3> QED
      BY <3>1, <3>3
  <2>3. \/ i \in 1..Len(q[m]) /\ n[m][i] = q[m][i] /\ q[m][i] \in Waiting(q)
        \/ m = l /\ i = Len(q[l]) + 1 /\ n[m][i] = t
    BY <2>1
  <2>4. \/ j \in 1..Len(q[k]) /\ n[k][j] = q[k][j] /\ q[k][j] \in Waiting(q)
        \/ k = l /\ j = Len(q[l]) + 1 /\ n[k][j] = t
    BY <2>1
  <2> QED
    BY <1>4, <2>2, <2>3, <2>4, Zenon
<1> QED
  BY <1>3, <1>4 DEF n

\* Every level has its place in the order, and only one.
LEMMA OrderIsPermutation ==
  ASSUME NEW order \in PickOrders
  PROVE  /\ \A l \in Level : \E k \in 1..3 : order[k] = l
         /\ \A j, k \in 1..3 : order[j] = order[k] => j = k
<1>1. CASE order = <<2, 1, 0>>
  BY <1>1 DEF Level
<1>2. CASE order = <<0, 1, 2>>
  BY <1>2 DEF Level
<1>3. CASE order = <<1, 0, 2>>
  BY <1>3 DEF Level
<1> QED
  BY <1>1, <1>2, <1>3 DEF PickOrders, HighestFirst

\* pop_from on a level whose threads are all runnable takes the first.
LEMMA AfterHitAll ==
  ASSUME NEW W, NEW s \in Seq(W), NEW runnable, \A i \in 1..Len(s) : s[i] \in runnable
  PROVE  /\ Len(s) = 0 => Hits(s, runnable) = {} /\ AfterHit(s, runnable) = s
         /\ Len(s) # 0 => /\ Hits(s, runnable) # {} /\ Min(Hits(s, runnable)) = 1
                          /\ AfterHit(s, runnable) = Tail(s)
<1>1. Hits(s, runnable) = 1..Len(s) /\ Len(s) \in Nat
  BY DEF Hits
<1>2. CASE Len(s) = 0
  BY <1>1, <1>2 DEF AfterHit
<1>3. CASE Len(s) # 0
  <2>1. 1..Len(s) \subseteq Nat /\ 1 \in 1..Len(s)
    BY <1>1, <1>3
  <2>2. Min(1..Len(s)) \in 1..Len(s) /\ Min(1..Len(s)) <= 1
    BY <2>1, MinIsLeast
  <2>3. Min(1..Len(s)) = 1
    BY <1>1, <2>2
  <2>4. AfterHit(s, runnable) = SubSeq(s, 2, Len(s))
    BY <1>1, <2>1, <2>3 DEF AfterHit
  <2> QED
    BY <1>1, <1>3, <2>1, <2>3, <2>4
<1> QED
  BY <1>2, <1>3

\* pop_from on such queues: it returns nothing when there is nothing, and otherwise
\* takes away the thread it returns and no other.
LEMMA PopTakesOne ==
  ASSUME NEW W, NEW q \in [Level -> Seq(W)], NEW order \in PickOrders, NEW runnable,
         NoThread \notin W, Waiting(q) \subseteq runnable, Once(q)
  PROVE  LET found == PopFrom(q, order, runnable)
             rest  == PopRest(q, order, runnable)
         IN  /\ Once(rest)
             /\ found = NoThread => Waiting(q) = {} /\ Waiting(rest) = {}
             /\ found # NoThread => found \in Waiting(q) /\ Waiting(rest) = Waiting(q) \ {found}
<1> DEFINE found  == PopFrom(q, order, runnable)
           rest   == PopRest(q, order, runnable)
           places == HitPlaces(q, order, runnable)
           last   == IF places = {} THEN 3 ELSE Min(places)
<1>1. ASSUME NEW l \in Level
      PROVE  /\ q[l] \in Seq(W) /\ Len(q[l]) \in Nat
             /\ Len(q[l]) = 0 => Hits(q[l], runnable) = {} /\ AfterHit(q[l], runnable) = q[l]
             /\ Len(q[l]) # 0 => /\ Hits(q[l], runnable) # {} /\ Min(Hits(q[l], runnable)) = 1
                                 /\ AfterHit(q[l], runnable) = Tail(q[l])
  <2>1. q[l] \in Seq(W) /\ \A i \in 1..Len(q[l]) : q[l][i] \in runnable
    BY DEF Waiting
  <2> QED
    BY <2>1, AfterHitAll
<1>2. \A l \in Level : rest[l] = IF \E k \in 1..last : order[k] = l
                                 THEN AfterHit(q[l], runnable) ELSE q[l]
  BY DEF PopRest
<1>3. CASE places = {}
  <2>1. \A l \in Level : Len(q[l]) = 0
    <3> SUFFICES ASSUME NEW l \in Level PROVE Len(q[l]) = 0
      OBVIOUS
    <3>1. PICK k \in 1..3 : order[k] = l
      BY OrderIsPermutation, Zenon
    <3>2. Hits(q[order[k]], runnable) = {}
      BY <1>3, Zenon DEF HitPlaces
    <3> QED
      BY <1>1, <3>1, <3>2, Zenon
  <2>2. \A l \in Level : rest[l] = q[l]
    BY <1>1, <1>2, <2>1
  <2>3. found = NoThread
    BY <1>3 DEF PopFrom
  <2> HIDE DEF found, rest
  <2>4. Waiting(q) = {} /\ Waiting(rest) = {} /\ Once(rest)
    BY <2>1, <2>2 DEF Waiting, Once
  <2> QED
    BY <2>3, <2>4 DEF found, rest
<1>4. CASE places # {}
  <2> DEFINE lv == order[Min(places)]
  <2>1. /\ Min(places) \in 1..3 /\ Hits(q[lv], runnable) # {}
        /\ \A j \in 1..3 : Hits(q[order[j]], runnable) # {} => Min(places) <= j
    BY <1>4, FirstPlace, Zenon
  <2>2. lv \in Level
    BY <2>1, OrderNamesLevels
  <2>3. Len(q[lv]) # 0 /\ Min(Hits(q[lv], runnable)) = 1
    BY <1>1, <2>1, <2>2
  <2>4. found = q[lv][1]
    BY <1>4, <2>3 DEF PopFrom
  <2>5. rest[lv] = Tail(q[lv])
    <3>1. last = Min(places) /\ Min(places) \in 1..Min(places)
      BY <1>4, <2>1
    <3>2. \E k \in 1..last : order[k] = lv
      BY <3>1, Zenon
    <3> QED
      BY <1>1, <1>2, <2>2, <2>3, <3>2, Zenon
  <2>6. ASSUME NEW m \in Level, m # lv PROVE rest[m] = q[m]
    <3>1. CASE \E k \in 1..last : order[k] = m
      <4>1. PICK k \in 1..Min(places) : order[k] = m
        BY <1>4, <3>1
      <4>2. k \in 1..3 /\ k # Min(places) /\ ~(Min(places) <= k)
        BY <2>1, <2>6, <4>1
      <4>3. Len(q[m]) = 0
        BY <1>1, <2>1, <4>1, <4>2, Zenon
      <4> QED
        BY <1>1, <1>2, <3>1, <4>3
    <3>2. CASE ~ \E k \in 1..last : order[k] = m
      BY <1>2, <3>2
    <3> QED
      BY <3>1, <3>2
  <2>7. /\ Len(rest[lv]) = Len(q[lv]) - 1 /\ q[lv] \in Seq(W) /\ Len(q[lv]) \in Nat
        /\ \A i \in 1..(Len(q[lv]) - 1) : rest[lv][i] = q[lv][i + 1]
    BY <1>1, <2>2, <2>3, <2>5
  <2>8. 1 \in 1..Len(q[lv]) /\ found \in W
    BY <2>3, <2>4, <2>7
  <2> HIDE DEF found, rest, lv
  <2>9. Once(rest)
    <3>1. ASSUME NEW m \in Level, NEW i \in 1..Len(rest[m])
          PROVE  LET a == IF m = lv THEN i + 1 ELSE i
                 IN  a \in 1..Len(q[m]) /\ rest[m][i] = q[m][a]
      BY <2>6, <2>7
    <3> SUFFICES ASSUME NEW m \in Level, NEW k \in Level, NEW i \in 1..Len(rest[m]),
                        NEW j \in 1..Len(rest[k]), rest[m][i] = rest[k][j]
                 PROVE  m = k /\ i = j
      BY Zenon DEF Once
    <3> DEFINE a == IF m = lv THEN i + 1 ELSE i
               b == IF k = lv THEN j + 1 ELSE j
    <3>2. a \in 1..Len(q[m]) /\ b \in 1..Len(q[k]) /\ q[m][a] = q[k][b]
      BY <3>1
    <3> HIDE DEF a, b
    <3>3. m = k /\ a = b
      BY <3>2, Zenon DEF Once
    <3> QED
      BY <3>3 DEF a, b
  <2>10. ASSUME NEW x \in Waiting(rest) PROVE x \in Waiting(q) /\ x # found
    <3>1. PICK m \in Level : \E i \in 1..Len(rest[m]) : rest[m][i] = x
      BY <2>10 DEF Waiting
    <3>2. PICK i \in 1..Len(rest[m]) : rest[m][i] = x
      BY <3>1
    <3>3. PICK j \in 1..Len(q[m]) : q[m][j] = x /\ (m = lv => j # 1)
      <4>1. CASE m = lv
        BY <2>7, <3>2, <4>1
      <4>2. CASE m # lv
        BY <2>6, <3>2, <4>2
      <4> QED
        BY <4>1, <4>2
    <3>4. x \in Waiting(q)
      BY <3>3 DEF Waiting
    <3>5. x # found
      BY <2>2, <2>4, <2>8, <3>3 DEF Once
    <3> QED
      BY <3>4, <3>5
  <2>11. ASSUME NEW x \in Waiting(q), x # found PROVE x \in Waiting(rest)
    <3>1. PICK m \in Level : \E i \in 1..Len(q[m]) : q[m][i] = x
      BY <2>11 DEF Waiting
    <3>2. PICK i \in 1..Len(q[m]) : q[m][i] = x
      BY <3>1
    <3>3. PICK j \in 1..Len(rest[m]) : rest[m][j] = x
      <4>1. CASE m = lv
        <5>1. i # 1
          BY <2>4, <2>11, <3>2, <4>1
        <5>2. i - 1 \in 1..(Len(q[lv]) - 1) /\ (i - 1) + 1 = i
          BY <2>7, <3>2, <4>1, <5>1
        <5> QED
          BY <2>7, <3>2, <4>1, <5>2, Zenon
      <4>2. CASE m # lv
        BY <2>6, <3>2, <4>2
      <4> QED
        BY <4>1, <4>2
    <3> QED
      BY <3>3 DEF Waiting
  <2>12. found \in Waiting(q) /\ found # NoThread
    BY <2>2, <2>4, <2>8 DEF Waiting
  <2> QED
    BY <2>9, <2>10, <2>11, <2>12 DEF found, rest
<1> QED
  BY <1>3, <1>4
=============================================================================
