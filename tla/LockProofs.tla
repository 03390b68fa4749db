----------------------------- MODULE LockProofs -----------------------------
(***************************************************************************)
(* TicketLock for any number of processors, locks and tickets: mutual      *)
(* exclusion, and no interrupt over a holder or a waiter.  SleepMutex for  *)
(* any number of threads that park nowhere else: one holder at a time, and *)
(* no gap for a release to fall into.                                      *)
(***************************************************************************)
EXTENDS TicketLock, SleepLock, TLAPS

\* The time each leaf is given.
USE SMTT(30), ZenonT(30)

\* Locks are numbers, and are compared as numbers.
LEMMA LockOrder ==
  /\ \A h \in Lock : h \in Nat /\ ~(h < h) /\ h <= h
  /\ \A h, k \in Lock : (h < k => h <= k /\ ~(k <= h)) /\ (h <= k /\ k <= h => h = k)
BY LockAssumption

\* A context that is asking for a lock names one, and does not hold it.
LEMMA AskingFacts ==
  ASSUME NEW x \in Context, LockInv, pc[x] \in Asking
  PROVE  want[x] \in Lock /\ want[x] \notin held[x] /\ MayNest(x, want[x])
<1>1. want[x] \in Lock /\ MayNest(x, want[x])
  BY Zenon DEF LockInv, TicketInv, Outstanding
<1> QED
  BY <1>1, LockOrder, Zenon DEF MayNest

\* MaskFirst keeps the invariant.
LEMMA MaskFirstKeeps ==
  ASSUME NEW x \in Context, LockInv, NEW l \in Lock, NEW p \in {"ask", "peek"}, MaskFirst(x, l, p)
  PROVE  LockInv'
<1> USE ContextAssumption, LockOrder
<1> USE DEF LockInv, TypeOK, At, Active, GoTo, words, masks, locals, guards, MaskFirst
<1>0. /\ sampled'[x] <=> irq[CpuOf[x]]
      /\ \A y \in Context : y # x => (sampled'[y] <=> sampled[y])
      /\ \A c \in Cpu : irq'[c] <=> irq[c] /\ c # CpuOf[x]
  OBVIOUS
<1>1. TypeOK'
  BY <1>0, Zenon DEF Place
<1>2. TicketInv'
  <2>1. \A k \in Lock : nowServing'[k] <= nextTicket'[k]
    BY <1>0, Zenon DEF TicketInv, Outstanding
  <2>2. ASSUME NEW y \in Context PROVE Outstanding(y)'
    BY <1>0 DEF TicketInv, Outstanding, Distinct, MutualExclusion, MayNest, Asking
  <2>3. ASSUME NEW y \in Context, NEW z \in Context PROVE Distinct(y, z)'
    BY <1>0 DEF TicketInv, Outstanding, Distinct, MutualExclusion, Asking
  <2> QED
    BY <2>1, <2>2, <2>3, Zenon DEF TicketInv
<1>3. MutualExclusion'
  BY <1>0, Zenon DEF TicketInv, Outstanding, Distinct, MutualExclusion, MayNest, Asking
<1>a. /\ pc[x] = "run" /\ (inHandler[CpuOf[x]] <=> x \in Handler)
      /\ pc'[x] \in Asking /\ \A y \in Context : y # x => pc'[y] = pc[y]
      /\ UNCHANGED <<inHandler, outer, held, restore>>
  BY DEF Asking
<1> HIDE DEF MaskFirst, TypeOK
<1>4. MaskInv'
  <2>1. \A c \in Cpu : inHandler'[c] \/ outer'[c] => ~irq'[c] /\ (inHandler'[c] => ~outer'[c])
    BY <1>0, <1>a, Zenon DEF MaskInv, Masked
  <2>2. ASSUME NEW y \in Context PROVE Masked(y)'
    BY <1>0, <1>a DEF MaskInv, Masked, MaskRestored, Asking
  <2>3. ASSUME NEW y \in Context PROVE OutermostRestores(y)'
    BY <1>a, Zenon DEF MaskInv, OutermostRestores
  <2> QED
    BY <2>1, <2>2, <2>3, Zenon DEF MaskInv
<1>5. MaskRestored'
  BY <1>0, <1>a, Zenon DEF MaskInv, Masked, MaskRestored, Asking
<1> QED
  BY <1>1, <1>2, <1>3, <1>4, <1>5, Zenon

\* TakeTicket keeps the invariant.
LEMMA TakeTicketKeeps ==
  ASSUME NEW x \in Context, LockInv, TakeTicket(x)
  PROVE  LockInv'
<1> USE ContextAssumption, LockOrder
<1> USE DEF LockInv, TypeOK, At, Active, GoTo, words, masks, locals, guards, TakeTicket
<1>0. want[x] \in Lock /\ want[x] \notin held[x] /\ MayNest(x, want[x])
  BY AskingFacts, Zenon DEF Asking
<1>1. TypeOK'
  BY <1>0 DEF Place
<1>2. TicketInv'
  <2>1. \A k \in Lock : nowServing'[k] <= nextTicket'[k]
    BY <1>0 DEF TicketInv, Outstanding
  <2>2. ASSUME NEW y \in Context PROVE Outstanding(y)'
    BY <1>0 DEF TicketInv, Outstanding, Distinct, MutualExclusion, MayNest, Asking
  <2>3. ASSUME NEW y \in Context, NEW z \in Context PROVE Distinct(y, z)'
    BY <1>0 DEF TicketInv, Outstanding, Distinct, MutualExclusion, Asking
  <2> QED
    BY <2>1, <2>2, <2>3, Zenon DEF TicketInv
<1>3. MutualExclusion'
  BY <1>0, Zenon DEF TicketInv, Outstanding, Distinct, MutualExclusion, MayNest, Asking
<1>4. MaskInv'
  <2>1. \A c \in Cpu : inHandler'[c] \/ outer'[c] => ~irq'[c] /\ (inHandler'[c] => ~outer'[c])
    BY <1>0, Zenon DEF MaskInv, Masked
  <2>2. ASSUME NEW y \in Context PROVE Masked(y)'
    BY <1>0 DEF MaskInv, Masked, OutermostRestores, MaskRestored, Asking, Outstanding, TicketInv
  <2>3. ASSUME NEW y \in Context PROVE OutermostRestores(y)'
    BY <1>0, Zenon DEF MaskInv, Masked, OutermostRestores, MayNest, Asking
  <2> QED
    BY <2>1, <2>2, <2>3, Zenon DEF MaskInv
<1>5. MaskRestored'
  BY <1>0 DEF MaskInv, Masked, MaskRestored, Asking
<1> QED
  BY <1>1, <1>2, <1>3, <1>4, <1>5, Zenon

\* Enter keeps the invariant.
LEMMA EnterKeeps ==
  ASSUME NEW x \in Context, LockInv, Enter(x)
  PROVE  LockInv'
<1> USE ContextAssumption, LockOrder
<1> USE DEF LockInv, TypeOK, At, Active, GoTo, words, masks, locals, guards, Enter, Guarded, Forget
<1>0. want[x] \in Lock /\ want[x] \notin held[x] /\ MayNest(x, want[x])
  BY AskingFacts, Zenon DEF Asking
<1>1. TypeOK'
  BY <1>0 DEF Place
<1>2. TicketInv'
  <2>1. \A k \in Lock : nowServing'[k] <= nextTicket'[k]
    BY <1>0, Zenon DEF TicketInv, Outstanding
  <2>2. ASSUME NEW y \in Context PROVE Outstanding(y)'
    BY <1>0 DEF TicketInv, Outstanding, Distinct, MutualExclusion, MayNest, Asking
  <2>3. ASSUME NEW y \in Context, NEW z \in Context PROVE Distinct(y, z)'
    BY <1>0 DEF TicketInv, Outstanding, Distinct, MutualExclusion, Asking
  <2> QED
    BY <2>1, <2>2, <2>3, Zenon DEF TicketInv
<1>3. MutualExclusion'
  BY <1>0 DEF TicketInv, Outstanding, Distinct, MutualExclusion, MayNest, Asking
<1>4. MaskInv'
  <2>1. \A c \in Cpu : inHandler'[c] \/ outer'[c] => ~irq'[c] /\ (inHandler'[c] => ~outer'[c])
    BY <1>0, Zenon DEF MaskInv, Masked
  <2>2. ASSUME NEW y \in Context PROVE Masked(y)'
    BY <1>0 DEF MaskInv, Masked, OutermostRestores, MaskRestored, Asking, Outstanding, TicketInv
  <2>3. ASSUME NEW y \in Context PROVE OutermostRestores(y)'
    BY <1>0 DEF MaskInv, Masked, OutermostRestores, MayNest, Asking
  <2> QED
    BY <2>1, <2>2, <2>3, Zenon DEF MaskInv
<1>5. MaskRestored'
  BY <1>0 DEF MaskInv, Masked, MaskRestored, Asking
<1> QED
  BY <1>1, <1>2, <1>3, <1>4, <1>5, Zenon

\* TryLoad keeps the invariant.
LEMMA TryLoadKeeps ==
  ASSUME NEW x \in Context, LockInv, TryLoad(x)
  PROVE  LockInv'
<1> USE ContextAssumption, LockOrder
<1> USE DEF LockInv, TypeOK, At, Active, GoTo, words, masks, locals, guards, TryLoad
<1>0. want[x] \in Lock /\ want[x] \notin held[x] /\ MayNest(x, want[x])
  BY AskingFacts, Zenon DEF Asking
<1>1. TypeOK'
  BY <1>0, Zenon DEF Place
<1>2. TicketInv'
  <2>1. \A k \in Lock : nowServing'[k] <= nextTicket'[k]
    BY <1>0, Zenon DEF TicketInv, Outstanding
  <2>2. ASSUME NEW y \in Context PROVE Outstanding(y)'
    BY <1>0 DEF TicketInv, Outstanding, Distinct, MutualExclusion, MayNest, Asking
  <2>3. ASSUME NEW y \in Context, NEW z \in Context PROVE Distinct(y, z)'
    BY <1>0 DEF TicketInv, Outstanding, Distinct, MutualExclusion, Asking
  <2> QED
    BY <2>1, <2>2, <2>3, Zenon DEF TicketInv
<1>3. MutualExclusion'
  BY <1>0, Zenon DEF TicketInv, Outstanding, Distinct, MutualExclusion, MayNest, Asking
<1>4. MaskInv'
  <2>1. \A c \in Cpu : inHandler'[c] \/ outer'[c] => ~irq'[c] /\ (inHandler'[c] => ~outer'[c])
    BY <1>0, Zenon DEF MaskInv, Masked
  <2>2. ASSUME NEW y \in Context PROVE Masked(y)'
    BY <1>0 DEF MaskInv, Masked, OutermostRestores, MaskRestored, Asking, Outstanding, TicketInv
  <2>3. ASSUME NEW y \in Context PROVE OutermostRestores(y)'
    BY <1>0, Zenon DEF MaskInv, Masked, OutermostRestores, MayNest, Asking
  <2> QED
    BY <2>1, <2>2, <2>3, Zenon DEF MaskInv
<1>5. MaskRestored'
  BY <1>0 DEF MaskInv, Masked, MaskRestored, Asking
<1> QED
  BY <1>1, <1>2, <1>3, <1>4, <1>5, Zenon

\* TrySwap keeps the invariant.
LEMMA TrySwapKeeps ==
  ASSUME NEW x \in Context, LockInv, TrySwap(x)
  PROVE  LockInv'
<1> USE ContextAssumption, LockOrder
<1> USE DEF LockInv, TypeOK, At, Active, GoTo, words, masks, locals, guards
<1>0. want[x] \in Lock /\ want[x] \notin held[x] /\ MayNest(x, want[x])
  BY AskingFacts, Zenon DEF Asking, TrySwap
<1>a. CASE nextTicket[want[x]] = seen[x]
  <2>a. /\ nextTicket' = [nextTicket EXCEPT ![want[x]] = seen[x] + 1]
        /\ Guarded(x) /\ Forget(x) /\ (inHandler[CpuOf[x]] <=> x \in Handler) /\ pc[x] = "swap"
        /\ UNCHANGED <<nowServing, irq, inHandler, outer>>
    BY <1>a, Zenon DEF TrySwap
  <2>b. nextTicket[want[x]] = nowServing[want[x]]
    <3>1. seen[x] <= nowServing[want[x]] /\ nowServing[want[x]] <= nextTicket[want[x]]
      BY <1>0, <2>a, Zenon DEF TicketInv, Outstanding
    <3>2. \A m, n \in Nat : m <= n /\ n <= m => n = m
      OBVIOUS
    <3>3. nowServing[want[x]] \in Nat /\ nextTicket[want[x]] \in Nat
      BY <1>0, Zenon
    <3> QED
      BY <1>a, <3>1, <3>2, <3>3, Zenon
  <2>c. /\ \A y \in Context : want[x] \notin held[y]
        /\ \A y \in Context : pc[y] = "spin" => want[y] # want[x]
    BY <1>0, <2>b DEF TicketInv, Outstanding, Asking
  <2> USE DEF Guarded, Forget
  <2>1. TypeOK'
    BY <1>0, <1>a, <2>a, <2>b, <2>c DEF Place
  <2>2. TicketInv'
    <3>1. \A k \in Lock : nowServing'[k] <= nextTicket'[k]
      BY <1>0, <1>a, <2>a, <2>b, <2>c DEF TicketInv, Outstanding
    <3>2. ASSUME NEW y \in Context PROVE Outstanding(y)'
      BY <1>0, <1>a, <2>a, <2>b, <2>c DEF TicketInv, Outstanding, Distinct, MutualExclusion, MayNest, Asking
    <3>3. ASSUME NEW y \in Context, NEW z \in Context PROVE Distinct(y, z)'
      BY <1>0, <1>a, <2>a, <2>b, <2>c DEF TicketInv, Outstanding, Distinct, MutualExclusion, Asking
    <3> QED
      BY <3>1, <3>2, <3>3, Zenon DEF TicketInv
  <2>3. MutualExclusion'
    BY <1>0, <1>a, <2>a, <2>b, <2>c DEF MutualExclusion
  <2>4. MaskInv'
    <3>1. \A c \in Cpu : inHandler'[c] \/ outer'[c] => ~irq'[c] /\ (inHandler'[c] => ~outer'[c])
      BY <1>0, <1>a, <2>a, <2>b, <2>c, Zenon DEF MaskInv, Masked
    <3>2. ASSUME NEW y \in Context PROVE Masked(y)'
      BY <1>0, <1>a, <2>a, <2>b, <2>c DEF MaskInv, Masked, OutermostRestores, MaskRestored, Asking, Outstanding, TicketInv
    <3>3. ASSUME NEW y \in Context PROVE OutermostRestores(y)'
      BY <1>0, <1>a, <2>a, <2>b, <2>c DEF MaskInv, Masked, OutermostRestores, MayNest, Asking
    <3> QED
      BY <3>1, <3>2, <3>3, Zenon DEF MaskInv
  <2>5. MaskRestored'
    BY <1>0, <1>a, <2>a, <2>b, <2>c DEF MaskInv, Masked, MaskRestored, Asking
  <2> QED
    BY <2>1, <2>2, <2>3, <2>4, <2>5, Zenon
<1>b. CASE nextTicket[want[x]] # seen[x]
  <2>a. /\ Forget(x) /\ (inHandler[CpuOf[x]] <=> x \in Handler) /\ pc[x] = "swap"
        /\ UNCHANGED <<nextTicket, nowServing, inHandler, outer, held, restore>>
        /\ irq' = [irq EXCEPT ![CpuOf[x]] = sampled[x]]
    BY <1>b, Zenon DEF TrySwap
  <2>b. \A c \in Cpu : irq'[c] <=> IF c = CpuOf[x] THEN sampled[x] ELSE irq[c]
    BY <2>a, Zenon
  <2> USE DEF Forget
  <2>1. TypeOK'
    BY <1>0, <2>a, <2>b, Zenon DEF Place
  <2>2. TicketInv'
    <3>1. \A k \in Lock : nowServing'[k] <= nextTicket'[k]
      BY <1>0, <2>a, <2>b, Zenon DEF TicketInv, Outstanding
    <3>2. ASSUME NEW y \in Context PROVE Outstanding(y)'
      BY <1>0, <2>a, <2>b DEF TicketInv, Outstanding, Distinct, MutualExclusion, MayNest, Asking
    <3>3. ASSUME NEW y \in Context, NEW z \in Context PROVE Distinct(y, z)'
      BY <1>0, <2>a, <2>b DEF TicketInv, Outstanding, Distinct, MutualExclusion, Asking
    <3> QED
      BY <3>1, <3>2, <3>3 DEF TicketInv
  <2>3. MutualExclusion'
    BY <1>0, <2>a, <2>b, Zenon DEF TicketInv, Outstanding, Distinct, MutualExclusion, MayNest, Asking
  <2>4. MaskInv'
    <3>1. \A c \in Cpu : inHandler'[c] \/ outer'[c] => ~irq'[c] /\ (inHandler'[c] => ~outer'[c])
      BY <1>0, <2>a, <2>b DEF MaskInv, Masked, Asking
    <3>2. ASSUME NEW y \in Context PROVE Masked(y)'
      <4>1. /\ pc'[x] = "run" /\ UNCHANGED <<inHandler, outer, held>>
            /\ \A z \in Context : z # x => pc'[z] = pc[z] /\ (sampled'[z] <=> sampled[z])
        BY <2>a
      <4> HIDE DEF TypeOK, Forget
      <4> QED
        BY <2>a, <2>b, <4>1 DEF MaskInv, Masked, Asking
    <3>3. ASSUME NEW y \in Context PROVE OutermostRestores(y)'
      BY <1>0, <2>a, <2>b, Zenon DEF MaskInv, Masked, OutermostRestores, MayNest, Asking
    <3> QED
      BY <3>1, <3>2, <3>3 DEF MaskInv
  <2>5. MaskRestored'
    BY <1>0, <2>a, <2>b DEF MaskInv, Masked, MaskRestored, Asking
  <2> QED
    BY <2>1, <2>2, <2>3, <2>4, <2>5
<1> QED
  BY <1>a, <1>b, Zenon

\* Drop keeps the invariant.
LEMMA DropKeeps ==
  ASSUME NEW x \in Context, LockInv, NEW l \in Lock, Drop(x, l)
  PROVE  LockInv'
<1> USE ContextAssumption, LockOrder
<1> USE DEF LockInv, TypeOK, At, Active, GoTo, words, masks, locals, guards, Drop
<1>1. TypeOK'
  BY Zenon DEF Place
<1>2. TicketInv'
  <2>1. \A k \in Lock : nowServing'[k] <= nextTicket'[k]
    BY Zenon DEF TicketInv, Outstanding
  <2>2. ASSUME NEW y \in Context PROVE Outstanding(y)'
    BY DEF TicketInv, Outstanding, Distinct, MutualExclusion, MayNest, Asking
  <2>3. ASSUME NEW y \in Context, NEW z \in Context PROVE Distinct(y, z)'
    BY DEF TicketInv, Outstanding, Distinct, MutualExclusion, Asking
  <2> QED
    BY <2>1, <2>2, <2>3, Zenon DEF TicketInv
<1>3. MutualExclusion'
  BY Zenon DEF TicketInv, Outstanding, Distinct, MutualExclusion, MayNest, Asking
<1>4. MaskInv'
  <2>1. \A c \in Cpu : inHandler'[c] \/ outer'[c] => ~irq'[c] /\ (inHandler'[c] => ~outer'[c])
    BY Zenon DEF MaskInv
  <2>2. ASSUME NEW y \in Context PROVE Masked(y)'
    <3>1. /\ pc'[x] = "drop" /\ held[x] # {} /\ UNCHANGED <<irq, inHandler, outer, sampled, held>>
          /\ \A z \in Context : z # x => pc'[z] = pc[z]
      OBVIOUS
    <3> HIDE DEF Drop, TypeOK
    <3> QED
      BY <3>1, Zenon DEF MaskInv, Masked, Asking
  <2>3. ASSUME NEW y \in Context PROVE OutermostRestores(y)'
    BY Zenon DEF MaskInv, Masked, OutermostRestores, MayNest, Asking
  <2> QED
    BY <2>1, <2>2, <2>3, Zenon DEF MaskInv
<1>5. MaskRestored'
  BY DEF MaskInv, Masked, MaskRestored, Asking
<1> QED
  BY <1>1, <1>2, <1>3, <1>4, <1>5, Zenon

\* Release keeps the invariant.
LEMMA ReleaseKeeps ==
  ASSUME NEW x \in Context, LockInv, Release(x)
  PROVE  LockInv'
<1> USE ContextAssumption, LockOrder
<1> USE DEF LockInv, TypeOK, At, Active, GoTo, words, masks, locals, guards, Release
<1>0. want[x] \in Lock /\ want[x] \in held[x]
  BY Zenon DEF TicketInv, Outstanding
<1>1. TypeOK'
  BY <1>0 DEF Place
<1>2. TicketInv'
  <2>1. \A k \in Lock : nowServing'[k] <= nextTicket'[k]
    BY <1>0 DEF TicketInv, Outstanding
  <2>2. ASSUME NEW y \in Context PROVE Outstanding(y)'
    <3>1. seen[x] = nowServing[want[x]] /\ nowServing[want[x]] < nextTicket[want[x]]
      BY <1>0, Zenon DEF TicketInv, Outstanding
    <3>2. \A k \in Lock : nowServing'[k] = IF k = want[x] THEN nowServing[k] + 1 ELSE nowServing[k]
      BY <1>0, <3>1, Zenon
    <3>3. CASE y = x
      <4>1. pc'[x] = "enable" /\ held'[x] = held[x] \ {want[x]} /\ UNCHANGED nextTicket
        OBVIOUS
      <4>2. held[x] \subseteq Lock /\ \A l \in held[x] : nowServing[l] < nextTicket[l]
        BY Zenon DEF TicketInv, Outstanding
      <4> HIDE DEF Release, TypeOK
      <4> QED
        BY <3>2, <3>3, <4>1, <4>2, Zenon DEF Outstanding, Asking
    <3>4. CASE y # x
      <4>1. want[x] \notin held[y]
        BY <1>0, <3>4, Zenon DEF MutualExclusion
      <4>2. pc[y] = "spin" /\ want[y] = want[x] => ticket[y] # nowServing[want[x]]
        BY <1>0, Zenon DEF TicketInv, Distinct
      <4>3. pc[y] \in Asking => want[y] \in Lock
        BY Zenon DEF TicketInv, Outstanding
      <4>4. pc[y] = "drop" => want[y] \in Lock /\ want[y] # want[x]
        BY <4>1, Zenon DEF TicketInv, Outstanding
      <4>5. pc'[y] = pc[y] /\ want'[y] = want[y] /\ ticket'[y] = ticket[y] /\ seen'[y] = seen[y]
            /\ held'[y] = held[y] /\ UNCHANGED <<nextTicket, outer>>
        BY <3>4
      <4>6. Outstanding(y)
        BY Zenon DEF TicketInv
      <4> HIDE DEF Release
      <4>7. pc[y] = "spin" => nowServing'[want[y]] <= ticket[y]
        <5>1. CASE want[y] = want[x]
          <6>1. \A m, n \in Nat : n <= m /\ m # n => n + 1 <= m
            OBVIOUS
          <6>2. nowServing'[want[x]] = nowServing[want[x]] + 1 /\ nowServing[want[x]] \in Nat
            BY <1>0, <3>2, Zenon
          <6>3. ticket[y] \in Nat
            BY Zenon
          <6>4. pc[y] = "spin" => nowServing[want[x]] <= ticket[y]
            BY <4>6, <5>1, Zenon DEF Outstanding
          <6>5. pc[y] = "spin" => nowServing[want[x]] + 1 <= ticket[y]
            BY <4>2, <5>1, <6>1, <6>2, <6>3, <6>4, Zenon
          <6>6. nowServing'[want[y]] = nowServing[want[x]] + 1
            BY <5>1, <6>2, Zenon
          <6> QED
            BY <6>5, <6>6, Zenon
        <5>2. CASE want[y] # want[x]
          BY <3>2, <4>3, <4>6, <5>2, Zenon DEF Outstanding, Asking
        <5> QED
          BY <5>1, <5>2, Zenon
      <4>8. pc[y] = "swap" => seen[y] <= nowServing'[want[y]]
        BY <1>0, <3>2, <4>3, <4>6 DEF Outstanding, Asking
      <4>9. pc[y] = "drop" => seen[y] = nowServing'[want[y]]
        BY <3>2, <4>4, <4>6, Zenon DEF Outstanding
      <4>10. \A k \in held[y] : nowServing'[k] < nextTicket[k]
        BY <3>2, <4>1, <4>6, Zenon DEF Outstanding
      <4> QED
        BY <4>5, <4>6, <4>7, <4>8, <4>9, <4>10, Zenon DEF Outstanding, MayNest
    <3> QED
      BY <3>3, <3>4, Zenon
  <2>3. ASSUME NEW y \in Context, NEW z \in Context PROVE Distinct(y, z)'
    <3>1. /\ pc'[x] = "enable" /\ held'[x] = held[x] \ {want[x]} /\ UNCHANGED <<want, ticket>>
          /\ \A v \in Context : v # x => pc'[v] = pc[v] /\ held'[v] = held[v]
      OBVIOUS
    <3>2. \A v \in Context : want[x] \notin held'[v]
      BY <1>0, <3>1, Zenon DEF MutualExclusion
    <3>3. \A k \in Lock : k # want[x] => nowServing'[k] = nowServing[k]
      BY <1>0, Zenon
    <3>4. \A v \in Context : held'[v] \subseteq held[v] /\ held[v] \subseteq Lock
      BY <3>1, Zenon
    <3>5. Distinct(y, z)
      BY Zenon DEF TicketInv
    <3> HIDE DEF Release, TypeOK
    <3> QED
      BY <3>1, <3>2, <3>3, <3>4, <3>5, Zenon DEF Distinct
  <2> QED
    BY <2>1, <2>2, <2>3, Zenon DEF TicketInv
<1>3. MutualExclusion'
  BY <1>0 DEF TicketInv, Outstanding, Distinct, MutualExclusion, MayNest, Asking
<1>4. MaskInv'
  <2>1. \A c \in Cpu : inHandler'[c] \/ outer'[c] => ~irq'[c] /\ (inHandler'[c] => ~outer'[c])
    BY <1>0, Zenon DEF MaskInv, Masked
  <2>2. ASSUME NEW y \in Context PROVE Masked(y)'
    <3>1. held'[x] = {} /\ ~outer[CpuOf[x]] /\ x \notin Handler <=> want[x] \in restore[x]
      <4>1. outer[CpuOf[x]] \/ \A h \in held[x] : h <= want[x]
        BY Zenon DEF TicketInv, Outstanding
      <4>2. held'[x] = held[x] \ {want[x]}
        BY Zenon
      <4> QED
        BY <1>0, <4>1, <4>2 DEF MaskInv, OutermostRestores
    <3>2. \A z \in Context : sampled'[z] <=> IF z = x THEN want[x] \in restore[x] ELSE sampled[z]
      BY Zenon
    <3>3. /\ pc[x] = "drop" /\ pc'[x] = "enable"
          /\ \A z \in Context : z # x => pc'[z] = pc[z] /\ held'[z] = held[z]
          /\ UNCHANGED <<irq, inHandler, outer>>
      OBVIOUS
    <3> HIDE DEF Release, TypeOK
    <3> QED
      BY <3>1, <3>2, <3>3, Zenon DEF MaskInv, Masked, Asking
  <2>3. ASSUME NEW y \in Context PROVE OutermostRestores(y)'
    <3>1. outer[CpuOf[x]] \/ \A h \in held[x] : h <= want[x]
      BY DEF TicketInv, Outstanding
    <3> QED
      BY <1>0, <3>1 DEF MaskInv, OutermostRestores
  <2> QED
    BY <2>1, <2>2, <2>3, Zenon DEF MaskInv
<1>5. MaskRestored'
  <2>1. /\ pc'[x] = "enable" /\ UNCHANGED <<irq, inHandler, outer>>
        /\ \A v \in Context : v # x => pc'[v] = pc[v] /\ held'[v] = held[v]
    OBVIOUS
  <2> HIDE DEF Release, TypeOK
  <2> QED
    BY <2>1, Zenon DEF MaskRestored
<1> QED
  BY <1>1, <1>2, <1>3, <1>4, <1>5, Zenon

\* Enable keeps the invariant.
LEMMA EnableKeeps ==
  ASSUME NEW x \in Context, LockInv, Enable(x)
  PROVE  LockInv'
<1> USE ContextAssumption, LockOrder
<1> USE DEF LockInv, TypeOK, At, Active, GoTo, words, masks, locals, guards, Enable, Forget
<1>0. \A c \in Cpu : irq'[c] <=> irq[c] \/ (c = CpuOf[x] /\ sampled[x])
  BY Zenon
<1>1. TypeOK'
  BY Zenon DEF Place
<1>a. /\ pc[x] = "enable" /\ pc'[x] = "run" /\ (inHandler[CpuOf[x]] <=> x \in Handler)
      /\ \A y \in Context : y # x => /\ pc'[y] = pc[y] /\ want'[y] = want[y]
                                     /\ ticket'[y] = ticket[y] /\ seen'[y] = seen[y]
                                     /\ (sampled'[y] <=> sampled[y])
      /\ UNCHANGED <<nextTicket, nowServing, inHandler, outer, held, restore>>
  OBVIOUS
<1>b. \A y \in Context : CpuOf[y] \in Cpu
  BY Zenon
<1>c. sampled[x] => ~inHandler[CpuOf[x]] /\ ~outer[CpuOf[x]] /\ held[x] = {} /\ x \notin Handler
  BY <1>a, Zenon DEF MaskInv, Masked
<1>d. \A y \in Context : y # x /\ CpuOf[y] = CpuOf[x] => y \in Handler <=> x \notin Handler
  BY Zenon DEF MaskInv
<1> HIDE DEF Enable, TypeOK
<1>2. TicketInv'
  <2>1. \A k \in Lock : nowServing'[k] <= nextTicket'[k]
    BY <1>a, Zenon DEF TicketInv
  <2>2. ASSUME NEW y \in Context PROVE Outstanding(y)'
    <3>1. Outstanding(y)
      BY Zenon DEF TicketInv
    <3>2. CASE y = x
      BY <1>a, <3>1, <3>2, Zenon DEF Outstanding, Asking
    <3>3. CASE y # x
      BY <1>a, <3>1, <3>3, Zenon DEF Outstanding, MayNest
    <3> QED
      BY <3>2, <3>3, Zenon
  <2>3. ASSUME NEW y \in Context, NEW z \in Context PROVE Distinct(y, z)'
    <3>1. Distinct(y, z)
      BY Zenon DEF TicketInv
    <3>2. /\ pc'[y] = "spin" => y # x /\ pc[y] = "spin" /\ want'[y] = want[y] /\ ticket'[y] = ticket[y]
          /\ pc'[z] = "spin" => z # x /\ pc[z] = "spin" /\ want'[z] = want[z] /\ ticket'[z] = ticket[z]
      BY <1>a, Zenon
    <3> QED
      BY <1>a, <3>1, <3>2, Zenon DEF Distinct
  <2> QED
    BY <2>1, <2>2, <2>3, Zenon DEF TicketInv
<1>3. MutualExclusion'
  BY <1>a, Zenon DEF MutualExclusion
<1>4. MaskInv'
  <2>1. \A c \in Cpu : inHandler'[c] \/ outer'[c] => ~irq'[c] /\ (inHandler'[c] => ~outer'[c])
    BY <1>0, <1>a, <1>c, Zenon DEF MaskInv
  <2>2. ASSUME NEW y \in Context PROVE Masked(y)'
    <3>1. Masked(y)
      BY Zenon DEF MaskInv
    <3>2. CASE y = x
      <4>1. held[x] # {} => ~irq'[CpuOf[x]]
        BY <1>0, <1>a, <1>b, <1>c, <3>1, <3>2, Zenon DEF Masked
      <4>2. pc'[x] = "run" /\ held'[x] = held[x] /\ (inHandler'[CpuOf[x]] <=> x \in Handler)
        BY <1>a, Zenon
      <4> QED
        BY <3>2, <4>1, <4>2, Zenon DEF Masked, Asking
    <3>3. CASE y # x
      <4>1. pc[y] # "run" \/ held[y] # {} => ~irq'[CpuOf[y]]
        BY <1>0, <1>b, <1>c, <1>d, <3>1, <3>3, Zenon DEF Masked
      <4> QED
        BY <1>a, <3>1, <3>3, <4>1, Zenon DEF Masked
    <3> QED
      BY <3>2, <3>3, Zenon
  <2>3. ASSUME NEW y \in Context PROVE OutermostRestores(y)'
    BY <1>a, Zenon DEF MaskInv, OutermostRestores
  <2> QED
    BY <2>1, <2>2, <2>3, Zenon DEF MaskInv
<1>5. MaskRestored'
  BY <1>0, <1>a, <1>b, <1>c, <1>d DEF MaskRestored, MaskInv, Masked
<1> QED
  BY <1>1, <1>2, <1>3, <1>4, <1>5, Zenon DEF LockInv

\* MaskSection keeps the invariant.
LEMMA MaskSectionKeeps ==
  ASSUME NEW x \in Context, LockInv, MaskSection(x)
  PROVE  LockInv'
<1> USE ContextAssumption, LockOrder
<1> USE DEF LockInv, TypeOK, At, Active, GoTo, words, masks, locals, guards, MaskSection
<1>1. TypeOK'
  BY Zenon DEF Place
<1>2. TicketInv'
  <2>1. \A k \in Lock : nowServing'[k] <= nextTicket'[k]
    BY Zenon DEF TicketInv, Outstanding
  <2>2. ASSUME NEW y \in Context PROVE Outstanding(y)'
    BY Zenon DEF TicketInv, Outstanding, Distinct, MutualExclusion, MayNest, Asking
  <2>3. ASSUME NEW y \in Context, NEW z \in Context PROVE Distinct(y, z)'
    BY Zenon DEF TicketInv, Outstanding, Distinct, MutualExclusion, Asking
  <2> QED
    BY <2>1, <2>2, <2>3, Zenon DEF TicketInv
<1>3. MutualExclusion'
  BY Zenon DEF TicketInv, Outstanding, Distinct, MutualExclusion, MayNest, Asking
<1>4. MaskInv'
  <2>1. \A c \in Cpu : inHandler'[c] \/ outer'[c] => ~irq'[c] /\ (inHandler'[c] => ~outer'[c])
    BY DEF MaskInv, Masked
  <2>2. ASSUME NEW y \in Context PROVE Masked(y)'
    BY DEF MaskInv, Masked, OutermostRestores, MaskRestored, Asking, Outstanding, TicketInv
  <2>3. ASSUME NEW y \in Context PROVE OutermostRestores(y)'
    BY Zenon DEF MaskInv, Masked, OutermostRestores, MayNest, Asking
  <2> QED
    BY <2>1, <2>2, <2>3, Zenon DEF MaskInv
<1>5. MaskRestored'
  BY Zenon DEF MaskInv, Masked, MaskRestored, Asking
<1> QED
  BY <1>1, <1>2, <1>3, <1>4, <1>5, Zenon

\* UnmaskSection keeps the invariant.
LEMMA UnmaskSectionKeeps ==
  ASSUME NEW x \in Context, LockInv, UnmaskSection(x)
  PROVE  LockInv'
<1> USE ContextAssumption, LockOrder
<1> USE DEF LockInv, TypeOK, At, Active, GoTo, words, masks, locals, guards, UnmaskSection
<1>0. \A y \in Context : CpuOf[y] = CpuOf[x] => pc[y] = "run"
  BY Zenon DEF MaskInv, Masked
<1>1. TypeOK'
  BY Zenon DEF Place
<1>2. TicketInv'
  <2>1. \A k \in Lock : nowServing'[k] <= nextTicket'[k]
    BY Zenon DEF TicketInv, Outstanding
  <2>2. ASSUME NEW y \in Context PROVE Outstanding(y)'
    BY <1>0 DEF TicketInv, Outstanding, MayNest
  <2>3. ASSUME NEW y \in Context, NEW z \in Context PROVE Distinct(y, z)'
    BY Zenon DEF TicketInv, Outstanding, Distinct, MutualExclusion, Asking
  <2> QED
    BY <2>1, <2>2, <2>3, Zenon DEF TicketInv
<1>3. MutualExclusion'
  BY Zenon DEF TicketInv, Outstanding, Distinct, MutualExclusion, MayNest, Asking
<1>4. MaskInv'
  <2>1. \A c \in Cpu : inHandler'[c] \/ outer'[c] => ~irq'[c] /\ (inHandler'[c] => ~outer'[c])
    BY DEF MaskInv, Masked
  <2>2. ASSUME NEW y \in Context PROVE Masked(y)'
    BY DEF MaskInv, Masked, OutermostRestores, MaskRestored, Asking, Outstanding, TicketInv
  <2>3. ASSUME NEW y \in Context PROVE OutermostRestores(y)'
    BY Zenon DEF MaskInv, Masked, OutermostRestores, MayNest, Asking
  <2> QED
    BY <2>1, <2>2, <2>3, Zenon DEF MaskInv
<1>5. MaskRestored'
  BY Zenon DEF MaskInv, Masked, MaskRestored, Asking
<1> QED
  BY <1>1, <1>2, <1>3, <1>4, <1>5, Zenon

\* Interrupt keeps the invariant.
LEMMA InterruptKeeps ==
  ASSUME NEW x \in Context, LockInv, Interrupt(x)
  PROVE  LockInv'
<1> USE ContextAssumption, LockOrder
<1> USE DEF LockInv, TypeOK, At, Active, GoTo, words, masks, locals, guards, Interrupt
<1>1. TypeOK'
  BY Zenon DEF Place
<1>2. TicketInv'
  <2>1. \A k \in Lock : nowServing'[k] <= nextTicket'[k]
    BY Zenon DEF TicketInv, Outstanding
  <2>2. ASSUME NEW y \in Context PROVE Outstanding(y)'
    BY Zenon DEF TicketInv, Outstanding, Distinct, MutualExclusion, MayNest, Asking
  <2>3. ASSUME NEW y \in Context, NEW z \in Context PROVE Distinct(y, z)'
    BY Zenon DEF TicketInv, Outstanding, Distinct, MutualExclusion, Asking
  <2> QED
    BY <2>1, <2>2, <2>3, Zenon DEF TicketInv
<1>3. MutualExclusion'
  BY Zenon DEF TicketInv, Outstanding, Distinct, MutualExclusion, MayNest, Asking
<1>4. MaskInv'
  <2>1. \A c \in Cpu : inHandler'[c] \/ outer'[c] => ~irq'[c] /\ (inHandler'[c] => ~outer'[c])
    BY DEF MaskInv, Masked
  <2>2. ASSUME NEW y \in Context PROVE Masked(y)'
    BY Zenon DEF MaskInv, Masked, OutermostRestores, MaskRestored, Asking, Outstanding, TicketInv
  <2>3. ASSUME NEW y \in Context PROVE OutermostRestores(y)'
    BY Zenon DEF MaskInv, Masked, OutermostRestores, MayNest, Asking
  <2> QED
    BY <2>1, <2>2, <2>3, Zenon DEF MaskInv
<1>5. MaskRestored'
  BY Zenon DEF MaskInv, Masked, MaskRestored, Asking
<1> QED
  BY <1>1, <1>2, <1>3, <1>4, <1>5, Zenon

\* Return keeps the invariant.
LEMMA ReturnKeeps ==
  ASSUME NEW x \in Context, LockInv, Return(x)
  PROVE  LockInv'
<1> USE ContextAssumption, LockOrder
<1> USE DEF LockInv, TypeOK, At, Active, GoTo, words, masks, locals, guards, Return
<1>1. TypeOK'
  BY Zenon DEF Place
<1>2. TicketInv'
  <2>1. \A k \in Lock : nowServing'[k] <= nextTicket'[k]
    BY Zenon DEF TicketInv, Outstanding
  <2>2. ASSUME NEW y \in Context PROVE Outstanding(y)'
    BY Zenon DEF TicketInv, Outstanding, Distinct, MutualExclusion, MayNest, Asking
  <2>3. ASSUME NEW y \in Context, NEW z \in Context PROVE Distinct(y, z)'
    BY Zenon DEF TicketInv, Outstanding, Distinct, MutualExclusion, Asking
  <2> QED
    BY <2>1, <2>2, <2>3, Zenon DEF TicketInv
<1>3. MutualExclusion'
  BY Zenon DEF TicketInv, Outstanding, Distinct, MutualExclusion, MayNest, Asking
<1>4. MaskInv'
  <2>1. \A c \in Cpu : inHandler'[c] \/ outer'[c] => ~irq'[c] /\ (inHandler'[c] => ~outer'[c])
    BY DEF MaskInv, Masked
  <2>2. ASSUME NEW y \in Context PROVE Masked(y)'
    BY Zenon DEF MaskInv, Masked, OutermostRestores, MaskRestored, Asking, Outstanding, TicketInv
  <2>3. ASSUME NEW y \in Context PROVE OutermostRestores(y)'
    BY Zenon DEF MaskInv, Masked, OutermostRestores, MayNest, Asking
  <2> QED
    BY <2>1, <2>2, <2>3, Zenon DEF MaskInv
<1>5. MaskRestored'
  BY Zenon DEF MaskInv, Masked, MaskRestored, Asking
<1> QED
  BY <1>1, <1>2, <1>3, <1>4, <1>5, Zenon

\* The locks start free, every thread unmasked and no handler running.
LEMMA InitInv == Init => LockInv
<1> SUFFICES ASSUME Init PROVE LockInv
  BY Zenon
<1> USE ContextAssumption DEF Init
<1>1. TypeOK
  BY Zenon DEF TypeOK, Place
<1>2. TicketInv /\ MutualExclusion
  BY DEF TicketInv, Outstanding, Distinct, Asking, MutualExclusion
<1>3. /\ \A c \in Cpu : irq[c] /\ ~inHandler[c] /\ ~outer[c]
      /\ \A x \in Context : /\ CpuOf[x] \in Cpu /\ pc[x] = "run" /\ ~sampled[x]
                            /\ held[x] = {} /\ restore[x] = {}
  BY Zenon
<1> HIDE DEF Init
<1>4. MaskRestored
  BY <1>3, Zenon DEF MaskRestored
<1>5. MaskInv
  BY <1>3, Zenon DEF MaskInv, Masked, OutermostRestores, Asking
<1> QED
  BY <1>1, <1>2, <1>4, <1>5, Zenon DEF LockInv

\* Every step keeps the invariant: one action at a time.
LEMMA NextInv == LockInv /\ [Next]_vars => LockInv'
<1> SUFFICES ASSUME LockInv, [Next]_vars PROVE LockInv'
  BY Zenon
<1>1. CASE UNCHANGED vars
  <2>1. UNCHANGED <<nextTicket, nowServing, irq, inHandler, outer, pc>>
    BY <1>1, Zenon DEF vars, words, masks
  <2>2. UNCHANGED <<want, ticket, seen, sampled, held, restore>>
    BY <1>1, Zenon DEF vars, locals, guards
  <2>3. TypeOK'
    BY <2>1, <2>2, Zenon DEF LockInv, TypeOK
  <2>4. TicketInv'
    BY <2>1, <2>2, Zenon DEF LockInv, TicketInv, Outstanding, Distinct, MayNest
  <2>5. MutualExclusion' /\ MaskRestored'
    BY <2>1, <2>2, Zenon DEF LockInv, MutualExclusion, MaskRestored
  <2>6. MaskInv'
    BY <2>1, <2>2, Zenon DEF LockInv, MaskInv, Masked, OutermostRestores
  <2> QED
    BY <2>3, <2>4, <2>5, <2>6, Zenon DEF LockInv
<1>2. ASSUME NEW x \in Context, Step(x) PROVE LockInv'
  BY <1>2, TakeTicketKeeps, EnterKeeps, TryLoadKeeps, TrySwapKeeps, ReleaseKeeps, EnableKeeps, Zenon DEF Step
<1>3. ASSUME NEW x \in Context, NEW l \in Lock, Mask(x, l) \/ TryMask(x, l) \/ Drop(x, l)
      PROVE  LockInv'
  BY <1>3, MaskFirstKeeps, DropKeeps, Zenon DEF Mask, TryMask
<1>4. ASSUME NEW x \in Context,
             Interrupt(x) \/ Return(x) \/ MaskSection(x) \/ UnmaskSection(x)
      PROVE  LockInv'
  BY <1>4, InterruptKeeps, ReturnKeeps, MaskSectionKeeps, UnmaskSectionKeeps, Zenon
<1> QED
  BY <1>1, <1>2, <1>3, <1>4, Zenon DEF Next, Spin

\* The inductive invariant of the ticket lock, for any processors and locks.
THEOREM LockInvariant == Spec => []LockInv
BY InitInv, NextInv, PTL DEF Spec

\* Two contexts never have a guard of the same Mutex.
THEOREM LockExcludes == Spec => []MutualExclusion
<1>1. LockInv => MutualExclusion
  BY Zenon DEF LockInv
<1> QED
  BY LockInvariant, <1>1, PTL

\* No interrupt is taken over a thread that holds a Mutex or waits for one, so a
\* holder is never descheduled and a handler never waits for its own processor.
THEOREM LockNotPreempted == Spec => []HolderNotPreempted
<1>1. LockInv => HolderNotPreempted
  BY Zenon DEF LockInv, TypeOK, MaskInv, Masked, HolderNotPreempted
<1> QED
  BY LockInvariant, <1>1, PTL

----------------------------------------------------------------------------
(* SleepMutex.                                                             *)

\* t is queued and about to park, or parked, in lock().
Owed(t) == lockPc[t] = "park" \/ (lockPc[t] = "try" /\ parked[t] = "parked")

\* u, dropping its guard, has popped t and not yet woken it.
Bears(u, t) == lockPc[u] = "wake" /\ next[u] = <<t>>

LockPlaces == {"out", "try", "queue", "park", "in", "pop", "wake"}

SleepLockTypeOK ==
  /\ parked \in [Thread -> {"up", "parked"}] /\ wakePending \in [Thread -> BOOLEAN]
  /\ lockHeld \in BOOLEAN /\ waiters \in Seq(Thread)
  /\ lockPc \in [Thread -> LockPlaces] /\ next \in [Thread -> Seq(Thread)]

HeldByOne ==
  /\ \A t, u \in Thread : lockPc[t] = "in" /\ lockPc[u] = "in" => t = u
  /\ lockHeld <=> \E t \in Thread : lockPc[t] = "in"

InLine(t) == \E i \in DOMAIN waiters : waiters[i] = t

\* A wake owed to a waiter is in one place: in the queue, with the one that popped it,
\* or recorded; and only a waiter is owed one.
WakeInOnePlace ==
  /\ \A i, j \in DOMAIN waiters : waiters[i] = waiters[j] => i = j
  /\ \A u \in Thread : lockPc[u] = "wake" => \E t \in Thread : next[u] = <<t>>
  /\ \A t \in Thread :
        /\ InLine(t) => Owed(t) /\ ~wakePending[t]
        /\ \A u \in Thread : Bears(u, t) =>
              /\ Owed(t) /\ ~wakePending[t] /\ ~InLine(t)
              /\ \A v \in Thread : Bears(v, t) => u = v
        /\ wakePending[t] => lockPc[t] = "park" /\ parked[t] = "up"
        /\ parked[t] = "parked" => lockPc[t] = "try"
        /\ Owed(t) /\ ~wakePending[t] => InLine(t) \/ \E u \in Thread : Bears(u, t)

\* A queue that is not empty has somebody on the way to it.
QueueServed == waiters # << >> => WakeComing

SleepLockInv == SleepLockTypeOK /\ HeldByOne /\ WakeInOnePlace /\ QueueServed

\* Whoever joins the list stands in it once.
LEMMA JoinsLine ==
  ASSUME NEW t \in Thread, waiters \in Seq(Thread), waiters' = Append(waiters, t), ~InLine(t),
         \A i, j \in DOMAIN waiters : waiters[i] = waiters[j] => i = j
  PROVE  /\ \A x \in Thread : InLine(x)' <=> InLine(x) \/ x = t
         /\ \A i, j \in DOMAIN waiters' : waiters'[i] = waiters'[j] => i = j
<1>1. /\ Len(waiters) \in Nat /\ DOMAIN waiters = 1 .. Len(waiters)
      /\ DOMAIN waiters' = 1 .. (Len(waiters) + 1)
      /\ \A i \in DOMAIN waiters : waiters'[i] = waiters[i]
      /\ waiters'[Len(waiters) + 1] = t
  OBVIOUS
<1>2. \A i \in DOMAIN waiters' : i \in DOMAIN waiters \/ i = Len(waiters) + 1
  BY <1>1
<1>3. DOMAIN waiters \subseteq DOMAIN waiters' /\ Len(waiters) + 1 \in DOMAIN waiters'
  BY <1>1
<1>4. \A x \in Thread : InLine(x)' <=> InLine(x) \/ x = t
  BY <1>1, <1>2, <1>3, Zenon DEF InLine
<1>5. ASSUME NEW i \in DOMAIN waiters', NEW j \in DOMAIN waiters', waiters'[i] = waiters'[j]
      PROVE  i = j
  <2>1. \A k \in DOMAIN waiters : waiters'[k] # t
    BY <1>1, Zenon DEF InLine
  <2> QED
    BY <1>1, <1>2, <1>5, <2>1, Zenon
<1> QED
  BY <1>4, <1>5, Zenon

\* A step that leaves the list and the wakes alone, and nobody's place in them.
LEMMA WakesUnmoved ==
  ASSUME WakeInOnePlace, UNCHANGED <<waiters, next, parking>>,
         \A x \in Thread : Owed(x)' <=> Owed(x),
         \A x \in Thread : lockPc'[x] = "wake" <=> lockPc[x] = "wake",
         \A x \in Thread : lockPc'[x] = "park" <=> lockPc[x] = "park",
         \A x \in Thread : parked[x] = "parked" /\ lockPc[x] = "try" => lockPc'[x] = "try"
  PROVE  WakeInOnePlace'
<1>1. \A x \in Thread : InLine(x)' <=> InLine(x)
  BY Zenon DEF InLine
<1>2. \A u, x \in Thread : Bears(u, x)' <=> Bears(u, x)
  BY Zenon DEF Bears
<1> QED
  BY <1>1, <1>2 DEF WakeInOnePlace, parking

\* A call begins with nothing owed.
LEMMA LockBeginKeeps ==
  ASSUME SleepLockInv, NEW t \in Thread, LockBegin(t)
  PROVE  SleepLockInv'
<1> USE DEF SleepLockInv, LockBegin, Locking, LockGoTo, parking
<1>1. SleepLockTypeOK'
  BY Zenon DEF SleepLockTypeOK, LockPlaces
<1>2. HeldByOne'
  BY Zenon DEF SleepLockTypeOK, HeldByOne
<1>3. WakeInOnePlace'
  <2>1. \A x \in Thread : Owed(x)' <=> Owed(x)
    BY Zenon DEF SleepLockTypeOK, Owed
  <2>2. /\ \A x \in Thread : lockPc'[x] = "wake" <=> lockPc[x] = "wake"
        /\ \A x \in Thread : lockPc'[x] = "park" <=> lockPc[x] = "park"
        /\ \A x \in Thread : parked[x] = "parked" /\ lockPc[x] = "try" => lockPc'[x] = "try"
    BY Zenon DEF SleepLockTypeOK
  <2> QED
    BY <2>1, <2>2, WakesUnmoved, Zenon
<1>4. QueueServed'
  BY DEF SleepLockTypeOK, QueueServed, WakeComing, HeldByOne, WakeInOnePlace, Owed
<1> QED
  BY <1>1, <1>2, <1>3, <1>4, Zenon

\* take() succeeds for one, and the others go on to queue or spin.
LEMMA LockTryKeeps ==
  ASSUME SleepLockInv, NEW t \in Thread, LockTry(t)
  PROVE  SleepLockInv'
<1> USE DEF SleepLockInv, LockTry, Locking, LockGoTo, parking
<1>1. SleepLockTypeOK'
  BY Zenon DEF SleepLockTypeOK, LockPlaces
<1>2. HeldByOne'
  BY Zenon DEF SleepLockTypeOK, HeldByOne
<1>3. WakeInOnePlace'
  <2>1. \A x \in Thread : Owed(x)' <=> Owed(x)
    BY Zenon DEF SleepLockTypeOK, Owed
  <2>2. /\ \A x \in Thread : lockPc'[x] = "wake" <=> lockPc[x] = "wake"
        /\ \A x \in Thread : lockPc'[x] = "park" <=> lockPc[x] = "park"
        /\ \A x \in Thread : parked[x] = "parked" /\ lockPc[x] = "try" => lockPc'[x] = "try"
    BY Zenon DEF SleepLockTypeOK
  <2> QED
    BY <2>1, <2>2, WakesUnmoved, Zenon
<1>4. QueueServed'
  BY Zenon DEF SleepLockTypeOK, QueueServed, WakeComing, HeldByOne, WakeInOnePlace, Owed
<1> QED
  BY <1>1, <1>2, <1>3, <1>4, Zenon

\* A thread that finds the lock taken again joins the queue while the holder is still to pop.
LEMMA LockQueueKeeps ==
  ASSUME SleepLockInv, NEW t \in Thread, LockQueue(t)
  PROVE  SleepLockInv'
<1> USE DEF SleepLockInv, LockQueue, Locking, LockGoTo, parking
<1>1. SleepLockTypeOK'
  <2>1. waiters' \in Seq(Thread)
    <3>1. waiters \in Seq(Thread) /\ waiters' \in {waiters, Append(waiters, t)}
      BY Zenon DEF SleepLockTypeOK
    <3> QED
      BY <3>1
  <2>2. lockPc' \in [Thread -> LockPlaces]
    BY Zenon DEF SleepLockTypeOK, LockPlaces
  <2> QED
    BY <2>1, <2>2, Zenon DEF SleepLockTypeOK
<1>2. HeldByOne'
  BY Zenon DEF SleepLockTypeOK, HeldByOne
<1>3. WakeInOnePlace'
  <2>1. CASE ~lockHeld
    <3>1. \A x \in Thread : Owed(x)' <=> Owed(x)
      BY <2>1, Zenon DEF SleepLockTypeOK, Owed
    <3>2. /\ \A x \in Thread : lockPc'[x] = "wake" <=> lockPc[x] = "wake"
          /\ \A x \in Thread : lockPc'[x] = "park" <=> lockPc[x] = "park"
          /\ \A x \in Thread : parked[x] = "parked" /\ lockPc[x] = "try" => lockPc'[x] = "try"
      BY <2>1, Zenon DEF SleepLockTypeOK
    <3> QED
      BY <2>1, <3>1, <3>2, WakesUnmoved, Zenon
  <2>2. CASE lockHeld
    <3>3. \A x \in Thread : Owed(x)' <=> Owed(x) \/ x = t
      BY <2>2, Zenon DEF SleepLockTypeOK, Owed
    <3>4. \A u, x \in Thread : Bears(u, x)' <=> Bears(u, x)
      BY <2>2, Zenon DEF SleepLockTypeOK, Bears
    <3>5. ~Owed(t) /\ ~wakePending[t] /\ ~InLine(t) /\ \A u \in Thread : ~Bears(u, t)
      BY Zenon DEF WakeInOnePlace, Owed
    <3>6. waiters \in Seq(Thread) /\ waiters' = Append(waiters, t)
      BY <2>2, Zenon DEF SleepLockTypeOK
    <3>2. /\ \A x \in Thread : InLine(x)' <=> InLine(x) \/ x = t
          /\ \A i, j \in DOMAIN waiters' : waiters'[i] = waiters'[j] => i = j
      BY <3>5, <3>6, JoinsLine, Zenon DEF WakeInOnePlace
    <3>7. \A x \in Thread : lockPc'[x] = (IF x = t THEN "park" ELSE lockPc[x])
      BY <2>2, Zenon DEF SleepLockTypeOK
    <3>8. WakeInOnePlace /\ next' = next /\ parked' = parked /\ wakePending' = wakePending
          /\ lockPc[t] = "queue" /\ parked[t] = "up"
      BY Zenon
    <3> HIDE DEF SleepLockInv, LockQueue, Locking, LockGoTo
    <3>9. \A u \in Thread : lockPc'[u] = "wake" => \E x \in Thread : next'[u] = <<x>>
      BY <3>7, <3>8, Zenon DEF WakeInOnePlace
    <3>10. \A x \in Thread : /\ wakePending'[x] => lockPc'[x] = "park" /\ parked'[x] = "up"
                             /\ parked'[x] = "parked" => lockPc'[x] = "try"
      BY <3>5, <3>7, <3>8, Zenon DEF WakeInOnePlace
    <3>a. ASSUME NEW x \in Thread
         PROVE  /\ InLine(x)' => Owed(x)' /\ ~wakePending'[x]
                /\ \A u \in Thread : Bears(u, x)' =>
                      /\ Owed(x)' /\ ~wakePending'[x] /\ ~InLine(x)'
                      /\ \A v \in Thread : Bears(v, x)' => u = v
                /\ Owed(x)' /\ ~wakePending'[x] => InLine(x)' \/ \E u \in Thread : Bears(u, x)'
      <4>1. /\ InLine(x) => Owed(x) /\ ~wakePending[x]
            /\ \A u \in Thread : Bears(u, x) =>
                  /\ Owed(x) /\ ~wakePending[x] /\ ~InLine(x)
                  /\ \A v \in Thread : Bears(v, x) => u = v
            /\ Owed(x) /\ ~wakePending[x] => InLine(x) \/ \E u \in Thread : Bears(u, x)
        BY <3>8, Zenon DEF WakeInOnePlace
      <4> QED
        BY <3>2, <3>3, <3>4, <3>5, <3>8, <4>1, Zenon
    <3> QED
      BY <3>2, <3>9, <3>10, <3>a, Zenon DEF WakeInOnePlace
  <2> QED
    BY <2>1, <2>2, Zenon
<1>4. QueueServed'
  BY Zenon DEF SleepLockTypeOK, QueueServed, WakeComing, HeldByOne, WakeInOnePlace, Owed
<1> QED
  BY <1>1, <1>2, <1>3, <1>4, Zenon

\* Parking moves nothing: a wake that came first is consumed.
LEMMA LockParkKeeps ==
  ASSUME SleepLockInv, NEW t \in Thread, LockPark(t)
  PROVE  SleepLockInv'
<1> USE DEF SleepLockInv, LockPark, Locking, LockGoTo, parking, BlockCurrent
<1>1. SleepLockTypeOK'
  BY Zenon DEF SleepLockTypeOK, LockPlaces
<1>2. HeldByOne'
  BY Zenon DEF SleepLockTypeOK, HeldByOne
<1>3. WakeInOnePlace'
  <2>1. \A x \in Thread : InLine(x)' <=> InLine(x)
    BY Zenon DEF InLine
  <2>2. \A x \in Thread : Owed(x)' <=> Owed(x) /\ (x = t => ~wakePending[t])
    BY Zenon DEF SleepLockTypeOK, Owed
  <2>3. \A u, x \in Thread : Bears(u, x)' <=> Bears(u, x)
    BY Zenon DEF SleepLockTypeOK, Bears
  <2>4. /\ \A x \in Thread : lockPc'[x] = "wake" <=> lockPc[x] = "wake"
        /\ \A x \in Thread : wakePending'[x] <=> wakePending[x] /\ x # t
        /\ \A x \in Thread : wakePending'[x] => lockPc'[x] = "park" /\ parked'[x] = "up"
        /\ \A x \in Thread : parked'[x] = "parked" => lockPc'[x] = "try"
    BY DEF SleepLockTypeOK, WakeInOnePlace
  <2>5. Owed(t)
    BY Zenon DEF Owed
  <2>6. WakeInOnePlace /\ UNCHANGED <<waiters, next>>
    BY Zenon
  <2> HIDE DEF SleepLockInv, LockPark, Locking, LockGoTo, BlockCurrent
  <2>7. /\ \A i, j \in DOMAIN waiters' : waiters'[i] = waiters'[j] => i = j
        /\ \A u \in Thread : lockPc'[u] = "wake" => \E x \in Thread : next'[u] = <<x>>
    BY <2>4, <2>6, Zenon DEF WakeInOnePlace
  <2>a. ASSUME NEW x \in Thread
       PROVE  /\ InLine(x)' => Owed(x)' /\ ~wakePending'[x]
              /\ \A u \in Thread : Bears(u, x)' =>
                    /\ Owed(x)' /\ ~wakePending'[x] /\ ~InLine(x)'
                    /\ \A v \in Thread : Bears(v, x)' => u = v
              /\ Owed(x)' /\ ~wakePending'[x] => InLine(x)' \/ \E u \in Thread : Bears(u, x)'
    <3>1. /\ InLine(x) => Owed(x) /\ ~wakePending[x]
          /\ \A u \in Thread : Bears(u, x) =>
                /\ Owed(x) /\ ~wakePending[x] /\ ~InLine(x)
                /\ \A v \in Thread : Bears(v, x) => u = v
          /\ Owed(x) /\ ~wakePending[x] => InLine(x) \/ \E u \in Thread : Bears(u, x)
      BY <2>6, Zenon DEF WakeInOnePlace
    <3> QED
      BY <2>1, <2>2, <2>3, <2>4, <2>5, <3>1, Zenon
  <2> QED
    BY <2>4, <2>7, <2>a, Zenon DEF WakeInOnePlace
<1>4. QueueServed'
  BY DEF SleepLockTypeOK, QueueServed, WakeComing, HeldByOne, WakeInOnePlace, Owed
<1> QED
  BY <1>1, <1>2, <1>3, <1>4, Zenon

\* The thread that frees the lock is the next to look at the queue.
LEMMA DropFreeKeeps ==
  ASSUME SleepLockInv, NEW t \in Thread, DropFree(t)
  PROVE  SleepLockInv'
<1> USE DEF SleepLockInv, DropFree, Locking, LockGoTo, parking
<1>1. SleepLockTypeOK'
  BY Zenon DEF SleepLockTypeOK, LockPlaces
<1>2. HeldByOne'
  BY Zenon DEF SleepLockTypeOK, HeldByOne
<1>3. WakeInOnePlace'
  <2>1. \A x \in Thread : Owed(x)' <=> Owed(x)
    BY Zenon DEF SleepLockTypeOK, Owed
  <2>2. /\ \A x \in Thread : lockPc'[x] = "wake" <=> lockPc[x] = "wake"
        /\ \A x \in Thread : lockPc'[x] = "park" <=> lockPc[x] = "park"
        /\ \A x \in Thread : parked[x] = "parked" /\ lockPc[x] = "try" => lockPc'[x] = "try"
    BY Zenon DEF SleepLockTypeOK
  <2> QED
    BY <2>1, <2>2, WakesUnmoved, Zenon
<1>4. QueueServed'
  BY DEF SleepLockTypeOK, QueueServed, WakeComing, HeldByOne, WakeInOnePlace, Owed
<1> QED
  BY <1>1, <1>2, <1>3, <1>4, Zenon

\* The first waiter leaves the queue for the hands of the one that popped it.
LEMMA PoppedKeeps ==
  ASSUME SleepLockInv, NEW t \in Thread, DropPop(t)
  PROVE  SleepLockInv'
<1> USE DEF SleepLockInv, DropPop, Locking, LockGoTo, parking
<1>1. SleepLockTypeOK'
  <2>1. waiters' \in Seq(Thread) /\ next' \in [Thread -> Seq(Thread)]
    <3>1. CASE waiters = << >>
      BY <3>1, Zenon DEF SleepLockTypeOK
    <3>2. CASE waiters # << >>
      <4>1. Head(waiters) \in Thread /\ Tail(waiters) \in Seq(Thread)
        BY <3>2 DEF SleepLockTypeOK
      <4>2. <<Head(waiters)>> \in Seq(Thread)
        BY <4>1
      <4>3. waiters' = Tail(waiters) /\ next' = [next EXCEPT ![t] = <<Head(waiters)>>]
        BY <3>2, Zenon
      <4> QED
        BY <4>1, <4>2, <4>3, Zenon DEF SleepLockTypeOK
    <3> QED
      BY <3>1, <3>2, Zenon
  <2>2. lockPc' \in [Thread -> LockPlaces]
    BY Zenon DEF SleepLockTypeOK, LockPlaces
  <2> QED
    BY <2>1, <2>2, Zenon DEF SleepLockTypeOK
<1>2. HeldByOne'
  <2>1. \A x \in Thread : lockPc'[x] = "in" <=> lockPc[x] = "in"
    BY Zenon DEF SleepLockTypeOK
  <2> QED
    BY <2>1, Zenon DEF HeldByOne
<1>3. WakeInOnePlace'
  <2>1. CASE waiters = << >>
    <3>1. \A x \in Thread : Owed(x)' <=> Owed(x)
      BY <2>1, Zenon DEF SleepLockTypeOK, Owed
    <3>2. /\ \A x \in Thread : lockPc'[x] = "wake" <=> lockPc[x] = "wake"
          /\ \A x \in Thread : lockPc'[x] = "park" <=> lockPc[x] = "park"
          /\ \A x \in Thread : parked[x] = "parked" /\ lockPc[x] = "try" => lockPc'[x] = "try"
      BY <2>1, Zenon DEF SleepLockTypeOK
    <3> QED
      BY <2>1, <3>1, <3>2, WakesUnmoved, Zenon
  <2>2. CASE waiters # << >>
    <3> DEFINE h == Head(waiters)
    <3>1. /\ Len(waiters) \in Nat \ {0} /\ DOMAIN waiters = 1 .. Len(waiters)
          /\ DOMAIN waiters' = 1 .. (Len(waiters) - 1)
          /\ \A i \in DOMAIN waiters' : waiters'[i] = waiters[i + 1]
          /\ h \in Thread /\ h = waiters[1]
      BY <2>2 DEF SleepLockTypeOK
    <3>2. next'[t] = <<h>> /\ \A u \in Thread : u # t => next'[u] = next[u]
      BY <2>2, Zenon DEF SleepLockTypeOK
    <3>3. \A x \in Thread : lockPc'[x] = (IF x = t THEN "wake" ELSE lockPc[x])
      BY <2>2, Zenon DEF SleepLockTypeOK
    <3> HIDE DEF h
    <3>4. \A i, j \in DOMAIN waiters' : waiters'[i] = waiters'[j] => i = j
      BY <3>1 DEF WakeInOnePlace
    <3>5. \A x \in Thread : InLine(x)' <=> InLine(x) /\ x # h
      <4>1. ASSUME NEW x \in Thread, InLine(x)' PROVE InLine(x) /\ x # h
        <5>1. PICK i \in DOMAIN waiters' : waiters'[i] = x
          BY <4>1, Zenon DEF InLine
        <5>2. i + 1 \in DOMAIN waiters /\ waiters[i + 1] = x /\ i + 1 # 1 /\ 1 \in DOMAIN waiters
          BY <3>1, <5>1
        <5> QED
          BY <3>1, <5>2, Zenon DEF WakeInOnePlace, InLine
      <4>2. ASSUME NEW x \in Thread, InLine(x), x # h PROVE InLine(x)'
        <5>1. PICK i \in DOMAIN waiters : waiters[i] = x
          BY <4>2, Zenon DEF InLine
        <5>2. i - 1 \in DOMAIN waiters' /\ waiters'[i - 1] = x
          BY <3>1, <4>2, <5>1
        <5> QED
          BY <5>2, Zenon DEF InLine
      <4> QED
        BY <4>1, <4>2, Zenon
    <3>6. \A x \in Thread : Owed(x)' <=> Owed(x)
      BY <3>3, Zenon DEF Owed
    <3>7. \A u, x \in Thread : Bears(u, x)' <=> Bears(u, x) \/ (u = t /\ x = h)
      BY <3>2, <3>3 DEF Bears
    <3>8. InLine(h) /\ \A u \in Thread : ~Bears(u, h)
      BY <3>1 DEF InLine, WakeInOnePlace
    <3> QED
      BY <3>1, <3>2, <3>3, <3>4, <3>5, <3>6, <3>7, <3>8 DEF WakeInOnePlace
  <2> QED
    BY <2>1, <2>2, Zenon
<1>4. QueueServed'
  BY DEF SleepLockTypeOK, QueueServed, WakeComing, HeldByOne, WakeInOnePlace, Owed
<1> QED
  BY <1>1, <1>2, <1>3, <1>4, Zenon

\* The wake reaches the waiter, which is parked or about to be, and it tries.
LEMMA DropWakeKeeps ==
  ASSUME SleepLockInv, NEW t \in Thread, DropWake(t)
  PROVE  SleepLockInv'
<1> USE DEF SleepLockInv, DropWake, Locking, LockGoTo, parking, Unblock
<1>0. PICK b \in Thread : next[t] = <<b>>
  BY Zenon DEF WakeInOnePlace
<1>b. Bears(t, b) /\ Owed(b) /\ ~wakePending[b] /\ ~InLine(b) /\ b # t
  <2>1. Bears(t, b)
    BY <1>0, Zenon DEF Bears
  <2> QED
    BY <2>1, Zenon DEF WakeInOnePlace, Owed
<1>1. SleepLockTypeOK'
  <2>1. parked' \in [Thread -> {"up", "parked"}]
    BY <1>0, Zenon DEF SleepLockTypeOK
  <2>2. wakePending' \in [Thread -> BOOLEAN]
    BY <1>0, Zenon DEF SleepLockTypeOK
  <2>3. lockPc' \in [Thread -> LockPlaces]
    BY Zenon DEF SleepLockTypeOK, LockPlaces
  <2>4. next' \in [Thread -> Seq(Thread)]
    BY DEF SleepLockTypeOK
  <2> QED
    BY <2>1, <2>2, <2>3, <2>4, Zenon DEF SleepLockTypeOK
<1>2. HeldByOne'
  BY Zenon DEF SleepLockTypeOK, HeldByOne
<1>3. WakeInOnePlace'
  <2>1. \A x \in Thread : InLine(x)' <=> InLine(x)
    BY Zenon DEF InLine
  <2>2. \A u, x \in Thread : Bears(u, x)' <=> Bears(u, x) /\ u # t
    BY Zenon DEF SleepLockTypeOK, Bears
  <2>3. \A x \in Thread : lockPc'[x] = (IF x = t THEN "out" ELSE lockPc[x])
    BY Zenon DEF SleepLockTypeOK
  <2>4. \A x \in Thread : x # b => parked'[x] = parked[x] /\ (wakePending'[x] <=> wakePending[x])
    BY <1>0 DEF SleepLockTypeOK
  <2>5. /\ parked'[b] = "up"
        /\ wakePending'[b] <=> parked[b] = "up"
    BY <1>0, <1>b DEF SleepLockTypeOK
  <2>6. \A x \in Thread : Owed(x)' <=> Owed(x) /\ (x = b => wakePending'[b])
    <3>1. lockPc[b] = "park" <=> parked[b] = "up"
      BY <1>b, Zenon DEF SleepLockTypeOK, WakeInOnePlace, Owed
    <3>2. Owed(b)' <=> wakePending'[b]
      BY <1>b, <2>3, <2>5, <3>1, Zenon DEF Owed
    <3>3. ASSUME NEW x \in Thread, x # b PROVE Owed(x)' <=> Owed(x)
      BY <2>3, <2>4, <3>3, Zenon DEF Owed, SleepLockTypeOK
    <3> QED
      BY <1>b, <3>2, <3>3, Zenon
  <2>7. \A u \in Thread : u # t => next'[u] = next[u]
    BY Zenon DEF SleepLockTypeOK
  <2>8. \A x \in Thread : /\ wakePending'[x] => lockPc'[x] = "park" /\ parked'[x] = "up"
                          /\ parked'[x] = "parked" => lockPc'[x] = "try"
    <3>1. ASSUME NEW x \in Thread, x # b
          PROVE  /\ wakePending'[x] => lockPc'[x] = "park" /\ parked'[x] = "up"
                 /\ parked'[x] = "parked" => lockPc'[x] = "try"
      BY <2>3, <2>4, <3>1 DEF WakeInOnePlace
    <3>2. wakePending'[b] => lockPc'[b] = "park"
      BY <1>b, <2>3, <2>5, Zenon DEF Owed
    <3> QED
      BY <2>5, <3>1, <3>2, Zenon
  <2>9. \A x \in Thread : InLine(x) \/ (\E u \in Thread : u # t /\ Bears(u, x)) => x # b
    BY <1>b DEF WakeInOnePlace
  <2>10. \A i, j \in DOMAIN waiters' : waiters'[i] = waiters'[j] => i = j
    BY Zenon DEF WakeInOnePlace
  <2>11. \A u \in Thread : lockPc'[u] = "wake" => \E x \in Thread : next'[u] = <<x>>
    BY <2>3, <2>7 DEF WakeInOnePlace
  <2>12. ASSUME NEW x \in Thread
         PROVE  /\ InLine(x)' => Owed(x)' /\ ~wakePending'[x]
                /\ \A u \in Thread : Bears(u, x)' =>
                      /\ Owed(x)' /\ ~wakePending'[x] /\ ~InLine(x)'
                      /\ \A v \in Thread : Bears(v, x)' => u = v
    <3>1. /\ InLine(x) => Owed(x) /\ ~wakePending[x]
          /\ \A u \in Thread : Bears(u, x) =>
                /\ Owed(x) /\ ~wakePending[x] /\ ~InLine(x)
                /\ \A v \in Thread : Bears(v, x) => u = v
      BY Zenon DEF WakeInOnePlace
    <3> QED
      BY <2>1, <2>2, <2>4, <2>6, <2>9, <3>1, Zenon
  <2>13. ASSUME NEW x \in Thread, Owed(x)', ~wakePending'[x]
         PROVE  InLine(x)' \/ \E u \in Thread : Bears(u, x)'
    <3>1. x # b /\ Owed(x) /\ ~wakePending[x]
      BY <2>4, <2>6, <2>13, Zenon
    <3>2. ~Bears(t, x)
      BY <1>0, <3>1 DEF Bears
    <3> QED
      BY <2>1, <2>2, <3>1, <3>2 DEF WakeInOnePlace
  <2> QED
    BY <2>8, <2>10, <2>11, <2>12, <2>13, Zenon DEF WakeInOnePlace
<1>4. QueueServed'
  <2>1. lockPc'[b] = lockPc[b] /\ parked'[b] = "up" /\ (lockPc[b] = "park" => wakePending'[b])
    BY <1>0, <1>b DEF SleepLockTypeOK, WakeInOnePlace, Owed
  <2> QED
    BY <1>b, <2>1, Zenon DEF QueueServed, WakeComing, Owed
<1> QED
  BY <1>1, <1>2, <1>3, <1>4, Zenon

\* The lock starts in the invariant and no step leaves it.
THEOREM SleepLockInductive == SleepLockSpec => []SleepLockInv
<1>1. ParkingInit /\ SleepLockInit => SleepLockInv
  <2> SUFFICES ASSUME ParkingInit, SleepLockInit PROVE SleepLockInv
    BY Zenon
  <2> USE DEF ParkingInit, SleepLockInit
  <2>1. HeldByOne /\ QueueServed
    BY Zenon DEF HeldByOne, QueueServed
  <2>2. DOMAIN waiters = {}
    OBVIOUS
  <2>3. WakeInOnePlace
    BY <2>2, Zenon DEF WakeInOnePlace, InLine, Owed, Bears
  <2>4. wakePending \in [Thread -> BOOLEAN] /\ lockHeld \in BOOLEAN
    BY Zenon
  <2>5. SleepLockTypeOK
    BY <2>4 DEF SleepLockTypeOK, LockPlaces
  <2> QED
    BY <2>1, <2>3, <2>5, Zenon DEF SleepLockInv
<1>2. SleepLockInv /\ [SleepLockNext]_<<parking, sleepLock>> => SleepLockInv'
  <2> SUFFICES ASSUME SleepLockInv, [SleepLockNext]_<<parking, sleepLock>> PROVE SleepLockInv'
    BY Zenon
  <2>1. CASE SleepLockNext
    BY <2>1, LockBeginKeeps, LockTryKeeps, LockQueueKeeps, LockParkKeeps, DropFreeKeeps, PoppedKeeps,
       DropWakeKeeps, Zenon DEF SleepLockNext, LockStep
  <2>2. CASE UNCHANGED <<parking, sleepLock>>
    <3> USE <2>2 DEF parking, sleepLock, SleepLockInv
    <3>1. SleepLockTypeOK' /\ HeldByOne' /\ QueueServed'
      BY Zenon DEF SleepLockTypeOK, HeldByOne, QueueServed, WakeComing
    <3>2. \A x \in Thread : (InLine(x)' <=> InLine(x)) /\ (Owed(x)' <=> Owed(x))
      BY Zenon DEF InLine, Owed
    <3>3. \A u, x \in Thread : Bears(u, x)' <=> Bears(u, x)
      BY Zenon DEF Bears
    <3>4. WakeInOnePlace'
      BY <3>2, <3>3, Zenon DEF WakeInOnePlace
    <3> QED
      BY <3>1, <3>4, Zenon
  <2> QED
    BY <2>1, <2>2, Zenon
<1> QED
  BY <1>1, <1>2, PTL DEF SleepLockSpec

\* SleepMutex admits one holder, and a release finds whoever is queued, as the comment
\* in lock() says (sync.rs:338), for any number of threads that park nowhere else.
THEOREM NoGapAlone == SleepLockSpec => [](OneHolder /\ NoGap)
<1>1. SleepLockInv => OneHolder /\ NoGap
  <2> SUFFICES ASSUME SleepLockInv, NEW t \in Thread, parked[t] = "parked", lockPc[t] = "try"
               PROVE  WakeComing
    BY Zenon DEF SleepLockInv, HeldByOne, OneHolder, NoGap
  <2>1. InLine(t) \/ \E u \in Thread : Bears(u, t)
    BY Zenon DEF SleepLockInv, WakeInOnePlace, Owed
  <2> QED
    BY <2>1 DEF SleepLockInv, SleepLockTypeOK, InLine, Bears, QueueServed, WakeComing
<1> QED
  BY <1>1, SleepLockInductive, PTL

\* A waiter is in the list of sync.rs once, exactly while lock() has it parked or about
\* to park, and one that is parked is in the list or in the hands of the thread that
\* popped it: no release wakes a thread twice or forgets one.
THEOREM SleepersOwedOnce == SleepLockSpec => []SleepersSound
<1>1. SleepLockInv => SleepersSound
  <2> SUFFICES ASSUME SleepLockInv PROVE SleepersSound
    BY Zenon
  <2>1. OneHolder
    BY Zenon DEF SleepLockInv, HeldByOne, OneHolder
  <2>2. ASSUME NEW t \in Thread, NEW i \in DOMAIN waiters, waiters[i] = t
        PROVE  Owed(t) /\ \A j \in DOMAIN waiters : waiters[j] = t => i = j
    BY <2>2, Zenon DEF SleepLockInv, WakeInOnePlace, InLine
  <2>3. ASSUME NEW t \in Thread, Owed(t), ~wakePending[t]
        PROVE  \/ \E i \in DOMAIN waiters : waiters[i] = t
               \/ \E u \in Thread : lockPc[u] = "wake" /\ next[u] = <<t>>
    BY <2>3, Zenon DEF SleepLockInv, WakeInOnePlace, InLine, Bears
  <2>4. QueuedOnce
    BY <2>2, <2>3, Zenon DEF QueuedOnce, Owed
  <2> QED
    BY <2>1, <2>4, Zenon DEF SleepersSound
<1> QED
  BY <1>1, SleepLockInductive, PTL
=============================================================================
