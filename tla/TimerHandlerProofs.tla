------------------------- MODULE TimerHandlerProofs -------------------------
(***************************************************************************)
(* The wheel and the free list stay intact for any number of timers and    *)
(* slots, any durations and any clock; no timer is passed over and none    *)
(* that was stopped is called back, but for what a call in a callback does *)
(* to the timer the iterator is at.                                        *)
(***************************************************************************)
EXTENDS TimerHandler, TLAPS, WellFoundedInduction, FiniteSetTheorems, SequenceTheorems

-----------------------------------------------------------------------------
(* Sets of numbers. *)
(* A non-empty set of natural numbers has a least element. *)
LEMMA LeastElement ==
  ASSUME NEW S \in SUBSET Nat, NEW e \in S
  PROVE  \E x \in S : \A y \in S : x <= y
  <1>1. IsWellFoundedOn(OpToRel(<, Nat), Nat)
    BY NatLessThanWellFounded
  <1>2. PICK x \in S : \A y \in S : ~(<<y, x>> \in OpToRel(<, Nat))
    BY <1>1, WFMin
  <1>3. \A y \in S : ~(y < x)
    BY <1>2 DEF OpToRel
  <1> QED
    BY <1>3

-----------------------------------------------------------------------------
(* Lists.  x is at or before y in the list q. *)
Before(x, y, q) == \E i \in 1 .. Len(q) : q[i] = y /\ \E j \in 1 .. i : q[j] = x

(* No timer is linked twice. *)
Once(q) == \A i, j \in 1 .. Len(q) : q[i] = q[j] => i = j

(* r is what is left of the first n elements of q: m says which. *)
IsLeft(r, q, n, ts, m) ==
  /\ m \in [1 .. Len(r) -> 1 .. n]
  /\ \A j, k \in 1 .. Len(r) : j < k => m[j] < m[k]
  /\ \A j \in 1 .. Len(r) : r[j] = q[m[j]]
  /\ \A i \in 1 .. n : q[i] \notin ts <=> \E j \in 1 .. Len(r) : m[j] = i

(* One turn of the recursion of Without. *)
Turn(F, q, ts, n) ==
  IF n = 0 THEN <<>>
  ELSE IF q[n] \in ts THEN F[n - 1] ELSE Append(F[n - 1], q[n])

IsKept(F, q, ts, S) ==
  F \in [0 .. Len(q) -> Seq(S)] /\ \A n \in 0 .. Len(q) : F[n] = Turn(F, q, ts, n)

(* The function that Without defines by recursion exists. *)
LEMMA KeptExists ==
  ASSUME NEW S, NEW q \in Seq(S), NEW ts
  PROVE  \E F : IsKept(F, q, ts, S)
  <1> DEFINE Has(m) == \E F \in [0 .. m -> Seq(S)] : \A n \in 0 .. m : F[n] = Turn(F, q, ts, n)
             Bad == {m \in 0 .. Len(q) : ~Has(m)}
  <1>1. Len(q) \in Nat /\ \A i \in 1 .. Len(q) : q[i] \in S
    BY LenProperties, ElementOfSeq
  <1>2. Has(0)
    <2> DEFINE F == [n \in 0 .. 0 |-> <<>>]
    <2>1. F \in [0 .. 0 -> Seq(S)] /\ \A n \in 0 .. 0 : F[n] = <<>> /\ n = 0
      BY EmptySeq
    <2> HIDE DEF F
    <2> QED
      BY <2>1 DEF Turn
  <1>3. ASSUME NEW m \in 0 .. Len(q) - 1, Has(m) PROVE Has(m + 1)
    <2>1. PICK F \in [0 .. m -> Seq(S)] : \A n \in 0 .. m : F[n] = Turn(F, q, ts, n)
      BY <1>3
    <2> DEFINE G == [n \in 0 .. m + 1 |-> IF n <= m THEN F[n] ELSE Turn(F, q, ts, n)]
    <2>2. Turn(F, q, ts, m + 1) \in Seq(S)
      <3>1. m + 1 # 0 /\ (m + 1) - 1 = m /\ F[m] \in Seq(S) /\ q[m + 1] \in S
        BY <1>1
      <3>2. Append(F[m], q[m + 1]) \in Seq(S)
        BY <3>1, AppendProperties
      <3> QED
        BY <3>1, <3>2 DEF Turn
    <2>3. G \in [0 .. m + 1 -> Seq(S)]
      <3>1. ASSUME NEW n \in 0 .. m + 1 PROVE (IF n <= m THEN F[n] ELSE Turn(F, q, ts, n)) \in Seq(S)
        <4>1. CASE n <= m
          BY <4>1
        <4>2. CASE ~(n <= m)
          <5>1. n = m + 1
            BY <4>2
          <5> QED
            BY <5>1, <4>2, <2>2
        <4> QED
          BY <4>1, <4>2
      <3> QED
        BY <3>1
    <2>4. ASSUME NEW n \in 0 .. m + 1 PROVE G[n] = Turn(G, q, ts, n)
      <3>1. G[n] = Turn(F, q, ts, n)
        BY <2>1
      <3>2. CASE n = 0
        BY <3>1, <3>2 DEF Turn
      <3>3. CASE n # 0
        <4>1. n - 1 \in 0 .. m + 1 /\ n - 1 <= m
          BY <3>3
        <4>2. G[n - 1] = F[n - 1]
          BY <4>1
        <4> HIDE DEF G
        <4> QED
          BY <3>1, <3>3, <4>2 DEF Turn
      <3> QED
        BY <3>2, <3>3
    <2> HIDE DEF G
    <2> QED
      BY <2>3, <2>4
  <1> HIDE DEF Has
  <1>4. Bad = {}
    <2> SUFFICES ASSUME NEW b \in Bad PROVE FALSE
      OBVIOUS
    <2>1. Bad \in SUBSET Nat
      BY <1>1
    <2> HIDE DEF Bad
    <2>2. PICK x \in Bad : \A y \in Bad : x <= y
      BY <2>1, LeastElement
    <2>3. x \in 0 .. Len(q) /\ ~Has(x)
      BY <2>2 DEF Bad
    <2>4. x # 0
      BY <2>3, <1>2
    <2>5. x - 1 \in 0 .. Len(q) - 1 /\ ~(x - 1 \in Bad) /\ (x - 1) + 1 = x
      BY <2>2, <2>3, <2>4, <1>1
    <2>6. Has(x - 1)
      BY <2>5, <1>1 DEF Bad
    <2>7. Has((x - 1) + 1)
      BY <1>3, <2>5, <2>6
    <2> QED
      BY <2>3, <2>5, <2>7
  <1>5. Has(Len(q))
    BY <1>1, <1>4
  <1> QED
    BY <1>5 DEF Has, IsKept

(* Hence Without leaves out what it is told to and keeps the order. *)
LEMMA WithoutIsLeft ==
  ASSUME NEW S, NEW q \in Seq(S), NEW ts
  PROVE  Without(q, ts) \in Seq(S) /\ \E m : IsLeft(Without(q, ts), q, Len(q), ts, m)
  <1> DEFINE Body(F) == [n \in 0 .. Len(q) |->
                           IF n = 0 THEN <<>>
                           ELSE IF q[n] \in ts THEN F[n - 1] ELSE Append(F[n - 1], q[n])]
             K == CHOOSE F : F = Body(F)
  <1>1. Without(q, ts) = K[Len(q)]
    BY DEF Without
  <1>2. \E F : F = Body(F)
    <2>1. PICK F : IsKept(F, q, ts, S)
      BY KeptExists
    <2>2. F = Body(F)
      BY <2>1 DEF Turn, IsKept
    <2> QED
      BY <2>2
  <1>3. K = Body(K)
    BY <1>2
  <1> HIDE DEF K
  <1>4. \A n \in 0 .. Len(q) : K[n] = Turn(K, q, ts, n)
    BY <1>3 DEF Turn
  <1> HIDE DEF Body
  <1> DEFINE Good(n) == K[n] \in Seq(S) /\ \E m : IsLeft(K[n], q, n, ts, m)
             Bad == {n \in 0 .. Len(q) : ~Good(n)}
  <1>5. Len(q) \in Nat /\ \A i \in 1 .. Len(q) : q[i] \in S
    BY LenProperties, ElementOfSeq
  <1>6. Good(0)
    <2>1. K[0] = <<>>
      BY <1>4, <1>5 DEF Turn
    <2>2. <<>> \in Seq(S) /\ Len(<<>>) = 0
      BY EmptySeq
    <2>3. IsLeft(<<>>, q, 0, ts, [j \in 1 .. 0 |-> 0])
      BY <2>2 DEF IsLeft
    <2> QED
      BY <2>1, <2>2, <2>3
  <1>7. ASSUME NEW n \in 1 .. Len(q), Good(n - 1) PROVE Good(n)
    <2>1. n \in 0 .. Len(q) /\ n # 0 /\ n - 1 \in Nat /\ q[n] \in S
      BY <1>5
    <2> DEFINE r == K[n - 1]
    <2>2. r \in Seq(S) /\ K[n] = IF q[n] \in ts THEN r ELSE Append(r, q[n])
      BY <1>4, <1>7, <2>1 DEF Turn
    <2>3. PICK m : IsLeft(r, q, n - 1, ts, m)
      BY <1>7
    <2> HIDE DEF r
    <2>4. Len(r) \in Nat
      BY <2>2, LenProperties
    <2>5. CASE q[n] \in ts
      <3>1. m \in [1 .. Len(r) -> 1 .. n]
        BY <2>3, <2>1, <2>4 DEF IsLeft
      <3>2. \A i \in 1 .. n : q[i] \notin ts <=> \E j \in 1 .. Len(r) : m[j] = i
        BY <2>3, <2>1, <2>4, <2>5 DEF IsLeft
      <3>3. IsLeft(r, q, n, ts, m)
        BY <2>3, <3>1, <3>2 DEF IsLeft
      <3> QED
        BY <3>3, <2>2, <2>5
    <2>6. CASE q[n] \notin ts
      <3> DEFINE a == Append(r, q[n])
                 k == [j \in 1 .. Len(r) + 1 |-> IF j <= Len(r) THEN m[j] ELSE n]
      <3>1. a \in Seq(S) /\ Len(a) = Len(r) + 1 /\ a[Len(r) + 1] = q[n]
            /\ \A j \in 1 .. Len(r) : a[j] = r[j]
        BY <2>1, <2>2, AppendProperties
      <3> HIDE DEF a
      <3>2. k \in [1 .. Len(a) -> 1 .. n]
        BY <3>1, <2>1, <2>3, <2>4 DEF IsLeft
      <3>3. \A j \in 1 .. Len(r) : k[j] = m[j] /\ m[j] \in 1 .. n - 1
        BY <2>3, <2>4 DEF IsLeft
      <3>4. k[Len(r) + 1] = n
        BY <2>4
      <3> HIDE DEF k
      <3>5. ASSUME NEW i \in 1 .. Len(a), NEW j \in 1 .. Len(a), i < j PROVE k[i] < k[j]
        <4>1. i \in 1 .. Len(r)
          BY <3>1, <2>4, <3>5
        <4>2. CASE j \in 1 .. Len(r)
          BY <4>1, <4>2, <3>3, <3>5, <2>3 DEF IsLeft
        <4>3. CASE j \notin 1 .. Len(r)
          <5>1. j = Len(r) + 1
            BY <4>3, <3>1, <2>4
          <5> QED
            BY <5>1, <4>1, <3>3, <3>4, <2>1
        <4> QED
          BY <4>2, <4>3
      <3>6. ASSUME NEW j \in 1 .. Len(a) PROVE a[j] = q[k[j]]
        <4>1. CASE j \in 1 .. Len(r)
          BY <4>1, <3>1, <3>3, <2>3 DEF IsLeft
        <4>2. CASE j = Len(r) + 1
          BY <4>2, <3>1, <3>4
        <4> QED
          BY <4>1, <4>2, <3>1, <2>4
      <3>7. ASSUME NEW i \in 1 .. n PROVE q[i] \notin ts <=> \E j \in 1 .. Len(a) : k[j] = i
        <4>1. CASE i = n
          <5>1. Len(r) + 1 \in 1 .. Len(a)
            BY <3>1, <2>4
          <5> QED
            BY <5>1, <4>1, <2>6, <3>4
        <4>2. CASE i # n
          <5>1. i \in 1 .. n - 1
            BY <4>2
          <5>2. q[i] \notin ts <=> \E j \in 1 .. Len(r) : m[j] = i
            BY <5>1, <2>3 DEF IsLeft
          <5>3. ASSUME NEW j \in 1 .. Len(a), k[j] = i PROVE j \in 1 .. Len(r)
            BY <5>3, <4>2, <3>4, <3>1, <2>4
          <5>4. \A j \in 1 .. Len(r) : j \in 1 .. Len(a)
            BY <3>1, <2>4
          <5> QED
            BY <5>2, <5>3, <5>4, <3>3
        <4> QED
          BY <4>1, <4>2
      <3>8. IsLeft(a, q, n, ts, k)
        BY <3>2, <3>5, <3>6, <3>7 DEF IsLeft
      <3> QED
        BY <3>1, <3>8, <2>2, <2>6 DEF a
    <2> QED
      BY <2>5, <2>6
  <1> HIDE DEF Good
  <1>8. Bad = {}
    <2> SUFFICES ASSUME NEW b \in Bad PROVE FALSE
      OBVIOUS
    <2>1. Bad \in SUBSET Nat
      BY <1>5
    <2> HIDE DEF Bad
    <2>2. PICK x \in Bad : \A y \in Bad : x <= y
      BY <2>1, LeastElement
    <2>3. x \in 0 .. Len(q) /\ ~Good(x)
      BY <2>2 DEF Bad
    <2>4. x # 0
      BY <2>3, <1>6
    <2>5. x \in 1 .. Len(q) /\ x - 1 \in 0 .. Len(q) /\ ~(x - 1 \in Bad)
      BY <2>2, <2>3, <2>4, <1>5
    <2>6. Good(x - 1)
      BY <2>5 DEF Bad
    <2> QED
      BY <1>7, <2>3, <2>5, <2>6
  <1>9. Good(Len(q))
    BY <1>5, <1>8
  <1> QED
    BY <1>1, <1>9 DEF Good

(* What the proofs use of Without. *)
LEMMA WithoutProperties ==
  ASSUME NEW S, NEW q \in Seq(S), NEW ts
  PROVE  /\ Without(q, ts) \in Seq(S)
         /\ Once(q) => Once(Without(q, ts))
         /\ \A x : Contains(Without(q, ts), x) <=> Contains(q, x) /\ x \notin ts
         /\ \A x, y : Before(x, y, q) /\ x \notin ts /\ y \notin ts => Before(x, y, Without(q, ts))
  <1> DEFINE r == Without(q, ts)
  <1>1. r \in Seq(S)
    BY WithoutIsLeft
  <1>2. PICK m : IsLeft(r, q, Len(q), ts, m)
    BY WithoutIsLeft
  <1> HIDE DEF r
  <1>3. Len(q) \in Nat /\ Len(r) \in Nat
    BY <1>1, LenProperties
  <1>4. \A j \in 1 .. Len(r) : m[j] \in 1 .. Len(q) /\ r[j] = q[m[j]]
    BY <1>2 DEF IsLeft
  <1>5. \A j, k \in 1 .. Len(r) : j < k => m[j] < m[k]
    BY <1>2 DEF IsLeft
  <1>6. \A i \in 1 .. Len(q) : q[i] \notin ts <=> \E j \in 1 .. Len(r) : m[j] = i
    BY <1>2 DEF IsLeft
  <1>7. Once(q) => Once(r)
    <2> SUFFICES ASSUME Once(q), NEW j \in 1 .. Len(r), NEW k \in 1 .. Len(r), r[j] = r[k]
                 PROVE  j = k
      BY DEF Once
    <2>1. m[j] = m[k]
      BY <1>4 DEF Once
    <2>2. ~(j < k) /\ ~(k < j)
      BY <2>1, <1>4, <1>5, <1>3
    <2> QED
      BY <2>2, <1>3
  <1>8. \A x : Contains(r, x) <=> Contains(q, x) /\ x \notin ts
    BY <1>4, <1>6 DEF Contains
  <1>9. ASSUME NEW x, NEW y, Before(x, y, q), x \notin ts, y \notin ts PROVE Before(x, y, r)
    <2>1. PICK i \in 1 .. Len(q) : q[i] = y /\ \E j \in 1 .. i : q[j] = x
      BY <1>9 DEF Before
    <2>2. PICK j \in 1 .. i : q[j] = x
      BY <2>1
    <2>3. j \in 1 .. Len(q) /\ j <= i
      BY <2>1, <2>2, <1>3
    <2>4. PICK a \in 1 .. Len(r) : m[a] = i
      BY <2>1, <1>6, <1>9
    <2>5. PICK b \in 1 .. Len(r) : m[b] = j
      BY <2>2, <2>3, <1>6, <1>9
    <2>6. ~(a < b)
      BY <2>3, <2>4, <2>5, <1>5
    <2>7. b \in 1 .. a
      BY <2>6, <1>3
    <2>8. r[a] = y /\ r[b] = x
      BY <2>1, <2>2, <2>4, <2>5, <1>4
    <2> QED
      BY <2>7, <2>8 DEF Before
  <1> QED
    BY <1>1, <1>7, <1>8, <1>9 DEF r

(* push_front of a timer that is not in the list. *)
LEMMA PushFront ==
  ASSUME NEW S, NEW q \in Seq(S), NEW t \in S
  PROVE  /\ <<t>> \o q \in Seq(S)
         /\ Once(q) /\ ~Contains(q, t) => Once(<<t>> \o q)
         /\ \A x : Contains(<<t>> \o q, x) <=> x = t \/ Contains(q, x)
         /\ \A x, y : Before(x, y, q) => Before(x, y, <<t>> \o q)
  <1> DEFINE r == <<t>> \o q
  <1>1. <<t>> \in Seq(S) /\ Len(<<t>>) = 1 /\ <<t>>[1] = t /\ Len(q) \in Nat
    BY LenProperties
  <1>2. r \in Seq(S) /\ Len(r) = 1 + Len(q)
        /\ \A i \in 1 .. 1 + Len(q) : r[i] = IF i <= 1 THEN <<t>>[i] ELSE q[i - 1]
    BY <1>1, ConcatProperties
  <1> HIDE DEF r
  <1>3. r[1] = t /\ \A i \in 1 .. Len(q) : i + 1 \in 1 .. Len(r) /\ r[i + 1] = q[i]
    BY <1>1, <1>2
  <1>4. \A i \in 1 .. Len(r) : i = 1 \/ (i - 1 \in 1 .. Len(q) /\ r[i] = q[i - 1])
    BY <1>1, <1>2
  <1>5. 1 \in 1 .. Len(r)
    BY <1>1, <1>2
  <1>6. Once(q) /\ ~Contains(q, t) => Once(r)
    <2> SUFFICES ASSUME Once(q), ~Contains(q, t), NEW i \in 1 .. Len(r), NEW j \in 1 .. Len(r), r[i] = r[j]
                 PROVE  i = j
      BY DEF Once
    <2>1. CASE i = 1 /\ j = 1
      BY <2>1
    <2>2. CASE i # 1 /\ j = 1
      BY <2>2, <1>3, <1>4 DEF Contains
    <2>3. CASE i = 1 /\ j # 1
      BY <2>3, <1>3, <1>4 DEF Contains
    <2>4. CASE i # 1 /\ j # 1
      <3>1. i - 1 = j - 1
        BY <2>4, <1>4 DEF Once
      <3> QED
        BY <3>1, <1>2, <1>1
    <2> QED
      BY <2>1, <2>2, <2>3, <2>4
  <1>7. \A x : Contains(r, x) <=> x = t \/ Contains(q, x)
    BY <1>3, <1>4, <1>5 DEF Contains
  <1>8. ASSUME NEW x, NEW y, Before(x, y, q) PROVE Before(x, y, r)
    <2>1. PICK i \in 1 .. Len(q) : q[i] = y /\ \E j \in 1 .. i : q[j] = x
      BY <1>8 DEF Before
    <2>2. PICK j \in 1 .. i : q[j] = x
      BY <2>1
    <2>3. j \in 1 .. Len(q) /\ j + 1 \in 1 .. i + 1 /\ i + 1 \in 1 .. Len(r)
      BY <2>1, <2>2, <1>1, <1>2
    <2>4. r[i + 1] = y /\ r[j + 1] = x
      BY <2>1, <2>2, <2>3, <1>3
    <2> QED
      BY <2>3, <2>4 DEF Before
  <1> QED
    BY <1>2, <1>6, <1>7, <1>8 DEF r

-----------------------------------------------------------------------------
(* The inductive invariant.  First what holds whatever the callers do. *)

RunningTimers == {t \in Timers : Running(t)}

States == [flag : {"stopped", "running", "expired"}, duration : 0 .. TICKS - 1, timeout : Ticks]

(* Types of everything but the wheel. *)
TimerTypes ==
  /\ cur_time \in Ticks
  /\ timer_list \in 0 .. MaxTimers
  /\ allocated \in [Timers -> BOOLEAN]
  /\ callback \in [Timers -> BOOLEAN]
  /\ state \in [Timers -> States]

StepTypes ==
  /\ step \in [pc : {"idle", "loop", "callback"}, it : Timers \union {None}, timer : Timers \union {None}]
  /\ step.pc = "callback" => step.timer \in Timers

(* Each list holds, once, the running timers of its slot. *)
WheelLists ==
  /\ time_wheel \in [Slots -> Seq(Timers)]
  /\ \A s \in Slots : Once(time_wheel[s])
  /\ \A s \in Slots, t \in Timers :
       Contains(time_wheel[s], t) <=> Running(t) /\ s = Slot(state[t].timeout)

WheelCount == nof_timers_running_ = Cardinality(RunningTimers)

(* The free list holds, once, the created timers without an owner. *)
FreeList ==
  /\ free_list \in Seq(Timers)
  /\ Once(free_list)
  /\ \A t \in Timers : Contains(free_list, t) <=> t <= timer_list /\ ~allocated[t]
  /\ \A t \in Timers : allocated[t] => t <= timer_list
  /\ \A t \in Timers : Running(t) => allocated[t]

TimerInv == TimerTypes /\ StepTypes /\ WheelLists /\ WheelCount /\ FreeList

(* What callers leave to step_all: every running timer has its timeout ahead, and
   inside step_all the timers that are due have not been passed by the iterator,
   except the missed ones; the iterator is at a running timer unless a call touched
   that one; a timer with a callback has an owner.                         *)
Ahead == \A t \in Timers : Running(t) /\ t \notin missed =>
           (state[t].timeout - cur_time) % TICKS \in 1 .. state[t].duration

Due(t) == Running(t) /\ state[t].timeout = Now

DueAfterIterator ==
  step.pc # "idle" =>
    \A t \in Timers : Due(t) /\ t \notin missed =>
      step.it # None /\ Before(step.it, t, time_wheel[Slot(Now)])

IteratorRuns == step.pc # "idle" /\ step.it # None /\ ~meddled => Running(step.it)

CallbackOwned == \A t \in Timers : callback[t] => allocated[t]

CallerInv == Ahead /\ DueAfterIterator /\ IteratorRuns /\ CallbackOwned

-----------------------------------------------------------------------------
(* The clock. *)
LEMMA ClockTypes ==
  ASSUME cur_time \in Ticks
  PROVE  /\ Now \in Ticks /\ Slot(Now) \in Slots
         /\ \A d \in Nat : Plus(cur_time, d) \in Ticks
         /\ \A t \in Ticks : Slot(t) \in Slots
  <1>1. TICKS \in Nat /\ TICKS > 1 /\ WHEEL_SIZE \in Nat /\ WHEEL_SIZE > 0
    BY TimerAssumption
  <1>2. \A n \in Nat : n % TICKS \in 0 .. TICKS - 1
    BY <1>1
  <1>3. \A n \in Nat : n % WHEEL_SIZE \in 0 .. WHEEL_SIZE - 1
    BY <1>1
  <1>4. \A t \in Ticks : t \in Nat
    BY <1>1 DEF Ticks
  <1>5. \A t \in Ticks : Slot(t) \in Slots
    BY <1>3, <1>4 DEF Slot, Slots
  <1>6. \A d \in Nat : Plus(cur_time, d) \in Ticks
    BY <1>2, <1>4 DEF Plus, Ticks
  <1> QED
    BY <1>5, <1>6 DEF Now

(* A timeout d ticks from now is d ticks away. *)
LEMMA DistanceOfPlus ==
  ASSUME NEW c \in Ticks, NEW d \in 0 .. TICKS - 1
  PROVE  (Plus(c, d) - c) % TICKS = d
  <1>1. TICKS \in Nat /\ TICKS > 1
    BY TimerAssumption
  <1>2. c \in Nat /\ c < TICKS /\ d \in Nat /\ d < TICKS
    BY <1>1 DEF Ticks
  <1>3. (c + d) % TICKS = IF c + d < TICKS THEN c + d ELSE c + d - TICKS
    <2>1. CASE c + d < TICKS
      BY <1>1, <1>2, <2>1
    <2>2. CASE ~(c + d < TICKS)
      <3> DEFINE e == c + d - TICKS
      <3>1. e \in Nat /\ e < TICKS /\ c + d = e + TICKS
        BY <1>1, <1>2, <2>2
      <3> HIDE DEF e
      <3>2. (e + TICKS) % TICKS = e
        BY <1>1, <3>1
      <3> QED
        BY <3>1, <3>2, <2>2, <1>1, <1>2
    <2> QED
      BY <2>1, <2>2
  <1>4. CASE c + d < TICKS
    BY <1>1, <1>2, <1>3, <1>4 DEF Plus
  <1>5. CASE ~(c + d < TICKS)
    <2>1. Plus(c, d) - c = d - TICKS
      BY <1>1, <1>2, <1>3, <1>5 DEF Plus
    <2>2. (d - TICKS) % TICKS = d
      BY <1>1, <1>2
    <2> QED
      BY <2>1, <2>2
  <1> QED
    BY <1>4, <1>5

(* When the clock advances, a timeout that is not now comes one tick closer. *)
LEMMA DistanceAfterStep ==
  ASSUME NEW c \in Ticks, NEW u \in Ticks, NEW n \in Nat,
         (u - c) % TICKS \in 1 .. n, u # Plus(c, 1)
  PROVE  (u - Plus(c, 1)) % TICKS \in 1 .. n
  <1>1. TICKS \in Nat /\ TICKS > 1
    BY TimerAssumption
  <1>2. c \in Nat /\ c < TICKS /\ u \in Nat /\ u < TICKS
    BY <1>1 DEF Ticks
  <1>3. ASSUME NEW k \in Ticks PROVE (u - k) % TICKS = IF u >= k THEN u - k ELSE u - k + TICKS
    <2>1. k \in Nat /\ k < TICKS
      BY <1>1 DEF Ticks
    <2>2. CASE u >= k
      BY <1>1, <1>2, <2>1, <2>2
    <2>3. CASE ~(u >= k)
      <3> DEFINE e == u - k + TICKS
      <3>1. e \in Nat /\ e < TICKS /\ u - k = e - TICKS
        BY <1>1, <1>2, <2>1, <2>3
      <3> HIDE DEF e
      <3>2. (e - TICKS) % TICKS = e
        BY <1>1, <3>1
      <3> QED
        BY <3>1, <3>2, <2>3, <1>1, <1>2, <2>1
    <2> QED
      BY <2>2, <2>3
  <1>4. Plus(c, 1) = IF c + 1 = TICKS THEN 0 ELSE c + 1
    <2>1. CASE c + 1 = TICKS
      BY <1>1, <1>2, <2>1 DEF Plus
    <2>2. CASE c + 1 # TICKS
      BY <1>1, <1>2, <2>2 DEF Plus
    <2> QED
      BY <2>1, <2>2
  <1>5. Plus(c, 1) \in Ticks
    BY <1>1, <1>2, <1>4 DEF Ticks
  <1>6. (u - c) % TICKS = IF u >= c THEN u - c ELSE u - c + TICKS
    BY <1>3
  <1>7. (u - Plus(c, 1)) % TICKS = IF u >= Plus(c, 1) THEN u - Plus(c, 1) ELSE u - Plus(c, 1) + TICKS
    BY <1>3, <1>5
  <1> QED
    BY <1>1, <1>2, <1>4, <1>6, <1>7

(* There are finitely many timers. *)
LEMMA TimersFinite ==
  /\ IsFiniteSet(Timers) /\ Cardinality(Timers) = MaxTimers
  /\ \A R \in SUBSET Timers : IsFiniteSet(R) /\ Cardinality(R) \in 0 .. MaxTimers
  <1>1. MaxTimers \in Nat
    BY TimerAssumption
  <1>2. IsFiniteSet(1 .. MaxTimers) /\ Cardinality(1 .. MaxTimers) = MaxTimers
    BY <1>1, FS_Interval
  <1>3. ASSUME NEW R \in SUBSET Timers PROVE IsFiniteSet(R) /\ Cardinality(R) \in 0 .. MaxTimers
    <2>1. IsFiniteSet(R) /\ Cardinality(R) <= Cardinality(1 .. MaxTimers)
      BY <1>2, FS_Subset DEF Timers
    <2>2. Cardinality(R) \in Nat
      BY <2>1, FS_CardinalityType
    <2> QED
      BY <1>1, <1>2, <2>1, <2>2
  <1> QED
    BY <1>2, <1>3 DEF Timers

-----------------------------------------------------------------------------
(* What the operations do to the words and to the lists. *)

KeepsOrder(ts) ==
  \A s \in Slots : \A x, y \in Timers \ ts :
    Before(x, y, time_wheel[s]) => Before(x, y, time_wheel'[s])

(* Timers that are popped from every list that has them. *)
LEMMA PopEffect ==
  ASSUME TimerTypes, WheelLists, NEW ts \in SUBSET RunningTimers,
         time_wheel' = [s \in Slots |-> Without(time_wheel[s], ts)]
  PROVE  /\ time_wheel' \in [Slots -> Seq(Timers)]
         /\ \A s \in Slots : Once(time_wheel'[s])
         /\ \A s \in Slots, t \in Timers :
              Contains(time_wheel'[s], t) <=> Running(t) /\ t \notin ts /\ s = Slot(state[t].timeout)
         /\ KeepsOrder(ts)
  <1>1. ASSUME NEW s \in Slots
        PROVE  /\ time_wheel'[s] \in Seq(Timers) /\ Once(time_wheel'[s])
               /\ \A x : Contains(time_wheel'[s], x) <=> Contains(time_wheel[s], x) /\ x \notin ts
               /\ \A x, y : Before(x, y, time_wheel[s]) /\ x \notin ts /\ y \notin ts
                              => Before(x, y, time_wheel'[s])
    <2>1. time_wheel[s] \in Seq(Timers) /\ Once(time_wheel[s])
      BY DEF WheelLists
    <2>2. time_wheel'[s] = Without(time_wheel[s], ts)
      OBVIOUS
    <2> QED
      BY <2>1, <2>2, WithoutProperties
  <1>2. time_wheel' \in [Slots -> Seq(Timers)]
    BY <1>1
  <1>3. KeepsOrder(ts)
    BY <1>1 DEF KeepsOrder
  <1> QED
    BY <1>1, <1>2, <1>3 DEF WheelLists

LEMMA StopTimersEffect ==
  ASSUME TimerTypes, WheelLists, WheelCount, NEW ts \in SUBSET Timers,
         NEW flag \in {"stopped", "expired"}, StopTimers(ts, flag)
  PROVE  /\ state' \in [Timers -> States]
         /\ WheelLists' /\ WheelCount'
         /\ \A t \in Timers : Running(t)' <=> Running(t) /\ t \notin ts
         /\ \A t \in Timers : /\ state'[t].timeout = state[t].timeout
                              /\ state'[t].duration = state[t].duration
         /\ \A t \in ts : Running(t) => state'[t].flag = flag
         /\ KeepsOrder(ts)
  <1> DEFINE hit == {t \in ts : Running(t)}
  <1>1. hit \in SUBSET RunningTimers
    BY DEF RunningTimers
  <1>2. state' = [t \in Timers |-> IF t \in hit THEN [state[t] EXCEPT !.flag = flag] ELSE state[t]]
        /\ time_wheel' = [s \in Slots |-> Without(time_wheel[s], hit)]
        /\ nof_timers_running_' = nof_timers_running_ - Cardinality(hit)
    BY DEF StopTimers
  <1>3. \A t \in Timers : t \in hit <=> Running(t) /\ t \in ts
    OBVIOUS
  <1> HIDE DEF hit
  <1>4. ASSUME NEW t \in Timers
        PROVE  /\ state'[t] \in States
               /\ state'[t].timeout = state[t].timeout /\ state'[t].duration = state[t].duration
               /\ state'[t].flag = IF t \in hit THEN flag ELSE state[t].flag
    <2>1. state[t] \in States
      BY DEF TimerTypes
    <2>2. state'[t] = IF t \in hit THEN [state[t] EXCEPT !.flag = flag] ELSE state[t]
      BY <1>2
    <2>3. CASE t \in hit
      BY <2>1, <2>2, <2>3 DEF States
    <2>4. CASE t \notin hit
      BY <2>1, <2>2, <2>4
    <2> QED
      BY <2>3, <2>4
  <1>5. state' \in [Timers -> States]
    BY <1>2, <1>4
  <1>6. \A t \in Timers : Running(t)' <=> Running(t) /\ t \notin hit
    BY <1>4 DEF Running
  <1>7. /\ time_wheel' \in [Slots -> Seq(Timers)]
        /\ \A s \in Slots : Once(time_wheel'[s])
        /\ \A s \in Slots, t \in Timers :
             Contains(time_wheel'[s], t) <=> Running(t) /\ t \notin hit /\ s = Slot(state[t].timeout)
        /\ KeepsOrder(hit)
    BY <1>1, <1>2, PopEffect
  <1>8. WheelLists'
    BY <1>4, <1>6, <1>7 DEF WheelLists
  <1>9. WheelCount'
    <2>1. RunningTimers' = RunningTimers \ hit
      BY <1>6 DEF RunningTimers
    <2>2. IsFiniteSet(RunningTimers)
      BY TimersFinite DEF RunningTimers
    <2>3. RunningTimers \cap hit = hit
      BY <1>1
    <2>4. Cardinality(RunningTimers \ hit) = Cardinality(RunningTimers) - Cardinality(hit)
      BY <2>2, <2>3, FS_Difference
    <2> QED
      BY <1>2, <2>1, <2>4 DEF WheelCount
  <1>10. KeepsOrder(ts)
    <2>1. \A x \in Timers \ ts : x \in Timers \ hit
      BY <1>3
    <2> QED
      BY <1>7, <2>1 DEF KeepsOrder
  <1>11. \A t \in ts : Running(t) => state'[t].flag = flag
    BY <1>3, <1>4
  <1>12. \A t \in Timers : Running(t)' <=> Running(t) /\ t \notin ts
    BY <1>3, <1>6
  <1> QED
    BY <1>4, <1>5, <1>8, <1>9, <1>10, <1>11, <1>12

Reset == [flag |-> "stopped", duration |-> 0, timeout |-> 0]

LEMMA DeallocateEffect ==
  ASSUME TimerTypes, WheelLists, WheelCount, NEW t \in Timers, deallocate(t)
  PROVE  /\ state' \in [Timers -> States]
         /\ WheelLists' /\ WheelCount'
         /\ ~Running(t)'
         /\ \A u \in Timers \ {t} : state'[u] = state[u]
         /\ KeepsOrder({t})
  <1> DEFINE hit == {u \in {t} : Running(u)}
  <1>1. hit \in SUBSET RunningTimers
    BY DEF RunningTimers
  <1>2. state' = [state EXCEPT ![t] = Reset]
        /\ time_wheel' = [s \in Slots |-> Without(time_wheel[s], hit)]
        /\ nof_timers_running_' = nof_timers_running_ - (IF Running(t) THEN 1 ELSE 0)
    BY DEF deallocate, Reset
  <1>3. \A u \in Timers : u \in hit <=> Running(u) /\ u = t
    OBVIOUS
  <1> HIDE DEF hit
  <1>4. Reset \in States /\ Reset.flag # "running"
    <2>1. 0 \in 0 .. TICKS - 1 /\ 0 \in Ticks
      BY TimerAssumption DEF Ticks
    <2> QED
      BY <2>1 DEF States, Reset
  <1>5. state' \in [Timers -> States] /\ state'[t] = Reset /\ \A u \in Timers \ {t} : state'[u] = state[u]
    BY <1>2, <1>4 DEF TimerTypes
  <1>6. ~Running(t)'
    BY <1>4, <1>5 DEF Running
  <1>7. \A u \in Timers \ {t} : Running(u)' <=> Running(u)
    BY <1>5 DEF Running
  <1>8. /\ time_wheel' \in [Slots -> Seq(Timers)]
        /\ \A s \in Slots : Once(time_wheel'[s])
        /\ \A s \in Slots, u \in Timers :
             Contains(time_wheel'[s], u) <=> Running(u) /\ u \notin hit /\ s = Slot(state[u].timeout)
        /\ KeepsOrder(hit)
    BY <1>1, <1>2, PopEffect
  <1>9. WheelLists'
    <2>1. ASSUME NEW s \in Slots, NEW u \in Timers
          PROVE  Contains(time_wheel'[s], u) <=> Running(u)' /\ s = Slot(state'[u].timeout)
      <3>1. CASE u = t
        BY <3>1, <1>3, <1>6, <1>8
      <3>2. CASE u # t
        BY <3>2, <1>3, <1>5, <1>7, <1>8
      <3> QED
        BY <3>1, <3>2
    <2> QED
      BY <2>1, <1>8 DEF WheelLists
  <1>10. WheelCount'
    <2>1. RunningTimers' = RunningTimers \ {t}
      BY <1>6, <1>7 DEF RunningTimers
    <2>2. IsFiniteSet(RunningTimers)
      BY TimersFinite DEF RunningTimers
    <2>3. Cardinality(RunningTimers) \in Nat
      BY <2>2, FS_CardinalityType
    <2>4. Cardinality(RunningTimers \ {t}) = IF t \in RunningTimers THEN Cardinality(RunningTimers) - 1
                                                                ELSE Cardinality(RunningTimers)
      BY <2>2, FS_RemoveElement
    <2>5. t \in RunningTimers <=> Running(t)
      BY DEF RunningTimers
    <2> QED
      BY <1>2, <2>1, <2>3, <2>4, <2>5 DEF WheelCount
  <1>11. KeepsOrder({t})
    <2>1. \A x \in Timers \ {t} : x \in Timers \ hit
      BY <1>3
    <2> QED
      BY <1>8, <2>1 DEF KeepsOrder
  <1> QED
    BY <1>5, <1>6, <1>9, <1>10, <1>11

LEMMA StartRunEffect ==
  ASSUME TimerTypes, WheelLists, WheelCount, NEW t \in Timers, NEW d \in 1 .. TICKS - 1, StartRun(t, d)
  PROVE  /\ state' \in [Timers -> States]
         /\ WheelLists' /\ WheelCount'
         /\ state'[t] = [flag |-> "running", duration |-> d, timeout |-> Plus(cur_time, d)]
         /\ \A u \in Timers \ {t} : state'[u] = state[u]
         /\ KeepsOrder({t})
  <1> DEFINE old == Slot(state[t].timeout)
             timeout == Plus(cur_time, d)
             word == [flag |-> "running", duration |-> d, timeout |-> timeout]
             without == [time_wheel EXCEPT ![old] = Without(@, {t})]
             base == IF Running(t) THEN without ELSE time_wheel
             stays == Running(t) /\ old = Slot(timeout)
  <1>1. /\ state' = [state EXCEPT ![t] = word]
        /\ time_wheel' = IF stays THEN time_wheel ELSE [base EXCEPT ![Slot(timeout)] = <<t>> \o @]
        /\ nof_timers_running_' = nof_timers_running_ + (IF Running(t) THEN 0 ELSE 1)
    BY DEF StartRun
  <1>2. timeout \in Ticks /\ Slot(timeout) \in Slots /\ old \in Slots
    <2>1. cur_time \in Ticks /\ d \in Nat /\ state[t].timeout \in Ticks
      BY TimerAssumption DEF TimerTypes, States
    <2> QED
      BY <2>1, ClockTypes
  <1>3. word \in States
    <2>1. d \in 0 .. TICKS - 1
      BY TimerAssumption
    <2> QED
      BY <1>2, <2>1 DEF States
  <1>4. /\ state' \in [Timers -> States] /\ state'[t] = word
        /\ \A u \in Timers \ {t} : state'[u] = state[u]
    BY <1>1, <1>3 DEF TimerTypes
  <1>5. Running(t)' /\ state'[t].timeout = timeout
    BY <1>4 DEF Running
  <1>6. \A u \in Timers \ {t} : (Running(u)' <=> Running(u)) /\ state'[u].timeout = state[u].timeout
    BY <1>4 DEF Running
  <1>7. WheelCount'
    <2>1. RunningTimers' = RunningTimers \cup {t}
      BY <1>5, <1>6 DEF RunningTimers
    <2>2. IsFiniteSet(RunningTimers)
      BY TimersFinite DEF RunningTimers
    <2>3. Cardinality(RunningTimers) \in Nat
      BY <2>2, FS_CardinalityType
    <2>4. Cardinality(RunningTimers \cup {t}) = IF t \in RunningTimers THEN Cardinality(RunningTimers)
                                                                  ELSE Cardinality(RunningTimers) + 1
      BY <2>2, FS_AddElement
    <2>5. t \in RunningTimers <=> Running(t)
      BY DEF RunningTimers
    <2> QED
      BY <1>1, <2>1, <2>3, <2>4, <2>5 DEF WheelCount
  <1>8. time_wheel \in [Slots -> Seq(Timers)]
    BY DEF WheelLists
  <1>9. /\ base \in [Slots -> Seq(Timers)]
        /\ \A s \in Slots : Once(base[s])
        /\ \A s \in Slots : ~stays => ~Contains(base[s], t)
        /\ \A s \in Slots : \A u \in Timers \ {t} : Contains(base[s], u) <=> Contains(time_wheel[s], u)
        /\ \A s \in Slots : \A x, y \in Timers \ {t} :
             Before(x, y, time_wheel[s]) => Before(x, y, base[s])
    <2>1. CASE ~Running(t)
      <3>1. base = time_wheel
        BY <2>1
      <3>2. \A s \in Slots : ~Contains(time_wheel[s], t)
        BY <2>1 DEF WheelLists
      <3> QED
        BY <3>1, <3>2 DEF WheelLists
    <2>2. CASE Running(t)
      <3>1. base = without
        BY <2>2
      <3>2. /\ without[old] = Without(time_wheel[old], {t})
            /\ \A s \in Slots \ {old} : without[s] = time_wheel[s]
        BY <1>2, <1>8
      <3>3. time_wheel[old] \in Seq(Timers) /\ Once(time_wheel[old])
        BY <1>2 DEF WheelLists
      <3>4. /\ without[old] \in Seq(Timers) /\ Once(without[old])
            /\ \A x : Contains(without[old], x) <=> Contains(time_wheel[old], x) /\ x \notin {t}
            /\ \A x, y : Before(x, y, time_wheel[old]) /\ x \notin {t} /\ y \notin {t}
                           => Before(x, y, without[old])
        BY <3>2, <3>3, WithoutProperties
      <3>5. without \in [Slots -> Seq(Timers)]
        BY <3>2, <3>4, <1>2, <1>8
      <3> HIDE DEF without
      <3>6. \A s \in Slots : Once(without[s])
        BY <3>2, <3>4 DEF WheelLists
      <3>7. \A s \in Slots : ~Contains(without[s], t)
        <4> TAKE s \in Slots
        <4>1. CASE s = old
          BY <4>1, <3>4
        <4>2. CASE s # old
          BY <4>2, <3>2 DEF WheelLists
        <4> QED
          BY <4>1, <4>2
      <3>8. \A s \in Slots : \A u \in Timers \ {t} : Contains(without[s], u) <=> Contains(time_wheel[s], u)
        BY <3>2, <3>4
      <3>9. \A s \in Slots : \A x, y \in Timers \ {t} :
              Before(x, y, time_wheel[s]) => Before(x, y, without[s])
        BY <3>2, <3>4
      <3> QED
        BY <3>1, <3>5, <3>6, <3>7, <3>8, <3>9
    <2> QED
      BY <2>1, <2>2
  <1> HIDE DEF base, old, timeout, word
  <1>10. CASE stays
    <2>1. time_wheel' = time_wheel /\ Running(t) /\ old = Slot(timeout)
      BY <1>1, <1>10
    <2>2. ASSUME NEW s \in Slots, NEW u \in Timers
          PROVE  Contains(time_wheel'[s], u) <=> Running(u)' /\ s = Slot(state'[u].timeout)
      <3>1. CASE u = t
        BY <3>1, <2>1, <1>5 DEF WheelLists, old
      <3>2. CASE u # t
        BY <3>2, <2>1, <1>6 DEF WheelLists
      <3> QED
        BY <3>1, <3>2
    <2>3. WheelLists'
      BY <2>1, <2>2 DEF WheelLists
    <2>4. KeepsOrder({t})
      BY <2>1 DEF KeepsOrder
    <2> QED
      BY <2>3, <2>4, <1>4, <1>7 DEF word, timeout
  <1>11. CASE ~stays
    <2> DEFINE p == Slot(timeout)
    <2>1. time_wheel' = [base EXCEPT ![p] = <<t>> \o @]
      BY <1>1, <1>11
    <2>2. p \in Slots
      BY <1>2
    <2> HIDE DEF p
    <2>3. /\ time_wheel'[p] = <<t>> \o base[p]
          /\ \A s \in Slots \ {p} : time_wheel'[s] = base[s]
      BY <2>1, <2>2, <1>9
    <2>4. /\ time_wheel'[p] \in Seq(Timers) /\ Once(time_wheel'[p])
          /\ \A x : Contains(time_wheel'[p], x) <=> x = t \/ Contains(base[p], x)
          /\ \A x, y : Before(x, y, base[p]) => Before(x, y, time_wheel'[p])
      BY <2>2, <2>3, <1>9, <1>11, PushFront
    <2>5. time_wheel' \in [Slots -> Seq(Timers)]
      BY <2>1, <2>3, <2>4, <1>9
    <2>6. ASSUME NEW s \in Slots, NEW u \in Timers
          PROVE  Contains(time_wheel'[s], u) <=> Running(u)' /\ s = Slot(state'[u].timeout)
      <3>1. CASE u = t
        <4>1. Running(u)' /\ Slot(state'[u].timeout) = p
          BY <3>1, <1>5 DEF p
        <4>2. CASE s = p
          BY <3>1, <4>1, <4>2, <2>4
        <4>3. CASE s # p
          BY <3>1, <4>1, <4>3, <2>3, <1>9, <1>11
        <4> QED
          BY <4>2, <4>3
      <3>2. CASE u # t
        <4>1. Contains(time_wheel'[s], u) <=> Contains(base[s], u)
          BY <3>2, <2>3, <2>4
        <4>2. Contains(base[s], u) <=> Contains(time_wheel[s], u)
          BY <3>2, <1>9
        <4> QED
          BY <3>2, <4>1, <4>2, <1>6 DEF WheelLists
      <3> QED
        BY <3>1, <3>2
    <2>7. \A s \in Slots : Once(time_wheel'[s])
      BY <2>3, <2>4, <1>9
    <2>8. WheelLists'
      BY <2>5, <2>6, <2>7 DEF WheelLists
    <2>9. KeepsOrder({t})
      <3> SUFFICES ASSUME NEW s \in Slots, NEW x \in Timers \ {t}, NEW y \in Timers \ {t},
                          Before(x, y, time_wheel[s])
                   PROVE  Before(x, y, time_wheel'[s])
        BY DEF KeepsOrder
      <3>1. Before(x, y, base[s])
        BY <1>9
      <3> QED
        BY <3>1, <2>3, <2>4
    <2> QED
      BY <2>8, <2>9, <1>4, <1>7 DEF word, timeout
  <1> QED
    BY <1>10, <1>11

-----------------------------------------------------------------------------
(* The first part of the invariant holds, whatever the callers do. *)

LEMMA SameWheel ==
  ASSUME WheelLists, WheelCount, UNCHANGED <<state, time_wheel, nof_timers_running_>>
  PROVE  /\ WheelLists' /\ WheelCount'
         /\ \A t \in Timers : Running(t)' <=> Running(t)
  <1>1. \A t \in Timers : Running(t)' <=> Running(t)
    BY DEF Running
  <1>2. RunningTimers' = RunningTimers
    BY <1>1 DEF RunningTimers
  <1> QED
    BY <1>1, <1>2 DEF WheelLists, WheelCount

LEMMA SameFreeList ==
  ASSUME FreeList, UNCHANGED <<timer_list, allocated, free_list>>,
         \A t \in Timers : Running(t)' => Running(t) \/ allocated[t]
  PROVE  FreeList'
  BY DEF FreeList

LEMMA InitInv == TimerInit => TimerInv
  <1> SUFFICES ASSUME TimerInit PROVE TimerInv
    OBVIOUS
  <1>1. MaxTimers \in Nat /\ CAPACITY \in 0 .. MaxTimers /\ TICKS \in Nat /\ TICKS > 1
    BY TimerAssumption
  <1>2. state = [t \in Timers |-> Reset]
    BY DEF TimerInit, Reset
  <1>3. Reset \in States /\ Reset.flag # "running"
    <2>1. 0 \in 0 .. TICKS - 1 /\ 0 \in Ticks
      BY <1>1 DEF Ticks
    <2> QED
      BY <2>1 DEF States, Reset
  <1>4. \A t \in Timers : ~Running(t)
    BY <1>2, <1>3 DEF Running
  <1>5. TimerTypes
    BY <1>1, <1>2, <1>3 DEF TimerTypes, TimerInit, Ticks
  <1>6. StepTypes
    BY DEF StepTypes, TimerInit
  <1>7. WheelLists
    <2>1. time_wheel = [s \in Slots |-> <<>>]
      BY DEF TimerInit
    <2>2. <<>> \in Seq(Timers) /\ Len(<<>>) = 0
      BY EmptySeq
    <2>3. \A s \in Slots : time_wheel[s] = <<>>
      BY <2>1
    <2>4. Once(<<>>) /\ \A t : ~Contains(<<>>, t)
      BY <2>2 DEF Once, Contains
    <2> QED
      BY <2>1, <2>2, <2>3, <2>4, <1>4 DEF WheelLists
  <1>8. WheelCount
    <2>1. RunningTimers = {}
      BY <1>4 DEF RunningTimers
    <2> QED
      BY <2>1, FS_EmptySet DEF WheelCount, TimerInit
  <1>9. FreeList
    <2>1. free_list = [i \in 1 .. CAPACITY |-> i] /\ timer_list = CAPACITY
          /\ \A t \in Timers : ~allocated[t]
      BY DEF TimerInit
    <2>2. CAPACITY \in Nat /\ \A i \in 1 .. CAPACITY : i \in Timers
      BY <1>1 DEF Timers
    <2>3. free_list \in [1 .. CAPACITY -> Timers]
      BY <2>1, <2>2
    <2>4. free_list \in Seq(Timers)
      BY <2>2, <2>3, SeqDef
    <2>5. Len(free_list) = CAPACITY
      BY <2>2, <2>3, <2>4, LenProperties
    <2>6. \A i \in 1 .. Len(free_list) : free_list[i] = i
      BY <2>1, <2>5
    <2>7. Once(free_list)
      BY <2>6 DEF Once
    <2>8. \A t \in Timers : Contains(free_list, t) <=> t <= timer_list
      BY <2>1, <2>2, <2>5, <2>6 DEF Contains, Timers
    <2> QED
      BY <2>1, <2>4, <2>7, <2>8, <1>4 DEF FreeList
  <1> QED
    BY <1>5, <1>6, <1>7, <1>8, <1>9 DEF TimerInv

LEMMA AllocInv ==
  ASSUME TimerInv, alloc_timer
  PROVE  TimerInv'
  <1> USE DEF TimerInv
  <1>1. WheelLists' /\ WheelCount' /\ \A t \in Timers : Running(t)' <=> Running(t)
    BY SameWheel DEF alloc_timer
  <1>2. StepTypes'
    BY DEF StepTypes, alloc_timer
  <1>3. MaxTimers \in Nat /\ timer_list \in 0 .. MaxTimers
    BY TimerAssumption DEF TimerTypes
  <1>4. CASE free_list # <<>>
    <2> DEFINE h == Head(free_list)
               r == Tail(free_list)
    <2>1. allocated' = [allocated EXCEPT ![h] = TRUE] /\ free_list' = r /\ timer_list' = timer_list
      BY <1>4 DEF alloc_timer
    <2>2. free_list \in Seq(Timers) /\ Len(free_list) \in Nat
      BY LenProperties DEF FreeList
    <2>3. /\ h \in Timers /\ r \in Seq(Timers) /\ Len(r) = Len(free_list) - 1
          /\ h = free_list[1] /\ \A i \in 1 .. Len(r) : r[i] = free_list[i + 1]
      BY <1>4, <2>2, HeadTailProperties
    <2>4. Len(free_list) > 0
      BY <1>4, <2>2, EmptySeq
    <2> HIDE DEF h, r
    <2>5. \A i \in 1 .. Len(r) : i + 1 \in 1 .. Len(free_list)
      BY <2>2, <2>3
    <2>6. Once(r)
      <3> SUFFICES ASSUME NEW i \in 1 .. Len(r), NEW j \in 1 .. Len(r), r[i] = r[j] PROVE i = j
        BY DEF Once
      <3>1. i + 1 = j + 1
        BY <2>3, <2>5 DEF FreeList, Once
      <3> QED
        BY <3>1, <2>2, <2>3
    <2>7. ASSUME NEW t \in Timers PROVE Contains(r, t) <=> Contains(free_list, t) /\ t # h
      <3>1. ASSUME NEW i \in 1 .. Len(r), r[i] = t PROVE Contains(free_list, t) /\ t # h
        <4>1. free_list[i + 1] = t /\ i + 1 \in 1 .. Len(free_list) /\ 1 \in 1 .. Len(free_list) /\ i + 1 # 1
          BY <2>2, <2>3, <2>4, <2>5, <3>1
        <4> QED
          BY <4>1, <2>3 DEF Contains, FreeList, Once
      <3>2. ASSUME NEW i \in 1 .. Len(free_list), free_list[i] = t, t # h PROVE Contains(r, t)
        <4>1. i # 1
          BY <3>2, <2>3
        <4>2. i - 1 \in 1 .. Len(r) /\ (i - 1) + 1 = i
          BY <4>1, <2>2, <2>3
        <4> QED
          BY <4>2, <2>3, <3>2 DEF Contains
      <3> QED
        BY <3>1, <3>2 DEF Contains
    <2>8. TimerTypes'
      BY <2>1, <2>3 DEF TimerTypes, alloc_timer
    <2>9. 1 \in 1 .. Len(free_list)
      BY <2>2, <2>4
    <2>10. h <= timer_list
      BY <2>3, <2>9 DEF FreeList, Contains
    <2>11. \A t \in Timers : allocated'[t] <=> allocated[t] \/ t = h
      BY <2>1, <2>3 DEF TimerTypes
    <2>12. FreeList'
      BY <1>1, <2>1, <2>3, <2>6, <2>7, <2>10, <2>11 DEF FreeList
    <2> QED
      BY <1>1, <1>2, <2>8, <2>12
  <1>5. CASE free_list = <<>>
    <2> DEFINE n == timer_list + 1
    <2>1. /\ timer_list' = n /\ timer_list < MaxTimers /\ free_list' = free_list
          /\ allocated' = [allocated EXCEPT ![n] = TRUE]
      BY <1>5 DEF alloc_timer
    <2>2. n \in Timers /\ n \in 0 .. MaxTimers /\ n > timer_list
      BY <1>3, <2>1 DEF Timers
    <2> HIDE DEF n
    <2>3. TimerTypes'
      BY <2>1, <2>2 DEF TimerTypes, alloc_timer
    <2>4. \A t \in Timers : allocated'[t] <=> allocated[t] \/ t = n
      BY <2>1, <2>2 DEF TimerTypes
    <2>5. \A t \in Timers : t \in Nat /\ (t <= n <=> t <= timer_list \/ t = n)
      BY <1>3 DEF Timers, n
    <2>6. FreeList'
      BY <1>1, <1>3, <2>1, <2>2, <2>4, <2>5 DEF FreeList
    <2> QED
      BY <1>1, <1>2, <2>3, <2>6
  <1> QED
    BY <1>4, <1>5

LEMMA StartRunInv ==
  ASSUME TimerInv, NEW t \in Timers, NEW d \in 1 .. TICKS - 1, StartRun(t, d), allocated[t],
         UNCHANGED <<cur_time, timer_list, allocated, free_list, step>>, callback' \in [Timers -> BOOLEAN]
  PROVE  TimerInv'
  <1> USE DEF TimerInv
  <1>1. /\ state' \in [Timers -> States]
        /\ WheelLists' /\ WheelCount'
        /\ \A u \in Timers \ {t} : state'[u] = state[u]
    BY StartRunEffect
  <1>2. \A u \in Timers : Running(u)' => Running(u) \/ allocated[u]
    BY <1>1 DEF Running
  <1>3. FreeList'
    BY <1>2, SameFreeList
  <1>4. TimerTypes' /\ StepTypes'
    BY <1>1 DEF TimerTypes, StepTypes
  <1> QED
    BY <1>1, <1>3, <1>4

(* The duration a timer is set to. *)
LEMMA DurationType ==
  ASSUME NEW d \in Durations
  PROVE  (IF d > 1 THEN d ELSE 1) \in 1 .. TICKS - 1
  <1>1. TICKS \in Nat /\ TICKS > 1 /\ d \in 0 .. TICKS \div 2
    BY TimerAssumption
  <1>2. TICKS \div 2 \in Nat /\ TICKS \div 2 <= TICKS - 1
    BY <1>1
  <1> QED
    BY <1>1, <1>2

LEMMA SetInv ==
  ASSUME TimerInv, NEW t \in Timers, NEW duration \in Durations, NEW cb \in BOOLEAN, set(t, duration, cb)
  PROVE  TimerInv'
  <1> DEFINE d == IF duration > 1 THEN duration ELSE 1
             word == [flag |-> "stopped", duration |-> d, timeout |-> 0]
  <1>1. d \in 1 .. TICKS - 1
    BY DurationType
  <1>2. /\ allocated[t]
        /\ \/ Running(t) /\ StartRun(t, d)
           \/ /\ ~Running(t) /\ state' = [state EXCEPT ![t] = word]
              /\ UNCHANGED <<time_wheel, nof_timers_running_>>
        /\ callback' = [callback EXCEPT ![t] = @ \/ cb]
        /\ UNCHANGED <<cur_time, timer_list, allocated, free_list, step>>
    BY DEF set, CanCall
  <1> HIDE DEF d
  <1>3. callback' \in [Timers -> BOOLEAN]
    BY <1>2 DEF TimerInv, TimerTypes
  <1>4. CASE Running(t)
    BY <1>1, <1>2, <1>3, <1>4, StartRunInv
  <1>5. CASE ~Running(t)
    <2>1. state' = [state EXCEPT ![t] = word] /\ UNCHANGED <<time_wheel, nof_timers_running_>>
      BY <1>2, <1>5
    <2>2. word \in States
      <3>1. d \in 0 .. TICKS - 1 /\ 0 \in Ticks
        BY <1>1, TimerAssumption DEF Ticks
      <3> QED
        BY <3>1 DEF States
    <2>3. /\ state' \in [Timers -> States] /\ state'[t] = word
          /\ \A u \in Timers \ {t} : state'[u] = state[u]
      BY <2>1, <2>2 DEF TimerInv, TimerTypes
    <2>4. \A u \in Timers : Running(u)' <=> Running(u)
      BY <2>3, <1>5 DEF Running
    <2>5. WheelLists'
      BY <2>1, <2>3, <2>4, <1>5 DEF TimerInv, WheelLists
    <2>6. WheelCount'
      <3>1. RunningTimers' = RunningTimers
        BY <2>4 DEF RunningTimers
      <3> QED
        BY <2>1, <3>1 DEF TimerInv, WheelCount
    <2>7. FreeList'
      BY <1>2, <2>4, SameFreeList DEF TimerInv
    <2>8. TimerTypes' /\ StepTypes'
      BY <1>2, <1>3, <2>3 DEF TimerInv, TimerTypes, StepTypes
    <2> QED
      BY <2>5, <2>6, <2>7, <2>8 DEF TimerInv
  <1> QED
    BY <1>4, <1>5

LEMMA RunInv ==
  ASSUME TimerInv, NEW t \in Timers, run(t)
  PROVE  TimerInv'
  <1>1. state[t].duration \in 1 .. TICKS - 1
    BY TimerAssumption DEF run, TimerInv, TimerTypes, States
  <1>2. /\ allocated[t] /\ StartRun(t, state[t].duration)
        /\ UNCHANGED <<cur_time, timer_list, allocated, callback, free_list, step>>
    BY DEF run, CanCall
  <1>3. callback' \in [Timers -> BOOLEAN]
    BY <1>2 DEF TimerInv, TimerTypes
  <1> QED
    BY <1>1, <1>2, <1>3, StartRunInv

LEMMA StopTimersInv ==
  ASSUME TimerInv, NEW ts \in SUBSET Timers, NEW flag \in {"stopped", "expired"}, StopTimers(ts, flag),
         UNCHANGED <<cur_time, timer_list, allocated, callback, free_list>>, StepTypes'
  PROVE  TimerInv'
  <1> USE DEF TimerInv
  <1>1. /\ state' \in [Timers -> States]
        /\ WheelLists' /\ WheelCount'
        /\ \A t \in Timers : Running(t)' <=> Running(t) /\ t \notin ts
    BY StopTimersEffect
  <1>2. FreeList'
    BY <1>1, SameFreeList
  <1>3. TimerTypes'
    BY <1>1 DEF TimerTypes
  <1> QED
    BY <1>1, <1>2, <1>3

LEMMA StopInv ==
  ASSUME TimerInv, (\E t \in Timers : stop(t)) \/ stop_all
  PROVE  TimerInv'
  <1>1. 1 .. timer_list \in SUBSET Timers
    BY TimerAssumption DEF TimerInv, TimerTypes, Timers
  <1>2. /\ \E ts \in SUBSET Timers : StopTimers(ts, "stopped")
        /\ UNCHANGED <<cur_time, timer_list, allocated, callback, free_list, step>>
    BY <1>1 DEF stop, stop_all
  <1>3. PICK ts \in SUBSET Timers : StopTimers(ts, "stopped")
    BY <1>2
  <1>4. StepTypes'
    BY <1>2 DEF TimerInv, StepTypes
  <1> QED
    BY <1>2, <1>3, <1>4, StopTimersInv

LEMMA DeallocateInv ==
  ASSUME TimerInv, NEW t \in Timers, deallocate(t)
  PROVE  TimerInv'
  <1>1. /\ state' \in [Timers -> States]
        /\ WheelLists' /\ WheelCount'
        /\ ~Running(t)'
        /\ \A u \in Timers \ {t} : state'[u] = state[u]
    BY DeallocateEffect DEF TimerInv
  <1>2. /\ allocated[t]
        /\ allocated' = [allocated EXCEPT ![t] = FALSE]
        /\ callback' = [callback EXCEPT ![t] = FALSE]
        /\ free_list' = <<t>> \o free_list
        /\ UNCHANGED <<cur_time, timer_list, step>>
    BY DEF deallocate, CanCall
  <1>3. TimerTypes' /\ StepTypes'
    BY <1>1, <1>2 DEF TimerInv, TimerTypes, StepTypes
  <1>4. \A u \in Timers : allocated'[u] <=> allocated[u] /\ u # t
    BY <1>2 DEF TimerInv, TimerTypes
  <1>5. \A u \in Timers : Running(u)' => Running(u) /\ u # t
    BY <1>1 DEF Running
  <1>6. free_list \in Seq(Timers) /\ Once(free_list) /\ ~Contains(free_list, t) /\ t <= timer_list
    BY <1>2 DEF TimerInv, FreeList
  <1>7. /\ free_list' \in Seq(Timers) /\ Once(free_list')
        /\ \A x : Contains(free_list', x) <=> x = t \/ Contains(free_list, x)
    BY <1>2, <1>6, PushFront
  <1>8. FreeList'
    BY <1>2, <1>4, <1>5, <1>6, <1>7 DEF TimerInv, FreeList
  <1> QED
    BY <1>1, <1>3, <1>8 DEF TimerInv

LEMMA NextNodeType == ASSUME NEW t PROVE NextNode(t) \in Timers \union {None}
  BY DEF NextNode

LEMMA StepAllInv ==
  ASSUME TimerInv, StepBegin \/ StepTimer \/ CallbackReturns \/ StepEnd
  PROVE  TimerInv'
  <1>1. cur_time \in Ticks /\ Now \in Ticks /\ Slot(Now) \in Slots
    BY ClockTypes DEF TimerInv, TimerTypes
  <1>2. CASE StepTimer
    <2> DEFINE t == step.it
               due == state[t].timeout = Now
    <2>1. t \in Timers
      BY <1>2 DEF StepTimer, TimerInv, StepTypes
    <2>2. /\ step' = [pc |-> IF due /\ callback[t] THEN "callback" ELSE "loop",
                     it |-> NextNode(t), timer |-> IF due /\ callback[t] THEN t ELSE None]
          /\ StopTimers(IF due THEN {t} ELSE {}, "expired")
          /\ UNCHANGED <<cur_time, timer_list, allocated, callback, free_list>>
      BY <1>2 DEF StepTimer
    <2> HIDE DEF due, t
    <2>3. NextNode(t) \in Timers \union {None}
      BY NextNodeType
    <2>4. StepTypes'
      BY <2>1, <2>2, <2>3 DEF StepTypes
    <2>5. (IF due THEN {t} ELSE {}) \in SUBSET Timers
      BY <2>1
    <2> QED
      BY <2>2, <2>4, <2>5, StopTimersInv
  <1>3. CASE StepBegin \/ CallbackReturns \/ StepEnd
    <2>1. UNCHANGED <<timer_list, allocated, state, callback, free_list, time_wheel, nof_timers_running_>>
      BY <1>3 DEF StepBegin, CallbackReturns, StepEnd
    <2>2. WheelLists' /\ WheelCount' /\ \A t \in Timers : Running(t)' <=> Running(t)
      BY <2>1, SameWheel DEF TimerInv
    <2>3. FreeList'
      BY <2>1, <2>2, SameFreeList DEF TimerInv
    <2>4. cur_time' \in Ticks
      BY <1>1, <1>3 DEF StepBegin, CallbackReturns, StepEnd
    <2>5. TimerTypes'
      BY <2>1, <2>4 DEF TimerInv, TimerTypes
    <2>6. StepTypes'
      <3>1. CASE StepBegin
        <4> DEFINE list == time_wheel[Slot(Now)]
                   n == IF list = <<>> THEN None ELSE Head(list)
        <4>1. list \in Seq(Timers)
          BY <1>1 DEF TimerInv, WheelLists
        <4>2. n \in Timers \union {None}
          BY <4>1, HeadTailProperties
        <4>3. step' = [pc |-> "loop", it |-> n, timer |-> None]
          BY <3>1 DEF StepBegin
        <4> HIDE DEF n
        <4> QED
          BY <4>2, <4>3 DEF StepTypes
      <3>2. CASE CallbackReturns
        BY <3>2 DEF CallbackReturns, TimerInv, StepTypes
      <3>3. CASE StepEnd
        BY <3>3 DEF StepEnd, TimerInv, StepTypes
      <3> QED
        BY <1>3, <3>1, <3>2, <3>3
    <2> QED
      BY <2>2, <2>3, <2>5, <2>6 DEF TimerInv
  <1> QED
    BY <1>2, <1>3

LEMMA StepInv == TimerInv /\ [TimerNext]_timerVars => TimerInv'
  <1> SUFFICES ASSUME TimerInv, [TimerNext]_timerVars PROVE TimerInv'
    OBVIOUS
  <1>1. CASE UNCHANGED timerVars
    <2>1. UNCHANGED <<cur_time, timer_list, allocated, state, callback, free_list, time_wheel,
                      nof_timers_running_, step>>
      BY <1>1 DEF timerVars
    <2>2. WheelLists' /\ WheelCount' /\ \A t \in Timers : Running(t)' <=> Running(t)
      BY <2>1, SameWheel DEF TimerInv
    <2>3. FreeList'
      BY <2>1, <2>2, SameFreeList DEF TimerInv
    <2> QED
      BY <2>1, <2>2, <2>3 DEF TimerInv, TimerTypes, StepTypes
  <1>2. CASE TimerNext
    BY <1>2, AllocInv, SetInv, RunInv, StopInv, DeallocateInv, StepAllInv DEF TimerNext
  <1> QED
    BY <1>1, <1>2

-----------------------------------------------------------------------------
(* The theorems on the handler with any callers. *)

(* How often x is in a list that has nothing twice. *)
LEMMA Occurrences ==
  ASSUME NEW S, NEW q \in Seq(S), Once(q), NEW x
  PROVE  Cardinality({i \in 1 .. Len(q) : q[i] = x}) = IF Contains(q, x) THEN 1 ELSE 0
  <1> DEFINE at == {i \in 1 .. Len(q) : q[i] = x}
  <1>1. CASE Contains(q, x)
    <2>1. PICK i \in 1 .. Len(q) : q[i] = x
      BY <1>1 DEF Contains
    <2>2. at = {i}
      BY <2>1 DEF Once
    <2> QED
      BY <1>1, <2>2, FS_Singleton
  <1>2. CASE ~Contains(q, x)
    <2>1. at = {}
      BY <1>2 DEF Contains
    <2> QED
      BY <1>2, <2>1, FS_EmptySet
  <1> QED
    BY <1>1, <1>2

(* The words, the lists, the counter and the free list keep the relation that
   TimerInv states, for any number of timers and slots, through every
   interleaving of callers with step_all.                                  *)
THEOREM TimerInvariance == TimerSpec => []TimerInv
  BY InitInv, StepInv, PTL DEF TimerSpec

(* Every variable of the handler keeps its type. *)
THEOREM TimerTypeCorrect == TimerSpec => []TimerTypeOK
  <1>1. TimerInv => TimerTypeOK
    <2> SUFFICES ASSUME TimerInv PROVE TimerTypeOK
      OBVIOUS
    <2>1. \A t \in Timers : /\ state[t].flag \in {"stopped", "running", "expired"}
                            /\ state[t].duration \in 0 .. TICKS
                            /\ state[t].timeout \in Ticks
      BY TimerAssumption DEF TimerInv, TimerTypes, States
    <2>2. nof_timers_running_ \in 0 .. MaxTimers
      BY TimersFinite DEF TimerInv, WheelCount, RunningTimers
    <2>3. /\ cur_time \in Ticks /\ timer_list \in 0 .. MaxTimers
          /\ allocated \in [Timers -> BOOLEAN] /\ callback \in [Timers -> BOOLEAN]
      BY DEF TimerInv, TimerTypes
    <2>4. /\ step.pc \in {"idle", "loop", "callback"}
          /\ step.it \in Timers \union {None} /\ step.timer \in Timers \union {None}
      BY DEF TimerInv, StepTypes
    <2> QED
      BY <2>1, <2>2, <2>3, <2>4 DEF TimerTypeOK
  <1> QED
    BY <1>1, TimerInvariance, PTL

(* A running timer is in the list of its slot, once, and in no other, and
   nof_timers_running_ counts the running timers, also while callbacks restart, stop
   and release timers in the middle of step_all.                           *)
THEOREM WheelHoldsRunningHolds == TimerSpec => []WheelHoldsRunning
  <1>1. TimerInv => WheelHoldsRunning
    <2> SUFFICES ASSUME TimerInv PROVE WheelHoldsRunning
      OBVIOUS
    <2>1. ASSUME NEW t \in Timers, NEW s \in Slots
          PROVE  Cardinality({i \in 1 .. Len(time_wheel[s]) : time_wheel[s][i] = t})
                   = IF Running(t) /\ s = Slot(state[t].timeout) THEN 1 ELSE 0
      <3>1. /\ time_wheel[s] \in Seq(Timers) /\ Once(time_wheel[s])
            /\ Contains(time_wheel[s], t) <=> Running(t) /\ s = Slot(state[t].timeout)
        BY DEF TimerInv, WheelLists
      <3>2. Cardinality({i \in 1 .. Len(time_wheel[s]) : time_wheel[s][i] = t})
              = IF Contains(time_wheel[s], t) THEN 1 ELSE 0
        BY <3>1, Occurrences
      <3> QED
        BY <3>1, <3>2
    <2>2. nof_timers_running_ = Cardinality({t \in Timers : Running(t)})
      BY DEF TimerInv, WheelCount, RunningTimers
    <2> QED
      BY <2>1, <2>2 DEF WheelHoldsRunning
  <1> QED
    BY <1>1, TimerInvariance, PTL

(* The free list holds exactly the created timers without an owner, each once,
   and those do not run.                                                   *)
THEOREM FreeListIsUnallocatedHolds == TimerSpec => []FreeListIsUnallocated
  <1>1. TimerInv => FreeListIsUnallocated
    <2> SUFFICES ASSUME TimerInv PROVE FreeListIsUnallocated
      OBVIOUS
    <2>1. ASSUME NEW t \in Timers
          PROVE  Cardinality({i \in 1 .. Len(free_list) : free_list[i] = t})
                   = IF t <= timer_list /\ ~allocated[t] THEN 1 ELSE 0
      <3>1. /\ free_list \in Seq(Timers) /\ Once(free_list)
            /\ Contains(free_list, t) <=> t <= timer_list /\ ~allocated[t]
        BY DEF TimerInv, FreeList
      <3>2. Cardinality({i \in 1 .. Len(free_list) : free_list[i] = t})
              = IF Contains(free_list, t) THEN 1 ELSE 0
        BY <3>1, Occurrences
      <3> QED
        BY <3>1, <3>2
    <2>2. \A t \in Timers : Running(t) => allocated[t] /\ t <= timer_list
      BY DEF TimerInv, FreeList
    <2> QED
      BY <2>1, <2>2 DEF FreeListIsUnallocated
  <1> QED
    BY <1>1, TimerInvariance, PTL

-----------------------------------------------------------------------------
(* Callers and the iterator. *)

LEMMA NoneIsNoTimer == None \notin Timers
  BY TimerAssumption DEF None, Timers

LEMMA InitCallerInv == TimerInit => CallerInv
  <1> SUFFICES ASSUME TimerInit PROVE CallerInv
    OBVIOUS
  <1>1. \A t \in Timers : ~Running(t) /\ ~callback[t]
    BY DEF TimerInit, Running
  <1>2. step.pc = "idle"
    BY DEF TimerInit
  <1> QED
    BY <1>1, <1>2 DEF CallerInv, Ahead, DueAfterIterator, IteratorRuns, CallbackOwned

(* A call that changes the timers ts only, whichever they are: what the iterator
   loses by it is missed. *)
LEMMA MethodKeeps ==
  ASSUME TimerInv, CallerInv, NEW ts \in SUBSET Timers,
         Unlocked, UNCHANGED <<cur_time, step>>, KeepsOrder(ts), Touch(ts),
         \A t \in Timers \ ts : /\ Running(t)' <=> Running(t)
                                /\ state'[t].timeout = state[t].timeout
                                /\ state'[t].duration = state[t].duration,
         \A t \in ts : Running(t)' =>
           (state'[t].timeout - cur_time) % TICKS \in 1 .. state'[t].duration,
         CallbackOwned'
  PROVE  CallerInv'
  <1>1. Now' = Now /\ cur_time' = cur_time /\ step' = step
    BY DEF Now, Plus
  <1>2. Slot(Now) \in Slots
    BY ClockTypes DEF TimerInv, TimerTypes
  <1>3. step.pc # "idle" => step.pc = "callback"
    BY DEF Unlocked
  <1>4. missed \ ts \subseteq missed'
    BY DEF Touch
  <1>5. Ahead'
    <2> SUFFICES ASSUME NEW t \in Timers, Running(t)', t \notin missed'
                 PROVE  (state'[t].timeout - cur_time) % TICKS \in 1 .. state'[t].duration
      BY <1>1 DEF Ahead
    <2>1. CASE t \in ts
      BY <2>1
    <2>2. CASE t \notin ts
      BY <2>2, <1>4 DEF CallerInv, Ahead
    <2> QED
      BY <2>1, <2>2
  <1>6. DueAfterIterator'
    <2> SUFFICES ASSUME step.pc # "idle", NEW t \in Timers, Running(t)', state'[t].timeout = Now,
                        t \notin missed'
                 PROVE  step.it # None /\ Before(step.it, t, time_wheel'[Slot(Now)])
      BY <1>1 DEF DueAfterIterator, Due
    <2>1. state'[t].flag = "running"
      BY DEF Running
    <2>2. step.it \notin ts /\ t \notin ts
      BY <1>3, <2>1 DEF Touch
    <2>3. Due(t) /\ t \notin missed
      BY <1>4, <2>2 DEF Due
    <2>4. step.it # None /\ Before(step.it, t, time_wheel[Slot(Now)])
      BY <2>3 DEF CallerInv, DueAfterIterator
    <2>5. step.it \in Timers \ ts
      BY <2>2, <2>4 DEF TimerInv, StepTypes
    <2> QED
      BY <1>2, <2>2, <2>4, <2>5 DEF KeepsOrder
  <1>7. IteratorRuns'
    <2> SUFFICES ASSUME step.pc # "idle", step.it # None, ~meddled' PROVE Running(step.it)'
      BY <1>1 DEF IteratorRuns
    <2>1. ~meddled /\ step.it \notin ts
      BY <1>3 DEF Touch
    <2>2. Running(step.it)
      BY <2>1 DEF CallerInv, IteratorRuns
    <2>3. step.it \in Timers \ ts
      BY <2>1 DEF TimerInv, StepTypes
    <2>4. \A t \in Timers \ ts : Running(t)' <=> Running(t)
      OBVIOUS
    <2> QED
      BY <1>1, <2>2, <2>3, <2>4 DEF Running
  <1> QED
    BY <1>5, <1>6, <1>7 DEF CallerInv

(* Callbacks are given to timers that have an owner, and are gone when it leaves. *)
LEMMA OwnedStep ==
  ASSUME TimerInv, CallerInv, [TimerNext]_timerVars
  PROVE  CallbackOwned'
  <1>1. \A t \in Timers : callback[t] => allocated[t]
    BY DEF CallerInv, CallbackOwned
  <1>2. allocated \in [Timers -> BOOLEAN] /\ callback \in [Timers -> BOOLEAN]
    BY DEF TimerInv, TimerTypes
  <1>3. CASE UNCHANGED <<allocated, callback>>
    BY <1>1, <1>3 DEF CallbackOwned
  <1>4. CASE alloc_timer
    <2>1. UNCHANGED callback /\ \E u : allocated' = [allocated EXCEPT ![u] = TRUE]
      BY <1>4 DEF alloc_timer
    <2> QED
      BY <1>1, <1>2, <2>1 DEF CallbackOwned
  <1>5. ASSUME NEW t \in Timers, NEW d \in Durations, NEW cb \in BOOLEAN, set(t, d, cb)
        PROVE  CallbackOwned'
    <2>1. allocated[t] /\ UNCHANGED allocated /\ callback' = [callback EXCEPT ![t] = @ \/ cb]
      BY <1>5 DEF set, CanCall
    <2> QED
      BY <1>1, <1>2, <2>1 DEF CallbackOwned
  <1>6. ASSUME NEW t \in Timers, deallocate(t) PROVE CallbackOwned'
    <2>1. allocated' = [allocated EXCEPT ![t] = FALSE] /\ callback' = [callback EXCEPT ![t] = FALSE]
      BY <1>6 DEF deallocate
    <2> QED
      BY <1>1, <1>2, <2>1 DEF CallbackOwned
  <1>7. ASSUME NEW t \in Timers, run(t) \/ stop(t) PROVE UNCHANGED <<allocated, callback>>
    BY <1>7 DEF run, stop
  <1>8. stop_all \/ StepBegin \/ StepTimer \/ CallbackReturns \/ StepEnd \/ UNCHANGED timerVars
        => UNCHANGED <<allocated, callback>>
    BY DEF stop_all, StepBegin, StepTimer, CallbackReturns, StepEnd, timerVars
  <1> QED
    BY <1>3, <1>4, <1>5, <1>6, <1>7, <1>8 DEF TimerNext

LEMMA StartRunCaller ==
  ASSUME TimerInv, CallerInv, NEW t \in Timers, NEW d \in 1 .. TICKS - 1,
         CanCall(t), StartRun(t, d), Touch({t}), UNCHANGED <<cur_time, step>>, CallbackOwned'
  PROVE  CallerInv'
  <1>1. /\ state'[t] = [flag |-> "running", duration |-> d, timeout |-> Plus(cur_time, d)]
        /\ \A u \in Timers \ {t} : state'[u] = state[u]
        /\ KeepsOrder({t})
    BY StartRunEffect DEF TimerInv
  <1>2. state'[t].duration = d /\ state'[t].timeout = Plus(cur_time, d)
    BY <1>1
  <1>3. TICKS \in Nat /\ TICKS > 1 /\ cur_time \in Ticks /\ d \in 0 .. TICKS - 1
    BY TimerAssumption DEF TimerInv, TimerTypes
  <1>4. (Plus(cur_time, d) - cur_time) % TICKS = d
    BY <1>3, DistanceOfPlus
  <1>5. (state'[t].timeout - cur_time) % TICKS \in 1 .. state'[t].duration
    BY <1>2, <1>3, <1>4
  <1>6. \A u \in Timers \ {t} : /\ Running(u)' <=> Running(u)
                                /\ state'[u].timeout = state[u].timeout
                                /\ state'[u].duration = state[u].duration
    BY <1>1 DEF Running
  <1> QED
    BY <1>1, <1>5, <1>6, MethodKeeps DEF CanCall

LEMMA CallsCaller ==
  ASSUME TimerInv, CallerInv, NEW t \in Timers,
         (\E d \in Durations, cb \in BOOLEAN : set(t, d, cb)) \/ run(t) \/ stop(t) \/ deallocate(t)
  PROVE  CallerInv'
  <1>1. CanCall(t) /\ Unlocked /\ Touch({t}) /\ UNCHANGED <<cur_time, step>>
    BY DEF set, run, stop, deallocate, CanCall
  <1>2. CallbackOwned'
    BY OwnedStep DEF TimerNext
  <1>3. ASSUME NEW duration \in Durations, NEW cb \in BOOLEAN, set(t, duration, cb) PROVE CallerInv'
    <2> DEFINE d == IF duration > 1 THEN duration ELSE 1
               word == [flag |-> "stopped", duration |-> d, timeout |-> 0]
    <2>1. d \in 1 .. TICKS - 1
      BY DurationType
    <2>2. \/ Running(t) /\ StartRun(t, d)
          \/ /\ ~Running(t) /\ state' = [state EXCEPT ![t] = word]
             /\ UNCHANGED <<time_wheel, nof_timers_running_>>
      BY <1>3 DEF set
    <2> HIDE DEF d
    <2>3. CASE Running(t) /\ StartRun(t, d)
      BY <1>1, <1>2, <2>1, <2>3, StartRunCaller
    <2>4. CASE /\ state' = [state EXCEPT ![t] = word]
               /\ UNCHANGED <<time_wheel, nof_timers_running_>>
      <3>1. state'[t] = word /\ \A u \in Timers \ {t} : state'[u] = state[u]
        BY <2>4 DEF TimerInv, TimerTypes
      <3>2. ~Running(t)'
        BY <3>1 DEF Running
      <3>3. \A u \in Timers \ {t} : /\ Running(u)' <=> Running(u)
                                    /\ state'[u].timeout = state[u].timeout
                                    /\ state'[u].duration = state[u].duration
        BY <3>1 DEF Running
      <3>4. KeepsOrder({t})
        BY <2>4 DEF KeepsOrder
      <3> QED
        BY <1>1, <1>2, <3>2, <3>3, <3>4, MethodKeeps
    <2> QED
      BY <2>2, <2>3, <2>4
  <1>4. CASE run(t)
    <2>1. state[t].duration \in 1 .. TICKS - 1
      BY <1>4, TimerAssumption DEF run, TimerInv, TimerTypes, States
    <2>2. StartRun(t, state[t].duration)
      BY <1>4 DEF run
    <2> QED
      BY <1>1, <1>2, <2>1, <2>2, StartRunCaller
  <1>5. CASE stop(t)
    <2>1. StopTimers({t}, "stopped")
      BY <1>5 DEF stop
    <2>2. /\ \A u \in Timers : Running(u)' <=> Running(u) /\ u \notin {t}
          /\ \A u \in Timers : /\ state'[u].timeout = state[u].timeout
                               /\ state'[u].duration = state[u].duration
          /\ KeepsOrder({t})
      BY <2>1, StopTimersEffect DEF TimerInv
    <2> QED
      BY <1>1, <1>2, <2>2, MethodKeeps
  <1>6. CASE deallocate(t)
    <2>1. ~Running(t)' /\ (\A u \in Timers \ {t} : state'[u] = state[u]) /\ KeepsOrder({t})
      BY <1>6, DeallocateEffect DEF TimerInv
    <2>2. \A u \in Timers \ {t} : /\ Running(u)' <=> Running(u)
                                  /\ state'[u].timeout = state[u].timeout
                                  /\ state'[u].duration = state[u].duration
      BY <2>1 DEF Running
    <2> QED
      BY <1>1, <1>2, <2>1, <2>2, MethodKeeps
  <1> QED
    BY <1>3, <1>4, <1>5, <1>6

LEMMA StopAllCaller ==
  ASSUME TimerInv, CallerInv, stop_all
  PROVE  CallerInv'
  <1> DEFINE ts == 1 .. timer_list
  <1>1. ts \in SUBSET Timers
    BY TimerAssumption DEF TimerInv, TimerTypes, Timers
  <1>2. StopTimers(ts, "stopped") /\ Touch(ts) /\ UNCHANGED <<cur_time, step>> /\ Unlocked
    BY DEF stop_all
  <1>3. CallbackOwned'
    BY OwnedStep DEF TimerNext
  <1> HIDE DEF ts
  <1>4. /\ \A u \in Timers : Running(u)' <=> Running(u) /\ u \notin ts
        /\ \A u \in Timers : /\ state'[u].timeout = state[u].timeout
                             /\ state'[u].duration = state[u].duration
        /\ KeepsOrder(ts)
    BY <1>1, <1>2, StopTimersEffect DEF TimerInv
  <1> QED
    BY <1>1, <1>2, <1>3, <1>4, MethodKeeps

(* The node behind the i-th one of a list. *)
LEMMA NextNodeInList ==
  ASSUME TimerInv, NEW s \in Slots, NEW i \in 1 .. Len(time_wheel[s])
  PROVE  NextNode(time_wheel[s][i]) = IF i < Len(time_wheel[s]) THEN time_wheel[s][i + 1] ELSE None
  <1> DEFINE t == time_wheel[s][i]
             after == {u \in Timers : \E r \in Slots : \E j \in 1 .. Len(time_wheel[r]) - 1 :
                         time_wheel[r][j] = t /\ time_wheel[r][j + 1] = u}
  <1>1. NextNode(t) = IF after = {} THEN None ELSE CHOOSE u \in after : TRUE
    BY DEF NextNode
  <1>2. \A r \in Slots : time_wheel[r] \in Seq(Timers) /\ Len(time_wheel[r]) \in Nat /\ Once(time_wheel[r])
    BY LenProperties DEF TimerInv, WheelLists
  <1>3. t \in Timers /\ s = Slot(state[t].timeout)
    <2>1. t \in Timers
      BY <1>2, ElementOfSeq
    <2>2. Contains(time_wheel[s], t)
      BY DEF Contains
    <2> QED
      BY <2>1, <2>2 DEF TimerInv, WheelLists
  <1>4. ASSUME NEW r \in Slots, NEW j \in 1 .. Len(time_wheel[r]) - 1, time_wheel[r][j] = t
        PROVE  r = s /\ j = i
    <2>1. j \in 1 .. Len(time_wheel[r])
      BY <1>2
    <2>2. Contains(time_wheel[r], t)
      BY <1>4, <2>1 DEF Contains
    <2>3. r = s
      BY <1>3, <2>2 DEF TimerInv, WheelLists
    <2> QED
      BY <1>2, <1>4, <2>1, <2>3 DEF Once
  <1> HIDE DEF t
  <1>5. CASE i < Len(time_wheel[s])
    <2>1. i \in 1 .. Len(time_wheel[s]) - 1 /\ i + 1 \in 1 .. Len(time_wheel[s])
      BY <1>2, <1>5
    <2>2. time_wheel[s][i + 1] \in Timers
      BY <1>2, <2>1, ElementOfSeq
    <2>3. after = {time_wheel[s][i + 1]}
      BY <1>4, <2>1, <2>2 DEF t
    <2> HIDE DEF after
    <2> QED
      BY <1>1, <1>5, <2>3 DEF t
  <1>6. CASE ~(i < Len(time_wheel[s]))
    <2>1. i \notin 1 .. Len(time_wheel[s]) - 1
      BY <1>2, <1>6
    <2>2. after = {}
      BY <1>4, <2>1
    <2> HIDE DEF after
    <2> QED
      BY <1>1, <1>6, <2>2 DEF t
  <1> QED
    BY <1>5, <1>6

(* Whatever the iterator moves on to runs, and is another timer. *)
LEMMA NextNodeRuns ==
  ASSUME TimerInv, NEW t \in Timers, NextNode(t) # None
  PROVE  NextNode(t) \in Timers /\ NextNode(t) # t /\ Running(NextNode(t))
  <1> DEFINE after == {u \in Timers : \E s \in Slots : \E i \in 1 .. Len(time_wheel[s]) - 1 :
                         time_wheel[s][i] = t /\ time_wheel[s][i + 1] = u}
  <1>1. NextNode(t) = IF after = {} THEN None ELSE CHOOSE u \in after : TRUE
    BY DEF NextNode
  <1> HIDE DEF after
  <1>2. NextNode(t) \in after
    BY <1>1
  <1>3. NextNode(t) \in Timers
    BY <1>2 DEF after
  <1> DEFINE Link(s, i) == time_wheel[s][i] = t /\ time_wheel[s][i + 1] = NextNode(t)
  <1>4. PICK s \in Slots : \E i \in 1 .. Len(time_wheel[s]) - 1 : Link(s, i)
    BY <1>2 DEF after
  <1>5. PICK i \in 1 .. Len(time_wheel[s]) - 1 : Link(s, i)
    BY <1>4
  <1>6. Len(time_wheel[s]) \in Nat /\ Once(time_wheel[s])
    BY LenProperties DEF TimerInv, WheelLists
  <1>7. i \in 1 .. Len(time_wheel[s]) /\ i + 1 \in 1 .. Len(time_wheel[s]) /\ i # i + 1
    BY <1>6
  <1>8. NextNode(t) # t
    BY <1>5, <1>6, <1>7 DEF Once
  <1>9. Contains(time_wheel[s], NextNode(t))
    BY <1>5, <1>7 DEF Contains
  <1>10. Running(NextNode(t))
    BY <1>3, <1>9 DEF TimerInv, WheelLists
  <1> QED
    BY <1>3, <1>8, <1>10

LEMMA StepTimerCaller ==
  ASSUME TimerInv, CallerInv, StepTimer
  PROVE  CallerInv'
  <1> DEFINE t == step.it
             due == state[t].timeout = Now
             ts == IF due THEN {t} ELSE {}
             list == time_wheel[Slot(Now)]
             n == NextNode(t)
  <1>1. /\ t \in Timers /\ t # None /\ step.pc = "loop"
        /\ step' = [pc |-> IF due /\ callback[t] THEN "callback" ELSE "loop",
                    it |-> n, timer |-> IF due /\ callback[t] THEN t ELSE None]
        /\ StopTimers(ts, "expired") /\ UNCHANGED <<cur_time, allocated, callback>>
        /\ missed' = IF due THEN missed \ {t} ELSE missed
        /\ meddled' = FALSE
    BY DEF StepTimer, TimerInv, StepTypes
  <1>2. Slot(Now) \in Slots /\ Now' = Now
    BY <1>1, ClockTypes DEF TimerInv, TimerTypes, Now, Plus
  <1>3. list \in Seq(Timers) /\ Len(list) \in Nat /\ Once(list)
    BY <1>2, LenProperties DEF TimerInv, WheelLists
  <1>4. ts \in SUBSET Timers
    BY <1>1
  <1>5. /\ \A u \in Timers : Running(u)' <=> Running(u) /\ u \notin ts
        /\ \A u \in Timers : /\ state'[u].timeout = state[u].timeout
                             /\ state'[u].duration = state[u].duration
        /\ KeepsOrder(ts)
    BY <1>1, <1>4, StopTimersEffect DEF TimerInv
  <1>6. \A u \in Timers : u \in ts <=> due /\ u = t
    OBVIOUS
  <1>7. \A u \in Timers \ ts : u \notin missed' => u \notin missed
    BY <1>1, <1>6
  <1>8. n # None => n \in Timers \ ts /\ Running(n)
    BY <1>1, <1>6, NextNodeRuns
  <1>9. step'.it = n /\ step'.pc # "idle"
    BY <1>1
  <1>10. CallbackOwned'
    BY <1>1 DEF CallerInv, CallbackOwned
  <1> HIDE DEF n, ts, due, t
  <1>11. Ahead'
    BY <1>1, <1>5, <1>7 DEF CallerInv, Ahead
  <1>12. IteratorRuns'
    <2> SUFFICES ASSUME step'.it # None PROVE state'[step'.it].flag = "running"
      BY DEF IteratorRuns, Running
    <2>1. PICK c \in Timers \ ts : c = n /\ Running(c)
      BY <1>8, <1>9
    <2>2. \A u \in Timers : Running(u) /\ u \notin ts => state'[u].flag = "running"
      BY <1>5 DEF Running
    <2> QED
      BY <1>9, <2>1, <2>2
  <1>13. DueAfterIterator'
    <2> SUFFICES ASSUME NEW u \in Timers, Running(u)', state'[u].timeout = Now, u \notin missed'
                 PROVE  n # None /\ Before(n, u, time_wheel'[Slot(Now)])
      BY <1>2, <1>9 DEF DueAfterIterator, Due
    <2>1. Running(u) /\ u \notin ts /\ state[u].timeout = Now /\ u \notin missed
      BY <1>5, <1>7
    <2>2. u # t
      BY <2>1, <1>6 DEF due
    <2>3. Before(t, u, list)
      BY <2>1, <1>1 DEF CallerInv, DueAfterIterator, Due, t
    <2>4. PICK i \in 1 .. Len(list) : list[i] = u /\ \E j \in 1 .. i : list[j] = t
      BY <2>3 DEF Before
    <2>5. PICK p \in 1 .. i : list[p] = t
      BY <2>4
    <2>6. p \in 1 .. Len(list) /\ p # i
      BY <2>2, <2>4, <2>5, <1>3
    <2>7. p < Len(list) /\ p + 1 \in 1 .. i /\ p + 1 \in 1 .. Len(list)
      BY <2>4, <2>5, <2>6, <1>3
    <2>8. n = list[p + 1]
      BY <2>5, <2>6, <2>7, <1>2, NextNodeInList DEF n
    <2>9. n \in Timers
      BY <1>3, <2>7, <2>8, ElementOfSeq
    <2>10. n # None
      BY <2>9, NoneIsNoTimer
    <2>11. Before(n, u, list)
      BY <2>4, <2>7, <2>8 DEF Before
    <2> QED
      BY <2>1, <2>10, <2>11, <1>2, <1>5, <1>8 DEF KeepsOrder
  <1> QED
    BY <1>10, <1>11, <1>12, <1>13 DEF CallerInv

LEMMA StepBeginCaller ==
  ASSUME TimerInv, CallerInv, StepBegin
  PROVE  CallerInv'
  <1> DEFINE list == time_wheel[Slot(Now)]
             h == IF list = <<>> THEN None ELSE Head(list)
  <1>1. /\ step' = [pc |-> "loop", it |-> h, timer |-> None]
        /\ UNCHANGED <<cur_time, state, time_wheel, allocated, callback, meddled, missed>>
    BY DEF StepBegin, historyVars
  <1>2. Slot(Now) \in Slots /\ Now' = Now
    BY <1>1, ClockTypes DEF TimerInv, TimerTypes, Now, Plus
  <1>3. list \in Seq(Timers) /\ Len(list) \in Nat
    BY <1>2, LenProperties DEF TimerInv, WheelLists
  <1>4. Len(list) > 0 => h = list[1] /\ list # <<>>
    BY <1>3, EmptySeq, HeadTailProperties
  <1>5. list # <<>> => Len(list) > 0
    BY <1>3, EmptySeq
  <1>6. h # None => h \in Timers /\ Contains(list, h)
    <2> SUFFICES ASSUME h # None PROVE h \in Timers /\ Contains(list, h)
      OBVIOUS
    <2>1. 1 \in 1 .. Len(list) /\ h = list[1]
      BY <1>3, <1>4, <1>5
    <2>2. h \in Timers
      BY <1>3, <2>1, ElementOfSeq
    <2> QED
      BY <2>1, <2>2 DEF Contains
  <1>7. IteratorRuns'
    <2> SUFFICES ASSUME step'.it # None PROVE state'[step'.it].flag = "running"
      BY DEF IteratorRuns, Running
    <2>1. step'.it = h
      BY <1>1
    <2>2. Running(h)
      BY <1>2, <1>6, <2>1 DEF TimerInv, WheelLists
    <2> QED
      BY <1>1, <2>1, <2>2 DEF Running
  <1>8. DueAfterIterator'
    <2> SUFFICES ASSUME NEW t \in Timers, Running(t), state[t].timeout = Now
                 PROVE  h # None /\ Before(h, t, list)
      BY <1>1, <1>2 DEF DueAfterIterator, Due, Running
    <2>1. Contains(list, t)
      BY <1>2 DEF TimerInv, WheelLists
    <2>2. PICK i \in 1 .. Len(list) : list[i] = t
      BY <2>1 DEF Contains
    <2>3. 1 \in 1 .. i /\ 1 \in 1 .. Len(list) /\ h = list[1]
      BY <2>2, <1>3, <1>4
    <2>4. h \in Timers
      BY <2>3, <1>3, ElementOfSeq
    <2> HIDE DEF h
    <2> QED
      BY <2>2, <2>3, <2>4, NoneIsNoTimer DEF Before
  <1>9. Ahead'
    BY <1>1 DEF CallerInv, Ahead, Running
  <1>10. CallbackOwned'
    BY <1>1 DEF CallerInv, CallbackOwned
  <1> QED
    BY <1>7, <1>8, <1>9, <1>10 DEF CallerInv

LEMMA StepEndCaller ==
  ASSUME TimerInv, CallerInv, StepEnd
  PROVE  CallerInv'
  <1>1. /\ step.pc = "loop" /\ step.it = None /\ cur_time' = Plus(cur_time, 1)
        /\ step'.pc = "idle" /\ UNCHANGED <<state, allocated, callback, meddled, missed>>
    BY DEF StepEnd, Now, TimerInv, StepTypes, historyVars
  <1>2. Ahead'
    <2> SUFFICES ASSUME NEW t \in Timers, Running(t), t \notin missed
                 PROVE  (state[t].timeout - Plus(cur_time, 1)) % TICKS \in 1 .. state[t].duration
      BY <1>1 DEF Ahead, Running
    <2>1. cur_time \in Ticks /\ state[t].timeout \in Ticks /\ state[t].duration \in Nat
      BY TimerAssumption DEF TimerInv, TimerTypes, States
    <2>2. state[t].timeout # Plus(cur_time, 1)
      BY <1>1 DEF CallerInv, DueAfterIterator, Due, Now
    <2>3. (state[t].timeout - cur_time) % TICKS \in 1 .. state[t].duration
      BY DEF CallerInv, Ahead
    <2> QED
      BY <2>1, <2>2, <2>3, DistanceAfterStep
  <1>3. CallbackOwned'
    BY <1>1 DEF CallerInv, CallbackOwned
  <1> QED
    BY <1>1, <1>2, <1>3 DEF CallerInv, IteratorRuns, DueAfterIterator

LEMMA OtherCaller ==
  ASSUME TimerInv, CallerInv, alloc_timer \/ CallbackReturns \/ UNCHANGED timerVars
  PROVE  CallerInv'
  <1>1. /\ UNCHANGED <<cur_time, state, time_wheel, meddled, missed>>
        /\ step'.it = step.it /\ (step'.pc # "idle" => step.pc # "idle")
    BY DEF alloc_timer, CallbackReturns, timerVars, historyVars, TimerInv, StepTypes
  <1>2. Now' = Now /\ \A t : Running(t)' <=> Running(t)
    BY <1>1 DEF Now, Plus, Running
  <1>3. Ahead'
    BY <1>1, <1>2 DEF CallerInv, Ahead
  <1>4. DueAfterIterator'
    BY <1>1, <1>2 DEF CallerInv, DueAfterIterator, Due
  <1>5. IteratorRuns'
    BY <1>1 DEF CallerInv, IteratorRuns, Running
  <1>6. CallbackOwned'
    BY OwnedStep DEF TimerNext
  <1> QED
    BY <1>3, <1>4, <1>5, <1>6 DEF CallerInv

LEMMA StepCallerInv == TimerInv /\ CallerInv /\ [TimerNext]_timerVars => CallerInv'
  <1> SUFFICES ASSUME TimerInv, CallerInv, [TimerNext]_timerVars PROVE CallerInv'
    OBVIOUS
  <1>1. CASE UNCHANGED timerVars \/ alloc_timer \/ CallbackReturns
    BY <1>1, OtherCaller
  <1>2. ASSUME NEW t \in Timers,
               (\E d \in Durations, cb \in BOOLEAN : set(t, d, cb)) \/ run(t) \/ stop(t) \/ deallocate(t)
        PROVE  CallerInv'
    BY <1>2, CallsCaller
  <1>3. CASE stop_all
    BY <1>3, StopAllCaller
  <1>4. CASE StepBegin
    BY <1>4, StepBeginCaller
  <1>5. CASE StepTimer
    BY <1>5, StepTimerCaller
  <1>6. CASE StepEnd
    BY <1>6, StepEndCaller
  <1> QED
    BY <1>1, <1>2, <1>3, <1>4, <1>5, <1>6 DEF TimerNext

LEMMA CallerInvariance == TimerSpec => [](TimerInv /\ CallerInv)
  <1>1. TimerInit => TimerInv /\ CallerInv
    BY InitInv, InitCallerInv
  <1>2. TimerInv /\ CallerInv /\ [TimerNext]_timerVars => TimerInv' /\ CallerInv'
    BY StepInv, StepCallerInv
  <1> QED
    BY <1>1, <1>2, PTL DEF TimerSpec

(* No running timer is passed over, whatever is started, stopped and released in
   callbacks and by other threads during them: between two steps its timeout is at
   most its duration ahead, across any wrap of the clock; but for a timer that a
   call in a callback started for that very tick, or that was due while such a call
   touched the timer the iterator was at.                                  *)
THEOREM NoOverdueHolds == TimerSpec => []NoOverdue
  <1>1. TimerInv /\ CallerInv => NoOverdue
    BY DEF CallerInv, Ahead, NoOverdue
  <1> QED
    BY <1>1, CallerInvariance, PTL

(* step_all calls back only timers that have an owner and that ran until it expired
   them; but for the one timer its iterator was at when a call touched it, which it
   calls back although it may be stopped.                                  *)
THEOREM StoppedStaysSilentHolds == TimerSpec => StoppedStaysSilent
  <1> DEFINE Silent ==
        step.pc = "loop" /\ step'.pc = "callback" =>
          LET t == step'.timer
          IN  /\ allocated[t]
              /\ Running(t) \/ (t = step.it /\ meddled)
              /\ state'[t].flag = IF Running(t) THEN "expired" ELSE state[t].flag
  <1>1. TimerInv /\ CallerInv /\ [TimerNext]_timerVars => [Silent]_timerVars
    <2> SUFFICES ASSUME TimerInv, CallerInv, TimerNext, step.pc = "loop", step'.pc = "callback"
                 PROVE  LET t == step'.timer
                        IN  /\ allocated[t]
                            /\ Running(t) \/ (t = step.it /\ meddled)
                            /\ state'[t].flag = IF Running(t) THEN "expired" ELSE state[t].flag
      OBVIOUS
    <2>1. StepTimer
      <3>1. ~Unlocked
        BY DEF Unlocked
      <3>2. ~alloc_timer /\ ~stop_all /\ \A t \in Timers : ~CanCall(t)
        BY <3>1 DEF alloc_timer, stop_all, CanCall
      <3>3. \A t \in Timers : ~run(t) /\ ~stop(t) /\ ~deallocate(t)
        BY <3>2 DEF run, stop, deallocate
      <3>4. \A t \in Timers, d \in Durations, cb \in BOOLEAN : ~set(t, d, cb)
        BY <3>2 DEF set
      <3>5. ~StepBegin /\ ~CallbackReturns
        BY DEF StepBegin, CallbackReturns
      <3>6. ~StepEnd
        BY DEF StepEnd, TimerInv, StepTypes
      <3> QED
        BY <3>2, <3>3, <3>4, <3>5, <3>6 DEF TimerNext
    <2>2. /\ step'.timer = step.it /\ step.it \in Timers /\ step.it # None
          /\ callback[step.it] /\ StopTimers({step.it}, "expired")
      BY <2>1 DEF StepTimer, TimerInv, StepTypes
    <2>3. allocated[step.it]
      BY <2>2 DEF CallerInv, CallbackOwned
    <2>4. Running(step.it) \/ meddled
      BY <2>2 DEF CallerInv, IteratorRuns
    <2>5. state'[step.it].flag = IF Running(step.it) THEN "expired" ELSE state[step.it].flag
      <3>1. state[step.it] \in States
        BY <2>2 DEF TimerInv, TimerTypes
      <3>2. state'[step.it] = IF Running(step.it) THEN [state[step.it] EXCEPT !.flag = "expired"]
                              ELSE state[step.it]
        BY <2>2 DEF StopTimers
      <3> QED
        BY <3>1, <3>2 DEF States
    <2> QED
      BY <2>2, <2>3, <2>4, <2>5
  <1> QED
    BY <1>1, CallerInvariance, PTL DEF TimerSpec, StoppedStaysSilent
=============================================================================
