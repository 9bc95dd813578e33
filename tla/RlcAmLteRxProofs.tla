-------------------------- MODULE RlcAmLteRxProofs --------------------------
(***************************************************************************)
(* The receive window of RlcAmLteRx is correct for every window size.  SN  *)
(* arithmetic is done once, in the lemmas on Add and Base; the rest of the *)
(* proof treats both as opaque and reasons about distances from vr_r.      *)
(***************************************************************************)
EXTENDS RlcAmLteRx, TLAPS, WellFoundedInduction, FiniteSetTheorems

-----------------------------------------------------------------------------
(* Sets of numbers. *)
(* A non-empty set of natural numbers has a least element. *)
LEMMA LeastElement ==
  ASSUME NEW S \in SUBSET Nat, NEW e \in S
  PROVE  \E x \in S : \A y \in S : x <= y
  <1>1. IsWellFoundedOn(OpToRel(<, Nat), Nat)
    BY NatLessThanWellFounded
  <1>2. PICK x \in S : \A y \in S : ~(<<y, x>> \in OpToRel(<, Nat))
    BY <1>1, WFMin
  <1>3. \A y \in S : ~(y < x)
    BY <1>2 DEF OpToRel
  <1> QED
    BY <1>3

(* A non-empty set of natural numbers with an upper bound has a greatest one. *)
LEMMA GreatestElement ==
  ASSUME NEW S \in SUBSET Nat, NEW e \in S, NEW b \in Nat, \A y \in S : y <= b
  PROVE  \E x \in S : \A y \in S : y <= x
  <1> DEFINE T == {n \in Nat : \A y \in S : y <= n}
  <1>1. T \in SUBSET Nat /\ b \in T
    OBVIOUS
  <1> HIDE DEF T
  <1>2. PICK n \in T : \A m \in T : n <= m
    BY <1>1, LeastElement
  <1>3. n \in Nat /\ \A y \in S : y <= n
    BY <1>2 DEF T
  <1>4. n \in S
    <2> SUFFICES ASSUME n \notin S PROVE FALSE
      OBVIOUS
    <2>1. \A y \in S : y \in Nat /\ y < n
      BY <1>3
    <2>2. n - 1 \in Nat /\ \A y \in S : y <= n - 1
      BY <1>3, <2>1
    <2>3. n - 1 \in T
      BY <2>2 DEF T
    <2> QED
      BY <1>2, <1>3, <2>3
  <1> QED
    BY <1>3, <1>4

-----------------------------------------------------------------------------
(* Arithmetic modulo MOD = 2 * WINDOW. *)

(* MOD is a positive natural number. *)
LEMMA ModType == MOD \in Nat /\ MOD > 0 /\ MOD = 2 * WINDOW /\ WINDOW \in Nat /\ WINDOW > 0
  BY WindowAssumption DEF MOD

(* Adding to an SN wraps at most once. *)
LEMMA AddLinear ==
  ASSUME NEW x \in SN, NEW n \in 0 .. MOD
  PROVE  /\ Add(x, n) = IF x + n < MOD THEN x + n ELSE x + n - MOD
         /\ Add(x, n) \in SN
  BY ModType DEF SN, Add

(* The distance between two SNs, without the remainder operation. *)
LEMMA BaseLinear ==
  ASSUME NEW x \in SN, NEW r \in SN
  PROVE  /\ Base(x, r) = IF x >= r THEN x - r ELSE x - r + MOD
         /\ Base(x, r) \in 0 .. MOD - 1
  BY ModType DEF SN, Base

(* Distances from one SN identify SNs. *)
LEMMA BaseInjective ==
  ASSUME NEW x \in SN, NEW y \in SN, NEW r \in SN, Base(x, r) = Base(y, r)
  PROVE  x = y
  <1>1. Base(x, r) = IF x >= r THEN x - r ELSE x - r + MOD
    BY BaseLinear
  <1>2. Base(y, r) = IF y >= r THEN y - r ELSE y - r + MOD
    BY BaseLinear
  <1>3. x \in Int /\ y \in Int /\ r \in Int /\ MOD \in Int
    BY ModType DEF SN
  <1>4. x = Base(x, r) + r \/ x = Base(x, r) + r - MOD
    BY <1>1, <1>3
  <1>5. y = Base(y, r) + r \/ y = Base(y, r) + r - MOD
    BY <1>2, <1>3
  <1>6. Base(x, r) \in Int
    BY <1>1, <1>3
  <1> QED
    BY <1>3, <1>4, <1>5, <1>6, ModType DEF SN

(* An SN is at distance zero from itself. *)
LEMMA BaseSelf ==
  ASSUME NEW r \in SN
  PROVE  Base(r, r) = 0
  <1>1. Base(r, r) = IF r >= r THEN r - r ELSE r - r + MOD
    BY BaseLinear
  <1> QED
    BY <1>1, ModType DEF SN

(* Moving an SN up moves it away from the base, up to the end of the SN space. *)
LEMMA BaseOfAdd ==
  ASSUME NEW x \in SN, NEW r \in SN, NEW n \in 0 .. MOD, Base(x, r) + n < MOD
  PROVE  Base(Add(x, n), r) = Base(x, r) + n
  <1> DEFINE y == Add(x, n)
  <1>1. /\ y = IF x + n < MOD THEN x + n ELSE x + n - MOD
        /\ y \in SN
    BY AddLinear
  <1>2. Base(x, r) = IF x >= r THEN x - r ELSE x - r + MOD
    BY BaseLinear
  <1> HIDE DEF y
  <1>3. Base(y, r) = IF y >= r THEN y - r ELSE y - r + MOD
    BY <1>1, BaseLinear
  <1>4. Base(y, r) = Base(x, r) + n
    BY <1>1, <1>2, <1>3, ModType DEF SN
  <1> QED
    BY <1>4 DEF y

(* Moving the base up brings the SNs above it nearer and wraps those it passes. *)
LEMMA BaseShift ==
  ASSUME NEW x \in SN, NEW r \in SN, NEW n \in 0 .. MOD
  PROVE  Base(x, Add(r, n)) = IF Base(x, r) >= n THEN Base(x, r) - n
                                                 ELSE Base(x, r) - n + MOD
  <1> DEFINE y == Add(r, n)
  <1>1. /\ y = IF r + n < MOD THEN r + n ELSE r + n - MOD
        /\ y \in SN
    BY AddLinear
  <1>2. Base(x, r) = IF x >= r THEN x - r ELSE x - r + MOD
    BY BaseLinear
  <1> HIDE DEF y
  <1>3. Base(x, y) = IF x >= y THEN x - y ELSE x - y + MOD
    BY <1>1, BaseLinear
  <1>4. Base(x, y) = IF Base(x, r) >= n THEN Base(x, r) - n ELSE Base(x, r) - n + MOD
    BY <1>1, <1>2, <1>3, ModType DEF SN
  <1> QED
    BY <1>4 DEF y

(* An SN is its base plus its distance from it. *)
LEMMA AddBase ==
  ASSUME NEW x \in SN, NEW r \in SN
  PROVE  Add(r, Base(x, r)) = x
  <1> DEFINE d == Base(x, r)
  <1>1. /\ d = IF x >= r THEN x - r ELSE x - r + MOD
        /\ d \in 0 .. MOD
    BY BaseLinear, ModType
  <1> HIDE DEF d
  <1>2. Add(r, d) = IF r + d < MOD THEN r + d ELSE r + d - MOD
    BY <1>1, AddLinear
  <1>3. Add(r, d) = x
    BY <1>1, <1>2, ModType DEF SN
  <1> QED
    BY <1>3 DEF d

(* The two edges of the window move together. *)
LEMMA AddCommutes ==
  ASSUME NEW r \in SN, NEW m \in 0 .. MOD, NEW n \in 0 .. MOD
  PROVE  Add(Add(r, m), n) = Add(Add(r, n), m)
  <1> DEFINE x == Add(r, m)
             y == Add(r, n)
  <1>1. /\ x = IF r + m < MOD THEN r + m ELSE r + m - MOD
        /\ y = IF r + n < MOD THEN r + n ELSE r + n - MOD
        /\ x \in SN /\ y \in SN
    BY AddLinear
  <1> HIDE DEF x, y
  <1>2. /\ Add(x, n) = IF x + n < MOD THEN x + n ELSE x + n - MOD
        /\ Add(y, m) = IF y + m < MOD THEN y + m ELSE y + m - MOD
    BY <1>1, AddLinear
  <1>3. Add(x, n) = Add(y, m)
    BY <1>1, <1>2, ModType DEF SN
  <1> QED
    BY <1>3 DEF x, y

(* A loop that skips held SNs stops within a bound on the distances of what is
   held, and skips exactly the SNs between its start and its end.          *)
LEMMA SkipBound ==
  ASSUME NEW r \in SN, NEW x \in SN, NEW held \in SUBSET SN, NEW n \in 0 .. WINDOW,
         NEW b \in 0 .. WINDOW, SkipsHeld(held, x, n),
         Base(x, r) <= b, \A s \in held : Base(s, r) < b
  PROVE  /\ Base(Add(x, n), r) = Base(x, r) + n
         /\ Base(x, r) + n <= b
         /\ Add(x, n) \notin held
         /\ \A s \in SN : Base(x, r) <= Base(s, r) /\ Base(s, r) < Base(x, r) + n => s \in held
  <1>1. Base(x, r) \in 0 .. WINDOW
    BY BaseLinear, ModType
  <1>2. \A i \in 0 .. n - 1 : Base(Add(x, i), r) = Base(x, r) + i
    BY <1>1, BaseOfAdd, ModType
  <1>3. Base(x, r) + n <= b
    <2>1. CASE n = 0
      BY <2>1, <1>1
    <2>2. CASE n > 0
      <3>1. n - 1 \in 0 .. n - 1
        BY <2>2
      <3>2. Add(x, n - 1) \in held
        BY <3>1 DEF SkipsHeld
      <3> QED
        BY <3>1, <3>2, <1>1, <1>2
    <2> QED
      BY <2>1, <2>2
  <1>4. Base(Add(x, n), r) = Base(x, r) + n
    BY <1>1, <1>3, BaseOfAdd, ModType
  <1>5. ASSUME NEW s \in SN, Base(x, r) <= Base(s, r), Base(s, r) < Base(x, r) + n
        PROVE  s \in held
    <2> DEFINE i == Base(s, r) - Base(x, r)
    <2>1. Base(s, r) \in 0 .. MOD - 1
      BY BaseLinear
    <2>2. i \in 0 .. n - 1
      BY <2>1, <1>1, <1>5
    <2>3. Base(Add(x, i), r) = Base(s, r)
      BY <2>1, <2>2, <1>1, <1>2
    <2>4. Add(x, i) \in SN
      BY <2>2, AddLinear, ModType
    <2>5. Add(x, i) = s
      BY <2>3, <2>4, BaseInjective
    <2> QED
      BY <2>2, <2>5 DEF SkipsHeld
  <1> QED
    BY <1>3, <1>4, <1>5 DEF SkipsHeld

-----------------------------------------------------------------------------
(* The inductive invariant: the order of the state variables, what the window
   holds, the range of vr_x and the timing of gaps need one another.       *)
RxInv ==
  /\ RxWindowTypeOK
  /\ RxWindowOrder
  /\ RxWindowContents
  /\ ReorderingTimerRange
  /\ GapIsTimed

(* What HorizonMonotonic says of a step that does not re-establish, and that the
   new vr_ms is not above the new vr_h seen from the old vr_r either.        *)
HorizonAdvances ==
  /\ RX_MOD_BASE(vr_ms) <= RX_MOD_BASE(vr_ms')
  /\ RX_MOD_BASE(vr_h) <= RX_MOD_BASE(vr_h')
  /\ RX_MOD_BASE(vr_r') <= RX_MOD_BASE(vr_ms')
  /\ RX_MOD_BASE(vr_ms') <= RX_MOD_BASE(vr_h')

(* The distances from vr_r in a state of the invariant. *)
LEMMA InvDistances ==
  ASSUME RxInv
  PROVE  /\ vr_r \in SN /\ vr_mr \in SN /\ vr_x \in SN /\ vr_ms \in SN /\ vr_h \in SN
         /\ Base(vr_mr, vr_r) = WINDOW
         /\ Base(vr_ms, vr_r) \in 0 .. WINDOW
         /\ Base(vr_h, vr_r) \in 0 .. WINDOW
         /\ Base(vr_x, vr_r) \in 0 .. MOD - 1
         /\ DOMAIN rx_window \in SUBSET SN
  <1>1. vr_r \in SN /\ vr_mr \in SN /\ vr_x \in SN /\ vr_ms \in SN /\ vr_h \in SN
    BY DEF RxInv, RxWindowTypeOK
  <1>2. Base(vr_mr, vr_r) = WINDOW
    <2>1. Base(vr_r, vr_r) = 0
      BY <1>1, BaseSelf
    <2>2. Base(Add(vr_r, WINDOW), vr_r) = 0 + WINDOW
      BY <1>1, <2>1, BaseOfAdd, ModType
    <2> QED
      BY <2>2, ModType DEF RxInv, RxWindowOrder
  <1>3. /\ Base(vr_ms, vr_r) \in 0 .. MOD - 1
        /\ Base(vr_h, vr_r) \in 0 .. MOD - 1
        /\ Base(vr_x, vr_r) \in 0 .. MOD - 1
    BY <1>1, BaseLinear
  <1>4. Base(vr_ms, vr_r) <= Base(vr_h, vr_r) /\ Base(vr_h, vr_r) <= WINDOW
    BY DEF RxInv, RxWindowOrder, RX_MOD_BASE
  <1> QED
    BY <1>1, <1>2, <1>3, <1>4, ModType DEF RxInv, RxWindowTypeOK

(* vr_h after a PDU or a first segment inside the window. *)
LEMMA NextVrHRange ==
  ASSUME RxInv, NEW sn \in SN, inside_rx_window(sn)
  PROVE  /\ NextVrH(sn) \in SN
         /\ Base(sn, vr_r) \in 0 .. WINDOW - 1
         /\ Base(NextVrH(sn), vr_r) \in 0 .. WINDOW
         /\ Base(vr_h, vr_r) <= Base(NextVrH(sn), vr_r)
         /\ Base(sn, vr_r) < Base(NextVrH(sn), vr_r)
  <1>1. Base(sn, vr_r) \in 0 .. WINDOW - 1
    BY InvDistances, BaseLinear, ModType DEF inside_rx_window, RX_MOD_BASE
  <1>2. Add(sn, 1) \in SN /\ Base(Add(sn, 1), vr_r) = Base(sn, vr_r) + 1
    <2>1. 1 \in 0 .. MOD /\ Base(sn, vr_r) + 1 < MOD
      BY <1>1, ModType
    <2> QED
      BY <2>1, InvDistances, AddLinear, BaseOfAdd
  <1> QED
    BY <1>1, <1>2, InvDistances, ModType DEF NextVrH, RX_MOD_BASE

(* A new PDU inside the window keeps the invariant. *)
LEMMA AcceptPduInv ==
  ASSUME RxInv, NEW sn \in SN, NEW p \in BOOLEAN, NEW data, NEW segs, NEW asked \in BOOLEAN,
         NEW m \in 0 .. WINDOW, NEW n \in 0 .. WINDOW,
         inside_rx_window(sn), status_prohibit_timer' \in BOOLEAN,
         AcceptPdu(sn, p, data, segs, asked, m, n)
  PROVE  RxInv' /\ HorizonAdvances
  <1> DEFINE held == DOMAIN rx_window \union {sn}
             passed == {Add(vr_r, i) : i \in 0 .. n - 1}
             h == NextVrH(sn)
             ms == Add(vr_ms, m)
             r == Add(vr_r, n)
             mr == Add(vr_mr, n)
             H == Base(h, vr_r)
             S == Base(vr_ms, vr_r)
             X == Base(vr_x, vr_r)
  <1>1. /\ SkipsHeld(held, vr_ms, m) /\ SkipsHeld(held, vr_r, n)
        /\ vr_h' = h /\ vr_ms' = ms /\ vr_r' = r /\ vr_mr' = mr
        /\ DOMAIN rx_window' = held \ passed
        /\ UpdateReorderingTimer(r, mr, h)
        /\ poll_received' \in BOOLEAN /\ do_status' \in BOOLEAN
    BY DEF AcceptPdu, VrMsMoves, CheckPollBit, RxInv, RxWindowTypeOK
  <1>2. /\ h \in SN /\ H \in 0 .. WINDOW /\ Base(vr_h, vr_r) <= H
        /\ Base(sn, vr_r) < H
    BY NextVrHRange
  <1>3. held \in SUBSET SN /\ \A s \in held : Base(s, vr_r) < H
    <2>1. \A s \in DOMAIN rx_window : Base(s, vr_r) < Base(vr_h, vr_r)
      BY DEF RxInv, RxWindowContents, RX_MOD_BASE
    <2>2. \A s \in DOMAIN rx_window : Base(s, vr_r) \in 0 .. MOD - 1
      BY InvDistances, BaseLinear
    <2> QED
      BY <2>1, <2>2, <1>2, InvDistances, ModType
  <1>4. S \in 0 .. WINDOW /\ S <= H
    BY <1>2, InvDistances DEF RxInv, RxWindowOrder, RX_MOD_BASE
  <1> HIDE DEF held, h
  <1>5. /\ Base(ms, vr_r) = S + m /\ S + m <= H /\ ms \notin held
        /\ \A s \in SN : S <= Base(s, vr_r) /\ Base(s, vr_r) < S + m => s \in held
    <2>1. vr_r \in SN /\ vr_ms \in SN
      BY InvDistances
    <2>2. SkipsHeld(held, vr_ms, m) /\ H \in 0 .. WINDOW /\ Base(vr_ms, vr_r) <= H
      BY <1>1, <1>2, <1>4
    <2> HIDE DEF H
    <2> QED
      BY <1>3, <2>1, <2>2, SkipBound
  <1>6. /\ Base(r, vr_r) = n /\ n <= H /\ r \notin held
        /\ \A s \in SN : Base(s, vr_r) < n => s \in held
    <2>1. Base(vr_r, vr_r) = 0
      BY InvDistances, BaseSelf
    <2>2. /\ Base(r, vr_r) = 0 + n /\ 0 + n <= H /\ r \notin held
          /\ \A s \in SN : 0 <= Base(s, vr_r) /\ Base(s, vr_r) < 0 + n => s \in held
      <3>1. vr_r \in SN /\ 0 <= H /\ H \in 0 .. WINDOW /\ SkipsHeld(held, vr_r, n)
        BY <1>1, <1>2, InvDistances
      <3> HIDE DEF H
      <3> QED
        BY <1>3, <2>1, <3>1, SkipBound
    <2>3. \A s \in SN : 0 <= Base(s, vr_r)
      BY InvDistances, BaseLinear
    <2> QED
      BY <2>2, <2>3
  <1>7. r \in SN /\ mr \in SN /\ ms \in SN
    BY InvDistances, AddLinear, ModType
  <1>8. n <= S + m
    BY <1>4, <1>5, <1>6, <1>7
  <1>9. mr = Add(r, WINDOW) /\ Base(mr, r) = WINDOW
    <2>1. mr = Add(r, WINDOW)
      BY InvDistances, AddCommutes, ModType DEF RxInv, RxWindowOrder
    <2>2. Base(r, r) = 0
      BY <1>7, BaseSelf
    <2>3. Base(Add(r, WINDOW), r) = 0 + WINDOW
      BY <1>7, <2>2, BaseOfAdd, ModType
    <2> QED
      BY <2>1, <2>3, ModType
  <1>10. \A s \in SN : Base(s, r) = IF Base(s, vr_r) >= n THEN Base(s, vr_r) - n
                                    ELSE Base(s, vr_r) - n + MOD
    BY InvDistances, BaseShift, ModType
  <1>11. Base(h, r) = H - n /\ Base(ms, r) = S + m - n
    BY <1>2, <1>4, <1>5, <1>6, <1>7, <1>8, <1>10
  <1>12. \A s \in SN : s \in held /\ s \notin passed =>
             Base(s, vr_r) >= n /\ Base(s, r) = Base(s, vr_r) - n /\ Base(s, r) < H - n
    <2>1. ASSUME NEW s \in SN, s \in held, s \notin passed
          PROVE  Base(s, vr_r) >= n
      <3>1. Base(s, vr_r) \in 0 .. MOD - 1
        BY InvDistances, BaseLinear
      <3>2. Add(vr_r, Base(s, vr_r)) = s
        BY InvDistances, AddBase
      <3> QED
        BY <3>1, <3>2, <2>1
    <2>2. \A s \in SN : Base(s, vr_r) \in 0 .. MOD - 1
      BY InvDistances, BaseLinear
    <2> QED
      BY <2>1, <2>2, <1>2, <1>3, <1>6, <1>10
  <1>13. RxWindowTypeOK'
    <2>1. reordering_timer' \in BOOLEAN
      <3>1. \/ reordering_timer' = reordering_timer
            \/ reordering_timer' = (Base(h, r) > 0)
        BY <1>1 DEF UpdateReorderingTimer
      <3>2. reordering_timer \in BOOLEAN
        BY DEF RxInv, RxWindowTypeOK
      <3>3. (Base(h, r) > 0) \in BOOLEAN
        BY SMT
      <3> QED
        BY <3>1, <3>2, <3>3, Zenon
    <2>2. vr_x' \in SN
      BY <1>1, <1>2, InvDistances DEF UpdateReorderingTimer
    <2> QED
      BY <2>1, <2>2, <1>1, <1>2, <1>3, <1>7 DEF RxWindowTypeOK
  <1>14. RxWindowOrder'
    BY <1>1, <1>2, <1>4, <1>5, <1>6, <1>9, <1>11, ModType DEF RxWindowOrder, RX_MOD_BASE
  <1>15. RxWindowContents'
    BY <1>1, <1>3, <1>5, <1>6, <1>11, <1>12 DEF RxWindowContents, RX_MOD_BASE
  <1>16. ReorderingTimerRange' /\ GapIsTimed'
    <2> DEFINE keep == /\ reordering_timer
                       /\ vr_x # r
                       /\ Base(vr_x, r) < Base(mr, r) \/ vr_x = mr
    <2>1. CASE keep
      <3>1. vr_x' = vr_x /\ reordering_timer' = reordering_timer
        BY <1>1, <2>1 DEF UpdateReorderingTimer
      <3>2. /\ X \in 0 .. WINDOW /\ X > 0 /\ X <= H
            /\ \A s \in SN : X <= Base(s, vr_r) /\ Base(s, vr_r) < S => s \in DOMAIN rx_window
        <4>1. X \in 0 .. MOD - 1 /\ X <= Base(vr_h, vr_r) /\ vr_x # vr_r
          BY <2>1, InvDistances DEF RxInv, ReorderingTimerRange, RX_MOD_BASE
        <4>2. X # 0
          BY <4>1, InvDistances, BaseSelf, BaseInjective
        <4>3. X \in 0 .. WINDOW /\ X > 0 /\ X <= H
          BY <4>1, <4>2, <1>2, InvDistances, ModType
        <4>4. \A s \in SN : X <= Base(s, vr_r) /\ Base(s, vr_r) < S => s \in DOMAIN rx_window
          BY <2>1 DEF RxInv, ReorderingTimerRange, RX_MOD_BASE
        <4> QED
          BY <4>3, <4>4
      <3>3. Base(vr_x, r) <= WINDOW
        BY <2>1, <1>7, <1>9, InvDistances, BaseLinear, ModType
      <3>4. X >= n /\ Base(vr_x, r) = X - n
        BY <3>2, <3>3, <1>10, InvDistances, ModType
      <3>5. ASSUME NEW s \in SN, Base(vr_x, r) <= Base(s, r), Base(s, r) < Base(ms, r)
            PROVE  s \in held \ passed
        <4>1. Base(s, vr_r) \in 0 .. MOD - 1
          BY InvDistances, BaseLinear
        <4>2. X <= Base(s, vr_r) /\ Base(s, vr_r) < S + m
          BY <4>1, <3>2, <3>4, <3>5, <1>2, <1>4, <1>5, <1>10, <1>11, ModType
        <4>3. s \in held
          BY <4>1, <4>2, <3>2, <1>4, <1>5 DEF held
        <4>4. \A i \in 0 .. n - 1 : Base(Add(vr_r, i), vr_r) = i
          <5>1. Base(vr_r, vr_r) = 0
            BY InvDistances, BaseSelf
          <5>2. \A i \in 0 .. n - 1 : Base(Add(vr_r, i), vr_r) = 0 + i
            BY <5>1, InvDistances, BaseOfAdd, ModType
          <5> QED
            BY <5>2
        <4>5. ASSUME NEW i \in 0 .. n - 1, s = Add(vr_r, i)
              PROVE  FALSE
          <5>1. Base(s, vr_r) = i
            BY <4>4, <4>5
          <5> QED
            BY <5>1, <4>2, <3>2, <3>4
        <4> QED
          BY <4>3, <4>5
      <3>6. Base(vr_x, r) <= H - n
        BY <3>2, <3>4, <1>2, <1>6
      <3>7. ReorderingTimerRange'
        BY <3>1, <3>5, <3>6, <2>1, <1>1, <1>11 DEF ReorderingTimerRange, RX_MOD_BASE
      <3>8. GapIsTimed'
        BY <3>1, <2>1 DEF GapIsTimed
      <3> QED
        BY <3>7, <3>8
    <2>2. CASE ~keep
      <3>1. /\ reordering_timer' = (H - n > 0)
            /\ H - n > 0 => vr_x' = h
        BY <1>1, <1>11, <2>2 DEF UpdateReorderingTimer
      <3>2. ASSUME H - n > 0
            PROVE  h # r
        BY <3>2, <1>7, <1>11, BaseSelf
      <3>3. ReorderingTimerRange'
        <4>1. \A s \in SN : Base(s, r) \in 0 .. MOD - 1
          BY <1>7, BaseLinear
        <4>2. \A s \in SN : ~ (H - n <= Base(s, r) /\ Base(s, r) < S + m - n)
          BY <4>1, <1>2, <1>4, <1>5
        <4>3. ASSUME reordering_timer'
              PROVE  vr_x' = h /\ h # r /\ Base(vr_x', r) = H - n
          BY <4>3, <3>1, <3>2, <1>11
        <4>4. Base(vr_h', r) = H - n /\ Base(vr_ms', r) = S + m - n
          BY <1>1, <1>11
        <4>5. H - n \in Int
          BY <1>2
        <4> QED
          BY <4>2, <4>3, <4>4, <4>5, <1>1 DEF ReorderingTimerRange, RX_MOD_BASE
      <3>4. GapIsTimed'
        <4>1. ASSUME NEW s \in held \ passed
              PROVE  H - n > 0
          <5>1. s \in SN /\ Base(s, r) \in 0 .. MOD - 1 /\ Base(s, r) < H - n
            BY <4>1, <1>3, <1>7, <1>12, BaseLinear
          <5> QED
            BY <5>1, <1>2, <1>6
        <4> QED
          BY <4>1, <3>1, <1>1 DEF GapIsTimed
      <3> QED
        BY <3>3, <3>4
    <2> QED
      BY <2>1, <2>2
  <1>17. /\ Base(r, vr_r) <= Base(ms, vr_r) /\ S <= Base(ms, vr_r)
         /\ Base(ms, vr_r) <= H /\ Base(vr_h, vr_r) <= H
    BY <1>2, <1>4, <1>5, <1>6, <1>8
  <1> QED
    BY <1>1, <1>13, <1>14, <1>15, <1>16, <1>17 DEF RxInv, HorizonAdvances, RX_MOD_BASE

(* The invariant does not depend on what is not the window or its timer. *)
LEMMA SameWindow ==
  ASSUME RxInv, UNCHANGED <<windowVars, reordering_timer>>,
         poll_received' \in BOOLEAN, do_status' \in BOOLEAN,
         status_prohibit_timer' \in BOOLEAN
  PROVE  RxInv' /\ HorizonAdvances
  <1>1. /\ vr_r' = vr_r /\ vr_mr' = vr_mr /\ vr_x' = vr_x /\ vr_ms' = vr_ms /\ vr_h' = vr_h
        /\ rx_window' = rx_window /\ reordering_timer' = reordering_timer
    BY DEF windowVars
  <1>2. RxInv'
    BY <1>1 DEF RxInv, RxWindowTypeOK, RxWindowOrder, RxWindowContents,
                ReorderingTimerRange, GapIsTimed, RX_MOD_BASE
  <1>3. HorizonAdvances
    <2>1. Base(vr_r, vr_r) = 0
      BY InvDistances, BaseSelf
    <2> QED
      BY <1>1, <2>1, InvDistances DEF RxInv, RxWindowOrder, HorizonAdvances, RX_MOD_BASE
  <1> QED
    BY <1>2, <1>3

(* A PDU received in full, or put together from segments. *)
LEMMA FullPduInv ==
  ASSUME RxInv, NEW sn \in SN, NEW p \in BOOLEAN, NEW data, NEW segs, NEW asked \in BOOLEAN,
         status_prohibit_timer' \in BOOLEAN,
         handle_data_pdu_full(sn, p, data, segs, asked)
  PROVE  RxInv' /\ HorizonAdvances
  <1>1. CASE DiscardPdu(p, segs, asked)
    <2>1. UNCHANGED <<windowVars, reordering_timer>> /\ poll_received' = poll_received
      BY <1>1 DEF DiscardPdu
    <2>2. do_status' \in BOOLEAN /\ poll_received' \in BOOLEAN
      BY <1>1, <2>1 DEF DiscardPdu, RxInv, RxWindowTypeOK
    <2> QED
      BY <2>1, <2>2, SameWindow
  <1>2. CASE inside_rx_window(sn) /\ \E m, n \in 0 .. WINDOW : AcceptPdu(sn, p, data, segs, asked, m, n)
    <2>1. PICK m \in 0 .. WINDOW, n \in 0 .. WINDOW : AcceptPdu(sn, p, data, segs, asked, m, n)
      BY <1>2
    <2> QED
      BY <1>2, <2>1, AcceptPduInv
  <1> QED
    BY <1>1, <1>2 DEF handle_data_pdu_full

(* A segment of a PDU: it may raise vr_h, or complete its PDU. *)
LEMMA SegmentInv ==
  ASSUME RxInv, NEW seg, seg.sn \in SN, seg.p \in BOOLEAN,
         status_prohibit_timer' \in BOOLEAN,
         handle_data_pdu_segment(seg)
  PROVE  RxInv' /\ HorizonAdvances
  <1>1. CASE DiscardPdu(seg.p, rx_segments, do_status)
    <2>1. UNCHANGED <<windowVars, reordering_timer>> /\ poll_received' = poll_received
      BY <1>1 DEF DiscardPdu
    <2>2. do_status' \in BOOLEAN /\ poll_received' \in BOOLEAN
      BY <1>1, <2>1 DEF DiscardPdu, RxInv, RxWindowTypeOK
    <2> QED
      BY <2>1, <2>2, SameWindow
  <1>2. CASE AddSegmentAndCheck(seg)
    <2> DEFINE segs == PruneSegments(InsertSegment(rx_segments[seg.sn],
                 [so |-> seg.so, data |-> seg.data, lsf |-> seg.lsf, p |-> seg.p]))
               others == [s \in DOMAIN rx_segments \ {seg.sn} |-> rx_segments[s]]
               polled == \E s \in segs : s.p
               asked == do_status \/ seg.p
    <2>1. \/ /\ do_status' = (do_status \/ seg.p)
             /\ UNCHANGED <<windowVars, reordering_timer>>
             /\ poll_received' = poll_received
          \/ handle_data_pdu_full(seg.sn, polled, JoinSegments(segs), others, asked)
      BY <1>2 DEF AddSegmentAndCheck
    <2>2. CASE /\ do_status' = (do_status \/ seg.p)
               /\ UNCHANGED <<windowVars, reordering_timer>>
               /\ poll_received' = poll_received
      <3>1. do_status' \in BOOLEAN /\ poll_received' \in BOOLEAN
        BY <2>2 DEF RxInv, RxWindowTypeOK
      <3> QED
        BY <2>2, <3>1, SameWindow
    <2>3. CASE handle_data_pdu_full(seg.sn, polled, JoinSegments(segs), others, asked)
      <3>1. polled \in BOOLEAN /\ asked \in BOOLEAN
        BY DEF RxInv, RxWindowTypeOK
      <3> HIDE DEF polled, asked, segs, others
      <3> QED
        BY <2>3, <3>1, FullPduInv
    <2> QED
      BY <2>1, <2>2, <2>3
  <1>3. CASE inside_rx_window(seg.sn) /\ NewSegmentList(seg)
    <2> DEFINE h == NextVrH(seg.sn)
    <2>1. /\ vr_h' = h
          /\ vr_r' = vr_r /\ vr_mr' = vr_mr /\ vr_x' = vr_x /\ vr_ms' = vr_ms
          /\ rx_window' = rx_window /\ reordering_timer' = reordering_timer
          /\ do_status' \in BOOLEAN /\ poll_received' \in BOOLEAN
      BY <1>3 DEF NewSegmentList, CheckPollBit, RxInv, RxWindowTypeOK
    <2>2. /\ h \in SN /\ Base(h, vr_r) \in 0 .. WINDOW
          /\ Base(vr_h, vr_r) <= Base(h, vr_r)
      BY <1>3, NextVrHRange
    <2>3. \A s \in SN : Base(s, vr_r) \in 0 .. MOD - 1
      BY InvDistances, BaseLinear
    <2> HIDE DEF h
    <2>4. RxWindowTypeOK'
      BY <2>1, <2>2 DEF RxInv, RxWindowTypeOK
    <2>5. RxWindowOrder' /\ RxWindowContents'
      BY <2>1, <2>2, <2>3, InvDistances
         DEF RxInv, RxWindowOrder, RxWindowContents, RX_MOD_BASE
    <2>6. ReorderingTimerRange' /\ GapIsTimed'
      BY <2>1, <2>2, <2>3, InvDistances
         DEF RxInv, ReorderingTimerRange, GapIsTimed, RX_MOD_BASE
    <2>7. HorizonAdvances
      <3>1. Base(vr_r, vr_r) = 0
        BY InvDistances, BaseSelf
      <3> QED
        BY <2>1, <2>2, <3>1, InvDistances DEF RxInv, RxWindowOrder, HorizonAdvances, RX_MOD_BASE
    <2> QED
      BY <2>4, <2>5, <2>6, <2>7 DEF RxInv
  <1> QED
    BY <1>1, <1>2, <1>3 DEF handle_data_pdu_segment

(* The expiry of the reordering timer sets vr_ms to vr_x and skips what was
   received: it never moves the horizon back.                              *)
LEMMA TimerExpiredInv ==
  ASSUME RxInv, reordering_timer_expired
  PROVE  RxInv' /\ HorizonAdvances
  <1>1. PICK m \in 0 .. WINDOW :
          /\ SkipsHeld(DOMAIN rx_window, vr_x, m)
          /\ vr_ms' = Add(vr_x, m)
          /\ reordering_timer' = (RX_MOD_BASE(vr_h) > RX_MOD_BASE(Add(vr_x, m)))
          /\ vr_x' = IF RX_MOD_BASE(vr_h) > RX_MOD_BASE(Add(vr_x, m)) THEN vr_h ELSE vr_x
          /\ do_status' = (do_status \/ poll_received)
    BY DEF reordering_timer_expired
  <1> DEFINE ms == Add(vr_x, m)
             H == Base(vr_h, vr_r)
             S == Base(vr_ms, vr_r)
             X == Base(vr_x, vr_r)
  <1>2. /\ reordering_timer /\ poll_received' = poll_received
        /\ vr_r' = vr_r /\ vr_mr' = vr_mr /\ vr_h' = vr_h /\ rx_window' = rx_window
        /\ status_prohibit_timer' = status_prohibit_timer
    BY DEF reordering_timer_expired
  <1>3. /\ X \in 0 .. WINDOW /\ X <= H /\ X > 0
        /\ \A s \in SN : X <= Base(s, vr_r) /\ Base(s, vr_r) < S => s \in DOMAIN rx_window
    <2>1. X \in 0 .. MOD - 1 /\ X <= H /\ vr_x # vr_r
      BY <1>2, InvDistances DEF RxInv, ReorderingTimerRange, RX_MOD_BASE
    <2>2. X # 0
      BY <2>1, InvDistances, BaseSelf, BaseInjective
    <2>3. \A s \in SN : X <= Base(s, vr_r) /\ Base(s, vr_r) < S => s \in DOMAIN rx_window
      BY <1>2 DEF RxInv, ReorderingTimerRange, RX_MOD_BASE
    <2> QED
      BY <2>1, <2>2, <2>3, InvDistances, ModType
  <1>4. H \in 0 .. WINDOW /\ \A s \in DOMAIN rx_window : Base(s, vr_r) < H
    BY InvDistances DEF RxInv, RxWindowContents, RX_MOD_BASE
  <1>5. Base(ms, vr_r) = X + m /\ X + m <= H /\ ms \notin DOMAIN rx_window
    BY <1>1, <1>3, <1>4, InvDistances, SkipBound
  <1>6. ms \in SN
    BY InvDistances, AddLinear, ModType
  <1>7. S <= X + m
    BY <1>3, <1>5, <1>6, InvDistances
  <1>8. reordering_timer' = (H > X + m) /\ vr_x' = (IF H > X + m THEN vr_h ELSE vr_x)
    BY <1>1, <1>5 DEF RX_MOD_BASE
  <1>9. \A s \in SN : Base(s, vr_r) \in 0 .. MOD - 1
    BY InvDistances, BaseLinear
  <1> HIDE DEF ms
  <1>10. RxWindowTypeOK'
    <2>1. reordering_timer' \in BOOLEAN
      <3>1. (H > X + m) \in BOOLEAN
        BY SMT
      <3> QED
        BY <1>8, <3>1, Zenon
    <2>2. vr_ms' \in SN /\ vr_x' \in SN
      BY <1>1, <1>6, <1>8, InvDistances DEF ms
    <2>3. do_status' \in BOOLEAN /\ poll_received' \in BOOLEAN
      BY <1>1, <1>2 DEF RxInv, RxWindowTypeOK
    <2> QED
      BY <2>1, <2>2, <2>3, <1>2 DEF RxInv, RxWindowTypeOK
  <1>11. vr_ms' = ms
    BY <1>1 DEF ms
  <1>12. RxWindowOrder' /\ RxWindowContents'
    BY <1>2, <1>5, <1>11 DEF RxInv, RxWindowOrder, RxWindowContents, RX_MOD_BASE
  <1>13. ReorderingTimerRange'
    <2>1. CASE H > X + m
      <3>1. vr_x' = vr_h /\ vr_h # vr_r
        BY <2>1, <1>3, <1>4, <1>8, InvDistances, BaseSelf
      <3> QED
        BY <3>1, <1>2, <1>3, <1>4, <1>5, <1>9, <1>11 DEF ReorderingTimerRange, RX_MOD_BASE
    <2>2. CASE ~(H > X + m)
      BY <2>2, <1>8 DEF ReorderingTimerRange
    <2> QED
      BY <2>1, <2>2
  <1>14. GapIsTimed'
    <2>1. ASSUME NEW s \in DOMAIN rx_window, Base(s, vr_r) > X + m
          PROVE  H > X + m
      <3>1. s \in SN
        BY InvDistances
      <3> QED
        BY <3>1, <2>1, <1>3, <1>4, <1>9
    <2> QED
      BY <2>1, <1>2, <1>5, <1>8, <1>11 DEF GapIsTimed, RX_MOD_BASE
  <1>15. HorizonAdvances
    <2>1. Base(vr_r, vr_r) = 0
      BY InvDistances, BaseSelf
    <2> QED
      BY <2>1, <1>2, <1>3, <1>4, <1>5, <1>7, <1>11, InvDistances
         DEF HorizonAdvances, RX_MOD_BASE
  <1> QED
    BY <1>10, <1>12, <1>13, <1>14, <1>15 DEF RxInv

-----------------------------------------------------------------------------
(* The reset values satisfy the invariant. *)
LEMMA ResetInv ==
  ASSUME vr_r = 0, vr_mr = WINDOW, vr_x = 0, vr_ms = 0, vr_h = 0, rx_window = <<>>,
         reordering_timer = FALSE, status_prohibit_timer = FALSE,
         poll_received = FALSE, do_status = FALSE
  PROVE  RxInv
  <1>1. 0 \in SN /\ WINDOW \in SN
    BY ModType DEF SN
  <1>2. DOMAIN rx_window = {}
    OBVIOUS
  <1>3. Base(0, 0) = 0
    BY <1>1, BaseSelf
  <1>4. Add(0, WINDOW) = WINDOW
    BY <1>1, AddLinear, ModType
  <1>5. RxWindowTypeOK
    BY <1>1, <1>2 DEF RxWindowTypeOK
  <1>6. RxWindowOrder
    BY <1>3, <1>4, ModType DEF RxWindowOrder, RX_MOD_BASE
  <1>7. RxWindowContents
    BY <1>2 DEF RxWindowContents
  <1>8. ReorderingTimerRange /\ GapIsTimed
    BY <1>2 DEF ReorderingTimerRange, GapIsTimed
  <1> QED
    BY <1>5, <1>6, <1>7, <1>8 DEF RxInv

(* Every step keeps the invariant, and moves the horizon forward or resets. *)
LEMMA StepInv ==
  ASSUME RxInv, [RxNext]_rxVars
  PROVE  RxInv' /\ (Reestablished \/ HorizonAdvances)
  <1>1. ASSUME NEW pdu \in DataPdus, handle_data_pdu(pdu)
        PROVE  RxInv' /\ HorizonAdvances
    <2>1. pdu.sn \in SN /\ pdu.p \in BOOLEAN
      BY PduAssumption
    <2>2. status_prohibit_timer' \in BOOLEAN
      BY <1>1 DEF handle_data_pdu, RxInv, RxWindowTypeOK
    <2>3. \/ handle_data_pdu_segment(pdu)
          \/ handle_data_pdu_full(pdu.sn, pdu.p, pdu.data, rx_segments, do_status)
      BY <1>1 DEF handle_data_pdu
    <2> QED
      BY <2>1, <2>2, <2>3, SegmentInv, FullPduInv DEF RxInv, RxWindowTypeOK
  <1>2. CASE reordering_timer_expired
    BY <1>2, TimerExpiredInv
  <1>3. ASSUME NEW grant \in StatusGrants, build_status_pdu(grant)
        PROVE  RxInv' /\ HorizonAdvances
    <2>1. UNCHANGED <<windowVars, reordering_timer>>
      BY <1>3 DEF build_status_pdu
    <2>2. /\ poll_received' \in BOOLEAN /\ do_status' \in BOOLEAN
          /\ status_prohibit_timer' \in BOOLEAN
      BY <1>3, GrantAssumption DEF build_status_pdu, pollVars, RxInv, RxWindowTypeOK
    <2> QED
      BY <2>1, <2>2, SameWindow
  <1>4. CASE status_prohibit_expired
    <2>1. /\ UNCHANGED <<windowVars, reordering_timer>>
          /\ poll_received' \in BOOLEAN /\ do_status' \in BOOLEAN
          /\ status_prohibit_timer' \in BOOLEAN
      BY <1>4 DEF status_prohibit_expired, pollVars, RxInv, RxWindowTypeOK
    <2> QED
      BY <2>1, SameWindow
  <1>5. CASE rx_reestablish
    <2>1. RxInv'
      <3>1. /\ vr_r' = 0 /\ vr_mr' = WINDOW /\ vr_x' = 0 /\ vr_ms' = 0 /\ vr_h' = 0
            /\ rx_window' = <<>> /\ reordering_timer' = FALSE
            /\ status_prohibit_timer' = FALSE
            /\ poll_received' = FALSE /\ do_status' = FALSE
        BY <1>5 DEF rx_reestablish
      <3>2. 0 \in SN /\ WINDOW \in SN
        BY ModType DEF SN
      <3>3. DOMAIN rx_window' = {}
        BY <3>1
      <3>4. Base(0, 0) = 0
        BY <3>2, BaseSelf
      <3>5. Add(0, WINDOW) = WINDOW
        BY <3>2, AddLinear, ModType
      <3>6. RxWindowTypeOK'
        BY <3>1, <3>2, <3>3 DEF RxWindowTypeOK
      <3>7. RxWindowOrder'
        BY <3>1, <3>4, <3>5, ModType DEF RxWindowOrder, RX_MOD_BASE
      <3>8. RxWindowContents'
        BY <3>3 DEF RxWindowContents
      <3>9. ReorderingTimerRange' /\ GapIsTimed'
        BY <3>1, <3>3 DEF ReorderingTimerRange, GapIsTimed
      <3> QED
        BY <3>6, <3>7, <3>8, <3>9 DEF RxInv
    <2> QED
      BY <1>5, <2>1 DEF rx_reestablish, Reestablished
  <1>6. CASE UNCHANGED rxVars
    <2>1. /\ UNCHANGED <<windowVars, reordering_timer>>
          /\ poll_received' \in BOOLEAN /\ do_status' \in BOOLEAN
          /\ status_prohibit_timer' \in BOOLEAN
      BY <1>6 DEF rxVars, pollVars, RxInv, RxWindowTypeOK
    <2> QED
      BY <2>1, SameWindow
  <1> QED
    BY <1>1, <1>2, <1>3, <1>4, <1>5, <1>6 DEF RxNext

(* The invariant holds in every state of the receiver, for every window size,
   whatever PDUs arrive in whatever order and whatever grants MAC gives.   *)
THEOREM RxInvariance == RxSpec => []RxInv
  <1>1. RxInit => RxInv
    BY ResetInv DEF RxInit
  <1>2. RxInv /\ [RxNext]_rxVars => RxInv'
    BY StepInv
  <1> QED
    BY <1>1, <1>2, PTL DEF RxSpec

(* The order vr_r <= vr_ms <= vr_h <= vr_mr of the state variables. *)
THEOREM RxWindowOrderHolds == RxSpec => []RxWindowOrder
  <1>1. RxInv => RxWindowOrder
    BY DEF RxInv
  <1> QED
    BY <1>1, RxInvariance, PTL

(* What rx_window holds: no two SNs that share a slot of the ring. *)
THEOREM RxWindowContentsHolds == RxSpec => []RxWindowContents
  <1>1. RxInv => RxWindowContents
    BY DEF RxInv
  <1> QED
    BY <1>1, RxInvariance, PTL

(* The range of vr_x while the reordering timer runs. *)
THEOREM ReorderingTimerRangeHolds == RxSpec => []ReorderingTimerRange
  <1>1. RxInv => ReorderingTimerRange
    BY DEF RxInv
  <1> QED
    BY <1>1, RxInvariance, PTL

(* No gap below a received PDU is forgotten by the reordering timer. *)
THEOREM GapIsTimedHolds == RxSpec => []GapIsTimed
  <1>1. RxInv => GapIsTimed
    BY DEF RxInv
  <1> QED
    BY <1>1, RxInvariance, PTL

(* The horizon of what has been reported to the peer never moves back. *)
THEOREM HorizonMonotonicHolds == RxSpec => HorizonMonotonic
  <1>1. RxInv /\ [RxNext]_rxVars =>
          [Reestablished \/ /\ RX_MOD_BASE(vr_ms) <= RX_MOD_BASE(vr_ms')
                            /\ RX_MOD_BASE(vr_h) <= RX_MOD_BASE(vr_h')
                            /\ RX_MOD_BASE(vr_r') <= RX_MOD_BASE(vr_ms')]_rxVars
    BY StepInv DEF HorizonAdvances
  <1> QED
    BY <1>1, RxInvariance, PTL DEF RxSpec, HorizonMonotonic

-----------------------------------------------------------------------------
(* What get_status_pdu reports. *)

(* One more SN of the window is missing, or not: the SNs missing below a limit
   are counted up one by one.                                                *)
LEMMA MissingGrows ==
  ASSUME RxInv, NEW d \in 0 .. WINDOW - 1
  PROVE  LET sn == Add(vr_r, d) IN
         /\ sn \in SN /\ RX_MOD_BASE(sn) = d
         /\ Missing(d + 1) = IF sn \in DOMAIN rx_window THEN Missing(d) ELSE Missing(d) \cup {sn}
  <1> DEFINE sn == Add(vr_r, d)
  <1>1. sn \in SN
    BY InvDistances, AddLinear, ModType
  <1>2. RX_MOD_BASE(sn) = d
    <2>1. Base(vr_r, vr_r) = 0
      BY InvDistances, BaseSelf
    <2>2. Base(sn, vr_r) = 0 + d
      BY <2>1, InvDistances, BaseOfAdd, ModType
    <2> QED
      BY <2>2 DEF RX_MOD_BASE
  <1> HIDE DEF sn
  <1>3. \A s \in SN : RX_MOD_BASE(s) \in Nat /\ (RX_MOD_BASE(s) = d => s = sn)
    BY <1>1, <1>2, InvDistances, BaseLinear, BaseInjective DEF RX_MOD_BASE
  <1>4. \A s \in SN : RX_MOD_BASE(s) < d + 1 <=> RX_MOD_BASE(s) < d \/ s = sn
    BY <1>2, <1>3
  <1>5. Missing(d + 1) = IF sn \in DOMAIN rx_window THEN Missing(d) ELSE Missing(d) \cup {sn}
    BY <1>1, <1>4 DEF Missing
  <1> QED
    BY <1>1, <1>2, <1>5 DEF sn

(* The SNs are finitely many. *)
LEMMA MissingFinite ==
  ASSUME NEW d
  PROVE  IsFiniteSet(Missing(d)) /\ Cardinality(Missing(d)) \in Nat
  <1>1. IsFiniteSet(SN)
    BY FS_Interval, ModType DEF SN
  <1>2. Missing(d) \in SUBSET SN
    BY DEF Missing
  <1> QED
    BY <1>1, <1>2, FS_Subset, FS_CardinalityType

(* When not all the NACKs fit, there is one that is the first not to fit. *)
LEMMA CutExists ==
  ASSUME RxInv, NEW max \in Nat, Cardinality(Missing(RX_MOD_BASE(vr_ms))) > max
  PROVE  \E sn \in Missing(RX_MOD_BASE(vr_ms)) : Cardinality(Missing(RX_MOD_BASE(sn))) = max
  <1> DEFINE M == RX_MOD_BASE(vr_ms)
             c(d) == Cardinality(Missing(d))
             D == {d \in 0 .. M : c(d) > max}
  <1>1. M \in 0 .. WINDOW
    BY InvDistances DEF RX_MOD_BASE
  <1>2. D \in SUBSET Nat /\ M \in D
    BY <1>1
  <1>3. PICK d \in D : \A e \in D : d <= e
    <2> HIDE DEF D
    <2> QED
      BY <1>2, LeastElement
  <1>4. d # 0
    <2>1. \A sn \in SN : ~(RX_MOD_BASE(sn) < 0)
      BY InvDistances, BaseLinear, ModType DEF RX_MOD_BASE
    <2>2. Missing(0) = {}
      BY <2>1 DEF Missing
    <2>3. c(0) = 0
      BY <2>2, FS_EmptySet
    <2> QED
      BY <1>3, <2>3
  <1> DEFINE e == d - 1
             sn == Add(vr_r, e)
  <1>5. e \in 0 .. WINDOW - 1 /\ e \in 0 .. M /\ d = e + 1 /\ e < M
    <2>1. d \in 0 .. M
      BY <1>3
    <2> HIDE DEF M, D
    <2> QED
      BY <1>1, <1>4, <2>1, ModType
  <1>6. ~(c(e) > max) /\ c(e) \in Nat /\ c(d) > max
    <2>1. e \notin D
      <3> HIDE DEF D
      <3> QED
        BY <1>3, <1>5
    <2> QED
      BY <1>3, <1>5, <2>1, MissingFinite
  <1>7. /\ sn \in SN /\ RX_MOD_BASE(sn) = e
        /\ Missing(e + 1) = IF sn \in DOMAIN rx_window THEN Missing(e) ELSE Missing(e) \cup {sn}
    BY <1>5, MissingGrows
  <1> HIDE DEF sn, e, D
  <1>8. sn \notin DOMAIN rx_window
    BY <1>5, <1>6, <1>7
  <1>9. c(d) <= c(e) + 1
    <2>1. Missing(d) = Missing(e) \cup {sn}
      BY <1>5, <1>7, <1>8
    <2>2. Cardinality(Missing(e) \cup {sn}) = IF sn \in Missing(e) THEN c(e) ELSE c(e) + 1
      BY MissingFinite, FS_AddElement
    <2> QED
      BY <1>6, <2>1, <2>2
  <1>10. c(e) = max
    BY <1>6, <1>9, MissingFinite
  <1>11. sn \in Missing(M)
    BY <1>5, <1>7, <1>8 DEF Missing
  <1> QED
    BY <1>7, <1>10, <1>11

(* What StatusIsTrue says of one STATUS PDU, and where its NACKs lie. *)
ReportsTruly(st) ==
  /\ RX_MOD_BASE(st.ack) <= RX_MOD_BASE(vr_ms)
  /\ \A sn \in SN : RX_MOD_BASE(sn) < RX_MOD_BASE(st.ack) =>
       (sn \in DOMAIN rx_window <=> sn \notin st.nacks)
  /\ \A sn \in st.nacks : RX_MOD_BASE(sn) < RX_MOD_BASE(vr_ms)

(* A status is true whatever the grant leaves of it. *)
LEMMA StatusPduTrue ==
  ASSUME RxInv, NEW max \in Nat
  PROVE  StatusPdu(max) \in [ack : SN, nacks : SUBSET SN] /\ ReportsTruly(StatusPdu(max))
  <1> DEFINE off(sn) == RX_MOD_BASE(sn)
             all == Missing(off(vr_ms))
             cut == CHOOSE sn \in all : Cardinality(Missing(off(sn))) = max
             fit == Missing(off(cut))
             got == {sn \in DOMAIN rx_window : off(sn) < off(cut)}
             last == CHOOSE sn \in got : \A s \in got : off(s) <= off(sn)
  <1>1. /\ vr_ms \in SN /\ vr_r \in SN /\ off(vr_r) = 0 /\ off(vr_ms) \in Nat
        /\ \A sn \in SN : off(sn) \in 0 .. MOD - 1
        /\ DOMAIN rx_window \in SUBSET SN
    BY InvDistances, BaseSelf, BaseLinear DEF RX_MOD_BASE
  <1>2. \A d : Missing(d) \in SUBSET SN
    BY DEF Missing
  <1>3. CASE Cardinality(all) <= max
    <2>1. StatusPdu(max) = [ack |-> IF Cardinality(all) < WINDOW THEN vr_ms ELSE vr_r, nacks |-> all]
      BY <1>3 DEF StatusPdu
    <2>2. \A sn \in SN : off(sn) < off(vr_ms) => (sn \in DOMAIN rx_window <=> sn \notin all)
      BY DEF Missing
    <2>3. \A sn \in SN : ~(off(sn) < off(vr_r))
      BY <1>1, ModType
    <2>4. \A sn \in all : off(sn) < off(vr_ms)
      BY DEF Missing
    <2> HIDE DEF all, off
    <2> QED
      BY <1>1, <1>2, <2>1, <2>2, <2>3, <2>4 DEF ReportsTruly, off, all
  <1>4. CASE ~(Cardinality(all) <= max) /\ got # {} /\ \A s \in fit : off(s) < off(last)
    <2>1. StatusPdu(max) = [ack |-> last, nacks |-> fit]
      BY <1>4 DEF StatusPdu
    <2>2. cut \in all
      <3>1. Cardinality(all) > max
        BY <1>4, MissingFinite
      <3> QED
        BY <3>1, CutExists
    <2>3. off(cut) < off(vr_ms)
      BY <2>2 DEF Missing
    <2>4. \E sn \in got : \A s \in got : off(s) <= off(sn)
      <3> DEFINE O == {off(s) : s \in got}
      <3>1. O \in SUBSET Nat /\ \A y \in O : y <= MOD
        BY <1>1, ModType
      <3>2. PICK g \in got : TRUE
        BY <1>4
      <3>3. off(g) \in O
        BY <3>2
      <3> HIDE DEF O
      <3>4. PICK x \in O : \A y \in O : y <= x
        BY <3>1, <3>3, GreatestElement, ModType
      <3> QED
        BY <3>4 DEF O
    <2>5. last \in got
      BY <2>4
    <2>6. last \in SN /\ off(last) < off(cut)
      BY <1>1, <2>5
    <2>7. cut \in SN
      BY <1>2, <2>2
    <2> HIDE DEF last, cut
    <2>8. \A sn \in SN : off(sn) < off(last) => (sn \in DOMAIN rx_window <=> sn \notin fit)
      <3>1. \A sn \in SN : off(sn) < off(last) => off(sn) < off(cut)
        BY <1>1, <2>6, <2>7
      <3> QED
        BY <3>1 DEF Missing
    <2>9. off(last) <= off(vr_ms)
      BY <1>1, <2>3, <2>6, <2>7
    <2>10. \A sn \in fit : off(sn) < off(vr_ms)
      <3>1. \A sn \in SN : off(sn) < off(cut) => off(sn) < off(vr_ms)
        BY <1>1, <2>3, <2>7
      <3> QED
        BY <3>1 DEF Missing
    <2> HIDE DEF fit, off
    <2> QED
      BY <1>2, <2>1, <2>6, <2>8, <2>9, <2>10 DEF ReportsTruly, off, fit
  <1>5. CASE ~(Cardinality(all) <= max) /\ ~(got # {} /\ \A s \in fit : off(s) < off(last))
    <2>1. StatusPdu(max) = [ack |-> vr_r, nacks |-> {}]
      BY <1>5 DEF StatusPdu
    <2> QED
      BY <1>1, <2>1 DEF ReportsTruly
  <1> QED
    BY <1>3, <1>4, <1>5

-----------------------------------------------------------------------------
(* The types of the payload and of the status channel. *)

(* A list of segments is a set in which offsets differ. *)
DistinctOffsets(segs) == \A s, t \in segs : s.so = t.so => s = t

RxPayloadTypeOK ==
  /\ DOMAIN rx_segments \subseteq SN
  /\ \A sn \in DOMAIN rx_segments : DistinctOffsets(rx_segments[sn])
  /\ statusCh \in Seq([ack : SN, nacks : SUBSET SN])

(* handle_data_pdu_full, for lists of segments that are well formed *)
LEMMA FullPduType ==
  ASSUME RxPayloadTypeOK, NEW sn, NEW p, NEW data, NEW segs, NEW asked,
         DOMAIN segs \subseteq SN, \A s \in DOMAIN segs : DistinctOffsets(segs[s]),
         UNCHANGED statusCh, handle_data_pdu_full(sn, p, data, segs, asked)
  PROVE  RxPayloadTypeOK'
  <1>1. CASE DiscardPdu(p, segs, asked)
    BY <1>1 DEF DiscardPdu, RxPayloadTypeOK
  <1>2. ASSUME NEW m \in 0 .. WINDOW, NEW n \in 0 .. WINDOW,
               AcceptPdu(sn, p, data, segs, asked, m, n)
        PROVE  RxPayloadTypeOK'
    <2> DEFINE passed == {Add(vr_r, i) : i \in 0 .. n - 1}
    <2>1. rx_segments' = [s \in DOMAIN segs |-> IF s \in passed THEN {} ELSE segs[s]]
      BY <1>2 DEF AcceptPdu
    <2> HIDE DEF passed
    <2>2. DistinctOffsets({})
      BY DEF DistinctOffsets
    <2>3. DOMAIN rx_segments' = DOMAIN segs
      BY <2>1
    <2>4. \A s \in DOMAIN segs : DistinctOffsets(rx_segments'[s])
      BY <2>1, <2>2
    <2> QED
      BY <2>3, <2>4 DEF RxPayloadTypeOK
  <1> QED
    BY <1>1, <1>2 DEF handle_data_pdu_full

(* handle_data_pdu_segment *)
LEMMA SegmentType ==
  ASSUME RxPayloadTypeOK, NEW seg, seg.sn \in SN, UNCHANGED statusCh, handle_data_pdu_segment(seg)
  PROVE  RxPayloadTypeOK'
  <1> DEFINE new == [so |-> seg.so, data |-> seg.data, lsf |-> seg.lsf, p |-> seg.p]
  <1>1. CASE DiscardPdu(seg.p, rx_segments, do_status)
    BY <1>1 DEF DiscardPdu, RxPayloadTypeOK
  <1>2. CASE seg.sn \in DOMAIN rx_segments /\ AddSegmentAndCheck(seg)
    <2> DEFINE segs == PruneSegments(InsertSegment(rx_segments[seg.sn], new))
               others == [s \in DOMAIN rx_segments \ {seg.sn} |-> rx_segments[s]]
    <2>1. DistinctOffsets(rx_segments[seg.sn])
      BY <1>2 DEF RxPayloadTypeOK
    <2>2. DistinctOffsets(InsertSegment(rx_segments[seg.sn], new))
      BY <2>1 DEF InsertSegment, DistinctOffsets
    <2>3. DistinctOffsets(segs)
      BY <2>2 DEF PruneSegments, DistinctOffsets
    <2>4. CASE rx_segments' = [rx_segments EXCEPT ![seg.sn] = segs]
      <3> HIDE DEF segs
      <3>1. DOMAIN rx_segments' = DOMAIN rx_segments
        BY <2>4
      <3>2. \A s \in DOMAIN rx_segments : DistinctOffsets(rx_segments'[s])
        BY <1>2, <2>3, <2>4 DEF RxPayloadTypeOK
      <3> QED
        BY <3>1, <3>2 DEF RxPayloadTypeOK
    <2>5. ASSUME NEW p, NEW data, NEW asked, handle_data_pdu_full(seg.sn, p, data, others, asked)
          PROVE  RxPayloadTypeOK'
      <3>1. DOMAIN others \subseteq SN /\ \A s \in DOMAIN others : DistinctOffsets(others[s])
        BY DEF RxPayloadTypeOK
      <3> HIDE DEF others
      <3> QED
        BY <2>5, <3>1, FullPduType
    <2> QED
      BY <1>2, <2>4, <2>5 DEF AddSegmentAndCheck
  <1>3. CASE seg.sn \notin DOMAIN rx_segments /\ NewSegmentList(seg)
    <2>1. rx_segments' = [s \in DOMAIN rx_segments \union {seg.sn} |->
                            IF s = seg.sn THEN {new} ELSE rx_segments[s]]
      BY <1>3 DEF NewSegmentList
    <2>2. DistinctOffsets({new})
      BY DEF DistinctOffsets
    <2> HIDE DEF new
    <2>3. DOMAIN rx_segments' = DOMAIN rx_segments \union {seg.sn}
      BY <2>1
    <2>4. \A s \in DOMAIN rx_segments' : DistinctOffsets(rx_segments'[s])
      BY <2>1, <2>2, <2>3 DEF RxPayloadTypeOK
    <2> QED
      BY <2>3, <2>4 DEF RxPayloadTypeOK
  <1> QED
    BY <1>1, <1>2, <1>3 DEF handle_data_pdu_segment

(* What a step adds to the status channel is true, and nothing but a status
   that was built is added.                                                *)
StatusAddedIsTrue ==
  \A st \in {statusCh'[i] : i \in Len(statusCh) + 1 .. Len(statusCh')} : ReportsTruly(st)

(* build_status_pdu *)
LEMMA BuildStatusType ==
  ASSUME RxInv, RxPayloadTypeOK, NEW grant \in StatusGrants, build_status_pdu(grant)
  PROVE  RxPayloadTypeOK' /\ StatusAddedIsTrue
  <1>1. UNCHANGED rx_segments
    BY DEF build_status_pdu, payloadVars
  <1>2. CASE UNCHANGED statusCh
    <2>1. UNCHANGED statusCh
      BY <1>2
    <2>2. Len(statusCh) \in Nat
      BY DEF RxPayloadTypeOK
    <2> QED
      BY <1>1, <2>1, <2>2 DEF RxPayloadTypeOK, StatusAddedIsTrue
  <1>3. CASE grant > 0 /\ statusCh' = Append(statusCh, StatusPdu(grant - 1))
    <2> DEFINE st == StatusPdu(grant - 1)
    <2>1. grant - 1 \in Nat
      BY <1>3, GrantAssumption
    <2>2. st \in [ack : SN, nacks : SUBSET SN] /\ ReportsTruly(st)
      BY <2>1, StatusPduTrue
    <2>3. statusCh' = Append(statusCh, st)
      BY <1>3
    <2> HIDE DEF st
    <2>4. statusCh' \in Seq([ack : SN, nacks : SUBSET SN])
      BY <2>2, <2>3 DEF RxPayloadTypeOK
    <2>5. \A i \in Len(statusCh) + 1 .. Len(statusCh') : statusCh'[i] = st
      BY <2>3 DEF RxPayloadTypeOK
    <2> QED
      BY <1>1, <2>2, <2>4, <2>5 DEF RxPayloadTypeOK, StatusAddedIsTrue
  <1> QED
    BY <1>2, <1>3 DEF build_status_pdu

(* Every step keeps the types, and every status it builds is true. *)
LEMMA StepType ==
  ASSUME RxInv, RxPayloadTypeOK, [RxNext]_rxVars
  PROVE  RxPayloadTypeOK' /\ StatusAddedIsTrue
  <1>1. Len(statusCh) \in Nat /\ (UNCHANGED statusCh => StatusAddedIsTrue)
    BY DEF RxPayloadTypeOK, StatusAddedIsTrue
  <1>2. ASSUME NEW pdu \in DataPdus, handle_data_pdu(pdu)
        PROVE  RxPayloadTypeOK' /\ UNCHANGED statusCh
    <2>1. pdu.sn \in SN
      BY PduAssumption
    <2>2. DOMAIN rx_segments \subseteq SN /\ \A s \in DOMAIN rx_segments : DistinctOffsets(rx_segments[s])
      BY DEF RxPayloadTypeOK
    <2> QED
      BY <1>2, <2>1, <2>2, SegmentType, FullPduType DEF handle_data_pdu
  <1>3. ASSUME NEW grant \in StatusGrants, build_status_pdu(grant)
        PROVE  RxPayloadTypeOK' /\ StatusAddedIsTrue
    BY <1>3, BuildStatusType
  <1>4. CASE reordering_timer_expired \/ status_prohibit_expired \/ UNCHANGED rxVars
    BY <1>1, <1>4 DEF reordering_timer_expired, status_prohibit_expired, rxVars, payloadVars, RxPayloadTypeOK
  <1>5. CASE rx_reestablish
    <2>1. statusCh' = <<>> /\ rx_segments' = <<>>
      BY <1>5 DEF rx_reestablish
    <2>2. DOMAIN rx_segments' = {} /\ Len(statusCh') = 0
      BY <2>1
    <2> QED
      BY <1>1, <2>1, <2>2 DEF RxPayloadTypeOK, StatusAddedIsTrue
  <1> QED
    BY <1>1, <1>2, <1>3, <1>4, <1>5 DEF RxNext

(* The types of the payload hold in every behaviour. *)
LEMMA RxPayloadTypeHolds == RxSpec => []RxPayloadTypeOK
  <1>1. RxInit => RxPayloadTypeOK
    <2> SUFFICES ASSUME RxInit PROVE RxPayloadTypeOK
      OBVIOUS
    <2>1. statusCh = <<>> /\ rx_segments = <<>>
      BY DEF RxInit
    <2>2. DOMAIN rx_segments = {}
      BY <2>1
    <2> QED
      BY <2>1, <2>2 DEF RxPayloadTypeOK
  <1>2. RxInv /\ RxPayloadTypeOK /\ [RxNext]_rxVars => RxPayloadTypeOK'
    BY StepType
  <1> QED
    BY <1>1, <1>2, RxInvariance, PTL DEF RxSpec

(* The receiver's variables have their types: SNs below MOD, lists in which no
   two segments have one offset, STATUS PDUs that name SNs.                *)
THEOREM RxTypeCorrect == RxSpec => []RxTypeOK
  <1>1. RxInv /\ RxPayloadTypeOK => RxTypeOK
    <2> SUFFICES ASSUME RxInv, RxPayloadTypeOK PROVE RxTypeOK
      OBVIOUS
    <2>1. \A sn \in DOMAIN rx_segments : \A s, t \in rx_segments[sn] : s.so = t.so => s = t
      BY DEF RxPayloadTypeOK, DistinctOffsets
    <2>2. \A i \in 1 .. Len(statusCh) : statusCh[i] \in [ack : SN, nacks : SUBSET SN]
      <3> DEFINE Status == [ack : SN, nacks : SUBSET SN]
      <3>1. statusCh \in Seq(Status)
        BY DEF RxPayloadTypeOK
      <3> HIDE DEF Status
      <3>2. \A i \in 1 .. Len(statusCh) : statusCh[i] \in Status
        BY <3>1
      <3> QED
        BY <3>2 DEF Status
    <2>3. \A i \in 1 .. Len(statusCh) : statusCh[i].ack \in SN /\ statusCh[i].nacks \subseteq SN
      BY <2>2
    <2> QED
      BY <2>1, <2>3 DEF RxInv, RxPayloadTypeOK, RxTypeOK
  <1> QED
    BY <1>1, RxInvariance, RxPayloadTypeHolds, PTL

(* Every STATUS PDU is true of the window it was built from, whatever the grant
   cut off it: no SN below ACK_SN is acknowledged that was not received.    *)
THEOREM StatusIsTrueHolds == RxSpec => StatusIsTrue
  <1>1. RxInv /\ RxPayloadTypeOK /\ [RxNext]_rxVars =>
          [\A st \in {statusCh'[i] : i \in Len(statusCh) + 1 .. Len(statusCh')} :
             /\ RX_MOD_BASE(st.ack) <= RX_MOD_BASE(vr_ms)
             /\ \A sn \in SN : RX_MOD_BASE(sn) < RX_MOD_BASE(st.ack) =>
                  (sn \in DOMAIN rx_window <=> sn \notin st.nacks)]_rxVars
    BY StepType DEF StatusAddedIsTrue, ReportsTruly
  <1> QED
    BY <1>1, RxInvariance, RxPayloadTypeHolds, PTL DEF RxSpec, StatusIsTrue
=============================================================================
