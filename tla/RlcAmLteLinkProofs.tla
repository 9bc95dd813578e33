------------------------- MODULE RlcAmLteLinkProofs -------------------------
(***************************************************************************)
(* Transmitter and receiver of an AM bearer keep step, for every window    *)
(* size, any SDUs, any number of faults and of STATUS PDUs in flight.      *)
(***************************************************************************)
EXTENDS RlcAmLteLink, RlcAmLteRxProofs, SequenceTheorems

-----------------------------------------------------------------------------
(* Channels: a sequence, of whatever. *)
IsSeq(s) == s \in Seq(Range(s))

LEMMA RemoveAtSeq ==
  ASSUME NEW S, NEW s \in Seq(S), NEW k \in 1 .. Len(s)
  PROVE  /\ RemoveAt(s, k) \in Seq(S)
         /\ Len(RemoveAt(s, k)) = Len(s) - 1
         /\ \A j \in 1 .. Len(s) - 1 : RemoveAt(s, k)[j] = IF j < k THEN s[j] ELSE s[j + 1]
  <1> DEFINE a == SubSeq(s, 1, k - 1)
             b == SubSeq(s, k + 1, Len(s))
  <1>1. Len(s) \in Nat
    BY LenProperties
  <1>2. \A i \in 1 .. Len(s) : s[i] \in S
    BY ElementOfSeq
  <1>3. a \in Seq(S) /\ Len(a) = k - 1 /\ \A i \in 1 .. k - 1 : a[i] = s[i]
    BY <1>1, <1>2, SubSeqProperties
  <1>4. b \in Seq(S) /\ Len(b) = Len(s) - k /\ \A i \in 1 .. Len(s) - k : b[i] = s[k + i]
    BY <1>1, <1>2, SubSeqProperties
  <1> HIDE DEF a, b
  <1>5. /\ a \o b \in Seq(S) /\ Len(a \o b) = Len(a) + Len(b)
        /\ \A i \in 1 .. Len(a) + Len(b) : (a \o b)[i] = IF i <= Len(a) THEN a[i] ELSE b[i - Len(a)]
    BY <1>3, <1>4, ConcatProperties
  <1>6. RemoveAt(s, k) = a \o b
    BY DEF RemoveAt, a, b
  <1>7. Len(a) + Len(b) = Len(s) - 1
    BY <1>1, <1>3, <1>4
  <1>8. ASSUME NEW j \in 1 .. Len(s) - 1
        PROVE  (a \o b)[j] = IF j < k THEN s[j] ELSE s[j + 1]
    <2>1. (a \o b)[j] = IF j <= k - 1 THEN a[j] ELSE b[j - (k - 1)]
      BY <1>3, <1>5, <1>7
    <2>2. CASE j < k
      <3>1. j \in 1 .. k - 1 /\ j <= k - 1
        BY <1>1, <2>2
      <3> QED
        BY <1>3, <2>1, <2>2, <3>1
    <2>3. CASE ~(j < k)
      <3>1. j - (k - 1) \in 1 .. Len(s) - k /\ ~(j <= k - 1) /\ k + (j - (k - 1)) = j + 1
        BY <1>1, <2>3
      <3> QED
        BY <1>4, <2>1, <2>3, <3>1
    <2> QED
      BY <2>2, <2>3
  <1> QED
    BY <1>5, <1>6, <1>7, <1>8

(* One element less, the others in their order. *)
LEMMA RemoveAtKeeps ==
  ASSUME NEW s, IsSeq(s), NEW k \in 1 .. Len(s)
  PROVE  /\ IsSeq(RemoveAt(s, k)) /\ Len(s) \in Nat /\ Len(RemoveAt(s, k)) = Len(s) - 1
         /\ \A j \in 1 .. Len(s) - 1 : RemoveAt(s, k)[j] = IF j < k THEN s[j] ELSE s[j + 1]
  BY RemoveAtSeq, SeqOfRange, LenProperties DEF IsSeq

LEMMA AppendKeeps ==
  ASSUME NEW s, IsSeq(s), NEW e
  PROVE  /\ IsSeq(Append(s, e)) /\ Len(s) \in Nat /\ Len(Append(s, e)) = Len(s) + 1
         /\ \A j \in 1 .. Len(s) + 1 : Append(s, e)[j] = IF j <= Len(s) THEN s[j] ELSE e
  <1> DEFINE S == Range(s) \union {e}
  <1>1. s \in Seq(S) /\ e \in S
    BY SeqMonotonic DEF IsSeq
  <1> HIDE DEF S
  <1>2. Len(s) \in Nat
    BY <1>1, LenProperties
  <1>3. /\ Append(s, e) \in Seq(S) /\ Len(Append(s, e)) = Len(s) + 1
        /\ \A i \in 1 .. Len(s) : Append(s, e)[i] = s[i]
        /\ Append(s, e)[Len(s) + 1] = e
    BY <1>1, AppendProperties
  <1>4. IsSeq(Append(s, e))
    BY <1>3, SeqOfRange DEF IsSeq
  <1>5. \A j \in 1 .. Len(s) + 1 : j \in 1 .. Len(s) \/ (j = Len(s) + 1 /\ ~(j <= Len(s)))
    BY <1>2
  <1> QED
    BY <1>2, <1>3, <1>4, <1>5

-----------------------------------------------------------------------------
(* The inductive invariant.  All of it is said in distances from vt_a. *)

(* The peer has sn: it has passed it, or holds it. *)
Received(sn) == TX_MOD_BASE(sn) < TX_MOD_BASE(vr_r) \/ sn \in DOMAIN rx_window

Kept(sn) == sn \in DOMAIN tx_window \/ sn = vt_s

(* What a status acknowledges, and the first SN from vt_a that it does not:
   the vr_r with which it was built, or the vt_a of now.                   *)
Acks(st, sn) == TX_MOD_BASE(sn) < TX_MOD_BASE(st.ack) /\ sn \notin st.nacks

FirstOpen(st, x) ==
  /\ TX_MOD_BASE(x) <= TX_MOD_BASE(st.ack)
  /\ ~Acks(st, x)
  /\ \A y \in SN : TX_MOD_BASE(y) < TX_MOD_BASE(x) => Acks(st, y)

(* A status in flight is not stale, it acknowledges what was received, and the
   SN at which it would leave vt_a can be sent again.                        *)
StatusOK(st) ==
  /\ TX_MOD_BASE(st.ack) <= TX_MOD_BASE(vr_ms)
  /\ \A sn \in SN : Acks(st, sn) => Received(sn)
  /\ \E x \in SN : FirstOpen(st, x) /\ Kept(x)

StatusInFlight ==
  /\ \A k \in 1 .. Len(statusCh) : StatusOK(statusCh[k])
  /\ \A j, k \in 1 .. Len(statusCh) : j < k =>
       \A x \in SN : FirstOpen(statusCh[k], x) => ~Acks(statusCh[j], x)

StatusSection == [pc : {"status"}, ack : SN, nacks : SUBSET SN, i : SN, vt_s_local : SN,
                  update_vt_a : BOOLEAN]

(* The status that handle_control_pdu is working on, from stack.i on.  As long
   as update_vt_a holds, stack.i is vt_a; afterwards vt_a stays in the window. *)
StatusInWork ==
  IF stack.pc = "status"
  THEN /\ stack \in StatusSection
       /\ TX_MOD_BASE(stack.i) <= TX_MOD_BASE(stack.ack)
       /\ TX_MOD_BASE(stack.ack) <= TX_MOD_BASE(stack.vt_s_local)
       /\ TX_MOD_BASE(stack.vt_s_local) <= TX_MOD_BASE(vt_s)
       /\ \A sn \in SN : TX_MOD_BASE(stack.i) <= TX_MOD_BASE(sn) /\ Acks(stack, sn) => Received(sn)
       /\ stack.update_vt_a =>
            stack.i = vt_a /\ \E x \in SN : FirstOpen(stack, x) /\ Kept(x)
       /\ ~stack.update_vt_a => TX_MOD_BASE(stack.i) > 0 /\ vt_a \in DOMAIN tx_window
       /\ \A k \in 1 .. Len(statusCh) : \A x \in SN :
            FirstOpen(statusCh[k], x) => ~(TX_MOD_BASE(stack.i) <= TX_MOD_BASE(x) /\ Acks(stack, x))
  ELSE Kept(vt_a)

(* How far vt_a has moved since the PDU d was handed to MAC *)
Age(d) == Base(vt_a, d.vt_a)

(* A PDU in flight was sent at most a window ago and from within the window of
   that time; the peer has received nothing beyond that window while it is in
   flight.                                                                  *)
DataOK(d) ==
  /\ d.vt_a \in SN /\ d.pdu.sn \in SN /\ d.pdu.p \in BOOLEAN
  /\ Age(d) <= WINDOW
  /\ Base(d.pdu.sn, d.vt_a) < WINDOW
  /\ Base(d.pdu.sn, d.vt_a) < Age(d) + TX_MOD_BASE(vt_s)
  /\ TX_MOD_BASE(vr_h) + Age(d) <= WINDOW

DataInFlight ==
  /\ \A k \in 1 .. Len(dataCh) : DataOK(dataCh[k])
  /\ \A j, k \in 1 .. Len(dataCh) : j < k => Age(dataCh[k]) <= Age(dataCh[j])

QueueOK == IsSeq(retx_queue) /\ Len(retx_queue) < WINDOW

(* WindowsAgree, of which these are the inequalities, is what is to be shown. *)
LinkWindowInv ==
  /\ RxInv /\ RxPayloadTypeOK
  /\ vt_a \in SN /\ vt_s \in SN /\ DOMAIN tx_window \subseteq SN
  /\ WindowsAgree
  /\ MissingIsKept
  /\ StatusInFlight
  /\ StatusInWork
  /\ IsSeq(dataCh) /\ DataInFlight
  /\ QueueOK
  /\ NoProtocolFailure

-----------------------------------------------------------------------------
(* Distances from two bases. *)

(* The distance from a, by way of r. *)
LEMMA BaseVia ==
  ASSUME NEW x \in SN, NEW r \in SN, NEW a \in SN
  PROVE  Base(x, a) = IF Base(r, a) + Base(x, r) < MOD THEN Base(r, a) + Base(x, r)
                                                       ELSE Base(r, a) + Base(x, r) - MOD
  <1>1. Base(x, a) = IF x >= a THEN x - a ELSE x - a + MOD
    BY BaseLinear
  <1>2. Base(r, a) = IF r >= a THEN r - a ELSE r - a + MOD
    BY BaseLinear
  <1>3. Base(x, r) = IF x >= r THEN x - r ELSE x - r + MOD
    BY BaseLinear
  <1> QED
    BY <1>1, <1>2, <1>3, ModType DEF SN

(* The base moves up by one. *)
LEMMA BaseNext ==
  ASSUME NEW x \in SN, NEW a \in SN
  PROVE  /\ Add(a, 1) \in SN
         /\ Base(x, Add(a, 1)) = IF Base(x, a) > 0 THEN Base(x, a) - 1 ELSE MOD - 1
         /\ Base(Add(x, 1), a) = IF Base(x, a) < MOD - 1 THEN Base(x, a) + 1 ELSE 0
  <1>1. 1 \in 0 .. MOD
    BY ModType
  <1>2. Add(a, 1) \in SN /\ Add(x, 1) \in SN
    BY <1>1, AddLinear
  <1>3. Base(x, Add(a, 1)) = IF Base(x, a) >= 1 THEN Base(x, a) - 1 ELSE Base(x, a) - 1 + MOD
    BY <1>1, BaseShift
  <1>4. Base(x, a) \in 0 .. MOD - 1
    BY BaseLinear
  <1>5. CASE Base(x, a) < MOD - 1
    <2>1. Base(Add(x, 1), a) = Base(x, a) + 1
      BY <1>1, <1>4, <1>5, BaseOfAdd, ModType
    <2> QED
      BY <1>2, <1>3, <1>4, <1>5, <2>1, ModType
  <1>6. CASE Base(x, a) = MOD - 1
    <2>1. Base(x, a) = IF x >= a THEN x - a ELSE x - a + MOD
      BY BaseLinear
    <2>2. Add(x, 1) = IF x + 1 < MOD THEN x + 1 ELSE x + 1 - MOD
      BY <1>1, AddLinear
    <2>3. Add(x, 1) = a
      BY <1>6, <2>1, <2>2, ModType DEF SN
    <2>4. Base(Add(x, 1), a) = 0
      BY <2>3, BaseSelf
    <2> QED
      BY <1>2, <1>3, <1>4, <1>6, <2>4, ModType
  <1> QED
    BY <1>4, <1>5, <1>6, ModType

-----------------------------------------------------------------------------
(* What a step of the receiver does, as far as the transmitter can tell. *)

(* Nothing that was received is forgotten. *)
KeepsReceived ==
  \A s \in DOMAIN rx_window : s \in DOMAIN rx_window' \/ Base(s, vr_r) < Base(vr_r', vr_r)

RaisesVrH(sn) == vr_h' = vr_h \/ (inside_rx_window(sn) /\ vr_h' = Add(sn, 1))

(* A PDU received in full, or put together from segments. *)
LEMMA FullPduStep ==
  ASSUME RxInv, NEW sn \in SN, NEW p, NEW data, NEW segs, NEW asked,
         handle_data_pdu_full(sn, p, data, segs, asked)
  PROVE  KeepsReceived /\ RaisesVrH(sn)
  <1>1. CASE DiscardPdu(p, segs, asked)
    BY <1>1 DEF DiscardPdu, windowVars, KeepsReceived, RaisesVrH
  <1>2. CASE inside_rx_window(sn) /\ \E m, n \in 0 .. WINDOW : AcceptPdu(sn, p, data, segs, asked, m, n)
    <2>1. PICK m \in 0 .. WINDOW, n \in 0 .. WINDOW : AcceptPdu(sn, p, data, segs, asked, m, n)
      BY <1>2
    <2> DEFINE passed == {Add(vr_r, i) : i \in 0 .. n - 1}
    <2>2. /\ vr_h' = NextVrH(sn) /\ vr_r' = Add(vr_r, n)
          /\ DOMAIN rx_window' = (DOMAIN rx_window \union {sn}) \ passed
      BY <2>1 DEF AcceptPdu
    <2>3. RaisesVrH(sn)
      BY <1>2, <2>2 DEF NextVrH, RaisesVrH
    <2>4. \A i \in 0 .. n : Base(Add(vr_r, i), vr_r) = i
      <3>1. Base(vr_r, vr_r) = 0 /\ vr_r \in SN
        BY InvDistances, BaseSelf
      <3> QED
        BY <3>1, BaseOfAdd, ModType
    <2>5. \A s \in passed : Base(s, vr_r) < Base(vr_r', vr_r)
      BY <2>2, <2>4
    <2> QED
      BY <2>2, <2>3, <2>5 DEF KeepsReceived
  <1> QED
    BY <1>1, <1>2 DEF handle_data_pdu_full

(* handle_data_pdu *)
LEMMA PduStep ==
  ASSUME RxInv, RxPayloadTypeOK, NEW pdu, pdu.sn \in SN, pdu.p \in BOOLEAN, handle_data_pdu(pdu)
  PROVE  /\ RxInv' /\ RxPayloadTypeOK' /\ HorizonAdvances
         /\ KeepsReceived /\ RaisesVrH(pdu.sn) /\ UNCHANGED statusCh
  <1>1. UNCHANGED statusCh /\ status_prohibit_timer' \in BOOLEAN
    BY DEF handle_data_pdu, RxInv, RxWindowTypeOK
  <1>2. DOMAIN rx_segments \subseteq SN /\ \A s \in DOMAIN rx_segments : DistinctOffsets(rx_segments[s])
    BY DEF RxPayloadTypeOK
  <1>3. do_status \in BOOLEAN
    BY DEF RxInv, RxWindowTypeOK
  <1>4. CASE handle_data_pdu_full(pdu.sn, pdu.p, pdu.data, rx_segments, do_status)
    BY <1>1, <1>2, <1>3, <1>4, FullPduInv, FullPduType, FullPduStep
  <1>5. CASE handle_data_pdu_segment(pdu)
    <2>1. RxInv' /\ RxPayloadTypeOK' /\ HorizonAdvances
      BY <1>1, <1>5, SegmentInv, SegmentType
    <2>2. CASE DiscardPdu(pdu.p, rx_segments, do_status)
      BY <1>1, <2>1, <2>2 DEF DiscardPdu, windowVars, KeepsReceived, RaisesVrH
    <2>3. CASE AddSegmentAndCheck(pdu)
      <3>1. CASE UNCHANGED windowVars
        BY <1>1, <2>1, <3>1 DEF windowVars, KeepsReceived, RaisesVrH
      <3>2. ASSUME NEW p, NEW data, NEW segs, NEW asked,
                   handle_data_pdu_full(pdu.sn, p, data, segs, asked)
            PROVE  KeepsReceived /\ RaisesVrH(pdu.sn)
        BY <3>2, FullPduStep
      <3> QED
        BY <1>1, <2>1, <2>3, <3>1, <3>2 DEF AddSegmentAndCheck
    <2>4. CASE inside_rx_window(pdu.sn) /\ NewSegmentList(pdu)
      BY <1>1, <2>1, <2>4 DEF NewSegmentList, NextVrH, KeepsReceived, RaisesVrH
    <2> QED
      BY <1>5, <2>2, <2>3, <2>4 DEF handle_data_pdu_segment
  <1> QED
    BY <1>4, <1>5 DEF handle_data_pdu

-----------------------------------------------------------------------------
(* The distances from vt_a in a state of the invariant. *)
LEMMA LinkDistances ==
  ASSUME LinkWindowInv
  PROVE  /\ vt_a \in SN /\ vt_s \in SN /\ vr_r \in SN /\ vr_ms \in SN /\ vr_h \in SN
         /\ DOMAIN tx_window \subseteq SN /\ DOMAIN rx_window \subseteq SN
         /\ Base(vr_r, vt_a) \in 0 .. WINDOW /\ Base(vr_ms, vt_a) \in 0 .. WINDOW
         /\ Base(vr_h, vt_a) \in 0 .. WINDOW /\ Base(vt_s, vt_a) \in 0 .. WINDOW
         /\ Base(vr_r, vt_a) <= Base(vr_ms, vt_a) /\ Base(vr_ms, vt_a) <= Base(vr_h, vt_a)
         /\ Base(vr_h, vt_a) <= Base(vt_s, vt_a)
         /\ Base(vt_a, vt_a) = 0
         /\ \A x \in SN : Base(x, vt_a) \in 0 .. MOD - 1 /\ Base(x, vr_r) \in 0 .. MOD - 1
         /\ \A sn \in DOMAIN tx_window : Base(sn, vt_a) < Base(vt_s, vt_a)
  <1>1. vt_a \in SN /\ vt_s \in SN /\ DOMAIN tx_window \subseteq SN
    BY DEF LinkWindowInv
  <1>2. vr_r \in SN /\ vr_ms \in SN /\ vr_h \in SN /\ DOMAIN rx_window \subseteq SN
    BY InvDistances DEF LinkWindowInv
  <1>3. \A x \in SN : Base(x, vt_a) \in 0 .. MOD - 1 /\ Base(x, vr_r) \in 0 .. MOD - 1
    BY <1>1, <1>2, BaseLinear
  <1>4. /\ Base(vr_r, vt_a) <= Base(vr_ms, vt_a) /\ Base(vr_ms, vt_a) <= Base(vr_h, vt_a)
        /\ Base(vr_h, vt_a) <= Base(vt_s, vt_a) /\ Base(vt_s, vt_a) <= WINDOW
        /\ \A sn \in DOMAIN tx_window : Base(sn, vt_a) < Base(vt_s, vt_a)
    BY DEF LinkWindowInv, WindowsAgree, TX_MOD_BASE
  <1>5. /\ Base(vr_r, vt_a) \in 0 .. MOD - 1 /\ Base(vr_ms, vt_a) \in 0 .. MOD - 1
        /\ Base(vr_h, vt_a) \in 0 .. MOD - 1 /\ Base(vt_s, vt_a) \in 0 .. MOD - 1
    BY <1>1, <1>2, <1>3
  <1>6. Base(vt_a, vt_a) = 0
    BY <1>1, BaseSelf
  <1> QED
    BY <1>1, <1>2, <1>3, <1>4, <1>5, <1>6, ModType

(* A step of the receiver that takes vr_h no further than vt_s. *)
LEMMA RxMoves ==
  ASSUME LinkWindowInv, RxInv', HorizonAdvances, KeepsReceived,
         Base(vr_r, vt_a) + Base(vr_h', vr_r) <= Base(vt_s, vt_a),
         UNCHANGED <<vt_a, vt_s, tx_window>>
  PROVE  /\ WindowsAgree' /\ MissingIsKept'
         /\ Base(vr_ms, vt_a) <= Base(vr_ms', vt_a)
         /\ Base(vr_h', vt_a) = Base(vr_r, vt_a) + Base(vr_h', vr_r)
         /\ \A sn \in SN : Received(sn) => Received(sn)'
  <1> DEFINE R == Base(vr_r, vt_a)
             S == Base(vt_s, vt_a)
             n == Base(vr_r', vr_r)
             m == Base(vr_ms', vr_r)
             h == Base(vr_h', vr_r)
  <1>1. vr_r' \in SN /\ vr_ms' \in SN /\ vr_h' \in SN /\ DOMAIN rx_window' \subseteq SN
    BY DEF RxInv, RxWindowTypeOK
  <1>2. n \in 0 .. MOD - 1 /\ m \in 0 .. MOD - 1 /\ h \in 0 .. MOD - 1
    BY <1>1, LinkDistances
  <1>3. n <= m /\ Base(vr_ms, vr_r) <= m
    BY DEF HorizonAdvances, RX_MOD_BASE
  <1>4. R \in 0 .. WINDOW /\ S \in 0 .. WINDOW /\ R + h <= S
    BY LinkDistances
  <1>5. m <= h
    BY DEF HorizonAdvances, RX_MOD_BASE
  <1>6. \A x \in SN : R + Base(x, vr_r) < MOD => Base(x, vt_a) = R + Base(x, vr_r)
    BY LinkDistances, BaseVia
  <1>7. Base(vr_r', vt_a) = R + n /\ Base(vr_ms', vt_a) = R + m /\ Base(vr_h', vt_a) = R + h
    <2>1. R + n < MOD /\ R + m < MOD /\ R + h < MOD
      <3> HIDE DEF n, m, h, R, S
      <3> QED
        BY <1>2, <1>3, <1>4, <1>5, ModType
    <2> QED
      BY <1>1, <1>6, <2>1
  <1>8. Base(vr_ms, vt_a) <= Base(vr_ms', vt_a)
    <2>1. R + Base(vr_ms, vr_r) < MOD /\ Base(vr_ms, vr_r) \in Nat
      <3>1. Base(vr_ms, vr_r) \in 0 .. MOD - 1
        BY LinkDistances
      <3> HIDE DEF m, h, R, S
      <3> QED
        BY <1>2, <1>3, <1>4, <1>5, <3>1, ModType
    <2>2. Base(vr_ms, vt_a) = R + Base(vr_ms, vr_r)
      BY <1>6, <2>1, LinkDistances
    <2> HIDE DEF m, R
    <2> QED
      BY <1>2, <1>3, <1>4, <1>7, <2>1, <2>2
  <1>9. WindowsAgree'
    <2>1. /\ R + n <= R + m /\ R + m <= R + h /\ R + h <= S /\ S <= WINDOW
      <3> HIDE DEF n, m, h, R, S
      <3> QED
        BY <1>2, <1>3, <1>4, <1>5
    <2> QED
      BY <1>7, <2>1, LinkDistances DEF WindowsAgree, TX_MOD_BASE
  <1>10. ASSUME NEW sn \in SN, Received(sn) PROVE Received(sn)'
    <2>1. Base(sn, vt_a) \in Nat
      BY LinkDistances
    <2>2. CASE Base(sn, vt_a) < R
      <3>1. Base(sn, vt_a) < R + n
        <4> HIDE DEF R, n
        <4> QED
          BY <1>2, <1>4, <2>1, <2>2
      <3> QED
        BY <1>7, <3>1 DEF Received, TX_MOD_BASE
    <2>3. CASE sn \in DOMAIN rx_window /\ sn \notin DOMAIN rx_window'
      <3>1. Base(sn, vr_r) < n
        BY <2>3 DEF KeepsReceived
      <3>2. Base(sn, vr_r) \in Nat
        BY LinkDistances
      <3>3. R + Base(sn, vr_r) < MOD /\ R + Base(sn, vr_r) < R + n
        <4> HIDE DEF R, n, m, h, S
        <4> QED
          BY <1>2, <1>3, <1>4, <1>5, <3>1, <3>2, ModType
      <3> QED
        BY <1>6, <1>7, <3>3 DEF Received, TX_MOD_BASE
    <2>4. CASE sn \in DOMAIN rx_window'
      BY <2>4 DEF Received
    <2> QED
      BY <1>10, <2>2, <2>3, <2>4 DEF Received, TX_MOD_BASE
  <1>11. MissingIsKept'
    <2> SUFFICES ASSUME NEW sn \in SN, Base(vr_r', vt_a) <= Base(sn, vt_a), Base(sn, vt_a) < S,
                        sn \notin DOMAIN rx_window'
                 PROVE  sn \in DOMAIN tx_window
      BY DEF MissingIsKept, TX_MOD_BASE
    <2>1. ~Received(sn)'
      BY <1>1, <1>7, LinkDistances DEF Received, TX_MOD_BASE
    <2>2. ~Received(sn)
      BY <1>10, <2>1
    <2>3. R <= Base(sn, vt_a)
      BY <2>2, LinkDistances DEF Received, TX_MOD_BASE
    <2> QED
      BY <2>2, <2>3 DEF LinkWindowInv, MissingIsKept, Received, TX_MOD_BASE
  <1> QED
    BY <1>7, <1>8, <1>9, <1>10, <1>11

(* It leaves the statuses as good as they were. *)
LEMMA RxMovesStatus ==
  ASSUME LinkWindowInv, Base(vr_ms, vt_a) <= Base(vr_ms', vt_a), vr_ms' \in SN,
         \A sn \in SN : Received(sn) => Received(sn)',
         UNCHANGED <<vt_a, vt_s, tx_window, stack, statusCh>>
  PROVE  StatusInFlight' /\ StatusInWork'
  <1>1. \A sn \in SN : Kept(sn)' <=> Kept(sn)
    BY DEF Kept
  <1>2. \A st, sn : Acks(st, sn)' <=> Acks(st, sn)
    BY DEF Acks, TX_MOD_BASE
  <1>3. \A st, x : FirstOpen(st, x)' <=> FirstOpen(st, x)
    BY DEF FirstOpen, Acks, TX_MOD_BASE
  <1>4. ASSUME NEW k \in 1 .. Len(statusCh)
        PROVE  StatusOK(statusCh[k])'
    <2>1. StatusOK(statusCh[k])
      BY DEF LinkWindowInv, StatusInFlight
    <2>2. statusCh[k].ack \in SN
      <3> DEFINE Status == [ack : SN, nacks : SUBSET SN]
      <3>1. statusCh \in Seq(Status)
        BY DEF LinkWindowInv, RxPayloadTypeOK
      <3> HIDE DEF Status
      <3>2. statusCh[k] \in Status
        BY <3>1
      <3> QED
        BY <3>2 DEF Status
    <2>3. Base(statusCh[k].ack, vt_a) \in Nat /\ Base(vr_ms, vt_a) \in Nat /\ Base(vr_ms', vt_a) \in Nat
      BY <2>2, LinkDistances
    <2>4. Base(statusCh[k].ack, vt_a) <= Base(vr_ms', vt_a)
      BY <2>1, <2>3 DEF StatusOK, TX_MOD_BASE
    <2> QED
      BY <1>1, <1>2, <1>3, <2>1, <2>4 DEF StatusOK, TX_MOD_BASE
  <1>5. StatusInFlight'
    BY <1>2, <1>3, <1>4 DEF LinkWindowInv, StatusInFlight
  <1>6. StatusInWork'
    BY <1>1, <1>2, <1>3 DEF LinkWindowInv, StatusInWork, TX_MOD_BASE
  <1> QED
    BY <1>5, <1>6

-----------------------------------------------------------------------------
(* PDUs in flight. *)

(* vr_h lies vr_h - vr_r above vr_r, also seen from vt_a. *)
LEMMA VrHDistance ==
  ASSUME LinkWindowInv
  PROVE  /\ Base(vr_h, vt_a) = Base(vr_r, vt_a) + Base(vr_h, vr_r)
         /\ Base(vr_h, vr_r) \in 0 .. WINDOW
  <1>1. Base(vr_h, vr_r) \in 0 .. WINDOW
    BY InvDistances DEF LinkWindowInv
  <1>2. Base(vr_h, vt_a) = IF Base(vr_r, vt_a) + Base(vr_h, vr_r) < MOD
                           THEN Base(vr_r, vt_a) + Base(vr_h, vr_r)
                           ELSE Base(vr_r, vt_a) + Base(vr_h, vr_r) - MOD
    BY LinkDistances, BaseVia
  <1> QED
    BY <1>1, <1>2, LinkDistances, ModType

LEMMA AgeType ==
  ASSUME LinkWindowInv, NEW d, DataOK(d)
  PROVE  Age(d) \in 0 .. WINDOW
  <1>1. vt_a \in SN /\ d.vt_a \in SN /\ Age(d) <= WINDOW
    BY LinkDistances DEF DataOK
  <1>2. Base(vt_a, d.vt_a) \in 0 .. MOD - 1
    BY <1>1, BaseLinear
  <1> QED
    BY <1>1, <1>2, ModType DEF Age

(* A PDU in flight that lies within the receive window is not beyond vt_s, and
   with it vr_h stays within the window of any PDU as old.                  *)
LEMMA PduReach ==
  ASSUME LinkWindowInv, NEW d, DataOK(d), inside_rx_window(d.pdu.sn)
  PROVE  /\ Base(vr_r, vt_a) + Base(d.pdu.sn, vr_r) + 1 <= Base(vt_s, vt_a)
         /\ Base(vr_r, vt_a) + Base(d.pdu.sn, vr_r) + 1 + Age(d) <= WINDOW
         /\ Base(Add(d.pdu.sn, 1), vr_r) = Base(d.pdu.sn, vr_r) + 1
  <1> DEFINE sn == d.pdu.sn
             A == Age(d)
             B == Base(sn, d.vt_a)
             q == Base(sn, vr_r)
             P == Base(sn, vt_a)
             R == Base(vr_r, vt_a)
             S == Base(vt_s, vt_a)
             H == Base(vr_h, vt_a)
  <1>1. sn \in SN /\ d.vt_a \in SN /\ A <= WINDOW /\ B < WINDOW /\ B < A + S /\ H + A <= WINDOW
    BY DEF DataOK, TX_MOD_BASE
  <1>2. vt_a \in SN /\ vr_r \in SN
    BY LinkDistances
  <1>3. A \in 0 .. MOD - 1 /\ B \in 0 .. MOD - 1 /\ q \in 0 .. MOD - 1 /\ P \in 0 .. MOD - 1
    BY <1>1, <1>2, BaseLinear DEF Age
  <1>4. R \in 0 .. WINDOW /\ S \in 0 .. WINDOW /\ H \in 0 .. WINDOW /\ R <= H
    BY LinkDistances
  <1>5. q < WINDOW
    BY InvDistances DEF LinkWindowInv, inside_rx_window, RX_MOD_BASE
  <1>6. B = IF A + P < MOD THEN A + P ELSE A + P - MOD
    BY <1>1, <1>2, BaseVia DEF Age
  <1>7. P = IF R + q < MOD THEN R + q ELSE R + q - MOD
    BY <1>1, <1>2, BaseVia
  <1>8. Base(Add(sn, 1), vr_r) = IF q < MOD - 1 THEN q + 1 ELSE 0
    BY <1>1, <1>2, BaseNext
  <1> HIDE DEF sn, A, B, q, P, R, S, H
  <1>9. R + q + 1 <= S /\ R + q + 1 + A <= WINDOW /\ Base(Add(sn, 1), vr_r) = q + 1
    <2>1. P = R + q
      BY <1>3, <1>4, <1>5, <1>7, ModType
    <2>2. B = A + P
      BY <1>1, <1>3, <1>4, <1>5, <1>6, <2>1, ModType
    <2> QED
      BY <1>1, <1>3, <1>4, <1>5, <1>8, <2>1, <2>2, ModType
  <1> QED
    BY <1>9 DEF sn, A, q, R, S

(* One PDU less in flight, or none, and vr_h where the others allow it. *)
LEMMA DataShrinks ==
  ASSUME LinkWindowInv, UNCHANGED <<vt_a, vt_s>>,
         dataCh' = dataCh \/ \E k \in 1 .. Len(dataCh) : dataCh' = RemoveAt(dataCh, k),
         \A j \in 1 .. Len(dataCh) : Base(vr_h', vt_a) + Age(dataCh[j]) <= WINDOW
  PROVE  IsSeq(dataCh)' /\ DataInFlight'
  <1>1. IsSeq(dataCh) /\ DataInFlight
    BY DEF LinkWindowInv
  <1>3. ASSUME NEW j \in 1 .. Len(dataCh), NEW i \in 1 .. Len(dataCh'), dataCh'[i] = dataCh[j]
        PROVE  DataOK(dataCh[i])'
    <2>1. DataOK(dataCh[j])
      BY <1>1 DEF DataInFlight
    <2> QED
      BY <1>3, <2>1 DEF DataOK, Age, TX_MOD_BASE
  <1>4. CASE dataCh' = dataCh
    <2>1. \A j \in 1 .. Len(dataCh) : DataOK(dataCh[j])'
      BY <1>3, <1>4
    <2> QED
      BY <1>1, <1>4, <2>1 DEF DataInFlight, Age
  <1>5. ASSUME NEW k \in 1 .. Len(dataCh), dataCh' = RemoveAt(dataCh, k)
        PROVE  IsSeq(dataCh)' /\ DataInFlight'
    <2>1. /\ IsSeq(dataCh)' /\ Len(dataCh) \in Nat /\ Len(dataCh') = Len(dataCh) - 1
          /\ \A j \in 1 .. Len(dataCh) - 1 : dataCh'[j] = IF j < k THEN dataCh[j] ELSE dataCh[j + 1]
      BY <1>1, <1>5, RemoveAtKeeps DEF IsSeq
    <2> DEFINE old(j) == IF j < k THEN j ELSE j + 1
    <2>2. \A j \in 1 .. Len(dataCh') : old(j) \in 1 .. Len(dataCh) /\ dataCh'[j] = dataCh[old(j)]
      BY <2>1
    <2>3. \A i, j \in 1 .. Len(dataCh') : i < j => old(i) < old(j)
      BY <2>1
    <2> HIDE DEF old
    <2>4. \A j \in 1 .. Len(dataCh') : DataOK(dataCh[j])'
      BY <1>3, <2>2
    <2>5. \A i, j \in 1 .. Len(dataCh') : i < j => Age(dataCh[j])' <= Age(dataCh[i])'
      BY <1>1, <2>2, <2>3 DEF DataInFlight, Age
    <2> QED
      BY <2>1, <2>4, <2>5 DEF DataInFlight
  <1> QED
    BY <1>4, <1>5

-----------------------------------------------------------------------------
(* The steps of the receiver. *)

(* Any step that moves the receiver only, within what is in flight. *)
LEMMA RxStepKeeps ==
  ASSUME LinkWindowInv, RxInv', RxPayloadTypeOK', HorizonAdvances, KeepsReceived,
         Base(vr_r, vt_a) + Base(vr_h', vr_r) <= Base(vt_s, vt_a),
         \A j \in 1 .. Len(dataCh) :
           Base(vr_r, vt_a) + Base(vr_h', vr_r) + Age(dataCh[j]) <= WINDOW,
         dataCh' = dataCh \/ \E k \in 1 .. Len(dataCh) : dataCh' = RemoveAt(dataCh, k),
         UNCHANGED <<vt_a, vt_s, tx_window, stack, statusCh, protocol_failure, retx_queue>>
  PROVE  LinkWindowInv'
  <1>1. /\ WindowsAgree' /\ MissingIsKept'
        /\ Base(vr_ms, vt_a) <= Base(vr_ms', vt_a)
        /\ Base(vr_h', vt_a) = Base(vr_r, vt_a) + Base(vr_h', vr_r)
        /\ \A sn \in SN : Received(sn) => Received(sn)'
    BY RxMoves
  <1>2. vr_ms' \in SN
    BY DEF RxInv, RxWindowTypeOK
  <1>3. StatusInFlight' /\ StatusInWork'
    BY <1>1, <1>2, RxMovesStatus
  <1>4. IsSeq(dataCh)' /\ DataInFlight'
    BY <1>1, DataShrinks
  <1> QED
    BY <1>1, <1>3, <1>4 DEF LinkWindowInv, NoProtocolFailure, QueueOK

(* ... and leaves vr_h where it was. *)
LEMMA RxStepSameVrH ==
  ASSUME LinkWindowInv, RxInv', RxPayloadTypeOK', HorizonAdvances, KeepsReceived, vr_h' = vr_h,
         dataCh' = dataCh \/ \E k \in 1 .. Len(dataCh) : dataCh' = RemoveAt(dataCh, k),
         UNCHANGED <<vt_a, vt_s, tx_window, stack, statusCh, protocol_failure, retx_queue>>
  PROVE  LinkWindowInv'
  <1>1. Base(vr_r, vt_a) + Base(vr_h', vr_r) = Base(vr_h, vt_a)
    BY VrHDistance
  <1>2. \A j \in 1 .. Len(dataCh) : Base(vr_h, vt_a) + Age(dataCh[j]) <= WINDOW
    BY DEF LinkWindowInv, DataInFlight, DataOK, TX_MOD_BASE
  <1>3. Base(vr_h, vt_a) <= Base(vt_s, vt_a)
    BY LinkDistances
  <1> QED
    BY <1>1, <1>2, <1>3, RxStepKeeps

LEMMA DeliverPduKeeps ==
  ASSUME LinkWindowInv, DeliverPdu
  PROVE  LinkWindowInv'
  <1>1. PICK k \in 1 .. Len(dataCh) :
          /\ \A j \in 1 .. k : dataCh[j].vt_a = dataCh[k].vt_a
          /\ handle_data_pdu(dataCh[k].pdu)
          /\ dataCh' = RemoveAt(dataCh, k)
    BY DEF DeliverPdu
  <1> DEFINE d == dataCh[k]
             R == Base(vr_r, vt_a)
  <1>2. UNCHANGED <<vt_a, vt_s, tx_window, stack, protocol_failure, retx_queue>>
    BY DEF DeliverPdu, retxVars, ackVars
  <1>3. DataOK(d)
    BY DEF LinkWindowInv, DataInFlight
  <1>4. /\ RxInv' /\ RxPayloadTypeOK' /\ HorizonAdvances
        /\ KeepsReceived /\ RaisesVrH(d.pdu.sn) /\ UNCHANGED statusCh
    <2>1. d.pdu.sn \in SN /\ d.pdu.p \in BOOLEAN /\ RxInv /\ RxPayloadTypeOK
      BY <1>3 DEF DataOK, LinkWindowInv
    <2> QED
      BY <1>1, <2>1, PduStep
  <1>5. CASE vr_h' = vr_h
    BY <1>1, <1>2, <1>4, <1>5, RxStepSameVrH
  <1>6. CASE inside_rx_window(d.pdu.sn) /\ vr_h' = Add(d.pdu.sn, 1)
    <2>1. /\ R + Base(d.pdu.sn, vr_r) + 1 <= Base(vt_s, vt_a)
          /\ R + Base(d.pdu.sn, vr_r) + 1 + Age(d) <= WINDOW
          /\ Base(vr_h', vr_r) = Base(d.pdu.sn, vr_r) + 1
      BY <1>3, <1>6, PduReach
    <2>2. R \in Nat /\ Base(d.pdu.sn, vr_r) \in Nat
      BY <1>3, LinkDistances DEF DataOK
    <2>3. ASSUME NEW j \in 1 .. Len(dataCh)
          PROVE  Age(dataCh[j]) <= Age(d) /\ Age(dataCh[j]) \in Nat
      <3>1. DataOK(dataCh[j])
        BY DEF LinkWindowInv, DataInFlight
      <3>2. Age(dataCh[j]) \in Nat
        BY <3>1, AgeType
      <3>3. CASE j <= k
        <4>1. j \in 1 .. k
          BY <3>3
        <4>2. Age(dataCh[j]) = Age(d)
          BY <1>1, <4>1 DEF Age
        <4> QED
          BY <3>2, <4>2
      <3>4. CASE k < j
        BY <3>2, <3>4 DEF LinkWindowInv, DataInFlight
      <3> QED
        BY <3>3, <3>4
    <2>4. Age(d) \in Nat
      BY <2>3
    <2>5. R + Base(vr_h', vr_r) <= Base(vt_s, vt_a)
      BY <2>1, <2>2
    <2>6. \A j \in 1 .. Len(dataCh) : R + Base(vr_h', vr_r) + Age(dataCh[j]) <= WINDOW
      <3> HIDE DEF R, d
      <3> QED
        BY <2>1, <2>2, <2>3, <2>4, ModType
    <2> QED
      BY <1>1, <1>2, <1>4, <2>5, <2>6, RxStepKeeps
  <1> QED
    BY <1>4, <1>5, <1>6 DEF RaisesVrH

(* A step that leaves the windows of both ends, and what is in flight, alone. *)
LEMMA SameLink ==
  ASSUME LinkWindowInv, RxInv', QueueOK',
         UNCHANGED <<vr_r, vr_ms, vr_h, rx_window, rx_segments, statusCh, vt_a, vt_s,
                     protocol_failure>>,
         stack' = stack \/ (stack.pc # "status" /\ stack'.pc # "status"),
         DOMAIN tx_window' = DOMAIN tx_window,
         dataCh' = dataCh \/ \E k \in 1 .. Len(dataCh) : dataCh' = RemoveAt(dataCh, k)
  PROVE  LinkWindowInv'
  <1>1. IsSeq(dataCh)' /\ DataInFlight'
    <2>1. \A j \in 1 .. Len(dataCh) : Base(vr_h, vt_a) + Age(dataCh[j]) <= WINDOW
      BY DEF LinkWindowInv, DataInFlight, DataOK, TX_MOD_BASE
    <2> QED
      BY <2>1, DataShrinks
  <1>2. RxPayloadTypeOK'
    BY DEF LinkWindowInv, RxPayloadTypeOK
  <1>3. WindowsAgree' /\ MissingIsKept'
    BY DEF LinkWindowInv, WindowsAgree, MissingIsKept, TX_MOD_BASE
  <1>4. \A sn : (Received(sn)' <=> Received(sn)) /\ (Kept(sn)' <=> Kept(sn))
    BY DEF Received, Kept, TX_MOD_BASE
  <1>5. \A st, sn : (Acks(st, sn)' <=> Acks(st, sn)) /\ (FirstOpen(st, sn)' <=> FirstOpen(st, sn))
    BY DEF FirstOpen, Acks, TX_MOD_BASE
  <1>6. \A k \in 1 .. Len(statusCh) : StatusOK(statusCh[k])' <=> StatusOK(statusCh[k])
    BY <1>4, <1>5 DEF StatusOK, TX_MOD_BASE
  <1>7. StatusInFlight'
    BY <1>5, <1>6 DEF LinkWindowInv, StatusInFlight
  <1>8. StatusInWork'
    <2>1. CASE stack' = stack
      BY <1>4, <1>5, <2>1 DEF LinkWindowInv, StatusInWork, TX_MOD_BASE
    <2>2. CASE stack.pc # "status" /\ stack'.pc # "status"
      BY <1>4, <2>2 DEF LinkWindowInv, StatusInWork
    <2> QED
      BY <2>1, <2>2
  <1> QED
    BY <1>1, <1>2, <1>3, <1>7, <1>8 DEF LinkWindowInv, NoProtocolFailure, QueueOK

LEMMA LosePduKeeps ==
  ASSUME LinkWindowInv, LosePdu
  PROVE  LinkWindowInv'
  <1>1. /\ UNCHANGED <<vr_r, vr_mr, vr_x, vr_ms, vr_h, rx_window, rx_segments, statusCh>>
        /\ UNCHANGED <<vt_a, vt_s, stack, protocol_failure, retx_queue, tx_window>>
        /\ UNCHANGED <<reordering_timer, status_prohibit_timer, poll_received, do_status>>
        /\ \E k \in 1 .. Len(dataCh) : dataCh' = RemoveAt(dataCh, k)
    BY DEF LosePdu, retxVars, ackVars, rxVars, windowVars, payloadVars, pollVars
  <1>2. RxInv'
    <2>1. UNCHANGED windowVars
      BY <1>1 DEF windowVars
    <2> QED
      BY <1>1, <2>1, SameWindow DEF LinkWindowInv, RxInv, RxWindowTypeOK
  <1> QED
    BY <1>1, <1>2, SameLink DEF LinkWindowInv, QueueOK

LEMMA ReorderingTimeoutKeeps ==
  ASSUME LinkWindowInv, ReorderingTimeout
  PROVE  LinkWindowInv'
  <1>1. /\ reordering_timer_expired
        /\ UNCHANGED <<vt_a, vt_s, tx_window, stack, protocol_failure, retx_queue, dataCh>>
        /\ UNCHANGED <<vr_r, vr_h, rx_window, rx_segments, statusCh>>
    BY DEF ReorderingTimeout, reordering_timer_expired, payloadVars, txVars, retxVars, ackVars
  <1>2. RxInv' /\ HorizonAdvances
    BY <1>1, TimerExpiredInv DEF LinkWindowInv
  <1>3. RxPayloadTypeOK' /\ KeepsReceived
    BY <1>1 DEF LinkWindowInv, RxPayloadTypeOK, KeepsReceived
  <1> QED
    BY <1>1, <1>2, <1>3, RxStepSameVrH

LEMMA StatusProhibitKeeps ==
  ASSUME LinkWindowInv, Rx(status_prohibit_expired)
  PROVE  LinkWindowInv'
  <1>1. /\ UNCHANGED windowVars /\ status_prohibit_timer' = FALSE
        /\ UNCHANGED <<vr_r, vr_ms, vr_h, rx_window, rx_segments, statusCh>>
        /\ UNCHANGED <<vt_a, vt_s, stack, protocol_failure, retx_queue, tx_window, dataCh>>
        /\ UNCHANGED <<reordering_timer, poll_received, do_status>>
    BY DEF Rx, status_prohibit_expired, txVars, retxVars, ackVars, windowVars, payloadVars, pollVars
  <1>2. RxInv'
    BY <1>1, SameWindow DEF LinkWindowInv, RxInv, RxWindowTypeOK
  <1> QED
    BY <1>1, <1>2, SameLink DEF LinkWindowInv, QueueOK

-----------------------------------------------------------------------------
(* STATUS PDUs in flight. *)

LEMMA StatusType ==
  ASSUME RxPayloadTypeOK
  PROVE  /\ IsSeq(statusCh) /\ Len(statusCh) \in Nat
         /\ \A k \in 1 .. Len(statusCh) : statusCh[k].ack \in SN /\ statusCh[k].nacks \subseteq SN
  <1> DEFINE Status == [ack : SN, nacks : SUBSET SN]
  <1>1. statusCh \in Seq(Status)
    BY DEF RxPayloadTypeOK
  <1>2. \A st \in Status : st.ack \in SN /\ st.nacks \subseteq SN
    OBVIOUS
  <1> HIDE DEF Status
  <1>3. \A k \in 1 .. Len(statusCh) : statusCh[k] \in Status
    BY <1>1, ElementOfSeq
  <1> QED
    BY <1>1, <1>2, <1>3, SeqOfRange, LenProperties DEF IsSeq

(* A STATUS PDU is lost, with everything else as it was. *)
LEMMA LoseStatusKeeps ==
  ASSUME LinkWindowInv, LoseStatus
  PROVE  LinkWindowInv'
  <1>1. /\ UNCHANGED windowVars
        /\ UNCHANGED <<vr_r, vr_ms, vr_h, rx_window, rx_segments>>
        /\ UNCHANGED <<vt_a, vt_s, stack, protocol_failure, retx_queue, tx_window, dataCh>>
        /\ UNCHANGED <<reordering_timer, status_prohibit_timer, poll_received, do_status>>
    BY DEF LoseStatus, txVars, retxVars, ackVars, windowVars, payloadVars, pollVars
  <1>2. RxInv'
    BY <1>1, SameWindow DEF LinkWindowInv, RxInv, RxWindowTypeOK
  <1>3. PICK k \in 1 .. Len(statusCh) : statusCh' = RemoveAt(statusCh, k)
    BY DEF LoseStatus
  <1> DEFINE old(j) == IF j < k THEN j ELSE j + 1
             Status == [ack : SN, nacks : SUBSET SN]
  <1>4. /\ statusCh' \in Seq(Status) /\ Len(statusCh') = Len(statusCh) - 1 /\ Len(statusCh) \in Nat
        /\ \A j \in 1 .. Len(statusCh) - 1 :
             statusCh'[j] = IF j < k THEN statusCh[j] ELSE statusCh[j + 1]
    <2>1. statusCh \in Seq(Status)
      BY DEF LinkWindowInv, RxPayloadTypeOK
    <2> HIDE DEF Status
    <2> QED
      BY <1>3, <2>1, RemoveAtSeq, LenProperties
  <1>5. RxPayloadTypeOK'
    BY <1>1, <1>4 DEF LinkWindowInv, RxPayloadTypeOK
  <1>6. \A j \in 1 .. Len(statusCh') : old(j) \in 1 .. Len(statusCh) /\ statusCh'[j] = statusCh[old(j)]
    BY <1>4
  <1>7. \A i, j \in 1 .. Len(statusCh') : i < j => old(i) < old(j)
    BY <1>4
  <1> HIDE DEF old
  <1>8. StatusInFlight'
    <2>1. \A j \in 1 .. Len(statusCh') : StatusOK(statusCh[j])'
      BY <1>1, <1>6 DEF LinkWindowInv, StatusInFlight, StatusOK, FirstOpen, Acks, Kept, Received,
                        TX_MOD_BASE
    <2>2. ASSUME NEW i \in 1 .. Len(statusCh'), NEW j \in 1 .. Len(statusCh'), i < j, NEW x \in SN,
                 FirstOpen(statusCh[j], x)'
          PROVE  ~Acks(statusCh[i], x)'
      <3>1. FirstOpen(statusCh[old(j)], x)
        BY <1>1, <1>6, <2>2 DEF FirstOpen, Acks, TX_MOD_BASE
      <3>2. ~Acks(statusCh[old(i)], x)
        BY <1>6, <1>7, <2>2, <3>1 DEF LinkWindowInv, StatusInFlight
      <3> QED
        BY <1>1, <1>6, <3>2 DEF Acks, TX_MOD_BASE
    <2> QED
      BY <2>1, <2>2 DEF StatusInFlight
  <1>9. StatusInWork'
    <2>1. ASSUME stack.pc = "status", NEW j \in 1 .. Len(statusCh'), NEW x \in SN,
                 FirstOpen(statusCh[j], x)'
          PROVE  ~(TX_MOD_BASE(stack.i) <= TX_MOD_BASE(x) /\ Acks(stack, x))'
      <3>1. FirstOpen(statusCh[old(j)], x)
        BY <1>1, <1>6, <2>1 DEF FirstOpen, Acks, TX_MOD_BASE
      <3> QED
        BY <1>1, <1>6, <2>1, <3>1 DEF LinkWindowInv, StatusInWork, Acks, TX_MOD_BASE
    <2>2. \A sn : (Acks(stack, sn)' <=> Acks(stack, sn)) /\ (FirstOpen(stack, sn)' <=> FirstOpen(stack, sn))
                  /\ (Received(sn)' <=> Received(sn)) /\ (Kept(sn)' <=> Kept(sn))
      BY <1>1 DEF FirstOpen, Acks, Received, Kept, TX_MOD_BASE
    <2> QED
      BY <1>1, <2>1, <2>2 DEF LinkWindowInv, StatusInWork, TX_MOD_BASE
  <1>10. WindowsAgree' /\ MissingIsKept' /\ DataInFlight' /\ IsSeq(dataCh)'
    BY <1>1 DEF LinkWindowInv, WindowsAgree, MissingIsKept, DataInFlight, DataOK, Age, TX_MOD_BASE, IsSeq
  <1> QED
    BY <1>1, <1>2, <1>5, <1>8, <1>9, <1>10 DEF LinkWindowInv, NoProtocolFailure, QueueOK

(* The distance from vr_r in terms of that from vt_a. *)
LEMMA FromVrR ==
  ASSUME LinkWindowInv, NEW x \in SN
  PROVE  Base(x, vr_r) = IF Base(vr_r, vt_a) <= Base(x, vt_a) THEN Base(x, vt_a) - Base(vr_r, vt_a)
                         ELSE Base(x, vt_a) - Base(vr_r, vt_a) + MOD
  <1> DEFINE R == Base(vr_r, vt_a)
             X == Base(x, vt_a)
             q == Base(x, vr_r)
  <1>1. X = IF R + q < MOD THEN R + q ELSE R + q - MOD
    BY LinkDistances, BaseVia
  <1>2. R \in 0 .. WINDOW /\ X \in 0 .. MOD - 1 /\ q \in 0 .. MOD - 1
    BY LinkDistances
  <1> HIDE DEF R, X, q
  <1>3. q = IF R <= X THEN X - R ELSE X - R + MOD
    BY <1>1, <1>2, ModType
  <1> QED
    BY <1>3 DEF R, X, q

(* Only one SN is the first that a status leaves open. *)
LEMMA FirstOpenUnique ==
  ASSUME LinkWindowInv, NEW st, NEW x \in SN, NEW y \in SN, FirstOpen(st, x), FirstOpen(st, y)
  PROVE  x = y
  <1>1. Base(x, vt_a) \in Nat /\ Base(y, vt_a) \in Nat /\ vt_a \in SN
    BY LinkDistances
  <1>2. ~(Base(x, vt_a) < Base(y, vt_a)) /\ ~(Base(y, vt_a) < Base(x, vt_a))
    BY DEF FirstOpen, TX_MOD_BASE
  <1>3. Base(x, vt_a) = Base(y, vt_a)
    BY <1>1, <1>2
  <1> QED
    BY <1>1, <1>3, BaseInjective

(* A status that is true of the receive window, seen from vt_a. *)
LEMMA NewStatus ==
  ASSUME LinkWindowInv, NEW st, st.ack \in SN, st.nacks \subseteq SN, ReportsTruly(st)
  PROVE  StatusOK(st) /\ FirstOpen(st, vr_r) /\ ~Received(vr_r)
  <1> DEFINE R == Base(vr_r, vt_a)
             M == Base(vr_ms, vt_a)
             k == Base(st.ack, vr_r)
             K == Base(st.ack, vt_a)
  <1>1. /\ vr_r \in SN /\ vr_ms \in SN /\ R \in 0 .. WINDOW /\ M \in 0 .. WINDOW /\ R <= M
        /\ K \in 0 .. MOD - 1 /\ k \in 0 .. MOD - 1
    BY LinkDistances
  <1>2. Base(vr_ms, vr_r) = M - R
    BY <1>1, FromVrR
  <1>3. k <= M - R
    BY <1>2 DEF ReportsTruly, RX_MOD_BASE
  <1>4. k = IF R <= K THEN K - R ELSE K - R + MOD
    BY FromVrR
  <1>5. R <= K /\ k = K - R /\ K <= M
    <2> HIDE DEF R, M, k, K
    <2> QED
      BY <1>1, <1>3, <1>4, ModType
  <1>6. vr_r \notin DOMAIN rx_window
    BY DEF LinkWindowInv, RxInv, RxWindowContents
  <1>7. ~Received(vr_r)
    BY <1>1, <1>6 DEF Received, TX_MOD_BASE
  <1>8. ASSUME NEW sn \in SN, R <= Base(sn, vt_a), Base(sn, vt_a) < K
        PROVE  sn \in DOMAIN rx_window <=> sn \notin st.nacks
    <2>1. Base(sn, vr_r) = Base(sn, vt_a) - R /\ Base(sn, vt_a) \in Nat
      BY <1>8, FromVrR, LinkDistances
    <2>2. Base(sn, vr_r) < k
      <3> HIDE DEF R, k, K
      <3> QED
        BY <1>1, <1>5, <1>8, <2>1
    <2> QED
      BY <2>2 DEF ReportsTruly, RX_MOD_BASE
  <1>9. ASSUME NEW sn \in SN, Acks(st, sn) PROVE Received(sn)
    <2>1. Base(sn, vt_a) \in Nat
      BY LinkDistances
    <2>2. Base(sn, vt_a) < R \/ R <= Base(sn, vt_a)
      BY <1>1, <2>1
    <2> QED
      BY <1>8, <1>9, <2>2 DEF Acks, Received, TX_MOD_BASE
  <1>10. ASSUME NEW y \in SN, Base(y, vt_a) < R PROVE Acks(st, y)
    <2>1. Base(y, vt_a) \in Nat /\ Base(y, vr_r) = Base(y, vt_a) - R + MOD
      BY <1>1, <1>10, FromVrR, LinkDistances
    <2>2. ~(Base(y, vr_r) < M - R) /\ Base(y, vt_a) < K
      <3> HIDE DEF R, M, K
      <3> QED
        BY <1>1, <1>5, <1>10, <2>1, ModType
    <2> QED
      BY <1>2, <2>2 DEF Acks, ReportsTruly, TX_MOD_BASE, RX_MOD_BASE
  <1>11. ~Acks(st, vr_r)
    BY <1>1, <1>6, <1>8 DEF Acks, TX_MOD_BASE
  <1>12. FirstOpen(st, vr_r)
    BY <1>5, <1>10, <1>11 DEF FirstOpen, TX_MOD_BASE
  <1>13. Kept(vr_r)
    <2>1. CASE R < Base(vt_s, vt_a)
      BY <1>1, <1>6, <2>1 DEF LinkWindowInv, MissingIsKept, Kept, TX_MOD_BASE
    <2>2. CASE ~(R < Base(vt_s, vt_a))
      <3>1. R = Base(vt_s, vt_a)
        BY <2>2, LinkDistances
      <3> QED
        BY <3>1, LinkDistances, BaseInjective DEF Kept
    <2> QED
      BY <2>1, <2>2
  <1> QED
    BY <1>1, <1>5, <1>7, <1>9, <1>12, <1>13 DEF StatusOK, TX_MOD_BASE

LEMMA BuildStatusKeeps ==
  ASSUME LinkWindowInv, NEW grant \in StatusGrants, Rx(build_status_pdu(grant))
  PROVE  LinkWindowInv'
  <1>1. /\ build_status_pdu(grant) /\ UNCHANGED windowVars
        /\ UNCHANGED <<vr_r, vr_ms, vr_h, rx_window, rx_segments, reordering_timer>>
        /\ UNCHANGED <<vt_a, vt_s, stack, protocol_failure, retx_queue, tx_window, dataCh>>
    BY DEF Rx, build_status_pdu, txVars, retxVars, ackVars, windowVars, payloadVars
  <1>2. RxInv'
    <2>1. poll_received' \in BOOLEAN /\ do_status' \in BOOLEAN /\ status_prohibit_timer' \in BOOLEAN
      BY <1>1, GrantAssumption DEF build_status_pdu, pollVars, LinkWindowInv, RxInv, RxWindowTypeOK
    <2> QED
      BY <1>1, <2>1, SameWindow DEF LinkWindowInv
  <1>3. RxPayloadTypeOK'
    BY <1>1, BuildStatusType DEF LinkWindowInv
  <1>4. CASE UNCHANGED statusCh
    BY <1>1, <1>2, <1>4, SameLink DEF LinkWindowInv, QueueOK
  <1>5. CASE grant > 0 /\ statusCh' = Append(statusCh, StatusPdu(grant - 1))
    <2> DEFINE st == StatusPdu(grant - 1)
    <2>1. st.ack \in SN /\ st.nacks \subseteq SN /\ ReportsTruly(st)
      <3>1. grant - 1 \in Nat
        BY <1>5, GrantAssumption
      <3> QED
        BY <3>1, StatusPduTrue DEF LinkWindowInv
    <2> HIDE DEF st
    <2>2. StatusOK(st) /\ FirstOpen(st, vr_r) /\ ~Received(vr_r)
      BY <2>1, NewStatus
    <2>3. /\ Len(statusCh) \in Nat /\ Len(statusCh') = Len(statusCh) + 1
          /\ \A j \in 1 .. Len(statusCh') : statusCh'[j] = IF j <= Len(statusCh) THEN statusCh[j] ELSE st
      BY <1>5, StatusType, AppendKeeps DEF LinkWindowInv, st
    <2>4. \A j \in 1 .. Len(statusCh') : \/ j \in 1 .. Len(statusCh) /\ statusCh'[j] = statusCh[j]
                                         \/ j = Len(statusCh) + 1 /\ statusCh'[j] = st
      BY <2>3
    <2>6. vr_r \in SN
      BY LinkDistances
    <2>7. \A x \in SN : FirstOpen(st, x) => x = vr_r
      BY <2>2, <2>6, FirstOpenUnique
    <2>8. StatusInFlight'
      <3>1. \A j \in 1 .. Len(statusCh') : StatusOK(statusCh[j])'
        BY <1>1, <2>2, <2>4 DEF LinkWindowInv, StatusInFlight, StatusOK, FirstOpen, Acks, Kept,
                                Received, TX_MOD_BASE
      <3>2. ASSUME NEW i \in 1 .. Len(statusCh'), NEW j \in 1 .. Len(statusCh'), i < j, NEW x \in SN,
                   FirstOpen(statusCh[j], x)'
            PROVE  ~Acks(statusCh[i], x)'
        <4>1. i \in 1 .. Len(statusCh) /\ statusCh'[i] = statusCh[i] /\ StatusOK(statusCh[i])
          BY <2>3, <2>4, <3>2 DEF LinkWindowInv, StatusInFlight
        <4>2. CASE j \in 1 .. Len(statusCh) /\ statusCh'[j] = statusCh[j]
          <5>1. FirstOpen(statusCh[j], x)
            BY <1>1, <3>2, <4>2 DEF FirstOpen, Acks, TX_MOD_BASE
          <5>2. ~Acks(statusCh[i], x)
            BY <3>2, <4>1, <4>2, <5>1 DEF LinkWindowInv, StatusInFlight
          <5> QED
            BY <1>1, <4>1, <5>2 DEF Acks, TX_MOD_BASE
        <4>3. CASE statusCh'[j] = st
          <5>1. FirstOpen(st, x)
            BY <1>1, <3>2, <4>3 DEF FirstOpen, Acks, TX_MOD_BASE
          <5>2. ~Acks(statusCh[i], x)
            BY <2>2, <2>7, <4>1, <5>1 DEF StatusOK
          <5> QED
            BY <1>1, <4>1, <5>2 DEF Acks, TX_MOD_BASE
        <4> QED
          BY <2>4, <4>2, <4>3
      <3> QED
        BY <3>1, <3>2 DEF StatusInFlight
    <2>9. StatusInWork'
      <3>1. ASSUME stack.pc = "status", NEW j \in 1 .. Len(statusCh'), NEW x \in SN,
                   FirstOpen(statusCh[j], x)'
            PROVE  ~(TX_MOD_BASE(stack.i) <= TX_MOD_BASE(x) /\ Acks(stack, x))'
        <4>1. CASE j \in 1 .. Len(statusCh) /\ statusCh'[j] = statusCh[j]
          <5>1. FirstOpen(statusCh[j], x)
            BY <1>1, <3>1, <4>1 DEF FirstOpen, Acks, TX_MOD_BASE
          <5> QED
            BY <1>1, <3>1, <4>1, <5>1 DEF LinkWindowInv, StatusInWork, Acks, TX_MOD_BASE
        <4>2. CASE statusCh'[j] = st
          <5>1. FirstOpen(st, x)
            BY <1>1, <3>1, <4>2 DEF FirstOpen, Acks, TX_MOD_BASE
          <5> QED
            BY <1>1, <2>2, <2>7, <3>1, <5>1 DEF LinkWindowInv, StatusInWork, Acks, TX_MOD_BASE
        <4> QED
          BY <2>4, <4>1, <4>2
      <3>2. \A sn : (Acks(stack, sn)' <=> Acks(stack, sn)) /\ (FirstOpen(stack, sn)' <=> FirstOpen(stack, sn))
                    /\ (Received(sn)' <=> Received(sn)) /\ (Kept(sn)' <=> Kept(sn))
        BY <1>1 DEF FirstOpen, Acks, Received, Kept, TX_MOD_BASE
      <3> QED
        BY <1>1, <3>1, <3>2 DEF LinkWindowInv, StatusInWork, TX_MOD_BASE
    <2>10. WindowsAgree' /\ MissingIsKept' /\ DataInFlight' /\ IsSeq(dataCh)'
      BY <1>1 DEF LinkWindowInv, WindowsAgree, MissingIsKept, DataInFlight, DataOK, Age, TX_MOD_BASE, IsSeq
    <2> QED
      BY <1>1, <1>2, <1>3, <2>8, <2>9, <2>10 DEF LinkWindowInv, NoProtocolFailure, QueueOK
  <1> QED
    BY <1>1, <1>4, <1>5 DEF build_status_pdu

-----------------------------------------------------------------------------
(* The retransmission queue.  None of the operations on it adds to tx_window or
   takes from it, and the queue stays below WINDOW entries.                *)

IsRetx(r) ==
  /\ r = [win |-> r.win, q |-> r.q, ovf |-> r.ovf, max |-> r.max]
  /\ IsSeq(r.q) /\ Len(r.q) < WINDOW

SameWin(r, old) == DOMAIN r.win = DOMAIN old.win

LEMMA EmptyIsSeq == IsSeq(<<>>) /\ Len(<<>>) = 0
  BY EmptySeq DEF IsSeq

LEMMA PushKeeps ==
  ASSUME NEW r, IsRetx(r), NEW e
  PROVE  IsRetx(Push(r, e)) /\ SameWin(Push(r, e), r)
  <1>1. CASE Len(r.q) = WINDOW - 1
    <2>1. Push(r, e) = [r EXCEPT !.q = <<>>, !.ovf = TRUE]
      BY <1>1 DEF Push
    <2>2. Push(r, e) = [win |-> r.win, q |-> <<>>, ovf |-> TRUE, max |-> r.max]
      BY <2>1 DEF IsRetx
    <2> QED
      BY <2>2, EmptyIsSeq, ModType DEF IsRetx, SameWin
  <1>2. CASE Len(r.q) # WINDOW - 1
    <2>1. Push(r, e) = [r EXCEPT !.q = Append(@, e)]
      BY <1>2 DEF Push
    <2>2. Push(r, e) = [win |-> r.win, q |-> Append(r.q, e), ovf |-> r.ovf, max |-> r.max]
      BY <2>1 DEF IsRetx
    <2>3. IsSeq(Append(r.q, e)) /\ Len(Append(r.q, e)) = Len(r.q) + 1 /\ Len(r.q) \in Nat
      BY AppendKeeps DEF IsRetx
    <2>4. Len(Append(r.q, e)) < WINDOW
      BY <1>2, <2>3, ModType DEF IsRetx
    <2> QED
      BY <2>2, <2>3, <2>4 DEF IsRetx, SameWin
  <1> QED
    BY <1>1, <1>2

LEMMA CountRetxKeeps ==
  ASSUME NEW r, IsRetx(r), NEW sn
  PROVE  IsRetx(CountRetx(r, sn)) /\ SameWin(CountRetx(r, sn), r)
  <1> DEFINE count == r.win[sn].retx_count + 1
             capped == IF count > MaxRetx THEN MaxRetx + 1 ELSE count
             win == [r.win EXCEPT ![sn] = [r.win[sn] EXCEPT !.retx_count = capped]]
             max == r.max \/ count = MaxRetx
  <1>1. CountRetx(r, sn) = [[r EXCEPT !.win = win] EXCEPT !.max = max]
    BY DEF CountRetx
  <1>2. DOMAIN win = DOMAIN r.win
    OBVIOUS
  <1> HIDE DEF win, max
  <1>3. CountRetx(r, sn) = [win |-> win, q |-> r.q, ovf |-> r.ovf, max |-> max]
    BY <1>1 DEF IsRetx
  <1> QED
    BY <1>2, <1>3 DEF IsRetx, SameWin

(* The head of the queue, if there is one, is in the window. *)
HeadIsHeld(r) == r.q # <<>> => Head(r.q).sn \in DOMAIN r.win

LEMMA ScheduleKeeps ==
  ASSUME NEW r, IsRetx(r), NEW sn
  PROVE  IsRetx(ScheduleRetx(r, sn)) /\ SameWin(ScheduleRetx(r, sn), r)
  BY CountRetxKeeps, PushKeeps DEF ScheduleRetx, SameWin

LEMMA RetransmitKeeps ==
  ASSUME NEW r, IsRetx(r), NEW sn
  PROVE  IsRetx(retransmit_pdu(r, sn)) /\ SameWin(retransmit_pdu(r, sn), r)
  BY ScheduleKeeps DEF retransmit_pdu, SameWin

(* On an empty queue it leaves the SN it was given at the head. *)
LEMMA RetransmitHead ==
  ASSUME NEW r, IsRetx(r), r.q = <<>>, NEW sn
  PROVE  HeadIsHeld(retransmit_pdu(r, sn))
  <1> DEFINE c == CountRetx(r, sn)
             e == [sn |-> sn, is_segment |-> FALSE, so_start |-> 0, so_end |-> Len(r.win[sn].data)]
  <1>1. CASE sn \notin DOMAIN r.win
    BY <1>1 DEF retransmit_pdu, HeadIsHeld
  <1>2. CASE sn \in DOMAIN r.win
    <2>1. retransmit_pdu(r, sn) = Push(c, e)
      BY <1>2 DEF retransmit_pdu, ScheduleRetx
    <2>2. IsRetx(c) /\ DOMAIN c.win = DOMAIN r.win
      BY CountRetxKeeps DEF SameWin
    <2>3. c.q = <<>>
      BY DEF CountRetx, IsRetx
    <2>4. e.sn = sn
      OBVIOUS
    <2> HIDE DEF c, e
    <2>5. CASE Len(c.q) = WINDOW - 1
      <3>1. Push(c, e) = [win |-> c.win, q |-> <<>>, ovf |-> TRUE, max |-> c.max]
        BY <2>2, <2>5 DEF Push, IsRetx
      <3> QED
        BY <2>1, <3>1 DEF HeadIsHeld
    <2>6. CASE Len(c.q) # WINDOW - 1
      <3>1. Push(c, e) = [win |-> c.win, q |-> Append(<<>>, e), ovf |-> c.ovf, max |-> c.max]
        BY <2>2, <2>3, <2>6 DEF Push, IsRetx
      <3>2. Head(Append(<<>>, e)) = e
        OBVIOUS
      <3> QED
        BY <1>2, <2>1, <2>2, <2>4, <3>1, <3>2 DEF HeadIsHeld
    <2> QED
      BY <2>5, <2>6
  <1> QED
    BY <1>1, <1>2

LEMMA DropKeeps ==
  ASSUME NEW r, IsRetx(r)
  PROVE  /\ IsRetx(DropAcknowledged(r)) /\ SameWin(DropAcknowledged(r), r)
         /\ HeadIsHeld(DropAcknowledged(r))
  <1> DEFINE keep == {k \in 1 .. Len(r.q) : r.q[k].sn \in DOMAIN r.win}
             first == CHOOSE k \in keep : \A j \in keep : k <= j
  <1>1. CASE keep = {}
    <2> DEFINE e == [win |-> r.win, q |-> <<>>, ovf |-> r.ovf, max |-> r.max]
    <2>1. DropAcknowledged(r) = retransmit_pdu([r EXCEPT !.q = <<>>], vt_a)
      BY <1>1 DEF DropAcknowledged
    <2>2. [r EXCEPT !.q = <<>>] = e
      BY DEF IsRetx
    <2>3. IsRetx(e) /\ e.q = <<>> /\ SameWin(e, r)
      BY EmptyIsSeq, ModType DEF IsRetx, SameWin
    <2> HIDE DEF e
    <2> QED
      BY <2>1, <2>2, <2>3, RetransmitKeeps, RetransmitHead DEF SameWin
  <1>2. CASE keep # {}
    <2>1. Len(r.q) \in Nat /\ r.q \in Seq(Range(r.q))
      BY LenProperties DEF IsRetx, IsSeq
    <2>2. first \in keep
      <3>1. keep \in SUBSET Nat
        BY <2>1
      <3>2. PICK k0 \in keep : TRUE
        BY <1>2
      <3> HIDE DEF keep
      <3>3. \E k \in keep : \A j \in keep : k <= j
        BY <3>1, <3>2, LeastElement
      <3> QED
        BY <3>3
    <2> HIDE DEF first
    <2>3. first \in 1 .. Len(r.q) /\ r.q[first].sn \in DOMAIN r.win
      BY <2>2
    <2> DEFINE q == SubSeq(r.q, first, Len(r.q))
    <2>4. DropAcknowledged(r) = [r EXCEPT !.q = SubSeq(@, first, Len(@))]
      BY <1>2 DEF DropAcknowledged, first
    <2>5. Len(r.q) \in first .. Len(r.q)
      BY <2>1, <2>3
    <2>6. Head(q) = r.q[first]
      BY <2>1, <2>3, <2>5, HeadTailOfSubSeq
    <2>7. q \in Seq(Range(r.q)) /\ Len(q) = Len(r.q) - first + 1
      <3>1. \A i \in first .. Len(r.q) : r.q[i] \in Range(r.q)
        BY <2>1, <2>3, ElementOfSeq
      <3> QED
        BY <2>1, <2>3, <3>1, SubSeqProperties
    <2> HIDE DEF q
    <2>8. DropAcknowledged(r) = [win |-> r.win, q |-> q, ovf |-> r.ovf, max |-> r.max]
      BY <2>4 DEF IsRetx, q
    <2>9. IsSeq(q) /\ Len(q) < WINDOW
      BY <2>1, <2>3, <2>7, SeqOfRange, ModType DEF IsSeq, IsRetx
    <2> QED
      BY <2>3, <2>6, <2>8, <2>9 DEF IsRetx, SameWin, HeadIsHeld
  <1> QED
    BY <1>1, <1>2

-----------------------------------------------------------------------------
(* read_pdu *)

Scheduled == IF window_full /\ retx_queue = <<>> THEN retransmit_pdu(RetxState, vt_a) ELSE RetxState

Ready == IF Scheduled.q = <<>> THEN Scheduled ELSE DropAcknowledged(Scheduled)

LEMMA RetxStateOK ==
  ASSUME QueueOK
  PROVE  IsRetx(RetxState) /\ RetxState.win = tx_window /\ RetxState.q = retx_queue
  BY DEF QueueOK, IsRetx, RetxState

LEMMA ReadyOK ==
  ASSUME QueueOK
  PROVE  IsRetx(Ready) /\ DOMAIN Ready.win = DOMAIN tx_window /\ HeadIsHeld(Ready)
  <1>1. IsRetx(Scheduled) /\ DOMAIN Scheduled.win = DOMAIN tx_window
    BY RetxStateOK, RetransmitKeeps DEF Scheduled, SameWin
  <1> QED
    BY <1>1, DropKeeps DEF Ready, SameWin, HeadIsHeld

(* A PDU handed to MAC. *)
Sent(d, sn) ==
  /\ dataCh' = Append(dataCh, d)
  /\ d.vt_a = vt_a /\ d.pdu.sn = sn /\ d.pdu.p \in BOOLEAN

LEMMA RetxWholeSends ==
  ASSUME NEW r, IsRetx(r), HeadIsHeld(r), r.q # <<>>, RetxWhole(r)
  PROVE  /\ UNCHANGED <<vt_a, vt_s, stack, protocol_failure>>
         /\ DOMAIN tx_window' = DOMAIN r.win /\ QueueOK'
         /\ \E sn \in DOMAIN r.win : \E d : Sent(d, sn)
  <1> DEFINE head == Head(r.q)
             data == r.win[head.sn].data
             bytes == CountBytes(byte_without_poll, Len(data))
             p == poll_required(CountPdu(pdu_without_poll), bytes, tx_sdu_queue, r.q)
             d == [pdu |-> AmdPdu(head.sn, p, data), vt_a |-> vt_a, retx |-> TRUE]
  <1>1. /\ SetRetx([r EXCEPT !.q = Tail(@)]) /\ dataCh' = Append(dataCh, d)
        /\ UNCHANGED <<vt_a, vt_s, stack, protocol_failure>>
    BY DEF RetxWhole, Send, ackVars
  <1>2. [r EXCEPT !.q = Tail(@)] = [win |-> r.win, q |-> Tail(r.q), ovf |-> r.ovf, max |-> r.max]
    BY DEF IsRetx
  <1>3. tx_window' = r.win /\ retx_queue' = Tail(r.q)
    BY <1>1, <1>2 DEF SetRetx
  <1>4. Tail(r.q) \in Seq(Range(r.q)) /\ Len(Tail(r.q)) = Len(r.q) - 1 /\ Len(r.q) \in Nat
    BY HeadTailProperties, LenProperties DEF IsRetx, IsSeq
  <1>5. QueueOK'
    <2>1. IsSeq(Tail(r.q))
      BY <1>4, SeqOfRange DEF IsSeq
    <2>2. Len(Tail(r.q)) < WINDOW
      BY <1>4, ModType DEF IsRetx
    <2> QED
      BY <1>3, <2>1, <2>2 DEF QueueOK
  <1>6. d.vt_a = vt_a /\ d.pdu.sn = head.sn /\ d.pdu.p = p
    BY DEF AmdPdu
  <1>7. p \in BOOLEAN
    BY DEF poll_required
  <1>8. head.sn \in DOMAIN r.win
    BY DEF HeadIsHeld
  <1> HIDE DEF d, p, head
  <1> QED
    BY <1>1, <1>3, <1>5, <1>6, <1>7, <1>8 DEF Sent

LEMMA RetxSegmentSends ==
  ASSUME NEW r, IsRetx(r), HeadIsHeld(r), r.q # <<>>, NEW s, RetxSegment(r, s)
  PROVE  /\ UNCHANGED <<vt_a, vt_s, stack, protocol_failure>>
         /\ DOMAIN tx_window' = DOMAIN r.win /\ QueueOK'
         /\ \E sn \in DOMAIN r.win : \E d : Sent(d, sn)
  <1> DEFINE head == Head(r.q)
             data == r.win[head.sn].data
             start == IF head.is_segment THEN head.so_start ELSE 0
             limit == IF head.is_segment THEN head.so_end ELSE Len(data)
             end == IF s < limit - start THEN start + s ELSE limit
             last == end = Len(data)
             first == [r.q[1] EXCEPT !.is_segment = TRUE, !.so_start = end]
             cut == [r.q EXCEPT ![1].is_segment = TRUE, ![1].so_start = end]
             q == IF last \/ head.so_end = end THEN Tail(r.q) ELSE cut
             bytes == CountBytes(byte_without_poll, Len(data))
             p == poll_required(CountPdu(pdu_without_poll), bytes, tx_sdu_queue, q)
             d == [pdu |-> [rf |-> TRUE, sn |-> head.sn, p |-> p, so |-> start,
                            data |-> SubSeq(data, start + 1, end), lsf |-> last],
                   vt_a |-> vt_a, retx |-> TRUE]
  <1>1. /\ SetRetx([r EXCEPT !.q = q]) /\ dataCh' = Append(dataCh, d)
        /\ UNCHANGED <<vt_a, vt_s, stack, protocol_failure>>
    BY DEF RetxSegment, Send, ackVars
  <1>2. [r EXCEPT !.q = q] = [win |-> r.win, q |-> q, ovf |-> r.ovf, max |-> r.max]
    <2> HIDE DEF q
    <2> QED
      BY DEF IsRetx
  <1>3. tx_window' = r.win /\ retx_queue' = q
    BY <1>1, <1>2 DEF SetRetx
  <1>4. /\ Tail(r.q) \in Seq(Range(r.q)) /\ Len(Tail(r.q)) = Len(r.q) - 1
        /\ Len(r.q) \in Nat \ {0} /\ r.q \in Seq(Range(r.q))
    BY HeadTailProperties, LenProperties, EmptySeq DEF IsRetx, IsSeq
  <1>5. IsSeq(cut) /\ Len(cut) = Len(r.q)
    <2> DEFINE S == Range(r.q) \union {first}
    <2>1. cut = [r.q EXCEPT ![1] = first]
      BY Zenon
    <2>2. r.q \in Seq(S) /\ first \in S
      BY <1>4, SeqMonotonic
    <2> HIDE DEF S, cut, first
    <2>3. [r.q EXCEPT ![1] = first] \in Seq(S) /\ Len([r.q EXCEPT ![1] = first]) = Len(r.q)
      <3>1. 1 \in 1 .. Len(r.q)
        BY <1>4
      <3> QED
        BY <2>2, <3>1, ExceptSeq
    <2> QED
      BY <2>1, <2>3, SeqOfRange DEF IsSeq
  <1>6. IsSeq(Tail(r.q))
    BY <1>4, SeqOfRange DEF IsSeq
  <1>7. QueueOK'
    <2> HIDE DEF cut
    <2> QED
      BY <1>3, <1>4, <1>5, <1>6, ModType DEF QueueOK, IsRetx
  <1>8. d.vt_a = vt_a /\ d.pdu.sn = head.sn /\ d.pdu.p = p
    <2> HIDE DEF p, head
    <2> QED
      OBVIOUS
  <1>9. p \in BOOLEAN
    BY DEF poll_required
  <1>10. head.sn \in DOMAIN r.win
    BY DEF HeadIsHeld
  <1> HIDE DEF d, p, head
  <1> QED
    BY <1>1, <1>3, <1>7, <1>8, <1>9, <1>10 DEF Sent

LEMMA BuildDataPduSends ==
  ASSUME NEW r, IsRetx(r), NEW g, NEW pdus, NEW bytes0, BuildDataPdu(r, g, pdus, bytes0)
  PROVE  /\ UNCHANGED <<vt_a, stack, protocol_failure>>
         /\ vt_s' = Add(vt_s, 1)
         /\ DOMAIN tx_window' = DOMAIN r.win \union {vt_s} /\ QueueOK'
         /\ \E d : Sent(d, vt_s)
  <1>1. PICK data, sdus, p :
          /\ SetRetx([r EXCEPT !.win = [sn \in DOMAIN @ \union {vt_s} |->
               IF sn = vt_s THEN [data |-> data, retx_count |-> 0, sdus |-> sdus] ELSE @[sn]]])
          /\ p \in BOOLEAN
          /\ Send(AmdPdu(vt_s, p, data), FALSE)
    <2> DEFINE stream == tx_sdu \o QueuedTokens(tx_sdu_queue)
               len == IF g < Len(stream) THEN g ELSE Len(stream)
               taken == SubSeq(stream, 1, len)
               sdus == {t.b[1] : t \in ToSet(taken)}
               slots == {k \in 1 .. Len(tx_sdu_queue) : tx_sdu_queue[k] \in sdus}
               readTo == IF slots = {} THEN 0 ELSE CHOOSE k \in slots : \A j \in slots : j <= k
               queue == SubSeq(tx_sdu_queue, readTo + 1, Len(tx_sdu_queue))
               data == IF taken = <<>> THEN <<[b |-> NoByte, e |-> TRUE]>> ELSE taken
               bytes == CountBytes(bytes0, len)
               p == poll_required(pdus, bytes, queue, r.q)
    <2>1. p \in BOOLEAN
      BY DEF poll_required
    <2>2. /\ SetRetx([r EXCEPT !.win = [sn \in DOMAIN @ \union {vt_s} |->
               IF sn = vt_s THEN [data |-> data, retx_count |-> 0, sdus |-> sdus] ELSE @[sn]]])
          /\ Send(AmdPdu(vt_s, p, data), FALSE)
      BY DEF BuildDataPdu
    <2> HIDE DEF data, sdus, p
    <2> QED
      BY <2>1, <2>2
  <1> DEFINE win == [sn \in DOMAIN r.win \union {vt_s} |->
               IF sn = vt_s THEN [data |-> data, retx_count |-> 0, sdus |-> sdus] ELSE r.win[sn]]
             d == [pdu |-> AmdPdu(vt_s, p, data), vt_a |-> vt_a, retx |-> FALSE]
  <1>2. SetRetx([r EXCEPT !.win = win])
    BY <1>1
  <1>3. DOMAIN win = DOMAIN r.win \union {vt_s}
    OBVIOUS
  <1> HIDE DEF win
  <1>4. [r EXCEPT !.win = win] = [win |-> win, q |-> r.q, ovf |-> r.ovf, max |-> r.max]
    BY DEF IsRetx
  <1>5. tx_window' = win /\ retx_queue' = r.q
    BY <1>2, <1>4 DEF SetRetx
  <1>6. d.vt_a = vt_a /\ d.pdu.sn = vt_s /\ d.pdu.p = p
    BY DEF AmdPdu
  <1>7. dataCh' = Append(dataCh, d)
    BY <1>1 DEF Send
  <1>8. UNCHANGED <<vt_a, stack, protocol_failure>> /\ vt_s' = Add(vt_s, 1)
    BY DEF BuildDataPdu
  <1> HIDE DEF d
  <1> QED
    BY <1>1, <1>3, <1>5, <1>6, <1>7, <1>8 DEF Sent, QueueOK, IsRetx

(* What a call of read_pdu comes to. *)
LEMMA ReadPduCases ==
  ASSUME QueueOK, NEW g, NEW s, read_pdu(g, s)
  PROVE  /\ UNCHANGED <<vt_a, stack, protocol_failure>> /\ QueueOK'
         /\ \/ /\ UNCHANGED vt_s /\ DOMAIN tx_window' = DOMAIN tx_window
               /\ dataCh' = dataCh \/ \E sn \in DOMAIN tx_window : \E d : Sent(d, sn)
            \/ /\ ~window_full /\ vt_s' = Add(vt_s, 1)
               /\ DOMAIN tx_window' = DOMAIN tx_window \union {vt_s}
               /\ \E d : Sent(d, vt_s)
  <1>1. IsRetx(Ready) /\ DOMAIN Ready.win = DOMAIN tx_window /\ HeadIsHeld(Ready)
    BY ReadyOK
  <1>2. \/ Ready.q # <<>> /\ RetxWhole(Ready)
        \/ Ready.q # <<>> /\ RetxSegment(Ready, s)
        \/ ~window_full /\ \E pdus, bytes : BuildDataPdu(Ready, g, pdus, bytes)
        \/ \E pdus, bytes : NoPdu(Ready, pdus, bytes)
    BY DEF read_pdu, Ready, Scheduled
  <1>3. CASE Ready.q # <<>> /\ RetxWhole(Ready)
    BY <1>1, <1>3, RetxWholeSends
  <1>4. CASE Ready.q # <<>> /\ RetxSegment(Ready, s)
    BY <1>1, <1>4, RetxSegmentSends
  <1>5. CASE ~window_full /\ \E pdus, bytes : BuildDataPdu(Ready, g, pdus, bytes)
    BY <1>1, <1>5, BuildDataPduSends
  <1>6. CASE \E pdus, bytes : NoPdu(Ready, pdus, bytes)
    BY <1>1, <1>6 DEF NoPdu, SetRetx, QueueOK, IsRetx, ackVars
  <1> QED
    BY <1>2, <1>3, <1>4, <1>5, <1>6

-----------------------------------------------------------------------------
(* The steps of the transmitter. *)

LEMMA SameRx ==
  ASSUME LinkWindowInv, UNCHANGED rxVars
  PROVE  /\ RxInv' /\ RxPayloadTypeOK'
         /\ UNCHANGED <<vr_r, vr_ms, vr_h, rx_window, rx_segments, statusCh>>
  <1>1. /\ UNCHANGED <<vr_r, vr_mr, vr_x, vr_ms, vr_h, rx_window, rx_segments, statusCh>>
        /\ UNCHANGED <<reordering_timer, status_prohibit_timer, poll_received, do_status>>
    BY DEF rxVars, windowVars, payloadVars, pollVars
  <1>2. RxInv'
    <2>1. UNCHANGED windowVars
      BY <1>1 DEF windowVars
    <2> QED
      BY <1>1, <2>1, SameWindow DEF LinkWindowInv, RxInv, RxWindowTypeOK
  <1> QED
    BY <1>1, <1>2 DEF LinkWindowInv, RxPayloadTypeOK

(* A PDU of the window is handed to MAC, vt_s being moved past it or not. *)
LEMMA SentInFlight ==
  ASSUME LinkWindowInv, NEW sn \in SN, NEW d, Sent(d, sn), UNCHANGED <<vt_a, vr_h>>, vt_s' \in SN,
         Base(vt_s, vt_a) <= Base(vt_s', vt_a), Base(vt_s', vt_a) <= WINDOW,
         Base(sn, vt_a) < Base(vt_s', vt_a)
  PROVE  IsSeq(dataCh)' /\ DataInFlight'
  <1>1. IsSeq(dataCh) /\ DataInFlight
    BY DEF LinkWindowInv
  <1>2. /\ IsSeq(dataCh)' /\ Len(dataCh) \in Nat /\ Len(dataCh') = Len(dataCh) + 1
        /\ \A j \in 1 .. Len(dataCh) + 1 : dataCh'[j] = IF j <= Len(dataCh) THEN dataCh[j] ELSE d
    BY <1>1, AppendKeeps DEF Sent, IsSeq
  <1>3. \A j \in 1 .. Len(dataCh') : \/ j \in 1 .. Len(dataCh) /\ dataCh'[j] = dataCh[j]
                                     \/ j = Len(dataCh) + 1 /\ dataCh'[j] = d
    BY <1>2
  <1>4. vt_a \in SN /\ d.vt_a = vt_a /\ Base(vt_a, vt_a) = 0 /\ d.pdu.sn = sn /\ d.pdu.p \in BOOLEAN
    BY LinkDistances DEF Sent
  <1>5. /\ Base(vt_s, vt_a) \in Nat /\ Base(vt_s', vt_a) \in Nat /\ Base(sn, vt_a) \in Nat
        /\ Base(vr_h, vt_a) \in Nat /\ Base(vr_h, vt_a) <= WINDOW
    BY LinkDistances
  <1>6. ASSUME NEW j \in 1 .. Len(dataCh), dataCh'[j] = dataCh[j]
        PROVE  DataOK(dataCh[j])' /\ Age(dataCh[j])' = Age(dataCh[j]) /\ Age(dataCh[j]) \in Nat
    <2>1. DataOK(dataCh[j])
      BY <1>1 DEF DataInFlight
    <2>2. Age(dataCh[j]) \in Nat
      BY <2>1, AgeType
    <2>3. Base(dataCh[j].pdu.sn, dataCh[j].vt_a) \in Nat
      BY <2>1, BaseLinear DEF DataOK
    <2>4. Base(dataCh[j].pdu.sn, dataCh[j].vt_a) < Age(dataCh[j]) + Base(vt_s', vt_a)
      BY <1>5, <2>1, <2>2, <2>3 DEF DataOK, TX_MOD_BASE
    <2> QED
      BY <1>6, <2>1, <2>2, <2>4 DEF DataOK, Age, TX_MOD_BASE
  <1>7. ASSUME NEW j \in 1 .. Len(dataCh'), dataCh'[j] = d
        PROVE  DataOK(dataCh[j])' /\ Age(dataCh[j])' = 0
    BY <1>4, <1>5, <1>7, ModType DEF DataOK, Age, TX_MOD_BASE
  <1>8. \A j \in 1 .. Len(dataCh') : DataOK(dataCh[j])'
    BY <1>3, <1>6, <1>7
  <1>9. ASSUME NEW i \in 1 .. Len(dataCh'), NEW j \in 1 .. Len(dataCh'), i < j
        PROVE  Age(dataCh[j])' <= Age(dataCh[i])'
    <2>1. i \in 1 .. Len(dataCh) /\ dataCh'[i] = dataCh[i]
      BY <1>2, <1>3, <1>9
    <2>2. Age(dataCh[i])' = Age(dataCh[i]) /\ Age(dataCh[i]) \in Nat
      BY <1>6, <2>1
    <2>3. CASE j \in 1 .. Len(dataCh) /\ dataCh'[j] = dataCh[j]
      <3>1. Age(dataCh[j])' = Age(dataCh[j])
        BY <1>6, <2>3
      <3> QED
        BY <1>1, <1>9, <2>1, <2>2, <2>3, <3>1 DEF DataInFlight
    <2>4. CASE dataCh'[j] = d
      <3>1. Age(dataCh[j])' = 0
        BY <1>7, <2>4
      <3> QED
        BY <2>2, <3>1
    <2> QED
      BY <1>3, <2>3, <2>4
  <1> QED
    BY <1>2, <1>8, <1>9 DEF DataInFlight

(* The statuses stay as they are when the transmit window only grows. *)
LEMMA StatusKept ==
  ASSUME LinkWindowInv, UNCHANGED <<vt_a, vr_r, vr_ms, rx_window, stack, statusCh>>, vt_s' \in SN,
         Base(vt_s, vt_a) <= Base(vt_s', vt_a),
         \A x \in SN : Kept(x) => Kept(x)',
         \A x \in SN : x \in DOMAIN tx_window => x \in DOMAIN tx_window'
  PROVE  StatusInFlight' /\ StatusInWork'
  <1>1. \A sn : Received(sn)' <=> Received(sn)
    BY DEF Received, TX_MOD_BASE
  <1>2. \A st, sn : (Acks(st, sn)' <=> Acks(st, sn)) /\ (FirstOpen(st, sn)' <=> FirstOpen(st, sn))
    BY DEF FirstOpen, Acks, TX_MOD_BASE
  <1>3. \A k \in 1 .. Len(statusCh) : StatusOK(statusCh[k])'
    BY <1>1, <1>2 DEF LinkWindowInv, StatusInFlight, StatusOK, TX_MOD_BASE
  <1>4. StatusInFlight'
    BY <1>2, <1>3 DEF LinkWindowInv, StatusInFlight
  <1>5. CASE stack.pc = "status"
    <2>1. stack.vt_s_local \in SN /\ Base(stack.vt_s_local, vt_a) <= Base(vt_s, vt_a)
      BY <1>5 DEF LinkWindowInv, StatusInWork, StatusSection, TX_MOD_BASE
    <2>2. Base(stack.vt_s_local, vt_a) <= Base(vt_s', vt_a)
      BY <2>1, LinkDistances
    <2> QED
      BY <1>1, <1>2, <1>4, <1>5, <2>2, LinkDistances DEF LinkWindowInv, StatusInWork, TX_MOD_BASE
  <1>6. CASE stack.pc # "status"
    BY <1>4, <1>6, LinkDistances DEF LinkWindowInv, StatusInWork
  <1> QED
    BY <1>4, <1>5, <1>6

LEMMA ReadPduKeeps ==
  ASSUME LinkWindowInv, NEW g, NEW s, ReadPdu(g, s)
  PROVE  LinkWindowInv'
  <1>1. read_pdu(g, s) /\ UNCHANGED rxVars
    BY DEF ReadPdu
  <1>2. /\ RxInv' /\ RxPayloadTypeOK'
        /\ UNCHANGED <<vr_r, vr_ms, vr_h, rx_window, rx_segments, statusCh>>
    BY <1>1, SameRx
  <1>3. UNCHANGED <<vt_a, stack, protocol_failure>> /\ QueueOK'
    BY <1>1, ReadPduCases DEF LinkWindowInv
  <1>4. CASE UNCHANGED vt_s /\ DOMAIN tx_window' = DOMAIN tx_window /\ dataCh' = dataCh
    BY <1>2, <1>3, <1>4, SameLink
  <1>5. ASSUME UNCHANGED vt_s, DOMAIN tx_window' = DOMAIN tx_window,
               NEW sn \in DOMAIN tx_window, NEW d, Sent(d, sn)
        PROVE  LinkWindowInv'
    <2>1. IsSeq(dataCh)' /\ DataInFlight'
      BY <1>2, <1>3, <1>5, LinkDistances, SentInFlight
    <2>2. WindowsAgree' /\ MissingIsKept'
      BY <1>2, <1>3, <1>5 DEF LinkWindowInv, WindowsAgree, MissingIsKept, TX_MOD_BASE
    <2>3. \A x \in SN : Kept(x) => Kept(x)'
      BY <1>5 DEF Kept
    <2>4. /\ \A x \in SN : x \in DOMAIN tx_window => x \in DOMAIN tx_window'
          /\ vt_s' \in SN /\ Base(vt_s, vt_a) <= Base(vt_s', vt_a)
      BY <1>5, LinkDistances
    <2>5. StatusInFlight' /\ StatusInWork'
      BY <1>2, <1>3, <2>3, <2>4, StatusKept
    <2> QED
      BY <1>2, <1>3, <1>5, <2>1, <2>2, <2>5 DEF LinkWindowInv, NoProtocolFailure
  <1>6. ASSUME ~window_full, vt_s' = Add(vt_s, 1), NEW d, Sent(d, vt_s),
               DOMAIN tx_window' = DOMAIN tx_window \union {vt_s}
        PROVE  LinkWindowInv'
    <2>1. /\ vt_s \in SN /\ vt_s' \in SN /\ Base(vt_s', vt_a) = Base(vt_s, vt_a) + 1
          /\ Base(vt_s, vt_a) < WINDOW /\ Base(vt_s, vt_a) \in Nat
      BY <1>6, LinkDistances, BaseNext, ModType DEF window_full, TX_MOD_BASE
    <2>2. IsSeq(dataCh)' /\ DataInFlight'
      BY <1>2, <1>3, <1>6, <2>1, SentInFlight, ModType
    <2>3. WindowsAgree'
      <3>1. \A sn \in DOMAIN tx_window' : Base(sn, vt_a) < Base(vt_s, vt_a) + 1
        <4>1. \A sn \in DOMAIN tx_window : Base(sn, vt_a) \in Nat /\ Base(sn, vt_a) < Base(vt_s, vt_a)
          BY LinkDistances
        <4> QED
          BY <1>6, <2>1, <4>1
      <3> QED
        BY <1>2, <1>3, <2>1, <3>1, LinkDistances, ModType DEF WindowsAgree, TX_MOD_BASE
    <2>4. MissingIsKept'
      <3> SUFFICES ASSUME NEW sn \in SN, Base(vr_r, vt_a) <= Base(sn, vt_a),
                          Base(sn, vt_a) < Base(vt_s, vt_a) + 1
                   PROVE  sn \in DOMAIN rx_window \/ sn \in DOMAIN tx_window'
        BY <1>2, <1>3, <2>1 DEF MissingIsKept, TX_MOD_BASE
      <3>1. CASE Base(sn, vt_a) < Base(vt_s, vt_a)
        BY <1>6, <3>1 DEF LinkWindowInv, MissingIsKept, TX_MOD_BASE
      <3>2. CASE Base(sn, vt_a) = Base(vt_s, vt_a)
        BY <1>6, <3>2, LinkDistances, BaseInjective
      <3> QED
        BY <2>1, <3>1, <3>2, LinkDistances
    <2>5. \A x \in SN : Kept(x) => Kept(x)'
      BY <1>6 DEF Kept
    <2>6. Base(vt_s, vt_a) <= Base(vt_s', vt_a)
      BY <2>1
    <2>7. \A x \in SN : x \in DOMAIN tx_window => x \in DOMAIN tx_window'
      BY <1>6
    <2>8. StatusInFlight' /\ StatusInWork'
      BY <1>2, <1>3, <2>1, <2>5, <2>6, <2>7, StatusKept
    <2>9. DOMAIN tx_window' \subseteq SN
      BY <1>6, LinkDistances
    <2> QED
      BY <1>2, <1>3, <2>1, <2>2, <2>3, <2>4, <2>8, <2>9 DEF LinkWindowInv, NoProtocolFailure
  <1> QED
    BY <1>1, <1>4, <1>5, <1>6, ReadPduCases DEF LinkWindowInv

(* What leaves the windows and the channels alone. *)
LEMMA SduStepKeeps ==
  ASSUME LinkWindowInv, Tx(write_sdu) \/ \E i \in Discardable : Tx(discard_sdu(i))
  PROVE  LinkWindowInv'
  <1>1. /\ UNCHANGED rxVars
        /\ UNCHANGED <<vt_a, vt_s, tx_window, retx_queue, stack, protocol_failure, dataCh>>
    BY DEF Tx, write_sdu, discard_sdu, retxVars, ackVars
  <1>2. /\ RxInv' /\ UNCHANGED <<vr_r, vr_ms, vr_h, rx_window, rx_segments, statusCh>>
    BY <1>1, SameRx
  <1> QED
    BY <1>1, <1>2, SameLink DEF LinkWindowInv, QueueOK

LEMMA PollTimeoutKeeps ==
  ASSUME LinkWindowInv, PollTimeout
  PROVE  LinkWindowInv'
  <1>1. /\ UNCHANGED rxVars
        /\ UNCHANGED <<vt_a, vt_s, tx_window, retx_queue, protocol_failure, dataCh>>
        /\ stack = Idle /\ stack' = [pc |-> "timer_expired"]
    BY DEF PollTimeout, poll_retx_expires, retxVars, ackVars
  <1>2. stack.pc # "status" /\ stack'.pc # "status"
    BY <1>1 DEF Idle
  <1>3. /\ RxInv' /\ UNCHANGED <<vr_r, vr_ms, vr_h, rx_window, rx_segments, statusCh>>
    BY <1>1, SameRx
  <1> QED
    BY <1>1, <1>2, <1>3, SameLink DEF LinkWindowInv, QueueOK

LEMMA TimerExpiredKeeps ==
  ASSUME LinkWindowInv, Tx(timer_expired)
  PROVE  LinkWindowInv'
  <1> DEFINE r == IF (retx_queue = <<>> /\ tx_sdu_queue = <<>>) \/ window_full
                  THEN retransmit_pdu(RetxState, vt_a) ELSE RetxState
  <1>1. /\ UNCHANGED rxVars /\ SetRetx(r)
        /\ UNCHANGED <<vt_a, vt_s, protocol_failure, dataCh>>
        /\ stack.pc = "timer_expired" /\ stack' = Idle
    BY DEF Tx, timer_expired, ackVars
  <1>2. stack.pc # "status" /\ stack'.pc # "status"
    BY <1>1 DEF Idle
  <1>3. /\ RxInv' /\ UNCHANGED <<vr_r, vr_ms, vr_h, rx_window, rx_segments, statusCh>>
    BY <1>1, SameRx
  <1>4. IsRetx(r) /\ DOMAIN r.win = DOMAIN tx_window
    BY RetxStateOK, RetransmitKeeps DEF LinkWindowInv, SameWin
  <1> HIDE DEF r
  <1>5. DOMAIN tx_window' = DOMAIN tx_window /\ QueueOK'
    BY <1>1, <1>4 DEF SetRetx, IsRetx, QueueOK
  <1> QED
    BY <1>1, <1>2, <1>3, <1>5, SameLink

-----------------------------------------------------------------------------
(* handle_control_pdu: its first section, ... *)

LEMMA DeliverStatusKeeps ==
  ASSUME LinkWindowInv, DeliverStatus
  PROVE  LinkWindowInv'
  <1> DEFINE st == Head(statusCh)
             n == Len(statusCh)
  <1>1. /\ statusCh # <<>> /\ statusCh' = Tail(statusCh)
        /\ UNCHANGED windowVars
        /\ UNCHANGED <<vr_r, vr_ms, vr_h, rx_window, rx_segments>>
        /\ UNCHANGED <<reordering_timer, status_prohibit_timer, poll_received, do_status>>
        /\ UNCHANGED <<vt_a, vt_s, tx_window, protocol_failure, dataCh>>
        /\ stack = Idle /\ (retx_queue' = <<>> \/ retx_queue' = retx_queue)
        /\ \/ UNCHANGED stack
           \/ stack' = [pc |-> "status", ack |-> st.ack, nacks |-> st.nacks,
                        i |-> vt_a, vt_s_local |-> vt_s, update_vt_a |-> TRUE]
    BY DEF DeliverStatus, handle_control_pdu, windowVars, payloadVars, pollVars, ackVars
  <1>2. RxInv'
    BY <1>1, SameWindow DEF LinkWindowInv, RxInv, RxWindowTypeOK
  <1>3. QueueOK'
    BY <1>1, EmptyIsSeq, ModType DEF LinkWindowInv, QueueOK
  <1>4. /\ n \in Nat \ {0} /\ Len(statusCh') = n - 1 /\ st = statusCh[1]
        /\ \A j \in 1 .. n - 1 : statusCh'[j] = statusCh[j + 1]
        /\ RxPayloadTypeOK'
    <2> DEFINE Status == [ack : SN, nacks : SUBSET SN]
    <2>1. statusCh \in Seq(Status)
      BY DEF LinkWindowInv, RxPayloadTypeOK
    <2> HIDE DEF Status
    <2>2. /\ Tail(statusCh) \in Seq(Status) /\ Len(Tail(statusCh)) = n - 1
          /\ \A j \in 1 .. Len(Tail(statusCh)) : Tail(statusCh)[j] = statusCh[j + 1]
          /\ n \in Nat \ {0}
      BY <1>1, <2>1, HeadTailProperties, EmptySeq
    <2>3. RxPayloadTypeOK'
      BY <1>1, <2>2 DEF LinkWindowInv, RxPayloadTypeOK, Status
    <2> QED
      BY <1>1, <2>2, <2>3
  <1>5. \A j \in 1 .. Len(statusCh') : j + 1 \in 1 .. n /\ 1 < j + 1 /\ statusCh'[j] = statusCh[j + 1]
    BY <1>4
  <1>6. 1 \in 1 .. n
    BY <1>4
  <1>7. st.ack \in SN /\ st.nacks \subseteq SN
    BY <1>4, <1>6, StatusType DEF LinkWindowInv
  <1> HIDE DEF st
  <1>8. StatusOK(st)
    BY <1>4, <1>6 DEF LinkWindowInv, StatusInFlight
  <1>9. \A j \in 1 .. Len(statusCh') : \A x \in SN : FirstOpen(statusCh[j + 1], x) => ~Acks(st, x)
    BY <1>4, <1>5, <1>6 DEF LinkWindowInv, StatusInFlight
  <1>10. StatusInFlight'
    <2>1. \A j \in 1 .. Len(statusCh') : StatusOK(statusCh[j])'
      BY <1>1, <1>5 DEF LinkWindowInv, StatusInFlight, StatusOK, FirstOpen, Acks, Kept, Received,
                        TX_MOD_BASE
    <2>2. ASSUME NEW i \in 1 .. Len(statusCh'), NEW j \in 1 .. Len(statusCh'), i < j, NEW x \in SN,
                 FirstOpen(statusCh[j], x)'
          PROVE  ~Acks(statusCh[i], x)'
      <3>1. FirstOpen(statusCh[j + 1], x)
        BY <1>1, <1>5, <2>2 DEF FirstOpen, Acks, TX_MOD_BASE
      <3>2. i + 1 < j + 1
        BY <2>2
      <3>3. ~Acks(statusCh[i + 1], x)
        BY <1>5, <3>1, <3>2 DEF LinkWindowInv, StatusInFlight
      <3> QED
        BY <1>1, <1>5, <3>3 DEF Acks, TX_MOD_BASE
    <2> QED
      BY <2>1, <2>2 DEF StatusInFlight
  <1>11. StatusInWork'
    <2>1. CASE UNCHANGED stack
      <3>1. stack.pc # "status"
        BY <1>1 DEF Idle
      <3> QED
        BY <1>1, <2>1, <3>1 DEF LinkWindowInv, StatusInWork, Kept
    <2>2. CASE stack' = [pc |-> "status", ack |-> st.ack, nacks |-> st.nacks,
                         i |-> vt_a, vt_s_local |-> vt_s, update_vt_a |-> TRUE]
      <3>1. /\ stack'.pc = "status" /\ stack'.ack = st.ack /\ stack'.nacks = st.nacks
            /\ stack'.i = vt_a /\ stack'.vt_s_local = vt_s /\ stack'.update_vt_a = TRUE
            /\ stack' \in StatusSection
        BY <1>7, <2>2, LinkDistances DEF StatusSection
      <3>2. /\ Base(vt_a, vt_a) <= Base(st.ack, vt_a) /\ Base(st.ack, vt_a) <= Base(vt_s, vt_a)
            /\ Base(vt_s, vt_a) <= Base(vt_s, vt_a)
        BY <1>7, <1>8, LinkDistances DEF StatusOK, TX_MOD_BASE
      <3>3. \A sn \in SN : (Acks(stack, sn)' <=> Acks(st, sn)) /\ (FirstOpen(stack, sn)' <=> FirstOpen(st, sn))
                           /\ (Received(sn)' <=> Received(sn)) /\ (Kept(sn)' <=> Kept(sn))
        BY <1>1, <3>1 DEF FirstOpen, Acks, Received, Kept, TX_MOD_BASE
      <3>4. ASSUME NEW j \in 1 .. Len(statusCh'), NEW x \in SN, FirstOpen(statusCh[j], x)'
            PROVE  ~Acks(stack, x)'
        <4>1. FirstOpen(statusCh[j + 1], x)
          BY <1>1, <1>5, <3>4 DEF FirstOpen, Acks, TX_MOD_BASE
        <4> QED
          BY <1>9, <3>3, <4>1
      <3> QED
        BY <1>1, <1>8, <3>1, <3>2, <3>3, <3>4 DEF StatusInWork, StatusOK, TX_MOD_BASE
    <2> QED
      BY <1>1, <2>1, <2>2
  <1>12. WindowsAgree' /\ MissingIsKept' /\ DataInFlight' /\ IsSeq(dataCh)'
    BY <1>1 DEF LinkWindowInv, WindowsAgree, MissingIsKept, DataInFlight, DataOK, Age, TX_MOD_BASE, IsSeq
  <1> QED
    BY <1>1, <1>2, <1>3, <1>4, <1>10, <1>11, <1>12 DEF LinkWindowInv, NoProtocolFailure

(* ... its loop over the SNs of the status ... *)

LEMMA InWork ==
  ASSUME LinkWindowInv, stack.pc = "status"
  PROVE  /\ stack.i \in SN /\ stack.ack \in SN /\ stack.vt_s_local \in SN /\ stack.nacks \subseteq SN
         /\ stack.update_vt_a \in BOOLEAN
         /\ stack = [pc |-> "status", ack |-> stack.ack, nacks |-> stack.nacks, i |-> stack.i,
                     vt_s_local |-> stack.vt_s_local, update_vt_a |-> stack.update_vt_a]
         /\ Base(stack.i, vt_a) \in 0 .. WINDOW /\ Base(stack.ack, vt_a) \in 0 .. WINDOW
         /\ Base(stack.vt_s_local, vt_a) \in 0 .. WINDOW
         /\ Base(stack.i, vt_a) <= Base(stack.ack, vt_a)
         /\ Base(stack.ack, vt_a) <= Base(stack.vt_s_local, vt_a)
         /\ Base(stack.vt_s_local, vt_a) <= Base(vt_s, vt_a)
  <1>1. stack \in StatusSection
    BY DEF LinkWindowInv, StatusInWork
  <1>2. /\ stack.i \in SN /\ stack.ack \in SN /\ stack.vt_s_local \in SN /\ stack.nacks \subseteq SN
        /\ stack.update_vt_a \in BOOLEAN
        /\ stack = [pc |-> "status", ack |-> stack.ack, nacks |-> stack.nacks, i |-> stack.i,
                    vt_s_local |-> stack.vt_s_local, update_vt_a |-> stack.update_vt_a]
    BY <1>1 DEF StatusSection
  <1>3. /\ Base(stack.i, vt_a) <= Base(stack.ack, vt_a)
        /\ Base(stack.ack, vt_a) <= Base(stack.vt_s_local, vt_a)
        /\ Base(stack.vt_s_local, vt_a) <= Base(vt_s, vt_a)
    BY DEF LinkWindowInv, StatusInWork, TX_MOD_BASE
  <1>4. /\ Base(stack.i, vt_a) \in Nat /\ Base(stack.ack, vt_a) \in Nat
        /\ Base(stack.vt_s_local, vt_a) \in Nat /\ Base(vt_s, vt_a) \in 0 .. WINDOW
    BY <1>2, LinkDistances
  <1> QED
    BY <1>2, <1>3, <1>4, ModType

LEMMA NackSnKeeps ==
  ASSUME LinkWindowInv, Tx(NackSn)
  PROVE  LinkWindowInv'
  <1> DEFINE r == IF /\ stack.i \in DOMAIN tx_window
                     /\ \A k \in 1 .. Len(retx_queue) : retx_queue[k].sn # stack.i
                  THEN ScheduleRetx(RetxState, stack.i) ELSE RetxState
             I == Base(stack.i, vt_a)
  <1>1. /\ UNCHANGED rxVars /\ SetRetx(r)
        /\ UNCHANGED <<vt_a, vt_s, protocol_failure, dataCh>>
        /\ stack.pc = "status" /\ stack.i \in stack.nacks
        /\ I < Base(stack.ack, vt_a) /\ I < Base(stack.vt_s_local, vt_a)
        /\ stack' = [stack EXCEPT !.i = Add(@, 1), !.update_vt_a = FALSE]
    BY DEF Tx, NackSn, StatusLoops, ackVars, TX_MOD_BASE
  <1>2. /\ RxInv' /\ RxPayloadTypeOK'
        /\ UNCHANGED <<vr_r, vr_ms, vr_h, rx_window, rx_segments, statusCh>>
    BY <1>1, SameRx
  <1>3. IsRetx(r) /\ DOMAIN r.win = DOMAIN tx_window
    BY RetxStateOK, ScheduleKeeps DEF LinkWindowInv, SameWin
  <1> HIDE DEF r
  <1>4. DOMAIN tx_window' = DOMAIN tx_window /\ QueueOK'
    BY <1>1, <1>3 DEF SetRetx, IsRetx, QueueOK
  <1>5. stack.i \in SN /\ I \in 0 .. WINDOW
    BY <1>1, InWork
  <1>6. Add(stack.i, 1) \in SN /\ Base(Add(stack.i, 1), vt_a) = I + 1
    BY <1>1, <1>5, LinkDistances, BaseNext, ModType, InWork
  <1>7. /\ stack' = [pc |-> "status", ack |-> stack.ack, nacks |-> stack.nacks, i |-> Add(stack.i, 1),
                     vt_s_local |-> stack.vt_s_local, update_vt_a |-> FALSE]
    <2> DEFINE j == Add(stack.i, 1)
    <2>1. stack' = [stack EXCEPT !.i = j, !.update_vt_a = FALSE]
      BY <1>1
    <2> HIDE DEF j
    <2>2. stack' = [pc |-> "status", ack |-> stack.ack, nacks |-> stack.nacks, i |-> j,
                    vt_s_local |-> stack.vt_s_local, update_vt_a |-> FALSE]
      BY <1>1, <2>1, InWork
    <2> QED
      BY <2>2 DEF j
  <1>8. /\ stack'.pc = "status" /\ stack'.ack = stack.ack /\ stack'.nacks = stack.nacks
        /\ stack'.i = Add(stack.i, 1) /\ stack'.vt_s_local = stack.vt_s_local
        /\ stack'.update_vt_a = FALSE /\ stack' \in StatusSection
    BY <1>1, <1>6, <1>7, InWork DEF StatusSection
  <1>9. vt_a \in DOMAIN tx_window
    <2>1. CASE ~stack.update_vt_a
      BY <1>1, <2>1 DEF LinkWindowInv, StatusInWork
    <2>2. CASE stack.update_vt_a
      <3>1. PICK x \in SN : FirstOpen(stack, x) /\ Kept(x)
        BY <1>1, <2>2 DEF LinkWindowInv, StatusInWork
      <3>2. stack.i = vt_a
        BY <1>1, <2>2 DEF LinkWindowInv, StatusInWork
      <3>3. ~(Base(vt_a, vt_a) < Base(x, vt_a))
        BY <1>1, <3>1, <3>2, LinkDistances DEF FirstOpen, Acks, TX_MOD_BASE
      <3>4. x = vt_a
        BY <3>3, LinkDistances, BaseInjective
      <3>5. vt_a # vt_s
        BY <1>1, <3>2, LinkDistances, InWork
      <3> QED
        BY <3>1, <3>4, <3>5 DEF Kept
    <2> QED
      BY <1>1, <2>1, <2>2, InWork
  <1>10. /\ \A sn : (Received(sn)' <=> Received(sn)) /\ (Kept(sn)' <=> Kept(sn))
         /\ \A sn : Acks(stack, sn)' <=> Acks(stack, sn)
    BY <1>1, <1>2, <1>4, <1>8 DEF Received, Kept, Acks, TX_MOD_BASE
  <1>11. \A k \in 1 .. Len(statusCh) : \A x : /\ Acks(statusCh[k], x)' <=> Acks(statusCh[k], x)
                                              /\ FirstOpen(statusCh[k], x)' <=> FirstOpen(statusCh[k], x)
    BY <1>1, <1>2 DEF FirstOpen, Acks, TX_MOD_BASE
  <1>12. StatusInFlight'
    <2>1. \A k \in 1 .. Len(statusCh) : StatusOK(statusCh[k])'
      BY <1>1, <1>2, <1>10, <1>11 DEF LinkWindowInv, StatusInFlight, StatusOK, TX_MOD_BASE
    <2> QED
      BY <1>2, <1>11, <2>1 DEF LinkWindowInv, StatusInFlight
  <1>13. StatusInWork'
    <2>1. /\ I + 1 <= Base(stack.ack, vt_a) /\ I + 1 > 0
          /\ Base(stack.ack, vt_a) <= Base(stack.vt_s_local, vt_a)
          /\ Base(stack.vt_s_local, vt_a) <= Base(vt_s, vt_a)
      BY <1>1, <1>5, InWork
    <2>2. \A x \in SN : I + 1 <= Base(x, vt_a) => I <= Base(x, vt_a)
      BY <1>5, LinkDistances
    <2>3. \A sn \in SN : I + 1 <= Base(sn, vt_a) /\ Acks(stack, sn) => Received(sn)
      BY <1>1, <2>2 DEF LinkWindowInv, StatusInWork, TX_MOD_BASE
    <2>4. \A k \in 1 .. Len(statusCh) : \A x \in SN :
            FirstOpen(statusCh[k], x) => ~(I + 1 <= Base(x, vt_a) /\ Acks(stack, x))
      BY <1>1, <2>2 DEF LinkWindowInv, StatusInWork, TX_MOD_BASE
    <2> HIDE DEF I
    <2> QED
      BY <1>1, <1>2, <1>4, <1>6, <1>8, <1>9, <1>10, <1>11, <2>1, <2>3, <2>4
         DEF StatusInWork, TX_MOD_BASE
  <1>14. WindowsAgree' /\ MissingIsKept' /\ DataInFlight' /\ IsSeq(dataCh)'
    BY <1>1, <1>2, <1>4
       DEF LinkWindowInv, WindowsAgree, MissingIsKept, DataInFlight, DataOK, Age, TX_MOD_BASE, IsSeq
  <1> QED
    BY <1>1, <1>2, <1>4, <1>12, <1>13, <1>14 DEF LinkWindowInv, NoProtocolFailure

(* ... and its last section, which finds vt_a in the window. *)
LEMMA StatusDoneKeeps ==
  ASSUME LinkWindowInv, Tx(StatusDone)
  PROVE  LinkWindowInv'
  <1>1. /\ UNCHANGED rxVars /\ stack.pc = "status" /\ stack' = Idle
        /\ UNCHANGED <<vt_a, vt_s, tx_window, retx_queue, dataCh>>
        /\ ~(Base(stack.i, vt_a) < Base(stack.ack, vt_a) /\ Base(stack.i, vt_a) < Base(stack.vt_s_local, vt_a))
        /\ protocol_failure' = (protocol_failure \/ (DOMAIN tx_window # {} /\ vt_a \notin DOMAIN tx_window))
    BY DEF Tx, StatusDone, StatusLoops, retxVars, TX_MOD_BASE
  <1>2. /\ RxInv' /\ RxPayloadTypeOK'
        /\ UNCHANGED <<vr_r, vr_ms, vr_h, rx_window, rx_segments, statusCh>>
    BY <1>1, SameRx
  <1>3. vt_a \in DOMAIN tx_window \/ (vt_a = vt_s /\ DOMAIN tx_window = {})
    <2>1. CASE ~stack.update_vt_a
      BY <1>1, <2>1 DEF LinkWindowInv, StatusInWork
    <2>2. CASE stack.update_vt_a
      <3>1. PICK x \in SN : FirstOpen(stack, x) /\ Kept(x)
        BY <1>1, <2>2 DEF LinkWindowInv, StatusInWork
      <3>2. stack.i = vt_a
        BY <1>1, <2>2 DEF LinkWindowInv, StatusInWork
      <3>3. Base(stack.ack, vt_a) = 0
        BY <1>1, <3>2, LinkDistances, InWork
      <3>4. Base(x, vt_a) = 0
        BY <3>1, <3>3, LinkDistances DEF FirstOpen, TX_MOD_BASE
      <3>5. x = vt_a
        BY <3>4, LinkDistances, BaseInjective
      <3>6. vt_a = vt_s => DOMAIN tx_window = {}
        <4> SUFFICES ASSUME vt_a = vt_s, NEW sn \in DOMAIN tx_window PROVE FALSE
          OBVIOUS
        <4>1. sn \in SN /\ Base(sn, vt_a) < Base(vt_s, vt_a) /\ Base(vt_a, vt_a) = 0
          BY LinkDistances
        <4>2. Base(sn, vt_a) \in 0 .. MOD - 1
          BY <4>1, LinkDistances
        <4> QED
          BY <4>1, <4>2, ModType
      <3> QED
        BY <3>1, <3>5, <3>6 DEF Kept
    <2> QED
      BY <1>1, <2>1, <2>2, InWork
  <1>4. ~protocol_failure'
    BY <1>1, <1>3 DEF LinkWindowInv, NoProtocolFailure
  <1>5. StatusInWork'
    <2>1. stack'.pc # "status"
      BY <1>1 DEF Idle
    <2> QED
      BY <1>1, <1>3, <2>1 DEF StatusInWork, Kept
  <1>6. StatusInFlight'
    BY <1>1, <1>2 DEF LinkWindowInv, StatusInFlight, StatusOK, FirstOpen, Acks, Kept, Received, TX_MOD_BASE
  <1>7. WindowsAgree' /\ MissingIsKept' /\ DataInFlight' /\ IsSeq(dataCh)' /\ QueueOK'
    BY <1>1, <1>2 DEF LinkWindowInv, WindowsAgree, MissingIsKept, DataInFlight, DataOK, Age, TX_MOD_BASE,
                      IsSeq, QueueOK
  <1> QED
    BY <1>1, <1>2, <1>4, <1>5, <1>6, <1>7 DEF LinkWindowInv, NoProtocolFailure

(* One acknowledged SN leaves the window, ... *)
LEMMA AckSnStep ==
  ASSUME LinkWindowInv, Tx(AckSn)
  PROVE  /\ UNCHANGED <<vr_r, vr_ms, vr_h, rx_window, statusCh, vt_s, dataCh, protocol_failure>>
         /\ RxInv' /\ RxPayloadTypeOK' /\ QueueOK'
         /\ stack.pc = "status" /\ Acks(stack, stack.i) /\ Received(stack.i)
         /\ Base(stack.i, vt_a) < Base(stack.ack, vt_a)
         /\ Base(stack.i, vt_a) < Base(stack.vt_s_local, vt_a)
         /\ DOMAIN tx_window' = DOMAIN tx_window \ {stack.i}
         /\ vt_a' = (IF stack.update_vt_a THEN Add(vt_a, 1) ELSE vt_a)
         /\ Add(stack.i, 1) \in SN
         /\ stack'.pc = "status" /\ stack'.ack = stack.ack /\ stack'.nacks = stack.nacks
         /\ stack'.i = Add(stack.i, 1) /\ stack'.vt_s_local = stack.vt_s_local
         /\ stack'.update_vt_a = stack.update_vt_a /\ stack' \in StatusSection
  <1>1. /\ UNCHANGED rxVars /\ UNCHANGED <<vt_s, dataCh, protocol_failure, retx_queue>>
        /\ stack.pc = "status" /\ stack.i \notin stack.nacks
        /\ Base(stack.i, vt_a) < Base(stack.ack, vt_a)
        /\ Base(stack.i, vt_a) < Base(stack.vt_s_local, vt_a)
        /\ DOMAIN tx_window' = DOMAIN tx_window \ {stack.i}
        /\ vt_a' = (IF stack.update_vt_a THEN Add(vt_a, 1) ELSE vt_a)
        /\ stack' = [stack EXCEPT !.i = Add(@, 1)]
    BY DEF Tx, AckSn, StatusLoops, TX_MOD_BASE
  <1>2. /\ RxInv' /\ RxPayloadTypeOK'
        /\ UNCHANGED <<vr_r, vr_ms, vr_h, rx_window, statusCh>>
    BY <1>1, SameRx
  <1>3. Acks(stack, stack.i) /\ Received(stack.i)
    <2>1. Acks(stack, stack.i) /\ stack.i \in SN /\ Base(stack.i, vt_a) <= Base(stack.i, vt_a)
      BY <1>1, InWork DEF Acks, TX_MOD_BASE
    <2> QED
      BY <1>1, <2>1 DEF LinkWindowInv, StatusInWork, TX_MOD_BASE
  <1> DEFINE j == Add(stack.i, 1)
  <1>4. j \in SN
    BY <1>1, InWork, BaseNext
  <1>5. stack' = [stack EXCEPT !.i = j]
    BY <1>1
  <1> HIDE DEF j
  <1>6. stack' = [pc |-> "status", ack |-> stack.ack, nacks |-> stack.nacks, i |-> j,
                  vt_s_local |-> stack.vt_s_local, update_vt_a |-> stack.update_vt_a]
    BY <1>1, <1>5, InWork
  <1>7. stack' \in StatusSection
    BY <1>1, <1>4, <1>6, InWork DEF StatusSection
  <1>8. QueueOK'
    BY <1>1 DEF LinkWindowInv, QueueOK
  <1> QED
    BY <1>1, <1>2, <1>3, <1>4, <1>6, <1>7, <1>8 DEF j

(* ... above vt_a, ... *)
LEMMA AckSnAbove ==
  ASSUME LinkWindowInv, Tx(AckSn), ~stack.update_vt_a
  PROVE  LinkWindowInv'
  <1> DEFINE I == Base(stack.i, vt_a)
  <1>1. /\ UNCHANGED <<vr_r, vr_ms, vr_h, rx_window, statusCh, vt_a, vt_s, dataCh, protocol_failure>>
        /\ RxInv' /\ RxPayloadTypeOK' /\ QueueOK'
        /\ stack.pc = "status" /\ Acks(stack, stack.i) /\ Received(stack.i)
        /\ I < Base(stack.ack, vt_a) /\ I < Base(stack.vt_s_local, vt_a)
        /\ DOMAIN tx_window' = DOMAIN tx_window \ {stack.i}
        /\ stack'.pc = "status" /\ stack'.ack = stack.ack /\ stack'.nacks = stack.nacks
        /\ stack'.i = Add(stack.i, 1) /\ stack'.vt_s_local = stack.vt_s_local
        /\ stack'.update_vt_a = stack.update_vt_a /\ stack' \in StatusSection
    BY AckSnStep
  <1>2. /\ stack.i \in SN /\ I \in 0 .. WINDOW /\ I > 0 /\ vt_a \in DOMAIN tx_window
    BY <1>1, InWork DEF LinkWindowInv, StatusInWork, TX_MOD_BASE
  <1>3. Base(Add(stack.i, 1), vt_a) = I + 1
    BY <1>1, <1>2, LinkDistances, BaseNext, ModType, InWork
  <1>4. stack.i # vt_a
    BY <1>2, LinkDistances
  <1>5. \A sn : (Received(sn)' <=> Received(sn)) /\ (Acks(stack, sn)' <=> Acks(stack, sn))
    BY <1>1 DEF Received, Acks, TX_MOD_BASE
  <1>6. \A k \in 1 .. Len(statusCh) : \A x : /\ Acks(statusCh[k], x)' <=> Acks(statusCh[k], x)
                                             /\ FirstOpen(statusCh[k], x)' <=> FirstOpen(statusCh[k], x)
    BY <1>1 DEF FirstOpen, Acks, TX_MOD_BASE
  <1>7. StatusInFlight'
    <2>1. ASSUME NEW k \in 1 .. Len(statusCh) PROVE StatusOK(statusCh[k])'
      <3>1. PICK x \in SN : FirstOpen(statusCh[k], x) /\ Kept(x)
        BY DEF LinkWindowInv, StatusInFlight, StatusOK
      <3>2. x # stack.i
        BY <1>1, <1>2, <3>1 DEF LinkWindowInv, StatusInWork, TX_MOD_BASE
      <3>3. Kept(x)'
        BY <1>1, <3>1, <3>2 DEF Kept
      <3>4. StatusOK(statusCh[k])
        BY DEF LinkWindowInv, StatusInFlight
      <3> QED
        BY <1>1, <1>5, <1>6, <3>1, <3>3, <3>4 DEF StatusOK, TX_MOD_BASE
    <2> QED
      BY <1>1, <1>6, <2>1 DEF LinkWindowInv, StatusInFlight
  <1>8. StatusInWork'
    <2>1. /\ I + 1 <= Base(stack.ack, vt_a) /\ I + 1 > 0
          /\ Base(stack.ack, vt_a) <= Base(stack.vt_s_local, vt_a)
          /\ Base(stack.vt_s_local, vt_a) <= Base(vt_s, vt_a)
      BY <1>1, <1>2, InWork
    <2>2. \A x \in SN : I + 1 <= Base(x, vt_a) => I <= Base(x, vt_a)
      BY <1>2, LinkDistances
    <2>3. \A sn \in SN : I + 1 <= Base(sn, vt_a) /\ Acks(stack, sn) => Received(sn)
      BY <1>1, <2>2 DEF LinkWindowInv, StatusInWork, TX_MOD_BASE
    <2>4. \A k \in 1 .. Len(statusCh) : \A x \in SN :
            FirstOpen(statusCh[k], x) => ~(I + 1 <= Base(x, vt_a) /\ Acks(stack, x))
      BY <1>1, <2>2 DEF LinkWindowInv, StatusInWork, TX_MOD_BASE
    <2>5. vt_a \in DOMAIN tx_window'
      BY <1>1, <1>2, <1>4
    <2> HIDE DEF I
    <2> QED
      BY <1>1, <1>3, <1>5, <1>6, <2>1, <2>3, <2>4, <2>5 DEF StatusInWork, TX_MOD_BASE
  <1>9. WindowsAgree' /\ DataInFlight' /\ IsSeq(dataCh)'
    BY <1>1 DEF LinkWindowInv, WindowsAgree, DataInFlight, DataOK, Age, TX_MOD_BASE, IsSeq
  <1>10. MissingIsKept'
    <2>1. Base(stack.i, vt_a) < Base(vr_r, vt_a) \/ stack.i \in DOMAIN rx_window
      BY <1>1 DEF Received, TX_MOD_BASE
    <2>2. stack.i \in DOMAIN rx_window \/ ~(Base(vr_r, vt_a) <= Base(stack.i, vt_a))
      BY <1>2, <2>1, LinkDistances
    <2> HIDE DEF I
    <2> QED
      BY <1>1, <2>2 DEF LinkWindowInv, MissingIsKept, TX_MOD_BASE
  <1> QED
    BY <1>1, <1>7, <1>8, <1>9, <1>10 DEF LinkWindowInv, NoProtocolFailure

(* Acks and FirstOpen, with the base as a parameter, and what becomes of them
   when vt_a, which the status acknowledges, moves up by one.               *)
AcksFrom(a, st, sn) == Base(sn, a) < Base(st.ack, a) /\ sn \notin st.nacks

FirstOpenFrom(a, st, x) ==
  /\ Base(x, a) <= Base(st.ack, a)
  /\ ~AcksFrom(a, st, x)
  /\ \A y \in SN : Base(y, a) < Base(x, a) => AcksFrom(a, st, y)

LEMMA ShiftStatus ==
  ASSUME NEW a \in SN, NEW st, st.ack \in SN, AcksFrom(a, st, a)
  PROVE  /\ Base(st.ack, Add(a, 1)) = Base(st.ack, a) - 1 /\ Base(st.ack, a) > 0
         /\ \A sn \in SN : AcksFrom(Add(a, 1), st, sn) <=> (AcksFrom(a, st, sn) /\ sn # a)
         /\ \A x \in SN : FirstOpenFrom(Add(a, 1), st, x) <=> FirstOpenFrom(a, st, x)
  <1> DEFINE b == Add(a, 1)
  <1>1. /\ b \in SN /\ Base(a, a) = 0
        /\ \A x \in SN : /\ Base(x, b) = IF Base(x, a) > 0 THEN Base(x, a) - 1 ELSE MOD - 1
                         /\ Base(x, a) \in 0 .. MOD - 1
                         /\ Base(x, a) = 0 => x = a
    BY BaseNext, BaseLinear, BaseSelf, BaseInjective
  <1>2. Base(st.ack, a) > 0 /\ Base(st.ack, b) = Base(st.ack, a) - 1
    BY <1>1 DEF AcksFrom
  <1> HIDE DEF b
  <1>3. ASSUME NEW sn \in SN
        PROVE  AcksFrom(b, st, sn) <=> (AcksFrom(a, st, sn) /\ sn # a)
    <2>1. Base(sn, b) < Base(st.ack, b) <=> (Base(sn, a) < Base(st.ack, a) /\ Base(sn, a) > 0)
      BY <1>1, <1>2, ModType
    <2>2. Base(sn, a) > 0 <=> sn # a
      BY <1>1
    <2> QED
      BY <2>1, <2>2 DEF AcksFrom
  <1>4. ASSUME NEW x \in SN, FirstOpenFrom(a, st, x)
        PROVE  FirstOpenFrom(b, st, x)
    <2>1. x # a
      BY <1>4 DEF FirstOpenFrom
    <2>2. Base(x, a) > 0 /\ Base(x, b) = Base(x, a) - 1
      BY <1>1, <2>1
    <2>3. Base(x, b) <= Base(st.ack, b)
      BY <1>1, <1>2, <1>4, <2>2 DEF FirstOpenFrom
    <2>4. ASSUME NEW y \in SN, Base(y, b) < Base(x, b) PROVE AcksFrom(b, st, y)
      <3>1. Base(y, a) < Base(x, a) /\ y # a
        BY <1>1, <2>2, <2>4, ModType
      <3> QED
        BY <1>3, <1>4, <3>1 DEF FirstOpenFrom
    <2> QED
      BY <1>3, <1>4, <2>3, <2>4 DEF FirstOpenFrom
  <1>5. ASSUME NEW x \in SN, FirstOpenFrom(b, st, x)
        PROVE  FirstOpenFrom(a, st, x)
    <2>1. Base(x, a) > 0 /\ Base(x, b) = Base(x, a) - 1
      BY <1>1, <1>2, <1>5, ModType DEF FirstOpenFrom
    <2>2. Base(x, a) <= Base(st.ack, a)
      BY <1>1, <1>2, <1>5, <2>1 DEF FirstOpenFrom
    <2>3. ASSUME NEW y \in SN, Base(y, a) < Base(x, a) PROVE AcksFrom(a, st, y)
      <3>1. y = a \/ Base(y, b) < Base(x, b)
        BY <1>1, <2>1, <2>3
      <3> QED
        BY <1>3, <1>5, <3>1 DEF FirstOpenFrom
    <2>4. x # a
      BY <1>1, <2>1
    <2> QED
      BY <1>3, <1>5, <2>2, <2>3, <2>4 DEF FirstOpenFrom
  <1> QED
    BY <1>2, <1>3, <1>4, <1>5 DEF b

(* ... or vt_a itself, which then moves up with the receiver ahead of it. *)
LEMMA AckSnAtVtA ==
  ASSUME LinkWindowInv, Tx(AckSn), stack.update_vt_a
  PROVE  LinkWindowInv'
  <1> DEFINE b == Add(vt_a, 1)
  <1>1. /\ UNCHANGED <<vr_r, vr_ms, vr_h, rx_window, statusCh, vt_s, dataCh, protocol_failure>>
        /\ RxInv' /\ RxPayloadTypeOK' /\ QueueOK' /\ vt_a' = b
        /\ stack.pc = "status" /\ Acks(stack, stack.i) /\ Received(stack.i)
        /\ Base(stack.i, vt_a) < Base(stack.ack, vt_a)
        /\ Base(stack.i, vt_a) < Base(stack.vt_s_local, vt_a)
        /\ DOMAIN tx_window' = DOMAIN tx_window \ {stack.i}
        /\ stack'.pc = "status" /\ stack'.ack = stack.ack /\ stack'.nacks = stack.nacks
        /\ stack'.i = Add(stack.i, 1) /\ stack'.vt_s_local = stack.vt_s_local
        /\ stack'.update_vt_a = stack.update_vt_a /\ stack' \in StatusSection
    BY AckSnStep
  <1>2. stack.i = vt_a /\ Base(vt_a, vt_a) = 0
    BY <1>1, LinkDistances DEF LinkWindowInv, StatusInWork
  <1>3. /\ b \in SN /\ vt_a \in SN
        /\ \A x \in SN : /\ Base(x, b) = IF x # vt_a THEN Base(x, vt_a) - 1 ELSE MOD - 1
                         /\ Base(x, vt_a) \in 0 .. MOD - 1
                         /\ Base(x, vt_a) = 0 <=> x = vt_a
    BY LinkDistances, BaseNext, BaseInjective
  <1> HIDE DEF b
  <1>4. Base(vr_r, vt_a) > 0
    <2>1. vr_r # vt_a
      BY <1>1, <1>2, LinkDistances DEF Received, TX_MOD_BASE, LinkWindowInv, RxInv, RxWindowContents
    <2> QED
      BY <1>3, <2>1, LinkDistances
  <1>5. /\ Base(vr_r, b) = Base(vr_r, vt_a) - 1 /\ Base(vr_ms, b) = Base(vr_ms, vt_a) - 1
        /\ Base(vr_h, b) = Base(vr_h, vt_a) - 1 /\ Base(vt_s, b) = Base(vt_s, vt_a) - 1
    BY <1>3, <1>4, LinkDistances
  <1>6. /\ Base(vr_r, vt_a) \in Nat /\ Base(vr_ms, vt_a) \in Nat /\ Base(vr_h, vt_a) \in Nat
         /\ Base(vt_s, vt_a) \in Nat /\ Base(vt_s, vt_a) <= WINDOW
         /\ Base(vr_r, vt_a) <= Base(vr_ms, vt_a) /\ Base(vr_ms, vt_a) <= Base(vr_h, vt_a)
         /\ Base(vr_h, vt_a) <= Base(vt_s, vt_a)
    BY LinkDistances
  <1>7. WindowsAgree'
    <2>1. ASSUME NEW sn \in DOMAIN tx_window' PROVE Base(sn, b) < Base(vt_s, b)
      <3>1. sn \in DOMAIN tx_window /\ sn # vt_a /\ sn \in SN
        BY <1>1, <1>2, LinkDistances
      <3> QED
        BY <1>3, <1>5, <3>1, LinkDistances
    <2>2. /\ Base(vr_r, b) <= Base(vr_ms, b) /\ Base(vr_ms, b) <= Base(vr_h, b)
          /\ Base(vr_h, b) <= Base(vt_s, b) /\ Base(vt_s, b) <= WINDOW
      BY <1>5, <1>6, ModType
    <2> QED
      BY <1>1, <2>1, <2>2 DEF WindowsAgree, TX_MOD_BASE
  <1>8. MissingIsKept'
    <2> SUFFICES ASSUME NEW sn \in SN, Base(vr_r, b) <= Base(sn, b), Base(sn, b) < Base(vt_s, b)
                 PROVE  sn \in DOMAIN rx_window \/ sn \in DOMAIN tx_window'
      BY <1>1 DEF MissingIsKept, TX_MOD_BASE
    <2>1. sn # vt_a
      BY <1>3, <1>5, LinkDistances, ModType
    <2>2. Base(vr_r, vt_a) <= Base(sn, vt_a) /\ Base(sn, vt_a) < Base(vt_s, vt_a)
      BY <1>3, <1>5, <2>1, LinkDistances
    <2> QED
      BY <1>1, <1>2, <2>1, <2>2 DEF LinkWindowInv, MissingIsKept, TX_MOD_BASE
  <1>9. ASSUME NEW sn \in SN, sn # vt_a, Received(sn) PROVE Received(sn)'
    <2>1. CASE Base(sn, vt_a) < Base(vr_r, vt_a)
      <3>1. Base(sn, b) < Base(vr_r, b)
        BY <1>3, <1>5, <1>9, <2>1, LinkDistances
      <3> QED
        BY <1>1, <3>1 DEF Received, TX_MOD_BASE
    <2>2. CASE sn \in DOMAIN rx_window
      BY <1>1, <2>2 DEF Received
    <2> QED
      BY <1>9, <2>1, <2>2 DEF Received, TX_MOD_BASE
  <1>10. \A x \in SN : x # vt_a /\ Kept(x) => Kept(x)'
    BY <1>1, <1>2 DEF Kept
  <1>11. ASSUME NEW k \in 1 .. Len(statusCh)
         PROVE  /\ statusCh[k].ack \in SN /\ AcksFrom(vt_a, statusCh[k], vt_a) /\ StatusOK(statusCh[k])
                /\ \A sn \in SN : /\ Acks(statusCh[k], sn) <=> AcksFrom(vt_a, statusCh[k], sn)
                                  /\ Acks(statusCh[k], sn)' <=> AcksFrom(b, statusCh[k], sn)
                                  /\ FirstOpen(statusCh[k], sn) <=> FirstOpenFrom(vt_a, statusCh[k], sn)
                                  /\ FirstOpen(statusCh[k], sn)' <=> FirstOpenFrom(b, statusCh[k], sn)
    <2>1. StatusOK(statusCh[k])
      BY DEF LinkWindowInv, StatusInFlight
    <2>2. statusCh[k].ack \in SN
      BY StatusType DEF LinkWindowInv
    <2>3. PICK x \in SN : FirstOpen(statusCh[k], x)
      BY <2>1 DEF StatusOK
    <2>4. x # vt_a
      BY <1>1, <1>2, <2>3 DEF LinkWindowInv, StatusInWork, TX_MOD_BASE
    <2>5. Acks(statusCh[k], vt_a)
      BY <1>2, <1>3, <2>3, <2>4 DEF FirstOpen, TX_MOD_BASE
    <2> QED
      BY <1>1, <2>1, <2>2, <2>5 DEF Acks, FirstOpen, AcksFrom, FirstOpenFrom, TX_MOD_BASE
  <1>12. ASSUME NEW k \in 1 .. Len(statusCh)
         PROVE  /\ Base(statusCh[k].ack, b) = Base(statusCh[k].ack, vt_a) - 1
                /\ \A sn \in SN : /\ Acks(statusCh[k], sn)' <=> (Acks(statusCh[k], sn) /\ sn # vt_a)
                                  /\ FirstOpen(statusCh[k], sn)' <=> FirstOpen(statusCh[k], sn)
                /\ \A x \in SN : FirstOpen(statusCh[k], x) => x # vt_a
    <2> DEFINE st == statusCh[k]
    <2>1. /\ st.ack \in SN /\ AcksFrom(vt_a, st, vt_a)
          /\ \A sn \in SN : /\ Acks(st, sn) <=> AcksFrom(vt_a, st, sn)
                            /\ FirstOpen(st, sn) <=> FirstOpenFrom(vt_a, st, sn)
      BY <1>11
    <2>2. \A x \in SN : FirstOpen(st, x) => x # vt_a
      BY <2>1 DEF FirstOpenFrom
    <2>3. /\ Base(st.ack, b) = Base(st.ack, vt_a) - 1
          /\ \A sn \in SN : AcksFrom(b, st, sn) <=> (AcksFrom(vt_a, st, sn) /\ sn # vt_a)
          /\ \A x \in SN : FirstOpenFrom(b, st, x) <=> FirstOpenFrom(vt_a, st, x)
      <3> HIDE DEF st
      <3> QED
        BY <1>3, <2>1, ShiftStatus DEF b
    <2> QED
      BY <1>11, <2>2, <2>3
  <1>13. StatusInFlight'
    <2>1. ASSUME NEW k \in 1 .. Len(statusCh) PROVE StatusOK(statusCh[k])'
      <3>1. StatusOK(statusCh[k]) /\ statusCh[k].ack \in SN
        BY <1>11
      <3>2. Base(statusCh[k].ack, b) <= Base(vr_ms, b)
        <4>1. Base(statusCh[k].ack, vt_a) <= Base(vr_ms, vt_a)
          BY <3>1 DEF StatusOK, TX_MOD_BASE
        <4>2. Base(statusCh[k].ack, vt_a) \in Nat /\ Base(statusCh[k].ack, b) = Base(statusCh[k].ack, vt_a) - 1
          BY <1>3, <1>12, <3>1
        <4> QED
          BY <1>5, <1>6, <4>1, <4>2
      <3>3. \A sn \in SN : Acks(statusCh[k], sn)' => Received(sn)'
        BY <1>9, <1>12, <3>1 DEF StatusOK
      <3>4. \E x \in SN : FirstOpen(statusCh[k], x)' /\ Kept(x)'
        BY <1>10, <1>12, <3>1 DEF StatusOK
      <3> QED
        BY <1>1, <3>2, <3>3, <3>4 DEF StatusOK, TX_MOD_BASE
    <2>2. ASSUME NEW j \in 1 .. Len(statusCh), NEW k \in 1 .. Len(statusCh), j < k, NEW x \in SN,
                 FirstOpen(statusCh[k], x)'
          PROVE  ~Acks(statusCh[j], x)'
      <3>1. FirstOpen(statusCh[k], x)
        BY <1>12, <2>2
      <3>2. ~Acks(statusCh[j], x)
        BY <2>2, <3>1 DEF LinkWindowInv, StatusInFlight
      <3> QED
        BY <1>12, <3>2
    <2> QED
      BY <1>1, <2>1, <2>2 DEF StatusInFlight
  <1>14. StatusInWork'
    <2> DEFINE st == stack
    <2>1. /\ stack.ack \in SN /\ AcksFrom(vt_a, stack, vt_a)
          /\ \A sn \in SN : /\ Acks(stack, sn) <=> AcksFrom(vt_a, stack, sn)
                            /\ Acks(stack, sn)' <=> AcksFrom(b, stack, sn)
                            /\ FirstOpen(stack, sn) <=> FirstOpenFrom(vt_a, stack, sn)
                            /\ FirstOpen(stack, sn)' <=> FirstOpenFrom(b, stack, sn)
      BY <1>1, <1>2, InWork DEF Acks, FirstOpen, AcksFrom, FirstOpenFrom, TX_MOD_BASE
    <2>2. /\ Base(stack.ack, b) = Base(stack.ack, vt_a) - 1
          /\ \A sn \in SN : AcksFrom(b, stack, sn) <=> (AcksFrom(vt_a, stack, sn) /\ sn # vt_a)
          /\ \A x \in SN : FirstOpenFrom(b, stack, x) <=> FirstOpenFrom(vt_a, stack, x)
      <3>1. /\ Base(st.ack, Add(vt_a, 1)) = Base(st.ack, vt_a) - 1 /\ Base(st.ack, vt_a) > 0
            /\ \A sn \in SN : AcksFrom(Add(vt_a, 1), st, sn) <=> (AcksFrom(vt_a, st, sn) /\ sn # vt_a)
            /\ \A x \in SN : FirstOpenFrom(Add(vt_a, 1), st, x) <=> FirstOpenFrom(vt_a, st, x)
        <4>1. st.ack \in SN /\ AcksFrom(vt_a, st, vt_a)
          BY <2>1
        <4> HIDE DEF st
        <4> QED
          BY <1>3, <4>1, ShiftStatus
      <3> QED
        BY <3>1 DEF b
    <2>3. stack.vt_s_local \in SN /\ Base(stack.vt_s_local, b) = Base(stack.vt_s_local, vt_a) - 1
      BY <1>1, <1>2, <1>3, InWork
    <2>4. /\ Base(b, b) = 0 /\ stack'.i = b
          /\ 0 <= Base(stack.ack, b) /\ Base(stack.ack, b) <= Base(stack.vt_s_local, b)
          /\ Base(stack.vt_s_local, b) <= Base(vt_s, b)
      <3>1. Base(b, b) = 0
        BY <1>3, BaseSelf
      <3> QED
        BY <1>1, <1>2, <1>5, <2>2, <2>3, <3>1, InWork, LinkDistances DEF b
    <2>5. \A sn \in SN : Acks(stack, sn)' => Received(sn)'
      <3>1. \A sn \in SN : Base(vt_a, vt_a) <= Base(sn, vt_a)
        BY <1>2, <1>3
      <3>2. \A sn \in SN : Acks(stack, sn) => Received(sn)
        BY <1>1, <1>2, <3>1 DEF LinkWindowInv, StatusInWork, TX_MOD_BASE
      <3> QED
        BY <1>9, <2>1, <2>2, <3>2
    <2>6. \E x \in SN : FirstOpen(stack, x)' /\ Kept(x)'
      <3>1. PICK x \in SN : FirstOpen(stack, x) /\ Kept(x)
        BY <1>1 DEF LinkWindowInv, StatusInWork
      <3>2. x # vt_a
        BY <2>1, <3>1 DEF FirstOpenFrom
      <3> QED
        BY <1>10, <2>1, <2>2, <3>1, <3>2
    <2>7. ASSUME NEW k \in 1 .. Len(statusCh), NEW x \in SN, FirstOpen(statusCh[k], x)'
          PROVE  ~Acks(stack, x)'
      <3>1. FirstOpen(statusCh[k], x)
        BY <1>12, <2>7
      <3>2. Base(stack.i, vt_a) <= Base(x, vt_a)
        BY <1>2, <1>3
      <3>3. ~Acks(stack, x)
        BY <1>1, <3>1, <3>2 DEF LinkWindowInv, StatusInWork, TX_MOD_BASE
      <3> QED
        BY <2>1, <2>2, <3>3
    <2> HIDE DEF st
    <2> QED
      BY <1>1, <2>4, <2>5, <2>6, <2>7 DEF StatusInWork, TX_MOD_BASE
  <1>15. DataInFlight'
    <2>1. ASSUME NEW j \in 1 .. Len(dataCh)
          PROVE  DataOK(dataCh[j])' /\ Age(dataCh[j])' = Age(dataCh[j]) + 1 /\ Age(dataCh[j]) \in Nat
      <3> DEFINE d == dataCh[j]
      <3>1. DataOK(d) /\ d.vt_a \in SN /\ d.pdu.sn \in SN
        BY DEF LinkWindowInv, DataInFlight, DataOK
      <3>2. Age(d) \in 0 .. WINDOW
        BY <3>1, AgeType
      <3>3. Base(d.pdu.sn, d.vt_a) \in Nat
        BY <3>1, BaseLinear
      <3>4. Base(vr_h, vt_a) + Age(d) <= WINDOW /\ Base(vr_h, vt_a) > 0
        BY <1>4, <3>1, LinkDistances DEF DataOK, TX_MOD_BASE
      <3>5. Base(b, d.vt_a) = Age(d) + 1
        <4>1. Base(b, d.vt_a) = IF Base(vt_a, d.vt_a) < MOD - 1 THEN Base(vt_a, d.vt_a) + 1 ELSE 0
          BY <1>3, <3>1, BaseNext DEF b
        <4>2. Age(d) < MOD - 1
          BY <3>2, <3>4, LinkDistances, ModType
        <4> QED
          BY <4>1, <4>2 DEF Age
      <3>6. /\ Age(d) + 1 <= WINDOW /\ Base(vr_h, b) + (Age(d) + 1) <= WINDOW
            /\ Base(d.pdu.sn, d.vt_a) < (Age(d) + 1) + Base(vt_s, b)
        <4>1. Base(d.pdu.sn, d.vt_a) < Age(d) + Base(vt_s, vt_a)
          BY <3>1 DEF DataOK, TX_MOD_BASE
        <4> QED
          BY <1>5, <1>6, <3>2, <3>3, <3>4, <4>1, ModType
      <3> QED
        BY <1>1, <3>1, <3>2, <3>5, <3>6 DEF DataOK, Age, TX_MOD_BASE
    <2>2. ASSUME NEW i \in 1 .. Len(dataCh), NEW j \in 1 .. Len(dataCh), i < j
          PROVE  Age(dataCh[j])' <= Age(dataCh[i])'
      <3>1. Age(dataCh[j]) <= Age(dataCh[i])
        BY <2>2 DEF LinkWindowInv, DataInFlight
      <3> QED
        BY <2>1, <3>1
    <2> QED
      BY <1>1, <2>1, <2>2 DEF DataInFlight
  <1>16. IsSeq(dataCh)' /\ vt_a' \in SN /\ vt_s' \in SN /\ DOMAIN tx_window' \subseteq SN
    BY <1>1, <1>3, LinkDistances DEF LinkWindowInv, IsSeq
  <1> QED
    BY <1>1, <1>7, <1>8, <1>13, <1>14, <1>15, <1>16 DEF LinkWindowInv, NoProtocolFailure

-----------------------------------------------------------------------------
(* The initial state, to which reestablish returns. *)

LEMMA LinkReset ==
  ASSUME RxInv, RxPayloadTypeOK, vr_r = 0, vr_ms = 0, vr_h = 0, rx_window = <<>>, statusCh = <<>>,
         vt_a = 0, vt_s = 0, tx_window = <<>>, retx_queue = <<>>, dataCh = <<>>, stack = Idle,
         ~protocol_failure
  PROVE  LinkWindowInv
  <1>1. 0 \in SN /\ Base(0, 0) = 0
    BY BaseSelf, ModType DEF SN
  <1>2. DOMAIN tx_window = {} /\ Len(dataCh) = 0 /\ Len(statusCh) = 0
    OBVIOUS
  <1>3. WindowsAgree
    BY <1>1, <1>2, ModType DEF WindowsAgree, TX_MOD_BASE
  <1>4. MissingIsKept
    <2>1. \A sn \in SN : Base(sn, 0) \in Nat
      BY <1>1, BaseLinear
    <2> QED
      BY <1>1, <2>1 DEF MissingIsKept, TX_MOD_BASE
  <1>5. StatusInFlight /\ DataInFlight
    BY <1>2 DEF StatusInFlight, DataInFlight
  <1>6. StatusInWork
    <2>1. stack.pc # "status"
      BY DEF Idle
    <2> QED
      BY <2>1 DEF StatusInWork, Kept
  <1>7. IsSeq(dataCh) /\ QueueOK
    BY EmptyIsSeq, ModType DEF QueueOK
  <1> QED
    BY <1>1, <1>2, <1>3, <1>4, <1>5, <1>6, <1>7 DEF LinkWindowInv, NoProtocolFailure

LEMMA LinkInitInv == LinkInit => LinkWindowInv
  <1> SUFFICES ASSUME LinkInit PROVE LinkWindowInv
    OBVIOUS
  <1>1. RxInv
    BY ResetInv DEF LinkInit, RxInit
  <1>2. RxPayloadTypeOK
    <2>1. statusCh = <<>> /\ rx_segments = <<>>
      BY DEF LinkInit, RxInit
    <2>2. DOMAIN rx_segments = {}
      BY <2>1
    <2> QED
      BY <2>1, <2>2 DEF RxPayloadTypeOK
  <1> QED
    BY <1>1, <1>2, LinkReset DEF LinkInit, RxInit, TxInit

LEMMA ReestablishKeeps ==
  ASSUME LinkWindowInv, reestablish
  PROVE  LinkWindowInv'
  <1>1. /\ rx_reestablish /\ stack = Idle /\ stack' = Idle /\ protocol_failure' = protocol_failure
        /\ vt_a' = 0 /\ vt_s' = 0 /\ tx_window' = <<>> /\ retx_queue' = <<>> /\ dataCh' = <<>>
    BY DEF reestablish, tx_reestablish
  <1>2. vr_r' = 0 /\ vr_ms' = 0 /\ vr_h' = 0 /\ rx_window' = <<>> /\ statusCh' = <<>>
    BY <1>1 DEF rx_reestablish
  <1>3. RxInv' /\ RxPayloadTypeOK'
    <2>1. [RxNext]_rxVars
      BY <1>1 DEF RxNext
    <2> QED
      BY <2>1, StepInv, StepType DEF LinkWindowInv
  <1>4. 0 \in SN /\ Base(0, 0) = 0
    BY BaseSelf, ModType DEF SN
  <1>5. DOMAIN tx_window' = {} /\ Len(dataCh') = 0 /\ Len(statusCh') = 0
    BY <1>1, <1>2
  <1>6. WindowsAgree'
    BY <1>1, <1>2, <1>4, <1>5, ModType DEF WindowsAgree, TX_MOD_BASE
  <1>7. MissingIsKept'
    <2>1. \A sn \in SN : Base(sn, 0) \in Nat
      BY <1>4, BaseLinear
    <2> QED
      BY <1>1, <1>2, <1>4, <2>1 DEF MissingIsKept, TX_MOD_BASE
  <1>8. StatusInFlight' /\ DataInFlight'
    BY <1>5 DEF StatusInFlight, DataInFlight
  <1>9. StatusInWork'
    <2>1. stack'.pc # "status"
      BY <1>1 DEF Idle
    <2> QED
      BY <1>1, <2>1 DEF StatusInWork, Kept
  <1>10. IsSeq(dataCh)' /\ QueueOK'
    BY <1>1, EmptyIsSeq, ModType DEF QueueOK, IsSeq
  <1> QED
    BY <1>1, <1>3, <1>4, <1>5, <1>6, <1>7, <1>8, <1>9, <1>10 DEF LinkWindowInv, NoProtocolFailure

-----------------------------------------------------------------------------
(* The theorems. *)

LEMMA LinkStepInv ==
  ASSUME LinkWindowInv, [LinkNext]_linkVars
  PROVE  LinkWindowInv'
  <1>1. ASSUME NEW g \in Grants, NEW s \in {g - 1, g} \intersect Nat, ReadPdu(g, s)
        PROVE  LinkWindowInv'
    BY <1>1, ReadPduKeeps
  <1>2. ASSUME NEW grant \in StatusGrants, Rx(build_status_pdu(grant))
        PROVE  LinkWindowInv'
    BY <1>2, BuildStatusKeeps
  <1>3. CASE Tx(AckSn)
    BY <1>3, AckSnAbove, AckSnAtVtA
  <1>4. CASE UNCHANGED linkVars
    <2>1. /\ UNCHANGED rxVars
          /\ UNCHANGED <<vt_a, vt_s, tx_window, retx_queue, stack, protocol_failure, dataCh>>
      BY <1>4 DEF linkVars, txVars, retxVars, ackVars
    <2>2. /\ RxInv' /\ UNCHANGED <<vr_r, vr_ms, vr_h, rx_window, rx_segments, statusCh>>
      BY <2>1, SameRx
    <2> QED
      BY <2>1, <2>2, SameLink DEF LinkWindowInv, QueueOK
  <1> QED
    BY <1>1, <1>2, <1>3, <1>4, SduStepKeeps, PollTimeoutKeeps, TimerExpiredKeeps, NackSnKeeps,
       StatusDoneKeeps, DeliverPduKeeps, LosePduKeeps, DeliverStatusKeeps, LoseStatusKeeps,
       ReorderingTimeoutKeeps, StatusProhibitKeeps, ReestablishKeeps
       DEF LinkNext

(* The invariant holds in every state of the bearer: for every window size, any
   SDUs and grants, any number of PDUs and STATUS PDUs in flight and of faults
   of any kind.                                                            *)
THEOREM LinkInvariance == LinkSpec => []LinkWindowInv
  <1>1. LinkWindowInv /\ [LinkNext]_linkVars => LinkWindowInv'
    BY LinkStepInv
  <1> QED
    BY <1>1, LinkInitInv, PTL DEF LinkSpec

(* Transmitter and receiver keep step across loss, overtaking and wrap-around. *)
THEOREM WindowsAgreeHolds == LinkSpec => []WindowsAgree
  <1>1. LinkWindowInv => WindowsAgree
    BY DEF LinkWindowInv
  <1> QED
    BY <1>1, LinkInvariance, PTL

(* Whatever the peer misses is still in the transmit window. *)
THEOREM MissingIsKeptHolds == LinkSpec => []MissingIsKept
  <1>1. LinkWindowInv => MissingIsKept
    BY DEF LinkWindowInv
  <1> QED
    BY <1>1, LinkInvariance, PTL

(* handle_control_pdu never reports a protocol failure. *)
THEOREM NoProtocolFailureHolds == LinkSpec => []NoProtocolFailure
  <1>1. LinkWindowInv => NoProtocolFailure
    BY DEF LinkWindowInv
  <1> QED
    BY <1>1, LinkInvariance, PTL
-----------------------------------------------------------------------------
(* The types of the transmitter and the lists of PDU segments. *)

IsPdu(p) == p = [data |-> p.data, retx_count |-> p.retx_count, sdus |-> p.sdus]

IsUndelivered(u) == u = [fully_txed |-> u.fully_txed, sns |-> u.sns]

(* No SN of the window carries an SDU that is forgotten: otherwise the SDU would
   begin a new list while PDUs of it are in the window.                       *)
ListsInv ==
  /\ \A sn \in DOMAIN tx_window :
       IsPdu(tx_window[sn]) /\ tx_window[sn].sdus \subseteq DOMAIN undelivered
  /\ \A i \in DOMAIN undelivered : IsUndelivered(undelivered[i])
  /\ SegmentListsAgree

(* Every SN carries what it carried. *)
SameSdus(new, old) ==
  /\ DOMAIN new = DOMAIN old
  /\ \A sn \in DOMAIN old :
       IsPdu(old[sn]) => /\ IsPdu(new[sn]) /\ new[sn].sdus = old[sn].sdus
                         /\ new[sn].data = old[sn].data

LEMMA SameSdusTrans ==
  ASSUME NEW a, NEW b, NEW c, SameSdus(b, a), SameSdus(c, b)
  PROVE  SameSdus(c, a)
  BY DEF SameSdus

LEMMA SameSdusSelf == \A w : SameSdus(w, w)
  BY DEF SameSdus

LEMMA PushSdus ==
  ASSUME NEW r, IsRetx(r), NEW e
  PROVE  SameSdus(Push(r, e).win, r.win)
  <1>1. Push(r, e).win = r.win
    BY DEF Push, IsRetx
  <1> QED
    BY <1>1, SameSdusSelf

LEMMA CountRetxSdus ==
  ASSUME NEW r, IsRetx(r), NEW sn
  PROVE  SameSdus(CountRetx(r, sn).win, r.win)
  <1> DEFINE count == r.win[sn].retx_count + 1
             capped == IF count > MaxRetx THEN MaxRetx + 1 ELSE count
             win == [r.win EXCEPT ![sn] = [r.win[sn] EXCEPT !.retx_count = capped]]
             max == r.max \/ count = MaxRetx
  <1>1. CountRetx(r, sn) = [[r EXCEPT !.win = win] EXCEPT !.max = max]
    BY DEF CountRetx
  <1>2. SameSdus(win, r.win)
    <2> HIDE DEF capped
    <2>1. ASSUME NEW x \in DOMAIN r.win, IsPdu(r.win[x])
          PROVE  IsPdu(win[x]) /\ win[x].sdus = r.win[x].sdus
      <3>1. CASE x # sn
        BY <2>1, <3>1
      <3>2. CASE x = sn
        <4>1. win[x] = [data |-> r.win[x].data, retx_count |-> capped, sdus |-> r.win[x].sdus]
          BY <2>1, <3>2 DEF IsPdu
        <4> QED
          BY <4>1 DEF IsPdu
      <3> QED
        BY <3>1, <3>2
    <2> QED
      BY <2>1 DEF SameSdus
  <1> HIDE DEF win, max
  <1>3. CountRetx(r, sn) = [win |-> win, q |-> r.q, ovf |-> r.ovf, max |-> max]
    BY <1>1 DEF IsRetx
  <1> QED
    BY <1>2, <1>3

LEMMA RetransmitSdus ==
  ASSUME NEW r, IsRetx(r), NEW sn
  PROVE  /\ SameSdus(ScheduleRetx(r, sn).win, r.win)
         /\ SameSdus(retransmit_pdu(r, sn).win, r.win)
  <1>1. IsRetx(CountRetx(r, sn)) /\ SameSdus(CountRetx(r, sn).win, r.win)
    BY CountRetxKeeps, CountRetxSdus
  <1>2. SameSdus(ScheduleRetx(r, sn).win, r.win)
    BY <1>1, PushSdus, SameSdusTrans DEF ScheduleRetx
  <1> QED
    BY <1>2, SameSdusSelf DEF retransmit_pdu

LEMMA DropSdus ==
  ASSUME NEW r, IsRetx(r)
  PROVE  SameSdus(DropAcknowledged(r).win, r.win)
  <1>1. CASE DropAcknowledged(r) = retransmit_pdu([r EXCEPT !.q = <<>>], vt_a)
    <2> DEFINE e == [win |-> r.win, q |-> <<>>, ovf |-> r.ovf, max |-> r.max]
    <2>1. [r EXCEPT !.q = <<>>] = e
      BY DEF IsRetx
    <2>2. IsRetx(e) /\ e.win = r.win
      BY EmptyIsSeq, ModType DEF IsRetx
    <2> HIDE DEF e
    <2> QED
      BY <1>1, <2>1, <2>2, RetransmitSdus
  <1>2. CASE \E n : DropAcknowledged(r) = [r EXCEPT !.q = SubSeq(@, n, Len(@))]
    <2>1. DropAcknowledged(r).win = r.win
      BY <1>2 DEF IsRetx
    <2> QED
      BY <2>1, SameSdusSelf
  <1> QED
    BY <1>1, <1>2 DEF DropAcknowledged

LEMMA ReadySdus ==
  ASSUME QueueOK
  PROVE  SameSdus(Ready.win, tx_window)
  <1>1. IsRetx(Scheduled) /\ SameSdus(Scheduled.win, tx_window)
    BY RetxStateOK, RetransmitKeeps, RetransmitSdus, SameSdusSelf DEF Scheduled
  <1> QED
    BY <1>1, DropSdus, SameSdusTrans DEF Ready

(* A step that leaves what the SNs carry. *)
LEMMA SameSegments ==
  ASSUME ListsInv, SameSdus(tx_window', tx_window), undelivered' = undelivered
  PROVE  ListsInv'
  <1>1. \A sn \in DOMAIN tx_window' : sn \in DOMAIN tx_window /\ IsPdu(tx_window'[sn])
                                      /\ tx_window'[sn].sdus = tx_window[sn].sdus
    BY DEF ListsInv, SameSdus
  <1>2. DOMAIN tx_window' = DOMAIN tx_window
    BY DEF SameSdus
  <1>3. \A i \in DOMAIN undelivered :
          {sn \in DOMAIN tx_window' : i \in tx_window'[sn].sdus}
            = {sn \in DOMAIN tx_window : i \in tx_window[sn].sdus}
    BY <1>1, <1>2
  <1>4. SegmentListsAgree'
    BY <1>3 DEF ListsInv, SegmentListsAgree
  <1> QED
    BY <1>1, <1>4 DEF ListsInv
(* A PDU with SN vt_s joins window w and the lists of the SDUs in it, those in ended
   with their last unit.                                                    *)
PduJoins(w, data, sdus, ended) ==
  /\ tx_window' = [sn \in DOMAIN w \union {vt_s} |->
       IF sn = vt_s THEN [data |-> data, retx_count |-> 0, sdus |-> sdus] ELSE w[sn]]
  /\ undelivered' = [i \in DOMAIN undelivered \union sdus |->
       LET old == IF i \in DOMAIN undelivered THEN undelivered[i]
                  ELSE [fully_txed |-> FALSE, sns |-> {}]
       IN  IF i \in sdus THEN [fully_txed |-> i \in ended, sns |-> old.sns \union {vt_s}]
                         ELSE old]

(* The queue is read up to the last SDU in S. *)
QueueRead(S) ==
  LET slots == {k \in 1 .. Len(tx_sdu_queue) : tx_sdu_queue[k] \in S}
      readTo == IF slots = {} THEN 0 ELSE CHOOSE k \in slots : \A j \in slots : j <= k
  IN  tx_sdu_queue' = SubSeq(tx_sdu_queue, readTo + 1, Len(tx_sdu_queue))

(* What build_data_pdu does to the window, to the lists and to the queue of SDUs. *)
LEMMA BuildDataPduEffect ==
  ASSUME NEW r, IsRetx(r), NEW g, NEW pdus, NEW bytes0, BuildDataPdu(r, g, pdus, bytes0)
  PROVE  /\ \E data, sdus, ended : PduJoins(r.win, data, sdus, ended)
         /\ \E S : QueueRead(S)
         /\ poll_sn' \in {vt_s, poll_sn} /\ offered' = offered
         /\ poll_retx_timer' \in {"running", poll_retx_timer}
  <1> DEFINE stream == tx_sdu \o QueuedTokens(tx_sdu_queue)
             len == IF g < Len(stream) THEN g ELSE Len(stream)
             taken == SubSeq(stream, 1, len)
             sdus == {t.b[1] : t \in ToSet(taken)}
             ended == {t.b[1] : t \in {u \in ToSet(taken) : u.e}}
             slots == {k \in 1 .. Len(tx_sdu_queue) : tx_sdu_queue[k] \in sdus}
             readTo == IF slots = {} THEN 0 ELSE CHOOSE k \in slots : \A j \in slots : j <= k
             queue == SubSeq(tx_sdu_queue, readTo + 1, Len(tx_sdu_queue))
             data == IF taken = <<>> THEN <<[b |-> NoByte, e |-> TRUE]>> ELSE taken
             bytes == CountBytes(bytes0, len)
             p == poll_required(pdus, bytes, queue, r.q)
             win == [sn \in DOMAIN r.win \union {vt_s} |->
               IF sn = vt_s THEN [data |-> data, retx_count |-> 0, sdus |-> sdus] ELSE r.win[sn]]
  <1>1. /\ SetRetx([r EXCEPT !.win = win])
        /\ tx_sdu_queue' = queue
        /\ undelivered' = [i \in DOMAIN undelivered \union sdus |->
             LET old == IF i \in DOMAIN undelivered THEN undelivered[i]
                        ELSE [fully_txed |-> FALSE, sns |-> {}]
             IN  IF i \in sdus THEN [fully_txed |-> i \in ended, sns |-> old.sns \union {vt_s}]
                               ELSE old]
        /\ poll_sn' = (IF p THEN vt_s ELSE poll_sn)
        /\ UpdatePoll(p, pdus, bytes)
        /\ offered' = offered
    BY DEF BuildDataPdu
  <1> HIDE DEF p, data, sdus, ended, bytes
  <1>2. poll_retx_timer' \in {"running", poll_retx_timer} /\ poll_sn' \in {vt_s, poll_sn}
    BY <1>1 DEF UpdatePoll
  <1>3. tx_window' = win
    <2> HIDE DEF win
    <2>1. [r EXCEPT !.win = win] = [win |-> win, q |-> r.q, ovf |-> r.ovf, max |-> r.max]
      BY DEF IsRetx
    <2> QED
      BY <1>1, <2>1 DEF SetRetx
  <1>4. QueueRead(sdus)
    BY <1>1 DEF QueueRead
  <1>5. PduJoins(r.win, data, sdus, ended)
    BY <1>1, <1>3 DEF PduJoins
  <1> QED
    BY <1>1, <1>2, <1>4, <1>5

(* A new PDU joins the list of each SDU it carries, and an SDU that has no list is
   in no other PDU.                                                         *)
LEMMA NewPduSegments ==
  ASSUME ListsInv, NEW w, SameSdus(w, tx_window), vt_s \notin DOMAIN tx_window,
         NEW data, NEW sdus, NEW ended, PduJoins(w, data, sdus, ended)
  PROVE  ListsInv'
  <1>1. /\ DOMAIN tx_window' = DOMAIN tx_window \union {vt_s}
        /\ tx_window'[vt_s] = [data |-> data, retx_count |-> 0, sdus |-> sdus]
    BY DEF SameSdus, PduJoins
  <1>2. \A sn \in DOMAIN tx_window : /\ tx_window'[sn] = w[sn] /\ IsPdu(w[sn])
                                     /\ w[sn].sdus = tx_window[sn].sdus
    BY DEF SameSdus, ListsInv, PduJoins
  <1>3. DOMAIN undelivered' = DOMAIN undelivered \union sdus
    BY DEF PduJoins
  <1>4. ASSUME NEW sn \in DOMAIN tx_window'
        PROVE  IsPdu(tx_window'[sn]) /\ tx_window'[sn].sdus \subseteq DOMAIN undelivered'
    <2>1. CASE sn = vt_s
      BY <1>1, <1>3, <2>1 DEF IsPdu
    <2>2. CASE sn \in DOMAIN tx_window
      BY <1>2, <1>3, <2>2 DEF ListsInv
    <2> QED
      BY <1>1, <2>1, <2>2
  <1>5. ASSUME NEW i \in DOMAIN undelivered'
        PROVE  /\ IsUndelivered(undelivered'[i])
               /\ undelivered'[i].sns = {sn \in DOMAIN tx_window' : i \in tx_window'[sn].sdus}
               /\ undelivered'[i].fully_txed => undelivered'[i].sns # {}
    <2> DEFINE before == {sn \in DOMAIN tx_window : i \in tx_window[sn].sdus}
               after == {sn \in DOMAIN tx_window' : i \in tx_window'[sn].sdus}
    <2>1. i \in DOMAIN undelivered => undelivered[i].sns = before
      BY DEF ListsInv, SegmentListsAgree
    <2>2. i \notin DOMAIN undelivered => before = {}
      BY DEF ListsInv
    <2>3. after = IF i \in sdus THEN before \union {vt_s} ELSE before
      BY <1>1, <1>2
    <2> HIDE DEF before, after
    <2>4. CASE i \in sdus
      <3>1. undelivered'[i] = [fully_txed |-> i \in ended, sns |-> before \union {vt_s}]
        BY <1>3, <2>1, <2>2, <2>4 DEF PduJoins
      <3> QED
        BY <2>3, <2>4, <3>1 DEF IsUndelivered, after
    <2>5. CASE i \notin sdus
      <3>1. i \in DOMAIN undelivered /\ undelivered'[i] = undelivered[i]
        BY <1>3, <2>5 DEF PduJoins
      <3> QED
        BY <2>1, <2>3, <2>5, <3>1 DEF ListsInv, SegmentListsAgree, after
    <2> QED
      BY <2>4, <2>5
  <1> QED
    BY <1>4, <1>5 DEF ListsInv, SegmentListsAgree

(* An acknowledged SN leaves the window and all lists; an SDU whose list it empties
   is forgotten if nothing of it is left to transmit.                         *)
LEMMA AckSnSegments ==
  ASSUME ListsInv, AckSn
  PROVE  ListsInv'
  <1> DEFINE sn == stack.i
  <1>1. \A s \in DOMAIN tx_window' : s \in DOMAIN tx_window /\ s # sn /\ tx_window'[s] = tx_window[s]
    BY DEF AckSn
  <1>2. DOMAIN tx_window' = DOMAIN tx_window \ {sn}
    BY DEF AckSn
  <1>3. PICK done : /\ done = IF sn \in DOMAIN tx_window THEN FullyAcked(sn) ELSE {}
                    /\ undelivered' = [i \in DOMAIN undelivered \ done |->
                         [undelivered[i] EXCEPT !.sns = IF sn \in DOMAIN tx_window THEN @ \ {sn} ELSE @]]
    BY DEF AckSn
  <1> HIDE DEF sn
  <1>4. DOMAIN undelivered' = DOMAIN undelivered \ done
    BY <1>3
  <1>5. ASSUME NEW i \in DOMAIN undelivered
        PROVE  /\ undelivered[i].sns = {s \in DOMAIN tx_window : i \in tx_window[s].sdus}
               /\ undelivered[i].fully_txed => undelivered[i].sns # {}
               /\ IsUndelivered(undelivered[i])
    BY DEF ListsInv, SegmentListsAgree
  <1>6. \A i \in done : i \in DOMAIN undelivered /\ undelivered[i].sns = {sn}
    BY <1>3 DEF FullyAcked
  <1>7. ASSUME NEW s \in DOMAIN tx_window'
        PROVE  IsPdu(tx_window'[s]) /\ tx_window'[s].sdus \subseteq DOMAIN undelivered'
    <2>1. IsPdu(tx_window[s]) /\ tx_window[s].sdus \subseteq DOMAIN undelivered
      BY <1>1 DEF ListsInv
    <2>2. ASSUME NEW i \in tx_window[s].sdus, i \in done PROVE FALSE
      <3>1. s \in undelivered[i].sns
        BY <1>1, <1>5, <1>6, <2>2
      <3> QED
        BY <1>1, <1>6, <2>2, <3>1
    <2> QED
      BY <1>1, <1>4, <2>1, <2>2
  <1>8. ASSUME NEW i \in DOMAIN undelivered'
        PROVE  /\ IsUndelivered(undelivered'[i])
               /\ undelivered'[i].sns = {s \in DOMAIN tx_window' : i \in tx_window'[s].sdus}
               /\ undelivered'[i].fully_txed => undelivered'[i].sns # {}
    <2>1. i \in DOMAIN undelivered /\ i \notin done
      BY <1>4
    <2> DEFINE before == {s \in DOMAIN tx_window : i \in tx_window[s].sdus}
               after == {s \in DOMAIN tx_window' : i \in tx_window'[s].sdus}
    <2>2. after = before \ {sn}
      BY <1>1, <1>2
    <2>3. sn \notin DOMAIN tx_window => before \ {sn} = before
      OBVIOUS
    <2>4. undelivered'[i] = [fully_txed |-> undelivered[i].fully_txed, sns |-> before \ {sn}]
      <3> HIDE DEF before
      <3>1. undelivered'[i] =
              [undelivered[i] EXCEPT !.sns = IF sn \in DOMAIN tx_window THEN @ \ {sn} ELSE @]
        BY <1>3, <1>4
      <3>2. undelivered[i] = [fully_txed |-> undelivered[i].fully_txed, sns |-> before]
        BY <1>5, <2>1 DEF IsUndelivered, before
      <3> QED
        BY <2>3, <3>1, <3>2
    <2>5. ASSUME undelivered[i].fully_txed PROVE before \ {sn} # {}
      <3>1. before # {} /\ undelivered[i].sns = before
        BY <1>5, <2>1, <2>5
      <3>2. CASE before = {sn}
        <4>1. sn \in DOMAIN tx_window /\ i \in tx_window[sn].sdus
          BY <3>2
        <4>2. i \in FullyAcked(sn)
          BY <2>1, <2>5, <3>1, <3>2, <4>1 DEF FullyAcked
        <4> QED
          BY <1>3, <2>1, <4>1, <4>2
      <3> HIDE DEF before
      <3> QED
        BY <3>1, <3>2
    <2> HIDE DEF before, after
    <2>6. undelivered'[i].sns = after /\ undelivered'[i].fully_txed = undelivered[i].fully_txed
      BY <2>2, <2>4
    <2>7. IsUndelivered(undelivered'[i])
      BY <2>4 DEF IsUndelivered
    <2> QED
      BY <2>2, <2>5, <2>6, <2>7 DEF after
  <1> QED
    BY <1>7, <1>8 DEF ListsInv, SegmentListsAgree
(* What is left of the types of the transmitter besides LinkWindowInv. *)
TxTypes ==
  /\ poll_sn \in SN /\ offered \in 0 .. NofSdus
  /\ IsSeq(tx_sdu_queue) /\ Len(tx_sdu_queue) <= QueueLen
  /\ poll_retx_timer \in {"stopped", "running", "expired"}
  /\ stack.pc \in {"idle", "timer_expired", "status"}

TxInv == LinkWindowInv /\ TxTypes /\ ListsInv

LEMMA TxInvTypes == TxInv => TxTypeOK /\ SegmentListsAgree
  <1>1. ASSUME TxInv, stack.pc = "status"
        PROVE  stack.i \in SN /\ stack.ack \in SN /\ stack.nacks \subseteq SN
    BY <1>1 DEF TxInv, LinkWindowInv, StatusInWork, StatusSection
  <1> QED
    BY <1>1 DEF TxInv, LinkWindowInv, TxTypes, ListsInv, TxTypeOK

LEMMA QueueReadType ==
  ASSUME IsSeq(tx_sdu_queue), NEW S, QueueRead(S)
  PROVE  IsSeq(tx_sdu_queue') /\ Len(tx_sdu_queue') <= Len(tx_sdu_queue)
  <1> DEFINE slots == {k \in 1 .. Len(tx_sdu_queue) : tx_sdu_queue[k] \in S}
             greatest == CHOOSE k \in slots : \A j \in slots : j <= k
             readTo == IF slots = {} THEN 0 ELSE greatest
  <1>1. tx_sdu_queue \in Seq(Range(tx_sdu_queue)) /\ Len(tx_sdu_queue) \in Nat
    BY LenProperties DEF IsSeq
  <1>2. tx_sdu_queue' = SubSeq(tx_sdu_queue, readTo + 1, Len(tx_sdu_queue))
    BY DEF QueueRead
  <1>3. slots \in SUBSET Nat /\ \A y \in slots : y \in 1 .. Len(tx_sdu_queue) /\ y <= Len(tx_sdu_queue)
    BY <1>1
  <1> HIDE DEF slots
  <1>4. slots # {} => greatest \in slots
    <2> SUFFICES ASSUME slots # {} PROVE greatest \in slots
      OBVIOUS
    <2>1. PICK e \in slots : TRUE
      OBVIOUS
    <2>2. \E x \in slots : \A y \in slots : y <= x
      BY <1>1, <1>3, <2>1, GreatestElement
    <2> QED
      BY <2>2
  <1> HIDE DEF greatest
  <1>5. readTo \in 0 .. Len(tx_sdu_queue)
    <2>1. CASE slots = {}
      BY <1>1, <2>1
    <2>2. CASE slots # {}
      <3>1. greatest \in 1 .. Len(tx_sdu_queue)
        BY <1>3, <1>4, <2>2
      <3> QED
        BY <1>1, <2>2, <3>1
    <2> QED
      BY <2>1, <2>2
  <1> HIDE DEF readTo
  <1>6. \A i \in readTo + 1 .. Len(tx_sdu_queue) : tx_sdu_queue[i] \in Range(tx_sdu_queue)
    BY <1>1, <1>5, ElementOfSeq
  <1>7. /\ tx_sdu_queue' \in Seq(Range(tx_sdu_queue))
        /\ Len(tx_sdu_queue') = IF readTo + 1 <= Len(tx_sdu_queue)
                                THEN Len(tx_sdu_queue) - (readTo + 1) + 1 ELSE 0
    BY <1>1, <1>2, <1>5, <1>6, SubSeqProperties
  <1>8. IsSeq(tx_sdu_queue')
    BY <1>7, SeqOfRange DEF IsSeq
  <1> QED
    BY <1>1, <1>5, <1>7, <1>8

LEMMA ReadPduTx ==
  ASSUME TxInv, NEW g, NEW s, read_pdu(g, s)
  PROVE  TxTypes' /\ ListsInv'
  <1>1. /\ IsRetx(Ready) /\ SameSdus(Ready.win, tx_window)
        /\ QueueOK /\ vt_s \in SN /\ TxTypes /\ ListsInv
    BY ReadyOK, ReadySdus DEF TxInv, LinkWindowInv
  <1>2. \/ RetxWhole(Ready)
        \/ RetxSegment(Ready, s)
        \/ \E pdus, bytes : BuildDataPdu(Ready, g, pdus, bytes)
        \/ \E pdus, bytes : NoPdu(Ready, pdus, bytes)
    BY DEF read_pdu, Ready, Scheduled
  <1>3. ASSUME tx_window' = Ready.win, poll_retx_timer' \in {"running", poll_retx_timer},
               UNCHANGED <<offered, tx_sdu_queue, poll_sn, undelivered, stack>>
        PROVE  TxTypes' /\ ListsInv'
    <2>1. ListsInv'
      BY <1>1, <1>3, SameSegments
    <2>2. TxTypes'
      BY <1>1, <1>3 DEF TxTypes, IsSeq
    <2> QED
      BY <2>1, <2>2
  <1>4. CASE RetxWhole(Ready)
    <2>1. PICK p, n : /\ SetRetx([Ready EXCEPT !.q = Tail(@)])
                      /\ UpdatePoll(p, CountPdu(pdu_without_poll), n)
                      /\ UNCHANGED <<sduVars, poll_sn, ackVars, stack>>
      BY <1>4 DEF RetxWhole
    <2>2. [Ready EXCEPT !.q = Tail(@)].win = Ready.win
      BY <1>1 DEF IsRetx
    <2> QED
      BY <1>3, <2>1, <2>2 DEF SetRetx, UpdatePoll, sduVars, ackVars
  <1>5. CASE RetxSegment(Ready, s)
    <2>1. PICK q, p, n : /\ SetRetx([Ready EXCEPT !.q = q])
                         /\ UpdatePoll(p, CountPdu(pdu_without_poll), n)
                         /\ UNCHANGED <<sduVars, poll_sn, ackVars, stack>>
      BY <1>5 DEF RetxSegment
    <2>2. [Ready EXCEPT !.q = q].win = Ready.win
      BY <1>1 DEF IsRetx
    <2> QED
      BY <1>3, <2>1, <2>2 DEF SetRetx, UpdatePoll, sduVars, ackVars
  <1>6. CASE \E pdus, bytes : BuildDataPdu(Ready, g, pdus, bytes)
    <2>1. /\ \E data, sdus, ended : PduJoins(Ready.win, data, sdus, ended)
          /\ \E S : QueueRead(S)
          /\ poll_sn' \in {vt_s, poll_sn} /\ offered' = offered
          /\ poll_retx_timer' \in {"running", poll_retx_timer}
      BY <1>1, <1>6, BuildDataPduEffect
    <2>2. vt_s \notin DOMAIN tx_window
      <3>1. Base(vt_s, vt_a) \in Nat /\ \A sn \in DOMAIN tx_window : Base(sn, vt_a) < Base(vt_s, vt_a)
        BY LinkDistances DEF TxInv, LinkWindowInv, WindowsAgree, TX_MOD_BASE
      <3> QED
        BY <3>1
    <2>3. ListsInv'
      BY <1>1, <2>1, <2>2, NewPduSegments
    <2>4. IsSeq(tx_sdu_queue') /\ Len(tx_sdu_queue') <= QueueLen
      <3>1. IsSeq(tx_sdu_queue') /\ Len(tx_sdu_queue') <= Len(tx_sdu_queue)
        BY <1>1, <2>1, QueueReadType DEF TxTypes
      <3>2. Len(tx_sdu_queue) \in Nat /\ Len(tx_sdu_queue') \in Nat
        BY <1>1, <3>1, LenProperties DEF TxTypes, IsSeq
      <3> QED
        BY <1>1, <3>1, <3>2, TxAssumption DEF TxTypes
    <2>5. UNCHANGED stack
      BY <1>1, <1>6, BuildDataPduSends
    <2>6. TxTypes'
      BY <1>1, <2>1, <2>4, <2>5 DEF TxTypes, IsSeq
    <2> QED
      BY <2>3, <2>6
  <1>7. CASE \E pdus, bytes : NoPdu(Ready, pdus, bytes)
    BY <1>3, <1>7 DEF NoPdu, SetRetx, sduVars, ackVars
  <1> QED
    BY <1>2, <1>4, <1>5, <1>6, <1>7

(* Steps that are not about SDUs and leave the window and the lists alone. *)
LEMMA OtherTx ==
  ASSUME TxInv, SameSdus(tx_window', tx_window),
         UNCHANGED <<poll_sn, offered, tx_sdu_queue, undelivered>>,
         poll_retx_timer' \in {"stopped", "expired", poll_retx_timer},
         stack'.pc \in {"idle", "timer_expired", "status"}
  PROVE  TxTypes' /\ ListsInv'
  <1>1. ListsInv'
    BY SameSegments DEF TxInv
  <1> QED
    BY <1>1 DEF TxInv, TxTypes, IsSeq

LEMMA SduStepTx ==
  ASSUME TxInv, write_sdu \/ \E i \in Discardable : discard_sdu(i)
  PROVE  TxTypes' /\ ListsInv'
  <1>1. UNCHANGED <<poll_sn, tx_window, undelivered, poll_retx_timer, stack>>
    BY DEF write_sdu, discard_sdu, pollVarsTx, retxVars, ackVars
  <1>2. ListsInv'
    BY <1>1, SameSdusSelf, SameSegments DEF TxInv
  <1>3. /\ TxTypes /\ IsSeq(tx_sdu_queue) /\ tx_sdu_queue \in Seq(Range(tx_sdu_queue))
        /\ Len(tx_sdu_queue) \in Nat /\ QueueLen \in Nat /\ NofSdus \in Nat
        /\ Len(tx_sdu_queue) <= QueueLen /\ offered \in 0 .. NofSdus
    BY LenProperties, TxAssumption DEF TxInv, TxTypes, IsSeq
  <1>4. CASE write_sdu
    <2>1. offered' \in 0 .. NofSdus
      BY <1>3, <1>4 DEF write_sdu
    <2>2. CASE Len(tx_sdu_queue) < QueueLen
      <3>1. tx_sdu_queue' = Append(tx_sdu_queue, offered + 1)
        BY <1>4, <2>2 DEF write_sdu
      <3>2. IsSeq(tx_sdu_queue') /\ Len(tx_sdu_queue') = Len(tx_sdu_queue) + 1
        BY <1>3, <3>1, AppendKeeps
      <3> QED
        BY <1>1, <1>2, <1>3, <2>1, <2>2, <3>2 DEF TxTypes, IsSeq
    <2>3. CASE ~(Len(tx_sdu_queue) < QueueLen)
      BY <1>1, <1>2, <1>3, <1>4, <2>1, <2>3 DEF write_sdu, TxTypes, IsSeq
    <2> QED
      BY <2>2, <2>3
  <1>5. CASE \E i \in Discardable : discard_sdu(i)
    <2>1. PICK k \in 1 .. Len(tx_sdu_queue) : tx_sdu_queue' = [tx_sdu_queue EXCEPT ![k] = Null]
      BY <1>5 DEF discard_sdu
    <2> DEFINE T == Range(tx_sdu_queue) \union {Null}
    <2>2. tx_sdu_queue \in Seq(T) /\ Null \in T
      BY <1>3, SeqMonotonic
    <2> HIDE DEF T
    <2>3. tx_sdu_queue' \in Seq(T) /\ Len(tx_sdu_queue') = Len(tx_sdu_queue)
      BY <2>1, <2>2, ExceptSeq
    <2>4. IsSeq(tx_sdu_queue') /\ offered' = offered
      BY <1>5, <2>3, SeqOfRange DEF IsSeq, discard_sdu
    <2> QED
      BY <1>1, <1>2, <1>3, <2>3, <2>4 DEF TxTypes, IsSeq
  <1> QED
    BY <1>4, <1>5
(* The pc of a status in work stays. *)
LEMMA StatusPc ==
  ASSUME TxInv, StatusLoops, NEW i, NEW u
  PROVE  /\ [stack EXCEPT !.i = i].pc = "status"
         /\ [stack EXCEPT !.i = i, !.update_vt_a = u].pc = "status"
  <1>1. stack.pc = "status" /\ stack \in StatusSection
    BY DEF StatusLoops, TxInv, LinkWindowInv, StatusInWork
  <1> QED
    BY <1>1 DEF StatusSection

LEMMA StackStepTx ==
  ASSUME TxInv, timer_expired \/ NackSn \/ AckSn \/ StatusDone \/ poll_retx_expires
  PROVE  TxTypes' /\ ListsInv'
  <1>1. /\ IsRetx(RetxState) /\ RetxState.win = tx_window
        /\ stack.pc \in {"idle", "timer_expired", "status"}
    BY RetxStateOK DEF TxInv, LinkWindowInv, TxTypes
  <1>2. Idle.pc = "idle"
    BY DEF Idle
  <1>3. CASE timer_expired
    <2>1. SameSdus(tx_window', tx_window)
      BY <1>1, <1>3, RetransmitSdus, SameSdusSelf DEF timer_expired, SetRetx
    <2> QED
      BY <1>2, <1>3, <2>1, OtherTx DEF timer_expired, sduVars, pollVarsTx, ackVars
  <1>4. CASE NackSn
    <2>1. SameSdus(tx_window', tx_window)
      BY <1>1, <1>4, RetransmitSdus, SameSdusSelf DEF NackSn, SetRetx
    <2>2. stack'.pc = "status"
      BY <1>4, StatusPc DEF NackSn
    <2> QED
      BY <1>4, <2>1, <2>2, OtherTx DEF NackSn, sduVars, pollVarsTx, ackVars
  <1>5. CASE AckSn
    <2>1. ListsInv'
      BY <1>5, AckSnSegments DEF TxInv
    <2>2. stack'.pc = "status"
      BY <1>5, StatusPc DEF AckSn
    <2>3. UNCHANGED <<poll_sn, offered, tx_sdu_queue, poll_retx_timer>>
      BY <1>5 DEF AckSn, sduVars, pollVarsTx
    <2> QED
      BY <2>1, <2>2, <2>3 DEF TxInv, TxTypes, IsSeq
  <1>6. CASE StatusDone
    BY <1>2, <1>6, SameSdusSelf, OtherTx DEF StatusDone, sduVars, retxVars, pollVarsTx
  <1>7. CASE poll_retx_expires
    BY <1>7, SameSdusSelf, OtherTx DEF poll_retx_expires, sduVars, retxVars, ackVars
  <1> QED
    BY <1>3, <1>4, <1>5, <1>6, <1>7

LEMMA StatusArrivesTx ==
  ASSUME TxInv, NEW st, handle_control_pdu(st)
  PROVE  TxTypes' /\ ListsInv'
  <1>1. /\ poll_retx_timer' \in {"stopped", poll_retx_timer}
        /\ stack' = stack \/ stack'.pc = "status"
    BY DEF handle_control_pdu
  <1>2. stack'.pc \in {"idle", "timer_expired", "status"}
    BY <1>1 DEF TxInv, TxTypes
  <1>3. UNCHANGED <<poll_sn, offered, tx_sdu_queue, undelivered, tx_window>>
    BY DEF handle_control_pdu, sduVars, ackVars
  <1> QED
    BY <1>1, <1>2, <1>3, SameSdusSelf, OtherTx

(* Steps of the receiver and of MAC *)
LEMMA SameTx ==
  ASSUME TxInv, UNCHANGED <<sduVars, retxVars, pollVarsTx, ackVars, stack>>
  PROVE  TxTypes' /\ ListsInv'
  <1>1. /\ UNCHANGED <<poll_sn, offered, tx_sdu_queue, undelivered, tx_window, poll_retx_timer, stack>>
        /\ stack.pc \in {"idle", "timer_expired", "status"}
    BY DEF sduVars, retxVars, pollVarsTx, ackVars, TxInv, TxTypes
  <1> QED
    BY <1>1, SameSdusSelf, OtherTx

LEMMA TxReset ==
  ASSUME tx_window = <<>>, undelivered = <<>>
  PROVE  ListsInv
  <1>1. DOMAIN tx_window = {} /\ DOMAIN undelivered = {}
    OBVIOUS
  <1> QED
    BY <1>1 DEF ListsInv, SegmentListsAgree

LEMMA ReestablishTx ==
  ASSUME TxInv, reestablish
  PROVE  TxTypes' /\ ListsInv'
  <1>1. /\ tx_window' = <<>> /\ undelivered' = <<>> /\ tx_sdu_queue' = <<>> /\ poll_sn' = 0
        /\ poll_retx_timer' \in {"stopped", poll_retx_timer} /\ UNCHANGED <<offered, stack>>
    BY DEF reestablish, tx_reestablish
  <1>2. ListsInv'
    <2>1. DOMAIN tx_window' = {} /\ DOMAIN undelivered' = {}
      BY <1>1
    <2> QED
      BY <2>1 DEF ListsInv, SegmentListsAgree
  <1>3. 0 \in SN /\ IsSeq(<<>>) /\ Len(<<>>) <= QueueLen
    BY EmptyIsSeq, ModType, TxAssumption DEF SN
  <1> QED
    BY <1>1, <1>2, <1>3 DEF TxInv, TxTypes, IsSeq

LEMMA TxInitInv == LinkInit => TxInv
  <1> SUFFICES ASSUME LinkInit PROVE TxInv
    OBVIOUS
  <1>1. LinkWindowInv
    BY LinkInitInv
  <1>2. ListsInv
    BY TxReset DEF LinkInit, TxInit
  <1>3. 0 \in SN /\ IsSeq(<<>>) /\ Len(<<>>) <= QueueLen /\ NofSdus \in Nat
    BY EmptyIsSeq, ModType, TxAssumption DEF SN
  <1>4. TxTypes
    BY <1>3 DEF LinkInit, TxInit, TxTypes, Idle
  <1> QED
    BY <1>1, <1>2, <1>4 DEF TxInv

LEMMA TxStepInv == TxInv /\ [LinkNext]_linkVars => TxInv'
  <1> SUFFICES ASSUME TxInv, [LinkNext]_linkVars PROVE TxInv'
    OBVIOUS
  <1>1. LinkWindowInv'
    BY LinkStepInv DEF TxInv
  <1>2. TxTypes' /\ ListsInv'
    <2>1. CASE Tx(write_sdu) \/ \E i \in Discardable : Tx(discard_sdu(i))
      BY <2>1, SduStepTx DEF Tx
    <2>2. ASSUME NEW g, NEW s, ReadPdu(g, s) PROVE TxTypes' /\ ListsInv'
      BY <2>2, ReadPduTx DEF ReadPdu
    <2>3. CASE PollTimeout \/ Tx(timer_expired) \/ Tx(NackSn) \/ Tx(AckSn) \/ Tx(StatusDone)
      BY <2>3, StackStepTx DEF Tx, PollTimeout
    <2>4. CASE DeliverStatus
      BY <2>4, StatusArrivesTx DEF DeliverStatus
    <2>5. CASE reestablish
      BY <2>5, ReestablishTx
    <2>6. CASE DeliverPdu \/ LosePdu
      BY <2>6, SameTx DEF DeliverPdu, LosePdu
    <2>7. CASE UNCHANGED txVars
      BY <2>7, SameTx DEF txVars
    <2>8. CASE LoseStatus \/ ReorderingTimeout \/ Rx(status_prohibit_expired) \/ UNCHANGED linkVars
      BY <2>7, <2>8 DEF LoseStatus, ReorderingTimeout, Rx, linkVars
    <2>9. ASSUME NEW grant, Rx(build_status_pdu(grant)) PROVE TxTypes' /\ ListsInv'
      BY <2>7, <2>9 DEF Rx
    <2> QED
      BY <2>1, <2>2, <2>3, <2>4, <2>5, <2>6, <2>8, <2>9 DEF LinkNext
  <1> QED
    BY <1>1, <1>2 DEF TxInv

(* The transmitter's SNs stay in the SN space across its end, those of the status
   that handle_control_pdu is in the middle of included.                      *)
THEOREM TxTypeCorrect == LinkSpec => []TxTypeOK
  BY TxInitInv, TxStepInv, TxInvTypes, PTL DEF LinkSpec

(* The list of a PDCP PDU holds exactly the PDUs of the window that carry a part of
   it, at every point where handle_control_pdu releases the mutex, and an SDU that
   was transmitted whole is forgotten with its last PDU and not before.      *)
THEOREM SegmentListsAgreeHolds == LinkSpec => []SegmentListsAgree
  BY TxInitInv, TxStepInv, TxInvTypes, PTL DEF LinkSpec

=============================================================================
