----------------------------- MODULE RlcAmLteRx -----------------------------
(***************************************************************************)
(* The receiving side of one LTE RLC AM entity: class rlc_am_lte_rx of     *)
(* lib/src/rlc/rlc_am_lte.cc, and the part of rlc_am_lte_tx that answers a *)
(* poll with a STATUS PDU (build_status_pdu, status_prohibit_timer).       *)
(*                                                                         *)
(* Every handler holds the entity's mutex from its first to its last line, *)
(* so each one is a single action.  Payload bytes are tokens [b, e]: e     *)
(* says that the header (a length indicator, or the FI field for the last  *)
(* token of the PDU) marks the byte as the last one of its SDU.            *)
(***************************************************************************)
EXTENDS RlcAmSn, Sequences, SequencesExt, FiniteSets

CONSTANTS
  DataPdus,        \* AMD PDUs and PDU segments that the peer may send
  StatusGrants,    \* MAC grants: 0 is too small, g takes a status with g - 1 NACKs
  StatusProhibit   \* t_status_prohibit > 0

ASSUME PduAssumption == \A pdu \in DataPdus : pdu.sn \in SN /\ pdu.p \in BOOLEAN
ASSUME GrantAssumption == StatusGrants \subseteq Nat /\ StatusProhibit \in BOOLEAN

VARIABLES
  vr_r,               \* lower edge of the receive window
  vr_mr,              \* upper edge of the receive window
  vr_x,               \* SN after the one that started the reordering timer
  vr_ms,              \* highest SN that ACK_SN of a STATUS PDU may name
  vr_h,               \* SN after the highest SN received
  rx_window,          \* SN |-> payload of the PDUs received, not yet delivered
  rx_segments,        \* SN |-> segments of the PDUs received in part
  rx_sdu,             \* bytes of the SDU being reassembled
  poll_received,
  do_status,
  reordering_timer,   \* is the timer running
  status_prohibit_timer,
  statusCh,           \* STATUS PDUs on their way to the peer
  delivered           \* history: the SDUs handed to PDCP

windowVars == <<vr_r, vr_mr, vr_x, vr_ms, vr_h, rx_window>>
payloadVars == <<rx_segments, rx_sdu, delivered>>
pollVars == <<poll_received, do_status>>
rxVars == <<windowVars, payloadVars, pollVars, reordering_timer,
            status_prohibit_timer, statusCh>>

-----------------------------------------------------------------------------
(* The receive window. *)

RX_MOD_BASE(sn) == Base(sn, vr_r)

(* Mutant: the upper edge counts as inside. *)
InsideUpToEdge(sn) == RX_MOD_BASE(sn) <= RX_MOD_BASE(vr_mr)

inside_rx_window(sn) == RX_MOD_BASE(sn) < RX_MOD_BASE(vr_mr)

(* Mutant: an if in place of the while. *)
SkipsOne(held, x, n) == n = IF x \in held THEN 1 ELSE 0

(* The loop  while (rx_window.has_sn(x)) x = (x + 1) % MOD  over the set
   held leaves x after n steps.                                            *)
SkipsHeld(held, x, n) ==
  /\ Add(x, n) \notin held
  /\ \A i \in 0 .. n - 1 : Add(x, i) \in held

-----------------------------------------------------------------------------
RxInit ==
  /\ vr_r = 0 /\ vr_mr = WINDOW /\ vr_x = 0 /\ vr_ms = 0 /\ vr_h = 0
  /\ rx_window = <<>> /\ rx_segments = <<>> /\ rx_sdu = <<>>
  /\ poll_received = FALSE /\ do_status = FALSE
  /\ reordering_timer = FALSE /\ status_prohibit_timer = FALSE
  /\ statusCh = <<>> /\ delivered = <<>>

(* Mutant: the bytes left of the previous PDU are forgotten. *)
ReassembledAfresh(tokens) ==
  FoldLeft(LAMBDA acc, t :
             IF t.e THEN [sdu |-> <<>>, out |-> Append(acc.out, Append(acc.sdu, t.b))]
                    ELSE [acc EXCEPT !.sdu = Append(@, t.b)],
           [sdu |-> <<>>, out |-> <<>>], tokens)

(* reassemble_rx_sdus: the bytes of consecutive PDUs, cut into SDUs. *)
Reassembled(tokens) ==
  FoldLeft(LAMBDA acc, t :
             IF t.e THEN [sdu |-> <<>>, out |-> Append(acc.out, Append(acc.sdu, t.b))]
                    ELSE [acc EXCEPT !.sdu = Append(@, t.b)],
           [sdu |-> rx_sdu, out |-> <<>>], tokens)

(* Mutant: no wrap-around. *)
NextVrHNoWrap(sn) == IF RX_MOD_BASE(sn) >= RX_MOD_BASE(vr_h) THEN sn + 1 ELSE vr_h

(* vr_h after a PDU or a first segment with this SN *)
NextVrH(sn) == IF RX_MOD_BASE(sn) >= RX_MOD_BASE(vr_h) THEN Add(sn, 1) ELSE vr_h

(* A poll is answered at once if its PDU is already below vr_ms, otherwise
   when the reordering timer expires; asked is the value of do_status so far. *)
CheckPollBit(p, sn, ms, asked) ==
  /\ poll_received' = (poll_received \/ p)
  /\ do_status' = \/ asked
                  \/ p /\ \/ RX_MOD_BASE(sn) < RX_MOD_BASE(ms)
                          \/ RX_MOD_BASE(sn) >= RX_MOD_BASE(vr_mr)

(* Mutant: a running timer is never stopped. *)
TimerNeverStopped(r, mr, h) ==
  \/ reordering_timer /\ UNCHANGED <<vr_x, reordering_timer>>
  \/ /\ ~reordering_timer
     /\ reordering_timer' = (Base(h, r) > 0)
     /\ vr_x' = IF Base(h, r) > 0 THEN h ELSE vr_x

(* Mutant: a timer that is stopped is not started again by the same PDU. *)
TimerNotRestarted(r, mr, h) ==
  LET stop == reordering_timer /\ (vr_x = r \/ (Base(vr_x, r) >= Base(mr, r) /\ vr_x # mr))
      start == ~reordering_timer /\ Base(h, r) > 0
  IN  /\ reordering_timer' = (start \/ (reordering_timer /\ ~stop))
      /\ vr_x' = IF start THEN h ELSE vr_x

(* The end of handle_data_pdu_full, with the window already moved to
   [r, mr) and vr_h to h: stop the reordering timer, then start it.        *)
UpdateReorderingTimer(r, mr, h) ==
  LET keep == /\ reordering_timer
              /\ vr_x # r
              /\ Base(vr_x, r) < Base(mr, r) \/ vr_x = mr
  IN  \/ /\ keep
         /\ UNCHANGED <<vr_x, reordering_timer>>
      \/ /\ ~keep
         /\ reordering_timer' = (Base(h, r) > 0)
         /\ vr_x' = IF Base(h, r) > 0 THEN h ELSE vr_x

(* Mutant: the poll bit of a duplicate is ignored. *)
DiscardPduAndPoll(p, segs, asked) ==
  /\ rx_segments' = segs
  /\ UNCHANGED <<windowVars, rx_sdu, delivered, pollVars, reordering_timer>>

(* A PDU outside the window, or one that is already held: only its poll bit
   counts.                                                                 *)
DiscardPdu(p, segs, asked) ==
  /\ do_status' = (asked \/ p)
  /\ rx_segments' = segs
  /\ UNCHANGED <<windowVars, rx_sdu, delivered, poll_received, reordering_timer>>

(* Mutant: the first missing SN is looked for from vr_r. *)
VrMsMovesFromVrR(held, m) ==
  /\ Add(vr_ms, m) \notin held
  /\ \A sn \in SN : RX_MOD_BASE(sn) < RX_MOD_BASE(Add(vr_ms, m)) => sn \in held

VrMsMoves(held, m) == SkipsHeld(held, vr_ms, m)

(* A new PDU inside the window; m is how far vr_ms moves, n how far vr_r
   moves.  Delivering an SN empties its list of segments but leaves the
   list's entry in the map.                                                *)
AcceptPdu(sn, p, data, segs, asked, m, n) ==
  LET held == DOMAIN rx_window \union {sn}
      win == [s \in held |-> IF s = sn THEN data ELSE rx_window[s]]
      passed == {Add(vr_r, i) : i \in 0 .. n - 1}
      h == NextVrH(sn)
      r == Add(vr_r, n)
      mr == Add(vr_mr, n)
      stream == Reassembled(FlattenSeq([i \in 1 .. n |-> win[Add(vr_r, i - 1)]]))
  IN  /\ VrMsMoves(held, m)
      /\ SkipsHeld(held, vr_r, n)
      /\ vr_h' = h
      /\ vr_ms' = Add(vr_ms, m)
      /\ CheckPollBit(p, sn, Add(vr_ms, m), asked)
      /\ vr_r' = r
      /\ vr_mr' = mr
      /\ rx_window' = [s \in held \ passed |-> win[s]]
      /\ rx_segments' = [s \in DOMAIN segs |-> IF s \in passed THEN {} ELSE segs[s]]
      /\ rx_sdu' = stream.sdu
      /\ delivered' = delivered \o stream.out
      /\ UpdateReorderingTimer(r, mr, h)

(* segs: the segment lists, without the one that just became this PDU *)
handle_data_pdu_full(sn, p, data, segs, asked) ==
  \/ /\ ~inside_rx_window(sn) \/ sn \in DOMAIN rx_window
     /\ DiscardPdu(p, segs, asked)
  \/ /\ inside_rx_window(sn) /\ sn \notin DOMAIN rx_window
     /\ \E m, n \in 0 .. WINDOW : AcceptPdu(sn, p, data, segs, asked, m, n)

-----------------------------------------------------------------------------
(* Segments of a PDU.  A segment is [so, data, lsf, p]; a list is the set of
   its members, which have different offsets so.                           *)

SegEnd(seg) == seg.so + Len(seg.data)

(* Of two segments with one offset the longer one stays, the older one if
   they are as long.                                                       *)
InsertSegment(segs, seg) ==
  IF \E s \in segs : s.so = seg.so /\ Len(s.data) >= Len(seg.data)
  THEN segs
  ELSE {s \in segs : s.so # seg.so} \union {seg}

Covered(segs, lo, hi) == \A b \in lo .. hi - 1 : \E s \in segs : s.so <= b /\ b < SegEnd(s)

Before(segs, seg) == {s \in segs : s.so < seg.so}

(* The scan drops a segment that lies within earlier ones, until a gap. *)
PruneSegments(segs) ==
  {s \in segs : ~ (/\ Covered(Before(segs, s), 0, s.so)
                   /\ \E t \in Before(segs, s) : SegEnd(t) >= SegEnd(s))}

(* No gap, and the segment with the highest offset is the PDU's last one. *)
SegmentsComplete(segs) ==
  \E last \in segs : /\ \A s \in segs : s.so <= last.so
                     /\ last.lsf
                     /\ Covered(segs, 0, SegEnd(last))

(* The PDU put together from segments without a gap: each byte is taken from
   the first segment that reaches it.                                      *)
JoinSegments(segs) ==
  LET len == CHOOSE n \in {SegEnd(s) : s \in segs} : \A s \in segs : SegEnd(s) <= n
      owner(b) == CHOOSE s \in segs :
                    /\ s.so < b /\ b <= SegEnd(s)
                    /\ \A t \in segs : t.so < b /\ b <= SegEnd(t) => s.so <= t.so
  IN  [b \in 1 .. len |-> owner(b).data[b - owner(b).so]]

(* handle_data_pdu_segment, for an SN that already has a list: the poll bit
   asks for a status at once, and a complete PDU is handled as a full one
   (with a poll bit of its own, that of its segments).                     *)
AddSegmentAndCheck(seg) ==
  LET segs == PruneSegments(InsertSegment(rx_segments[seg.sn],
                [so |-> seg.so, data |-> seg.data, lsf |-> seg.lsf, p |-> seg.p]))
      others == [s \in DOMAIN rx_segments \ {seg.sn} |-> rx_segments[s]]
      polled == \E s \in segs : s.p
  IN  \/ /\ ~SegmentsComplete(segs)
         /\ rx_segments' = [rx_segments EXCEPT ![seg.sn] = segs]
         /\ do_status' = (do_status \/ seg.p)
         /\ UNCHANGED <<windowVars, rx_sdu, delivered, poll_received, reordering_timer>>
      \/ /\ SegmentsComplete(segs)
         /\ handle_data_pdu_full(seg.sn, polled, JoinSegments(segs), others, do_status \/ seg.p)

NewSegmentList(seg) ==
  /\ rx_segments' = [s \in DOMAIN rx_segments \union {seg.sn} |->
                       IF s = seg.sn
                       THEN {[so |-> seg.so, data |-> seg.data, lsf |-> seg.lsf, p |-> seg.p]}
                       ELSE rx_segments[s]]
  /\ vr_h' = NextVrH(seg.sn)
  /\ CheckPollBit(seg.p, seg.sn, vr_ms, do_status)
  /\ UNCHANGED <<vr_r, vr_mr, vr_x, vr_ms, rx_window, rx_sdu, delivered, reordering_timer>>

handle_data_pdu_segment(seg) ==
  \/ /\ ~inside_rx_window(seg.sn)
     /\ DiscardPdu(seg.p, rx_segments, do_status)
  \/ /\ inside_rx_window(seg.sn)
     /\ \/ seg.sn \in DOMAIN rx_segments /\ AddSegmentAndCheck(seg)
        \/ seg.sn \notin DOMAIN rx_segments /\ NewSegmentList(seg)

-----------------------------------------------------------------------------
(* The actions. *)

handle_data_pdu(pdu) ==
  /\ \/ pdu.rf /\ handle_data_pdu_segment(pdu)
     \/ ~pdu.rf /\ handle_data_pdu_full(pdu.sn, pdu.p, pdu.data, rx_segments, do_status)
  /\ UNCHANGED <<status_prohibit_timer, statusCh>>

reordering_timer_expired ==
  /\ reordering_timer
  /\ \E m \in 0 .. WINDOW :
       LET ms == Add(vr_x, m)
           more == RX_MOD_BASE(vr_h) > RX_MOD_BASE(ms)
       IN  /\ SkipsHeld(DOMAIN rx_window, vr_x, m)
           /\ vr_ms' = ms
           /\ do_status' = (do_status \/ poll_received)
           /\ reordering_timer' = more
           /\ vr_x' = IF more THEN vr_h ELSE vr_x
  /\ UNCHANGED <<vr_r, vr_mr, vr_h, rx_window, payloadVars, poll_received,
                 status_prohibit_timer, statusCh>>

(* SNs below limit (an offset from vr_r) that have not been received *)
Missing(limit) == {sn \in SN : RX_MOD_BASE(sn) < limit /\ sn \notin DOMAIN rx_window}

(* Mutant: ACK_SN stays vr_ms when the grant cuts the list of NACKs. *)
StatusPduCut(max) ==
  LET all == Missing(RX_MOD_BASE(vr_ms))
      fit == {sn \in all : Cardinality(Missing(RX_MOD_BASE(sn))) < max}
  IN  [ack |-> IF Cardinality(all) < WINDOW THEN vr_ms ELSE vr_r, nacks |-> fit]

(* get_status_pdu with room for max NACKs, when it produces a status (see
   NoStatusFits).  If all of them fit, ACK_SN is
   vr_ms, except that the loop ends before it gets there when the whole
   window is missing.  Otherwise it stops at the first NACK that does not fit:
   ACK_SN is then the last SN received before it, and when a NACK that did fit
   is not below that SN the report falls back to "nothing below vr_r is
   missing".                                                               *)
StatusPdu(max) ==
  LET off(sn) == RX_MOD_BASE(sn)
      all == Missing(off(vr_ms))
      cut == CHOOSE sn \in all : Cardinality(Missing(off(sn))) = max
      fit == Missing(off(cut))
      got == {sn \in DOMAIN rx_window : off(sn) < off(cut)}
      last == CHOOSE sn \in got : \A s \in got : off(s) <= off(sn)
  IN  IF Cardinality(all) <= max
      THEN [ack |-> IF Cardinality(all) < WINDOW THEN vr_ms ELSE vr_r, nacks |-> all]
      ELSE IF got # {} /\ \A s \in fit : off(s) < off(last)
           THEN [ack |-> last, nacks |-> fit]
           ELSE [ack |-> vr_r, nacks |-> {}]

(* The loop of get_status_pdu only takes back a NACK that is neither none nor the
   last of a whole window: a grant that is too small by just that NACK, or too
   small for a status without NACKs, makes it return 0.                    *)
NoStatusFits(grant) ==
  \/ grant = 0 /\ (vr_r = vr_ms \/ WINDOW = 1)
  \/ grant = WINDOW /\ Cardinality(Missing(RX_MOD_BASE(vr_ms))) = WINDOW

(* read_pdu when a status has to be sent: build_status_pdu.  Without a status
   the request stays, except that a grant too small for one without NACKs
   produces nothing and still clears the request if vr_r is missing below vr_ms. *)
build_status_pdu(grant) ==
  /\ do_status /\ ~status_prohibit_timer
  /\ \/ /\ grant > 0 /\ ~NoStatusFits(grant)
        /\ statusCh' = Append(statusCh, StatusPdu(grant - 1))
        /\ status_prohibit_timer' = StatusProhibit
        /\ do_status' = FALSE /\ poll_received' = FALSE
     \/ /\ grant = 0 /\ ~NoStatusFits(grant)
        /\ do_status' = FALSE /\ poll_received' = FALSE
        /\ UNCHANGED <<statusCh, status_prohibit_timer>>
     \/ /\ NoStatusFits(grant)
        /\ UNCHANGED <<pollVars, statusCh, status_prohibit_timer>>
  /\ UNCHANGED <<windowVars, payloadVars, reordering_timer>>

status_prohibit_expired ==
  /\ status_prohibit_timer
  /\ status_prohibit_timer' = FALSE
  /\ UNCHANGED <<windowVars, payloadVars, pollVars, reordering_timer, statusCh>>

(* reestablish: RRC resets MAC with it, which drops what it holds. *)
rx_reestablish ==
  /\ vr_r' = 0 /\ vr_mr' = WINDOW /\ vr_x' = 0 /\ vr_ms' = 0 /\ vr_h' = 0
  /\ rx_window' = <<>> /\ rx_segments' = <<>> /\ rx_sdu' = <<>>
  /\ poll_received' = FALSE /\ do_status' = FALSE
  /\ reordering_timer' = FALSE /\ status_prohibit_timer' = FALSE
  /\ statusCh' = <<>>
  /\ UNCHANGED delivered

-----------------------------------------------------------------------------
(* The receiver on its own: any PDU at any time, any grant. *)

RxNext ==
  \/ \E pdu \in DataPdus : handle_data_pdu(pdu)
  \/ reordering_timer_expired
  \/ \E grant \in StatusGrants : build_status_pdu(grant)
  \/ status_prohibit_expired
  \/ rx_reestablish

RxSpec == RxInit /\ [][RxNext]_rxVars

-----------------------------------------------------------------------------
(* Properties. *)

RxWindowTypeOK ==
  /\ vr_r \in SN /\ vr_mr \in SN /\ vr_x \in SN /\ vr_ms \in SN /\ vr_h \in SN
  /\ DOMAIN rx_window \subseteq SN
  /\ reordering_timer \in BOOLEAN /\ status_prohibit_timer \in BOOLEAN
  /\ poll_received \in BOOLEAN /\ do_status \in BOOLEAN

(* The types of the receiver's state: SNs below MOD, a payload for each SN
   held, a set of segments for each SN received in part.                   *)
RxTypeOK ==
  /\ RxWindowTypeOK
  /\ DOMAIN rx_segments \subseteq SN
  /\ \A sn \in DOMAIN rx_segments : \A s, t \in rx_segments[sn] : s.so = t.so => s = t
  /\ \A i \in 1 .. Len(statusCh) : statusCh[i].ack \in SN /\ statusCh[i].nacks \subseteq SN

(* The state variables keep the order of 36.322 7.1 whatever is received, in
   whatever order and across wrap-around of the SN: vr_r <= vr_ms <= vr_h <=
   vr_mr, counted from vr_r (handle_data_pdu_full, timer_expired).         *)
RxWindowOrder ==
  /\ vr_mr = Add(vr_r, WINDOW)
  /\ RX_MOD_BASE(vr_ms) <= RX_MOD_BASE(vr_h)
  /\ RX_MOD_BASE(vr_h) <= WINDOW

(* rx_window is a ring of WINDOW slots indexed by SN: it only ever holds SNs
   above vr_r and below vr_h, so no two of them share a slot; vr_r and vr_ms
   are the first missing SNs, never held (the loops have run to the end).  *)
RxWindowContents ==
  /\ \A sn \in DOMAIN rx_window : RX_MOD_BASE(sn) < RX_MOD_BASE(vr_h)
  /\ vr_r \notin DOMAIN rx_window
  /\ vr_ms \notin DOMAIN rx_window

(* While the reordering timer runs its vr_x lies in (vr_r, vr_h], and whatever
   vr_ms has passed beyond vr_x has been received: expiry sets vr_ms back to
   vr_x, and this is why it cannot un-report anything.                     *)
ReorderingTimerRange ==
  reordering_timer =>
    /\ vr_x # vr_r
    /\ RX_MOD_BASE(vr_x) <= RX_MOD_BASE(vr_h)
    /\ \A sn \in SN : /\ RX_MOD_BASE(vr_x) <= RX_MOD_BASE(sn)
                       /\ RX_MOD_BASE(sn) < RX_MOD_BASE(vr_ms)
                       => sn \in DOMAIN rx_window

(* A gap below a PDU that was received in full is either reported already
   (below vr_ms) or being timed: the reordering timer never stays stopped with
   such a PDU above vr_ms, so the gap is reported eventually.              *)
GapIsTimed ==
  \A sn \in DOMAIN rx_window :
    RX_MOD_BASE(sn) > RX_MOD_BASE(vr_ms) => reordering_timer

Reestablished == rx_window' = <<>> /\ vr_r' = 0 /\ vr_ms' = 0 /\ vr_h' = 0

(* Neither edge of the window nor the reporting horizon vr_ms ever moves back
   (seen from the old vr_r), except when the bearer is re-established: an ACK
   the peer was given is never taken back.                                 *)
HorizonMonotonic ==
  [][ Reestablished \/ /\ RX_MOD_BASE(vr_ms) <= RX_MOD_BASE(vr_ms')
                       /\ RX_MOD_BASE(vr_h) <= RX_MOD_BASE(vr_h')
                       /\ RX_MOD_BASE(vr_r') <= RX_MOD_BASE(vr_ms') ]_rxVars

(* What get_status_pdu reports is true of the window it was built from, however
   small the grant that truncated it: all SNs from vr_r up to ACK_SN that it
   does not NACK have been received, and none that it NACKs below ACK_SN has. *)
StatusIsTrue ==
  [][ \A st \in {statusCh'[i] : i \in Len(statusCh) + 1 .. Len(statusCh')} :
        /\ RX_MOD_BASE(st.ack) <= RX_MOD_BASE(vr_ms)
        /\ \A sn \in SN : RX_MOD_BASE(sn) < RX_MOD_BASE(st.ack) =>
             (sn \in DOMAIN rx_window <=> sn \notin st.nacks) ]_rxVars

(* The comment over reset_status in get_status_pdu, "valid PDU could be
   generated": the request for a status is cleared only by producing one.  *)
RequestOnlyClearedByStatus ==
  [][ do_status /\ ~do_status' => Reestablished \/ Len(statusCh') > Len(statusCh) ]_rxVars
=============================================================================
