------------------------------ MODULE RlcUmNr ------------------------------
(***************************************************************************)
(* The transmitter and the receiver of an RLC unacknowledged-mode bearer   *)
(* for NR (lib/src/rlc/rlc_um_nr.cc over rlc_um_base.cc).  The operators   *)
(* take the state of one side as a record and return the state after one   *)
(* call of the code, each of which runs under that side's mutex.           *)
(*                                                                         *)
(* An SDU is [id, len, left]: len bytes, of which the last `left' are not  *)
(* sent yet.  A PDU is its header (si, sn, so) and the piece of the SDU it *)
(* carries: len bytes from position `at' of SDU id.                        *)
(***************************************************************************)
EXTENDS Integers, SequencesExt

CONSTANTS UmMod,          \* mod: 64 or 4096
          UM_Window_Size, \* half of it
          Sn12Bits,       \* sn_field_length is 12 bits: one more header byte
          TxQueueLen      \* tx_queue_length

ASSUME UmAssumption ==
    /\ UM_Window_Size \in Nat \ {0}
    /\ UmMod = 2 * UM_Window_Size
    /\ Sn12Bits \in BOOLEAN
    /\ TxQueueLen \in Nat \ {0}

NoSdu == [none |-> TRUE]
NoPdu == [none |-> TRUE]

-----------------------------------------------------------------------------
(* Transmitter *)

TxInit == [TX_Next |-> 0, next_so |-> 0, tx_sdu |-> NoSdu, queue |-> << >>]

sdu_queue_is_full(t) == Len(t.queue) >= TxQueueLen

try_write_sdu(t, sdu) ==
    IF sdu_queue_is_full(t) THEN t ELSE [t EXCEPT !.queue = Append(@, sdu)]

has_data(t) == t.tx_sdu # NoSdu \/ t.queue # << >>

packed_length(si, so) ==
    IF si = "full" THEN 1
    ELSE (IF Sn12Bits THEN 2 ELSE 1) + (IF so # 0 THEN 2 ELSE 0)

(* configure() fills in si and so of the header it measures but not         *)
(* sn_size, which stays at size6bits: the length of a 6-bit header.         *)
head_len_segment == 3

(* Mutant: the offset is not advanced past the piece just sent. *)
NextSoStays(si, so, moved) == so

NextSo(si, so, moved) == IF si = "last" THEN 0 ELSE so + moved

NextTxNext(t, si) == IF si = "last" THEN (t.TX_Next + 1) % UmMod ELSE t.TX_Next

(* build_data_pdu for a grant of nof_bytes >= 3, the least the MAC offers   *)
(* (MIN_RLC_PDU_LEN less the subheader).  A grant too small for the header  *)
(* and two bytes returns after the SDU was taken from the queue.            *)
build_data_pdu(t, nof_bytes) ==
    LET fresh == t.tx_sdu = NoSdu
        sdu   == IF fresh THEN Head(t.queue) ELSE t.tx_sdu
        so    == IF fresh THEN 0 ELSE t.next_so
        si    == IF fresh
                 THEN IF sdu.left <= nof_bytes - 1 THEN "full" ELSE "first"
                 ELSE IF sdu.left <= nof_bytes - head_len_segment THEN "last" ELSE "middle"
        head  == packed_length(si, so)
        moved == IF nof_bytes - head >= sdu.left THEN sdu.left ELSE nof_bytes - head
        taken == [t EXCEPT !.tx_sdu = sdu, !.next_so = so,
                           !.queue = IF fresh THEN Tail(@) ELSE @]
    IN IF nof_bytes <= head + 1
       THEN [tx |-> taken, pdu |-> NoPdu]
       ELSE [tx  |-> [taken EXCEPT
                        !.tx_sdu  = IF moved = sdu.left THEN NoSdu
                                    ELSE [sdu EXCEPT !.left = @ - moved],
                        !.next_so = NextSo(si, so, moved),
                        !.TX_Next = NextTxNext(t, si)],
             pdu |-> [si |-> si, sn |-> t.TX_Next, so |-> so, id |-> sdu.id,
                      at |-> sdu.len - sdu.left, len |-> moved,
                      ends |-> moved = sdu.left]]

(* rlc_um_base_tx::stop, which reestablish calls *)
TxReestablish(t) == TxInit

-----------------------------------------------------------------------------
(* Receiver.  rx_window is the set of SDUs being put together, one entry    *)
(* per SN: the segments not appended yet, one per offset, and of the SDU so *)
(* far the SDUs its bytes come from, in order, and its length.              *)

RxInit == [RX_Next_Reassembly |-> 0, RX_Timer_Trigger |-> 0, RX_Next_Highest |-> 0,
           rx_window |-> {}, reassembly_timer |-> FALSE]

NewEntry(sn) == [sn |-> sn, segments |-> {}, sdu |-> << >>,
                 next_expected_so |-> 0, total_sdu_length |-> 0]

RX_MOD_NR_BASE(r, x) == (x - r.RX_Next_Highest - UM_Window_Size) % UmMod

sn_in_reassembly_window(r, sn) ==
    /\ RX_MOD_NR_BASE(r, r.RX_Next_Highest - UM_Window_Size) <= RX_MOD_NR_BASE(r, sn)
    /\ RX_MOD_NR_BASE(r, sn) < RX_MOD_NR_BASE(r, r.RX_Next_Highest)

sn_invalid_for_rx_buffer(r, sn) ==
    /\ RX_MOD_NR_BASE(r, r.RX_Next_Highest - UM_Window_Size) <= RX_MOD_NR_BASE(r, sn)
    /\ RX_MOD_NR_BASE(r, sn) < RX_MOD_NR_BASE(r, r.RX_Next_Reassembly)

HeldSns(r) == {e.sn : e \in r.rx_window}

has_missing_byte_segment(r, sn) == sn \in HeldSns(r)

EntryOf(r, sn) == CHOOSE e \in r.rx_window : e.sn = sn

(* The body of the loop over the segments of one SN, in order of offset. *)
AppendSegment(e, s) ==
    IF s.so # e.next_expected_so \/ (Len(e.sdu) > 1 /\ e.next_expected_so = e.total_sdu_length)
    THEN e
    ELSE [e EXCEPT !.segments = @ \ {s},
                   !.sdu = Append(@, [id |-> s.id, at |-> s.at, ends |-> s.ends]),
                   !.next_expected_so = @ + s.len]

(* In the order of offset: at place i the one that has i - 1 before it. *)
BySo(segments) ==
    [i \in 1..Cardinality(segments) |->
        CHOOSE s \in segments : Cardinality({t \in segments : t.so < s.so}) = i - 1]

Assembled(e) == FoldLeft(AppendSegment, e, BySo(e.segments))

(* A single segment is not a complete SDU, whatever its length. *)
sdu_complete(e, a) ==
    Len(a.sdu) > 1 /\ a.sdu # e.sdu /\ a.next_expected_so = a.total_sdu_length

(* The numerically first SN held that is past RX_Next_Reassembly. *)
NextReassemblyAfter(r, sn) ==
    LET past == {x \in HeldSns(r) : RX_MOD_NR_BASE(r, x) > RX_MOD_NR_BASE(r, r.RX_Next_Reassembly)}
    IN IF sn # r.RX_Next_Reassembly THEN r.RX_Next_Reassembly
       ELSE IF r.rx_window = {} THEN r.RX_Next_Highest
       ELSE IF past = {} THEN r.RX_Next_Reassembly
       ELSE Min(past)

Delivered(r, sn) ==
    LET erased == [r EXCEPT !.rx_window = {e \in @ : e.sn # sn}]
    IN [erased EXCEPT !.RX_Next_Reassembly = NextReassemblyAfter(erased, sn)]

(* Mutant: the SNs that fall out of the window are kept. *)
DropOutsideNothing(r) == r

DropOutside(r) == [r EXCEPT !.rx_window = {e \in @ : sn_in_reassembly_window(r, e.sn)}]

(* An SN at or past the upper edge moves the window up to it. *)
WindowMoved(r, sn) ==
    LET moved == DropOutside([r EXCEPT !.RX_Next_Highest = (sn + 1) % UmMod])
    IN IF sn_in_reassembly_window(moved, moved.RX_Next_Reassembly) \/ moved.rx_window = {}
       THEN moved
       ELSE [moved EXCEPT !.RX_Next_Reassembly = Min(HeldSns(moved))]

NeedsTimer(r) ==
    LET next == RX_MOD_NR_BASE(r, r.RX_Next_Reassembly + 1)
    IN \/ RX_MOD_NR_BASE(r, r.RX_Next_Highest) > next
       \/ /\ RX_MOD_NR_BASE(r, r.RX_Next_Highest) = next
          /\ has_missing_byte_segment(r, r.RX_Next_Reassembly)

StartTimer(r) ==
    IF ~r.reassembly_timer /\ NeedsTimer(r)
    THEN [r EXCEPT !.reassembly_timer = TRUE, !.RX_Timer_Trigger = r.RX_Next_Highest]
    ELSE r

(* The first comparison is of the plain numbers, without the modulus. *)
StopTimer(r) ==
    [r EXCEPT !.reassembly_timer =
        /\ @
        /\ r.RX_Timer_Trigger > r.RX_Next_Reassembly
        /\ \/ sn_in_reassembly_window(r, r.RX_Timer_Trigger)
           \/ r.RX_Timer_Trigger = r.RX_Next_Highest
        /\ \/ r.RX_Next_Highest # r.RX_Next_Reassembly + 1
           \/ has_missing_byte_segment(r, r.RX_Next_Reassembly)]

UpdateTimer(r) == StartTimer(StopTimer(r))

(* handle_data_pdu and the handle_rx_buffer_update it ends with.  The       *)
(* result holds the SDU passed to PDCP, if any.                             *)
PlaceSegment(r, pdu) ==
    LET sn  == pdu.sn
        old == IF sn \in HeldSns(r) THEN EntryOf(r, sn) ELSE NewEntry(sn)
        new == [so |-> pdu.so, len |-> pdu.len, id |-> pdu.id, at |-> pdu.at, ends |-> pdu.ends]
    IN [old EXCEPT
          !.segments = IF \E s \in @ : s.so = pdu.so THEN @ ELSE @ \cup {new},
          !.total_sdu_length = IF pdu.si = "last" THEN pdu.so + pdu.len ELSE @]

handle_data_pdu(r, pdu) ==
    IF pdu.si = "full"
    THEN [rx |-> r, sdu |-> << [id |-> pdu.id, at |-> pdu.at, ends |-> pdu.ends] >>]
    ELSE IF sn_invalid_for_rx_buffer(r, pdu.sn)
    THEN [rx |-> r, sdu |-> << >>]
    ELSE LET placed  == PlaceSegment(r, pdu)
             grown   == Assembled(placed)
             held    == [r EXCEPT !.rx_window = {e \in @ : e.sn # pdu.sn} \cup {grown}]
             done    == sdu_complete(placed, grown)
             updated == IF done THEN Delivered(held, pdu.sn)
                        ELSE IF sn_in_reassembly_window(held, pdu.sn) THEN held
                        ELSE WindowMoved(held, pdu.sn)
         IN [rx |-> UpdateTimer(updated), sdu |-> IF done THEN grown.sdu ELSE << >>]

DropBelow(r) ==
    [r EXCEPT !.rx_window = {e \in @ : RX_MOD_NR_BASE(r, e.sn) >= RX_MOD_NR_BASE(r, r.RX_Next_Reassembly)}]

(* timer_expired: the loop takes RX_Next_Reassembly from RX_Timer_Trigger   *)
(* up to RX_Next_Highest, past SNs that are not reassembled yet.            *)
timer_expired(r) ==
    LET below == RX_MOD_NR_BASE(r, r.RX_Timer_Trigger) < RX_MOD_NR_BASE(r, r.RX_Next_Highest)
        moved == [r EXCEPT !.reassembly_timer = FALSE,
                           !.RX_Next_Reassembly = IF below THEN r.RX_Next_Highest ELSE r.RX_Timer_Trigger]
    IN StartTimer(DropBelow(moved))

(* rlc_um_nr_rx::reestablish *)
RxReestablish(r) == RxInit

=============================================================================
