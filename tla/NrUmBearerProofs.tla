-------------------------- MODULE NrUmBearerProofs --------------------------
(***************************************************************************)
(* What an NR bearer without acknowledgements keeps, for any SN lengths,   *)
(* window sizes, SDU length, grants and number of HARQ processes: every    *)
(* segment says what it carries, what reaches the gateway is a whole SDU   *)
(* deciphered with the right COUNT, in order and once, and whatever PDCP   *)
(* holds back is timed.                                                    *)
(*                                                                         *)
(* First PDCP: a step of the receiver takes a PDU that is right, or is     *)
(* rejected, to a state in which the queue is right.  Then the types of    *)
(* RLC, and that its headers are true.  Then that it never puts an SDU     *)
(* together from two: an SN that comes again finds neither an entry of the *)
(* reassembly window nor a segment in a HARQ process with another SDU.     *)
(***************************************************************************)
EXTENDS NrUmBearer, TLAPS, WellFoundedInduction, FiniteSetTheorems, FunctionTheorems, SequenceTheorems

-----------------------------------------------------------------------------
(* Sets of numbers. *)
(* A non-empty set of natural numbers has a least element. *)
LEMMA LeastElement ==
  ASSUME NEW S \in SUBSET Nat, NEW e \in S
  PROVE  \E x \in S : \A y \in S : x <= y
  <1>1. IsWellFoundedOn(OpToRel(<, Nat), Nat)
    BY NatLessThanWellFounded
  <1>2. PICK x \in S : \A y \in S : ~(<<y, x>> \in OpToRel(<, Nat))
    BY <1>1, WFMin
  <1>3. \A y \in S : ~(y < x)
    BY <1>2 DEF OpToRel
  <1> QED
    BY <1>3

-----------------------------------------------------------------------------
(* The reordering queue: every SDU is filed under a COUNT of its own. *)
Filed(q) ==
  /\ IsFiniteSet(q)
  /\ \A e \in q : e.at \in Nat
  /\ \A e, f \in q : e.at = f.at => e = f

LEMMA FiledSubset ==
  ASSUME NEW q, Filed(q), NEW s \in SUBSET q
  PROVE  Filed(s)
  <1>1. IsFiniteSet(s)
    BY FS_Subset DEF Filed
  <1> QED
    BY <1>1 DEF Filed

LEMMA FiledAdd ==
  ASSUME NEW q, Filed(q), NEW x, x.at \in Nat, \A e \in q : e.at # x.at
  PROVE  Filed(q \union {x})
  <1>1. IsFiniteSet(q \union {x})
    BY FS_AddElement DEF Filed
  <1> QED
    BY <1>1 DEF Filed

(* The consecutive COUNTs from `from' on end before the first that is not filed, and
   there are as many of them.                                               *)
LEMMA ConsecutiveRun ==
  ASSUME NEW q, Filed(q), NEW from \in Nat
  PROVE  \E end \in Nat :
           /\ from <= end
           /\ Consecutive(q, from) = {e \in q : from <= e.at /\ e.at < end}
           /\ \A e \in q : e.at # end
           /\ Cardinality(Consecutive(q, from)) = end - from
           /\ from < end => \E e \in q : e.at = end - 1
  <1> DEFINE T == {n \in Nat : n >= from /\ \A e \in q : e.at # n}
  <1>1. \E b \in Nat : b >= from /\ \A e \in q : e.at # b
    <2>1. SUFFICES ASSUME \A b \in Nat : b >= from => \E e \in q : e.at = b
                   PROVE  FALSE
      OBVIOUS
    <2> DEFINE N == Cardinality(q)
               h == [b \in from .. from + N |-> CHOOSE e \in q : e.at = b]
    <2>2. N \in Nat
      BY FS_CardinalityType DEF Filed
    <2> HIDE DEF N
    <2>3. \A b \in from .. from + N : h[b] \in q /\ h[b].at = b
      BY <2>1, <2>2
    <2>4. h \in [from .. from + N -> q]
      BY <2>3
    <2>5. IsFiniteSet(from .. from + N) /\ Cardinality(from .. from + N) = N + 1
      BY <2>2, FS_Interval
    <2> HIDE DEF h
    <2>6. PICK x, y \in from .. from + N : x # y /\ h[x] = h[y]
      BY <2>2, <2>4, <2>5, FS_PigeonHole DEF N, Filed
    <2> QED
      BY <2>3, <2>6
  <1>2. T \in SUBSET Nat /\ T # {}
    BY <1>1
  <1> HIDE DEF T
  <1>3. PICK end \in T : \A m \in T : end <= m
    BY <1>2, LeastElement
  <1>4. end \in Nat /\ from <= end /\ \A e \in q : e.at # end
    BY <1>3 DEF T
  <1>5. ASSUME NEW c \in Nat, from <= c, c < end
        PROVE  \E e \in q : e.at = c
    <2>1. c \notin T
      BY <1>3, <1>4, <1>5
    <2> QED
      BY <1>5, <2>1 DEF T
  <1>6. Consecutive(q, from) = {e \in q : from <= e.at /\ e.at < end}
    <2>1. ASSUME NEW e \in q, from <= e.at, e.at < end
          PROVE  e \in Consecutive(q, from)
      <3>1. \A c \in from .. e.at : c \in Nat /\ from <= c /\ c < end
        BY <1>4, <2>1 DEF Filed
      <3>2. \A c \in from .. e.at : \E f \in q : f.at = c
        BY <1>5, <3>1
      <3> QED
        BY <2>1, <3>2 DEF Consecutive, Filed
    <2>2. ASSUME NEW e \in Consecutive(q, from)
          PROVE  e \in q /\ from <= e.at /\ e.at < end
      <3>1. e \in q /\ e.at >= from /\ \A c \in from .. e.at : \E f \in q : f.at = c
        BY <2>2 DEF Consecutive
      <3>2. e.at \in Nat
        BY <3>1 DEF Filed
      <3>3. end \notin from .. e.at
        BY <1>4, <3>1
      <3> QED
        BY <1>4, <3>1, <3>2, <3>3
    <2> QED
      BY <2>1, <2>2
  <1> DEFINE run == Consecutive(q, from)
             g == [c \in from .. end - 1 |-> CHOOSE e \in q : e.at = c]
  <1>7. \A c \in from .. end - 1 : c \in Nat /\ from <= c /\ c < end
    BY <1>4
  <1>8. \A c \in from .. end - 1 : g[c] \in q /\ g[c].at = c
    BY <1>5, <1>7
  <1>9. \A c \in from .. end - 1 : g[c] \in run
    BY <1>6, <1>7, <1>8
  <1>10. ASSUME NEW e \in run PROVE \E c \in from .. end - 1 : g[c] = e
    <2>1. e \in q /\ e.at \in Nat /\ e.at \in from .. end - 1
      BY <1>4, <1>6 DEF Filed
    <2>2. g[e.at] = e
      BY <1>8, <2>1 DEF Filed
    <2> QED
      BY <2>1, <2>2
  <1> HIDE DEF g
  <1>11. g \in Bijection(from .. end - 1, run)
    <2>1. g \in [from .. end - 1 -> run]
      BY <1>9 DEF g
    <2>2. \A a, b \in from .. end - 1 : g[a] = g[b] => a = b
      BY <1>8
    <2>3. g \in Injection(from .. end - 1, run)
      BY <2>1, <2>2 DEF Injection, IsInjective
    <2>4. g \in Surjection(from .. end - 1, run)
      BY <2>1, <1>10 DEF Surjection
    <2> QED
      BY <2>3, <2>4 DEF Bijection
  <1>12. Cardinality(run) = end - from
    <2>1. ExistsBijection(from .. end - 1, run)
      BY <1>11 DEF ExistsBijection
    <2>2. IsFiniteSet(from .. end - 1) /\ Cardinality(from .. end - 1) = end - from
      BY <1>4, FS_Interval
    <2> QED
      BY <2>1, <2>2, FS_Bijection
  <1>13. from < end => \E e \in q : e.at = end - 1
    BY <1>4, <1>5
  <1> QED
    BY <1>4, <1>6, <1>12, <1>13

(* The elements of a finite set, ranked by a key of their own: every rank is taken. *)
LEMMA Ranked ==
  ASSUME NEW S, IsFiniteSet(S), NEW key \in [S -> Nat],
         \A e, f \in S : key[e] = key[f] => e = f
  PROVE  /\ Cardinality(S) \in Nat
         /\ \A e \in S : Cardinality({f \in S : key[f] < key[e]}) \in Nat
         /\ \A e, f \in S : key[e] < key[f] =>
              Cardinality({x \in S : key[x] < key[e]}) < Cardinality({x \in S : key[x] < key[f]})
         /\ \A i \in 1 .. Cardinality(S) :
              \E e \in S : Cardinality({f \in S : key[f] < key[e]}) = i - 1
  <1> DEFINE N == Cardinality(S)
             B(e) == {f \in S : key[f] < key[e]}
             r == [e \in S |-> Cardinality(B(e))]
  <1>1. N \in Nat
    BY FS_CardinalityType
  <1>2. \A e \in S : IsFiniteSet(B(e)) /\ Cardinality(B(e)) \in Nat
    BY FS_Subset, FS_CardinalityType
  <1>3. ASSUME NEW e \in S, NEW f \in S, key[e] < key[f]
        PROVE  Cardinality(B(e)) < Cardinality(B(f))
    <2>1. B(e) \in SUBSET B(f) /\ e \in B(f) /\ e \notin B(e)
      BY <1>3
    <2>2. Cardinality(B(e)) <= Cardinality(B(f)) /\ Cardinality(B(e)) # Cardinality(B(f))
      BY <1>2, <2>1, FS_Subset
    <2> QED
      BY <1>2, <2>2
  <1>4. ASSUME NEW e \in S
        PROVE  Cardinality(B(e)) \in 0 .. N - 1
    <2>1. B(e) \in SUBSET S /\ e \notin B(e)
      OBVIOUS
    <2>2. Cardinality(B(e)) <= N /\ Cardinality(B(e)) # N
      BY <2>1, FS_Subset
    <2> QED
      BY <1>1, <1>2, <2>2
  <1>5. \A e \in S : r[e] \in 0 .. N - 1
    BY <1>4
  <1>6. ASSUME NEW e \in S, NEW f \in S, r[e] = r[f]
        PROVE  e = f
    <2>1. Cardinality(B(e)) = Cardinality(B(f)) /\ Cardinality(B(e)) \in Nat
      BY <1>2, <1>6
    <2> HIDE DEF B, r
    <2>2. ~(key[e] < key[f]) /\ ~(key[f] < key[e])
      BY <1>3, <2>1
    <2>3. key[e] \in Nat /\ key[f] \in Nat
      OBVIOUS
    <2>4. key[e] = key[f]
      BY <2>2, <2>3
    <2> QED
      BY <2>4
  <1>7. r \in Injection(S, 0 .. N - 1)
    <2>1. r \in [S -> 0 .. N - 1]
      BY <1>5
    <2>2. IsInjective(r)
      BY <1>6, <2>1 DEF IsInjective
    <2> QED
      BY <2>1, <2>2 DEF Injection
  <1>8. IsFiniteSet(0 .. N - 1) /\ Cardinality(0 .. N - 1) = N
    BY <1>1, FS_Interval
  <1>9. r \in Surjection(S, 0 .. N - 1)
    <2> HIDE DEF r, N
    <2>1. Cardinality(S) = Cardinality(0 .. N - 1)
      BY <1>8 DEF N
    <2> QED
      BY <1>7, <1>8, <2>1, FS_Injection
  <1>10. \A k \in 0 .. N - 1 : \E e \in S : r[e] = k
    BY <1>9 DEF Surjection
  <1>11. ASSUME NEW i \in 1 .. N
         PROVE  \E e \in S : Cardinality(B(e)) = i - 1
    <2>1. i - 1 \in 0 .. N - 1
      BY <1>1
    <2>2. PICK e \in S : r[e] = i - 1
      BY <1>10, <2>1
    <2> QED
      BY <2>2
  <1> QED
    BY <1>1, <1>2, <1>3, <1>11

(* QueueSort is the set, in the order of COUNT. *)
LEMMA QueueSorted ==
  ASSUME NEW q, Filed(q)
  PROVE  /\ QueueSort(q) \in Seq(q) /\ Len(QueueSort(q)) = Cardinality(q)
         /\ \A i, j \in 1 .. Len(QueueSort(q)) : i < j => QueueSort(q)[i].at < QueueSort(q)[j].at
  <1> DEFINE N == Cardinality(q)
             B(e) == {f \in q : f.at < e.at}
             key == [e \in q |-> e.at]
             s == QueueSort(q)
  <1>1. /\ IsFiniteSet(q) /\ key \in [q -> Nat]
        /\ \A e, f \in q : key[e] = key[f] => e = f
    BY DEF Filed
  <1>2. \A e \in q : {f \in q : key[f] < key[e]} = B(e) /\ key[e] = e.at
    OBVIOUS
  <1>3. /\ N \in Nat
        /\ \A e \in q : Cardinality(B(e)) \in Nat
        /\ \A e, f \in q : e.at < f.at => Cardinality(B(e)) < Cardinality(B(f))
        /\ \A i \in 1 .. N : \E e \in q : Cardinality(B(e)) = i - 1
    <2> HIDE DEF key, B
    <2>1. /\ N \in Nat
          /\ \A e \in q : Cardinality({f \in q : key[f] < key[e]}) \in Nat
          /\ \A e, f \in q : key[e] < key[f] =>
               Cardinality({x \in q : key[x] < key[e]}) < Cardinality({x \in q : key[x] < key[f]})
          /\ \A i \in 1 .. N : \E e \in q : Cardinality({f \in q : key[f] < key[e]}) = i - 1
      BY <1>1, Ranked
    <2> QED
      BY <1>2, <2>1
  <1>4. ASSUME NEW i \in 1 .. N
        PROVE  s[i] \in q /\ Cardinality(B(s[i])) = i - 1
    <2>1. s[i] = CHOOSE e \in q : Cardinality(B(e)) = i - 1
      BY DEF QueueSort
    <2> HIDE DEF s, B
    <2> QED
      BY <1>3, <2>1
  <1>5. s \in [1 .. N -> q]
    BY <1>4 DEF QueueSort
  <1>6. s \in Seq(q) /\ Len(s) = N
    <2> HIDE DEF s, N
    <2> QED
      BY <1>3, <1>5, SeqDef, LenProperties
  <1>7. ASSUME NEW i \in 1 .. N, NEW j \in 1 .. N, i < j
        PROVE  s[i].at < s[j].at
    <2>1. s[i] \in q /\ s[j] \in q /\ Cardinality(B(s[i])) < Cardinality(B(s[j]))
      BY <1>4, <1>7
    <2>2. s[i].at \in Nat /\ s[j].at \in Nat
      BY <2>1 DEF Filed
    <2> HIDE DEF s, B
    <2>3. ~(s[j].at < s[i].at)
      BY <1>3, <2>1
    <2>4. s[i] # s[j]
      BY <1>3, <2>1
    <2>5. s[i].at # s[j].at
      BY <2>1, <2>4 DEF Filed
    <2> QED
      BY <2>2, <2>3, <2>5
  <1> QED
    BY <1>6, <1>7

-----------------------------------------------------------------------------
(* Division, and the COUNT that is guessed from an SN. *)
LEMMA DivMod ==
  ASSUME NEW m \in Nat \ {0}, NEW a \in Int
  PROVE  a \div m \in Int /\ a % m \in 0 .. m - 1 /\ a = (a \div m) * m + (a % m)
  OBVIOUS

LEMMA ModUnique ==
  ASSUME NEW m \in Nat \ {0}, NEW q \in Int, NEW r \in 0 .. m - 1
  PROVE  (q * m + r) % m = r
  OBVIOUS

LEMMA ModSmall ==
  ASSUME NEW m \in Nat \ {0}, NEW a \in 0 .. m - 1
  PROVE  a % m = a
  OBVIOUS

LEMMA TimesMonotone ==
  ASSUME NEW m \in Nat, NEW a \in Int, NEW b \in Int, a <= b
  PROVE  a * m <= b * m
  <1>1. b - a \in Nat /\ (b - a) * m \in Nat
    OBVIOUS
  <1>2. (b - a) * m = b * m - a * m
    OBVIOUS
  <1>3. a * m \in Int /\ b * m \in Int
    OBVIOUS
  <1> QED
    BY <1>1, <1>2, <1>3

LEMMA WindowHalf == window_size \in Nat /\ SnMod = 2 * window_size /\ window_size > 0
  BY PdcpNrAssumption DEF window_size

LEMMA CountParts ==
  ASSUME NEW c \in Nat
  PROVE  HFN(c) \in Int /\ SN(c) \in 0 .. SnMod - 1 /\ c = HFN(c) * SnMod + SN(c)
  <1>1. SnMod \in Nat \ {0} /\ c \in Int
    BY PdcpNrAssumption
  <1> QED
    BY <1>1, DivMod DEF HFN, SN

LEMMA CountOfParts ==
  ASSUME NEW c \in Nat, c < CountMod
  PROVE  COUNT(HFN(c), SN(c)) = c
  <1> DEFINE k == HFN(c)
             n == SN(c)
             S == SnMod
  <1>1. S \in Nat \ {0} /\ HfnMod \in Nat \ {0} /\ CountMod = HfnMod * S
    BY PdcpNrAssumption DEF CountMod
  <1>2. k \in Int /\ n \in 0 .. S - 1 /\ c = k * S + n
    BY CountParts
  <1> HIDE DEF k, n
  <1>3. ~(k <= -1)
    <2> SUFFICES ASSUME k <= -1 PROVE FALSE
      OBVIOUS
    <2>1. k * S <= (-1) * S
      BY <1>1, <1>2, TimesMonotone
    <2> QED
      BY <1>1, <1>2, <2>1
  <1>4. ~(HfnMod <= k)
    <2> SUFFICES ASSUME HfnMod <= k PROVE FALSE
      OBVIOUS
    <2>1. HfnMod * S <= k * S
      BY <1>1, <1>2, TimesMonotone
    <2> QED
      BY <1>1, <1>2, <2>1
  <1>5. k % HfnMod = k
    BY <1>1, <1>2, <1>3, <1>4, ModSmall
  <1> QED
    BY <1>2, <1>5 DEF COUNT, k, n

LEMMA CountType ==
  ASSUME NEW hfn \in Int, NEW sn \in 0 .. SnMod - 1
  PROVE  COUNT(hfn, sn) \in 0 .. CountMod - 1
  <1> DEFINE k == hfn % HfnMod
             S == SnMod
  <1>1. S \in Nat \ {0} /\ HfnMod \in Nat \ {0} /\ CountMod = HfnMod * S
    BY PdcpNrAssumption DEF CountMod
  <1>2. k \in 0 .. HfnMod - 1
    BY <1>1, DivMod
  <1> HIDE DEF k
  <1>3. k * S <= (HfnMod - 1) * S /\ (HfnMod - 1) * S = HfnMod * S - S /\ 0 * S <= k * S /\ 0 * S = 0
    BY <1>1, <1>2, TimesMonotone
  <1>4. k * S \in Int /\ HfnMod * S \in Int
    BY <1>1, <1>2
  <1> QED
    BY <1>1, <1>3, <1>4 DEF COUNT, k

(* Half the SNs around RX_DELIV are told apart: there the receiver guesses the COUNT
   the PDU was ciphered with.                                               *)
LEMMA GuessIsRight ==
  ASSUME NEW c \in Nat, c < CountMod, rx_deliv \in Nat,
         c < rx_deliv + window_size, rx_deliv <= c + window_size
  PROVE  COUNT(RcvdHfn(SN(c)), SN(c)) = c
  <1> DEFINE S == SnMod
             W == window_size
             k == HFN(c)
             n == SN(c)
             h == HFN(rx_deliv)
             s == SN(rx_deliv)
  <1>1. S \in Nat \ {0} /\ W \in Nat /\ S = 2 * W
    BY WindowHalf, PdcpNrAssumption
  <1>2. k \in Int /\ n \in 0 .. S - 1 /\ c = k * S + n
    BY CountParts
  <1>3. h \in Int /\ s \in 0 .. S - 1 /\ rx_deliv = h * S + s
    BY CountParts
  <1>4. RcvdHfn(SN(c)) = IF n < s - W THEN h + 1 ELSE IF n >= s + W THEN h - 1 ELSE h
    BY DEF RcvdHfn
  <1>5. c < rx_deliv + W /\ rx_deliv <= c + W
    OBVIOUS
  <1> HIDE DEF S, W, k, n, h, s
  <1>6. k * S \in Int /\ h * S \in Int
    BY <1>1, <1>2, <1>3
  <1>7. (h + 2) * S = h * S + 2 * S /\ (h + 1) * S = h * S + S
        /\ (h - 2) * S = h * S - 2 * S /\ (h - 1) * S = h * S - S
    BY <1>1, <1>3
  <1>8. /\ h + 2 <= k => (h + 2) * S <= k * S
        /\ h + 1 <= k => (h + 1) * S <= k * S
        /\ k <= h => k * S <= h * S
        /\ h <= k => h * S <= k * S
        /\ k <= h - 1 => k * S <= (h - 1) * S
        /\ k <= h - 2 => k * S <= (h - 2) * S
    BY <1>1, <1>2, <1>3, TimesMonotone
  <1>9. RcvdHfn(SN(c)) = k
    <2>1. CASE n < s - W
      <3>1. ~(k <= h) /\ ~(h + 2 <= k)
        BY <1>1, <1>2, <1>3, <1>5, <1>6, <1>7, <1>8, <2>1
      <3> QED
        BY <1>2, <1>3, <1>4, <2>1, <3>1
    <2>2. CASE n >= s + W
      <3>1. ~(h <= k) /\ ~(k <= h - 2)
        BY <1>1, <1>2, <1>3, <1>5, <1>6, <1>7, <1>8, <2>2
      <3> QED
        BY <1>1, <1>2, <1>3, <1>4, <2>2, <3>1
    <2>3. CASE ~(n < s - W) /\ ~(n >= s + W)
      <3>1. ~(h + 1 <= k) /\ ~(k <= h - 1)
        BY <1>1, <1>2, <1>3, <1>5, <1>6, <1>7, <1>8, <2>3
      <3> QED
        BY <1>2, <1>3, <1>4, <2>3, <3>1
    <2> QED
      BY <2>1, <2>2, <2>3
  <1> QED
    BY <1>9, CountOfParts DEF k, n

-----------------------------------------------------------------------------
(* What goes up to the gateway is in the order of COUNT. *)
Ascending(s) == \A i, j \in 1 .. Len(s) : i < j => s[i].at < s[j].at

LEMMA AscendingConcat ==
  ASSUME NEW S, NEW T, NEW a \in Seq(S), NEW b \in Seq(T), Ascending(a), Ascending(b),
         NEW from \in Nat, \A e \in S : e.at \in Nat /\ e.at < from,
         \A e \in T : e.at \in Nat /\ from <= e.at
  PROVE  a \o b \in Seq(S \union T) /\ Ascending(a \o b)
  <1>1. a \in Seq(S \union T) /\ b \in Seq(S \union T)
    BY SeqMonotonic
  <1>2. /\ a \o b \in Seq(S \union T) /\ Len(a \o b) = Len(a) + Len(b)
        /\ \A i \in 1 .. Len(a) + Len(b) : (a \o b)[i] = IF i <= Len(a) THEN a[i] ELSE b[i - Len(a)]
    BY <1>1, ConcatProperties
  <1>3. Len(a) \in Nat /\ Len(b) \in Nat
    BY LenProperties
  <1>4. (\A i \in 1 .. Len(a) : a[i] \in S) /\ (\A i \in 1 .. Len(b) : b[i] \in T)
    BY ElementOfSeq
  <1> DEFINE c == a \o b
  <1> HIDE DEF c
  <1>5. ASSUME NEW i \in 1 .. Len(a) + Len(b), NEW j \in 1 .. Len(a) + Len(b), i < j
        PROVE  c[i].at < c[j].at
    <2>1. CASE j <= Len(a)
      <3>1. i \in 1 .. Len(a) /\ j \in 1 .. Len(a) /\ i <= Len(a) /\ c[i] = a[i] /\ c[j] = a[j]
        BY <1>2, <1>3, <1>5, <2>1 DEF c
      <3> QED
        BY <1>5, <3>1 DEF Ascending
    <2>2. CASE Len(a) < i
      <3>1. /\ i - Len(a) \in 1 .. Len(b) /\ j - Len(a) \in 1 .. Len(b) /\ i - Len(a) < j - Len(a)
            /\ ~(i <= Len(a)) /\ ~(j <= Len(a))
        BY <1>3, <1>5, <2>2
      <3>2. c[i] = b[i - Len(a)] /\ c[j] = b[j - Len(a)]
        BY <1>2, <3>1 DEF c
      <3> QED
        BY <3>1, <3>2 DEF Ascending
    <2>3. CASE i <= Len(a) /\ Len(a) < j
      <3>1. i \in 1 .. Len(a) /\ j - Len(a) \in 1 .. Len(b) /\ ~(j <= Len(a))
        BY <1>3, <1>5, <2>3
      <3>2. c[i] = a[i] /\ c[j] = b[j - Len(a)]
        BY <1>2, <2>3, <3>1 DEF c
      <3>3. c[i] \in S /\ c[j] \in T
        BY <1>4, <3>1, <3>2
      <3>4. c[i].at \in Nat /\ c[j].at \in Nat /\ c[i].at < from /\ from <= c[j].at
        BY <3>3
      <3> QED
        BY <3>4
    <2> QED
      BY <1>3, <1>5, <2>1, <2>2, <2>3
  <1>6. Ascending(c)
    BY <1>2, <1>5 DEF c, Ascending
  <1> QED
    BY <1>2, <1>6 DEF c

(* What deliver_all_consecutive_counts does: RX_DELIV moves past what is passed up, no
   further than RX_NEXT, and what stays is behind a gap.                    *)
LEMMA DeliverStep ==
  ASSUME NEW first, NEW q, NEW from \in Nat, NEW b \in Nat,
         Filed(first), Filed(q), \A e \in first : e.at < from,
         \A e \in q : from <= e.at /\ e.at < b,
         from <= b, b < CountMod, rx_overflow = FALSE,
         DeliverFrom(first, q, from)
  PROVE  /\ rx_deliv' \in Nat /\ from <= rx_deliv' /\ rx_deliv' <= b
         /\ rx_overflow' = FALSE
         /\ reorder_queue' \in SUBSET q /\ Filed(reorder_queue')
         /\ \A e \in reorder_queue' : rx_deliv' < e.at
         /\ (\E e \in q : e.at = from) => from < rx_deliv'
         /\ gw' \in Seq(first \union q) /\ Ascending(gw')
         /\ \A i \in 1 .. Len(gw') : gw'[i].at \in Nat /\ gw'[i].at < rx_deliv'
  <1> DEFINE run == Consecutive(q, from)
  <1>1. PICK end \in Nat :
          /\ from <= end
          /\ run = {e \in q : from <= e.at /\ e.at < end}
          /\ \A e \in q : e.at # end
          /\ Cardinality(run) = end - from
          /\ from < end => \E e \in q : e.at = end - 1
    BY ConsecutiveRun
  <1>2. Run(q, from) = run
    BY DEF Run
  <1> HIDE DEF run
  <1>3. /\ gw' = QueueSort(first) \o QueueSort(run)
        /\ reorder_queue' = q \ run
        /\ rx_deliv' = end % CountMod
        /\ rx_overflow' = (rx_overflow \/ end = CountMod)
    <2>1. from + Cardinality(run) = end
      BY <1>1
    <2> QED
      BY <1>2, <2>1 DEF DeliverFrom
  <1>4. end <= b
    <2>1. CASE from < end
      <3>1. PICK e \in q : e.at = end - 1
        BY <1>1, <2>1
      <3> QED
        BY <3>1
    <2>2. CASE ~(from < end)
      BY <1>1, <2>2
    <2> QED
      BY <2>1, <2>2
  <1>5. CountMod \in Nat \ {0}
    BY PdcpNrAssumption DEF CountMod
  <1>6. rx_deliv' = end /\ rx_overflow' = FALSE
    <2>1. end \in 0 .. CountMod - 1
      BY <1>4, <1>5
    <2>2. end % CountMod = end
      BY <1>5, <2>1, ModSmall
    <2>3. end # CountMod
      BY <1>5, <2>1
    <2>4. rx_overflow' = FALSE
      BY <1>3, <2>3, Zenon
    <2> QED
      BY <1>3, <2>2, <2>4
  <1>7. run \in SUBSET q /\ Filed(run) /\ Filed(q \ run)
    BY <1>1, FiledSubset
  <1>8. \A e \in q \ run : rx_deliv' < e.at
    BY <1>1, <1>6 DEF Filed
  <1>9. (\E e \in q : e.at = from) => from < rx_deliv'
    BY <1>1, <1>6
  <1>10. /\ QueueSort(first) \in Seq(first) /\ Ascending(QueueSort(first))
         /\ QueueSort(run) \in Seq(run) /\ Ascending(QueueSort(run))
    BY <1>7, QueueSorted DEF Ascending
  <1>11. (\A e \in first : e.at \in Nat /\ e.at < from) /\ (\A e \in run : e.at \in Nat /\ from <= e.at)
    BY <1>1, <1>7 DEF Filed
  <1>12. gw' \in Seq(first \union run) /\ Ascending(gw')
    BY <1>3, <1>10, <1>11, AscendingConcat
  <1>13. gw' \in Seq(first \union q)
    <2>1. first \union run \in SUBSET (first \union q)
      BY <1>7
    <2> QED
      BY <1>12, <2>1, SeqMonotonic
  <1>14. \A e \in first \union run : e.at \in Nat /\ e.at < rx_deliv'
    BY <1>1, <1>6, <1>11
  <1>15. \A i \in 1 .. Len(gw') : gw'[i] \in first \union run
    BY <1>12, ElementOfSeq
  <1> QED
    BY <1>1, <1>3, <1>4, <1>6, <1>7, <1>8, <1>9, <1>12, <1>13, <1>14, <1>15

-----------------------------------------------------------------------------
(* A step of PDCP. *)
Intact(e) == e.at = e.pdu.count /\ e.pdu.whole

(* The receiving entity: nothing is ahead of the transmitter, everything held back is
   filed under the COUNT it was sent with, and nothing passed up is ahead of RX_DELIV. *)
PdcpRxOK ==
  /\ rx_next \in Nat /\ rx_deliv \in Nat /\ rx_reord \in Nat
  /\ reordering_timer \in BOOLEAN /\ rx_overflow = FALSE
  /\ rx_deliv <= rx_next /\ rx_next <= tx_next /\ tx_next <= rx_deliv + window_size
  /\ Filed(reorder_queue) /\ HeldBackIsTimed
  /\ \A e \in reorder_queue : Intact(e)
  /\ \A k \in DOMAIN gw : Intact(gw[k])
  /\ last \in Int /\ last < rx_deliv

(* The step of DeliveredInOrder. *)
InOrderStep ==
  \A k \in DOMAIN gw' :
    gw'[k].pdu.count > (IF k = 1 THEN last ELSE gw'[k - 1].pdu.count)

(* What DeliverStep passes up is in order, and the last of it becomes `last'. *)
LEMMA PassedUpInOrder ==
  ASSUME NEW Q, gw' \in Seq(Q), \A e \in Q : Intact(e) /\ rx_deliv <= e.at,
         Ascending(gw'), \A i \in 1 .. Len(gw') : gw'[i].at \in Nat /\ gw'[i].at < rx_deliv',
         rx_deliv \in Nat, rx_deliv' \in Nat, rx_deliv <= rx_deliv',
         last \in Int, last < rx_deliv, PassedUp
  PROVE  /\ InOrderStep /\ \A k \in DOMAIN gw' : Intact(gw'[k])
         /\ last' \in Int /\ last' < rx_deliv'
  <1>1. Len(gw') \in Nat /\ DOMAIN gw' = 1 .. Len(gw')
    BY LenProperties
  <1>2. \A k \in 1 .. Len(gw') : gw'[k] \in Q
    BY ElementOfSeq
  <1>3. \A k \in 1 .. Len(gw') : Intact(gw'[k]) /\ gw'[k].pdu.count = gw'[k].at /\ rx_deliv <= gw'[k].at
    BY <1>2 DEF Intact
  <1>4. ASSUME NEW k \in 1 .. Len(gw')
        PROVE  gw'[k].pdu.count > (IF k = 1 THEN last ELSE gw'[k - 1].pdu.count)
    <2>1. CASE k = 1
      BY <1>3, <2>1
    <2>2. CASE k # 1
      <3>1. k - 1 \in 1 .. Len(gw') /\ k - 1 < k
        BY <1>1, <2>2
      <3>2. gw'[k - 1].at < gw'[k].at
        BY <3>1 DEF Ascending
      <3> QED
        BY <1>3, <2>2, <3>1, <3>2
    <2> QED
      BY <2>1, <2>2
  <1>5. last' \in Int /\ last' < rx_deliv'
    <2>1. CASE gw' = << >>
      BY <2>1 DEF PassedUp
    <2>2. CASE gw' # << >>
      <3>1. Len(gw') # 0
        BY <2>2, EmptySeq
      <3>2. Len(gw') \in 1 .. Len(gw')
        BY <1>1, <3>1
      <3>3. last' = gw'[Len(gw')].at
        BY <1>3, <2>2, <3>2 DEF PassedUp
      <3> QED
        BY <3>2, <3>3
    <2> QED
      BY <2>1, <2>2
  <1> QED
    BY <1>1, <1>3, <1>4, <1>5 DEF InOrderStep

(* write_pdu, when what it accepts is known to be right. *)
LEMMA WritePduStep ==
  ASSUME PdcpRxOK, tx_next \in Nat, tx_next < CountMod, UNCHANGED tx_next,
         NEW pdu, pdu.count \in Nat, pdu.count < tx_next, pdu.whole \in BOOLEAN,
         Integrity \/ (pdu.whole /\ rx_deliv <= pdu.count + window_size),
         write_pdu(pdu), PassedUp
  PROVE  PdcpRxOK' /\ InOrderStep
  <1> DEFINE c == COUNT(RcvdHfn(SN(pdu.count)), SN(pdu.count))
             x == [at |-> c, pdu |-> pdu]
             q == reorder_queue \union {x}
  <1>1. window_size \in Nat /\ CountMod \in Nat
    BY WindowHalf, PdcpNrAssumption DEF CountMod
  <1>2. /\ rx_next \in Nat /\ rx_deliv \in Nat /\ rx_reord \in Nat
        /\ reordering_timer \in BOOLEAN /\ rx_overflow = FALSE
        /\ rx_deliv <= rx_next /\ rx_next <= tx_next /\ tx_next <= rx_deliv + window_size
        /\ Filed(reorder_queue)
        /\ reorder_queue # {} => reordering_timer
        /\ reordering_timer => rx_deliv < rx_reord /\ rx_reord <= rx_next
        /\ \A e \in reorder_queue : rx_deliv < e.at /\ e.at < rx_next
        /\ \A e \in reorder_queue : Intact(e)
        /\ last \in Int /\ last < rx_deliv
    BY DEF PdcpRxOK, HeldBackIsTimed
  <1>3. CASE Ignored
    <2>1. gw' = << >> /\ UNCHANGED pdcpRx /\ last' = last
      BY <1>3 DEF Ignored, PassedUp
    <2>2. DOMAIN gw' = {}
      BY <2>1
    <2> QED
      BY <2>1, <2>2 DEF PdcpRxOK, HeldBackIsTimed, pdcpRx, InOrderStep
  <1>4. CASE ~Ignored
    <2>1. /\ ~(Integrity /\ (c # pdu.count \/ ~pdu.whole))
          /\ ~NotExpected(c)
          /\ rx_next' = IF c >= rx_next THEN Plus1(c) ELSE rx_next
          /\ IF c = rx_deliv
             THEN DeliverFrom({}, q, rx_deliv)
             ELSE /\ reorder_queue' = q
                  /\ gw' = << >>
                  /\ UNCHANGED <<rx_deliv, rx_overflow>>
          /\ ReorderingTimer(rx_next')
      BY <1>4 DEF write_pdu
    <2>2. c = pdu.count /\ pdu.whole
      <3>1. CASE Integrity
        BY <2>1, <3>1
      <3>2. CASE pdu.whole /\ rx_deliv <= pdu.count + window_size
        <4>1. pdu.count < rx_deliv + window_size /\ pdu.count < CountMod
          BY <1>1, <1>2
        <4> QED
          BY <1>2, <3>2, <4>1, GuessIsRight
      <3> QED
        BY <3>1, <3>2
    <2> HIDE DEF c
    <2>3. c \in Nat /\ c < tx_next /\ rx_deliv <= c /\ \A e \in reorder_queue : e.at # c
      BY <1>2, <2>1, <2>2 DEF NotExpected
    <2>4. x.at = c /\ Intact(x)
      BY <2>2 DEF Intact
    <2>5. Filed(q) /\ x \in q /\ \A e \in q : Intact(e)
      <3> HIDE DEF x
      <3> QED
        BY <1>2, <2>3, <2>4, FiledAdd
    <2>6. Plus1(c) = c + 1
      <3>1. c + 1 \in 0 .. CountMod - 1
        BY <1>1, <2>3
      <3> QED
        BY <1>1, <3>1, ModSmall DEF Plus1
    <2>7. rx_next' \in Nat /\ rx_next <= rx_next' /\ c < rx_next' /\ rx_next' <= tx_next
      BY <1>2, <2>1, <2>3, <2>6
    <2>8. \A e \in q : rx_deliv <= e.at /\ e.at < rx_next'
      <3>1. ASSUME NEW e \in reorder_queue PROVE rx_deliv <= e.at /\ e.at < rx_next'
        <4>1. rx_deliv < e.at /\ e.at < rx_next /\ e.at \in Nat
          BY <1>2 DEF Filed
        <4> QED
          BY <1>2, <2>7, <4>1
      <3> HIDE DEF x
      <3> QED
        BY <2>3, <2>4, <2>7, <3>1
    <2>9. /\ rx_deliv' \in Nat /\ rx_deliv <= rx_deliv' /\ rx_deliv' <= rx_next' /\ rx_overflow' = FALSE
          /\ Filed(reorder_queue') /\ reorder_queue' \in SUBSET q
          /\ \A e \in reorder_queue' : rx_deliv' < e.at
          /\ InOrderStep /\ \A k \in DOMAIN gw' : Intact(gw'[k])
          /\ last' \in Int /\ last' < rx_deliv'
      <3>1. CASE c = rx_deliv
        <4>1. DeliverFrom({}, q, rx_deliv)
          BY <2>1, <3>1
        <4>2. Filed({})
          BY FS_EmptySet DEF Filed
        <4> HIDE DEF q
        <4>3. /\ rx_deliv' \in Nat /\ rx_deliv <= rx_deliv' /\ rx_deliv' <= rx_next'
                 /\ rx_overflow' = FALSE
              /\ reorder_queue' \in SUBSET q /\ Filed(reorder_queue')
              /\ \A e \in reorder_queue' : rx_deliv' < e.at
              /\ gw' \in Seq({} \union q) /\ Ascending(gw')
              /\ \A i \in 1 .. Len(gw') : gw'[i].at \in Nat /\ gw'[i].at < rx_deliv'
          <5>1. rx_deliv <= rx_next' /\ rx_next' < CountMod
            BY <1>1, <1>2, <2>7
          <5> QED
            BY <1>2, <2>5, <2>7, <2>8, <4>1, <4>2, <5>1, DeliverStep
        <4>4. \A e \in {} \union q : Intact(e) /\ rx_deliv <= e.at
          BY <2>5, <2>8
        <4>5. InOrderStep /\ (\A k \in DOMAIN gw' : Intact(gw'[k])) /\ last' \in Int
              /\ last' < rx_deliv'
          BY <1>2, <4>3, <4>4, PassedUpInOrder
        <4> QED
          BY <4>3, <4>5
      <3>2. CASE c # rx_deliv
        <4>1. reorder_queue' = q /\ gw' = << >> /\ rx_deliv' = rx_deliv /\ rx_overflow' = rx_overflow
          BY <2>1, <3>2
        <4>2. rx_deliv < c
          BY <1>2, <2>3, <3>2
        <4>3. ASSUME NEW e \in q PROVE rx_deliv < e.at
          <5> HIDE DEF x
          <5> QED
            BY <1>2, <2>4, <4>2
        <4>4. DOMAIN gw' = {} /\ last' = last
          BY <4>1 DEF PassedUp
        <4> QED
          BY <1>2, <2>5, <2>7, <4>1, <4>3, <4>4 DEF InOrderStep
      <3> QED
        BY <3>1, <3>2
    <2> HIDE DEF q
    <2>10. HeldBackIsTimed'
      <3>1. reordering_timer' \in BOOLEAN /\ rx_reord' \in Nat
            /\ (rx_deliv' < rx_next' => reordering_timer')
            /\ (reordering_timer' => rx_deliv' < rx_reord' /\ rx_reord' <= rx_next')
        <4> DEFINE running == reordering_timer /\ rx_deliv' < rx_reord
                   start == ~running /\ rx_deliv' < rx_next'
        <4>1. reordering_timer' = (running \/ start) /\ rx_reord' = IF start THEN rx_next' ELSE rx_reord
          BY <2>1 DEF ReorderingTimer
        <4>2. running => rx_reord <= rx_next'
          BY <1>2, <2>7
        <4>3. CASE start
          <5>1. reordering_timer' = TRUE /\ rx_reord' = rx_next' /\ rx_deliv' < rx_next'
            BY <4>1, <4>3
          <5> QED
            BY <2>7, <5>1
        <4>4. CASE ~start /\ running
          <5>1. reordering_timer' = TRUE /\ rx_reord' = rx_reord /\ rx_deliv' < rx_reord
            BY <4>1, <4>4
          <5> QED
            BY <1>2, <4>2, <4>4, <5>1
        <4>5. CASE ~start /\ ~running
          BY <1>2, <2>7, <2>9, <4>1, <4>5
        <4> QED
          BY <4>3, <4>4, <4>5
      <3>2. \A e \in reorder_queue' : rx_deliv' < e.at /\ e.at < rx_next'
        BY <2>8, <2>9
      <3>3. reorder_queue' # {} => rx_deliv' < rx_next'
        <4>1. ASSUME NEW e \in reorder_queue' PROVE rx_deliv' < rx_next'
          <5>1. e.at \in Nat
            BY <2>9 DEF Filed
          <5> QED
            BY <2>7, <2>9, <3>2, <5>1
        <4> QED
          BY <4>1
      <3> QED
        BY <3>1, <3>2, <3>3 DEF HeldBackIsTimed
    <2>11. reordering_timer' \in BOOLEAN /\ rx_reord' \in Nat
      BY <1>2, <2>1, <2>7 DEF ReorderingTimer
    <2>12. rx_next' <= tx_next' /\ tx_next' <= rx_deliv' + window_size
      BY <1>1, <1>2, <2>7, <2>9
    <2>13. \A e \in reorder_queue' : Intact(e)
      BY <2>5, <2>9
    <2> QED
      BY <2>7, <2>9, <2>10, <2>11, <2>12, <2>13 DEF PdcpRxOK, Intact
  <1> QED
    BY <1>3, <1>4

(* reordering_callback. *)
LEMMA ReorderingStep ==
  ASSUME PdcpRxOK, tx_next \in Nat, tx_next < CountMod, UNCHANGED tx_next,
         reordering_callback, PassedUp
  PROVE  PdcpRxOK' /\ InOrderStep
  <1> DEFINE below == {e \in reorder_queue : e.at < rx_reord}
             q == reorder_queue \ below
  <1>1. window_size \in Nat /\ CountMod \in Nat
    BY WindowHalf, PdcpNrAssumption DEF CountMod
  <1>2. /\ rx_next \in Nat /\ rx_deliv \in Nat /\ rx_reord \in Nat
        /\ reordering_timer \in BOOLEAN /\ rx_overflow = FALSE
        /\ rx_deliv <= rx_next /\ rx_next <= tx_next /\ tx_next <= rx_deliv + window_size
        /\ Filed(reorder_queue)
        /\ reordering_timer => rx_deliv < rx_reord /\ rx_reord <= rx_next
        /\ \A e \in reorder_queue : rx_deliv < e.at /\ e.at < rx_next
        /\ \A e \in reorder_queue : Intact(e)
        /\ last \in Int /\ last < rx_deliv
    BY DEF PdcpRxOK, HeldBackIsTimed
  <1>3. /\ reordering_timer
        /\ DeliverFrom(below, q, rx_reord)
        /\ reordering_timer' = (rx_deliv' < rx_next)
        /\ rx_reord' = IF rx_deliv' < rx_next THEN rx_next ELSE rx_reord
        /\ rx_next' = rx_next
    BY DEF reordering_callback
  <1>4. Filed(below) /\ Filed(q)
    BY <1>2, FiledSubset
  <1>5. \A e \in below : e.at < rx_reord
    OBVIOUS
  <1>6. \A e \in q : rx_reord <= e.at /\ e.at < rx_next
    BY <1>2 DEF Filed
  <1>7. below \union q = reorder_queue
    OBVIOUS
  <1> HIDE DEF below, q
  <1>7a. rx_next' = rx_next
    BY <1>3
  <1>8. /\ rx_deliv' \in Nat /\ rx_reord <= rx_deliv' /\ rx_deliv' <= rx_next /\ rx_overflow' = FALSE
        /\ reorder_queue' \in SUBSET q /\ Filed(reorder_queue')
        /\ \A e \in reorder_queue' : rx_deliv' < e.at
        /\ gw' \in Seq(reorder_queue) /\ Ascending(gw')
        /\ \A i \in 1 .. Len(gw') : gw'[i].at \in Nat /\ gw'[i].at < rx_deliv'
    <2>1. rx_reord <= rx_next /\ rx_next < CountMod
      BY <1>1, <1>2, <1>3
    <2> QED
      BY <1>2, <1>3, <1>4, <1>5, <1>6, <1>7, <2>1, DeliverStep
  <1>9. \A e \in reorder_queue : Intact(e) /\ rx_deliv <= e.at
    BY <1>2 DEF Filed
  <1>10. rx_deliv <= rx_deliv'
    BY <1>2, <1>3, <1>8
  <1>11. InOrderStep /\ (\A k \in DOMAIN gw' : Intact(gw'[k])) /\ last' \in Int /\ last' < rx_deliv'
    BY <1>2, <1>8, <1>9, <1>10, PassedUpInOrder
  <1>12. reorder_queue' \in SUBSET reorder_queue /\ \A e \in reorder_queue' : e.at \in Nat
         /\ e.at < rx_next
    BY <1>6, <1>7, <1>8 DEF Filed
  <1>13. HeldBackIsTimed'
    <2>1. reorder_queue' # {} => rx_deliv' < rx_next
      BY <1>2, <1>8, <1>12
    <2>2. reorder_queue' # {} => reordering_timer'
      BY <1>3, <2>1
    <2>3. reordering_timer' => rx_deliv' < rx_reord' /\ rx_reord' <= rx_next'
      <3>1. reordering_timer' => rx_deliv' < rx_next
        BY <1>3
      <3>2. rx_deliv' < rx_next => rx_reord' = rx_next
        BY <1>3
      <3> QED
        BY <1>2, <1>7a, <3>1, <3>2
    <2> QED
      BY <1>7a, <1>8, <1>12, <2>2, <2>3 DEF HeldBackIsTimed
  <1>14. reordering_timer' \in BOOLEAN /\ rx_reord' \in Nat
    BY <1>2, <1>3
  <1>15. rx_next' <= tx_next' /\ tx_next' <= rx_deliv' + window_size
    <2>1. rx_deliv' \in Nat /\ tx_next' = tx_next
      BY <1>8
    <2> QED
      <3>1. rx_next <= tx_next /\ tx_next <= rx_deliv + window_size /\ rx_deliv \in Nat
            /\ rx_next \in Nat
        BY <1>2
      <3>2. tx_next <= rx_deliv' + window_size
        <4>1. PICK y \in Nat : y = rx_deliv' /\ rx_deliv <= y
          BY <1>10, <2>1
        <4>2. rx_deliv <= y
          BY <4>1
        <4>3. tx_next <= y + window_size
          BY <1>1, <3>1, <4>2
        <4> QED
          BY <4>1, <4>3
      <3>3. rx_next' <= tx_next'
        BY <1>7a, <2>1, <3>1
      <3> QED
        BY <2>1, <3>2, <3>3
  <1>16. \A e \in reorder_queue' : Intact(e)
    BY <1>9, <1>12
  <1> QED
    BY <1>2, <1>3, <1>8, <1>11, <1>13, <1>14, <1>15, <1>16 DEF PdcpRxOK, Intact

(* Everything else leaves the receiving entity alone. *)
LEMMA SilentStep ==
  ASSUME PdcpRxOK, tx_next \in Nat, tx_next' \in Nat, tx_next <= tx_next',
         tx_next' <= rx_deliv + window_size, Silent, UNCHANGED pdcpRx
  PROVE  PdcpRxOK' /\ InOrderStep
  <1>1. gw' = << >> /\ last' = last /\ DOMAIN gw' = {}
    BY DEF Silent
  <1>2. rx_next' <= tx_next'
    BY DEF PdcpRxOK, pdcpRx
  <1> QED
    BY <1>1, <1>2 DEF PdcpRxOK, HeldBackIsTimed, pdcpRx, InOrderStep

(* write_sdu under Paced. *)
LEMMA WriteSduStep ==
  ASSUME tx_next \in Nat, tx_next < MaxSdus, write_sdu, rx_deliv \in Nat, Paced
  PROVE  /\ tx_next' = tx_next + 1 /\ tx_overflow' = FALSE /\ tx_next' <= MaxSdus
         /\ tx_next' <= rx_deliv + window_size
  <1>1. CountMod \in Nat /\ MaxSdus \in 0 .. CountMod - 1 /\ window_size \in Nat
    BY PdcpNrAssumption, BearerAssumption, WindowHalf DEF CountMod
  <1>2. Plus1(tx_next) = tx_next + 1
    <2>1. tx_next + 1 \in 0 .. CountMod - 1
      BY <1>1
    <2> QED
      BY <1>1, <2>1, ModSmall DEF Plus1
  <1>3. tx_next + 1 # 0
    OBVIOUS
  <1>4. tx_next' = tx_next + 1 /\ tx_overflow' = FALSE
    BY <1>2, <1>3 DEF write_sdu
  <1> QED
    BY <1>1, <1>4 DEF Paced

-----------------------------------------------------------------------------
(* The loop over the segments of an SN, which is a fold. *)

LEMMA MaxIsGreatest ==
  ASSUME NEW S \in SUBSET Int, NEW m \in S, \A x \in S : x <= m
  PROVE  Max(S) = m
  <1>1. \E x \in S : \A y \in S : x >= y
    BY DEF Max
  <1>2. Max(S) \in S /\ \A y \in S : Max(S) >= y
    BY <1>1 DEF Max
  <1>3. Max(S) \in Int /\ m \in Int /\ Max(S) >= m /\ Max(S) <= m
    BY <1>2
  <1> HIDE DEF Max
  <1> QED
    BY <1>3

Unrolled(g, e, q, D) ==
  g = [s \in SUBSET D |-> IF s = {} THEN e ELSE AppendSegment(g[s \ {Max(s)}], q[Max(s)])]

LEMMA FoldIsUnrolled ==
  ASSUME NEW e, NEW q, NEW g, Unrolled(g, e, q, DOMAIN q)
  PROVE  \E h : Unrolled(h, e, q, DOMAIN q) /\ FoldLeft(AppendSegment, e, q) = h[DOMAIN q]
  <1> DEFINE h == CHOOSE iter : iter = [s \in SUBSET DOMAIN q |->
                    IF s = {} THEN e ELSE AppendSegment(iter[s \ {Max(s)}], q[Max(s)])]
  <1>1. FoldLeft(AppendSegment, e, q) = h[DOMAIN q]
    BY DEF FoldLeft, MapThenFoldSet
  <1>2. Unrolled(h, e, q, DOMAIN q)
    BY DEF Unrolled
  <1> HIDE DEF h
  <1> QED
    BY <1>1, <1>2

LEMMA UnrollExists ==
  ASSUME NEW e, NEW q, NEW n \in Nat
  PROVE  \E g : Unrolled(g, e, q, 1 .. n)
  <1> DEFINE Bad == {m \in Nat : ~\E g : Unrolled(g, e, q, 1 .. m)}
  <1> SUFFICES ASSUME n \in Bad PROVE FALSE
    OBVIOUS
  <1>1. Bad \in SUBSET Nat
    OBVIOUS
  <1> HIDE DEF Bad
  <1>2. PICK m \in Bad : \A k \in Bad : m <= k
    BY <1>1, LeastElement
  <1>3. m \in Nat /\ ~\E g : Unrolled(g, e, q, 1 .. m)
    BY <1>2 DEF Bad
  <1>4. CASE m = 0
    <2> DEFINE g == [s \in SUBSET (1 .. 0) |-> e]
    <2>1. \A s \in SUBSET (1 .. 0) : s = {}
      OBVIOUS
    <2>2. Unrolled(g, e, q, 1 .. 0)
      BY <2>1 DEF Unrolled
    <2> HIDE DEF g
    <2> QED
      BY <1>3, <1>4, <2>2
  <1>5. CASE m # 0
    <2>1. m - 1 \in Nat /\ m - 1 \notin Bad
      BY <1>2, <1>3, <1>5
    <2>2. PICK g : Unrolled(g, e, q, 1 .. m - 1)
      BY <2>1 DEF Bad
    <2> DEFINE h == [s \in SUBSET (1 .. m) |->
                       IF m \in s THEN AppendSegment(g[s \ {m}], q[m]) ELSE g[s]]
    <2>3. \A s \in SUBSET (1 .. m - 1) :
            g[s] = IF s = {} THEN e ELSE AppendSegment(g[s \ {Max(s)}], q[Max(s)])
      BY <2>2 DEF Unrolled
    <2>4. \A s \in SUBSET (1 .. m - 1) : s \in SUBSET (1 .. m) /\ m \notin s
      BY <1>3
    <2>5. \A s \in SUBSET (1 .. m - 1) : h[s] = g[s]
      BY <2>4
    <2>6. ASSUME NEW s \in SUBSET (1 .. m)
          PROVE  h[s] = IF s = {} THEN e ELSE AppendSegment(h[s \ {Max(s)}], q[Max(s)])
      <3>1. CASE m \in s
        <4>1. s \in SUBSET Int /\ \A x \in s : x <= m
          BY <1>3
        <4>2. Max(s) = m
          BY <3>1, <4>1, MaxIsGreatest
        <4>3. s \ {m} \in SUBSET (1 .. m - 1)
          BY <1>3
        <4>4. h[s] = AppendSegment(g[s \ {m}], q[m])
          BY <3>1
        <4>5. h[s \ {m}] = g[s \ {m}]
          BY <2>5, <4>3
        <4> HIDE DEF h
        <4> QED
          BY <3>1, <4>2, <4>4, <4>5
      <3>2. CASE m \notin s
        <4>1. s \in SUBSET (1 .. m - 1) /\ s \ {Max(s)} \in SUBSET (1 .. m - 1)
          <5>1. \A x \in s : x \in 1 .. m /\ x # m
            BY <3>2
          <5>2. \A x \in s : x \in 1 .. m - 1
            BY <1>3, <5>1
          <5> QED
            BY <5>2
        <4>2. h[s] = g[s] /\ h[s \ {Max(s)}] = g[s \ {Max(s)}]
          BY <2>5, <4>1
        <4> HIDE DEF h
        <4> QED
          BY <2>3, <4>1, <4>2
      <3> QED
        BY <3>1, <3>2
    <2>7. h = [s \in SUBSET (1 .. m) |-> h[s]]
      OBVIOUS
    <2> HIDE DEF h
    <2>8. Unrolled(h, e, q, 1 .. m)
      BY <2>6, <2>7 DEF Unrolled
    <2> QED
      BY <1>3, <2>8
  <1> QED
    BY <1>4, <1>5

(* What holds of the entry and survives the body of the loop holds after it. *)
LEMMA FoldKeeps ==
  ASSUME NEW P, NEW e \in P, NEW S, NEW n \in Nat, NEW q \in [1 .. n -> S],
         \A x \in P, s \in S : AppendSegment(x, s) \in P
  PROVE  FoldLeft(AppendSegment, e, q) \in P
  <1>1. DOMAIN q = 1 .. n
    OBVIOUS
  <1>2. PICK h : Unrolled(h, e, q, 1 .. n) /\ FoldLeft(AppendSegment, e, q) = h[1 .. n]
    <2>1. PICK g : Unrolled(g, e, q, DOMAIN q)
      BY <1>1, UnrollExists
    <2>2. \E h : Unrolled(h, e, q, DOMAIN q) /\ FoldLeft(AppendSegment, e, q) = h[DOMAIN q]
      BY <2>1, FoldIsUnrolled
    <2> QED
      BY <1>1, <2>2
  <1>3. \A s \in SUBSET (1 .. n) :
          h[s] = IF s = {} THEN e ELSE AppendSegment(h[s \ {Max(s)}], q[Max(s)])
    BY <1>2 DEF Unrolled
  <1> DEFINE Bad == {m \in Nat : m <= n /\ h[1 .. m] \notin P}
  <1>4. Bad \in SUBSET Nat
    OBVIOUS
  <1>5. ASSUME NEW m \in Nat, m <= n, m # 0, h[1 .. m - 1] \in P
        PROVE  h[1 .. m] \in P
    <2>1. /\ 1 .. m \in SUBSET (1 .. n) /\ m \in 1 .. m /\ 1 .. m \in SUBSET Int
          /\ \A x \in 1 .. m : x <= m
      BY <1>5
    <2>2. Max(1 .. m) = m
      BY <2>1, MaxIsGreatest
    <2>3. (1 .. m) \ {m} = 1 .. m - 1
      BY <1>5
    <2>4. h[1 .. m] = AppendSegment(h[1 .. m - 1], q[m])
      <3>1. 1 .. m # {}
        BY <2>1
      <3>2. h[1 .. m] = AppendSegment(h[(1 .. m) \ {Max(1 .. m)}], q[Max(1 .. m)])
        BY <1>3, <2>1, <3>1
      <3> QED
        BY <2>2, <2>3, <3>2
    <2>5. q[m] \in S
      BY <2>1
    <2> QED
      BY <1>5, <2>4, <2>5
  <1>6. h[1 .. 0] \in P
    <2>1. 1 .. 0 = {} /\ 1 .. 0 \in SUBSET (1 .. n)
      OBVIOUS
    <2> QED
      BY <1>3, <2>1
  <1>7. n \notin Bad
    <2> SUFFICES ASSUME n \in Bad PROVE FALSE
      OBVIOUS
    <2> HIDE DEF Bad
    <2>1. PICK m \in Bad : \A k \in Bad : m <= k
      BY <1>4, LeastElement
    <2>2. m \in Nat /\ m <= n /\ h[1 .. m] \notin P
      BY <2>1 DEF Bad
    <2>3. m # 0
      BY <1>6, <2>2
    <2>4. m - 1 \in Nat /\ m - 1 <= n /\ m - 1 \notin Bad
      BY <2>1, <2>2, <2>3
    <2>5. h[1 .. m - 1] \in P
      BY <2>4 DEF Bad
    <2> QED
      BY <1>5, <2>2, <2>3, <2>5
  <1> QED
    BY <1>2, <1>7

(* Segments of one SN: finitely many, one per offset. *)
OnePerSo(S) ==
  IsFiniteSet(S) /\ (\A s \in S : s.so \in Nat) /\ \A s, t \in S : s.so = t.so => s = t

LEMMA BySoIsIn ==
  ASSUME NEW S, OnePerSo(S)
  PROVE  \E n \in Nat : BySo(S) \in [1 .. n -> S]
  <1> DEFINE n == Cardinality(S)
             B(e) == {f \in S : f.so < e.so}
             key == [e \in S |-> e.so]
  <1>1. /\ IsFiniteSet(S) /\ key \in [S -> Nat]
        /\ \A e, f \in S : key[e] = key[f] => e = f
    BY DEF OnePerSo
  <1>2. \A e \in S : {f \in S : key[f] < key[e]} = B(e)
    OBVIOUS
  <1>3. n \in Nat /\ \A i \in 1 .. n : \E e \in S : Cardinality(B(e)) = i - 1
    <2> HIDE DEF key, B
    <2>1. n \in Nat /\ \A i \in 1 .. n : \E e \in S : Cardinality({f \in S : key[f] < key[e]}) = i - 1
      BY <1>1, Ranked
    <2> QED
      BY <1>2, <2>1
  <1>4. \A i \in 1 .. n : (CHOOSE e \in S : Cardinality(B(e)) = i - 1) \in S
    <2> HIDE DEF B
    <2> QED
      BY <1>3
  <1>5. BySo(S) \in [1 .. n -> S]
    BY <1>4 DEF BySo
  <1> QED
    BY <1>3, <1>5

LEMMA AssembledKeeps ==
  ASSUME NEW P, NEW e \in P, OnePerSo(e.segments),
         \A x \in P, s \in e.segments : AppendSegment(x, s) \in P
  PROVE  Assembled(e) \in P
  <1>1. PICK n \in Nat : BySo(e.segments) \in [1 .. n -> e.segments]
    BY BySoIsIn
  <1> QED
    BY <1>1, FoldKeeps DEF Assembled

-----------------------------------------------------------------------------
(* The types of RLC, for SDUs with an id below n. *)
Sns == 0 .. UmMod - 1
Ids(n) == 0 .. n - 1

Sdus(n) == [id : Ids(n), len : {SduLen}, left : 1 .. SduLen]

Pdus(n) == [si : {"full", "first", "middle", "last"}, sn : Sns, so : Nat, id : Ids(n),
            at : 0 .. SduLen, len : 1 .. SduLen, ends : BOOLEAN]

Transmitters(n) == [TX_Next : Sns, next_so : Nat, tx_sdu : Sdus(n) \union {NoSdu},
                    queue : Seq(Sdus(n))]

Segments(n) == [so : Nat, len : 1 .. SduLen, id : Ids(n), at : 0 .. SduLen, ends : BOOLEAN]

Pieces(n) == [id : Ids(n), at : 0 .. SduLen, ends : BOOLEAN]

Entries(n) ==
  {e \in [sn : Sns, segments : SUBSET Segments(n), sdu : Seq(Pieces(n)),
          next_expected_so : Nat, total_sdu_length : Nat] : OnePerSo(e.segments)}

Receivers(n) ==
  {r \in [RX_Next_Reassembly : Sns, RX_Timer_Trigger : Sns, RX_Next_Highest : Sns,
          rx_window : SUBSET Entries(n), reassembly_timer : BOOLEAN] :
     \A e, f \in r.rx_window : e.sn = f.sn => e = f}

LEMMA UmFacts ==
  /\ UM_Window_Size \in Nat \ {0} /\ UmMod \in Nat \ {0} /\ UmMod = 2 * UM_Window_Size
  /\ TxQueueLen \in Nat \ {0} /\ SduLen \in Nat \ {0} /\ Processes \in Nat \ {0}
  /\ MaxFaults \in Nat
  /\ \A n \in Grants : n \in Nat /\ n >= 3
  BY UmAssumption, BearerAssumption

LEMMA SduIsSome == ASSUME NEW n, NEW s \in Sdus(n) PROVE s # NoSdu
  <1>1. DOMAIN s = {"id", "len", "left"} /\ DOMAIN NoSdu = {"none"}
    BY DEF Sdus, NoSdu
  <1> QED
    BY <1>1

LEMMA PduIsSome == ASSUME NEW n, NEW p \in Pdus(n) PROVE p # NoPdu
  <1>1. "si" \in DOMAIN p /\ DOMAIN NoPdu = {"none"}
    BY DEF Pdus, NoPdu
  <1> QED
    BY <1>1

LEMMA SnSucc ==
  ASSUME NEW x \in Sns
  PROVE  (x + 1) % UmMod = (IF x + 1 = UmMod THEN 0 ELSE x + 1) /\ (x + 1) % UmMod \in Sns
  <1>1. UmMod \in Nat \ {0} /\ x \in Nat /\ x < UmMod
    BY UmFacts DEF Sns
  <1>2. CASE x + 1 = UmMod
    <2>1. (1 * UmMod + 0) % UmMod = 0
      BY <1>1, ModUnique
    <2>2. x + 1 = 1 * UmMod + 0
      BY <1>1, <1>2
    <2> QED
      BY <1>1, <1>2, <2>1, <2>2 DEF Sns
  <1>3. CASE x + 1 # UmMod
    <2>1. x + 1 \in 0 .. UmMod - 1
      BY <1>1, <1>3
    <2> QED
      BY <1>1, <1>3, <2>1, ModSmall DEF Sns
  <1> QED
    BY <1>2, <1>3

LEMMA Monotone ==
  ASSUME NEW n \in Nat, NEW m \in Nat, n <= m
  PROVE  /\ Sdus(n) \subseteq Sdus(m) /\ Pdus(n) \subseteq Pdus(m)
         /\ Segments(n) \subseteq Segments(m) /\ Pieces(n) \subseteq Pieces(m)
         /\ Transmitters(n) \subseteq Transmitters(m)
         /\ Entries(n) \subseteq Entries(m) /\ Receivers(n) \subseteq Receivers(m)
  <1>1. Ids(n) \subseteq Ids(m)
    BY DEF Ids
  <1>2. Sdus(n) \subseteq Sdus(m)
    BY <1>1 DEF Sdus
  <1>3. Pdus(n) \subseteq Pdus(m)
    BY <1>1 DEF Pdus
  <1>4. Segments(n) \subseteq Segments(m)
    BY <1>1 DEF Segments
  <1>5. Pieces(n) \subseteq Pieces(m)
    BY <1>1 DEF Pieces
  <1>6. Seq(Sdus(n)) \subseteq Seq(Sdus(m)) /\ Seq(Pieces(n)) \subseteq Seq(Pieces(m))
    BY <1>2, <1>5, SeqMonotonic
  <1>7. Transmitters(n) \subseteq Transmitters(m)
    BY <1>2, <1>6 DEF Transmitters
  <1>8. Entries(n) \subseteq Entries(m)
    BY <1>4, <1>6 DEF Entries
  <1>9. Receivers(n) \subseteq Receivers(m)
    BY <1>8 DEF Receivers
  <1> QED
    BY <1>2, <1>3, <1>4, <1>5, <1>7, <1>8, <1>9

(* build_data_pdu, taken apart. *)
LEMMA BuildType ==
  ASSUME NEW n, NEW t \in Transmitters(n), has_data(t), NEW g \in Nat, g >= 3
  PROVE  /\ build_data_pdu(t, g).tx \in Transmitters(n)
         /\ build_data_pdu(t, g).pdu \in Pdus(n) \union {NoPdu}
  <1> DEFINE fresh == t.tx_sdu = NoSdu
             sdu   == IF fresh THEN Head(t.queue) ELSE t.tx_sdu
             so    == IF fresh THEN 0 ELSE t.next_so
             si    == IF fresh
                      THEN IF sdu.left <= g - 1 THEN "full" ELSE "first"
                      ELSE IF sdu.left <= g - head_len_segment THEN "last" ELSE "middle"
             head  == packed_length(si, so)
             moved == IF g - head >= sdu.left THEN sdu.left ELSE g - head
             rest  == IF fresh THEN Tail(t.queue) ELSE t.queue
             taken == [t EXCEPT !.tx_sdu = sdu, !.next_so = so,
                                !.queue = IF fresh THEN Tail(@) ELSE @]
             tx    == [taken EXCEPT
                         !.tx_sdu  = IF moved = sdu.left THEN NoSdu
                                     ELSE [sdu EXCEPT !.left = @ - moved],
                         !.next_so = NextSo(si, so, moved),
                         !.TX_Next = NextTxNext(t, si)]
             pdu   == [si |-> si, sn |-> t.TX_Next, so |-> so, id |-> sdu.id,
                       at |-> sdu.len - sdu.left, len |-> moved, ends |-> moved = sdu.left]
  <1>1. build_data_pdu(t, g) = IF g <= head + 1 THEN [tx |-> taken, pdu |-> NoPdu]
                               ELSE [tx |-> tx, pdu |-> pdu]
    BY DEF build_data_pdu
  <1>2. t.TX_Next \in Sns /\ t.next_so \in Nat /\ t.tx_sdu \in Sdus(n) \union {NoSdu}
        /\ t.queue \in Seq(Sdus(n))
    BY DEF Transmitters
  <1>3. sdu \in Sdus(n) /\ rest \in Seq(Sdus(n)) /\ so \in Nat
    <2>1. CASE fresh
      <3>1. t.queue # << >>
        BY <2>1 DEF has_data
      <3> QED
        BY <1>2, <2>1, <3>1, HeadTailProperties
    <2>2. CASE ~fresh
      BY <1>2, <2>2
    <2> QED
      BY <2>1, <2>2
  <1>4. si \in {"full", "first", "middle", "last"}
    OBVIOUS
  <1>5. taken = [TX_Next |-> t.TX_Next, next_so |-> so, tx_sdu |-> sdu, queue |-> rest]
    <2> HIDE DEF sdu, so, si
    <2>1. t = [TX_Next |-> t.TX_Next, next_so |-> t.next_so, tx_sdu |-> t.tx_sdu, queue |-> t.queue]
      BY DEF Transmitters
    <2>2. taken = [t EXCEPT !.tx_sdu = sdu, !.next_so = so, !.queue = rest]
      OBVIOUS
    <2> HIDE DEF rest, taken
    <2> QED
      BY <2>1, <2>2
  <1> HIDE DEF sdu, so, si, rest
  <1>6. head \in Nat
    BY <1>3, <1>4 DEF packed_length
  <1>7. sdu.left \in 1 .. SduLen /\ sdu.len = SduLen /\ sdu.id \in Ids(n) /\ SduLen \in Nat
    BY <1>3, UmFacts DEF Sdus
  <1>8. taken \in Transmitters(n)
    BY <1>2, <1>3, <1>5 DEF Transmitters
  <1>9. CASE ~(g <= head + 1)
    <2>1. moved \in 1 .. SduLen /\ moved <= sdu.left
      BY <1>6, <1>7, <1>9
    <2> HIDE DEF moved, head
    <2>2. NextSo(si, so, moved) \in Nat
      BY <1>3, <2>1 DEF NextSo
    <2>3. NextTxNext(t, si) \in Sns
      BY <1>2, SnSucc DEF NextTxNext
    <2>4. moved # sdu.left => [sdu EXCEPT !.left = @ - moved] \in Sdus(n)
      BY <1>3, <1>7, <2>1 DEF Sdus
    <2>5. tx \in Transmitters(n)
      BY <1>5, <1>3, <2>2, <2>3, <2>4 DEF Transmitters
    <2>6. pdu \in Pdus(n)
      BY <1>2, <1>3, <1>4, <1>7, <2>1 DEF Pdus
    <2> HIDE DEF tx, pdu
    <2> QED
      BY <1>1, <1>9, <2>5, <2>6 DEF head
  <1> HIDE DEF head, taken
  <1> QED
    BY <1>1, <1>8, <1>9

LEMMA MinIsIn ==
  ASSUME NEW S \in SUBSET Nat, S # {}
  PROVE  Min(S) \in S /\ \A x \in S : Min(S) <= x
  <1>1. \E x \in S : \A y \in S : x <= y
    BY LeastElement
  <1> QED
    BY <1>1 DEF Min

LEMMA RxFields ==
  ASSUME NEW n, NEW r \in Receivers(n)
  PROVE  /\ r.RX_Next_Reassembly \in Sns /\ r.RX_Timer_Trigger \in Sns /\ r.RX_Next_Highest \in Sns
         /\ r.rx_window \in SUBSET Entries(n) /\ r.reassembly_timer \in BOOLEAN
         /\ \A e, f \in r.rx_window : e.sn = f.sn => e = f
         /\ r = [RX_Next_Reassembly |-> r.RX_Next_Reassembly, RX_Timer_Trigger |-> r.RX_Timer_Trigger,
                 RX_Next_Highest |-> r.RX_Next_Highest, rx_window |-> r.rx_window,
                 reassembly_timer |-> r.reassembly_timer]
  BY DEF Receivers

LEMMA RxMake ==
  ASSUME NEW n, NEW a \in Sns, NEW b \in Sns, NEW c \in Sns, NEW w \in SUBSET Entries(n),
         NEW t \in BOOLEAN, \A e, f \in w : e.sn = f.sn => e = f
  PROVE  [RX_Next_Reassembly |-> a, RX_Timer_Trigger |-> b, RX_Next_Highest |-> c,
          rx_window |-> w, reassembly_timer |-> t] \in Receivers(n)
  BY DEF Receivers

LEMMA HeldSnsType ==
  ASSUME NEW n, NEW r \in Receivers(n)
  PROVE  HeldSns(r) \in SUBSET Sns /\ HeldSns(r) \in SUBSET Nat
  <1>1. \A e \in r.rx_window : e.sn \in Sns
    BY RxFields DEF Entries
  <1>2. HeldSns(r) \in SUBSET Sns
    BY <1>1 DEF HeldSns
  <1> QED
    BY <1>2, UmFacts DEF Sns

(* What each step of the receiver leaves alone and what it makes of the rest. *)
LEMMA NextReassemblyType ==
  ASSUME NEW n, NEW r \in Receivers(n), NEW sn
  PROVE  /\ NextReassemblyAfter(r, sn) \in Sns
         /\ \/ NextReassemblyAfter(r, sn) \in {r.RX_Next_Reassembly, r.RX_Next_Highest}
            \/ NextReassemblyAfter(r, sn) \in HeldSns(r)
  <1> DEFINE past == {x \in HeldSns(r) : RX_MOD_NR_BASE(r, x) > RX_MOD_NR_BASE(r, r.RX_Next_Reassembly)}
  <1>1. past \in SUBSET Nat /\ past \in SUBSET Sns /\ past \in SUBSET HeldSns(r)
    BY HeldSnsType
  <1>2. past # {} => Min(past) \in past
    <2> HIDE DEF past
    <2> QED
      BY <1>1, MinIsIn
  <1>3. NextReassemblyAfter(r, sn) =
          IF sn # r.RX_Next_Reassembly THEN r.RX_Next_Reassembly
          ELSE IF r.rx_window = {} THEN r.RX_Next_Highest
          ELSE IF past = {} THEN r.RX_Next_Reassembly
          ELSE Min(past)
    BY DEF NextReassemblyAfter
  <1>4. r.RX_Next_Reassembly \in Sns /\ r.RX_Next_Highest \in Sns
    BY RxFields
  <1> HIDE DEF past
  <1> QED
    BY <1>1, <1>2, <1>3, <1>4

LEMMA DeliveredType ==
  ASSUME NEW n, NEW r \in Receivers(n), NEW sn
  PROVE  /\ Delivered(r, sn) \in Receivers(n)
         /\ Delivered(r, sn).RX_Next_Highest = r.RX_Next_Highest
         /\ Delivered(r, sn).rx_window = {e \in r.rx_window : e.sn # sn}
         /\ Delivered(r, sn).RX_Timer_Trigger = r.RX_Timer_Trigger
         /\ Delivered(r, sn).reassembly_timer = r.reassembly_timer
         /\ \/ Delivered(r, sn).RX_Next_Reassembly \in {r.RX_Next_Reassembly, r.RX_Next_Highest}
            \/ Delivered(r, sn).RX_Next_Reassembly \in HeldSns(r)
  <1> DEFINE w == {e \in r.rx_window : e.sn # sn}
             x == [r EXCEPT !.rx_window = w]
             a == NextReassemblyAfter(x, sn)
  <1>1. x = [RX_Next_Reassembly |-> r.RX_Next_Reassembly, RX_Timer_Trigger |-> r.RX_Timer_Trigger,
             RX_Next_Highest |-> r.RX_Next_Highest, rx_window |-> w,
             reassembly_timer |-> r.reassembly_timer]
    BY RxFields
  <1>2. w \in SUBSET Entries(n) /\ \A e, f \in w : e.sn = f.sn => e = f
    BY RxFields
  <1>3. x \in Receivers(n)
    <2> HIDE DEF x, w
    <2> QED
      BY <1>1, <1>2, RxMake, RxFields
  <1>4. HeldSns(x) \in SUBSET HeldSns(r)
    BY <1>1 DEF HeldSns
  <1>5. a \in Sns /\ (a \in {x.RX_Next_Reassembly, x.RX_Next_Highest} \/ a \in HeldSns(x))
    <2> HIDE DEF x
    <2> QED
      BY <1>3, NextReassemblyType
  <1>6. Delivered(r, sn) = [x EXCEPT !.RX_Next_Reassembly = a]
    BY DEF Delivered
  <1> HIDE DEF a, w, x
  <1>7. Delivered(r, sn) =
          [RX_Next_Reassembly |-> a, RX_Timer_Trigger |-> r.RX_Timer_Trigger,
           RX_Next_Highest |-> r.RX_Next_Highest, rx_window |-> w,
           reassembly_timer |-> r.reassembly_timer]
    BY <1>1, <1>6
  <1>8. Delivered(r, sn) \in Receivers(n)
    <2>1. r.RX_Timer_Trigger \in Sns /\ r.RX_Next_Highest \in Sns /\ r.reassembly_timer \in BOOLEAN
      BY RxFields
    <2>2. a \in Sns
      BY <1>5
    <2> QED
      BY <1>2, <1>7, <2>1, <2>2, RxMake
  <1> QED
    BY <1>1, <1>4, <1>5, <1>7, <1>8 DEF w

LEMMA WindowMovedType ==
  ASSUME NEW n, NEW r \in Receivers(n), NEW sn \in Sns
  PROVE  /\ WindowMoved(r, sn) \in Receivers(n)
         /\ WindowMoved(r, sn).RX_Next_Highest = (sn + 1) % UmMod
         /\ WindowMoved(r, sn).rx_window =
              {e \in r.rx_window : sn_in_reassembly_window(WindowMoved(r, sn), e.sn)}
         /\ WindowMoved(r, sn).RX_Timer_Trigger = r.RX_Timer_Trigger
         /\ WindowMoved(r, sn).reassembly_timer = r.reassembly_timer
         /\ \/ sn_in_reassembly_window(WindowMoved(r, sn), WindowMoved(r, sn).RX_Next_Reassembly)
            \/ WindowMoved(r, sn).rx_window = {}
            \/ WindowMoved(r, sn).RX_Next_Reassembly \in HeldSns(WindowMoved(r, sn))
  <1> DEFINE h == (sn + 1) % UmMod
             x == [r EXCEPT !.RX_Next_Highest = h]
             w == {e \in r.rx_window : sn_in_reassembly_window(x, e.sn)}
             m == [x EXCEPT !.rx_window = w]
             y == WindowMoved(r, sn)
  <1>1. h \in Sns
    BY SnSucc
  <1>2. x = [RX_Next_Reassembly |-> r.RX_Next_Reassembly, RX_Timer_Trigger |-> r.RX_Timer_Trigger,
             RX_Next_Highest |-> h, rx_window |-> r.rx_window,
             reassembly_timer |-> r.reassembly_timer]
    <2> HIDE DEF h
    <2> QED
      BY RxFields
  <1>3. w \in SUBSET Entries(n) /\ \A e, f \in w : e.sn = f.sn => e = f
    <2> HIDE DEF x
    <2> QED
      BY RxFields
  <1>4. m = [RX_Next_Reassembly |-> r.RX_Next_Reassembly, RX_Timer_Trigger |-> r.RX_Timer_Trigger,
             RX_Next_Highest |-> h, rx_window |-> w, reassembly_timer |-> r.reassembly_timer]
    <2> HIDE DEF x, w, h
    <2> QED
      BY <1>2
  <1>5. DropOutside(x) = m
    <2>1. {e \in x.rx_window : sn_in_reassembly_window(x, e.sn)} = w
      <3> HIDE DEF x
      <3> QED
        BY <1>2
    <2>2. DropOutside(x) =
            [x EXCEPT !.rx_window = {e \in x.rx_window : sn_in_reassembly_window(x, e.sn)}]
      BY <1>2 DEF DropOutside
    <2> QED
      BY <2>1, <2>2
  <1>6. m \in Receivers(n)
    <2> HIDE DEF x, w, m, h
    <2> QED
      BY <1>1, <1>3, <1>4, RxMake, RxFields
  <1>7. y = IF sn_in_reassembly_window(m, m.RX_Next_Reassembly) \/ m.rx_window = {} THEN m
            ELSE [m EXCEPT !.RX_Next_Reassembly = Min(HeldSns(m))]
    BY <1>5 DEF WindowMoved
  <1>8. \A s : sn_in_reassembly_window(x, s) <=> sn_in_reassembly_window(m, s)
    <2>1. x.RX_Next_Highest = m.RX_Next_Highest
      <3> HIDE DEF x, m
      <3> QED
        BY <1>2, <1>4
    <2> HIDE DEF x, m
    <2> QED
      BY <2>1 DEF sn_in_reassembly_window, RX_MOD_NR_BASE
  <1> HIDE DEF x, w, m, h, y
  <1>9. CASE sn_in_reassembly_window(m, m.RX_Next_Reassembly) \/ m.rx_window = {}
    <2>1. y = m
      BY <1>7, <1>9
    <2>2. y.rx_window = {e \in r.rx_window : sn_in_reassembly_window(y, e.sn)}
      BY <1>4, <1>8, <2>1 DEF w
    <2> QED
      BY <1>4, <1>6, <1>9, <2>1, <2>2 DEF y, h
  <1>10. CASE ~(sn_in_reassembly_window(m, m.RX_Next_Reassembly) \/ m.rx_window = {})
    <2> DEFINE a == Min(HeldSns(m))
    <2>1. HeldSns(m) # {}
      BY <1>10 DEF HeldSns
    <2>2. a \in HeldSns(m) /\ a \in Sns
      BY <1>6, <2>1, HeldSnsType, MinIsIn
    <2> HIDE DEF a
    <2>3. y = [RX_Next_Reassembly |-> a, RX_Timer_Trigger |-> r.RX_Timer_Trigger,
               RX_Next_Highest |-> h, rx_window |-> w, reassembly_timer |-> r.reassembly_timer]
      BY <1>4, <1>7, <1>10 DEF a
    <2>4. y \in Receivers(n)
      BY <1>1, <1>3, <2>2, <2>3, RxMake, RxFields
    <2>5. \A s : sn_in_reassembly_window(y, s) <=> sn_in_reassembly_window(m, s)
      <3>1. y.RX_Next_Highest = m.RX_Next_Highest
        BY <1>4, <2>3
      <3> QED
        BY <3>1 DEF sn_in_reassembly_window, RX_MOD_NR_BASE
    <2>6. y.rx_window = {e \in r.rx_window : sn_in_reassembly_window(y, e.sn)}
      BY <1>8, <2>3, <2>5 DEF w
    <2>7. HeldSns(y) = HeldSns(m)
      BY <1>4, <2>3 DEF HeldSns
    <2> QED
      BY <2>2, <2>3, <2>4, <2>6, <2>7 DEF y, h
  <1> QED
    BY <1>9, <1>10

LEMMA TimerType ==
  ASSUME NEW n, NEW r \in Receivers(n)
  PROVE  /\ StopTimer(r) \in Receivers(n) /\ StartTimer(r) \in Receivers(n)
         /\ UpdateTimer(r) \in Receivers(n)
         /\ UpdateTimer(r).RX_Next_Highest = r.RX_Next_Highest
         /\ UpdateTimer(r).rx_window = r.rx_window
         /\ UpdateTimer(r).RX_Next_Reassembly = r.RX_Next_Reassembly
         /\ StartTimer(r).RX_Next_Highest = r.RX_Next_Highest
         /\ StartTimer(r).rx_window = r.rx_window
         /\ StartTimer(r).RX_Next_Reassembly = r.RX_Next_Reassembly
         /\ StartTimer(r).reassembly_timer =>
              \/ StartTimer(r).RX_Timer_Trigger = r.RX_Next_Highest
              \/ r.reassembly_timer /\ StartTimer(r).RX_Timer_Trigger = r.RX_Timer_Trigger
         /\ UpdateTimer(r).reassembly_timer =>
              \/ UpdateTimer(r).RX_Timer_Trigger = r.RX_Next_Highest
              \/ sn_in_reassembly_window(r, UpdateTimer(r).RX_Timer_Trigger)
  <1>1. ASSUME NEW x \in Receivers(n)
        PROVE  /\ StartTimer(x) \in Receivers(n)
               /\ StartTimer(x).RX_Next_Highest = x.RX_Next_Highest
               /\ StartTimer(x).rx_window = x.rx_window
               /\ StartTimer(x).RX_Next_Reassembly = x.RX_Next_Reassembly
               /\ StartTimer(x).reassembly_timer =>
                    \/ StartTimer(x).RX_Timer_Trigger = x.RX_Next_Highest
                    \/ x.reassembly_timer /\ StartTimer(x).RX_Timer_Trigger = x.RX_Timer_Trigger
    <2>1. CASE ~x.reassembly_timer /\ NeedsTimer(x)
      <3>1. StartTimer(x) = [x EXCEPT !.reassembly_timer = TRUE, !.RX_Timer_Trigger = x.RX_Next_Highest]
        BY <2>1 DEF StartTimer
      <3>2. StartTimer(x) =
              [RX_Next_Reassembly |-> x.RX_Next_Reassembly, RX_Timer_Trigger |-> x.RX_Next_Highest,
               RX_Next_Highest |-> x.RX_Next_Highest, rx_window |-> x.rx_window,
               reassembly_timer |-> TRUE]
        <4>1. x = [RX_Next_Reassembly |-> x.RX_Next_Reassembly, RX_Timer_Trigger |-> x.RX_Timer_Trigger,
                   RX_Next_Highest |-> x.RX_Next_Highest, rx_window |-> x.rx_window,
                   reassembly_timer |-> x.reassembly_timer]
          BY RxFields
        <4> QED
          BY <3>1, <4>1
      <3>3. StartTimer(x) \in Receivers(n)
        <4>1. /\ x.RX_Next_Reassembly \in Sns /\ x.RX_Next_Highest \in Sns
              /\ x.rx_window \in SUBSET Entries(n) /\ \A e, f \in x.rx_window : e.sn = f.sn => e = f
          BY RxFields
        <4>2. TRUE \in BOOLEAN
          OBVIOUS
        <4> QED
          BY <3>2, <4>1, <4>2, RxMake
      <3> QED
        BY <3>2, <3>3
    <2>2. CASE ~(~x.reassembly_timer /\ NeedsTimer(x))
      <3>1. StartTimer(x) = x
        BY <2>2 DEF StartTimer
      <3> QED
        BY <3>1
    <2> QED
      BY <2>1, <2>2
  <1> DEFINE s == StopTimer(r)
             b == /\ r.reassembly_timer
                  /\ r.RX_Timer_Trigger > r.RX_Next_Reassembly
                  /\ \/ sn_in_reassembly_window(r, r.RX_Timer_Trigger)
                     \/ r.RX_Timer_Trigger = r.RX_Next_Highest
                  /\ \/ r.RX_Next_Highest # r.RX_Next_Reassembly + 1
                     \/ has_missing_byte_segment(r, r.RX_Next_Reassembly)
  <1>2. s = [r EXCEPT !.reassembly_timer = b]
    BY RxFields DEF StopTimer
  <1>3. b \in BOOLEAN /\ (b => sn_in_reassembly_window(r, r.RX_Timer_Trigger)
                              \/ r.RX_Timer_Trigger = r.RX_Next_Highest)
    OBVIOUS
  <1> HIDE DEF b
  <1>4. s = [RX_Next_Reassembly |-> r.RX_Next_Reassembly, RX_Timer_Trigger |-> r.RX_Timer_Trigger,
             RX_Next_Highest |-> r.RX_Next_Highest, rx_window |-> r.rx_window,
             reassembly_timer |-> b]
    <2> HIDE DEF s
    <2> QED
      BY <1>2, RxFields
  <1> HIDE DEF s
  <1>5. s \in Receivers(n)
    BY <1>3, <1>4, RxMake, RxFields
  <1>6. UpdateTimer(r) = StartTimer(s)
    BY DEF UpdateTimer, s
  <1>7. /\ StartTimer(s) \in Receivers(n)
        /\ StartTimer(s).RX_Next_Highest = s.RX_Next_Highest
        /\ StartTimer(s).rx_window = s.rx_window
        /\ StartTimer(s).RX_Next_Reassembly = s.RX_Next_Reassembly
        /\ StartTimer(s).reassembly_timer =>
             \/ StartTimer(s).RX_Timer_Trigger = s.RX_Next_Highest
             \/ s.reassembly_timer /\ StartTimer(s).RX_Timer_Trigger = s.RX_Timer_Trigger
    BY <1>1, <1>5
  <1>8. UpdateTimer(r).reassembly_timer =>
              \/ UpdateTimer(r).RX_Timer_Trigger = r.RX_Next_Highest
              \/ sn_in_reassembly_window(r, UpdateTimer(r).RX_Timer_Trigger)
    BY <1>3, <1>4, <1>6, <1>7
  <1>9. /\ s.RX_Next_Highest = r.RX_Next_Highest /\ s.rx_window = r.rx_window
        /\ s.RX_Next_Reassembly = r.RX_Next_Reassembly
    BY <1>4
  <1> QED
    BY <1>1, <1>5, <1>6, <1>7, <1>8, <1>9 DEF s

-----------------------------------------------------------------------------
(* handle_data_pdu *)
Grown(r, pdu) == Assembled(PlaceSegment(r, pdu))

Held(r, pdu) == [r EXCEPT !.rx_window = {e \in @ : e.sn # pdu.sn} \cup {Grown(r, pdu)}]

Done(r, pdu) == sdu_complete(PlaceSegment(r, pdu), Grown(r, pdu))

LEMMA HandleCases ==
  ASSUME NEW r, NEW pdu
  PROVE  LET got == handle_data_pdu(r, pdu) IN
         /\ pdu.si = "full" => /\ got.rx = r
                               /\ got.sdu = << [id |-> pdu.id, at |-> pdu.at, ends |-> pdu.ends] >>
         /\ pdu.si # "full" /\ sn_invalid_for_rx_buffer(r, pdu.sn) => got.rx = r /\ got.sdu = << >>
         /\ pdu.si # "full" /\ ~sn_invalid_for_rx_buffer(r, pdu.sn) =>
              /\ Done(r, pdu) => /\ got.rx = UpdateTimer(Delivered(Held(r, pdu), pdu.sn))
                                 /\ got.sdu = Grown(r, pdu).sdu
              /\ ~Done(r, pdu) /\ sn_in_reassembly_window(Held(r, pdu), pdu.sn) =>
                   got.rx = UpdateTimer(Held(r, pdu)) /\ got.sdu = << >>
              /\ ~Done(r, pdu) /\ ~sn_in_reassembly_window(Held(r, pdu), pdu.sn) =>
                   got.rx = UpdateTimer(WindowMoved(Held(r, pdu), pdu.sn)) /\ got.sdu = << >>
  BY DEF handle_data_pdu, Grown, Held, Done

LEMMA PduFields ==
  ASSUME NEW n, NEW pdu \in Pdus(n)
  PROVE  /\ pdu.si \in {"full", "first", "middle", "last"} /\ pdu.sn \in Sns /\ pdu.so \in Nat
         /\ pdu.id \in Ids(n) /\ pdu.at \in 0 .. SduLen /\ pdu.len \in 1 .. SduLen
         /\ pdu.ends \in BOOLEAN
  BY DEF Pdus

LEMMA EntryFields ==
  ASSUME NEW n, NEW e \in Entries(n)
  PROVE  /\ e.sn \in Sns /\ e.segments \in SUBSET Segments(n) /\ e.sdu \in Seq(Pieces(n))
         /\ e.next_expected_so \in Nat /\ e.total_sdu_length \in Nat /\ OnePerSo(e.segments)
         /\ e = [sn |-> e.sn, segments |-> e.segments, sdu |-> e.sdu,
                 next_expected_so |-> e.next_expected_so, total_sdu_length |-> e.total_sdu_length]
  BY DEF Entries

LEMMA EntryMake ==
  ASSUME NEW n, NEW sn \in Sns, NEW s \in SUBSET Segments(n), NEW d \in Seq(Pieces(n)),
         NEW x \in Nat, NEW l \in Nat, OnePerSo(s)
  PROVE  [sn |-> sn, segments |-> s, sdu |-> d, next_expected_so |-> x,
          total_sdu_length |-> l] \in Entries(n)
  BY DEF Entries

NewSegment(pdu) ==
  [so |-> pdu.so, len |-> pdu.len, id |-> pdu.id, at |-> pdu.at, ends |-> pdu.ends]

OldEntry(r, sn) == IF sn \in HeldSns(r) THEN EntryOf(r, sn) ELSE NewEntry(sn)

LEMMA OldEntryIs ==
  ASSUME NEW n, NEW r \in Receivers(n), NEW sn \in Sns
  PROVE  /\ OldEntry(r, sn) \in Entries(n) /\ OldEntry(r, sn).sn = sn
         /\ OldEntry(r, sn) \in r.rx_window \/ OldEntry(r, sn) = NewEntry(sn)
  <1>1. CASE sn \in HeldSns(r)
    <2>1. \E e \in r.rx_window : e.sn = sn
      BY <1>1 DEF HeldSns
    <2>2. EntryOf(r, sn) \in r.rx_window /\ EntryOf(r, sn).sn = sn
      BY <2>1 DEF EntryOf
    <2> QED
      BY <1>1, <2>2, RxFields DEF OldEntry
  <1>2. CASE sn \notin HeldSns(r)
    <2>1. OnePerSo({})
      BY FS_EmptySet DEF OnePerSo
    <2>2. << >> \in Seq(Pieces(n)) /\ {} \in SUBSET Segments(n) /\ 0 \in Nat
      OBVIOUS
    <2>3. NewEntry(sn) \in Entries(n)
      BY <2>1, <2>2, EntryMake DEF NewEntry
    <2> QED
      BY <1>2, <2>3 DEF OldEntry, NewEntry
  <1> QED
    BY <1>1, <1>2

LEMMA OnePerSoAdd ==
  ASSUME NEW S, OnePerSo(S), NEW x, x.so \in Nat, \A s \in S : s.so # x.so
  PROVE  OnePerSo(S \union {x})
  <1>1. IsFiniteSet(S \union {x})
    BY FS_AddElement DEF OnePerSo
  <1> QED
    BY <1>1 DEF OnePerSo

LEMMA PlacedIs ==
  ASSUME NEW n, NEW r \in Receivers(n), NEW pdu \in Pdus(n)
  PROVE  LET old == OldEntry(r, pdu.sn)
             e == PlaceSegment(r, pdu)
         IN /\ e \in Entries(n) /\ e.sn = pdu.sn
            /\ e.segments \in {old.segments, old.segments \union {NewSegment(pdu)}}
            /\ e.sdu = old.sdu /\ e.next_expected_so = old.next_expected_so
            /\ e.total_sdu_length = IF pdu.si = "last" THEN pdu.so + pdu.len
                                    ELSE old.total_sdu_length
  <1> DEFINE old == OldEntry(r, pdu.sn)
             new == NewSegment(pdu)
             segs == IF \E s \in old.segments : s.so = pdu.so THEN old.segments
                     ELSE old.segments \union {new}
             tot == IF pdu.si = "last" THEN pdu.so + pdu.len ELSE old.total_sdu_length
  <1>1. pdu.sn \in Sns /\ pdu.so \in Nat /\ pdu.len \in Nat
    BY PduFields, UmFacts
  <1>2. old \in Entries(n) /\ old.sn = pdu.sn
    BY <1>1, OldEntryIs
  <1>3. PlaceSegment(r, pdu) = [old EXCEPT
                                    !.segments = IF \E s \in @ : s.so = pdu.so THEN @ ELSE @ \cup {new},
          !.total_sdu_length = IF pdu.si = "last" THEN pdu.so + pdu.len ELSE @]
    BY DEF PlaceSegment, OldEntry, NewSegment
  <1> HIDE DEF old, new
  <1>4. old = [sn |-> old.sn, segments |-> old.segments, sdu |-> old.sdu,
               next_expected_so |-> old.next_expected_so, total_sdu_length |-> old.total_sdu_length]
    BY <1>2, EntryFields
  <1>5. PlaceSegment(r, pdu) = [old EXCEPT !.segments = segs, !.total_sdu_length = tot]
    BY <1>3, <1>4
  <1>6. segs \in {old.segments, old.segments \union {new}}
    OBVIOUS
  <1>7. new \in Segments(n) /\ new.so = pdu.so
    BY PduFields DEF new, NewSegment, Segments
  <1>8. segs \in SUBSET Segments(n) /\ OnePerSo(segs)
    <2>1. old.segments \in SUBSET Segments(n) /\ OnePerSo(old.segments)
      BY <1>2, EntryFields
    <2>2. CASE \E s \in old.segments : s.so = pdu.so
      BY <2>1, <2>2
    <2>3. CASE ~\E s \in old.segments : s.so = pdu.so
      <3>1. OnePerSo(old.segments \union {new})
        BY <1>1, <1>7, <2>1, <2>3, OnePerSoAdd
      <3> QED
        BY <2>1, <2>3, <3>1, <1>7
    <2> QED
      BY <2>2, <2>3
  <1>9. tot \in Nat
    BY <1>1, <1>2, EntryFields
  <1> HIDE DEF segs, tot
  <1>10. PlaceSegment(r, pdu) = [sn |-> old.sn, segments |-> segs, sdu |-> old.sdu,
               next_expected_so |-> old.next_expected_so, total_sdu_length |-> tot]
    BY <1>4, <1>5
  <1>11. PlaceSegment(r, pdu) \in Entries(n)
    <2>1. old.sn \in Sns /\ old.sdu \in Seq(Pieces(n)) /\ old.next_expected_so \in Nat
      BY <1>2, EntryFields
    <2> QED
      BY <1>8, <1>9, <1>10, <2>1, EntryMake
  <1> QED
    BY <1>2, <1>6, <1>10, <1>11 DEF old, new, tot

Appended(e, s, a) ==
  /\ s.so = e.next_expected_so
  /\ ~(Len(e.sdu) > 1 /\ e.next_expected_so = e.total_sdu_length)
  /\ a.segments = e.segments \ {s}
  /\ a.sdu = Append(e.sdu, [id |-> s.id, at |-> s.at, ends |-> s.ends])
  /\ a.next_expected_so = e.next_expected_so + s.len

(* One segment taken from the entry and appended, or nothing. *)
LEMMA AppendIs ==
  ASSUME NEW n, NEW e \in Entries(n), NEW s \in Segments(n)
  PROVE  /\ AppendSegment(e, s) \in Entries(n) /\ AppendSegment(e, s).sn = e.sn
         /\ AppendSegment(e, s).total_sdu_length = e.total_sdu_length
         /\ AppendSegment(e, s) = e \/ Appended(e, s, AppendSegment(e, s))
  <1> DEFINE p == [id |-> s.id, at |-> s.at, ends |-> s.ends]
             a == [e EXCEPT !.segments = @ \ {s}, !.sdu = Append(@, p), !.next_expected_so = @ + s.len]
  <1>1. CASE s.so # e.next_expected_so \/ (Len(e.sdu) > 1 /\ e.next_expected_so = e.total_sdu_length)
    BY <1>1 DEF AppendSegment
  <1>2. CASE ~(s.so # e.next_expected_so \/ (Len(e.sdu) > 1 /\ e.next_expected_so = e.total_sdu_length))
    <2>1. AppendSegment(e, s) = a
      BY <1>2 DEF AppendSegment
    <2>2. /\ e.sn \in Sns /\ e.segments \in SUBSET Segments(n) /\ e.sdu \in Seq(Pieces(n))
          /\ e.next_expected_so \in Nat /\ e.total_sdu_length \in Nat /\ OnePerSo(e.segments)
      BY EntryFields
    <2>3. p \in Pieces(n) /\ s.len \in Nat
      BY UmFacts DEF Pieces, Segments
    <2> HIDE DEF p
    <2>4. a = [sn |-> e.sn, segments |-> e.segments \ {s}, sdu |-> Append(e.sdu, p),
               next_expected_so |-> e.next_expected_so + s.len, total_sdu_length |-> e.total_sdu_length]
      <3> DEFINE S1 == e.segments \ {s}
                 D1 == Append(e.sdu, p)
                 N1 == e.next_expected_so + s.len
      <3>0. a = [e EXCEPT !.segments = S1, !.sdu = D1, !.next_expected_so = N1]
        BY EntryFields
      <3>1. e = [sn |-> e.sn, segments |-> e.segments, sdu |-> e.sdu,
                 next_expected_so |-> e.next_expected_so, total_sdu_length |-> e.total_sdu_length]
        BY EntryFields
      <3> HIDE DEF S1, D1, N1, a
      <3>2. a = [sn |-> e.sn, segments |-> S1, sdu |-> D1, next_expected_so |-> N1,
                 total_sdu_length |-> e.total_sdu_length]
        BY <3>0, <3>1
      <3> QED
        BY <3>2 DEF S1, D1, N1
    <2>5. OnePerSo(e.segments \ {s})
      <3>1. IsFiniteSet(e.segments \ {s})
        BY <2>2, FS_Subset DEF OnePerSo
      <3> QED
        BY <2>2, <3>1 DEF OnePerSo
    <2>6. Append(e.sdu, p) \in Seq(Pieces(n))
      BY <2>2, <2>3, AppendProperties
    <2>7. e.next_expected_so + s.len \in Nat /\ e.segments \ {s} \in SUBSET Segments(n)
      BY <2>2, <2>3
    <2> HIDE DEF a
    <2>8. a \in Entries(n)
      BY <2>2, <2>4, <2>5, <2>6, <2>7, EntryMake
    <2> QED
      BY <1>2, <2>1, <2>4, <2>8 DEF p, Appended
  <1> QED
    BY <1>1, <1>2

LEMMA GrownType ==
  ASSUME NEW n, NEW r \in Receivers(n), NEW pdu \in Pdus(n)
  PROVE  Grown(r, pdu) \in Entries(n) /\ Grown(r, pdu).sn = pdu.sn
  <1> DEFINE P == {x \in Entries(n) : x.sn = pdu.sn}
             e == PlaceSegment(r, pdu)
  <1>1. e \in P /\ OnePerSo(e.segments) /\ e.segments \in SUBSET Segments(n)
    BY PlacedIs, EntryFields
  <1>2. \A x \in P, s \in e.segments : AppendSegment(x, s) \in P
    <2> SUFFICES ASSUME NEW x \in P, NEW s \in e.segments PROVE AppendSegment(x, s) \in P
      OBVIOUS
    <2> HIDE DEF e
    <2>1. x \in Entries(n) /\ x.sn = pdu.sn /\ s \in Segments(n)
      BY <1>1
    <2> HIDE DEF P
    <2>2. AppendSegment(x, s) \in Entries(n) /\ AppendSegment(x, s).sn = x.sn
      BY <2>1, AppendIs
    <2> QED
      BY <2>1, <2>2 DEF P
  <1> HIDE DEF e, P
  <1>3. Assembled(e) \in P
    BY <1>1, <1>2, AssembledKeeps
  <1> QED
    BY <1>3 DEF P, e, Grown

LEMMA HeldIs ==
  ASSUME NEW n, NEW r \in Receivers(n), NEW pdu \in Pdus(n)
  PROVE  LET h == Held(r, pdu) IN
         /\ h \in Receivers(n)
         /\ h.RX_Next_Highest = r.RX_Next_Highest /\ h.RX_Next_Reassembly = r.RX_Next_Reassembly
         /\ h.RX_Timer_Trigger = r.RX_Timer_Trigger /\ h.reassembly_timer = r.reassembly_timer
         /\ h.rx_window = {e \in r.rx_window : e.sn # pdu.sn} \union {Grown(r, pdu)}
  <1> DEFINE g == Grown(r, pdu)
             w == {e \in r.rx_window : e.sn # pdu.sn} \union {g}
  <1>1. g \in Entries(n) /\ g.sn = pdu.sn
    BY GrownType
  <1>2. Held(r, pdu) = [r EXCEPT !.rx_window = w]
    BY RxFields DEF Held
  <1> HIDE DEF g
  <1>3. w \in SUBSET Entries(n) /\ \A e, f \in w : e.sn = f.sn => e = f
    BY <1>1, RxFields
  <1> HIDE DEF w
  <1>4. Held(r, pdu) = [RX_Next_Reassembly |-> r.RX_Next_Reassembly,
        RX_Timer_Trigger |-> r.RX_Timer_Trigger,
             RX_Next_Highest |-> r.RX_Next_Highest,
             rx_window |-> w, reassembly_timer |-> r.reassembly_timer]
    BY <1>2, RxFields
  <1>5. Held(r, pdu) \in Receivers(n)
    <2>1. /\ r.RX_Next_Reassembly \in Sns /\ r.RX_Timer_Trigger \in Sns
          /\ r.RX_Next_Highest \in Sns /\ r.reassembly_timer \in BOOLEAN
      BY RxFields
    <2> QED
      BY <1>3, <1>4, <2>1, RxMake
  <1> QED
    BY <1>4, <1>5 DEF w, g

LEMMA HandleType ==
  ASSUME NEW n, NEW r \in Receivers(n), NEW pdu \in Pdus(n)
  PROVE  /\ handle_data_pdu(r, pdu).rx \in Receivers(n)
         /\ handle_data_pdu(r, pdu).sdu \in Seq(Pieces(n))
  <1> DEFINE got == handle_data_pdu(r, pdu)
             h == Held(r, pdu)
  <1>0. pdu.sn \in Sns
    BY PduFields
  <1>1. h \in Receivers(n)
    BY HeldIs
  <1>2. UpdateTimer(h) \in Receivers(n)
    BY <1>1, TimerType
  <1>3. UpdateTimer(Delivered(h, pdu.sn)) \in Receivers(n)
    BY <1>1, DeliveredType, TimerType
  <1>4. UpdateTimer(WindowMoved(h, pdu.sn)) \in Receivers(n)
    BY <1>0, <1>1, WindowMovedType, TimerType
  <1>5. Grown(r, pdu).sdu \in Seq(Pieces(n)) /\ << >> \in Seq(Pieces(n))
    BY GrownType, EntryFields
  <1>6. [id |-> pdu.id, at |-> pdu.at, ends |-> pdu.ends] \in Pieces(n)
    BY PduFields DEF Pieces
  <1>7. << [id |-> pdu.id, at |-> pdu.at, ends |-> pdu.ends] >> \in Seq(Pieces(n))
    BY <1>6
  <1>8. CASE pdu.si = "full"
    <2>1. got.rx = r /\ got.sdu = << [id |-> pdu.id, at |-> pdu.at, ends |-> pdu.ends] >>
      BY <1>8, HandleCases
    <2> QED
      BY <1>7, <2>1
  <1>9. CASE pdu.si # "full" /\ sn_invalid_for_rx_buffer(r, pdu.sn)
    <2>1. got.rx = r /\ got.sdu = << >>
      BY <1>9, HandleCases
    <2> QED
      BY <1>5, <2>1
  <1>10. CASE pdu.si # "full" /\ ~sn_invalid_for_rx_buffer(r, pdu.sn)
    <2>1. CASE Done(r, pdu)
      <3>1. got.rx = UpdateTimer(Delivered(h, pdu.sn)) /\ got.sdu = Grown(r, pdu).sdu
        BY <1>10, <2>1, HandleCases
      <3> QED
        BY <1>3, <1>5, <3>1
    <2>2. CASE ~Done(r, pdu) /\ sn_in_reassembly_window(h, pdu.sn)
      <3>1. got.rx = UpdateTimer(h) /\ got.sdu = << >>
        BY <1>10, <2>2, HandleCases
      <3> QED
        BY <1>2, <1>5, <3>1
    <2>3. CASE ~Done(r, pdu) /\ ~sn_in_reassembly_window(h, pdu.sn)
      <3>1. got.rx = UpdateTimer(WindowMoved(h, pdu.sn)) /\ got.sdu = << >>
        BY <1>10, <2>3, HandleCases
      <3> QED
        BY <1>4, <1>5, <3>1
    <2> QED
      BY <2>1, <2>2, <2>3
  <1> QED
    BY <1>8, <1>9, <1>10

-----------------------------------------------------------------------------
(* The HARQ processes after some of them are done: the oldest may be gone, the others
   keep their place from the end, and hold what they held or nothing.       *)
Thinner(a, b) ==
  /\ Len(b) <= Len(a)
  /\ \A j \in 1 .. Len(b) : b[j] \in {a[j + (Len(a) - Len(b))], NoPdu}

LEMMA FreeIs ==
  ASSUME NEW S, NEW a \in Seq(S)
  PROVE  LET b == Free(a) IN
         /\ b \in Seq(S) /\ Len(b) <= Len(a)
         /\ \A j \in 1 .. Len(b) : b[j] = a[j + (Len(a) - Len(b))]
         /\ \A j \in 1 .. (Len(a) - Len(b)) : a[j] = NoPdu
  <1> DEFINE busy == {i \in 1 .. Len(a) : a[i] # NoPdu}
             m == Min(busy)
  <1>0. Len(a) \in Nat
    OBVIOUS
  <1>1. CASE busy = {}
    <2>1. Free(a) = << >>
      BY <1>1 DEF Free
    <2>2. << >> \in Seq(S) /\ Len(<< >>) = 0
      OBVIOUS
    <2> QED
      BY <1>0, <1>1, <2>1, <2>2
  <1>2. CASE busy # {}
    <2>1. busy \in SUBSET Nat
      OBVIOUS
    <2>2. Free(a) = SubSeq(a, m, Len(a))
      BY <1>2 DEF Free
    <2>3. m \in busy /\ \A x \in busy : m <= x
      <3> HIDE DEF busy
      <3> QED
        BY <1>2, <2>1, MinIsIn
    <2>4. m \in 1 .. Len(a) /\ \A j \in 1 .. m - 1 : a[j] = NoPdu
      <3> HIDE DEF m
      <3>1. m \in 1 .. Len(a)
        BY <2>3
      <3>2. ASSUME NEW j \in 1 .. m - 1 PROVE a[j] = NoPdu
        <4>1. j \in 1 .. Len(a) /\ j < m /\ j \in Nat
          BY <1>0, <3>1
        <4>2. j \notin busy
          BY <2>3, <3>1, <4>1
        <4> QED
          BY <4>1, <4>2
      <3> QED
        BY <3>1, <3>2
    <2> HIDE DEF m, busy
    <2>5. /\ SubSeq(a, m, Len(a)) \in Seq(S)
          /\ Len(SubSeq(a, m, Len(a))) = Len(a) - m + 1
          /\ \A j \in 1 .. (Len(a) - m + 1) : SubSeq(a, m, Len(a))[j] = a[j + m - 1]
      <3>1. /\ SubSeq(a, m, Len(a)) \in Seq(S)
            /\ Len(SubSeq(a, m, Len(a))) = (IF m <= Len(a) THEN Len(a) - m + 1 ELSE 0)
        BY <1>0, <2>4, SubSeqProperties
      <3>2. ASSUME NEW j \in 1 .. (Len(a) - m + 1)
            PROVE  SubSeq(a, m, Len(a))[j] = a[j + m - 1]
        <4>1. SubSeq(a, m, Len(a))[j] = a[m + j - 1]
          BY <1>0, <2>4
        <4>2. m + j - 1 = j + m - 1
          BY <2>4, <1>0
        <4> QED
          BY <4>1, <4>2
      <3> QED
        BY <1>0, <2>4, <3>1, <3>2
    <2> DEFINE b == Free(a)
    <2>6. b \in Seq(S) /\ Len(b) = Len(a) - m + 1
          /\ \A j \in 1 .. (Len(a) - m + 1) : b[j] = a[j + m - 1]
      BY <2>2, <2>5
    <2> HIDE DEF b
    <2>7. Len(a) - Len(b) = m - 1
      BY <1>0, <2>4, <2>6
    <2>8. \A j \in 1 .. Len(b) : b[j] = a[j + (Len(a) - Len(b))]
      <3> SUFFICES ASSUME NEW j \in 1 .. Len(b) PROVE b[j] = a[j + (Len(a) - Len(b))]
        OBVIOUS
      <3>1. b[j] = a[j + m - 1] /\ j + (Len(a) - Len(b)) = j + m - 1
        BY <1>0, <2>4, <2>6, <2>7
      <3> QED
        BY <3>1
    <2> QED
      BY <1>0, <2>4, <2>6, <2>7, <2>8 DEF b
  <1> QED
    BY <1>1, <1>2

(* One process done, and the ones that are free again. *)
LEMMA ThinnerAir ==
  ASSUME NEW S, NEW a \in Seq(S), NoPdu \in S, NEW i \in DOMAIN a
  PROVE  LET b == Free([a EXCEPT ![i] = NoPdu]) IN
         /\ b \in Seq(S) /\ Thinner(a, b)
         /\ \A j \in DOMAIN a : j # i /\ a[j] # NoPdu =>
              j - (Len(a) - Len(b)) \in DOMAIN b /\ b[j - (Len(a) - Len(b))] = a[j]
  <1> DEFINE c == [a EXCEPT ![i] = NoPdu]
             b == Free(c)
  <1>1. Len(a) \in Nat /\ DOMAIN a = 1 .. Len(a)
    OBVIOUS
  <1>2. c \in Seq(S) /\ Len(c) = Len(a)
    BY ExceptSeq
  <1>3. \A j \in 1 .. Len(a) : c[j] = IF j = i THEN NoPdu ELSE a[j]
    BY <1>1
  <1> HIDE DEF c
  <1>4. /\ b \in Seq(S) /\ Len(b) <= Len(a)
        /\ \A j \in 1 .. Len(b) : b[j] = c[j + (Len(a) - Len(b))]
        /\ \A j \in 1 .. (Len(a) - Len(b)) : c[j] = NoPdu
    BY <1>2, FreeIs
  <1> HIDE DEF b
  <1>5. Len(b) \in Nat /\ DOMAIN b = 1 .. Len(b)
    BY <1>4
  <1>6. Thinner(a, b)
    BY <1>1, <1>3, <1>4, <1>5 DEF Thinner
  <1>7. ASSUME NEW j \in DOMAIN a, j # i, a[j] # NoPdu
        PROVE  j - (Len(a) - Len(b)) \in DOMAIN b /\ b[j - (Len(a) - Len(b))] = a[j]
    <2> DEFINE k == j - (Len(a) - Len(b))
    <2>1. c[j] = a[j]
      BY <1>1, <1>3, <1>7
    <2>2. ~(j \in 1 .. (Len(a) - Len(b)))
      BY <1>4, <1>7, <2>1
    <2>3. k \in 1 .. Len(b) /\ k + (Len(a) - Len(b)) = j
      BY <1>1, <1>4, <1>5, <2>2
    <2> HIDE DEF k
    <2>4. b[k] = c[j]
      BY <1>4, <2>3
    <2> QED
      BY <1>5, <2>1, <2>3, <2>4 DEF k
  <1> QED
    BY <1>4, <1>6, <1>7 DEF b, c

LEMMA TimerExpiredType ==
  ASSUME NEW n, NEW r \in Receivers(n)
  PROVE  LET x == timer_expired(r) IN
         /\ x \in Receivers(n)
         /\ x.RX_Next_Highest = r.RX_Next_Highest
         /\ x.rx_window \in SUBSET r.rx_window
         /\ x.RX_Next_Reassembly =
              IF RX_MOD_NR_BASE(r, r.RX_Timer_Trigger) < RX_MOD_NR_BASE(r, r.RX_Next_Highest)
              THEN r.RX_Next_Highest ELSE r.RX_Timer_Trigger
         /\ x.reassembly_timer => x.RX_Timer_Trigger = r.RX_Next_Highest
  <1> DEFINE nr == IF RX_MOD_NR_BASE(r, r.RX_Timer_Trigger) < RX_MOD_NR_BASE(r, r.RX_Next_Highest)
                   THEN r.RX_Next_Highest ELSE r.RX_Timer_Trigger
             m == [r EXCEPT !.reassembly_timer = FALSE, !.RX_Next_Reassembly = nr]
             w == {e \in r.rx_window :
                     RX_MOD_NR_BASE(m, e.sn) >= RX_MOD_NR_BASE(m, m.RX_Next_Reassembly)}
             d == DropBelow(m)
  <1>1. /\ r.RX_Next_Reassembly \in Sns /\ r.RX_Timer_Trigger \in Sns /\ r.RX_Next_Highest \in Sns
        /\ r.rx_window \in SUBSET Entries(n) /\ r.reassembly_timer \in BOOLEAN
        /\ \A e, f \in r.rx_window : e.sn = f.sn => e = f
        /\ r = [RX_Next_Reassembly |-> r.RX_Next_Reassembly, RX_Timer_Trigger |-> r.RX_Timer_Trigger,
                RX_Next_Highest |-> r.RX_Next_Highest, rx_window |-> r.rx_window,
                reassembly_timer |-> r.reassembly_timer]
    BY RxFields
  <1>2. timer_expired(r) = StartTimer(d)
    BY DEF timer_expired
  <1>3. nr \in Sns
    BY <1>1
  <1> HIDE DEF nr
  <1>4. m = [RX_Next_Reassembly |-> nr, RX_Timer_Trigger |-> r.RX_Timer_Trigger,
             RX_Next_Highest |-> r.RX_Next_Highest, rx_window |-> r.rx_window,
             reassembly_timer |-> FALSE]
    <2> DEFINE q == r
    <2>1. m = [q EXCEPT !.reassembly_timer = FALSE, !.RX_Next_Reassembly = nr]
      OBVIOUS
    <2> HIDE DEF m
    <2> QED
      BY <1>1, <2>1
  <1> HIDE DEF m
  <1>5. w \in SUBSET r.rx_window
    OBVIOUS
  <1>6. d = [m EXCEPT !.rx_window = w]
    <2>1. m.rx_window = r.rx_window
      BY <1>4
    <2>2. d = [m EXCEPT !.rx_window = {e \in m.rx_window :
                       RX_MOD_NR_BASE(m, e.sn) >= RX_MOD_NR_BASE(m, m.RX_Next_Reassembly)}]
      BY <1>4 DEF DropBelow
    <2> QED
      BY <2>1, <2>2
  <1> HIDE DEF w, d
  <1>7. d = [RX_Next_Reassembly |-> nr, RX_Timer_Trigger |-> r.RX_Timer_Trigger,
             RX_Next_Highest |-> r.RX_Next_Highest, rx_window |-> w, reassembly_timer |-> FALSE]
    BY <1>4, <1>6
  <1>8. d \in Receivers(n)
    <2>1. w \in SUBSET Entries(n) /\ \A e, f \in w : e.sn = f.sn => e = f
      BY <1>1, <1>5
    <2>2. FALSE \in BOOLEAN
      OBVIOUS
    <2> QED
      BY <1>1, <1>3, <1>7, <2>1, <2>2, RxMake
  <1>9. /\ StartTimer(d) \in Receivers(n)
        /\ StartTimer(d).RX_Next_Highest = d.RX_Next_Highest
        /\ StartTimer(d).rx_window = d.rx_window
        /\ StartTimer(d).RX_Next_Reassembly = d.RX_Next_Reassembly
        /\ StartTimer(d).reassembly_timer =>
              \/ StartTimer(d).RX_Timer_Trigger = d.RX_Next_Highest
              \/ d.reassembly_timer /\ StartTimer(d).RX_Timer_Trigger = d.RX_Timer_Trigger
    BY <1>8, TimerType
  <1> QED
    BY <1>2, <1>5, <1>7, <1>9 DEF nr

LEMMA InitType ==
  ASSUME NEW n \in Nat
  PROVE  TxInit \in Transmitters(n) /\ RxInit \in Receivers(n)
  <1>1. 0 \in Sns
    BY UmFacts DEF Sns
  <1>2. << >> \in Seq(Sdus(n))
    OBVIOUS
  <1>3. TxInit \in Transmitters(n)
    BY <1>1, <1>2 DEF TxInit, Transmitters
  <1>4. {} \in SUBSET Entries(n) /\ FALSE \in BOOLEAN /\ \A e, f \in {} : e.sn = f.sn => e = f
    OBVIOUS
  <1>5. RxInit \in Receivers(n)
    BY <1>1, <1>4, RxMake DEF RxInit
  <1> QED
    BY <1>3, <1>5

-----------------------------------------------------------------------------
(* The transmitter of an SDU that is partly sent, and the PDU, know how far they are. *)
TxTrue(t) ==
  /\ \A j \in 1 .. Len(t.queue) : t.queue[j].left = SduLen
  /\ t.tx_sdu # NoSdu => t.tx_sdu.left < SduLen /\ t.next_so = SduLen - t.tx_sdu.left

PduTrue(p) ==
  /\ p.so = p.at /\ p.at + p.len <= SduLen
  /\ p.ends <=> p.at + p.len = SduLen
  /\ p.si \in {"first", "full"} <=> p.at = 0
  /\ p.si \in {"last", "full"} <=> p.ends

AirTrue(a) == \A i \in DOMAIN a : a[i] # NoPdu => PduTrue(a[i])

(* What build_data_pdu does when it makes a PDU, for each segmentation info. *)
BuiltFull(t, x, p) ==
  /\ t.tx_sdu = NoSdu /\ t.queue # << >> /\ x.tx_sdu = NoSdu /\ x.queue = Tail(t.queue)
  /\ x.TX_Next = t.TX_Next /\ p.si = "full" /\ p.id = Head(t.queue).id

BuiltFirst(t, x, p) ==
  /\ t.tx_sdu = NoSdu /\ t.queue # << >> /\ x.tx_sdu # NoSdu /\ x.queue = Tail(t.queue)
  /\ x.TX_Next = t.TX_Next /\ p.si = "first" /\ p.id = Head(t.queue).id /\ x.tx_sdu.id = p.id

BuiltMiddle(t, x, p) ==
  /\ t.tx_sdu # NoSdu /\ x.tx_sdu # NoSdu /\ x.queue = t.queue
  /\ x.TX_Next = t.TX_Next /\ p.si = "middle" /\ p.id = t.tx_sdu.id /\ x.tx_sdu.id = p.id

BuiltLast(t, x, p) ==
  /\ t.tx_sdu # NoSdu /\ x.tx_sdu = NoSdu /\ x.queue = t.queue
  /\ x.TX_Next = (t.TX_Next + 1) % UmMod /\ p.si = "last" /\ p.id = t.tx_sdu.id

Built(t, x, p) ==
  /\ p.sn = t.TX_Next /\ PduTrue(p)
  /\ BuiltFull(t, x, p) \/ BuiltFirst(t, x, p) \/ BuiltMiddle(t, x, p) \/ BuiltLast(t, x, p)

LEMMA SduFields ==
  ASSUME NEW n, NEW s \in Sdus(n)
  PROVE  s.id \in Ids(n) /\ s.len = SduLen /\ s.left \in 1 .. SduLen
         /\ s = [id |-> s.id, len |-> s.len, left |-> s.left]
  BY DEF Sdus

LEMMA TxFields ==
  ASSUME NEW n, NEW t \in Transmitters(n)
  PROVE  /\ t.TX_Next \in Sns /\ t.next_so \in Nat /\ t.tx_sdu \in Sdus(n) \union {NoSdu}
         /\ t.queue \in Seq(Sdus(n))
         /\ t = [TX_Next |-> t.TX_Next, next_so |-> t.next_so, tx_sdu |-> t.tx_sdu, queue |-> t.queue]
  BY DEF Transmitters

LEMMA HeadTail ==
  ASSUME NEW S, NEW q \in Seq(S), q # << >>
  PROVE  /\ Head(q) \in S /\ Head(q) = q[1] /\ Tail(q) \in Seq(S) /\ Len(q) \in Nat \ {0}
         /\ Len(Tail(q)) = Len(q) - 1 /\ \A j \in 1 .. Len(Tail(q)) : Tail(q)[j] = q[j + 1]
  <1>1. Len(q) \in Nat /\ Len(q) # 0
    BY EmptySeq
  <1>2. Head(q) \in S /\ Tail(q) \in Seq(S) /\ Len(Tail(q)) = Len(q) - 1
    BY HeadTailProperties
  <1>3. \A j \in 1 .. Len(Tail(q)) : Tail(q)[j] = q[j + 1]
    BY HeadTailProperties
  <1>4. Head(q) = q[1]
    BY HeadTailProperties
  <1> QED
    BY <1>1, <1>2, <1>3, <1>4

LEMMA BuildCases ==
  ASSUME ~Sn12Bits, NEW n, NEW t \in Transmitters(n), TxTrue(t), has_data(t),
         NEW g \in Nat, g >= 3, NEW b, b = build_data_pdu(t, g)
  PROVE  /\ b.tx \in Transmitters(n) /\ b.pdu \in Pdus(n) \union {NoPdu} /\ TxTrue(b.tx)
         /\ b.pdu = NoPdu => b.tx = t
         /\ b.pdu # NoPdu => Built(t, b.tx, b.pdu)
  <1> DEFINE fresh == t.tx_sdu = NoSdu
             sdu   == IF fresh THEN Head(t.queue) ELSE t.tx_sdu
             so    == IF fresh THEN 0 ELSE t.next_so
             si    == IF fresh
                      THEN IF sdu.left <= g - 1 THEN "full" ELSE "first"
                      ELSE IF sdu.left <= g - head_len_segment THEN "last" ELSE "middle"
             head  == packed_length(si, so)
             moved == IF g - head >= sdu.left THEN sdu.left ELSE g - head
             rest  == IF fresh THEN Tail(t.queue) ELSE t.queue
             taken == [t EXCEPT !.tx_sdu = sdu, !.next_so = so,
                                !.queue = IF fresh THEN Tail(@) ELSE @]
             after == IF moved = sdu.left THEN NoSdu ELSE [sdu EXCEPT !.left = @ - moved]
             tx    == [taken EXCEPT !.tx_sdu  = after,
                                    !.next_so = NextSo(si, so, moved),
                                    !.TX_Next = NextTxNext(t, si)]
             pdu   == [si |-> si, sn |-> t.TX_Next, so |-> so, id |-> sdu.id,
                       at |-> sdu.len - sdu.left, len |-> moved, ends |-> moved = sdu.left]
  <1>0. b.tx \in Transmitters(n) /\ b.pdu \in Pdus(n) \union {NoPdu}
    BY BuildType
  <1>1. b = IF g <= head + 1 THEN [tx |-> taken, pdu |-> NoPdu] ELSE [tx |-> tx, pdu |-> pdu]
    BY DEF build_data_pdu
  <1>2. /\ t.TX_Next \in Sns /\ t.next_so \in Nat /\ t.tx_sdu \in Sdus(n) \union {NoSdu}
        /\ t.queue \in Seq(Sdus(n))
        /\ t = [TX_Next |-> t.TX_Next, next_so |-> t.next_so, tx_sdu |-> t.tx_sdu, queue |-> t.queue]
    BY TxFields
  <1>3. fresh => /\ t.queue # << >> /\ sdu = t.queue[1] /\ sdu \in Sdus(n) /\ sdu.left = SduLen
                 /\ Len(rest) = Len(t.queue) - 1 /\ \A j \in 1 .. Len(rest) : rest[j] = t.queue[j + 1]
    <2> SUFFICES ASSUME fresh
                 PROVE  /\ t.queue # << >> /\ sdu = t.queue[1] /\ sdu \in Sdus(n) /\ sdu.left = SduLen
                        /\ Len(rest) = Len(t.queue) - 1
                           /\ \A j \in 1 .. Len(rest) : rest[j] = t.queue[j + 1]
      OBVIOUS
    <2>1. t.queue # << >>
      BY DEF has_data
    <2>2. /\ Head(t.queue) \in Sdus(n) /\ Head(t.queue) = t.queue[1] /\ Len(t.queue) \in Nat \ {0}
          /\ Len(Tail(t.queue)) = Len(t.queue) - 1
          /\ \A j \in 1 .. Len(Tail(t.queue)) : Tail(t.queue)[j] = t.queue[j + 1]
      BY <1>2, <2>1, HeadTail
    <2>3. 1 \in 1 .. Len(t.queue)
      BY <2>2
    <2>4. t.queue[1].left = SduLen
      BY <2>3 DEF TxTrue
    <2> QED
      BY <2>1, <2>2, <2>4
  <1>4. ~fresh => sdu \in Sdus(n) /\ sdu.left < SduLen /\ so = SduLen - sdu.left /\ sdu = t.tx_sdu
    BY <1>2 DEF TxTrue
  <1>5. \A j \in 1 .. Len(rest) : rest[j].left = SduLen
    <2>1. CASE fresh
      <3> SUFFICES ASSUME NEW j \in 1 .. Len(rest) PROVE rest[j].left = SduLen
        OBVIOUS
      <3>0. Len(t.queue) \in Nat
        BY <1>2
      <3>1. j + 1 \in 1 .. Len(t.queue) /\ rest[j] = t.queue[j + 1]
        BY <1>3, <2>1, <3>0
      <3> QED
        BY <3>1 DEF TxTrue
    <2>2. CASE ~fresh
      BY <2>2 DEF TxTrue
    <2> QED
      BY <2>1, <2>2
  <1>6. sdu.left \in 1 .. SduLen /\ sdu.len = SduLen /\ sdu.id \in Ids(n) /\ SduLen \in Nat
        /\ sdu # NoSdu
        /\ sdu \in Sdus(n)
    BY <1>3, <1>4, SduFields, SduIsSome, UmFacts
  <1>7. taken = [TX_Next |-> t.TX_Next, next_so |-> so, tx_sdu |-> sdu, queue |-> rest]
    <2> HIDE DEF sdu, so, si
    <2>2. taken = [t EXCEPT !.tx_sdu = sdu, !.next_so = so, !.queue = rest]
      BY <1>2
    <2> HIDE DEF rest, taken
    <2> QED
      BY <1>2, <2>2
  <1>8. so = SduLen - sdu.left /\ so \in Nat
    BY <1>2, <1>3, <1>4, <1>6
  <1> HIDE DEF sdu
  <1>9. /\ fresh => head = 1 /\ si \in {"full", "first"} /\ (si = "full" <=> sdu.left <= g - 1)
        /\ ~fresh => head = 3 /\ si \in {"last", "middle"} /\ (si = "last" <=> sdu.left <= g - 3)
    <2>1. ~fresh => so # 0
      BY <1>4, <1>6
    <2> QED
      BY <1>6, <2>1 DEF packed_length, head_len_segment
  <1> HIDE DEF so, si, head, rest, taken, fresh
  <1>10. CASE g <= head + 1
    <2>1. ~fresh /\ b.tx = taken /\ b.pdu = NoPdu
      BY <1>1, <1>9, <1>10
    <2>2. taken = t
      BY <1>2, <1>4, <1>7, <2>1 DEF so, rest, fresh
    <2> QED
      BY <1>0, <2>1, <2>2
  <1>11. CASE ~(g <= head + 1)
    <2>1. b.tx = tx /\ b.pdu = pdu
      BY <1>1, <1>11
    <2>2. /\ moved \in 1 .. SduLen /\ moved <= sdu.left
          /\ moved = sdu.left <=> si \in {"full", "last"}
      BY <1>6, <1>9, <1>11
    <2> HIDE DEF moved
    <2>3. tx = [TX_Next |-> NextTxNext(t, si), next_so |-> NextSo(si, so, moved), tx_sdu |-> after,
                queue |-> rest]
      <3> DEFINE a1 == NextSo(si, so, moved)
                 a2 == NextTxNext(t, si)
      <3>1. tx = [taken EXCEPT !.tx_sdu = after, !.next_so = a1, !.TX_Next = a2]
        OBVIOUS
      <3> HIDE DEF after, a1, a2, tx
      <3>2. tx = [TX_Next |-> a2, next_so |-> a1, tx_sdu |-> after, queue |-> rest]
        BY <1>7, <3>1
      <3> QED
        BY <3>2 DEF a1, a2
    <2>4. moved # sdu.left => /\ after \in Sdus(n) /\ after.left = sdu.left - moved /\ after.id = sdu.id
                              /\ after # NoSdu
      <3> SUFFICES ASSUME moved # sdu.left
                   PROVE  /\ after \in Sdus(n) /\ after.left = sdu.left - moved /\ after.id = sdu.id
                          /\ after # NoSdu
        OBVIOUS
      <3>1. after = [sdu EXCEPT !.left = @ - moved]
        OBVIOUS
      <3>2. sdu = [id |-> sdu.id, len |-> sdu.len, left |-> sdu.left]
        BY <1>6, SduFields
      <3>3. after = [id |-> sdu.id, len |-> sdu.len, left |-> sdu.left - moved]
        BY <3>1, <3>2
      <3> HIDE DEF after
      <3>4. sdu.left - moved \in 1 .. SduLen
        BY <1>6, <2>2
      <3>5. after \in Sdus(n)
        BY <1>6, <3>3, <3>4 DEF Sdus
      <3> QED
        BY <3>3, <3>5, SduIsSome
    <2>5. moved = sdu.left => after = NoSdu
      OBVIOUS
    <2> HIDE DEF after, tx
    <2>6. TxTrue(tx)
      <3>1. tx.queue = rest /\ tx.tx_sdu = after /\ tx.next_so = NextSo(si, so, moved)
        BY <2>3
      <3>2. after # NoSdu => after.left < SduLen /\ tx.next_so = SduLen - after.left
        BY <1>6, <1>8, <2>2, <2>4, <2>5, <3>1 DEF NextSo
      <3> QED
        BY <1>5, <3>1, <3>2 DEF TxTrue
    <2>7. PduTrue(pdu) /\ pdu.sn = t.TX_Next /\ pdu.si = si /\ pdu.id = sdu.id
      <3>1. /\ pdu.so = so /\ pdu.at = sdu.len - sdu.left /\ pdu.len = moved
            /\ pdu.ends = (moved = sdu.left) /\ pdu.si = si /\ pdu.sn = t.TX_Next /\ pdu.id = sdu.id
        OBVIOUS
      <3> HIDE DEF pdu
      <3>2. pdu.so = pdu.at /\ pdu.at + pdu.len <= SduLen
        BY <1>6, <1>8, <2>2, <3>1
      <3>3. pdu.ends <=> pdu.at + pdu.len = SduLen
        <4> DEFINE x == sdu.left  y == pdu.at  z == pdu.len
        <4>1. x \in Nat /\ SduLen \in Nat /\ moved \in Nat /\ y = SduLen - x /\ z = moved
          BY <1>6, <2>2, <3>1
        <4> HIDE DEF x, y, z
        <4>2. y + z = SduLen <=> moved = x
          BY <4>1
        <4>3. pdu.ends <=> moved = x
          BY <3>1 DEF x
        <4> QED
          BY <4>2, <4>3 DEF y, z
      <3>4. si \in {"first", "full"} <=> pdu.at = 0
        <4>1. fresh => sdu.left = SduLen
          BY <1>3 DEF sdu
        <4>2. ~fresh => sdu.left < SduLen
          BY <1>4
        <4> QED
          BY <1>6, <1>9, <3>1, <4>1, <4>2
      <3>5. si \in {"last", "full"} <=> pdu.ends
        BY <2>2, <3>1
      <3> QED
        BY <3>1, <3>2, <3>3, <3>4, <3>5 DEF PduTrue
    <2>7a. pdu # NoPdu
      <3>1. "si" \in DOMAIN pdu /\ DOMAIN NoPdu = {"none"}
        BY DEF NoPdu
      <3> HIDE DEF pdu
      <3> QED
        BY <3>1
    <2> HIDE DEF pdu
    <2>8. tx.TX_Next = NextTxNext(t, si) /\ tx.tx_sdu = after /\ tx.queue = rest
      BY <2>3
    <2>9. fresh => t.queue # << >> /\ rest = Tail(t.queue) /\ sdu = Head(t.queue)
      BY <1>3 DEF rest, sdu
    <2>10. ~fresh => rest = t.queue /\ sdu = t.tx_sdu
      BY <1>4 DEF rest
    <2>11. CASE fresh
      <3>1. ASSUME si = "full" PROVE BuiltFull(t, tx, pdu)
        BY <1>9, <2>2, <2>5, <2>7, <2>8, <2>9, <2>11, <3>1 DEF BuiltFull, NextTxNext, fresh
      <3>2. ASSUME si = "first" PROVE BuiltFirst(t, tx, pdu)
        BY <1>9, <2>2, <2>4, <2>7, <2>8, <2>9, <2>11, <3>2 DEF BuiltFirst, NextTxNext, fresh
      <3>3. Built(t, tx, pdu)
        BY <1>9, <2>7, <2>11, <3>1, <3>2 DEF Built
      <3> QED
        BY <1>0, <2>1, <2>6, <2>7a, <3>3
    <2>12. CASE ~fresh
      <3>1. ASSUME si = "last" PROVE BuiltLast(t, tx, pdu)
        BY <1>9, <2>2, <2>5, <2>7, <2>8, <2>10, <2>12, <3>1 DEF BuiltLast, NextTxNext, fresh
      <3>2. ASSUME si = "middle" PROVE BuiltMiddle(t, tx, pdu)
        BY <1>9, <2>2, <2>4, <2>7, <2>8, <2>10, <2>12, <3>2 DEF BuiltMiddle, NextTxNext, fresh
      <3>3. Built(t, tx, pdu)
        BY <1>9, <2>7, <2>12, <3>1, <3>2 DEF Built
      <3> QED
        BY <1>0, <2>1, <2>6, <2>7a, <3>3
    <2> QED
      BY <2>11, <2>12
  <1> QED
    BY <1>10, <1>11

LEMMA WriteType ==
  ASSUME NEW n \in Nat, NEW t \in Transmitters(n), ~sdu_queue_is_full(t),
         NEW x, x = try_write_sdu(t, [id |-> n, len |-> SduLen, left |-> SduLen])
  PROVE  /\ x \in Transmitters(n + 1) /\ Len(t.queue) < TxQueueLen
         /\ x.TX_Next = t.TX_Next /\ x.next_so = t.next_so /\ x.tx_sdu = t.tx_sdu
         /\ x.queue = Append(t.queue, [id |-> n, len |-> SduLen, left |-> SduLen])
  <1> DEFINE s == [id |-> n, len |-> SduLen, left |-> SduLen]
             q == Append(t.queue, s)
  <1>1. /\ t.TX_Next \in Sns /\ t.next_so \in Nat /\ t.tx_sdu \in Sdus(n) \union {NoSdu}
        /\ t.queue \in Seq(Sdus(n))
        /\ t = [TX_Next |-> t.TX_Next, next_so |-> t.next_so, tx_sdu |-> t.tx_sdu, queue |-> t.queue]
    BY TxFields
  <1>2. x = [t EXCEPT !.queue = q]
    BY <1>1 DEF try_write_sdu
  <1>3. s \in Sdus(n + 1)
    BY UmFacts DEF Sdus, Ids
  <1>4. Sdus(n) \subseteq Sdus(n + 1)
    BY Monotone
  <1> HIDE DEF s
  <1>5. q \in Seq(Sdus(n + 1))
    <2>1. t.queue \in Seq(Sdus(n + 1))
      BY <1>1, <1>4, SeqMonotonic
    <2> QED
      BY <1>3, <2>1, AppendProperties
  <1> HIDE DEF q
  <1>6. x = [TX_Next |-> t.TX_Next, next_so |-> t.next_so, tx_sdu |-> t.tx_sdu, queue |-> q]
    BY <1>1, <1>2
  <1>7. x \in Transmitters(n + 1)
    BY <1>1, <1>4, <1>5, <1>6 DEF Transmitters
  <1>8. Len(t.queue) < TxQueueLen
    <2>1. Len(t.queue) \in Nat /\ TxQueueLen \in Nat
      BY <1>1, UmFacts
    <2> QED
      BY <2>1 DEF sdu_queue_is_full
  <1> QED
    BY <1>6, <1>7, <1>8 DEF q, s

(* The COUNT of an SDU written, whatever the receiver does. *)
LEMMA WriteSduCounts ==
  ASSUME tx_next \in Nat, tx_next < MaxSdus, write_sdu
  PROVE  tx_next' = tx_next + 1 /\ tx_overflow' = FALSE
  <1>1. CountMod \in Nat /\ MaxSdus \in 0 .. CountMod - 1
    BY PdcpNrAssumption, BearerAssumption DEF CountMod
  <1>2. Plus1(tx_next) = tx_next + 1
    <2>1. tx_next + 1 \in 0 .. CountMod - 1
      BY <1>1
    <2> QED
      BY <1>1, <2>1, ModSmall DEF Plus1
  <1>3. tx_next + 1 # 0
    OBVIOUS
  <1> QED
    BY <1>2, <1>3 DEF write_sdu

-----------------------------------------------------------------------------
(* The state of RLC at both ends and of the air, for all values of the constants. *)
RlcTyped ==
  /\ tx_next \in 0 .. MaxSdus /\ tx_overflow = FALSE
  /\ umTx \in Transmitters(tx_next) /\ umRx \in Receivers(tx_next)
  /\ air \in Seq(Pdus(tx_next) \union {NoPdu}) /\ faults \in 0 .. MaxFaults

LEMMA AirMonotone ==
  ASSUME NEW n \in Nat, NEW m \in Nat, n <= m, NEW a \in Seq(Pdus(n) \union {NoPdu})
  PROVE  a \in Seq(Pdus(m) \union {NoPdu})
  <1>1. Pdus(n) \union {NoPdu} \subseteq Pdus(m) \union {NoPdu}
    BY Monotone
  <1> QED
    BY <1>1, SeqMonotonic

LEMMA AirAt ==
  ASSUME NEW n, NEW a \in Seq(Pdus(n) \union {NoPdu}), NEW i \in DOMAIN a
  PROVE  /\ Len(a) \in Nat /\ i \in 1 .. Len(a) /\ DOMAIN a = 1 .. Len(a)
         /\ a[i] # NoPdu => a[i] \in Pdus(n)
  OBVIOUS

LEMMA RlcTypedInit == Init => RlcTyped
  <1> SUFFICES ASSUME Init PROVE RlcTyped
    OBVIOUS
  <1>1. 0 \in 0 .. MaxSdus /\ 0 \in Nat
    BY BearerAssumption, PdcpNrAssumption DEF CountMod
  <1>2. << >> \in Seq(Pdus(0) \union {NoPdu}) /\ 0 \in 0 .. MaxFaults
    BY UmFacts
  <1> QED
    BY <1>1, <1>2, InitType DEF Init, PdcpInit, RlcTyped

LEMMA RlcTypedStep == RlcTyped /\ [Next]_vars => RlcTyped'
  <1> SUFFICES ASSUME RlcTyped, [Next]_vars PROVE RlcTyped'
    OBVIOUS
  <1>0. /\ tx_next \in 0 .. MaxSdus /\ tx_next \in Nat /\ MaxSdus \in Nat /\ MaxFaults \in Nat
        /\ tx_overflow = FALSE
        /\ umTx \in Transmitters(tx_next) /\ umRx \in Receivers(tx_next)
        /\ air \in Seq(Pdus(tx_next) \union {NoPdu}) /\ faults \in 0 .. MaxFaults
    BY BearerAssumption, PdcpNrAssumption DEF RlcTyped, CountMod
  <1>1. ASSUME WriteSdu PROVE RlcTyped'
    <2>1. tx_next' = tx_next + 1 /\ tx_overflow' = FALSE /\ tx_next < MaxSdus
      BY <1>0, <1>1, WriteSduCounts DEF WriteSdu
    <2>2. umTx' \in Transmitters(tx_next + 1)
      BY <1>0, <1>1, WriteType DEF WriteSdu
    <2>3. umRx \in Receivers(tx_next + 1)
      BY <1>0, Monotone
    <2>4. air \in Seq(Pdus(tx_next + 1) \union {NoPdu})
      BY <1>0, AirMonotone
    <2>5. tx_next + 1 \in 0 .. MaxSdus
      BY <1>0, <2>1
    <2> QED
      BY <1>0, <1>1, <2>1, <2>2, <2>3, <2>4, <2>5 DEF WriteSdu, RlcTyped
  <1>2. ASSUME NEW g \in Grants, ReadPdu(g) PROVE RlcTyped'
    <2> DEFINE b == build_data_pdu(umTx, g)
    <2>1. b.tx \in Transmitters(tx_next) /\ b.pdu \in Pdus(tx_next) \union {NoPdu}
      BY <1>0, <1>2, UmFacts, BuildType DEF ReadPdu
    <2>2. /\ umTx' = b.tx /\ air' = (IF b.pdu = NoPdu THEN air ELSE Append(air, b.pdu))
          /\ UNCHANGED <<pdcpTx, umRx, faults>>
      BY <1>2 DEF ReadPdu
    <2> HIDE DEF b
    <2>3. air' \in Seq(Pdus(tx_next) \union {NoPdu})
      BY <1>0, <2>1, <2>2, AppendProperties
    <2> QED
      BY <1>0, <2>1, <2>2, <2>3 DEF RlcTyped, pdcpTx
  <1>3. ASSUME NEW i \in DOMAIN air
        PROVE Free([air EXCEPT ![i] = NoPdu]) \in Seq(Pdus(tx_next) \union {NoPdu})
    BY <1>0, ThinnerAir
  <1>4. ASSUME NEW i \in DOMAIN air, Lose(i) PROVE RlcTyped'
    <2>1. faults + 1 \in 0 .. MaxFaults
      BY <1>0, <1>4 DEF Lose
    <2> QED
      BY <1>0, <1>3, <1>4, <2>1 DEF Lose, RlcTyped, pdcpTx
  <1>5. ASSUME NEW i \in DOMAIN air, Received(i)
        PROVE  umRx' \in Receivers(tx_next) /\ tx_next' = tx_next /\ tx_overflow' = FALSE
               /\ umTx' = umTx
    <2>1. air[i] \in Pdus(tx_next)
      BY <1>0, <1>5, AirAt DEF Received
    <2>2. umRx' = handle_data_pdu(umRx, air[i]).rx /\ UNCHANGED <<pdcpTx, umTx>>
      BY <1>5 DEF Received
    <2>3. handle_data_pdu(umRx, air[i]).rx \in Receivers(tx_next)
      BY <1>0, <2>1, HandleType
    <2> QED
      BY <1>0, <2>2, <2>3 DEF pdcpTx
  <1>6. ASSUME NEW i \in DOMAIN air, WritePdu(i) PROVE RlcTyped'
    BY <1>0, <1>3, <1>5, <1>6 DEF WritePdu, RlcTyped
  <1>7. ASSUME NEW i \in DOMAIN air, WriteTwice(i) PROVE RlcTyped'
    <2>1. faults + 1 \in 0 .. MaxFaults
      BY <1>0, <1>7 DEF WriteTwice
    <2> QED
      BY <1>0, <1>5, <1>7, <2>1 DEF WriteTwice, RlcTyped
  <1>8. ASSUME ReassemblyExpires PROVE RlcTyped'
    <2>1. timer_expired(umRx) \in Receivers(tx_next)
      BY <1>0, TimerExpiredType
    <2> QED
      BY <1>0, <1>8, <2>1 DEF ReassemblyExpires, RlcTyped, pdcpTx
  <1>9. ASSUME ReorderingExpires PROVE RlcTyped'
    BY <1>0, <1>9 DEF ReorderingExpires, RlcTyped, pdcpTx, rlcVars
  <1>10. ASSUME Reestablish PROVE RlcTyped'
    <2>1. umTx' = TxInit /\ umRx' = RxInit /\ air' = << >> /\ UNCHANGED <<pdcpTx, faults>>
      BY <1>10 DEF Reestablish, TxReestablish, RxReestablish
    <2>2. << >> \in Seq(Pdus(tx_next) \union {NoPdu})
      OBVIOUS
    <2> QED
      BY <1>0, <2>1, <2>2, InitType DEF RlcTyped, pdcpTx
  <1>11. ASSUME UNCHANGED vars PROVE RlcTyped'
    BY <1>0, <1>11 DEF RlcTyped, vars, rlcVars, pdcpTx
  <1> QED
    BY <1>1, <1>2, <1>4, <1>6, <1>7, <1>8, <1>9, <1>10, <1>11 DEF Next

-----------------------------------------------------------------------------
(* With SNs of 6 bits, every header describes its data. *)
RlcTrue == TxTrue(umTx) /\ AirTrue(air)

LEMMA ThinnerKeepsTrue ==
  ASSUME NEW n, NEW a \in Seq(Pdus(n) \union {NoPdu}), NEW b \in Seq(Pdus(n) \union {NoPdu}),
         Thinner(a, b), AirTrue(a)
  PROVE  AirTrue(b)
  <1> SUFFICES ASSUME NEW j \in DOMAIN b, b[j] # NoPdu PROVE PduTrue(b[j])
    BY DEF AirTrue
  <1> DEFINE k == j + (Len(a) - Len(b))
  <1>1. k \in DOMAIN a /\ b[j] \in {a[k], NoPdu}
    BY DEF Thinner
  <1> QED
    BY <1>1 DEF AirTrue

LEMMA AppendAt ==
  ASSUME NEW S, NEW q \in Seq(S), NEW x \in S
  PROVE  /\ Append(q, x) \in Seq(S) /\ Len(Append(q, x)) = Len(q) + 1 /\ Len(q) \in Nat
         /\ DOMAIN Append(q, x) = 1 .. (Len(q) + 1)
         /\ \A j \in 1 .. Len(q) : Append(q, x)[j] = q[j]
         /\ Append(q, x)[Len(q) + 1] = x
  BY AppendProperties

LEMMA WriteTrue ==
  ASSUME NEW n \in Nat, NEW t \in Transmitters(n), NEW x \in Transmitters(n + 1), TxTrue(t),
         x.next_so = t.next_so /\ x.tx_sdu = t.tx_sdu,
         x.queue = Append(t.queue, [id |-> n, len |-> SduLen, left |-> SduLen])
  PROVE  TxTrue(x)
  <1> DEFINE s == [id |-> n, len |-> SduLen, left |-> SduLen]
  <1>1. t.queue \in Seq(Sdus(n)) /\ Sdus(n) \subseteq Sdus(n + 1)
    BY TxFields, Monotone
  <1>2. s \in Sdus(n + 1) /\ s.left = SduLen
    BY UmFacts DEF Sdus, Ids
  <1> HIDE DEF s
  <1>3. t.queue \in Seq(Sdus(n + 1))
    BY <1>1, SeqMonotonic
  <1>4. /\ Len(x.queue) = Len(t.queue) + 1 /\ Len(t.queue) \in Nat
        /\ \A j \in 1 .. Len(t.queue) : x.queue[j] = t.queue[j]
        /\ x.queue[Len(t.queue) + 1] = s
    BY <1>2, <1>3, AppendAt DEF s
  <1>5. \A j \in 1 .. Len(x.queue) : x.queue[j].left = SduLen
    <2> SUFFICES ASSUME NEW j \in 1 .. Len(x.queue) PROVE x.queue[j].left = SduLen
      OBVIOUS
    <2>1. CASE j = Len(t.queue) + 1
      BY <1>2, <1>4, <2>1
    <2>2. CASE j # Len(t.queue) + 1
      <3>1. j \in 1 .. Len(t.queue)
        BY <1>4, <2>2
      <3> QED
        BY <1>4, <3>1 DEF TxTrue
    <2> QED
      BY <2>1, <2>2
  <1> QED
    BY <1>5 DEF TxTrue

LEMMA InitTrue == TxTrue(TxInit) /\ AirTrue(<< >>)
  BY DEF TxTrue, AirTrue, TxInit

LEMMA RlcTrueStep == ~Sn12Bits /\ RlcTyped /\ RlcTrue /\ [Next]_vars => RlcTrue'
  <1> SUFFICES ASSUME ~Sn12Bits, RlcTyped, RlcTrue, [Next]_vars PROVE RlcTrue'
    OBVIOUS
  <1> DEFINE S == Pdus(tx_next) \union {NoPdu}
  <1>0. /\ tx_next \in Nat /\ umTx \in Transmitters(tx_next) /\ air \in Seq(S)
        /\ TxTrue(umTx) /\ AirTrue(air) /\ NoPdu \in S
    BY BearerAssumption DEF RlcTyped, RlcTrue
  <1>1. ASSUME WriteSdu PROVE RlcTrue'
    <2>1. TxTrue(umTx')
      <3>1. /\ umTx' = try_write_sdu(umTx, [id |-> tx_next, len |-> SduLen, left |-> SduLen])
            /\ ~sdu_queue_is_full(umTx)
        BY <1>1 DEF WriteSdu
      <3>2. /\ umTx' \in Transmitters(tx_next + 1)
            /\ umTx'.next_so = umTx.next_so /\ umTx'.tx_sdu = umTx.tx_sdu
            /\ umTx'.queue = Append(umTx.queue, [id |-> tx_next, len |-> SduLen, left |-> SduLen])
        BY <1>0, <3>1, WriteType
      <3> QED
        BY <1>0, <3>2, WriteTrue
    <2>2. air' = air
      BY <1>1 DEF WriteSdu
    <2> QED
      BY <1>0, <2>1, <2>2 DEF RlcTrue
  <1>2. ASSUME NEW g \in Grants, ReadPdu(g) PROVE RlcTrue'
    <2> DEFINE b == build_data_pdu(umTx, g)
    <2>1. has_data(umTx) /\ g \in Nat /\ g >= 3
      BY <1>2, UmFacts DEF ReadPdu
    <2>2. umTx' = b.tx /\ air' = (IF b.pdu = NoPdu THEN air ELSE Append(air, b.pdu))
      BY <1>2 DEF ReadPdu
    <2>3. /\ b.pdu \in S /\ TxTrue(b.tx)
          /\ b.pdu = NoPdu => b.tx = umTx
          /\ b.pdu # NoPdu => Built(umTx, b.tx, b.pdu)
      BY <1>0, <2>1, BuildCases
    <2> HIDE DEF b
    <2>4. CASE b.pdu = NoPdu
      BY <1>0, <2>2, <2>3, <2>4 DEF RlcTrue
    <2>5. CASE b.pdu # NoPdu
      <3>1. PduTrue(b.pdu)
        BY <2>3, <2>5 DEF Built
      <3>2. /\ Len(air) \in Nat /\ DOMAIN air = 1 .. Len(air)
            /\ DOMAIN air' = 1 .. (Len(air) + 1)
            /\ \A j \in 1 .. Len(air) : air'[j] = air[j]
            /\ air'[Len(air) + 1] = b.pdu
        BY <1>0, <2>2, <2>3, <2>5, AppendAt
      <3>3. ASSUME NEW j \in DOMAIN air', air'[j] # NoPdu PROVE PduTrue(air'[j])
        <4>1. CASE j = Len(air) + 1
          BY <3>1, <3>2, <4>1
        <4>2. CASE j # Len(air) + 1
          <5>1. j \in 1 .. Len(air)
            BY <3>2, <4>2
          <5> QED
            BY <1>0, <3>2, <3>3, <5>1 DEF AirTrue
        <4> QED
          BY <4>1, <4>2
      <3>4. AirTrue(air')
        BY <3>3 DEF AirTrue
      <3> QED
        BY <2>2, <2>3, <3>4 DEF RlcTrue
    <2> QED
      BY <2>4, <2>5
  <1>3. ASSUME NEW i \in DOMAIN air PROVE AirTrue(Free([air EXCEPT ![i] = NoPdu]))
    <2> HIDE DEF S
    <2>1. /\ Free([air EXCEPT ![i] = NoPdu]) \in Seq(S)
          /\ Thinner(air, Free([air EXCEPT ![i] = NoPdu]))
      BY <1>0, ThinnerAir
    <2> QED
      BY <1>0, <2>1, ThinnerKeepsTrue DEF S
  <1>4. ASSUME NEW i \in DOMAIN air, Lose(i) \/ WritePdu(i) \/ WriteTwice(i) PROVE RlcTrue'
    <2>1. umTx' = umTx /\ air' \in {air, Free([air EXCEPT ![i] = NoPdu])}
      BY <1>4 DEF Lose, WritePdu, WriteTwice, Received
    <2> QED
      BY <1>0, <1>3, <2>1 DEF RlcTrue
  <1>5. ASSUME ReassemblyExpires \/ ReorderingExpires \/ UNCHANGED vars PROVE RlcTrue'
    <2>1. umTx' = umTx /\ air' = air
      BY <1>5 DEF ReassemblyExpires, ReorderingExpires, vars, rlcVars
    <2> QED
      BY <1>0, <2>1 DEF RlcTrue
  <1>6. ASSUME Reestablish PROVE RlcTrue'
    BY <1>6, InitTrue DEF Reestablish, TxReestablish, RlcTrue
  <1> QED
    BY <1>1, <1>2, <1>4, <1>5, <1>6 DEF Next

-----------------------------------------------------------------------------
(* How far y lies behind x, in SNs. *)
Behind(x, y) == (x - y) % UmMod

LEMMA BehindIs ==
  ASSUME NEW x \in Sns, NEW y \in Sns
  PROVE  /\ Behind(x, y) = IF x >= y THEN x - y ELSE x - y + UmMod
         /\ Behind(x, y) \in Sns
  <1>1. UmMod \in Nat \ {0} /\ x \in 0 .. UmMod - 1 /\ y \in 0 .. UmMod - 1
    BY UmFacts DEF Sns
  <1>2. CASE x >= y
    <2>1. x - y \in 0 .. UmMod - 1
      BY <1>1, <1>2
    <2> QED
      BY <1>1, <1>2, <2>1, ModSmall DEF Behind, Sns
  <1>3. CASE ~(x >= y)
    <2>1. x - y + UmMod \in 0 .. UmMod - 1
      BY <1>1, <1>3
    <2>2. ((-1) * UmMod + (x - y + UmMod)) % UmMod = x - y + UmMod
      BY <1>1, <2>1, ModUnique
    <2>3. (-1) * UmMod + (x - y + UmMod) = x - y
      BY <1>1
    <2>4. (x - y) % UmMod = x - y + UmMod
      BY <2>2, <2>3
    <2> QED
      BY <1>3, <2>1, <2>4 DEF Behind, Sns
  <1> QED
    BY <1>2, <1>3

Succ(x) == IF x + 1 = UmMod THEN 0 ELSE x + 1

LEMMA SuccIs == ASSUME NEW x \in Sns PROVE (x + 1) % UmMod = Succ(x) /\ Succ(x) \in Sns
  BY SnSucc DEF Succ

LEMMA SnRange == UmMod \in Nat \ {0} /\ UmMod >= 2 /\ UmMod = 2 * UM_Window_Size
                 /\ UM_Window_Size \in Nat \ {0}
                 /\ \A x : x \in Sns <=> x \in Nat /\ x < UmMod
  BY UmFacts DEF Sns

(* The place of an SN relative to the window. *)
LEMMA BaseIs ==
  ASSUME NEW n, NEW r \in Receivers(n), NEW x \in Sns
  PROVE  RX_MOD_NR_BASE(r, x) =
           IF Behind(r.RX_Next_Highest, x) <= UM_Window_Size
           THEN UM_Window_Size - Behind(r.RX_Next_Highest, x)
           ELSE 3 * UM_Window_Size - Behind(r.RX_Next_Highest, x)
  <1> DEFINE h == r.RX_Next_Highest
             d == Behind(h, x)
             W == UM_Window_Size
             M == UmMod
  <1>1. h \in Sns
    BY RxFields
  <1>2. d = (IF h >= x THEN h - x ELSE h - x + M) /\ d \in Sns
    BY <1>1, BehindIs
  <1>3. M \in Nat \ {0} /\ M = 2 * W /\ W \in Nat /\ d \in Nat /\ d < M /\ h \in Nat /\ x \in Nat
    BY <1>1, <1>2, SnRange
  <1>4. RX_MOD_NR_BASE(r, x) = (x - h - W) % M
    BY DEF RX_MOD_NR_BASE
  <1> HIDE DEF d, h, W, M
  <1>5. CASE d <= W
    <2>1. W - d \in 0 .. M - 1
      BY <1>3, <1>5
    <2>2. PICK q \in Int : x - h - W = q * M + (W - d)
      <3>1. CASE h >= x
        <4>1. x - h - W = (-1) * M + (W - d)
          BY <1>2, <1>3, <3>1
        <4> QED
          BY <4>1
      <3>2. CASE ~(h >= x)
        <4>1. x - h - W = 0 * M + (W - d)
          BY <1>2, <1>3, <3>2
        <4> QED
          BY <4>1
      <3> QED
        BY <3>1, <3>2
    <2>3. (q * M + (W - d)) % M = W - d
      BY <1>3, <2>1, ModUnique
    <2> QED
      BY <1>4, <1>5, <2>2, <2>3 DEF h, d, W
  <1>6. CASE ~(d <= W)
    <2>1. 3 * W - d \in 0 .. M - 1
      BY <1>3, <1>6
    <2>2. PICK q \in Int : x - h - W = q * M + (3 * W - d)
      <3>1. CASE h >= x
        <4>1. x - h - W = (-2) * M + (3 * W - d)
          BY <1>2, <1>3, <3>1
        <4> QED
          BY <4>1
      <3>2. CASE ~(h >= x)
        <4>1. x - h - W = (-1) * M + (3 * W - d)
          BY <1>2, <1>3, <3>2
        <4> QED
          BY <4>1
      <3> QED
        BY <3>1, <3>2
    <2>3. (q * M + (3 * W - d)) % M = 3 * W - d
      BY <1>3, <2>1, ModUnique
    <2> QED
      BY <1>4, <1>6, <2>2, <2>3 DEF h, d, W
  <1> QED
    BY <1>5, <1>6 DEF h, d, W

LEMMA LowerEdge ==
  ASSUME NEW n, NEW r \in Receivers(n)
  PROVE  RX_MOD_NR_BASE(r, r.RX_Next_Highest - UM_Window_Size) = 0
  <1>1. r.RX_Next_Highest \in Int /\ UmMod = 2 * UM_Window_Size /\ UmMod \in Nat \ {0}
        /\ UM_Window_Size \in Nat
    BY RxFields, SnRange
  <1>2. (r.RX_Next_Highest - UM_Window_Size) - r.RX_Next_Highest - UM_Window_Size = (-1) * UmMod + 0
    BY <1>1
  <1>3. ((-1) * UmMod + 0) % UmMod = 0
    BY <1>1, ModUnique
  <1> QED
    BY <1>2, <1>3 DEF RX_MOD_NR_BASE

InWindow(r, x) == Behind(r.RX_Next_Highest, x) \in 1 .. UM_Window_Size

NearWindow(r, x) == Behind(r.RX_Next_Highest, x) \in 0 .. UM_Window_Size

LEMMA InWindowIs ==
  ASSUME NEW n, NEW r \in Receivers(n), NEW x \in Sns
  PROVE  sn_in_reassembly_window(r, x) <=> InWindow(r, x)
  <1> DEFINE h == r.RX_Next_Highest
             d == Behind(h, x)
             W == UM_Window_Size
             b == RX_MOD_NR_BASE(r, x)
             c == RX_MOD_NR_BASE(r, h)
  <1>1. h \in Sns
    BY RxFields
  <1>2. d \in Nat /\ d < 2 * W /\ W \in Nat \ {0} /\ Behind(h, h) = 0
    BY <1>1, BehindIs, SnRange
  <1>3. b = (IF d <= W THEN W - d ELSE 3 * W - d) /\ c = W
    <2>1. b = (IF d <= W THEN W - d ELSE 3 * W - d)
      BY BaseIs
    <2>2. c = (IF Behind(h, h) <= W THEN W - Behind(h, h) ELSE 3 * W - Behind(h, h))
      BY <1>1, BaseIs
    <2> QED
      BY <1>2, <2>1, <2>2
  <1>4. sn_in_reassembly_window(r, x) <=> 0 <= b /\ b < c
    BY LowerEdge DEF sn_in_reassembly_window
  <1>5. InWindow(r, x) <=> d \in 1 .. W
    BY DEF InWindow
  <1> HIDE DEF d, h, W, b, c
  <1> QED
    BY <1>2, <1>3, <1>4, <1>5

(* A segment that is not wanted any more is in the window. *)
LEMMA InvalidIsInWindow ==
  ASSUME NEW n, NEW r \in Receivers(n), NEW x \in Sns, NearWindow(r, r.RX_Next_Reassembly),
         sn_invalid_for_rx_buffer(r, x)
  PROVE  InWindow(r, x)
  <1> DEFINE h == r.RX_Next_Highest
             d == Behind(h, x)
             e == Behind(h, r.RX_Next_Reassembly)
             W == UM_Window_Size
             b == RX_MOD_NR_BASE(r, x)
             c == RX_MOD_NR_BASE(r, r.RX_Next_Reassembly)
  <1>1. h \in Sns /\ r.RX_Next_Reassembly \in Sns
    BY RxFields
  <1>2. d \in Nat /\ d < 2 * W /\ W \in Nat \ {0} /\ e \in 0 .. W
    BY <1>1, BehindIs, SnRange DEF NearWindow
  <1>3. b = (IF d <= W THEN W - d ELSE 3 * W - d) /\ c = (IF e <= W THEN W - e ELSE 3 * W - e)
    BY <1>1, BaseIs
  <1>4. b < c
    BY DEF sn_invalid_for_rx_buffer
  <1>5. InWindow(r, x) <=> d \in 1 .. W
    BY DEF InWindow
  <1> HIDE DEF d, h, W, b, c, e
  <1> QED
    BY <1>2, <1>3, <1>4, <1>5

-----------------------------------------------------------------------------
(* The window of the receiver: the SNs it holds are in it, and RX_Next_Reassembly and
   the mark of a timer that runs are in it or at its upper edge.            *)
WindowOK(r) ==
  /\ \A e \in r.rx_window : InWindow(r, e.sn)
  /\ NearWindow(r, r.RX_Next_Reassembly)
  /\ r.reassembly_timer => NearWindow(r, r.RX_Timer_Trigger)

LEMMA InIsNear == ASSUME NEW r, NEW x, InWindow(r, x) PROVE NearWindow(r, x)
  BY SnRange DEF InWindow, NearWindow

LEMMA HighestIsNear == ASSUME NEW n, NEW r \in Receivers(n) PROVE NearWindow(r, r.RX_Next_Highest)
  <1>1. Behind(r.RX_Next_Highest, r.RX_Next_Highest) = 0
    BY RxFields, BehindIs, SnRange
  <1> QED
    BY <1>1, SnRange DEF NearWindow

LEMMA SameWindow ==
  ASSUME NEW r, NEW s, r.RX_Next_Highest = s.RX_Next_Highest
  PROVE  \A x : (InWindow(r, x) <=> InWindow(s, x)) /\ (NearWindow(r, x) <=> NearWindow(s, x))
  BY DEF InWindow, NearWindow

LEMMA UpdateTimerWindow ==
  ASSUME NEW n, NEW r \in Receivers(n), \A e \in r.rx_window : InWindow(r, e.sn),
         NearWindow(r, r.RX_Next_Reassembly)
  PROVE  /\ UpdateTimer(r) \in Receivers(n) /\ WindowOK(UpdateTimer(r))
         /\ UpdateTimer(r).rx_window = r.rx_window
         /\ UpdateTimer(r).RX_Next_Highest = r.RX_Next_Highest
  <1> DEFINE u == UpdateTimer(r)
  <1>1. /\ u \in Receivers(n) /\ u.RX_Next_Highest = r.RX_Next_Highest
        /\ u.rx_window = r.rx_window /\ u.RX_Next_Reassembly = r.RX_Next_Reassembly
        /\ u.reassembly_timer => \/ u.RX_Timer_Trigger = r.RX_Next_Highest
                                 \/ sn_in_reassembly_window(r, u.RX_Timer_Trigger)
    BY TimerType
  <1> HIDE DEF u
  <1>2. u.RX_Timer_Trigger \in Sns
    BY <1>1, RxFields
  <1>3. u.reassembly_timer => NearWindow(r, u.RX_Timer_Trigger)
    BY <1>1, <1>2, InWindowIs, InIsNear, HighestIsNear
  <1>4. \A x : (InWindow(u, x) <=> InWindow(r, x)) /\ (NearWindow(u, x) <=> NearWindow(r, x))
    BY <1>1, SameWindow
  <1>5. WindowOK(u)
    BY <1>1, <1>3, <1>4 DEF WindowOK
  <1> QED
    BY <1>1, <1>5 DEF u

LEMMA ExpiredWindow ==
  ASSUME NEW n, NEW r \in Receivers(n), WindowOK(r), r.reassembly_timer
  PROVE  LET x == timer_expired(r) IN
         /\ x \in Receivers(n) /\ WindowOK(x)
         /\ x.RX_Next_Highest = r.RX_Next_Highest /\ x.rx_window \in SUBSET r.rx_window
  <1> DEFINE x == timer_expired(r)
             h == r.RX_Next_Highest
             g == r.RX_Timer_Trigger
  <1>1. /\ x \in Receivers(n) /\ x.RX_Next_Highest = h /\ x.rx_window \in SUBSET r.rx_window
        /\ x.RX_Next_Reassembly \in {h, g}
        /\ x.reassembly_timer => x.RX_Timer_Trigger = h
    BY TimerExpiredType
  <1>2. NearWindow(r, x.RX_Next_Reassembly) /\ NearWindow(r, h)
    <2> HIDE DEF x
    <2>1. NearWindow(r, h)
      BY HighestIsNear
    <2>2. NearWindow(r, g)
      BY DEF WindowOK
    <2> QED
      BY <1>1, <2>1, <2>2
  <1> HIDE DEF x
  <1>3. \A y : (InWindow(x, y) <=> InWindow(r, y)) /\ (NearWindow(x, y) <=> NearWindow(r, y))
    BY <1>1, SameWindow
  <1>4. WindowOK(x)
    BY <1>1, <1>2, <1>3 DEF WindowOK
  <1> QED
    BY <1>1, <1>4 DEF x

LEMMA InitWindow == WindowOK(RxInit)
  <1>1. 0 \in Sns /\ RxInit.RX_Next_Reassembly = 0 /\ RxInit.RX_Next_Highest = 0
        /\ RxInit.rx_window = {}
        /\ RxInit.reassembly_timer = FALSE
    BY SnRange DEF RxInit
  <1>2. Behind(0, 0) = 0
    BY <1>1, BehindIs
  <1> QED
    BY <1>1, <1>2, SnRange DEF WindowOK, NearWindow

-----------------------------------------------------------------------------
(* An SDU that is put together: what is there of it is one piece from its first byte on,
   and its last piece is the end of the SDU when it is as long as that.     *)
SegTrue(s) == s.so = s.at /\ (s.ends <=> s.at + s.len = SduLen)

EntryTrue(e) ==
  /\ \A s \in e.segments : SegTrue(s)
  /\ e.total_sdu_length \in {0, SduLen}
  /\ Len(e.sdu) = 0 => e.next_expected_so = 0
  /\ Len(e.sdu) > 0 => /\ e.sdu[1].at = 0 /\ e.next_expected_so > 0
                       /\ e.sdu[Len(e.sdu)].ends <=> e.next_expected_so = SduLen

(* All of it is of the SDU id. *)
EntryFrom(e, id) ==
  /\ \A s \in e.segments : s.id = id
  /\ \A k \in 1 .. Len(e.sdu) : e.sdu[k].id = id

LEMMA AppendTrue ==
  ASSUME NEW n, NEW e \in Entries(n), NEW s \in Segments(n), NEW id,
         EntryTrue(e), EntryFrom(e, id), SegTrue(s), s.id = id
  PROVE  EntryTrue(AppendSegment(e, s)) /\ EntryFrom(AppendSegment(e, s), id)
  <1> DEFINE a == AppendSegment(e, s)
             p == [id |-> s.id, at |-> s.at, ends |-> s.ends]
  <1>1. a \in Entries(n) /\ a.total_sdu_length = e.total_sdu_length /\ (a = e \/ Appended(e, s, a))
    BY AppendIs
  <1>2. /\ e.sdu \in Seq(Pieces(n)) /\ e.next_expected_so \in Nat /\ Len(e.sdu) \in Nat
        /\ e.segments \in SUBSET Segments(n)
    BY EntryFields
  <1>3. /\ s.so \in Nat /\ s.len \in Nat /\ s.len > 0 /\ s.at \in Nat /\ s.ends \in BOOLEAN
        /\ s.at \in 0 .. SduLen /\ s.id \in Ids(n)
    BY UmFacts DEF Segments
  <1>4. p \in Pieces(n)
    BY <1>3 DEF Pieces
  <1>5. p.id = id /\ p.at = s.at /\ p.ends = s.ends
    OBVIOUS
  <1> HIDE DEF a
  <1>6. CASE a = e
    BY <1>6 DEF a
  <1>7. CASE Appended(e, s, a)
    <2>1. /\ s.so = e.next_expected_so /\ a.segments = e.segments \ {s}
          /\ a.sdu = Append(e.sdu, p) /\ a.next_expected_so = e.next_expected_so + s.len
      BY <1>7 DEF Appended
    <2> HIDE DEF p
    <2>2. /\ Len(a.sdu) = Len(e.sdu) + 1
          /\ \A j \in 1 .. Len(e.sdu) : a.sdu[j] = e.sdu[j]
          /\ a.sdu[Len(e.sdu) + 1] = p
      BY <1>2, <1>4, <2>1, AppendAt
    <2>3. a.next_expected_so > 0 /\ (p.ends <=> a.next_expected_so = SduLen)
      <3> DEFINE x == e.next_expected_so
                 y == a.next_expected_so
      <3>1. x \in Nat /\ s.at = x /\ y = x + s.len /\ (s.ends <=> s.at + s.len = SduLen)
        BY <1>2, <2>1 DEF SegTrue
      <3> HIDE DEF x, y
      <3>2. y > 0 /\ (s.ends <=> y = SduLen)
        BY <1>3, <3>1
      <3> QED
        BY <1>5, <3>2 DEF y
    <2>4. a.sdu[1].at = 0
      <3>1. CASE Len(e.sdu) = 0
        <4>1. s.at = 0
          BY <2>1, <3>1 DEF EntryTrue, SegTrue
        <4> QED
          BY <1>5, <2>2, <3>1, <4>1
      <3>2. CASE Len(e.sdu) # 0
        <4>1. Len(e.sdu) > 0 /\ 1 \in 1 .. Len(e.sdu)
          BY <1>2, <3>2
        <4> QED
          BY <2>2, <4>1 DEF EntryTrue
      <3> QED
        BY <3>1, <3>2
    <2>5. EntryTrue(a)
      <3>1. Len(a.sdu) > 0 /\ a.sdu[Len(a.sdu)] = p
        BY <1>2, <2>2
      <3>2. (\A x \in a.segments : SegTrue(x)) /\ a.total_sdu_length \in {0, SduLen}
        BY <1>1, <2>1 DEF EntryTrue
      <3> QED
        BY <2>3, <2>4, <3>1, <3>2 DEF EntryTrue
    <2>6. EntryFrom(a, id)
      <3>1. \A x \in a.segments : x.id = id
        BY <2>1 DEF EntryFrom
      <3>2. ASSUME NEW k \in 1 .. Len(a.sdu) PROVE a.sdu[k].id = id
        <4>1. CASE k = Len(e.sdu) + 1
          BY <1>5, <2>2, <4>1
        <4>2. CASE k # Len(e.sdu) + 1
          <5>1. k \in 1 .. Len(e.sdu)
            BY <1>2, <2>2, <4>2
          <5> QED
            BY <2>2, <5>1 DEF EntryFrom
        <4> QED
          BY <4>1, <4>2
      <3> QED
        BY <3>1, <3>2 DEF EntryFrom
    <2> QED
      BY <2>5, <2>6 DEF a
  <1> QED
    BY <1>1, <1>6, <1>7

LEMMA NewSegmentTrue ==
  ASSUME NEW n, NEW pdu \in Pdus(n), PduTrue(pdu)
  PROVE  SegTrue(NewSegment(pdu)) /\ NewSegment(pdu).id = pdu.id
  BY DEF NewSegment, SegTrue, PduTrue

LEMMA GrownTrue ==
  ASSUME NEW n, NEW r \in Receivers(n), NEW pdu \in Pdus(n), PduTrue(pdu),
         \A e \in r.rx_window : EntryTrue(e),
         \A e \in r.rx_window : e.sn = pdu.sn => EntryFrom(e, pdu.id)
  PROVE  EntryTrue(Grown(r, pdu)) /\ EntryFrom(Grown(r, pdu), pdu.id)
  <1> DEFINE id == pdu.id
             P == {x \in Entries(n) : EntryTrue(x) /\ EntryFrom(x, id)}
             old == OldEntry(r, pdu.sn)
             e == PlaceSegment(r, pdu)
  <1>1. pdu.sn \in Sns /\ pdu.so \in Nat /\ pdu.len \in Nat
    BY PduFields, UmFacts
  <1>2. /\ old \in Entries(n) /\ old.sn = pdu.sn
        /\ old \in r.rx_window \/ old = NewEntry(pdu.sn)
    BY <1>1, OldEntryIs
  <1>3. EntryTrue(old) /\ EntryFrom(old, id)
    <2> HIDE DEF old
    <2>1. CASE old \in r.rx_window
      BY <1>2, <2>1
    <2>2. CASE old = NewEntry(pdu.sn)
      <3>1. old.segments = {} /\ Len(old.sdu) = 0 /\ old.next_expected_so = 0
            /\ old.total_sdu_length = 0
        BY <2>2 DEF NewEntry
      <3> QED
        BY <3>1 DEF EntryTrue, EntryFrom
    <2> QED
      BY <1>2, <2>1, <2>2
  <1>4. /\ e \in Entries(n) /\ e.sn = pdu.sn
        /\ e.segments \in {old.segments, old.segments \union {NewSegment(pdu)}}
        /\ e.sdu = old.sdu /\ e.next_expected_so = old.next_expected_so
        /\ e.total_sdu_length = IF pdu.si = "last" THEN pdu.so + pdu.len
                                ELSE old.total_sdu_length
    BY PlacedIs
  <1> HIDE DEF old, e
  <1>5. e.total_sdu_length \in {0, SduLen}
    <2>1. pdu.si = "last" => pdu.so + pdu.len = SduLen
      BY DEF PduTrue
    <2> QED
      BY <1>3, <1>4, <2>1 DEF EntryTrue
  <1>6. EntryTrue(e) /\ EntryFrom(e, id)
    <2>1. \A s \in e.segments : SegTrue(s) /\ s.id = id
      BY <1>3, <1>4, NewSegmentTrue DEF EntryTrue, EntryFrom
    <2> QED
      BY <1>3, <1>4, <1>5, <2>1 DEF EntryTrue, EntryFrom
  <1>7. e \in P /\ OnePerSo(e.segments) /\ e.segments \in SUBSET Segments(n)
    BY <1>4, <1>6, EntryFields
  <1>8. \A s \in e.segments : SegTrue(s) /\ s.id = id
    BY <1>6 DEF EntryTrue, EntryFrom
  <1>9. \A x \in P, s \in e.segments : AppendSegment(x, s) \in P
    <2> SUFFICES ASSUME NEW x \in P, NEW s \in e.segments PROVE AppendSegment(x, s) \in P
      OBVIOUS
    <2>1. x \in Entries(n) /\ EntryTrue(x) /\ EntryFrom(x, id) /\ s \in Segments(n) /\ SegTrue(s)
          /\ s.id = id
      BY <1>7, <1>8
    <2> HIDE DEF P, id
    <2>2. AppendSegment(x, s) \in Entries(n)
      BY <2>1, AppendIs
    <2>3. EntryTrue(AppendSegment(x, s)) /\ EntryFrom(AppendSegment(x, s), id)
      BY <2>1, AppendTrue
    <2> QED
      BY <2>2, <2>3 DEF P
  <1> HIDE DEF P
  <1>10. Assembled(e) \in P
    BY <1>7, <1>9, AssembledKeeps
  <1> QED
    BY <1>10 DEF P, e, Grown

(* One segment alone is never the whole SDU. *)
LEMMA FirstIsNotDone ==
  ASSUME NEW n, NEW r \in Receivers(n), NEW pdu \in Pdus(n), pdu.sn \notin HeldSns(r)
  PROVE  ~Done(r, pdu)
  <1> DEFINE new == NewSegment(pdu)
             e == PlaceSegment(r, pdu)
             P == {x \in Entries(n) : \/ Len(x.sdu) = 0 /\ x.next_expected_so = 0
                                      \/ Len(x.sdu) = 1 /\ x.next_expected_so > pdu.so}
  <1>1. OldEntry(r, pdu.sn) = NewEntry(pdu.sn)
    BY DEF OldEntry
  <1>2. /\ e \in Entries(n) /\ e.segments \in {{}, {} \union {new}}
        /\ e.sdu = << >> /\ e.next_expected_so = 0
    BY <1>1, PlacedIs DEF NewEntry
  <1> HIDE DEF e
  <1>3. e \in P /\ OnePerSo(e.segments) /\ e.segments \in SUBSET Segments(n)
    BY <1>2, EntryFields
  <1>4. pdu.so \in Nat /\ pdu.len \in Nat /\ pdu.len > 0
    BY PduFields, UmFacts
  <1>5. new.so = pdu.so /\ new.len = pdu.len
    BY DEF NewSegment
  <1> HIDE DEF new
  <1>6. \A x \in P, s \in e.segments : AppendSegment(x, s) \in P
    <2> SUFFICES ASSUME NEW x \in P, NEW s \in e.segments PROVE AppendSegment(x, s) \in P
      OBVIOUS
    <2> DEFINE a == AppendSegment(x, s)
               p == [id |-> s.id, at |-> s.at, ends |-> s.ends]
    <2>1. x \in Entries(n) /\ s \in Segments(n) /\ s = new
      BY <1>2, <1>3
    <2>2. a \in Entries(n) /\ (a = x \/ Appended(x, s, a))
      <3> HIDE DEF P
      <3> QED
        BY <2>1, AppendIs
    <2> HIDE DEF a
    <2>3. CASE a = x
      BY <2>3 DEF a
    <2>4. CASE Appended(x, s, a)
      <3>1. s.so = x.next_expected_so /\ a.sdu = Append(x.sdu, p)
            /\ a.next_expected_so = x.next_expected_so + s.len
        BY <2>4 DEF Appended
      <3> HIDE DEF p
      <3>2. x.sdu \in Seq(Pieces(n)) /\ x.next_expected_so \in Nat
        BY <2>1, EntryFields
      <3>3. Len(a.sdu) = Len(x.sdu) + 1 /\ Len(x.sdu) \in Nat
        BY <3>1, <3>2, AppendProperties
      <3>4. Len(x.sdu) = 0 /\ x.next_expected_so = 0
        BY <1>4, <1>5, <2>1, <3>1, <3>2
      <3>5. Len(a.sdu) = 1 /\ a.next_expected_so > pdu.so
        BY <1>4, <1>5, <2>1, <3>1, <3>3, <3>4
      <3> QED
        BY <2>2, <3>5 DEF a
    <2> QED
      BY <2>2, <2>3, <2>4
  <1> HIDE DEF P
  <1>7. Assembled(e) \in P
    BY <1>3, <1>6, AssembledKeeps
  <1>8. ~(Len(Grown(r, pdu).sdu) > 1)
    <2> DEFINE l == Len(Assembled(e).sdu)
    <2>1. l = 0 \/ l = 1
      BY <1>7 DEF P
    <2>2. Grown(r, pdu) = Assembled(e)
      BY DEF Grown, e
    <2> HIDE DEF l
    <2>3. ~(l > 1)
      BY <2>1
    <2> QED
      BY <2>2, <2>3 DEF l
  <1> QED
    BY <1>8 DEF Done, sdu_complete

LEMMA DoneIsWhole ==
  ASSUME NEW n, NEW r \in Receivers(n), NEW pdu \in Pdus(n), Done(r, pdu),
         EntryTrue(Grown(r, pdu)), EntryFrom(Grown(r, pdu), pdu.id)
  PROVE  LET sdu == Grown(r, pdu).sdu IN
         sdu # << >> /\ Whole(sdu) /\ sdu[1].id = pdu.id
  <1> DEFINE g == Grown(r, pdu)
             sdu == g.sdu
  <1>1. Len(sdu) > 1 /\ g.next_expected_so = g.total_sdu_length
    BY DEF Done, sdu_complete
  <1>2. sdu \in Seq(Pieces(n)) /\ Len(sdu) \in Nat /\ g.next_expected_so \in Nat
    BY GrownType, EntryFields
  <1>3. sdu[1].at = 0 /\ sdu[Len(sdu)].ends
    <2>1. Len(sdu) > 0
      BY <1>1, <1>2
    <2>2. g.next_expected_so > 0 /\ g.total_sdu_length \in {0, SduLen}
      BY <2>1 DEF EntryTrue
    <2>3. g.next_expected_so = SduLen
      BY <1>1, <2>2
    <2> QED
      BY <2>1, <2>3 DEF EntryTrue
  <1>4. \A k \in 1 .. Len(sdu) : sdu[k].id = pdu.id
    BY DEF EntryFrom
  <1>5. 1 \in 1 .. Len(sdu) /\ sdu # << >>
    BY <1>1, <1>2
  <1> HIDE DEF g
  <1> QED
    BY <1>3, <1>4, <1>5 DEF Whole, g

(* The window reaches past an SN that was above it. *)
LEMMA MovedOver ==
  ASSUME NEW r, NEW sn \in Sns, r.RX_Next_Highest = (sn + 1) % UmMod
  PROVE  InWindow(r, sn)
  <1>1. r.RX_Next_Highest = Succ(sn) /\ Succ(sn) \in Sns
    BY SuccIs
  <1>2. Behind(Succ(sn), sn) = 1
    <2>1. Behind(Succ(sn), sn) = IF Succ(sn) >= sn THEN Succ(sn) - sn ELSE Succ(sn) - sn + UmMod
      BY <1>1, BehindIs
    <2>2. UmMod \in Nat /\ UmMod >= 2 /\ sn \in Nat /\ sn < UmMod
      BY SnRange
    <2>3. CASE sn + 1 = UmMod
      <3>1. Succ(sn) = 0
        BY <2>3 DEF Succ
      <3> QED
        BY <2>1, <2>2, <2>3, <3>1
    <2>4. CASE sn + 1 # UmMod
      <3>1. Succ(sn) = sn + 1
        BY <2>4 DEF Succ
      <3> QED
        BY <2>1, <2>2, <3>1
    <2> QED
      BY <2>3, <2>4
  <1> QED
    BY <1>1, <1>2, SnRange DEF InWindow

LEMMA DeliveredWindow ==
  ASSUME NEW n, NEW r \in Receivers(n), NEW sn, \A e \in r.rx_window : InWindow(r, e.sn),
         NearWindow(r, r.RX_Next_Reassembly)
  PROVE  LET u == UpdateTimer(Delivered(r, sn)) IN
         /\ u \in Receivers(n) /\ WindowOK(u) /\ u.RX_Next_Highest = r.RX_Next_Highest
         /\ u.rx_window = {e \in r.rx_window : e.sn # sn}
  <1> DEFINE d == Delivered(r, sn)
  <1>1. /\ d \in Receivers(n) /\ d.RX_Next_Highest = r.RX_Next_Highest
        /\ d.rx_window = {e \in r.rx_window : e.sn # sn}
        /\ \/ d.RX_Next_Reassembly \in {r.RX_Next_Reassembly, r.RX_Next_Highest}
           \/ d.RX_Next_Reassembly \in HeldSns(r)
    BY DeliveredType
  <1> HIDE DEF d
  <1>2. \A x : (InWindow(d, x) <=> InWindow(r, x)) /\ (NearWindow(d, x) <=> NearWindow(r, x))
    BY <1>1, SameWindow
  <1>3. NearWindow(r, d.RX_Next_Reassembly)
    <2>1. \A x \in HeldSns(r) : NearWindow(r, x)
      BY InIsNear DEF HeldSns
    <2> QED
      BY <1>1, <2>1, HighestIsNear
  <1>4. NearWindow(d, d.RX_Next_Reassembly) /\ \A e \in d.rx_window : InWindow(d, e.sn)
    BY <1>1, <1>2, <1>3
  <1>5. /\ UpdateTimer(d) \in Receivers(n) /\ WindowOK(UpdateTimer(d))
        /\ UpdateTimer(d).rx_window = d.rx_window
        /\ UpdateTimer(d).RX_Next_Highest = d.RX_Next_Highest
    BY <1>1, <1>4, UpdateTimerWindow
  <1> QED
    BY <1>1, <1>5 DEF d

LEMMA MovedWindow ==
  ASSUME NEW n, NEW r \in Receivers(n), NEW sn \in Sns, \E e \in r.rx_window : e.sn = sn
  PROVE  LET u == UpdateTimer(WindowMoved(r, sn)) IN
         /\ u \in Receivers(n) /\ WindowOK(u) /\ u.RX_Next_Highest = Succ(sn)
         /\ u.rx_window \in SUBSET r.rx_window
  <1> DEFINE m == WindowMoved(r, sn)
  <1>1. /\ m \in Receivers(n) /\ m.RX_Next_Highest = (sn + 1) % UmMod
        /\ m.rx_window = {e \in r.rx_window : sn_in_reassembly_window(m, e.sn)}
        /\ \/ sn_in_reassembly_window(m, m.RX_Next_Reassembly)
           \/ m.rx_window = {}
           \/ m.RX_Next_Reassembly \in HeldSns(m)
    BY WindowMovedType
  <1> HIDE DEF m
  <1>2. \A e \in r.rx_window : e.sn \in Sns
    BY RxFields, EntryFields
  <1>3. InWindow(m, sn)
    BY <1>1, MovedOver
  <1>4. m.rx_window # {}
    <2>1. sn_in_reassembly_window(m, sn)
      BY <1>1, <1>3, InWindowIs
    <2> QED
      BY <1>1, <2>1
  <1>5. \A e \in m.rx_window : InWindow(m, e.sn)
    BY <1>1, <1>2, InWindowIs
  <1>6. m.RX_Next_Reassembly \in Sns
    BY <1>1, RxFields
  <1>7. NearWindow(m, m.RX_Next_Reassembly)
    <2>1. CASE sn_in_reassembly_window(m, m.RX_Next_Reassembly)
      BY <1>1, <1>6, <2>1, InWindowIs, InIsNear
    <2>2. CASE m.RX_Next_Reassembly \in HeldSns(m)
      BY <1>5, <2>2, InIsNear DEF HeldSns
    <2> QED
      BY <1>1, <1>4, <2>1, <2>2
  <1>8. /\ UpdateTimer(m) \in Receivers(n) /\ WindowOK(UpdateTimer(m))
        /\ UpdateTimer(m).rx_window = m.rx_window
        /\ UpdateTimer(m).RX_Next_Highest = m.RX_Next_Highest
    BY <1>1, <1>5, <1>7, UpdateTimerWindow
  <1>9. m.rx_window \in SUBSET r.rx_window
    BY <1>1
  <1> QED
    BY <1>1, <1>8, <1>9, SuccIs DEF m

(* What comes of one PDU. *)
LEMMA ReceivedPdu ==
  ASSUME NEW n, NEW r \in Receivers(n), WindowOK(r), \A e \in r.rx_window : EntryTrue(e),
         NEW pdu \in Pdus(n), PduTrue(pdu),
         pdu.si # "full" => \A e \in r.rx_window : e.sn = pdu.sn => EntryFrom(e, pdu.id),
         NEW got, got = handle_data_pdu(r, pdu)
  PROVE  /\ got.rx \in Receivers(n) /\ WindowOK(got.rx)
         /\ \A e \in got.rx.rx_window :
              /\ EntryTrue(e)
              /\ e \in r.rx_window \/ (pdu.si # "full" /\ e.sn = pdu.sn /\ EntryFrom(e, pdu.id))
         /\ \/ /\ got.rx.RX_Next_Highest = r.RX_Next_Highest
               /\ pdu.si # "full" => InWindow(r, pdu.sn)
            \/ /\ got.rx.RX_Next_Highest = Succ(pdu.sn)
               /\ pdu.si # "full" /\ ~InWindow(r, pdu.sn)
         /\ got.sdu # << >> => Whole(got.sdu) /\ got.sdu[1].id = pdu.id
  <1> DEFINE h == Held(r, pdu)
             g == Grown(r, pdu)
             sn == pdu.sn
  <1>0. sn \in Sns
    BY PduFields
  <1>1. CASE pdu.si = "full"
    <2> DEFINE p == [id |-> pdu.id, at |-> pdu.at, ends |-> pdu.ends]
    <2>1. got.rx = r /\ got.sdu = << p >>
      BY <1>1, HandleCases
    <2>2. p.id = pdu.id /\ p.at = 0 /\ p.ends
      BY <1>1 DEF PduTrue
    <2> HIDE DEF p
    <2>3. Whole(got.sdu) /\ got.sdu[1].id = pdu.id
      BY <2>1, <2>2 DEF Whole
    <2> QED
      BY <1>1, <2>1, <2>3
  <1>2. CASE pdu.si # "full" /\ sn_invalid_for_rx_buffer(r, sn)
    <2>1. got.rx = r /\ got.sdu = << >>
      BY <1>2, HandleCases
    <2>2. InWindow(r, sn)
      BY <1>0, <1>2, InvalidIsInWindow DEF WindowOK
    <2> QED
      BY <2>1, <2>2
  <1>3. CASE pdu.si # "full" /\ ~sn_invalid_for_rx_buffer(r, sn)
    <2>0. /\ Done(r, pdu) => got.rx = UpdateTimer(Delivered(h, sn)) /\ got.sdu = g.sdu
          /\ ~Done(r, pdu) /\ sn_in_reassembly_window(h, sn) => got.rx = UpdateTimer(h)
             /\ got.sdu = << >>
          /\ ~Done(r, pdu) /\ ~sn_in_reassembly_window(h, sn) =>
               got.rx = UpdateTimer(WindowMoved(h, sn)) /\ got.sdu = << >>
      <3> DEFINE x == handle_data_pdu(r, pdu)
      <3>1. /\ Done(r, pdu) => x.rx = UpdateTimer(Delivered(h, sn)) /\ x.sdu = g.sdu
            /\ ~Done(r, pdu) /\ sn_in_reassembly_window(h, sn) => x.rx = UpdateTimer(h) /\ x.sdu = << >>
            /\ ~Done(r, pdu) /\ ~sn_in_reassembly_window(h, sn) =>
                 x.rx = UpdateTimer(WindowMoved(h, sn)) /\ x.sdu = << >>
        BY <1>3, HandleCases
      <3>2. got = x
        OBVIOUS
      <3> HIDE DEF x, h, g, sn
      <3> QED
        BY <3>1, <3>2
    <2>1. EntryTrue(g) /\ EntryFrom(g, pdu.id) /\ g.sn = sn
      BY <1>3, GrownTrue, GrownType
    <2>2. /\ h \in Receivers(n) /\ h.RX_Next_Highest = r.RX_Next_Highest
          /\ h.RX_Next_Reassembly = r.RX_Next_Reassembly
          /\ h.rx_window = {e \in r.rx_window : e.sn # sn} \union {g}
      BY HeldIs
    <2> HIDE DEF g, h
    <2>3. \A x : (InWindow(h, x) <=> InWindow(r, x)) /\ (NearWindow(h, x) <=> NearWindow(r, x))
      BY <2>2, SameWindow
    <2>4. NearWindow(h, h.RX_Next_Reassembly)
      BY <2>2, <2>3 DEF WindowOK
    <2>5. \A e \in h.rx_window : EntryTrue(e) /\ (e \in r.rx_window \/ (e.sn = sn
          /\ EntryFrom(e, pdu.id)))
      BY <2>1, <2>2
    <2>6. InWindow(r, sn) => \A e \in h.rx_window : InWindow(h, e.sn)
      BY <2>1, <2>2, <2>3 DEF WindowOK
    <2>7. CASE Done(r, pdu)
      <3>1. sn \in HeldSns(r)
        BY <2>7, FirstIsNotDone
      <3>2. InWindow(r, sn)
        BY <3>1 DEF HeldSns, WindowOK
      <3> DEFINE u == UpdateTimer(Delivered(h, sn))
      <3>3. /\ u \in Receivers(n) /\ WindowOK(u) /\ u.RX_Next_Highest = h.RX_Next_Highest
            /\ u.rx_window = {e \in h.rx_window : e.sn # sn}
        BY <2>2, <2>4, <2>6, <3>2, DeliveredWindow
      <3>4. got.rx = u /\ got.sdu = g.sdu
        BY <2>0, <2>7
      <3> HIDE DEF u
      <3>5. g.sdu # << >> /\ Whole(g.sdu) /\ g.sdu[1].id = pdu.id
        BY <2>1, <2>7, DoneIsWhole DEF g
      <3> QED
        BY <1>3, <2>2, <2>5, <3>2, <3>3, <3>4, <3>5
    <2>8. CASE ~Done(r, pdu) /\ sn_in_reassembly_window(h, sn)
      <3>1. InWindow(r, sn)
        BY <1>0, <2>2, <2>3, <2>8, InWindowIs
      <3> DEFINE u == UpdateTimer(h)
      <3>2. /\ u \in Receivers(n) /\ WindowOK(u) /\ u.rx_window = h.rx_window
            /\ u.RX_Next_Highest = h.RX_Next_Highest
        BY <2>2, <2>4, <2>6, <3>1, UpdateTimerWindow
      <3>3. got.rx = u /\ got.sdu = << >>
        BY <2>0, <2>8
      <3> HIDE DEF u
      <3> QED
        BY <1>3, <2>2, <2>5, <3>1, <3>2, <3>3
    <2>9. CASE ~Done(r, pdu) /\ ~sn_in_reassembly_window(h, sn)
      <3> DEFINE u == UpdateTimer(WindowMoved(h, sn))
      <3>1. /\ u \in Receivers(n) /\ WindowOK(u) /\ u.RX_Next_Highest = Succ(sn)
            /\ u.rx_window \in SUBSET h.rx_window
        <4>1. \E e \in h.rx_window : e.sn = sn
          BY <2>1, <2>2
        <4> QED
          BY <1>0, <2>2, <4>1, MovedWindow
      <3>2. got.rx = u /\ got.sdu = << >>
        BY <2>0, <2>9
      <3>3. ~InWindow(r, sn)
        BY <1>0, <2>2, <2>3, <2>9, InWindowIs
      <3> HIDE DEF u
      <3> QED
        BY <1>3, <2>2, <2>5, <3>1, <3>2, <3>3
    <2> QED
      BY <2>7, <2>8, <2>9
  <1> QED
    BY <1>1, <1>2, <1>3

-----------------------------------------------------------------------------
(* The SDUs in RLC are the last that were written, in order. *)
Started(t) == IF t.tx_sdu = NoSdu THEN 0 ELSE 1

FirstUnsent(t, n) == n - Len(t.queue) - Started(t)

Numbered(t, n) ==
  /\ Len(t.queue) <= TxQueueLen /\ Len(t.queue) + Started(t) <= n
  /\ \A j \in 1 .. Len(t.queue) : t.queue[j].id = n - Len(t.queue) + j - 1
  /\ t.tx_sdu # NoSdu => t.tx_sdu.id = n - Len(t.queue) - 1

(* A PDU is overtaken by the few that are in the HARQ processes behind it: its SDU and
   its SN are recent.                                                       *)
Recent(t, a, n) ==
  \A i \in DOMAIN a : a[i] # NoPdu => a[i].id + (Len(a) - i) + 1 >= FirstUnsent(t, n)

Seg(a, i) == i \in DOMAIN a /\ a[i] # NoPdu /\ a[i].si # "full"

Ages(t, a) ==
  \A i \in DOMAIN a : Seg(a, i) =>
    2 * Behind(t.TX_Next, a[i].sn) <= Len(a) - i + 2 - Started(t)

(* One SDU for an SN, wherever its segments are. *)
OneSdu(t, r, a) ==
  /\ \A i, j \in DOMAIN a : Seg(a, i) /\ Seg(a, j) /\ a[i].sn = a[j].sn => a[i].id = a[j].id
  /\ \A i \in DOMAIN a, e \in r.rx_window : Seg(a, i) /\ a[i].sn = e.sn => EntryFrom(e, a[i].id)
  /\ \A i \in DOMAIN a : Seg(a, i) /\ a[i].sn = t.TX_Next =>
       t.tx_sdu # NoSdu /\ a[i].id = t.tx_sdu.id
  /\ \A e \in r.rx_window : e.sn = t.TX_Next => t.tx_sdu # NoSdu /\ EntryFrom(e, t.tx_sdu.id)

(* The SNs from RX_Next_Highest up to TX_Next: the receiver has seen no segment of them,
   so their first and last segments are in the air or were lost.            *)
Unseen(t, r) == Behind(Succ(t.TX_Next), r.RX_Next_Highest)

Due(t, r, x) ==
  /\ Behind(t.TX_Next, x[1]) < Unseen(t, r)
  /\ x[1] = t.TX_Next => t.tx_sdu # NoSdu /\ x[2] = "first"

InAir(a, x) == \E i \in DOMAIN a : Seg(a, i) /\ a[i].sn = x[1] /\ a[i].si = x[2]

Lost(t, r, a) == {x \in Sns \X {"first", "last"} : Due(t, r, x) /\ ~InAir(a, x)}

FewLost(t, r, a, f) ==
  /\ IsFiniteSet(Lost(t, r, a)) /\ Cardinality(Lost(t, r, a)) <= f
  /\ Unseen(t, r) <= UM_Window_Size
  /\ Unseen(t, r) = 0 => t.tx_sdu # NoSdu

LEMMA TxTypes ==
  ASSUME NEW n, NEW t \in Transmitters(n)
  PROVE  t.TX_Next \in Sns /\ Succ(t.TX_Next) \in Sns /\ Started(t) \in {0, 1}
  BY TxFields, SuccIs DEF Started

LEMMA UnseenType ==
  ASSUME NEW n, NEW t \in Transmitters(n), NEW r \in Receivers(n)
  PROVE  Unseen(t, r) \in Sns /\ Unseen(t, r) \in Nat
  BY TxTypes, RxFields, BehindIs, SnRange DEF Unseen

LEMMA BehindTwice == ASSUME NEW x \in Sns, NEW y \in Sns PROVE Behind(x, Behind(x, y)) = y
  <1> DEFINE z == Behind(x, y)
  <1>1. z \in Sns /\ z = IF x >= y THEN x - y ELSE x - y + UmMod
    BY BehindIs
  <1>2. Behind(x, z) = IF x >= z THEN x - z ELSE x - z + UmMod
    BY <1>1, BehindIs
  <1>3. UmMod \in Nat /\ x \in Nat /\ y \in Nat /\ x < UmMod /\ y < UmMod
    BY SnRange
  <1> HIDE DEF z
  <1>4. Behind(x, z) = y
    BY <1>1, <1>2, <1>3
  <1> QED
    BY <1>4 DEF z

(* As many of them as are lost and in the air. *)
LEMMA UnseenAreFew ==
  ASSUME NEW n, NEW t \in Transmitters(n), NEW r \in Receivers(n),
         NEW a \in Seq(Pdus(n) \union {NoPdu}), NEW f \in Nat, FewLost(t, r, a, f),
         Unseen(t, r) > 0
  PROVE  2 * (Unseen(t, r) - 1) + Started(t) <= f + Len(a)
  <1> DEFINE U == Unseen(t, r)
             T == t.TX_Next
             Z == IF t.tx_sdu = NoSdu THEN {} ELSE {0}
             A == (2 .. (2 * U - 1)) \union Z
             end(k) == IF k % 2 = 0 THEN "first" ELSE "last"
             tok(k) == << Behind(T, k \div 2), end(k) >>
             L == Lost(t, r, a)
  <1>1. U \in Nat /\ U > 0 /\ U < UmMod /\ T \in Sns /\ Len(a) \in Nat /\ UmMod \in Nat
    BY UnseenType, TxTypes, SnRange
  <1>2. IsFiniteSet(A) /\ Cardinality(A) = 2 * (U - 1) + Started(t)
    <2>1. IsFiniteSet(2 .. (2 * U - 1)) /\ Cardinality(2 .. (2 * U - 1)) = 2 * (U - 1)
      <3>1. 2 * U - 1 \in Int /\ 2 \in Int
        BY <1>1
      <3>2. /\ IsFiniteSet(2 .. (2 * U - 1))
            /\ Cardinality(2 .. (2 * U - 1)) = IF 2 > 2 * U - 1 THEN 0 ELSE (2 * U - 1) - 2 + 1
        BY <3>1, FS_Interval
      <3> HIDE DEF U
      <3> QED
        BY <1>1, <3>2
    <2>2. CASE t.tx_sdu = NoSdu
      <3>1. A = 2 .. (2 * U - 1)
        BY <2>2
      <3> HIDE DEF U, A
      <3> QED
        BY <1>1, <2>1, <2>2, <3>1 DEF Started
    <2>3. CASE t.tx_sdu # NoSdu
      <3>1. A = (2 .. (2 * U - 1)) \union {0} /\ 0 \notin 2 .. (2 * U - 1)
        BY <2>3
      <3> DEFINE B == 2 .. (2 * U - 1)
      <3>2. /\ IsFiniteSet(B \union {0})
            /\ Cardinality(B \union {0}) = IF 0 \in B THEN Cardinality(B) ELSE Cardinality(B) + 1
        <4> HIDE DEF B
        <4> QED
          BY <2>1, FS_AddElement DEF B
      <3> HIDE DEF U, A
      <3> QED
        BY <1>1, <2>1, <2>3, <3>1, <3>2 DEF Started
    <2> QED
      BY <2>2, <2>3
  <1>3. ASSUME NEW k \in A
        PROVE  /\ k \in Nat /\ k \div 2 \in Nat /\ k % 2 \in {0, 1} /\ k = (k \div 2) * 2 + (k % 2)
               /\ k \div 2 < U /\ k \div 2 \in Sns
               /\ k \div 2 = 0 => t.tx_sdu # NoSdu /\ k % 2 = 0
    <2>1. k \in Nat /\ k <= 2 * U - 1 /\ k # 1 /\ (k = 0 => t.tx_sdu # NoSdu)
      BY <1>1
    <2>2. k \div 2 \in Int /\ k % 2 \in 0 .. 2 - 1 /\ k = (k \div 2) * 2 + (k % 2)
      BY <2>1, DivMod
    <2> DEFINE d == k \div 2
               m == k % 2
    <2> HIDE DEF U, A, d, m
    <2>3. d \in Int /\ m \in {0, 1} /\ k = d * 2 + m
      BY <2>2 DEF d, m
    <2>4. d \in Nat /\ d < U /\ (d = 0 => t.tx_sdu # NoSdu /\ m = 0)
      BY <1>1, <2>1, <2>3
    <2>5. d \in Sns
      BY <1>1, <2>4, SnRange
    <2> QED
      BY <2>1, <2>3, <2>4, <2>5 DEF d, m
  <1> HIDE DEF A
  <1>4. \A k \in A : tok(k) \in Sns \X {"first", "last"} /\ Due(t, r, tok(k))
    <2> SUFFICES ASSUME NEW k \in A PROVE tok(k) \in Sns \X {"first", "last"} /\ Due(t, r, tok(k))
      OBVIOUS
    <2> DEFINE d == k \div 2
    <2>1. d \in Sns /\ d < U /\ (d = 0 => t.tx_sdu # NoSdu /\ end(k) = "first")
      BY <1>3
    <2> HIDE DEF d
    <2>2. Behind(T, d) \in Sns /\ Behind(T, Behind(T, d)) = d /\ Behind(T, T) = 0
      <3> HIDE DEF T, U
      <3>1. Behind(T, T) = 0
        BY <1>1, BehindIs, SnRange
      <3>2. Behind(T, d) \in Sns
        BY <1>1, <2>1, BehindIs
      <3>3. Behind(T, Behind(T, d)) = d
        BY <1>1, <2>1, BehindTwice
      <3> QED
        BY <3>1, <3>2, <3>3
    <2>3. end(k) \in {"first", "last"}
      OBVIOUS
    <2> HIDE DEF end, U, T
    <2> DEFINE x == << Behind(T, d), end(k) >>
    <2>4. x[1] = Behind(T, d) /\ x[2] = end(k) /\ x \in Sns \X {"first", "last"}
      BY <2>2, <2>3
    <2> HIDE DEF x
    <2>5. Behind(T, x[1]) < U
      BY <2>1, <2>2, <2>4
    <2>6. x[1] = T => t.tx_sdu # NoSdu /\ x[2] = "first"
      BY <2>1, <2>2, <2>4
    <2>7. Due(t, r, x)
      BY <2>5, <2>6 DEF Due, U, T
    <2> QED
      BY <2>4, <2>7 DEF x, d
  <1>5. \A k, l \in A : tok(k) = tok(l) => k = l
    <2> SUFFICES ASSUME NEW k \in A, NEW l \in A, tok(k) = tok(l) PROVE k = l
      OBVIOUS
    <2> DEFINE d == k \div 2
               e == l \div 2
               m == k % 2
               o == l % 2
    <2>1. d \in Sns /\ e \in Sns /\ m \in {0, 1} /\ o \in {0, 1} /\ k = d * 2 + m /\ l = e * 2 + o
      BY <1>3
    <2>2. Behind(T, d) = Behind(T, e) /\ (m = 0 <=> o = 0)
      OBVIOUS
    <2> HIDE DEF d, e, m, o
    <2>3. d = e
      BY <1>1, <2>1, <2>2, BehindTwice
    <2> QED
      BY <2>1, <2>2, <2>3
  <1> DEFINE A1 == {k \in A : InAir(a, tok(k))}
             A2 == {k \in A : ~InAir(a, tok(k))}
             f1 == [k \in A1 |-> CHOOSE i \in DOMAIN a : a[i].sn = tok(k)[1] /\ a[i].si = tok(k)[2]]
             f2 == [k \in A2 |-> tok(k)]
  <1> HIDE DEF end
  <1>6. IsFiniteSet(A1) /\ Cardinality(A1) <= Len(a)
    <2>1. \A k \in A1 : f1[k] \in DOMAIN a /\ a[f1[k]].sn = tok(k)[1] /\ a[f1[k]].si = tok(k)[2]
      BY DEF InAir
    <2>2. f1 \in [A1 -> 1 .. Len(a)]
      BY <2>1
    <2>3. ASSUME NEW k \in A1, NEW l \in A1, f1[k] = f1[l] PROVE k = l
      <3>1. tok(k)[1] = tok(l)[1] /\ tok(k)[2] = tok(l)[2]
        BY <2>1, <2>3
      <3>2. tok(k) = tok(l)
        BY <3>1
      <3> QED
        BY <1>5, <3>2
    <2> HIDE DEF f1, A1
    <2>4. f1 \in Injection(A1, 1 .. Len(a))
      BY <2>2, <2>3 DEF Injection, IsInjective
    <2>5. IsFiniteSet(1 .. Len(a)) /\ Cardinality(1 .. Len(a)) = Len(a)
      <3> DEFINE l == Len(a)
      <3>1. l \in Nat /\ l \in Int /\ 1 \in Int
        BY <1>1
      <3> HIDE DEF l
      <3>2. IsFiniteSet(1 .. l) /\ Cardinality(1 .. l) = IF 1 > l THEN 0 ELSE l - 1 + 1
        BY <3>1, FS_Interval
      <3>3. IsFiniteSet(1 .. l) /\ Cardinality(1 .. l) = l
        BY <3>1, <3>2
      <3> QED
        BY <3>3 DEF l
    <2> QED
      BY <2>4, <2>5, FS_Injection
  <1>7. IsFiniteSet(A2) /\ Cardinality(A2) <= f
    <2>1. f2 \in [A2 -> L]
      <3> SUFFICES ASSUME NEW k \in A2 PROVE tok(k) \in L
        OBVIOUS
      <3>1. tok(k) \in Sns \X {"first", "last"} /\ Due(t, r, tok(k)) /\ ~InAir(a, tok(k))
        BY <1>4
      <3> HIDE DEF tok
      <3> QED
        BY <3>1 DEF Lost
    <2>2. \A k, l \in A2 : f2[k] = f2[l] => k = l
      BY <1>5
    <2> HIDE DEF f2, A2
    <2>3. f2 \in Injection(A2, L)
      BY <2>1, <2>2 DEF Injection, IsInjective
    <2>4. IsFiniteSet(L) /\ Cardinality(L) <= f
      BY DEF FewLost
    <2>5. IsFiniteSet(A2) /\ Cardinality(A2) <= Cardinality(L)
      BY <2>3, <2>4, FS_Injection
    <2>6. Cardinality(A2) \in Nat /\ Cardinality(L) \in Nat
      BY <2>4, <2>5, FS_CardinalityType
    <2> QED
      BY <2>4, <2>5, <2>6
  <1>8. A = A1 \union A2 /\ A1 \intersect A2 = {}
    OBVIOUS
  <1> HIDE DEF A1, A2
  <1>9. Cardinality(A) = Cardinality(A1) + Cardinality(A2)
    <2>1. Cardinality(A1 \union A2) = Cardinality(A1) + Cardinality(A2) - Cardinality(A1 \intersect A2)
      BY <1>6, <1>7, FS_Union
    <2>2. Cardinality({}) = 0
      BY FS_EmptySet
    <2>3. Cardinality(A1) \in Nat /\ Cardinality(A2) \in Nat
      BY <1>6, <1>7, FS_CardinalityType
    <2>4. Cardinality(A) = Cardinality(A1) + Cardinality(A2) - 0
      BY <1>8, <2>1, <2>2
    <2> DEFINE x == Cardinality(A1)
               y == Cardinality(A2)
    <2>5. x \in Nat /\ y \in Nat /\ Cardinality(A) = x + y - 0
      BY <2>3, <2>4
    <2> HIDE DEF x, y
    <2>6. Cardinality(A) = x + y
      BY <2>5
    <2> QED
      BY <2>6 DEF x, y
  <1>10. Cardinality(A1) \in Nat /\ Cardinality(A2) \in Nat
    BY <1>6, <1>7, FS_CardinalityType
  <1> HIDE DEF U
  <1>11. 2 * (U - 1) + Started(t) <= f + Len(a)
    BY <1>1, <1>2, <1>6, <1>7, <1>9, <1>10
  <1> QED
    BY <1>11 DEF U

LEMMA FirstUnsentType ==
  ASSUME NEW n \in Nat, NEW t \in Transmitters(n)
  PROVE  FirstUnsent(t, n) \in Int /\ Len(t.queue) \in Nat
         /\ FirstUnsent(t, n) = n - Len(t.queue) - Started(t)
  BY TxFields, TxTypes DEF FirstUnsent

LEMMA BuiltNumbered ==
  ASSUME NEW n \in Nat, NEW t \in Transmitters(n), NEW x \in Transmitters(n), NEW p \in Pdus(n),
         Built(t, x, p), Numbered(t, n)
  PROVE  /\ Numbered(x, n) /\ p.id = FirstUnsent(t, n)
         /\ FirstUnsent(x, n) \in {FirstUnsent(t, n), FirstUnsent(t, n) + 1}
  <1> DEFINE l == Len(t.queue)
             m == Len(x.queue)
  <1>1. l \in Nat /\ m \in Nat /\ t.queue \in Seq(Sdus(n)) /\ TxQueueLen \in Nat
    BY TxFields, UmFacts
  <1>2. /\ l <= TxQueueLen /\ l + Started(t) <= n
        /\ \A j \in 1 .. l : t.queue[j].id = n - l + j - 1
        /\ t.tx_sdu # NoSdu => t.tx_sdu.id = n - l - 1
    BY DEF Numbered
  <1>3. FirstUnsent(t, n) = n - l - Started(t) /\ FirstUnsent(x, n) = n - m - Started(x)
    BY DEF FirstUnsent
  <1>4. CASE t.tx_sdu = NoSdu
    <2>1. /\ t.queue # << >> /\ x.queue = Tail(t.queue) /\ p.id = Head(t.queue).id
          /\ x.tx_sdu # NoSdu => x.tx_sdu.id = p.id
      BY <1>4 DEF Built, BuiltFull, BuiltFirst, BuiltMiddle, BuiltLast
    <2>2. /\ Head(t.queue) = t.queue[1] /\ l \in Nat \ {0} /\ m = l - 1
          /\ \A j \in 1 .. m : x.queue[j] = t.queue[j + 1]
      BY <1>1, <2>1, HeadTail
    <2> HIDE DEF l, m
    <2>3. p.id = n - l
      <3>1. 1 \in 1 .. l
        BY <2>2
      <3>2. t.queue[1].id = n - l + 1 - 1
        BY <1>2, <3>1
      <3> QED
        BY <1>1, <2>1, <2>2, <3>2
    <2>4. \A j \in 1 .. m : x.queue[j].id = n - m + j - 1
      <3> SUFFICES ASSUME NEW j \in 1 .. m PROVE x.queue[j].id = n - m + j - 1
        OBVIOUS
      <3>1. j + 1 \in 1 .. l /\ j \in Nat
        BY <1>1, <2>2
      <3>2. t.queue[j + 1].id = n - l + (j + 1) - 1
        BY <1>2, <3>1
      <3>3. n - l + (j + 1) - 1 = n - m + j - 1
        BY <1>1, <2>2, <3>1
      <3> QED
        BY <2>2, <3>2, <3>3
    <2>5. Started(t) = 0
      BY <1>4 DEF Started
    <2>6. Started(x) \in {0, 1} /\ (Started(x) = 0 <=> x.tx_sdu = NoSdu)
      BY DEF Started
    <2>7. m <= TxQueueLen /\ m + Started(x) <= n
      BY <1>1, <1>2, <2>2, <2>5, <2>6
    <2>8. x.tx_sdu # NoSdu => x.tx_sdu.id = n - m - 1
      BY <1>1, <2>1, <2>2, <2>3
    <2>9. Numbered(x, n)
      BY <2>4, <2>7, <2>8 DEF Numbered, m
    <2>10. FirstUnsent(t, n) = n - l /\ FirstUnsent(x, n) \in {n - l, n - l + 1}
      BY <1>1, <1>3, <2>2, <2>5, <2>6
    <2> QED
      BY <2>3, <2>9, <2>10
  <1>5. CASE t.tx_sdu # NoSdu
    <2>1. /\ x.queue = t.queue /\ p.id = t.tx_sdu.id
          /\ x.tx_sdu # NoSdu => x.tx_sdu.id = p.id
      BY <1>5 DEF Built, BuiltFull, BuiltFirst, BuiltMiddle, BuiltLast
    <2>2. m = l /\ Started(t) = 1
      BY <1>5, <2>1 DEF Started
    <2>3. Started(x) \in {0, 1} /\ (Started(x) = 0 <=> x.tx_sdu = NoSdu)
      BY DEF Started
    <2>4. p.id = n - l - 1
      BY <1>2, <1>5, <2>1
    <2>5. \A j \in 1 .. m : x.queue[j].id = n - m + j - 1
      BY <1>2, <2>1, <2>2
    <2> HIDE DEF l, m
    <2>6. Numbered(x, n)
      <3>1. m <= TxQueueLen /\ m + Started(x) <= n
        BY <1>1, <1>2, <2>2, <2>3
      <3>2. x.tx_sdu # NoSdu => x.tx_sdu.id = n - m - 1
        BY <2>1, <2>2, <2>4
      <3> QED
        BY <2>5, <3>1, <3>2 DEF Numbered, m
    <2>7. FirstUnsent(t, n) = n - l - 1 /\ FirstUnsent(x, n) \in {n - l - 1, n - l - 1 + 1}
      BY <1>1, <1>3, <2>2, <2>3
    <2> QED
      BY <2>4, <2>6, <2>7
  <1> QED
    BY <1>4, <1>5

LEMMA BuiltRecent ==
  ASSUME NEW n \in Nat, NEW t \in Transmitters(n), NEW x \in Transmitters(n), NEW p \in Pdus(n),
         Built(t, x, p), Numbered(t, n), NEW a \in Seq(Pdus(n) \union {NoPdu}), Recent(t, a, n)
  PROVE  Recent(x, Append(a, p), n)
  <1> DEFINE c == Append(a, p)
             F == FirstUnsent(t, n)
             G == FirstUnsent(x, n)
             l == Len(a)
  <1>1. p.id = F /\ G \in {F, F + 1} /\ F \in Int
    BY BuiltNumbered, FirstUnsentType
  <1>2. /\ Len(c) = l + 1 /\ l \in Nat /\ DOMAIN c = 1 .. (l + 1) /\ c[l + 1] = p
        /\ \A j \in 1 .. l : c[j] = a[j]
    BY AppendAt
  <1>3. DOMAIN a = 1 .. l
    OBVIOUS
  <1> HIDE DEF c
  <1>4. ASSUME NEW i \in DOMAIN c, c[i] # NoPdu PROVE c[i].id + (Len(c) - i) + 1 >= G
    <2>1. CASE i = l + 1
      <3> HIDE DEF F, G, l
      <3>1. G \in Int /\ F + ((l + 1) - (l + 1)) + 1 >= G
        BY <1>1, <1>2
      <3>2. c[i].id = F /\ Len(c) = l + 1
        BY <1>1, <1>2, <2>1
      <3> QED
        BY <2>1, <3>1, <3>2
    <2>2. CASE i # l + 1
      <3>1. i \in 1 .. l /\ c[i] = a[i] /\ i \in Nat
        BY <1>2, <2>2
      <3>2. a[i].id + (l - i) + 1 >= F
        BY <1>3, <1>4, <3>1 DEF Recent
      <3> DEFINE k == a[i].id
      <3>2a. k + (l - i) + 1 >= F
        BY <3>2
      <3>3. k \in Nat
        <4>1. a[i] \in Pdus(n)
          BY <1>3, <1>4, <3>1
        <4> QED
          BY <4>1, PduFields DEF Ids
      <3> HIDE DEF F, G, l, k
      <3>4. k + (l + 1 - i) + 1 >= G
        BY <1>1, <1>2, <3>1, <3>2a, <3>3
      <3> QED
        BY <1>2, <3>1, <3>4 DEF k
    <2> QED
      BY <2>1, <2>2
  <1> QED
    BY <1>4 DEF Recent, c

-----------------------------------------------------------------------------
(* When an SN is not used for two SDUs at a time: of every SDU that is sent in segments and
   of which the receiver has seen none, a first and a last segment are lost or are in the
   HARQ processes, and these are fewer than two for every SN of half the SN space.  The
   lemmas bound by f how many of them are lost at the time.                 *)

LEMMA BehindSucc ==
  ASSUME NEW x \in Sns, NEW y \in Sns
  PROVE  /\ Behind(Succ(x), y) = IF Behind(x, y) + 1 = UmMod THEN 0 ELSE Behind(x, y) + 1
         /\ Behind(Succ(x), Succ(y)) = Behind(x, y)
         /\ Behind(x, y) = 0 <=> x = y
  <1>1. UmMod \in Nat /\ UmMod >= 2 /\ x \in Nat /\ y \in Nat /\ x < UmMod /\ y < UmMod
    BY SnRange
  <1>2. /\ Succ(x) \in Sns /\ Succ(y) \in Sns
        /\ Succ(x) = (IF x + 1 = UmMod THEN 0 ELSE x + 1)
        /\ Succ(y) = (IF y + 1 = UmMod THEN 0 ELSE y + 1)
    BY SuccIs DEF Succ
  <1> DEFINE u == Succ(x)
             v == Succ(y)
  <1>3. Behind(u, y) = IF u >= y THEN u - y ELSE u - y + UmMod
    BY <1>2, BehindIs
  <1>4. Behind(u, v) = IF u >= v THEN u - v ELSE u - v + UmMod
    BY <1>2, BehindIs
  <1>5. Behind(x, y) = IF x >= y THEN x - y ELSE x - y + UmMod
    BY BehindIs
  <1>6. /\ u = (IF x + 1 = UmMod THEN 0 ELSE x + 1)
        /\ v = (IF y + 1 = UmMod THEN 0 ELSE y + 1)
    BY <1>2
  <1> HIDE DEF u, v
  <1>7. Behind(u, y) = IF Behind(x, y) + 1 = UmMod THEN 0 ELSE Behind(x, y) + 1
    BY <1>1, <1>3, <1>5, <1>6
  <1>8. Behind(u, v) = Behind(x, y)
    BY <1>1, <1>4, <1>5, <1>6
  <1>9. Behind(x, y) = 0 <=> x = y
    BY <1>1, <1>5
  <1> QED
    BY <1>7, <1>8, <1>9 DEF u, v

(* Before TX_Next is counted up there is room for one more SN. *)
LEMMA RoomForNext ==
  ASSUME NEW n, NEW t \in Transmitters(n), NEW r \in Receivers(n), t.tx_sdu # NoSdu,
         NEW a \in Seq(Pdus(n) \union {NoPdu}), Len(a) < Processes, NEW f \in Nat, f + Processes < UmMod,
         FewLost(t, r, a, f), Ages(t, a)
  PROVE  /\ Unseen(t, r) < UM_Window_Size
         /\ \A i \in DOMAIN a : Seg(a, i) => Behind(t.TX_Next, a[i].sn) < UM_Window_Size
  <1> DEFINE U == Unseen(t, r)
             W == UM_Window_Size
             l == Len(a)
  <1>1. /\ W \in Nat \ {0} /\ Processes \in Nat /\ f + Processes < 2 * W
        /\ f \in Nat /\ l \in Nat /\ U \in Nat /\ Started(t) = 1 /\ l < Processes
    BY UmFacts, UnseenType DEF Started
  <1>2. U > 0 => 2 * (U - 1) + Started(t) <= f + l
    BY <1>1, UnseenAreFew
  <1>3. U < W
    <2> HIDE DEF U, W, l
    <2> QED
      BY <1>1, <1>2
  <1>4. ASSUME NEW i \in DOMAIN a, Seg(a, i) PROVE Behind(t.TX_Next, a[i].sn) < W
    <2> DEFINE d == Behind(t.TX_Next, a[i].sn)
    <2>1. 2 * d <= l - i + 2 - Started(t)
      BY <1>4 DEF Ages
    <2>2. d \in Nat
      <3>1. a[i] \in Pdus(n)
        BY <1>4 DEF Seg
      <3> QED
        BY <3>1, PduFields, TxTypes, BehindIs, SnRange
    <2>3. i \in Nat /\ i >= 1
      OBVIOUS
    <2> HIDE DEF d, W, l, U
    <2> QED
      BY <1>1, <2>1, <2>2, <2>3 DEF d
  <1> QED
    BY <1>3, <1>4

LEMMA BuiltAges ==
  ASSUME NEW n \in Nat, NEW t \in Transmitters(n), NEW x \in Transmitters(n),
         NEW r \in Receivers(n), NEW p \in Pdus(n), Built(t, x, p),
         NEW a \in Seq(Pdus(n) \union {NoPdu}), Len(a) < Processes, NEW f \in Nat, f + Processes < UmMod,
         FewLost(t, r, a, f), Ages(t, a)
  PROVE  Ages(x, Append(a, p))
  <1> DEFINE c == Append(a, p)
             l == Len(a)
             T == t.TX_Next
             V == x.TX_Next
  <1>1. /\ Len(c) = l + 1 /\ l \in Nat /\ DOMAIN c = 1 .. (l + 1) /\ c[l + 1] = p
        /\ \A j \in 1 .. l : c[j] = a[j]
    BY AppendAt
  <1>2. DOMAIN a = 1 .. l
    OBVIOUS
  <1> HIDE DEF c
  <1>3. p.sn = T /\ T \in Sns /\ V \in Sns /\ UmMod \in Nat /\ UmMod = 2 * UM_Window_Size
        /\ UM_Window_Size \in Nat \ {0}
    BY TxTypes, SnRange DEF Built
  <1>4. \/ p.si = "full" /\ V = T /\ Started(t) = 0 /\ Started(x) = 0
        \/ p.si # "full" /\ V = T /\ Started(t) \in {0, 1} /\ Started(x) = 1
        \/ p.si # "full" /\ V = Succ(T) /\ Started(t) = 1 /\ Started(x) = 0 /\ t.tx_sdu # NoSdu
    BY TxTypes, SuccIs DEF Built, BuiltFull, BuiltFirst, BuiltMiddle, BuiltLast, Started
  <1>5. ASSUME NEW i \in DOMAIN c, Seg(c, i) PROVE 2 * Behind(V, c[i].sn) <= Len(c) - i + 2 - Started(x)
    <2>1. CASE i = l + 1
      <3>1. c[i] = p /\ p.si # "full"
        BY <1>1, <1>5, <2>1 DEF Seg
      <3>2. Behind(T, T) = 0 /\ Behind(Succ(T), T) = 1
        <4>1. Behind(T, T) = 0
          BY <1>3, BehindSucc
        <4>2. Behind(Succ(T), T) = IF Behind(T, T) + 1 = UmMod THEN 0 ELSE Behind(T, T) + 1
          BY <1>3, BehindSucc
        <4> QED
          BY <1>3, <4>1, <4>2
      <3> DEFINE d == Behind(V, T)
      <3>3. d \in {0, 1} /\ (V = T => d = 0) /\ (V = Succ(T) => d = 1)
        BY <1>4, <3>1, <3>2
      <3>4. \/ d = 0 /\ Started(x) = 1
            \/ d = 1 /\ Started(x) = 0
        BY <1>4, <3>1, <3>3
      <3> HIDE DEF d, l, V, T
      <3>5. 2 * d <= (l + 1) - (l + 1) + 2 - Started(x)
        BY <1>1, <3>4
      <3> QED
        BY <1>1, <1>3, <2>1, <3>1, <3>5 DEF d
    <2>2. CASE i # l + 1
      <3> DEFINE d == Behind(T, a[i].sn)
                 e == Behind(V, a[i].sn)
      <3>1. i \in 1 .. l /\ c[i] = a[i] /\ i \in Nat
        BY <1>1, <2>2
      <3>2. Seg(a, i) /\ a[i] \in Pdus(n)
        BY <1>2, <1>5, <3>1 DEF Seg
      <3>3. 2 * d <= l - i + 2 - Started(t)
        BY <1>2, <3>1, <3>2 DEF Ages
      <3>4. a[i].sn \in Sns /\ d \in Nat
        BY <1>3, <3>2, PduFields, BehindIs, SnRange
      <3>5. V = T => e = d
        OBVIOUS
      <3>6. V = Succ(T) /\ t.tx_sdu # NoSdu => e = d + 1
        <4> SUFFICES ASSUME V = Succ(T), t.tx_sdu # NoSdu PROVE e = d + 1
          OBVIOUS
        <4>1. d < UM_Window_Size
          BY <1>2, <3>1, <3>2, RoomForNext
        <4>2. e = IF d + 1 = UmMod THEN 0 ELSE d + 1
          BY <1>3, <3>4, BehindSucc
        <4> HIDE DEF d, e
        <4> QED
          BY <1>3, <3>4, <4>1, <4>2
      <3> HIDE DEF d, e, l, V, T
      <3>7. 2 * e <= (l + 1) - i + 2 - Started(x)
        BY <1>1, <1>4, <3>1, <3>3, <3>4, <3>5, <3>6
      <3> QED
        BY <1>1, <3>1, <3>7 DEF e
    <2> QED
      BY <2>1, <2>2
  <1> QED
    BY <1>5 DEF Ages, c

LEMMA SegAt ==
  ASSUME NEW n, NEW a \in Seq(Pdus(n) \union {NoPdu}), NEW i \in DOMAIN a, Seg(a, i)
  PROVE  /\ a[i] \in Pdus(n) /\ a[i].sn \in Sns /\ a[i].si \in {"first", "middle", "last"}
         /\ i \in Nat /\ i >= 1 /\ i <= Len(a) /\ Len(a) \in Nat
  <1>1. a[i] \in Pdus(n)
    BY DEF Seg
  <1> QED
    BY <1>1, PduFields DEF Seg

LEMMA AppendSegs ==
  ASSUME NEW n, NEW a \in Seq(Pdus(n) \union {NoPdu}), NEW p \in Pdus(n)
  PROVE  LET c == Append(a, p) IN
         \A i \in DOMAIN c :
           \/ i \in DOMAIN a /\ c[i] = a[i] /\ (Seg(c, i) <=> Seg(a, i))
           \/ i = Len(a) + 1 /\ c[i] = p /\ (Seg(c, i) <=> p.si # "full")
  <1> DEFINE c == Append(a, p)
  <1>1. /\ Len(c) = Len(a) + 1 /\ Len(a) \in Nat /\ DOMAIN c = 1 .. (Len(a) + 1)
        /\ c[Len(a) + 1] = p /\ \A j \in 1 .. Len(a) : c[j] = a[j]
    BY AppendAt
  <1>2. DOMAIN a = 1 .. Len(a) /\ p # NoPdu
    BY PduIsSome
  <1> HIDE DEF c
  <1>3. ASSUME NEW i \in DOMAIN c
        PROVE  \/ i \in DOMAIN a /\ c[i] = a[i] /\ (Seg(c, i) <=> Seg(a, i))
               \/ i = Len(a) + 1 /\ c[i] = p /\ (Seg(c, i) <=> p.si # "full")
    <2>1. CASE i = Len(a) + 1
      BY <1>1, <1>2, <2>1 DEF Seg
    <2>2. CASE i # Len(a) + 1
      <3>1. i \in 1 .. Len(a)
        BY <1>1, <2>2
      <3> QED
        BY <1>1, <1>2, <3>1 DEF Seg
    <2> QED
      BY <2>1, <2>2
  <1> QED
    BY <1>3 DEF c

LEMMA BuiltOneSdu ==
  ASSUME NEW n \in Nat, NEW t \in Transmitters(n), NEW x \in Transmitters(n),
         NEW r \in Receivers(n), WindowOK(r), NEW p \in Pdus(n), Built(t, x, p),
         NEW a \in Seq(Pdus(n) \union {NoPdu}), Len(a) < Processes, NEW f \in Nat, f + Processes < UmMod,
         FewLost(t, r, a, f), Ages(t, a), OneSdu(t, r, a)
  PROVE  OneSdu(x, r, Append(a, p))
  <1> DEFINE c == Append(a, p)
             T == t.TX_Next
             V == x.TX_Next
  <1>1. \A i \in DOMAIN c :
           \/ i \in DOMAIN a /\ c[i] = a[i] /\ (Seg(c, i) <=> Seg(a, i))
           \/ i = Len(a) + 1 /\ c[i] = p /\ (Seg(c, i) <=> p.si # "full")
    BY AppendSegs
  <1> HIDE DEF c
  <1>2. p.sn = T /\ T \in Sns /\ V \in Sns /\ T # Succ(T)
    <2>1. Behind(Succ(T), T) = IF Behind(T, T) + 1 = UmMod THEN 0 ELSE Behind(T, T) + 1
      BY TxTypes, BehindSucc
    <2>2. Behind(T, T) = 0 /\ UmMod >= 2 /\ UmMod \in Nat
      BY TxTypes, BehindSucc, SnRange
    <2>3. Behind(Succ(T), T) = 1
      BY <2>1, <2>2
    <2> QED
      BY <2>2, <2>3, TxTypes DEF Built
  <1>3. /\ \A i, j \in DOMAIN a : Seg(a, i) /\ Seg(a, j) /\ a[i].sn = a[j].sn => a[i].id = a[j].id
        /\ \A i \in DOMAIN a, e \in r.rx_window : Seg(a, i) /\ a[i].sn = e.sn => EntryFrom(e, a[i].id)
        /\ \A i \in DOMAIN a : Seg(a, i) /\ a[i].sn = T =>
             t.tx_sdu # NoSdu /\ a[i].id = t.tx_sdu.id
        /\ \A e \in r.rx_window : e.sn = T => t.tx_sdu # NoSdu /\ EntryFrom(e, t.tx_sdu.id)
    BY DEF OneSdu
  <1>4. p.si = "full" \/ (\A i \in DOMAIN a : Seg(a, i) /\ a[i].sn = T => a[i].id = p.id)
    BY <1>3 DEF Built, BuiltFull, BuiltFirst, BuiltMiddle, BuiltLast
  <1>5. p.si = "full" \/ (\A e \in r.rx_window : e.sn = T => EntryFrom(e, p.id))
    BY <1>3 DEF Built, BuiltFull, BuiltFirst, BuiltMiddle, BuiltLast
  <1>6. \A i, j \in DOMAIN c : Seg(c, i) /\ Seg(c, j) /\ c[i].sn = c[j].sn => c[i].id = c[j].id
    <2> SUFFICES ASSUME NEW i \in DOMAIN c, NEW j \in DOMAIN c, Seg(c, i), Seg(c, j), c[i].sn = c[j].sn
                 PROVE  c[i].id = c[j].id
      OBVIOUS
    <2>1. \/ i \in DOMAIN a /\ c[i] = a[i] /\ Seg(a, i)
          \/ c[i] = p /\ p.si # "full"
      BY <1>1
    <2>2. \/ j \in DOMAIN a /\ c[j] = a[j] /\ Seg(a, j)
          \/ c[j] = p /\ p.si # "full"
      BY <1>1
    <2> QED
      BY <1>2, <1>3, <1>4, <2>1, <2>2
  <1>7. \A i \in DOMAIN c, e \in r.rx_window : Seg(c, i) /\ c[i].sn = e.sn => EntryFrom(e, c[i].id)
    <2> SUFFICES ASSUME NEW i \in DOMAIN c, NEW e \in r.rx_window, Seg(c, i), c[i].sn = e.sn
                 PROVE  EntryFrom(e, c[i].id)
      OBVIOUS
    <2>1. \/ i \in DOMAIN a /\ c[i] = a[i] /\ Seg(a, i)
          \/ c[i] = p /\ p.si # "full"
      BY <1>1
    <2> QED
      BY <1>2, <1>3, <1>5, <2>1
  <1>8. /\ \A i \in DOMAIN c : Seg(c, i) /\ c[i].sn = V => x.tx_sdu # NoSdu /\ c[i].id = x.tx_sdu.id
        /\ \A e \in r.rx_window : e.sn = V => x.tx_sdu # NoSdu /\ EntryFrom(e, x.tx_sdu.id)
    <2>1. CASE V = T
      <3>1. \/ p.si = "full" /\ t.tx_sdu = NoSdu
            \/ x.tx_sdu # NoSdu /\ x.tx_sdu.id = p.id /\ t.tx_sdu = NoSdu
            \/ x.tx_sdu # NoSdu /\ x.tx_sdu.id = p.id /\ t.tx_sdu.id = p.id
        BY <1>2, <2>1, SuccIs DEF Built, BuiltFull, BuiltFirst, BuiltMiddle, BuiltLast
      <3>2. ASSUME NEW i \in DOMAIN c, Seg(c, i), c[i].sn = V
            PROVE  x.tx_sdu # NoSdu /\ c[i].id = x.tx_sdu.id
        <4>1. \/ i \in DOMAIN a /\ c[i] = a[i] /\ Seg(a, i)
              \/ c[i] = p /\ p.si # "full"
          BY <1>1, <3>2
        <4> QED
          BY <1>3, <2>1, <3>1, <3>2, <4>1
      <3>3. ASSUME NEW e \in r.rx_window, e.sn = V
            PROVE  x.tx_sdu # NoSdu /\ EntryFrom(e, x.tx_sdu.id)
        BY <1>3, <2>1, <3>1, <3>3
      <3> QED
        BY <3>2, <3>3
    <2>2. CASE V # T
      <3>1. V = Succ(T) /\ t.tx_sdu # NoSdu
        BY <1>2, <2>2, SuccIs DEF Built, BuiltFull, BuiltFirst, BuiltMiddle, BuiltLast
      <3> DEFINE W == UM_Window_Size
                 U == Unseen(t, r)
                 h == r.RX_Next_Highest
      <3>2. /\ U < W /\ W \in Nat /\ UmMod = 2 * W /\ W > 0 /\ U \in Nat
            /\ \A i \in DOMAIN a : Seg(a, i) => Behind(T, a[i].sn) < W
        BY <3>1, RoomForNext, SnRange, UnseenType
      <3>3. ASSUME NEW i \in DOMAIN c, Seg(c, i), c[i].sn = V PROVE FALSE
        <4>1. \/ i \in DOMAIN a /\ c[i] = a[i] /\ Seg(a, i)
              \/ c[i] = p
          BY <1>1, <3>3
        <4>2. i \in DOMAIN a /\ Seg(a, i) /\ a[i].sn = Succ(T)
          BY <1>2, <3>1, <3>3, <4>1
        <4> DEFINE d == Behind(T, Succ(T))
        <4>3. d < W
          BY <3>2, <4>2
        <4>4. d \in Nat /\ Behind(Succ(T), Succ(T)) = (IF d + 1 = UmMod THEN 0 ELSE d + 1)
          <5>1. Succ(T) \in Sns
            BY <1>2, SuccIs
          <5>2. d \in Nat
            BY <1>2, <5>1, BehindIs, SnRange
          <5>3. Behind(Succ(T), Succ(T)) = (IF d + 1 = UmMod THEN 0 ELSE d + 1)
            BY <1>2, <5>1, BehindSucc
          <5> QED
            BY <5>2, <5>3
        <4>5. Behind(Succ(T), Succ(T)) = 0
          BY <1>2, SuccIs, BehindSucc
        <4> HIDE DEF d, W, U
        <4> QED
          BY <3>2, <4>3, <4>4, <4>5
      <3>4. ASSUME NEW e \in r.rx_window, e.sn = V PROVE FALSE
        <4> DEFINE d == Behind(h, V)
        <4>1. d \in 1 .. W
          BY <3>4 DEF WindowOK, InWindow
        <4>2. h \in Sns /\ h \in Nat /\ V \in Nat /\ h < UmMod /\ V < UmMod
          BY <1>2, RxFields, SnRange
        <4>3. d = (IF h >= V THEN h - V ELSE h - V + UmMod)
          BY <1>2, <4>2, BehindIs
        <4>4. U = (IF V >= h THEN V - h ELSE V - h + UmMod)
          BY <1>2, <3>1, <4>2, BehindIs DEF Unseen
        <4> HIDE DEF d, W, U, V, h
        <4> QED
          BY <3>2, <4>1, <4>2, <4>3, <4>4
      <3> QED
        BY <3>3, <3>4
    <2> QED
      BY <2>1, <2>2
  <1> QED
    BY <1>6, <1>7, <1>8 DEF OneSdu, c

LEMMA FewerLost ==
  ASSUME NEW t, NEW r, NEW a, NEW f \in Nat, FewLost(t, r, a, f),
         NEW x, NEW s, NEW b, Lost(x, s, b) \in SUBSET Lost(t, r, a),
         Unseen(x, s) <= UM_Window_Size, Unseen(x, s) = 0 => x.tx_sdu # NoSdu
  PROVE  FewLost(x, s, b, f)
  <1> DEFINE A == Lost(t, r, a)
             B == Lost(x, s, b)
  <1>1. IsFiniteSet(A) /\ Cardinality(A) <= f
    BY DEF FewLost
  <1>2. B \in SUBSET A
    OBVIOUS
  <1> HIDE DEF A, B
  <1>3. IsFiniteSet(B) /\ Cardinality(B) <= Cardinality(A)
    BY <1>1, <1>2, FS_Subset
  <1>4. Cardinality(A) \in Nat /\ Cardinality(B) \in Nat
    BY <1>1, <1>3, FS_CardinalityType
  <1>5. Cardinality(B) <= f
    BY <1>1, <1>3, <1>4
  <1> QED
    BY <1>3, <1>5 DEF FewLost, B

LEMMA BuiltFewLost ==
  ASSUME NEW n \in Nat, NEW t \in Transmitters(n), NEW x \in Transmitters(n),
         NEW r \in Receivers(n), NEW p \in Pdus(n), Built(t, x, p),
         NEW a \in Seq(Pdus(n) \union {NoPdu}), Len(a) < Processes, NEW f \in Nat, f + Processes < UmMod,
         FewLost(t, r, a, f), Ages(t, a)
  PROVE  FewLost(x, r, Append(a, p), f)
  <1> DEFINE c == Append(a, p)
             T == t.TX_Next
             V == x.TX_Next
  <1>1. \A i \in DOMAIN c :
           \/ i \in DOMAIN a /\ c[i] = a[i] /\ (Seg(c, i) <=> Seg(a, i))
           \/ i = Len(a) + 1 /\ c[i] = p /\ (Seg(c, i) <=> p.si # "full")
    BY AppendSegs
  <1>2. DOMAIN a \in SUBSET DOMAIN c /\ Len(a) + 1 \in DOMAIN c /\ Len(a) + 1 \notin DOMAIN a
    <2>1. Len(a) \in Nat /\ DOMAIN a = 1 .. Len(a) /\ DOMAIN c = 1 .. (Len(a) + 1)
      BY AppendAt
    <2> HIDE DEF c
    <2> QED
      BY <2>1
  <1> HIDE DEF c
  <1>3. p.sn = T /\ T \in Sns /\ V \in Sns
    BY TxTypes DEF Built
  <1>4. \A y : InAir(a, y) => InAir(c, y)
    BY <1>1, <1>2 DEF InAir
  <1>5. p.si # "full" => InAir(c, << T, p.si >>)
    <2> SUFFICES ASSUME p.si # "full" PROVE InAir(c, << T, p.si >>)
      OBVIOUS
    <2> DEFINE y == << T, p.si >>
    <2>1. y[1] = T /\ y[2] = p.si
      OBVIOUS
    <2>2. c[Len(a) + 1] = p /\ Seg(c, Len(a) + 1)
      BY <1>1, <1>2
    <2> HIDE DEF y
    <2>3. InAir(c, y)
      BY <1>2, <1>3, <2>1, <2>2 DEF InAir
    <2> QED
      BY <2>3 DEF y
  <1>6. CASE V = T
    <2>1. Unseen(x, r) = Unseen(t, r)
      BY <1>6 DEF Unseen
    <2>2. \/ t.tx_sdu = NoSdu /\ x.tx_sdu = NoSdu
          \/ t.tx_sdu = NoSdu /\ p.si = "first" /\ x.tx_sdu # NoSdu
          \/ t.tx_sdu # NoSdu /\ x.tx_sdu # NoSdu
          \/ V = Succ(T)
      BY <1>3, SuccIs DEF Built, BuiltFull, BuiltFirst, BuiltMiddle, BuiltLast
    <2>3. V # Succ(T)
      <3>1. Behind(Succ(T), Succ(T)) = 0 /\ Behind(T, T) = 0 /\ UmMod \in Nat /\ UmMod >= 2
        BY <1>3, SuccIs, BehindSucc, SnRange
      <3>2. Behind(Succ(T), T) = IF Behind(T, T) + 1 = UmMod THEN 0 ELSE Behind(T, T) + 1
        BY <1>3, BehindSucc
      <3>3. Behind(Succ(T), T) = 1
        BY <3>1, <3>2
      <3> QED
        BY <1>6, <3>1, <3>3
    <2>4. ASSUME NEW y \in Lost(x, r, c) PROVE y \in Lost(t, r, a)
      <3>1. /\ y \in Sns \X {"first", "last"} /\ ~InAir(c, y)
            /\ Behind(T, y[1]) < Unseen(t, r)
            /\ y[1] = T => x.tx_sdu # NoSdu /\ y[2] = "first"
        BY <1>6, <2>1, <2>4 DEF Lost, Due
      <3>2. ~InAir(a, y)
        BY <1>4, <3>1
      <3>3. y[1] = T => t.tx_sdu # NoSdu
        <4> SUFFICES ASSUME y[1] = T, t.tx_sdu = NoSdu PROVE FALSE
          OBVIOUS
        <4>1. p.si = "first" /\ y[2] = "first"
          BY <2>2, <2>3, <3>1
        <4>2. y = << T, p.si >>
          BY <3>1, <4>1
        <4> QED
          BY <1>5, <3>1, <4>1, <4>2
      <3> QED
        BY <3>1, <3>2, <3>3 DEF Lost, Due
    <2>5. Lost(x, r, c) \in SUBSET Lost(t, r, a)
      BY <2>4
    <2>6. Unseen(x, r) <= UM_Window_Size /\ (Unseen(x, r) = 0 => x.tx_sdu # NoSdu)
      BY <2>1, <2>2, <2>3 DEF FewLost
    <2> QED
      BY <2>5, <2>6, FewerLost DEF c
  <1>7. CASE V # T
    <2>1. V = Succ(T) /\ t.tx_sdu # NoSdu /\ x.tx_sdu = NoSdu /\ p.si = "last"
      BY <1>3, <1>7, SuccIs DEF Built, BuiltFull, BuiltFirst, BuiltMiddle, BuiltLast
    <2> DEFINE W == UM_Window_Size
               U == Unseen(t, r)
               N == Unseen(x, r)
               h == r.RX_Next_Highest
    <2>2. U < W /\ W \in Nat /\ UmMod = 2 * W /\ U \in Nat /\ W > 0
      BY <2>1, RoomForNext, SnRange, UnseenType
    <2>3. N = U + 1
      <3>1. N = IF U + 1 = UmMod THEN 0 ELSE U + 1
        BY <1>3, <2>1, RxFields, BehindSucc DEF Unseen
      <3> HIDE DEF N, U, W
      <3> QED
        BY <2>2, <3>1
    <2>4. ASSUME NEW y \in Lost(x, r, c) PROVE y \in Lost(t, r, a)
      <3>1. /\ y \in Sns \X {"first", "last"} /\ ~InAir(c, y)
            /\ Behind(V, y[1]) < N /\ y[1] # V
        BY <2>1, <2>4 DEF Lost, Due
      <3>2. ~InAir(a, y)
        BY <1>4, <3>1
      <3>3. y[1] = T => y[2] = "first"
        <4> SUFFICES ASSUME y[1] = T, y[2] # "first" PROVE FALSE
          OBVIOUS
        <4>1. y = << T, p.si >>
          BY <2>1, <3>1
        <4> QED
          BY <1>5, <2>1, <3>1, <4>1
      <3>4. Behind(T, y[1]) < U
        <4> DEFINE d == Behind(T, y[1])
                   e == Behind(V, y[1])
        <4>1. y[1] \in Sns
          BY <3>1
        <4>2. e = (IF d + 1 = UmMod THEN 0 ELSE d + 1) /\ e # 0 /\ d \in Nat
          <5>1. V \in Sns
            BY <1>3
          <5>2. e = IF d + 1 = UmMod THEN 0 ELSE d + 1
            BY <1>3, <2>1, <4>1, BehindSucc
          <5>3. e # 0
            BY <3>1, <4>1, <5>1, BehindSucc
          <5> QED
            BY <1>3, <4>1, <5>2, <5>3, BehindIs, SnRange
        <4>3. e < N
          BY <3>1
        <4> HIDE DEF d, e, N, U, W
        <4>4. d < U
          BY <2>2, <2>3, <4>2, <4>3
        <4> QED
          BY <4>4 DEF d
      <3> QED
        BY <2>1, <3>1, <3>2, <3>3, <3>4 DEF Lost, Due
    <2>5. Lost(x, r, c) \in SUBSET Lost(t, r, a)
      BY <2>4
    <2>6. N <= W /\ N # 0
      <3> HIDE DEF N, U, W
      <3> QED
        BY <2>2, <2>3
    <2> QED
      BY <2>5, <2>6, FewerLost DEF c
  <1> QED
    BY <1>6, <1>7

(* A segment that was received is not due any more, and nothing else is due for it. *)
LEMMA ReceivedUnseen ==
  ASSUME Processes < UmMod, NEW n \in Nat, NEW t \in Transmitters(n), NEW r \in Receivers(n),
         NEW s \in Receivers(n),
         NEW a \in Seq(Pdus(n) \union {NoPdu}), Len(a) <= Processes, NEW f \in Nat,
         FewLost(t, r, a, f), Ages(t, a), OneSdu(t, r, a), NEW i \in DOMAIN a, Seg(a, i),
         \/ s.RX_Next_Highest = r.RX_Next_Highest /\ InWindow(r, a[i].sn)
         \/ s.RX_Next_Highest = Succ(a[i].sn) /\ ~InWindow(r, a[i].sn)
  PROVE  /\ Unseen(t, s) <= Unseen(t, r) /\ Unseen(t, s) <= UM_Window_Size
         /\ Unseen(t, s) = 0 => t.tx_sdu # NoSdu
         /\ ~(Behind(t.TX_Next, a[i].sn) < Unseen(t, s))
  <1> DEFINE T == t.TX_Next
             W == UM_Window_Size
             M == UmMod
             U == Unseen(t, r)
             N == Unseen(t, s)
             q == a[i].sn
             d == Behind(T, q)
             h == r.RX_Next_Highest
             l == Len(a)
  <1>1. /\ T \in Sns /\ q \in Sns /\ h \in Sns /\ i \in Nat /\ i >= 1 /\ l \in Nat /\ l <= Processes
        /\ Succ(T) \in Sns
    BY TxTypes, SegAt, RxFields
  <1>2. /\ M \in Nat /\ M = 2 * W /\ W \in Nat \ {0} /\ Processes \in Nat /\ Processes < M
        /\ T \in Nat /\ T < M /\ q \in Nat /\ q < M /\ h \in Nat /\ h < M
    <2>1. Processes \in Nat
      BY UmFacts
    <2>2. M \in Nat /\ M = 2 * W /\ W \in Nat \ {0}
      BY SnRange
    <2>3. Processes < M
      OBVIOUS
    <2> HIDE DEF M, W, T, q, h
    <2> QED
      BY <1>1, <2>1, <2>2, <2>3, SnRange DEF M
  <1>3. 2 * d <= l - i + 2 - Started(t) /\ d \in Nat /\ Started(t) \in {0, 1}
    <2>1. 2 * d <= l - i + 2 - Started(t)
      BY DEF Ages
    <2> QED
      BY <1>1, <2>1, BehindIs, SnRange, TxTypes
  <1>4. U \in Nat /\ U <= W /\ (U = 0 => Started(t) = 1)
    BY UnseenType DEF FewLost, Started
  <1>5. d = 0 => Started(t) = 1
    <2> SUFFICES ASSUME d = 0 PROVE Started(t) = 1
      OBVIOUS
    <2>1. q = T
      BY <1>1, BehindSucc
    <2> QED
      BY <2>1 DEF OneSdu, Started
  <1>6. d = IF T >= q THEN T - q ELSE T - q + M
    BY <1>1, BehindIs
  <1> DEFINE u == Behind(T, h)
             g == Behind(h, q)
  <1>8. u = IF T >= h THEN T - h ELSE T - h + M
    BY <1>1, BehindIs
  <1>9. U = IF u + 1 = M THEN 0 ELSE u + 1
    BY <1>1, BehindSucc DEF Unseen
  <1>10. g = IF h >= q THEN h - q ELSE h - q + M
    BY <1>1, BehindIs
  <1>11. Started(t) = 1 <=> t.tx_sdu # NoSdu
    BY DEF Started
  <1>12. CASE s.RX_Next_Highest = h /\ InWindow(r, q)
    <2>1. N = U
      BY <1>12 DEF Unseen
    <2>2. g \in 1 .. W
      BY <1>12 DEF InWindow
    <2> HIDE DEF T, W, M, U, N, q, d, h, l, u, g
    <2>3. ~(d < U)
      BY <1>2, <1>4, <1>6, <1>8, <1>9, <1>10, <2>2
    <2>4. /\ N <= U /\ N <= W /\ (N = 0 => Started(t) = 1) /\ ~(d < N)
      BY <1>4, <2>1, <2>3
    <2> QED
      BY <1>11, <2>4 DEF N, U, W, d, T, q
  <1>13. CASE s.RX_Next_Highest = Succ(q) /\ ~InWindow(r, q)
    <2>1. N = d
      BY <1>1, <1>13, BehindSucc DEF Unseen
    <2>2. ~(g \in 1 .. W)
      BY <1>13 DEF InWindow
    <2> HIDE DEF T, W, M, U, N, q, d, h, l, u, g
    <2>3. 2 * d <= Processes + 1 - Started(t)
      <3> DEFINE z == Started(t)
      <3>1. /\ z \in {0, 1} /\ 2 * d <= l - i + 2 - z /\ d \in Nat
            /\ l \in Nat /\ l <= Processes /\ i \in Nat /\ i >= 1 /\ Processes \in Nat
        BY <1>1, <1>2, <1>3
      <3> HIDE DEF z
      <3>2. 2 * d <= Processes + 1 - z
        BY <3>1
      <3> QED
        BY <3>2 DEF z
    <2>4. d <= W /\ (Started(t) = 1 => d < W)
      BY <1>2, <1>3, <2>3
    <2>5. d < U
      BY <1>2, <1>3, <1>4, <1>6, <1>8, <1>9, <1>10, <2>2, <2>4
    <2>6. /\ N <= U /\ N <= W /\ (N = 0 => Started(t) = 1) /\ ~(d < N)
      BY <1>3, <1>4, <1>5, <2>1, <2>4, <2>5
    <2> QED
      BY <1>11, <2>6 DEF N, U, W, d, T, q
  <1> QED
    BY <1>12, <1>13

LEMMA ReceivedFewLost ==
  ASSUME NEW t, NEW r, NEW s, NEW a, NEW n \in Nat, t \in Transmitters(n), r \in Receivers(n),
         s \in Receivers(n),
         NEW f \in Nat, FewLost(t, r, a, f),
         Unseen(t, s) <= Unseen(t, r), Unseen(t, s) <= UM_Window_Size, Unseen(t, s) = 0
         => t.tx_sdu # NoSdu
  PROVE  FewLost(t, s, a, f)
  <1>1. ASSUME NEW y \in Lost(t, s, a) PROVE y \in Lost(t, r, a)
    <2> DEFINE d == Behind(t.TX_Next, y[1])
               N == Unseen(t, s)
               U == Unseen(t, r)
    <2>1. d < N /\ y \in Sns \X {"first", "last"} /\ ~InAir(a, y)
      BY <1>1 DEF Lost, Due
    <2>2. d \in Nat /\ N \in Nat /\ U \in Nat
      <3>1. y[1] \in Sns
        BY <2>1
      <3> QED
        BY <3>1, TxTypes, BehindIs, UnseenType, SnRange
    <2>3. N <= U
      OBVIOUS
    <2> HIDE DEF d, N, U
    <2>4. d < U
      BY <2>1, <2>2, <2>3
    <2> QED
      BY <1>1, <2>1, <2>4 DEF Lost, Due, d, U
  <1>2. Lost(t, s, a) \in SUBSET Lost(t, r, a)
    BY <1>1
  <1> QED
    BY <1>2, FewerLost

LEMMA ReceivedOneSdu ==
  ASSUME NEW t, NEW r, NEW s, NEW a, OneSdu(t, r, a), NEW i \in DOMAIN a, a[i] # NoPdu,
         \A e \in s.rx_window : \/ e \in r.rx_window
                                \/ a[i].si # "full" /\ e.sn = a[i].sn /\ EntryFrom(e, a[i].id)
  PROVE  OneSdu(t, s, a)
  <1>1. ASSUME NEW j \in DOMAIN a, NEW e \in s.rx_window, Seg(a, j), a[j].sn = e.sn
        PROVE  EntryFrom(e, a[j].id)
    <2>1. CASE e \in r.rx_window
      BY <1>1, <2>1 DEF OneSdu
    <2>2. CASE a[i].si # "full" /\ e.sn = a[i].sn /\ EntryFrom(e, a[i].id)
      <3>1. Seg(a, i)
        BY <2>2 DEF Seg
      <3>2. a[i].id = a[j].id
        BY <1>1, <2>2, <3>1 DEF OneSdu
      <3> QED
        BY <2>2, <3>2
    <2> QED
      BY <2>1, <2>2
  <1>2. ASSUME NEW e \in s.rx_window, e.sn = t.TX_Next
        PROVE  t.tx_sdu # NoSdu /\ EntryFrom(e, t.tx_sdu.id)
    <2>1. CASE e \in r.rx_window
      BY <1>2, <2>1 DEF OneSdu
    <2>2. CASE a[i].si # "full" /\ e.sn = a[i].sn /\ EntryFrom(e, a[i].id)
      <3>1. Seg(a, i)
        BY <2>2 DEF Seg
      <3>2. t.tx_sdu # NoSdu /\ a[i].id = t.tx_sdu.id
        BY <1>2, <2>2, <3>1 DEF OneSdu
      <3> QED
        BY <2>2, <3>2
    <2> QED
      BY <2>1, <2>2
  <1> QED
    BY <1>1, <1>2 DEF OneSdu

(* Fewer PDUs in the air. *)
LEMMA ThinnerKeeps ==
  ASSUME NEW n \in Nat, NEW t \in Transmitters(n), NEW r,
         NEW a \in Seq(Pdus(n) \union {NoPdu}), NEW b \in Seq(Pdus(n) \union {NoPdu}),
         Thinner(a, b), Recent(t, a, n), Ages(t, a), OneSdu(t, r, a)
  PROVE  Recent(t, b, n) /\ Ages(t, b) /\ OneSdu(t, r, b) /\ Len(b) <= Len(a)
  <1> DEFINE o(j) == j + (Len(a) - Len(b))
  <1>1. Len(a) \in Nat /\ Len(b) \in Nat /\ Len(b) <= Len(a) /\ DOMAIN b = 1 .. Len(b)
        /\ DOMAIN a = 1 .. Len(a)
    BY DEF Thinner
  <1>2. ASSUME NEW j \in DOMAIN b, b[j] # NoPdu
        PROVE  /\ o(j) \in DOMAIN a /\ b[j] = a[o(j)] /\ Len(a) - o(j) = Len(b) - j
               /\ Seg(b, j) => Seg(a, o(j))
    <2>1. o(j) \in DOMAIN a /\ Len(a) - o(j) = Len(b) - j
      BY <1>1
    <2>2. b[j] = a[o(j)]
      BY <1>1, <1>2 DEF Thinner
    <2> QED
      BY <2>1, <2>2 DEF Seg
  <1> HIDE DEF o
  <1>3. Recent(t, b, n)
    <2> SUFFICES ASSUME NEW j \in DOMAIN b, b[j] # NoPdu
                 PROVE  b[j].id + (Len(b) - j) + 1 >= FirstUnsent(t, n)
      BY DEF Recent
    <2>1. o(j) \in DOMAIN a /\ b[j] = a[o(j)] /\ Len(a) - o(j) = Len(b) - j
      BY <1>2
    <2>2. a[o(j)].id + (Len(a) - o(j)) + 1 >= FirstUnsent(t, n)
      BY <2>1 DEF Recent
    <2> QED
      BY <2>1, <2>2
  <1>4. Ages(t, b)
    <2> SUFFICES ASSUME NEW j \in DOMAIN b, Seg(b, j)
                 PROVE  2 * Behind(t.TX_Next, b[j].sn) <= Len(b) - j + 2 - Started(t)
      BY DEF Ages
    <2>1. b[j] # NoPdu
      BY DEF Seg
    <2>2. o(j) \in DOMAIN a /\ b[j] = a[o(j)] /\ Len(a) - o(j) = Len(b) - j /\ Seg(a, o(j))
      BY <1>2, <2>1
    <2>3. 2 * Behind(t.TX_Next, a[o(j)].sn) <= Len(a) - o(j) + 2 - Started(t)
      BY <2>2 DEF Ages
    <2> QED
      BY <2>2, <2>3
  <1>5. OneSdu(t, r, b)
    <2>1. \A j \in DOMAIN b : Seg(b, j) => o(j) \in DOMAIN a /\ b[j] = a[o(j)] /\ Seg(a, o(j))
      BY <1>2 DEF Seg
    <2> QED
      BY <2>1 DEF OneSdu
  <1> QED
    BY <1>1, <1>3, <1>4, <1>5

(* One PDU is gone: lost, or received and so not due. *)
LEMMA GoneFewLost ==
  ASSUME NEW n \in Nat, NEW t \in Transmitters(n), NEW r \in Receivers(n),
         NEW a \in Seq(Pdus(n) \union {NoPdu}), NEW i \in DOMAIN a, a[i] # NoPdu,
         NEW f \in Nat, FewLost(t, r, a, f)
  PROVE  LET b == Free([a EXCEPT ![i] = NoPdu]) IN
         /\ FewLost(t, r, b, f + 1)
         /\ (Seg(a, i) => ~(Behind(t.TX_Next, a[i].sn) < Unseen(t, r))) => FewLost(t, r, b, f)
  <1> DEFINE b == Free([a EXCEPT ![i] = NoPdu])
             A == Lost(t, r, a)
             B == Lost(t, r, b)
             z == << a[i].sn, a[i].si >>
  <1>1. \A j \in DOMAIN a : j # i /\ a[j] # NoPdu =>
          j - (Len(a) - Len(b)) \in DOMAIN b /\ b[j - (Len(a) - Len(b))] = a[j]
    BY ThinnerAir
  <1> HIDE DEF b
  <1>2. ASSUME NEW y, InAir(a, y), ~InAir(b, y) PROVE Seg(a, i) /\ y[1] = a[i].sn /\ y[2] = a[i].si
    <2>1. PICK j \in DOMAIN a : Seg(a, j) /\ a[j].sn = y[1] /\ a[j].si = y[2]
      BY <1>2 DEF InAir
    <2>2. CASE j = i
      BY <2>1, <2>2
    <2>3. CASE j # i
      <3> DEFINE k == j - (Len(a) - Len(b))
      <3>1. k \in DOMAIN b /\ b[k] = a[j]
        BY <1>1, <2>1, <2>3 DEF Seg
      <3> HIDE DEF k
      <3>2. Seg(b, k)
        BY <2>1, <3>1 DEF Seg
      <3> QED
        BY <1>2, <2>1, <3>1, <3>2 DEF InAir
    <2> QED
      BY <2>2, <2>3
  <1>3. \A y \in B : y \in A \/ y = z
    <2> SUFFICES ASSUME NEW y \in B, y \notin A PROVE y = z
      OBVIOUS
    <2>1. y \in Sns \X {"first", "last"} /\ Due(t, r, y) /\ ~InAir(b, y)
      BY DEF Lost
    <2>2. InAir(a, y)
      BY <2>1 DEF Lost
    <2>3. y[1] = a[i].sn /\ y[2] = a[i].si
      BY <1>2, <2>1, <2>2
    <2> QED
      BY <2>1, <2>3
  <1>4. IsFiniteSet(A) /\ Cardinality(A) <= f /\ Cardinality(A) \in Nat
    BY FS_CardinalityType DEF FewLost
  <1>5. IsFiniteSet(B) /\ Cardinality(B) <= f + 1
    <2> HIDE DEF A, B, z
    <2>1. B \in SUBSET (A \union {z})
      BY <1>3
    <2>2. /\ IsFiniteSet(A \union {z})
          /\ Cardinality(A \union {z}) = IF z \in A THEN Cardinality(A) ELSE Cardinality(A) + 1
      BY <1>4, FS_AddElement
    <2>3. IsFiniteSet(B) /\ Cardinality(B) <= Cardinality(A \union {z}) /\ Cardinality(B) \in Nat
      BY <2>1, <2>2, FS_Subset, FS_CardinalityType
    <2> QED
      BY <1>4, <2>2, <2>3
  <1>6. FewLost(t, r, b, f + 1)
    BY <1>5 DEF FewLost
  <1>7. ASSUME Seg(a, i) => ~(Behind(t.TX_Next, a[i].sn) < Unseen(t, r)) PROVE FewLost(t, r, b, f)
    <2>1. B \in SUBSET A
      <3> SUFFICES ASSUME NEW y \in B PROVE y \in A
        OBVIOUS
      <3>1. y \in Sns \X {"first", "last"} /\ Due(t, r, y) /\ ~InAir(b, y)
        BY DEF Lost
      <3>2. ~InAir(a, y)
        BY <1>2, <1>7, <3>1 DEF Due
      <3> QED
        BY <3>1, <3>2 DEF Lost
    <2> QED
      BY <2>1, FewerLost DEF FewLost
  <1> QED
    BY <1>6, <1>7 DEF b

-----------------------------------------------------------------------------
(* What RLC needs where PDCP has no integrity protection.  The SNs of RLC are 6 bits; half
   the SNs of PDCP outnumber the SDUs in RLC and in the HARQ processes; and the MAC does
   not lose all of too many SDUs in a row: counting the first and the last segments of the
   SDUs sent since the latest one that the receiver has got a segment of, those that are
   lost and the HARQ processes are fewer than the SNs.  A bearer may lose any number over
   its life, and every SN may come again any number of times.               *)
LossesInReach == Cardinality(Lost(umTx, umRx, air)) + Processes < UmMod

InReach == ~Sn12Bits /\ Processes + TxQueueLen + 1 <= window_size /\ LossesInReach

RlcOK ==
  /\ Len(air) <= Processes
  /\ Numbered(umTx, tx_next) /\ Recent(umTx, air, tx_next) /\ Ages(umTx, air)
  /\ WindowOK(umRx) /\ \A e \in umRx.rx_window : EntryTrue(e)
  /\ OneSdu(umTx, umRx, air) /\ \E f \in Nat : FewLost(umTx, umRx, air, f)

(* How many are lost, whatever they were bounded by. *)
LEMMA LossesCounted ==
  ASSUME RlcOK
  PROVE  LET l == Cardinality(Lost(umTx, umRx, air)) IN
         l \in Nat /\ FewLost(umTx, umRx, air, l)
  <1>1. PICK f \in Nat : FewLost(umTx, umRx, air, f)
    BY DEF RlcOK
  <1>2. Cardinality(Lost(umTx, umRx, air)) \in Nat
    BY <1>1, FS_CardinalityType DEF FewLost
  <1> QED
    BY <1>1, <1>2 DEF FewLost

LEMMA ProcessesInReach == ASSUME InReach, RlcOK PROVE Processes < UmMod
  <1>1. Cardinality(Lost(umTx, umRx, air)) \in Nat
    BY LossesCounted
  <1> QED
    BY <1>1, UmFacts DEF InReach, LossesInReach

LEMMA NothingYet ==
  ASSUME NEW n \in Nat, NEW f \in Nat
  PROVE  /\ Numbered(TxInit, n) /\ Recent(TxInit, << >>, n) /\ Ages(TxInit, << >>)
         /\ WindowOK(RxInit) /\ \A e \in RxInit.rx_window : EntryTrue(e)
         /\ OneSdu(TxInit, RxInit, << >>) /\ FewLost(TxInit, RxInit, << >>, f)
  <1>1. /\ TxInit.TX_Next = 0 /\ TxInit.tx_sdu = NoSdu /\ TxInit.queue = << >> /\ Len(TxInit.queue) = 0
        /\ RxInit.rx_window = {} /\ RxInit.RX_Next_Highest = 0
    BY DEF TxInit, RxInit
  <1>2. Numbered(TxInit, n)
    BY <1>1, UmFacts DEF Numbered, Started
  <1>3. Recent(TxInit, << >>, n) /\ Ages(TxInit, << >>)
    BY DEF Recent, Ages
  <1>4. OneSdu(TxInit, RxInit, << >>)
    BY <1>1 DEF OneSdu
  <1>5. 0 \in Sns /\ UmMod \in Nat /\ UmMod >= 2 /\ UM_Window_Size \in Nat \ {0}
    BY SnRange
  <1>6. Unseen(TxInit, RxInit) = 1 /\ Behind(0, 0) = 0
    <2>1. Behind(0, 0) = 0
      BY <1>5, BehindSucc
    <2>2. Behind(Succ(0), 0) = IF Behind(0, 0) + 1 = UmMod THEN 0 ELSE Behind(0, 0) + 1
      BY <1>5, BehindSucc
    <2>3. Behind(Succ(0), 0) = 1
      BY <1>5, <2>1, <2>2
    <2> QED
      BY <1>1, <2>1, <2>3 DEF Unseen
  <1>7. Lost(TxInit, RxInit, << >>) = {}
    <2> SUFFICES ASSUME NEW y \in Lost(TxInit, RxInit, << >>) PROVE FALSE
      OBVIOUS
    <2> DEFINE d == Behind(0, y[1])
    <2>1. y[1] \in Sns /\ d < 1 /\ y[1] # 0
      BY <1>1, <1>6 DEF Lost, Due
    <2>2. d \in Nat /\ d # 0
      BY <1>5, <2>1, BehindSucc, BehindIs, SnRange
    <2> HIDE DEF d
    <2> QED
      BY <2>1, <2>2
  <1>8. FewLost(TxInit, RxInit, << >>, f)
    <2> DEFINE L == Lost(TxInit, RxInit, << >>)
               u == Unseen(TxInit, RxInit)
               w == UM_Window_Size
    <2>1. IsFiniteSet(L) /\ Cardinality(L) = 0
      <3> HIDE DEF L
      <3> QED
        BY <1>7, FS_EmptySet DEF L
    <2>2. u = 1 /\ w \in Nat \ {0}
      BY <1>5, <1>6
    <2> HIDE DEF u, w
    <2>3. u <= w /\ u # 0
      BY <2>2
    <2>4. Cardinality(L) <= f
      <3> HIDE DEF L
      <3> QED
        BY <2>1
    <2> QED
      BY <2>1, <2>3, <2>4 DEF FewLost, u, w
  <1> QED
    BY <1>1, <1>2, <1>3, <1>4, <1>8, InitWindow

LEMMA WriteKeeps ==
  ASSUME NEW n \in Nat, NEW t \in Transmitters(n), NEW x \in Transmitters(n + 1), NEW r,
         NEW a \in Seq(Pdus(n) \union {NoPdu}), NEW f,
         x.TX_Next = t.TX_Next, x.tx_sdu = t.tx_sdu, Len(t.queue) < TxQueueLen,
         x.queue = Append(t.queue, [id |-> n, len |-> SduLen, left |-> SduLen]),
         Numbered(t, n), Recent(t, a, n), Ages(t, a), OneSdu(t, r, a), FewLost(t, r, a, f)
  PROVE  Numbered(x, n + 1) /\ Recent(x, a, n + 1) /\ Ages(x, a) /\ OneSdu(x, r, a)
         /\ FewLost(x, r, a, f)
  <1> DEFINE s == [id |-> n, len |-> SduLen, left |-> SduLen]
             l == Len(t.queue)
             m == Len(x.queue)
  <1>1. Started(x) = Started(t) /\ Started(t) \in {0, 1} /\ (x.tx_sdu # NoSdu <=> t.tx_sdu # NoSdu)
    BY DEF Started
  <1>2. t.queue \in Seq(Sdus(n) \union {s}) /\ l \in Nat /\ TxQueueLen \in Nat
    <2>1. t.queue \in Seq(Sdus(n))
      BY TxFields
    <2> HIDE DEF s
    <2> QED
      BY <2>1, SeqMonotonic, UmFacts
  <1>3. s.id = n
    OBVIOUS
  <1>4. x.queue = Append(t.queue, s)
    OBVIOUS
  <1> HIDE DEF s
  <1>5. /\ m = l + 1 /\ x.queue[l + 1] = s
        /\ \A j \in 1 .. l : x.queue[j] = t.queue[j]
    BY <1>2, <1>4, AppendAt
  <1>6. /\ l <= TxQueueLen /\ l + Started(t) <= n
        /\ \A j \in 1 .. l : t.queue[j].id = n - l + j - 1
        /\ t.tx_sdu # NoSdu => t.tx_sdu.id = n - l - 1
    BY DEF Numbered
  <1>7. l < TxQueueLen
    OBVIOUS
  <1> HIDE DEF l, m
  <1>8. FirstUnsent(x, n + 1) = FirstUnsent(t, n)
    <2> DEFINE z == Started(t)
    <2>1. FirstUnsent(x, n + 1) = (n + 1) - m - z /\ FirstUnsent(t, n) = n - l - z /\ z \in Int
      BY <1>1 DEF FirstUnsent, l, m
    <2> HIDE DEF z
    <2>2. (n + 1) - m - z = n - l - z
      BY <1>2, <1>5, <2>1
    <2> QED
      BY <2>1, <2>2
  <1>9. Numbered(x, n + 1)
    <2>1. m <= TxQueueLen /\ m + Started(x) <= n + 1
      BY <1>1, <1>2, <1>5, <1>6, <1>7
    <2>2. \A j \in 1 .. m : x.queue[j].id = (n + 1) - m + j - 1
      <3> SUFFICES ASSUME NEW j \in 1 .. m PROVE x.queue[j].id = (n + 1) - m + j - 1
        OBVIOUS
      <3>1. CASE j = l + 1
        <4>1. (n + 1) - m + j - 1 = n
          BY <1>2, <1>5, <3>1
        <4> QED
          BY <1>3, <1>5, <3>1, <4>1
      <3>2. CASE j # l + 1
        <4>1. j \in 1 .. l /\ (n + 1) - m + j - 1 = n - l + j - 1
          BY <1>2, <1>5, <3>2
        <4> QED
          BY <1>5, <1>6, <4>1
      <3> QED
        BY <3>1, <3>2
    <2>3. x.tx_sdu # NoSdu => x.tx_sdu.id = (n + 1) - m - 1
      <3>1. (n + 1) - m - 1 = n - l - 1
        BY <1>2, <1>5
      <3> QED
        BY <1>6, <3>1
    <2> QED
      BY <2>1, <2>2, <2>3 DEF Numbered, m
  <1>10. Recent(x, a, n + 1)
    BY <1>8 DEF Recent
  <1>11. Ages(x, a)
    BY <1>1 DEF Ages
  <1>12. OneSdu(x, r, a)
    BY DEF OneSdu
  <1>13. FewLost(x, r, a, f)
    <2>1. Unseen(x, r) = Unseen(t, r)
      BY DEF Unseen
    <2>2. Lost(x, r, a) = Lost(t, r, a)
      BY <2>1 DEF Lost, Due
    <2> QED
      BY <2>1, <2>2 DEF FewLost
  <1> QED
    BY <1>9, <1>10, <1>11, <1>12, <1>13

LEMMA RxShrinks ==
  ASSUME NEW t, NEW r, NEW s, NEW a, NEW f, s.RX_Next_Highest = r.RX_Next_Highest,
         s.rx_window \in SUBSET r.rx_window, OneSdu(t, r, a), FewLost(t, r, a, f)
  PROVE  OneSdu(t, s, a) /\ FewLost(t, s, a, f)
  <1>1. OneSdu(t, s, a)
    BY DEF OneSdu
  <1>2. Unseen(t, s) = Unseen(t, r)
    BY DEF Unseen
  <1>3. Lost(t, s, a) = Lost(t, r, a)
    BY <1>2 DEF Lost, Due
  <1> QED
    BY <1>1, <1>2, <1>3 DEF FewLost

(* What is passed up for a PDU that is received, and the state it leaves. *)
LEMMA ReceivedStep ==
  ASSUME InReach, RlcTyped, RlcTrue, RlcOK, NEW i \in DOMAIN air, air[i] # NoPdu,
         NEW f \in Nat, FewLost(umTx, umRx, air, f),
         NEW got, got = handle_data_pdu(umRx, air[i])
  PROVE  /\ got.rx \in Receivers(tx_next) /\ WindowOK(got.rx)
         /\ \A e \in got.rx.rx_window : EntryTrue(e)
         /\ OneSdu(umTx, got.rx, air) /\ FewLost(umTx, got.rx, air, f)
         /\ Seg(air, i) => ~(Behind(umTx.TX_Next, air[i].sn) < Unseen(umTx, got.rx))
         /\ got.sdu # << >> => /\ Whole(got.sdu) /\ got.sdu[1].id = air[i].id
                               /\ tx_next <= air[i].id + window_size
  <1> DEFINE n == tx_next
             p == air[i]
             s == got.rx
  <1>1. /\ n \in Nat /\ umTx \in Transmitters(n) /\ umRx \in Receivers(n)
        /\ air \in Seq(Pdus(n) \union {NoPdu}) /\ p \in Pdus(n)
    BY UmFacts, BearerAssumption DEF RlcTyped
  <1>2. PduTrue(p)
    BY DEF RlcTrue, AirTrue
  <1>3. p.si # "full" => \A e \in umRx.rx_window : e.sn = p.sn => EntryFrom(e, p.id)
    BY DEF RlcOK, OneSdu, Seg
  <1>4. /\ s \in Receivers(n) /\ WindowOK(s)
        /\ \A e \in s.rx_window :
             /\ EntryTrue(e)
             /\ e \in umRx.rx_window \/ (p.si # "full" /\ e.sn = p.sn /\ EntryFrom(e, p.id))
        /\ \/ /\ s.RX_Next_Highest = umRx.RX_Next_Highest
              /\ p.si # "full" => InWindow(umRx, p.sn)
           \/ /\ s.RX_Next_Highest = Succ(p.sn)
              /\ p.si # "full" /\ ~InWindow(umRx, p.sn)
        /\ got.sdu # << >> => Whole(got.sdu) /\ got.sdu[1].id = p.id
    <2> HIDE DEF n, p
    <2> QED
      BY <1>1, <1>2, <1>3, ReceivedPdu DEF RlcOK, p
  <1>5. OneSdu(umTx, s, air)
    <2>1. \A e \in s.rx_window : \/ e \in umRx.rx_window
                                 \/ air[i].si # "full" /\ e.sn = air[i].sn /\ EntryFrom(e, air[i].id)
      BY <1>4
    <2> HIDE DEF s
    <2> QED
      BY <2>1, ReceivedOneSdu DEF RlcOK
  <1>6. ASSUME Seg(air, i)
        PROVE  FewLost(umTx, s, air, f) /\ ~(Behind(umTx.TX_Next, air[i].sn) < Unseen(umTx, s))
    <2>1. \/ s.RX_Next_Highest = umRx.RX_Next_Highest /\ InWindow(umRx, air[i].sn)
          \/ s.RX_Next_Highest = Succ(air[i].sn) /\ ~InWindow(umRx, air[i].sn)
      BY <1>4, <1>6 DEF Seg
    <2>2. /\ Unseen(umTx, s) <= Unseen(umTx, umRx) /\ Unseen(umTx, s) <= UM_Window_Size
          /\ Unseen(umTx, s) = 0 => umTx.tx_sdu # NoSdu
          /\ ~(Behind(umTx.TX_Next, air[i].sn) < Unseen(umTx, s))
      <3> HIDE DEF n, s, p
      <3> QED
        BY <1>1, <1>4, <1>6, <2>1, ProcessesInReach, ReceivedUnseen DEF RlcOK
    <2>3. FewLost(umTx, s, air, f)
      <3> HIDE DEF n, s, p
      <3> QED
        BY <1>1, <1>4, <2>2, ReceivedFewLost DEF RlcOK
    <2> QED
      BY <2>2, <2>3
  <1>7. ASSUME ~Seg(air, i) PROVE FewLost(umTx, s, air, f)
    <2>1. s.RX_Next_Highest = umRx.RX_Next_Highest
      BY <1>4, <1>7 DEF Seg
    <2>2. Unseen(umTx, s) = Unseen(umTx, umRx)
      BY <2>1 DEF Unseen
    <2>3. Lost(umTx, s, air) = Lost(umTx, umRx, air)
      BY <2>2 DEF Lost, Due
    <2> QED
      BY <1>7, <2>2, <2>3 DEF FewLost
  <1>8. n <= p.id + window_size
    <2> DEFINE l == Len(air)
               q == Len(umTx.queue)
               k == p.id
               z == Started(umTx)
    <2>1. k + (l - i) + 1 >= n - q - z
      BY DEF RlcOK, Recent, FirstUnsent
    <2>2. /\ l <= Processes /\ q <= TxQueueLen /\ Processes + TxQueueLen + 1 <= window_size
          /\ z \in {0, 1}
      BY DEF RlcOK, Numbered, InReach, Started
    <2>3. /\ l \in Nat /\ q \in Nat /\ k \in Nat /\ window_size \in Nat
          /\ i \in Nat /\ i >= 1 /\ Processes \in Nat /\ TxQueueLen \in Nat
      <3>1. q \in Nat
        BY <1>1, TxFields
      <3>2. k \in Nat
        BY <1>1, PduFields DEF Ids
      <3>3. l \in Nat /\ i \in Nat /\ i >= 1
        BY <1>1
      <3> HIDE DEF l, q, k
      <3> QED
        BY <3>1, <3>2, <3>3, WindowHalf, UmFacts
    <2> HIDE DEF l, q, k, z, n
    <2>4. n <= k + window_size
      BY <1>1, <2>1, <2>2, <2>3
    <2> QED
      BY <2>4 DEF k
  <1>9. FewLost(umTx, s, air, f) /\ (Seg(air, i)
        => ~(Behind(umTx.TX_Next, air[i].sn) < Unseen(umTx, s)))
    BY <1>6, <1>7
  <1> HIDE DEF s
  <1> QED
    BY <1>4, <1>5, <1>8, <1>9 DEF s, n, p

-----------------------------------------------------------------------------
LEMMA RlcOKInit == Init => RlcOK
  <1> SUFFICES ASSUME Init PROVE RlcOK
    OBVIOUS
  <1>1. umTx = TxInit /\ umRx = RxInit /\ air = << >> /\ faults = 0 /\ tx_next = 0
    BY DEF Init, PdcpInit
  <1>2. Len(air) <= Processes
    BY <1>1, BearerAssumption
  <1> QED
    BY <1>1, <1>2, NothingYet DEF RlcOK

LEMMA RlcOKStep == InReach /\ RlcTyped /\ RlcTrue /\ RlcOK /\ [Next]_vars => RlcOK'
  <1> SUFFICES ASSUME InReach, RlcTyped, RlcTrue, RlcOK, [Next]_vars PROVE RlcOK'
    OBVIOUS
  <1> DEFINE S == Pdus(tx_next) \union {NoPdu}
             l == Cardinality(Lost(umTx, umRx, air))
  <1>0. /\ tx_next \in Nat /\ umTx \in Transmitters(tx_next) /\ umRx \in Receivers(tx_next)
        /\ air \in Seq(S) /\ Len(air) \in Nat /\ NoPdu \in S
        /\ Processes \in Nat
    BY BearerAssumption DEF RlcTyped
  <1>n. l \in Nat /\ FewLost(umTx, umRx, air, l) /\ l + Processes < UmMod
    BY LossesCounted DEF InReach, LossesInReach
  <1> HIDE DEF l
  <1>1. ASSUME WriteSdu PROVE RlcOK'
    <2>1. /\ umTx' = try_write_sdu(umTx, [id |-> tx_next, len |-> SduLen, left |-> SduLen])
          /\ ~sdu_queue_is_full(umTx) /\ tx_next < MaxSdus /\ write_sdu
          /\ umRx' = umRx /\ air' = air
      BY <1>1 DEF WriteSdu
    <2>2. tx_next' = tx_next + 1
      BY <1>0, <2>1, WriteSduCounts
    <2>3. /\ umTx' \in Transmitters(tx_next + 1) /\ Len(umTx.queue) < TxQueueLen
          /\ umTx'.TX_Next = umTx.TX_Next /\ umTx'.tx_sdu = umTx.tx_sdu
          /\ umTx'.queue = Append(umTx.queue, [id |-> tx_next, len |-> SduLen, left |-> SduLen])
      BY <1>0, <2>1, WriteType
    <2>4. /\ Numbered(umTx', tx_next + 1) /\ Recent(umTx', air, tx_next + 1) /\ Ages(umTx', air)
          /\ OneSdu(umTx', umRx, air) /\ FewLost(umTx', umRx, air, l)
      BY <1>0, <1>n, <2>3, WriteKeeps DEF RlcOK
    <2> QED
      BY <1>n, <2>1, <2>2, <2>4 DEF RlcOK
  <1>2. ASSUME NEW g \in Grants, ReadPdu(g) PROVE RlcOK'
    <2> DEFINE b == build_data_pdu(umTx, g)
    <2>1. has_data(umTx) /\ g \in Nat /\ g >= 3 /\ Len(air) < Processes
      BY <1>2, UmFacts DEF ReadPdu
    <2>2. /\ umTx' = b.tx /\ air' = (IF b.pdu = NoPdu THEN air ELSE Append(air, b.pdu))
          /\ umRx' = umRx /\ tx_next' = tx_next
      BY <1>2 DEF ReadPdu, pdcpTx
    <2>3. /\ b.tx \in Transmitters(tx_next) /\ b.pdu \in S
          /\ b.pdu = NoPdu => b.tx = umTx
          /\ b.pdu # NoPdu => Built(umTx, b.tx, b.pdu)
      BY <1>0, <2>1, BuildCases DEF RlcTrue, InReach
    <2> HIDE DEF b
    <2>4. CASE b.pdu = NoPdu
      BY <1>0, <2>2, <2>3, <2>4 DEF RlcOK
    <2>5. CASE b.pdu # NoPdu
      <3>1. Built(umTx, b.tx, b.pdu) /\ b.pdu \in Pdus(tx_next)
        BY <2>3, <2>5
      <3>2. Len(Append(air, b.pdu)) = Len(air) + 1
        BY <1>0, <2>3, AppendAt
      <3>3. Len(Append(air, b.pdu)) <= Processes
        BY <1>0, <2>1, <3>2
      <3>4. Numbered(b.tx, tx_next)
        BY <1>0, <2>3, <3>1, BuiltNumbered DEF RlcOK
      <3>5. Recent(b.tx, Append(air, b.pdu), tx_next)
        BY <1>0, <2>3, <3>1, BuiltRecent DEF RlcOK
      <3>6. Ages(b.tx, Append(air, b.pdu))
        BY <1>0, <1>n, <2>1, <2>3, <3>1, BuiltAges DEF RlcOK
      <3>7. OneSdu(b.tx, umRx, Append(air, b.pdu))
        BY <1>0, <1>n, <2>1, <2>3, <3>1, BuiltOneSdu DEF RlcOK
      <3>8. FewLost(b.tx, umRx, Append(air, b.pdu), l)
        BY <1>0, <1>n, <2>1, <2>3, <3>1, BuiltFewLost DEF RlcOK
      <3> QED
        BY <1>n, <2>2, <2>5, <3>3, <3>4, <3>5, <3>6, <3>7, <3>8 DEF RlcOK
    <2> QED
      BY <2>4, <2>5
  <1>3. ASSUME NEW i \in DOMAIN air, NEW r, OneSdu(umTx, r, air)
        PROVE  LET b == Free([air EXCEPT ![i] = NoPdu]) IN
               /\ Recent(umTx, b, tx_next) /\ Ages(umTx, b) /\ OneSdu(umTx, r, b)
               /\ Len(b) <= Processes
    <2> DEFINE b == Free([air EXCEPT ![i] = NoPdu])
    <2> HIDE DEF S
    <2>1. b \in Seq(S) /\ Thinner(air, b)
      BY <1>0, ThinnerAir
    <2> HIDE DEF b
    <2>2. Recent(umTx, b, tx_next) /\ Ages(umTx, b) /\ OneSdu(umTx, r, b) /\ Len(b) <= Len(air)
      BY <1>0, <1>3, <2>1, ThinnerKeeps DEF RlcOK, S
    <2>3. Len(b) \in Nat /\ Len(air) <= Processes
      BY <2>1 DEF RlcOK
    <2>4. Len(b) <= Processes
      BY <1>0, <2>2, <2>3
    <2> QED
      BY <2>2, <2>4 DEF b
  <1>4. ASSUME NEW i \in DOMAIN air, Lose(i) PROVE RlcOK'
    <2>1. /\ air[i] # NoPdu /\ air' = Free([air EXCEPT ![i] = NoPdu])
          /\ umTx' = umTx /\ umRx' = umRx /\ tx_next' = tx_next
      BY <1>4 DEF Lose, pdcpTx
    <2>2. FewLost(umTx, umRx, Free([air EXCEPT ![i] = NoPdu]), l + 1)
      BY <1>0, <1>n, <2>1, GoneFewLost DEF RlcOK
    <2>3. OneSdu(umTx, umRx, air)
      BY DEF RlcOK
    <2>4. /\ Recent(umTx, air', tx_next) /\ Ages(umTx, air') /\ OneSdu(umTx, umRx, air')
          /\ Len(air') <= Processes
      BY <1>3, <2>1, <2>3
    <2>5. \E f \in Nat : FewLost(umTx', umRx', air', f)
      <3>1. l + 1 \in Nat /\ FewLost(umTx', umRx', air', l + 1)
        BY <1>n, <2>1, <2>2
      <3> QED
        BY <3>1
    <2> QED
      BY <2>1, <2>4, <2>5 DEF RlcOK
  <1>5. ASSUME NEW i \in DOMAIN air, Received(i)
        PROVE  /\ umTx' = umTx /\ tx_next' = tx_next /\ air[i] # NoPdu
               /\ umRx' \in Receivers(tx_next) /\ WindowOK(umRx')
               /\ \A e \in umRx'.rx_window : EntryTrue(e)
               /\ OneSdu(umTx, umRx', air) /\ FewLost(umTx, umRx', air, l)
               /\ Seg(air, i) => ~(Behind(umTx.TX_Next, air[i].sn) < Unseen(umTx, umRx'))
    <2>1. /\ umTx' = umTx /\ tx_next' = tx_next /\ air[i] # NoPdu
          /\ umRx' = handle_data_pdu(umRx, air[i]).rx
      BY <1>5 DEF Received, pdcpTx
    <2> QED
      BY <1>n, <2>1, ReceivedStep
  <1>6. ASSUME NEW i \in DOMAIN air, WritePdu(i) PROVE RlcOK'
    <2>1. Received(i) /\ air' = Free([air EXCEPT ![i] = NoPdu])
      BY <1>6 DEF WritePdu
    <2>2. /\ umTx' = umTx /\ tx_next' = tx_next /\ air[i] # NoPdu
          /\ umRx' \in Receivers(tx_next) /\ WindowOK(umRx')
          /\ \A e \in umRx'.rx_window : EntryTrue(e)
          /\ OneSdu(umTx, umRx', air) /\ FewLost(umTx, umRx', air, l)
          /\ Seg(air, i) => ~(Behind(umTx.TX_Next, air[i].sn) < Unseen(umTx, umRx'))
      BY <1>5, <2>1
    <2>3. FewLost(umTx, umRx', air', l)
      BY <1>0, <1>n, <2>1, <2>2, GoneFewLost
    <2>4. /\ Recent(umTx, air', tx_next) /\ Ages(umTx, air') /\ OneSdu(umTx, umRx', air')
          /\ Len(air') <= Processes
      BY <1>3, <2>1, <2>2
    <2> QED
      BY <1>n, <2>1, <2>2, <2>3, <2>4 DEF RlcOK
  <1>7. ASSUME NEW i \in DOMAIN air, WriteTwice(i) PROVE RlcOK'
    <2>1. Received(i) /\ air' = air
      BY <1>7 DEF WriteTwice
    <2>2. /\ umTx' = umTx /\ tx_next' = tx_next
          /\ WindowOK(umRx') /\ \A e \in umRx'.rx_window : EntryTrue(e)
          /\ OneSdu(umTx, umRx', air) /\ FewLost(umTx, umRx', air, l)
      BY <1>5, <2>1
    <2> QED
      BY <1>n, <2>1, <2>2 DEF RlcOK
  <1>8. ASSUME ReassemblyExpires PROVE RlcOK'
    <2>1. /\ umRx.reassembly_timer /\ umRx' = timer_expired(umRx)
          /\ umTx' = umTx /\ air' = air /\ tx_next' = tx_next
      BY <1>8 DEF ReassemblyExpires, pdcpTx
    <2>2. /\ WindowOK(umRx') /\ umRx'.RX_Next_Highest = umRx.RX_Next_Highest
          /\ umRx'.rx_window \in SUBSET umRx.rx_window
      BY <1>0, <2>1, ExpiredWindow DEF RlcOK
    <2>3. OneSdu(umTx, umRx', air) /\ FewLost(umTx, umRx', air, l)
      BY <1>n, <2>2, RxShrinks DEF RlcOK
    <2> QED
      BY <1>n, <2>1, <2>2, <2>3 DEF RlcOK
  <1>9. ASSUME ReorderingExpires \/ UNCHANGED vars PROVE RlcOK'
    <2>1. umTx' = umTx /\ umRx' = umRx /\ air' = air /\ tx_next' = tx_next
      BY <1>9 DEF ReorderingExpires, vars, rlcVars, pdcpTx
    <2> QED
      BY <2>1 DEF RlcOK
  <1>10. ASSUME Reestablish PROVE RlcOK'
    <2>1. umTx' = TxInit /\ umRx' = RxInit /\ air' = << >> /\ tx_next' = tx_next
      BY <1>10 DEF Reestablish, TxReestablish, RxReestablish, pdcpTx
    <2>2. /\ Numbered(TxInit, tx_next) /\ Recent(TxInit, << >>, tx_next) /\ Ages(TxInit, << >>)
          /\ WindowOK(RxInit) /\ \A e \in RxInit.rx_window : EntryTrue(e)
          /\ OneSdu(TxInit, RxInit, << >>) /\ FewLost(TxInit, RxInit, << >>, l)
      BY <1>0, <1>n, NothingYet
    <2>3. Len(<< >>) <= Processes
      BY <1>0
    <2> QED
      BY <1>n, <2>1, <2>2, <2>3 DEF RlcOK
  <1> QED
    BY <1>1, <1>2, <1>4, <1>6, <1>7, <1>8, <1>9, <1>10 DEF Next

-----------------------------------------------------------------------------
(* The inductive invariant of the whole bearer. *)
BearerInv == RlcTyped /\ PdcpRxOK /\ (Integrity \/ (RlcTrue /\ RlcOK))

LEMMA BearerInit == Init => BearerInv
  <1> SUFFICES ASSUME Init PROVE BearerInv
    OBVIOUS
  <1>1. RlcTyped
    BY RlcTypedInit
  <1>2. RlcTrue /\ RlcOK
    BY InitTrue, RlcOKInit DEF Init, RlcTrue
  <1>3. PdcpRxOK
    <2>1. /\ rx_next = 0 /\ rx_deliv = 0 /\ rx_reord = 0 /\ tx_next = 0
          /\ reorder_queue = {} /\ reordering_timer = FALSE /\ rx_overflow = FALSE
          /\ gw = << >> /\ last = -1
      BY DEF Init, PdcpInit
    <2>2. window_size \in Nat
      BY WindowHalf
    <2>3. Filed({})
      BY FS_EmptySet DEF Filed
    <2>4. HeldBackIsTimed
      BY <2>1 DEF HeldBackIsTimed
    <2>5. rx_deliv <= rx_next /\ rx_next <= tx_next /\ tx_next <= rx_deliv + window_size
      BY <2>1, <2>2
    <2>6. last \in Int /\ last < rx_deliv
      BY <2>1
    <2>7. \A k \in DOMAIN gw : Intact(gw[k])
      BY <2>1
    <2>8. Filed(reorder_queue) /\ \A e \in reorder_queue : Intact(e)
      BY <2>1, <2>3
    <2> QED
      BY <2>1, <2>4, <2>5, <2>6, <2>7, <2>8 DEF PdcpRxOK
  <1> QED
    BY <1>1, <1>2, <1>3 DEF BearerInv

(* PDCP gets the COUNT of an SDU that was sent, and either rejects what RLC spoilt or,
   the bearer being in reach, is not given such a thing.                    *)
LEMMA ReceivedPdcp ==
  ASSUME Integrity \/ InReach, BearerInv, NEW i \in DOMAIN air, Received(i)
  PROVE  PdcpRxOK' /\ InOrderStep
  <1> DEFINE n == tx_next
             got == handle_data_pdu(umRx, air[i])
             pdu == [count |-> got.sdu[1].id, whole |-> Whole(got.sdu)]
  <1>1. /\ n \in Nat /\ umRx \in Receivers(n) /\ air \in Seq(Pdus(n) \union {NoPdu})
        /\ n < CountMod /\ PdcpRxOK
    BY BearerAssumption, PdcpNrAssumption DEF BearerInv, RlcTyped, CountMod
  <1>2. /\ air[i] # NoPdu /\ UNCHANGED tx_next
        /\ IF got.sdu = << >> THEN Silent /\ UNCHANGED pdcpRx ELSE write_pdu(pdu) /\ PassedUp
    BY DEF Received, pdcpTx
  <1>3. got.sdu \in Seq(Pieces(n))
    BY <1>1, <1>2, AirAt, HandleType
  <1>4. rx_deliv \in Nat /\ n <= rx_deliv + window_size /\ rx_deliv <= n /\ window_size \in Nat
    BY <1>1, WindowHalf DEF PdcpRxOK
  <1>5. CASE got.sdu = << >>
    <2> HIDE DEF got
    <2> QED
      BY <1>1, <1>2, <1>4, <1>5, SilentStep
  <1>6. CASE got.sdu # << >>
    <2> DEFINE g == got.sdu
    <2>1. g[1] \in Pieces(n)
      <3> HIDE DEF got
      <3> QED
        BY <1>3, <1>6
    <2>2. g[1].id \in Nat /\ g[1].id < n
      <3> HIDE DEF g
      <3> QED
        BY <1>1, <2>1 DEF Pieces, Ids
    <2>3. Whole(g) \in BOOLEAN
      BY DEF Whole
    <2>4. Integrity \/ (Whole(g) /\ rx_deliv <= g[1].id + window_size)
      <3>1. CASE ~Integrity
        <4>1. InReach /\ RlcTyped /\ RlcTrue /\ RlcOK
          BY <3>1 DEF BearerInv
        <4>2. PICK f \in Nat : FewLost(umTx, umRx, air, f)
          BY <4>1 DEF RlcOK
        <4>3. g # << >> => /\ Whole(g) /\ g[1].id = air[i].id
                           /\ n <= air[i].id + window_size
          BY <1>2, <4>1, <4>2, ReceivedStep
        <4>4. Whole(g) /\ n <= g[1].id + window_size
          BY <1>6, <4>3
        <4> HIDE DEF g, n
        <4>5. rx_deliv <= g[1].id + window_size
          BY <1>1, <1>4, <2>2, <4>4
        <4> QED
          BY <4>4, <4>5
      <3> QED
        BY <3>1
    <2> HIDE DEF g
    <2>5. /\ pdu.count = g[1].id /\ pdu.whole = Whole(g)
      BY DEF g
    <2>6. write_pdu(pdu) /\ PassedUp
      BY <1>2, <1>6
    <2> HIDE DEF pdu, got
    <2>7. pdu.count \in Nat /\ pdu.count < n /\ pdu.whole \in BOOLEAN
      BY <2>2, <2>3, <2>5
    <2>8. Integrity \/ (pdu.whole /\ rx_deliv <= pdu.count + window_size)
      BY <2>4, <2>5
    <2> QED
      BY <1>1, <1>2, <2>6, <2>7, <2>8, WritePduStep
  <1> QED
    BY <1>5, <1>6

LEMMA PdcpStep == (Integrity \/ InReach) /\ BearerInv /\ Next => PdcpRxOK' /\ InOrderStep
  <1> SUFFICES ASSUME Integrity \/ InReach, BearerInv, Next PROVE PdcpRxOK' /\ InOrderStep
    OBVIOUS
  <1>0. /\ PdcpRxOK /\ tx_next \in Nat /\ tx_next < CountMod
        /\ rx_deliv \in Nat /\ tx_next <= rx_deliv + window_size
    BY BearerAssumption, PdcpNrAssumption DEF BearerInv, RlcTyped, CountMod, PdcpRxOK
  <1>1. ASSUME WriteSdu PROVE PdcpRxOK' /\ InOrderStep
    <2>1. write_sdu /\ tx_next < MaxSdus /\ Paced /\ Silent /\ UNCHANGED pdcpRx
      BY <1>1 DEF WriteSdu
    <2>2. tx_next' = tx_next + 1 /\ tx_next' <= rx_deliv + window_size
      BY <1>0, <2>1, WriteSduStep
    <2>3. tx_next' \in Nat /\ tx_next <= tx_next'
      BY <1>0, <2>2
    <2> QED
      BY <1>0, <2>1, <2>2, <2>3, SilentStep
  <1>2. ASSUME Silent, UNCHANGED pdcpRx, UNCHANGED tx_next PROVE PdcpRxOK' /\ InOrderStep
    <2>1. tx_next' \in Nat /\ tx_next <= tx_next' /\ tx_next' <= rx_deliv + window_size
      BY <1>0, <1>2
    <2> QED
      BY <1>0, <1>2, <2>1, SilentStep
  <1>3. ASSUME NEW g \in Grants, ReadPdu(g) PROVE PdcpRxOK' /\ InOrderStep
    BY <1>2, <1>3 DEF ReadPdu, pdcpTx
  <1>4. ASSUME NEW i \in DOMAIN air, Lose(i) PROVE PdcpRxOK' /\ InOrderStep
    BY <1>2, <1>4 DEF Lose, pdcpTx
  <1>5. ASSUME NEW i \in DOMAIN air, WritePdu(i) \/ WriteTwice(i) PROVE PdcpRxOK' /\ InOrderStep
    <2>1. Received(i)
      BY <1>5 DEF WritePdu, WriteTwice
    <2> QED
      BY <2>1, ReceivedPdcp
  <1>6. ASSUME ReassemblyExpires \/ Reestablish PROVE PdcpRxOK' /\ InOrderStep
    BY <1>2, <1>6 DEF ReassemblyExpires, Reestablish, pdcpTx
  <1>7. ASSUME ReorderingExpires PROVE PdcpRxOK' /\ InOrderStep
    <2>1. reordering_callback /\ PassedUp /\ UNCHANGED tx_next
      BY <1>7 DEF ReorderingExpires, pdcpTx
    <2> QED
      BY <1>0, <2>1, ReorderingStep
  <1> QED
    BY <1>1, <1>3, <1>4, <1>5, <1>6, <1>7 DEF Next

LEMMA BearerStep == (Integrity \/ InReach) /\ BearerInv /\ [Next]_vars => BearerInv'
  <1> SUFFICES ASSUME Integrity \/ InReach, BearerInv, [Next]_vars PROVE BearerInv'
    OBVIOUS
  <1>1. RlcTyped'
    BY RlcTypedStep DEF BearerInv
  <1>2. Integrity \/ (RlcTrue /\ RlcOK)'
    BY RlcTrueStep, RlcOKStep DEF BearerInv, InReach
  <1>3. PdcpRxOK'
    <2>1. CASE Next
      BY <2>1, PdcpStep
    <2>2. CASE UNCHANGED vars
      <3>1. UNCHANGED << pdcpTx, pdcpRx, gw, last >>
        BY <2>2 DEF vars
      <3>2. PdcpRxOK
        BY DEF BearerInv
      <3> QED
        BY <3>1, <3>2 DEF PdcpRxOK, HeldBackIsTimed, pdcpTx, pdcpRx
    <2> QED
      BY <2>1, <2>2
  <1> QED
    BY <1>1, <1>2, <1>3 DEF BearerInv

-----------------------------------------------------------------------------
(* The theorems. *)

(* Whatever is lost, repeated, overtaken or timed out, write_sdu, build_data_pdu,
   handle_data_pdu and the reassembly timer leave both ends of RLC with states of their
   types: SNs below the modulus, one segment per offset, and only SDUs that were written. *)
THEOREM RlcTypeCorrect == Spec => []RlcTyped
  BY RlcTypedInit, RlcTypedStep, PTL DEF Spec

(* With SNs of 6 bits, build_data_pdu and the SDU it is in the middle of know how much
   of the SDU is sent, and the header of each PDU in the HARQ processes agrees with it. *)
THEOREM HeadersAreTrue == ~Sn12Bits => (Spec => [](RlcTyped /\ RlcTrue))
  <1> SUFFICES ASSUME ~Sn12Bits PROVE Spec => [](RlcTyped /\ RlcTrue)
    OBVIOUS
  <1>1. Init => RlcTyped /\ RlcTrue
    <2> SUFFICES ASSUME Init PROVE RlcTyped /\ RlcTrue
      OBVIOUS
    <2>1. umTx = TxInit /\ air = << >>
      BY DEF Init
    <2> QED
      BY <2>1, RlcTypedInit, InitTrue DEF RlcTrue
  <1>2. RlcTyped /\ RlcTrue /\ [Next]_vars => (RlcTyped /\ RlcTrue)'
    BY RlcTypedStep, RlcTrueStep
  <1> QED
    BY <1>1, <1>2, PTL DEF Spec

(* build_data_pdu states truly the offset of a segment, and whether it begins and whether
   it ends its SDU, for every SDU length and every sequence of grants.  With SNs of 12 bits it
   does not: configure measures head_len_segment with a 6-bit header.       *)
THEOREM SegmentsDescribeDataHolds == ~Sn12Bits => (Spec => []SegmentsDescribeData)
  <1> SUFFICES ASSUME ~Sn12Bits PROVE Spec => []SegmentsDescribeData
    OBVIOUS
  <1>1. RlcTyped /\ RlcTrue => SegmentsDescribeData
    BY DEF RlcTrue, AirTrue, PduTrue, SegmentsDescribeData
  <1>2. Spec => [](RlcTyped /\ RlcTrue)
    BY HeadersAreTrue
  <1> QED
    BY <1>1, <1>2, PTL

(* The invariant of the bearer: what RLC is given, holds and has in the air is typed and, in
   reach, belongs to one SDU per SN; PDCP's queue holds what was sent, under its own COUNT. *)
THEOREM BearerInvariance == Spec /\ [](Integrity \/ InReach) => []BearerInv
  <1>1. (Integrity \/ InReach) /\ BearerInv /\ [Next]_vars => BearerInv'
    BY BearerStep
  <1> QED
    BY <1>1, BearerInit, PTL DEF Spec

(* write_pdu and reordering_callback of pdcp_entity_nr.cc leave no SDU in the reordering
   queue without t-Reordering running for the gap in front of it. *)
THEOREM HeldBackIsTimedHolds == Spec /\ [](Integrity \/ InReach) => []HeldBackIsTimed
  <1>1. BearerInv => HeldBackIsTimed
    BY DEF BearerInv, PdcpRxOK
  <1> QED
    BY <1>1, BearerInvariance, PTL

(* pass_to_upper_layers gets whole SDUs, deciphered with the COUNT they were ciphered with, with
   or without integrity protection: however often its SNs wrap and whatever is lost, repeated and
   overtaken, handle_data_pdu mixes no two SDUs and write_pdu guesses the HFN right, as long as
   the MAC never loses all of so many SDUs in a row that an SN comes again unseen. *)
THEOREM DeliveredIntactHolds == Spec /\ []InReach => []DeliveredIntact
  <1>1. BearerInv => DeliveredIntact
    BY DEF BearerInv, PdcpRxOK, DeliveredIntact, Intact, ToSet
  <1> QED
    BY <1>1, BearerInvariance, PTL

(* deliver_all_consecutive_counts and reordering_callback pass SDUs up in the order of COUNT and
   none twice, however the HARQ processes reorder, lose and repeat segments. *)
THEOREM DeliveredInOrderHolds == Spec /\ [](Integrity \/ InReach) => DeliveredInOrder
  <1>1. (Integrity \/ InReach) /\ BearerInv /\ [Next]_vars =>
          [\A k \in DOMAIN gw' :
             gw'[k].pdu.count > (IF k = 1 THEN last ELSE gw'[k - 1].pdu.count)]_vars
    BY PdcpStep DEF InOrderStep
  <1> QED
    BY <1>1, BearerInvariance, PTL DEF Spec, DeliveredInOrder

=============================================================================
