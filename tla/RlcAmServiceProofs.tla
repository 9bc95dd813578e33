------------------------- MODULE RlcAmServiceProofs -------------------------
(***************************************************************************)
(* The bearer does for PDCP what RlcAmService promises, for every window   *)
(* size, any SDUs, grants, number of faults and of STATUS PDUs in flight.  *)
(***************************************************************************)
EXTENDS RlcAmLteLinkProofs

-----------------------------------------------------------------------------
(* Where in the SDUs that were accepted a byte belongs.  A cursor has completed
   `done' of them and `part' bytes of the next.                              *)

Token == [b : Nat \X Nat, e : BOOLEAN]
EmptyToken == [b |-> NoByte, e |-> TRUE]

Cursor == [done : Nat, part : Nat]
At(n) == [done |-> n, part |-> 0]

(* A token takes cursor c to d: it is the next byte of the SDUs in A, marked if it
   is the last one of its SDU; a PDU without payload stands between two SDUs.   *)
StepTo(A, c, t, d) ==
  \/ t = EmptyToken /\ c.part = 0 /\ d = c
  \/ /\ c.done < Len(A)
     /\ t = [b |-> <<A[c.done + 1], c.part + 1>>, e |-> c.part + 1 = SduLen[A[c.done + 1]]]
     /\ d = IF t.e THEN At(c.done + 1) ELSE [done |-> c.done, part |-> c.part + 1]

Path(A, s, c, d, f) ==
  /\ f \in [0 .. Len(s) -> Cursor] /\ f[0] = c /\ f[Len(s)] = d
  /\ \A i \in 1 .. Len(s) : StepTo(A, f[i - 1], s[i], f[i])

Span(A, s, c, d) == s \in Seq(Token) /\ \E f : Path(A, s, c, d, f)

(* The number of SDUs that a cursor has begun *)
Reach(c) == IF c.part > 0 THEN c.done + 1 ELSE c.done

LEMMA SpanEmpty ==
  ASSUME NEW A, NEW c \in Cursor
  PROVE  Span(A, <<>>, c, c) /\ \A d : Span(A, <<>>, c, d) => d = c
  <1>1. <<>> \in Seq(Token) /\ Len(<<>>) = 0
    BY EmptySeq
  <1> DEFINE f == [i \in 0 .. 0 |-> c]
  <1>2. f \in [0 .. 0 -> Cursor] /\ f[0] = c
    OBVIOUS
  <1> HIDE DEF f
  <1>3. Path(A, <<>>, c, c, f)
    BY <1>1, <1>2 DEF Path
  <1>4. ASSUME NEW d, Span(A, <<>>, c, d) PROVE d = c
    BY <1>1, <1>4 DEF Span, Path
  <1> QED
    BY <1>1, <1>3, <1>4 DEF Span

LEMMA SpanEnds ==
  ASSUME NEW A, NEW s, NEW c, NEW d, Span(A, s, c, d)
  PROVE  c \in Cursor /\ d \in Cursor /\ s \in Seq(Token) /\ Len(s) \in Nat
  <1>1. s \in Seq(Token) /\ Len(s) \in Nat
    BY LenProperties DEF Span
  <1>2. PICK f : Path(A, s, c, d, f)
    BY DEF Span
  <1>3. 0 \in 0 .. Len(s) /\ Len(s) \in 0 .. Len(s)
    BY <1>1
  <1> QED
    BY <1>1, <1>2, <1>3 DEF Path

LEMMA SpanConcat ==
  ASSUME NEW A, NEW s, NEW t, NEW a, NEW b, NEW d, Span(A, s, a, b), Span(A, t, b, d)
  PROVE  Span(A, s \o t, a, d)
  <1>1. PICK f : Path(A, s, a, b, f)
    BY DEF Span
  <1>2. PICK g : Path(A, t, b, d, g)
    BY DEF Span
  <1>3. s \in Seq(Token) /\ t \in Seq(Token) /\ Len(s) \in Nat /\ Len(t) \in Nat
    BY SpanEnds
  <1>4. /\ s \o t \in Seq(Token) /\ Len(s \o t) = Len(s) + Len(t)
        /\ \A i \in 1 .. Len(s) + Len(t) : (s \o t)[i] = IF i <= Len(s) THEN s[i] ELSE t[i - Len(s)]
    BY <1>3, ConcatProperties
  <1> DEFINE n == Len(s)
             m == Len(t)
             h == [i \in 0 .. n + m |-> IF i <= n THEN f[i] ELSE g[i - n]]
  <1>5. n \in Nat /\ m \in Nat
    BY <1>3
  <1>6. /\ f \in [0 .. n -> Cursor] /\ g \in [0 .. m -> Cursor] /\ f[0] = a /\ f[n] = b /\ g[0] = b /\ g[m] = d
        /\ \A i \in 1 .. n : StepTo(A, f[i - 1], s[i], f[i])
        /\ \A i \in 1 .. m : StepTo(A, g[i - 1], t[i], g[i])
    BY <1>1, <1>2 DEF Path
  <1>7. \A i \in 1 .. n + m : (s \o t)[i] = IF i <= n THEN s[i] ELSE t[i - n]
    BY <1>4
  <1>8. Len(s \o t) = n + m
    BY <1>4
  <1> HIDE DEF n, m
  <1>9. h \in [0 .. n + m -> Cursor]
    <2>1. ASSUME NEW i \in 0 .. n + m PROVE (IF i <= n THEN f[i] ELSE g[i - n]) \in Cursor
      <3>1. CASE i <= n
        BY <1>5, <1>6, <3>1
      <3>2. CASE ~(i <= n)
        <4>1. i - n \in 0 .. m
          BY <1>5, <3>2
        <4> QED
          BY <1>6, <3>2, <4>1
      <3> QED
        BY <3>1, <3>2
    <2> QED
      BY <2>1
  <1>10. h[0] = a /\ h[n + m] = d
    <2>1. 0 \in 0 .. n + m /\ n + m \in 0 .. n + m /\ 0 <= n
      BY <1>5
    <2>2. h[0] = a
      BY <1>6, <2>1
    <2>3. CASE m = 0
      <3>1. n + m = n /\ n + m <= n
        BY <1>5, <2>3
      <3> QED
        BY <1>6, <2>1, <2>2, <2>3, <3>1
    <2>4. CASE m # 0
      <3>1. ~(n + m <= n) /\ (n + m) - n = m
        BY <1>5, <2>4
      <3> QED
        BY <1>6, <2>1, <2>2, <3>1
    <2> QED
      BY <2>3, <2>4
  <1>11. ASSUME NEW i \in 1 .. n + m PROVE StepTo(A, h[i - 1], (s \o t)[i], h[i])
    <2>0. i \in 0 .. n + m /\ i - 1 \in 0 .. n + m
      BY <1>5
    <2>1. CASE i <= n
      <3>1. i \in 1 .. n /\ i - 1 <= n
        BY <1>5, <2>1
      <3>2. h[i - 1] = f[i - 1] /\ h[i] = f[i] /\ (s \o t)[i] = s[i]
        BY <1>7, <2>0, <2>1, <3>1
      <3> HIDE DEF h
      <3> QED
        BY <1>6, <3>1, <3>2
    <2>2. CASE ~(i <= n)
      <3>1. i - n \in 1 .. m /\ (i - 1) - n = (i - n) - 1
        BY <1>5, <2>2
      <3>2. h[i] = g[i - n] /\ (s \o t)[i] = t[i - n]
        BY <1>7, <2>0, <2>2
      <3>3. h[i - 1] = g[(i - n) - 1]
        <4>1. CASE i - 1 <= n
          <5>1. i - 1 = n /\ (i - n) - 1 = 0
            BY <1>5, <2>2, <4>1
          <5> QED
            BY <1>6, <2>0, <4>1, <5>1
        <4>2. CASE ~(i - 1 <= n)
          BY <2>0, <3>1, <4>2
        <4> QED
          BY <4>1, <4>2
      <3> HIDE DEF h
      <3> QED
        BY <1>6, <3>1, <3>2, <3>3
    <2> QED
      BY <2>1, <2>2
  <1> HIDE DEF h
  <1>12. Path(A, s \o t, a, d, h)
    BY <1>8, <1>9, <1>10, <1>11 DEF Path
  <1> QED
    BY <1>4, <1>12 DEF Span

LEMMA SpanSplit ==
  ASSUME NEW A, NEW s, NEW a, NEW d, Span(A, s, a, d), NEW m \in 0 .. Len(s)
  PROVE  \E b : Span(A, SubSeq(s, 1, m), a, b) /\ Span(A, SubSeq(s, m + 1, Len(s)), b, d)
  <1>1. PICK f : Path(A, s, a, d, f)
    BY DEF Span
  <1> DEFINE n == Len(s)
             u == SubSeq(s, 1, m)
             v == SubSeq(s, m + 1, n)
             g == [i \in 0 .. m |-> f[i]]
             h == [i \in 0 .. n - m |-> f[m + i]]
  <1>2. s \in Seq(Token) /\ n \in Nat /\ m \in Nat /\ m <= n
    BY SpanEnds
  <1>3. \A i \in 1 .. n : s[i] \in Token
    BY <1>2, ElementOfSeq
  <1>4. u \in Seq(Token) /\ Len(u) = m /\ \A i \in 1 .. m : u[i] = s[i]
    <2>1. \A i \in 1 .. m : s[i] \in Token
      BY <1>2, <1>3
    <2>2. /\ u \in Seq(Token) /\ Len(u) = (IF 1 <= m THEN m - 1 + 1 ELSE 0)
          /\ \A i \in 1 .. m - 1 + 1 : u[i] = s[1 + i - 1]
      BY <1>2, <2>1, SubSeqProperties
    <2> QED
      BY <1>2, <2>2
  <1>5. v \in Seq(Token) /\ Len(v) = n - m /\ \A i \in 1 .. n - m : v[i] = s[m + i]
    <2>1. \A i \in m + 1 .. n : s[i] \in Token
      BY <1>2, <1>3
    <2>2. /\ v \in Seq(Token) /\ Len(v) = (IF m + 1 <= n THEN n - (m + 1) + 1 ELSE 0)
          /\ \A i \in 1 .. n - (m + 1) + 1 : v[i] = s[m + 1 + i - 1]
      BY <1>2, <2>1, SubSeqProperties
    <2> QED
      BY <1>2, <2>2
  <1>6. /\ f \in [0 .. n -> Cursor] /\ f[0] = a /\ f[n] = d
        /\ \A i \in 1 .. n : StepTo(A, f[i - 1], s[i], f[i])
    BY <1>1 DEF Path
  <1> HIDE DEF n, u, v
  <1>7. Path(A, u, a, f[m], g)
    <2>1. g \in [0 .. m -> Cursor] /\ g[0] = a /\ g[m] = f[m]
      BY <1>2, <1>6
    <2>2. ASSUME NEW i \in 1 .. m PROVE StepTo(A, g[i - 1], u[i], g[i])
      <3>1. i - 1 \in 0 .. m /\ i \in 0 .. m /\ i \in 1 .. n
        BY <1>2
      <3>2. g[i - 1] = f[i - 1] /\ g[i] = f[i] /\ u[i] = s[i]
        BY <1>4, <3>1
      <3> HIDE DEF g
      <3> QED
        BY <1>6, <3>1, <3>2
    <2> HIDE DEF g
    <2> QED
      BY <1>4, <2>1, <2>2 DEF Path
  <1>8. Path(A, v, f[m], d, h)
    <2>1. h \in [0 .. n - m -> Cursor] /\ h[0] = f[m] /\ h[n - m] = d
      <3>1. \A i \in 0 .. n - m : m + i \in 0 .. n
        BY <1>2
      <3>2. 0 \in 0 .. n - m /\ n - m \in 0 .. n - m /\ m + 0 = m /\ m + (n - m) = n
        BY <1>2
      <3> QED
        BY <1>6, <3>1, <3>2
    <2>2. ASSUME NEW i \in 1 .. n - m PROVE StepTo(A, h[i - 1], v[i], h[i])
      <3>1. i - 1 \in 0 .. n - m /\ i \in 0 .. n - m /\ m + i \in 1 .. n /\ m + (i - 1) = (m + i) - 1
        BY <1>2
      <3>2. h[i - 1] = f[(m + i) - 1] /\ h[i] = f[m + i] /\ v[i] = s[m + i]
        BY <1>5, <3>1
      <3> HIDE DEF h
      <3> QED
        BY <1>6, <3>1, <3>2
    <2> HIDE DEF h
    <2> QED
      BY <1>5, <2>1, <2>2 DEF Path
  <1> QED
    BY <1>4, <1>5, <1>7, <1>8 DEF Span, n, u, v

LEMMA StepReach ==
  ASSUME NEW A, Len(A) \in Nat, NEW c \in Cursor, NEW t, NEW d \in Cursor, StepTo(A, c, t, d)
  PROVE  /\ Reach(c) \in Nat /\ Reach(d) \in Nat /\ Reach(c) <= Reach(d)
         /\ Reach(d) = Reach(c) \/ Reach(d) <= Len(A)
         /\ d = c \/ (c.done < Len(A) /\ Reach(d) = c.done + 1)
  <1>1. c.done \in Nat /\ c.part \in Nat /\ d.done \in Nat /\ d.part \in Nat
    BY DEF Cursor
  <1>2. Reach(c) \in Nat /\ Reach(d) \in Nat
    BY <1>1 DEF Reach
  <1>3. CASE d = c
    BY <1>2, <1>3
  <1>4. CASE /\ c.done < Len(A)
             /\ d = IF t.e THEN At(c.done + 1) ELSE [done |-> c.done, part |-> c.part + 1]
    <2>1. Reach(d) = c.done + 1
      <3>1. CASE d = At(c.done + 1)
        BY <1>1, <3>1 DEF At, Reach
      <3>2. CASE d = [done |-> c.done, part |-> c.part + 1]
        BY <1>1, <3>2 DEF Reach
      <3> QED
        BY <1>4, <3>1, <3>2
    <2>2. Reach(c) <= c.done + 1
      BY <1>1 DEF Reach
    <2> QED
      BY <1>1, <1>2, <1>4, <2>1, <2>2
  <1> QED
    BY <1>3, <1>4 DEF StepTo

LEMMA PathReach ==
  ASSUME NEW A, Len(A) \in Nat, NEW s, Len(s) \in Nat, NEW c, NEW d, NEW f, Path(A, s, c, d, f)
  PROVE  /\ \A i \in 0 .. Len(s) : Reach(f[i]) \in Nat /\ Reach(f[i]) <= Reach(d)
         /\ Reach(c) <= Len(A) => Reach(d) <= Len(A)
  <1> DEFINE n == Len(s)
  <1>1. /\ f \in [0 .. n -> Cursor] /\ f[0] = c /\ f[n] = d
        /\ \A i \in 1 .. n : StepTo(A, f[i - 1], s[i], f[i])
    BY DEF Path
  <1>2. n \in Nat
    OBVIOUS
  <1> HIDE DEF n
  <1>3. ASSUME NEW i \in 1 .. n
        PROVE  /\ Reach(f[i - 1]) \in Nat /\ Reach(f[i]) \in Nat /\ Reach(f[i - 1]) <= Reach(f[i])
               /\ Reach(f[i]) = Reach(f[i - 1]) \/ Reach(f[i]) <= Len(A)
    <2>1. i - 1 \in 0 .. n /\ i \in 0 .. n
      BY <1>2
    <2>2. f[i - 1] \in Cursor /\ f[i] \in Cursor
      BY <1>1, <2>1
    <2> QED
      BY <1>1, <2>2, StepReach
  <1>4. \A i \in 0 .. n : Reach(f[i]) \in Nat
    BY <1>1 DEF Reach, Cursor
  <1>5. ASSUME NEW i \in 0 .. n, ~(Reach(f[i]) <= Reach(d))
        PROVE  FALSE
    <2> DEFINE Bad == {j \in 0 .. n : ~(Reach(f[j]) <= Reach(d))}
    <2>1. Bad \in SUBSET Nat /\ i \in Bad /\ \A y \in Bad : y <= n
      BY <1>2, <1>5
    <2> HIDE DEF Bad
    <2>2. PICK j \in Bad : \A y \in Bad : y <= j
      BY <1>2, <2>1, GreatestElement
    <2>3. j \in 0 .. n /\ ~(Reach(f[j]) <= Reach(d))
      BY <2>2 DEF Bad
    <2>4. n \in 0 .. n
      BY <1>2
    <2>5. Reach(d) \in Nat
      BY <1>1, <1>4, <2>4
    <2>6. j # n
      BY <1>1, <2>3, <2>5
    <2>7. j + 1 \in 1 .. n /\ (j + 1) - 1 = j /\ j + 1 \in 0 .. n /\ ~(j + 1 <= j)
      BY <1>2, <2>3, <2>6
    <2>8. Reach(f[j]) <= Reach(f[j + 1]) /\ Reach(f[j]) \in Nat /\ Reach(f[j + 1]) \in Nat
      BY <1>3, <2>7
    <2>9. j + 1 \in Bad
      BY <2>3, <2>5, <2>7, <2>8 DEF Bad
    <2> QED
      BY <2>2, <2>7, <2>9
  <1>6. ASSUME Reach(c) <= Len(A), ~(Reach(d) <= Len(A))
        PROVE  FALSE
    <2> DEFINE Bad == {j \in 0 .. n : ~(Reach(f[j]) <= Len(A))}
    <2>1. Bad \in SUBSET Nat /\ n \in Bad
      BY <1>1, <1>2, <1>6
    <2> HIDE DEF Bad
    <2>2. PICK j \in Bad : \A y \in Bad : j <= y
      BY <2>1, LeastElement
    <2>3. j \in 0 .. n /\ ~(Reach(f[j]) <= Len(A))
      BY <2>2 DEF Bad
    <2>4. j # 0
      BY <1>1, <1>6, <2>3
    <2>5. j \in 1 .. n /\ j - 1 \in 0 .. n /\ ~(j <= j - 1)
      BY <1>2, <2>3, <2>4
    <2>6. Reach(f[j]) = Reach(f[j - 1])
      BY <1>3, <2>3, <2>5
    <2>7. j - 1 \in Bad
      BY <2>3, <2>5, <2>6 DEF Bad
    <2> QED
      BY <2>2, <2>5, <2>7
  <1> QED
    BY <1>4, <1>5, <1>6 DEF n

(* A span begins no SDU that does not exist. *)
LEMMA SpanReach ==
  ASSUME NEW A, Len(A) \in Nat, NEW s, NEW c, NEW d, Span(A, s, c, d)
  PROVE  /\ Reach(c) \in Nat /\ Reach(d) \in Nat /\ Reach(c) <= Reach(d)
         /\ Reach(c) <= Len(A) => Reach(d) <= Len(A)
  <1>1. PICK f : Path(A, s, c, d, f)
    BY DEF Span
  <1>2. Len(s) \in Nat
    BY SpanEnds
  <1>3. 0 \in 0 .. Len(s) /\ Len(s) \in 0 .. Len(s) /\ f[0] = c /\ f[Len(s)] = d
    BY <1>1, <1>2 DEF Path
  <1> QED
    BY <1>1, <1>2, <1>3, PathReach

(* Only the SDUs that it has begun by its end matter to a span. *)
LEMMA SpanSame ==
  ASSUME NEW A, NEW B, Len(A) \in Nat, Len(B) \in Nat, NEW s, NEW c, NEW d, Span(A, s, c, d),
         \A x \in 1 .. Reach(d) : x <= Len(B) /\ B[x] = A[x]
  PROVE  Span(B, s, c, d)
  <1>1. PICK f : Path(A, s, c, d, f)
    BY DEF Span
  <1>2. Len(s) \in Nat /\ s \in Seq(Token)
    BY SpanEnds
  <1>3. /\ f \in [0 .. Len(s) -> Cursor] /\ f[0] = c /\ f[Len(s)] = d
        /\ \A i \in 1 .. Len(s) : StepTo(A, f[i - 1], s[i], f[i])
    BY <1>1 DEF Path
  <1>4. \A i \in 0 .. Len(s) : Reach(f[i]) \in Nat /\ Reach(f[i]) <= Reach(d)
    BY <1>1, <1>2, PathReach
  <1>5. ASSUME NEW i \in 1 .. Len(s)
        PROVE  StepTo(B, f[i - 1], s[i], f[i])
    <2>1. i - 1 \in 0 .. Len(s) /\ i \in 0 .. Len(s)
      BY <1>2
    <2>2. f[i - 1] \in Cursor /\ f[i] \in Cursor /\ StepTo(A, f[i - 1], s[i], f[i])
      BY <1>3, <2>1
    <2>3. CASE s[i] = EmptyToken /\ f[i - 1].part = 0 /\ f[i] = f[i - 1]
      BY <2>3 DEF StepTo
    <2> DEFINE a == f[i - 1]
               b == f[i]
    <2>4. CASE /\ a.done < Len(A)
               /\ s[i] = [b |-> <<A[a.done + 1], a.part + 1>>, e |-> a.part + 1 = SduLen[A[a.done + 1]]]
               /\ b = IF s[i].e THEN At(a.done + 1) ELSE [done |-> a.done, part |-> a.part + 1]
      <3>1. a.done \in Nat /\ a.part \in Nat /\ Reach(b) <= Reach(d) /\ Reach(b) \in Nat
        BY <1>4, <2>1, <2>2 DEF Cursor
      <3>2. Reach(b) = a.done + 1
        <4>1. CASE b = At(a.done + 1)
          BY <3>1, <4>1 DEF At, Reach
        <4>2. CASE b = [done |-> a.done, part |-> a.part + 1]
          BY <3>1, <4>2 DEF Reach
        <4> HIDE DEF a, b
        <4> QED
          BY <2>4, <4>1, <4>2
      <3>3. Reach(d) \in Nat
        <4>1. Len(s) \in 0 .. Len(s)
          BY <1>2
        <4> QED
          BY <1>3, <1>4, <4>1
      <3> HIDE DEF a, b
      <3>4. a.done + 1 \in 1 .. Reach(d)
        BY <3>1, <3>2, <3>3
      <3>5. B[a.done + 1] = A[a.done + 1] /\ a.done < Len(B)
        BY <3>1, <3>4
      <3>6. StepTo(B, a, s[i], b)
        BY <2>4, <3>5 DEF StepTo
      <3> QED
        BY <3>6 DEF a, b
    <2> QED
      BY <2>2, <2>3, <2>4 DEF StepTo
  <1>6. Path(B, s, c, d, f)
    BY <1>3, <1>5 DEF Path
  <1> QED
    BY <1>2, <1>6 DEF Span

LEMMA TokensType ==
  ASSUME NEW i \in 1 .. NofSdus
  PROVE  /\ SduLen[i] \in Nat \ {0}
         /\ Tokens(i) \in Seq(Token) /\ Len(Tokens(i)) = SduLen[i]
         /\ \A k \in 1 .. SduLen[i] : Tokens(i)[k] = [b |-> <<i, k>>, e |-> k = SduLen[i]]
  <1>1. SduLen[i] \in Nat \ {0} /\ NofSdus \in Nat /\ i \in Nat
    BY TxAssumption
  <1>2. \A k \in 1 .. SduLen[i] : [b |-> <<i, k>>, e |-> k = SduLen[i]] \in Token
    BY <1>1 DEF Token
  <1>3. Tokens(i) \in [1 .. SduLen[i] -> Token]
    BY <1>2 DEF Tokens
  <1>4. Tokens(i) \in Seq(Token)
    BY <1>1, <1>3, SeqDef
  <1>5. Len(Tokens(i)) = SduLen[i]
    BY <1>1 DEF Tokens
  <1> QED
    BY <1>1, <1>4, <1>5 DEF Tokens

LEMMA TokensSpan ==
  ASSUME NEW A \in Seq(1 .. NofSdus), NEW p \in Nat, p < Len(A)
  PROVE  Span(A, Tokens(A[p + 1]), At(p), At(p + 1))
  <1> DEFINE i == A[p + 1]
             n == SduLen[i]
             s == Tokens(i)
             f == [k \in 0 .. n |-> IF k = n THEN At(p + 1) ELSE [done |-> p, part |-> k]]
  <1>1. i \in 1 .. NofSdus
    <2>1. p + 1 \in 1 .. Len(A)
      BY LenProperties
    <2> QED
      BY <2>1, ElementOfSeq
  <1>2. /\ n \in Nat \ {0} /\ s \in Seq(Token) /\ Len(s) = n
        /\ \A k \in 1 .. n : s[k] = [b |-> <<i, k>>, e |-> k = n]
    BY <1>1, TokensType
  <1> HIDE DEF n, s
  <1>3. f \in [0 .. n -> Cursor] /\ f[0] = At(p) /\ f[n] = At(p + 1)
    <2>1. \A k \in 0 .. n : (IF k = n THEN At(p + 1) ELSE [done |-> p, part |-> k]) \in Cursor
      BY <1>2 DEF At, Cursor
    <2> QED
      BY <1>2, <2>1 DEF At
  <1>4. ASSUME NEW k \in 1 .. n PROVE StepTo(A, f[k - 1], s[k], f[k])
    <2>1. k - 1 \in 0 .. n /\ k - 1 # n /\ k \in 0 .. n /\ (k - 1) + 1 = k
      BY <1>2
    <2>2. f[k - 1] = [done |-> p, part |-> k - 1]
      BY <2>1
    <2>3. f[k] = IF k = n THEN At(p + 1) ELSE [done |-> p, part |-> k]
      BY <2>1
    <2>4. s[k].e = (k = n)
      <3> DEFINE w == [b |-> <<i, k>>, e |-> k = n]
      <3>1. s[k] = w
        BY <1>2
      <3>2. w.e = (k = n)
        OBVIOUS
      <3> HIDE DEF w
      <3> QED
        BY <3>1, <3>2
    <2> HIDE DEF f
    <2>5. s[k] = [b |-> <<A[p + 1], (k - 1) + 1>>, e |-> (k - 1) + 1 = SduLen[A[p + 1]]]
      BY <1>2, <2>1 DEF n
    <2>6. f[k - 1].done = p /\ f[k - 1].part = k - 1
      BY <2>2
    <2>7. f[k] = IF s[k].e THEN At(p + 1) ELSE [done |-> p, part |-> (k - 1) + 1]
      BY <2>1, <2>3, <2>4
    <2> HIDE DEF i
    <2> QED
      BY <2>5, <2>6, <2>7 DEF StepTo
  <1> HIDE DEF f
  <1>5. Path(A, s, At(p), At(p + 1), f)
    BY <1>2, <1>3, <1>4 DEF Path
  <1> QED
    BY <1>2, <1>5 DEF Span, s

-----------------------------------------------------------------------------
(* The sequences seqs put together one by one: h[i] after i of them *)

Concats(h, seqs, n, S) ==
  /\ h \in [0 .. n -> Seq(S)] /\ h[0] = <<>>
  /\ \A i \in 1 .. n : h[i] = h[i - 1] \o seqs[i]

LEMMA ConcatsExist ==
  ASSUME NEW S, NEW n \in Nat, NEW seqs \in [1 .. n -> Seq(S)]
  PROVE  \E h : Concats(h, seqs, n, S)
  <1> DEFINE Bad == {m \in Nat : m <= n /\ ~\E h : Concats(h, seqs, m, S)}
  <1> SUFFICES ASSUME n \in Bad PROVE FALSE
    OBVIOUS
  <1>1. Bad \in SUBSET Nat
    OBVIOUS
  <1> HIDE DEF Bad
  <1>2. PICK m \in Bad : \A y \in Bad : m <= y
    BY <1>1, LeastElement
  <1>3. m \in Nat /\ m <= n /\ ~\E h : Concats(h, seqs, m, S)
    BY <1>2 DEF Bad
  <1>4. CASE m = 0
    <2> DEFINE h == [i \in 0 .. 0 |-> <<>>]
    <2>1. h \in [0 .. 0 -> Seq(S)] /\ h[0] = <<>>
      BY EmptySeq
    <2> HIDE DEF h
    <2>2. Concats(h, seqs, 0, S)
      BY <2>1 DEF Concats
    <2> QED
      BY <1>3, <1>4, <2>2
  <1>5. CASE m # 0
    <2>1. m - 1 \in Nat /\ m - 1 <= n /\ ~(m <= m - 1)
      BY <1>3, <1>5
    <2>2. m - 1 \notin Bad
      BY <1>2, <2>1
    <2>3. PICK g : Concats(g, seqs, m - 1, S)
      BY <2>1, <2>2 DEF Bad
    <2>4. g \in [0 .. m - 1 -> Seq(S)] /\ g[0] = <<>> /\ \A i \in 1 .. m - 1 : g[i] = g[i - 1] \o seqs[i]
      BY <2>3 DEF Concats
    <2>5. seqs[m] \in Seq(S) /\ g[m - 1] \in Seq(S)
      BY <1>3, <1>5, <2>4
    <2> DEFINE x == g[m - 1] \o seqs[m]
               h == [i \in 0 .. m |-> IF i = m THEN x ELSE g[i]]
    <2>6. x \in Seq(S)
      BY <2>5, ConcatProperties
    <2> HIDE DEF x
    <2>7. h \in [0 .. m -> Seq(S)] /\ h[0] = <<>> /\ h[m] = x
      BY <1>3, <1>5, <2>4, <2>6
    <2>8. \A i \in 0 .. m - 1 : h[i] = g[i]
      BY <1>3
    <2> HIDE DEF h
    <2>9. ASSUME NEW i \in 1 .. m PROVE h[i] = h[i - 1] \o seqs[i]
      <3>1. CASE i = m
        <4>1. m - 1 \in 0 .. m - 1
          BY <2>1
        <4> QED
          BY <2>7, <2>8, <3>1, <4>1 DEF x
      <3>2. CASE i # m
        <4>1. i \in 1 .. m - 1 /\ i \in 0 .. m - 1 /\ i - 1 \in 0 .. m - 1
          BY <1>3, <3>2
        <4> QED
          BY <2>4, <2>8, <4>1
      <3> QED
        BY <3>1, <3>2
    <2>10. Concats(h, seqs, m, S)
      BY <2>7, <2>9 DEF Concats
    <2> QED
      BY <1>3, <2>10
  <1> QED
    BY <1>4, <1>5

LEMMA FlattenIs ==
  ASSUME NEW S, NEW n \in Nat, NEW seqs \in [1 .. n -> Seq(S)], NEW h, Concats(h, seqs, n, S)
  PROVE  FlattenSeq(seqs) = h[n]
  <1>1. Concats(h, seqs, n, S)
    OBVIOUS
  <1>2. seqs \in Seq(Seq(S)) /\ Len(seqs) = n
    <2>1. seqs \in Seq(Seq(S))
      BY SeqDef
    <2>2. DOMAIN seqs = 1 .. n /\ DOMAIN seqs = 1 .. Len(seqs) /\ Len(seqs) \in Nat
      BY <2>1, LenProperties
    <2> QED
      BY <2>1, <2>2
  <1>3. CASE n = 0
    <2>1. seqs = <<>>
      BY <1>2, <1>3, EmptySeq
    <2> QED
      BY <1>1, <1>2, <1>3, <2>1 DEF FlattenSeq, Concats
  <1>4. CASE n # 0
    <2> DEFINE Rec(f) == f = [i \in 1 .. Len(seqs) |-> IF i = 1 THEN seqs[i] ELSE f[i - 1] \o seqs[i]]
               F == CHOOSE f : f = [i \in 1 .. Len(seqs) |->
                                      IF i = 1 THEN seqs[i] ELSE f[i - 1] \o seqs[i]]
               g == [i \in 1 .. n |-> h[i]]
    <2>1. FlattenSeq(seqs) = F[n]
      BY <1>2, <1>4 DEF FlattenSeq
    <2>2. h[1] = seqs[1] /\ \A i \in 1 .. n : h[i] = h[i - 1] \o seqs[i]
      <3>1. 1 \in 1 .. n /\ seqs[1] \in Seq(S)
        BY <1>4
      <3>2. <<>> \o seqs[1] = seqs[1]
        BY <3>1, ConcatEmptySeq
      <3>3. h[0] = <<>> /\ \A i \in 1 .. n : h[i] = h[i - 1] \o seqs[i]
        BY <1>1 DEF Concats
      <3>4. h[1] = h[1 - 1] \o seqs[1]
        BY <3>1, <3>3
      <3>5. 1 - 1 = 0
        OBVIOUS
      <3>6. h[1] = <<>> \o seqs[1]
        BY <3>3, <3>4, <3>5, Zenon
      <3>7. h[1] = seqs[1]
        BY <3>2, <3>6, Zenon
      <3> QED
        BY <3>3, <3>7, Zenon
    <2>3. Rec(g)
      <3>1. ASSUME NEW i \in 1 .. n
            PROVE  g[i] = IF i = 1 THEN seqs[i] ELSE g[i - 1] \o seqs[i]
        <4>1. CASE i = 1
          BY <1>4, <2>2, <4>1
        <4>2. CASE i # 1
          <5>1. i - 1 \in 1 .. n
            BY <4>2
          <5> QED
            BY <2>2, <4>2, <5>1
        <4> QED
          BY <4>1, <4>2
      <3>2. g = [i \in 1 .. n |-> g[i]]
        OBVIOUS
      <3> HIDE DEF g
      <3> QED
        BY <1>2, <3>1, <3>2
    <2> HIDE DEF g
    <2>4. Rec(F)
      BY <2>3
    <2> HIDE DEF F
    <2>5. \A i \in 1 .. n : F[i] = IF i = 1 THEN seqs[i] ELSE F[i - 1] \o seqs[i]
      BY <1>2, <2>4
    <2> HIDE DEF Rec
    <2>6. ASSUME F[n] # h[n] PROVE FALSE
      <3> DEFINE Bad == {i \in 1 .. n : F[i] # h[i]}
      <3>1. Bad \in SUBSET Nat /\ n \in Bad
        BY <1>4, <2>6
      <3> HIDE DEF Bad
      <3>2. PICK i \in Bad : \A y \in Bad : i <= y
        BY <3>1, LeastElement
      <3>3. i \in 1 .. n /\ F[i] # h[i]
        BY <3>2 DEF Bad
      <3>4. i # 1
        BY <2>2, <2>5, <3>3
      <3>5. i - 1 \in 1 .. n /\ ~(i <= i - 1)
        BY <3>3, <3>4
      <3>6. F[i - 1] = h[i - 1]
        BY <3>2, <3>5 DEF Bad
      <3> QED
        BY <2>2, <2>5, <3>3, <3>4, <3>6
    <2> QED
      BY <1>1, <2>1, <2>6
  <1> QED
    BY <1>3, <1>4

LEMMA MaxIsGreatest ==
  ASSUME NEW S \in SUBSET Int, NEW m \in S, \A x \in S : x <= m
  PROVE  Max(S) = m
  <1>1. \E x \in S : \A y \in S : x >= y
    BY DEF Max
  <1>2. Max(S) \in S /\ \A y \in S : Max(S) >= y
    BY <1>1 DEF Max
  <1>3. Max(S) \in Int /\ m \in Int /\ Max(S) >= m /\ Max(S) <= m
    BY <1>2
  <1> HIDE DEF Max
  <1> QED
    BY <1>3

(* The body of the loop of reassemble_rx_sdus *)
TakeToken(acc, t) ==
  IF t.e THEN [sdu |-> <<>>, out |-> Append(acc.out, Append(acc.sdu, t.b))]
         ELSE [acc EXCEPT !.sdu = Append(@, t.b)]

TakesAll(g, e, q, D) ==
  g = [s \in SUBSET D |-> IF s = {} THEN e ELSE TakeToken(g[s \ {Max(s)}], q[Max(s)])]

LEMMA ReassembledIsTaken ==
  ASSUME NEW q, NEW g, TakesAll(g, [sdu |-> rx_sdu, out |-> <<>>], q, DOMAIN q)
  PROVE  \E h : /\ TakesAll(h, [sdu |-> rx_sdu, out |-> <<>>], q, DOMAIN q)
                /\ Reassembled(q) = h[DOMAIN q]
  <1> DEFINE e == [sdu |-> rx_sdu, out |-> <<>>]
             h == CHOOSE iter : iter = [s \in SUBSET DOMAIN q |->
                    IF s = {} THEN e ELSE TakeToken(iter[s \ {Max(s)}], q[Max(s)])]
  <1>1. Reassembled(q) = h[DOMAIN q]
    BY DEF Reassembled, TakeToken, FoldLeft, MapThenFoldSet
  <1>2. TakesAll(h, e, q, DOMAIN q)
    BY DEF TakesAll
  <1> HIDE DEF h
  <1> QED
    BY <1>1, <1>2

LEMMA TakesExist ==
  ASSUME NEW e, NEW q, NEW n \in Nat
  PROVE  \E g : TakesAll(g, e, q, 1 .. n)
  <1> DEFINE Bad == {m \in Nat : ~\E g : TakesAll(g, e, q, 1 .. m)}
  <1> SUFFICES ASSUME n \in Bad PROVE FALSE
    OBVIOUS
  <1>1. Bad \in SUBSET Nat
    OBVIOUS
  <1> HIDE DEF Bad
  <1>2. PICK m \in Bad : \A k \in Bad : m <= k
    BY <1>1, LeastElement
  <1>3. m \in Nat /\ ~\E g : TakesAll(g, e, q, 1 .. m)
    BY <1>2 DEF Bad
  <1>4. CASE m = 0
    <2> DEFINE g == [s \in SUBSET (1 .. 0) |-> e]
    <2>1. \A s \in SUBSET (1 .. 0) : s = {}
      OBVIOUS
    <2>2. TakesAll(g, e, q, 1 .. 0)
      BY <2>1 DEF TakesAll
    <2> HIDE DEF g
    <2> QED
      BY <1>3, <1>4, <2>2
  <1>5. CASE m # 0
    <2>1. m - 1 \in Nat /\ m - 1 \notin Bad
      BY <1>2, <1>3, <1>5
    <2>2. PICK g : TakesAll(g, e, q, 1 .. m - 1)
      BY <2>1 DEF Bad
    <2> DEFINE h == [s \in SUBSET (1 .. m) |->
                       IF m \in s THEN TakeToken(g[s \ {m}], q[m]) ELSE g[s]]
    <2>3. \A s \in SUBSET (1 .. m - 1) :
            g[s] = IF s = {} THEN e ELSE TakeToken(g[s \ {Max(s)}], q[Max(s)])
      BY <2>2 DEF TakesAll
    <2>4. \A s \in SUBSET (1 .. m - 1) : s \in SUBSET (1 .. m) /\ m \notin s
      BY <1>3
    <2>5. \A s \in SUBSET (1 .. m - 1) : h[s] = g[s]
      BY <2>4
    <2>6. ASSUME NEW s \in SUBSET (1 .. m)
          PROVE  h[s] = IF s = {} THEN e ELSE TakeToken(h[s \ {Max(s)}], q[Max(s)])
      <3>1. CASE m \in s
        <4>1. s \in SUBSET Int /\ \A x \in s : x <= m
          BY <1>3
        <4>2. Max(s) = m
          BY <3>1, <4>1, MaxIsGreatest
        <4>3. s \ {m} \in SUBSET (1 .. m - 1)
          BY <1>3
        <4>4. h[s] = TakeToken(g[s \ {m}], q[m])
          BY <3>1
        <4>5. h[s \ {m}] = g[s \ {m}]
          BY <2>5, <4>3
        <4> HIDE DEF h
        <4> QED
          BY <3>1, <4>2, <4>4, <4>5
      <3>2. CASE m \notin s
        <4>1. s \in SUBSET (1 .. m - 1) /\ s \ {Max(s)} \in SUBSET (1 .. m - 1)
          <5>1. \A x \in s : x \in 1 .. m /\ x # m
            BY <3>2
          <5>2. \A x \in s : x \in 1 .. m - 1
            BY <1>3, <5>1
          <5> QED
            BY <5>2
        <4>2. h[s] = g[s] /\ h[s \ {Max(s)}] = g[s \ {Max(s)}]
          BY <2>5, <4>1
        <4> HIDE DEF h
        <4> QED
          BY <2>3, <4>1, <4>2
      <3> QED
        BY <3>1, <3>2
    <2>7. h = [s \in SUBSET (1 .. m) |-> h[s]]
      OBVIOUS
    <2> HIDE DEF h
    <2>8. TakesAll(h, e, q, 1 .. m)
      BY <2>6, <2>7 DEF TakesAll
    <2> QED
      BY <1>3, <2>8
  <1> QED
    BY <1>4, <1>5

(* What reassemble_rx_sdus has after each byte *)
LEMMA ReassembledSteps ==
  ASSUME NEW S, NEW q \in Seq(S)
  PROVE  \E a : /\ a[0] = [sdu |-> rx_sdu, out |-> <<>>]
                /\ \A i \in 1 .. Len(q) : a[i] = TakeToken(a[i - 1], q[i])
                /\ Reassembled(q) = a[Len(q)]
  <1> DEFINE n == Len(q)
             e == [sdu |-> rx_sdu, out |-> <<>>]
  <1>1. n \in Nat /\ DOMAIN q = 1 .. n
    BY LenProperties
  <1>2. PICK h : TakesAll(h, e, q, 1 .. n) /\ Reassembled(q) = h[1 .. n]
    <2>1. PICK g : TakesAll(g, e, q, DOMAIN q)
      BY <1>1, TakesExist
    <2>2. \E h : TakesAll(h, e, q, DOMAIN q) /\ Reassembled(q) = h[DOMAIN q]
      BY <2>1, ReassembledIsTaken
    <2> QED
      BY <1>1, <2>2
  <1> HIDE DEF n, e
  <1>3. \A s \in SUBSET (1 .. n) :
          h[s] = IF s = {} THEN e ELSE TakeToken(h[s \ {Max(s)}], q[Max(s)])
    BY <1>2 DEF TakesAll
  <1> DEFINE a == [i \in 0 .. n |-> h[1 .. i]]
  <1>4. ASSUME NEW i \in 1 .. n PROVE a[i] = TakeToken(a[i - 1], q[i])
    <2>1. /\ 1 .. i \in SUBSET (1 .. n) /\ i \in 1 .. i /\ 1 .. i \in SUBSET Int
          /\ \A x \in 1 .. i : x <= i
      BY <1>1
    <2>2. Max(1 .. i) = i
      BY <2>1, MaxIsGreatest
    <2>3. (1 .. i) \ {i} = 1 .. i - 1
      BY <1>1
    <2>4. h[1 .. i] = TakeToken(h[1 .. i - 1], q[i])
      <3>1. 1 .. i # {}
        BY <2>1
      <3>2. h[1 .. i] = TakeToken(h[(1 .. i) \ {Max(1 .. i)}], q[Max(1 .. i)])
        BY <1>3, <2>1, <3>1
      <3> QED
        BY <2>2, <2>3, <3>2
    <2>5. i \in 0 .. n /\ i - 1 \in 0 .. n
      BY <1>1
    <2> QED
      BY <2>4, <2>5
  <1>5. a[0] = e
    <2>1. 1 .. 0 = {} /\ 1 .. 0 \in SUBSET (1 .. n) /\ 0 \in 0 .. n
      BY <1>1
    <2>2. h[1 .. 0] = e
      BY <1>3, <2>1
    <2> QED
      BY <2>1, <2>2
  <1>6. a[n] = h[1 .. n]
    BY <1>1
  <1> HIDE DEF a
  <1>7. Reassembled(q) = a[n]
    BY <1>2, <1>6
  <1> QED
    BY <1>4, <1>5, <1>7 DEF n, e

(* The PDCP PDUs in a sequence of what was delivered *)
SdusIn(s) == FlattenSeq([k \in 1 .. Len(s) |->
                           IF s[k] = <<NoByte>> THEN <<>> ELSE <<SduOf(s[k])>>])

LEMMA SduOfType == \A x : SduOf(x) \in 0 .. NofSdus
  <1>1. NofSdus \in Nat
    BY TxAssumption
  <1> QED
    BY <1>1 DEF SduOf

LEMMA SdusInAppend ==
  ASSUME NEW S, NEW s \in Seq(S), NEW x \in S
  PROVE  SdusIn(Append(s, x)) = IF x = <<NoByte>> THEN SdusIn(s) ELSE Append(SdusIn(s), SduOf(x))
  <1> DEFINE n == Len(s)
             T == 0 .. NofSdus
             t == Append(s, x)
             piece(y) == IF y = <<NoByte>> THEN <<>> ELSE <<SduOf(y)>>
             old == [k \in 1 .. n |-> piece(s[k])]
             new == [k \in 1 .. n + 1 |-> piece(t[k])]
  <1>1. n \in Nat /\ Len(t) = n + 1 /\ t[n + 1] = x /\ \A k \in 1 .. n : t[k] = s[k]
    BY LenProperties, AppendProperties
  <1>2. \A y : piece(y) \in Seq(T)
    <2>1. ASSUME NEW y PROVE piece(y) \in Seq(T)
      <3>1. SduOf(y) \in T
        BY SduOfType
      <3> HIDE DEF T
      <3> QED
        BY <3>1, EmptySeq
    <2> QED
      BY <2>1
  <1>3. SdusIn(s) = FlattenSeq(old) /\ SdusIn(t) = FlattenSeq(new)
    <2>1. SdusIn(s) = FlattenSeq(old)
      BY DEF SdusIn
    <2>2. SdusIn(t) = FlattenSeq([k \in 1 .. Len(t) |-> piece(t[k])])
      BY DEF SdusIn
    <2> HIDE DEF t, piece
    <2> QED
      BY <1>1, <2>1, <2>2
  <1> HIDE DEF T, piece, n
  <1>4. old \in [1 .. n -> Seq(T)] /\ new \in [1 .. n + 1 -> Seq(T)]
    BY <1>2
  <1>5. new[n + 1] = piece(x) /\ \A k \in 1 .. n : new[k] = old[k]
    BY <1>1
  <1> HIDE DEF old, new, t
  <1>6. PICK h : Concats(h, new, n + 1, T)
    <2>1. n + 1 \in Nat
      BY <1>1
    <2> QED
      BY <1>4, <2>1, ConcatsExist
  <1>7. /\ h \in [0 .. n + 1 -> Seq(T)] /\ h[0] = <<>>
        /\ \A i \in 1 .. n + 1 : h[i] = h[i - 1] \o new[i]
    BY <1>6 DEF Concats
  <1> DEFINE g == [i \in 0 .. n |-> h[i]]
  <1>8. Concats(g, old, n, T) /\ g[n] = h[n]
    <2>1. g \in [0 .. n -> Seq(T)] /\ g[0] = <<>> /\ g[n] = h[n]
      BY <1>1, <1>7
    <2>2. ASSUME NEW i \in 1 .. n PROVE g[i] = g[i - 1] \o old[i]
      <3>1. i \in 1 .. n + 1 /\ i \in 0 .. n /\ i - 1 \in 0 .. n
        BY <1>1
      <3>2. g[i] = h[i] /\ g[i - 1] = h[i - 1]
        BY <3>1
      <3> HIDE DEF g
      <3> QED
        BY <1>5, <1>7, <3>1, <3>2
    <2> HIDE DEF g
    <2> QED
      BY <2>1, <2>2 DEF Concats
  <1>9. SdusIn(s) = h[n] /\ SdusIn(t) = h[n + 1]
    <2>1. FlattenSeq(old) = g[n]
      <3> HIDE DEF g
      <3> QED
        BY <1>1, <1>4, <1>8, FlattenIs
    <2>2. FlattenSeq(new) = h[n + 1]
      BY <1>1, <1>4, <1>6, FlattenIs
    <2> QED
      BY <1>3, <1>8, <2>1, <2>2
  <1>10. h[n + 1] = h[n] \o piece(x) /\ h[n] \in Seq(T)
    <2>1. n + 1 \in 1 .. n + 1 /\ n \in 0 .. n + 1 /\ (n + 1) - 1 = n
      BY <1>1
    <2>2. h[n + 1] = h[(n + 1) - 1] \o new[n + 1]
      BY <1>7, <2>1
    <2> QED
      BY <1>5, <1>7, <2>1, <2>2, Zenon
  <1>11. CASE x = <<NoByte>>
    <2>1. piece(x) = <<>>
      BY <1>11 DEF piece
    <2> QED
      BY <1>9, <1>10, <1>11, <2>1, ConcatEmptySeq DEF t
  <1>12. CASE x # <<NoByte>>
    <2>1. piece(x) = <<SduOf(x)>> /\ SduOf(x) \in T
      BY <1>12, SduOfType DEF piece, T
    <2>2. Append(h[n], SduOf(x)) = h[n] \o <<SduOf(x)>>
      BY <1>10, <2>1, AppendIsConcat
    <2> QED
      BY <1>9, <1>10, <1>12, <2>1, <2>2 DEF t
  <1> QED
    BY <1>11, <1>12

LEMMA SdusInType ==
  ASSUME NEW S, NEW s \in Seq(S)
  PROVE  SdusIn(s) \in Seq(0 .. NofSdus)
  <1> DEFINE n == Len(s)
             T == 0 .. NofSdus
             old == [k \in 1 .. n |-> IF s[k] = <<NoByte>> THEN <<>> ELSE <<SduOf(s[k])>>]
  <1>1. n \in Nat
    BY LenProperties
  <1>2. ASSUME NEW y PROVE (IF y = <<NoByte>> THEN <<>> ELSE <<SduOf(y)>>) \in Seq(T)
    <2>1. SduOf(y) \in T
      BY SduOfType
    <2> HIDE DEF T
    <2> QED
      BY <2>1, EmptySeq
  <1>3. SdusIn(s) = FlattenSeq(old)
    BY DEF SdusIn
  <1> HIDE DEF n, T
  <1>4. old \in [1 .. n -> Seq(T)]
    BY <1>2
  <1> HIDE DEF old
  <1>5. PICK h : Concats(h, old, n, T)
    BY <1>1, <1>4, ConcatsExist
  <1>6. FlattenSeq(old) = h[n]
    BY <1>1, <1>4, <1>5, FlattenIs
  <1>7. h[n] \in Seq(T)
    BY <1>1, <1>5 DEF Concats
  <1> QED
    BY <1>3, <1>6, <1>7 DEF T

ByteSeq == Seq(Nat \X Nat)

(* The bytes of the next SDU that come before cursor c *)
Part(A, c) == [k \in 1 .. c.part |-> <<A[c.done + 1], k>>]

LEMMA BytesType ==
  ASSUME NEW i \in 1 .. NofSdus
  PROVE  /\ Bytes(i) \in ByteSeq /\ Bytes(i) # <<NoByte>> /\ SduOf(Bytes(i)) = i
  <1>1. NofSdus \in Nat /\ \A j \in 1 .. NofSdus : SduLen[j] \in Nat /\ SduLen[j] >= 1
    BY TxAssumption
  <1>2. \A j \in 1 .. NofSdus : Bytes(j)[1] = <<j, 1>>
    BY <1>1 DEF Bytes
  <1>3. Bytes(i) \in ByteSeq
    <2> DEFINE n == SduLen[i]
    <2>1. n \in Nat /\ i \in Nat
      BY <1>1
    <2> HIDE DEF n
    <2>2. [k \in 1 .. n |-> <<i, k>>] \in [1 .. n -> Nat \X Nat]
      BY <2>1
    <2>3. [k \in 1 .. n |-> <<i, k>>] \in ByteSeq
      BY <2>1, <2>2, SeqDef DEF ByteSeq
    <2> QED
      BY <2>3 DEF Bytes, n
  <1>4. Bytes(i) # <<NoByte>>
    <2>1. <<NoByte>>[1] = <<0, 0>>
      BY DEF NoByte
    <2>2. Bytes(i)[1] = <<i, 1>>
      BY <1>2
    <2> QED
      BY <2>1, <2>2
  <1>5. \A j \in 1 .. NofSdus : Bytes(i) = Bytes(j) => j = i
    BY <1>2
  <1>6. SduOf(Bytes(i)) = i
    <2> HIDE DEF Bytes
    <2>1. \E j \in 1 .. NofSdus : Bytes(i) = Bytes(j)
      OBVIOUS
    <2>2. SduOf(Bytes(i)) = CHOOSE j \in 1 .. NofSdus : Bytes(i) = Bytes(j)
      BY <2>1 DEF SduOf
    <2> QED
      BY <1>5, <2>1, <2>2
  <1> QED
    BY <1>3, <1>4, <1>6

LEMMA PartType ==
  ASSUME NEW A \in Seq(1 .. NofSdus), NEW c \in Cursor, Reach(c) <= Len(A)
  PROVE  /\ Part(A, c) \in ByteSeq /\ Len(Part(A, c)) = c.part
         /\ c.part = 0 => Part(A, c) = <<>>
  <1>1. c.done \in Nat /\ c.part \in Nat
    BY DEF Cursor
  <1> DEFINE n == c.part
             x == A[c.done + 1]
             p == [k \in 1 .. n |-> <<x, k>>]
  <1>2. \A k \in 1 .. n : <<x, k>> \in Nat \X Nat
    <2>1. ASSUME NEW k \in 1 .. n PROVE x \in Nat
      <3>1. c.done + 1 <= Len(A)
        BY <1>1 DEF Reach
      <3>2. Len(A) \in Nat /\ NofSdus \in Nat
        BY LenProperties, TxAssumption
      <3>3. c.done + 1 \in 1 .. Len(A)
        BY <1>1, <3>1, <3>2
      <3>4. x \in 1 .. NofSdus
        BY <3>3, ElementOfSeq
      <3> QED
        BY <3>2, <3>4
    <2> QED
      BY <1>1, <2>1
  <1>3. n \in Nat /\ Part(A, c) = p
    BY <1>1 DEF Part
  <1> HIDE DEF n, x
  <1>4. p \in [1 .. n -> Nat \X Nat]
    BY <1>2
  <1>5. p \in ByteSeq
    BY <1>3, <1>4, SeqDef DEF ByteSeq
  <1>6. DOMAIN p = 1 .. n /\ DOMAIN p = 1 .. Len(p) /\ Len(p) \in Nat
    BY <1>5, LenProperties DEF ByteSeq
  <1>7. Len(p) = n
    BY <1>3, <1>6
  <1> HIDE DEF p
  <1>8. n = 0 => p = <<>>
    BY <1>5, <1>7, EmptySeq DEF ByteSeq
  <1> QED
    BY <1>3, <1>5, <1>7, <1>8 DEF n

LEMMA PartAppend ==
  ASSUME NEW A \in Seq(1 .. NofSdus), NEW c \in Cursor, c.done < Len(A)
  PROVE  /\ Append(Part(A, c), <<A[c.done + 1], c.part + 1>>)
            = [k \in 1 .. c.part + 1 |-> <<A[c.done + 1], k>>]
         /\ A[c.done + 1] \in 1 .. NofSdus
  <1>1. c.done \in Nat /\ c.part \in Nat /\ Len(A) \in Nat
    BY LenProperties DEF Cursor
  <1>2. c.done + 1 \in 1 .. Len(A)
    BY <1>1
  <1>3. A[c.done + 1] \in 1 .. NofSdus
    BY <1>2, ElementOfSeq
  <1>4. Reach(c) <= Len(A)
    BY <1>1 DEF Reach
  <1> DEFINE n == c.part
             x == A[c.done + 1]
             p == Part(A, c)
             q == [k \in 1 .. n + 1 |-> <<x, k>>]
             y == <<x, n + 1>>
  <1>5. n \in Nat /\ x \in Nat /\ p \in ByteSeq /\ Len(p) = n /\ \A k \in 1 .. n : p[k] = <<x, k>>
    <2>1. p \in ByteSeq /\ Len(p) = n
      BY <1>4, PartType
    <2>2. \A k \in 1 .. n : p[k] = <<x, k>>
      BY DEF Part
    <2> QED
      BY <1>1, <1>3, <2>1, <2>2
  <1> HIDE DEF n, x, p
  <1>6. y \in Nat \X Nat
    BY <1>5
  <1>7. q \in ByteSeq /\ Len(q) = n + 1
    <2>1. q \in [1 .. n + 1 -> Nat \X Nat] /\ n + 1 \in Nat
      BY <1>5
    <2>2. q \in ByteSeq
      BY <2>1, SeqDef DEF ByteSeq
    <2>3. DOMAIN q = 1 .. n + 1 /\ DOMAIN q = 1 .. Len(q) /\ Len(q) \in Nat
      BY <2>2, LenProperties DEF ByteSeq
    <2> QED
      BY <2>1, <2>2, <2>3
  <1>8. \A k \in 1 .. n + 1 : q[k] = <<x, k>>
    OBVIOUS
  <1> HIDE DEF q, y
  <1>9. /\ Append(p, y) \in ByteSeq /\ Len(Append(p, y)) = n + 1 /\ Append(p, y)[n + 1] = y
        /\ \A k \in 1 .. n : Append(p, y)[k] = p[k]
    BY <1>5, <1>6, AppendProperties DEF ByteSeq
  <1>10. ASSUME NEW k \in 1 .. n + 1 PROVE Append(p, y)[k] = q[k]
    <2>1. CASE k = n + 1
      BY <1>8, <1>9, <2>1 DEF y
    <2>2. CASE k # n + 1
      <3>1. k \in 1 .. n
        BY <1>5, <2>2
      <3> QED
        BY <1>5, <1>8, <1>9, <3>1
    <2> QED
      BY <2>1, <2>2
  <1>11. Append(p, y) = q
    BY <1>7, <1>9, <1>10, SeqEqual DEF ByteSeq
  <1> QED
    BY <1>3, <1>11 DEF n, x, p, q, y

(* Reassembly has reached cursor c: what it holds, and what it has delivered *)
Reassembly(A, c, sdu, out) ==
  /\ sdu = Part(A, c) /\ out \in Seq(ByteSeq)
  /\ SdusIn(out) = SubSeq(A, 1, c.done)

LEMMA AppendToConcat ==
  ASSUME NEW S, NEW s \in Seq(S), NEW t \in Seq(S), NEW x \in S
  PROVE  s \o Append(t, x) = Append(s \o t, x)
  <1>1. <<x>> \in Seq(S) /\ s \o t \in Seq(S)
    BY ConcatProperties
  <1>2. Append(t, x) = t \o <<x>> /\ Append(s \o t, x) = (s \o t) \o <<x>>
    BY <1>1, AppendIsConcat
  <1>3. (s \o t) \o <<x>> = s \o (t \o <<x>>)
    BY <1>1, ConcatAssociative
  <1> QED
    BY <1>2, <1>3

LEMMA TakeStep ==
  ASSUME NEW A \in Seq(1 .. NofSdus), NEW c \in Cursor, NEW d \in Cursor, NEW t, StepTo(A, c, t, d),
         Reach(c) <= Len(A), NEW old \in Seq(ByteSeq), NEW out \in Seq(ByteSeq),
         Reassembly(A, c, Part(A, c), old \o out)
  PROVE  \E new \in Seq(ByteSeq) :
           /\ TakeToken([sdu |-> Part(A, c), out |-> out], t) = [sdu |-> Part(A, d), out |-> new]
           /\ Reassembly(A, d, Part(A, d), old \o new)
           /\ c.done <= d.done
  <1> DEFINE acc == [sdu |-> Part(A, c), out |-> out]
  <1>1. c.done \in Nat /\ c.part \in Nat /\ Len(A) \in Nat
    BY LenProperties DEF Cursor
  <1>2. old \o out \in Seq(ByteSeq) /\ SdusIn(old \o out) = SubSeq(A, 1, c.done)
    BY DEF Reassembly
  <1>3. ASSUME NEW x \in ByteSeq
        PROVE  /\ Append(out, x) \in Seq(ByteSeq) /\ old \o Append(out, x) \in Seq(ByteSeq)
               /\ SdusIn(old \o Append(out, x)) = IF x = <<NoByte>> THEN SdusIn(old \o out)
                                                  ELSE Append(SdusIn(old \o out), SduOf(x))
    <2>1. Append(out, x) \in Seq(ByteSeq)
      BY AppendProperties
    <2>2. old \o Append(out, x) = Append(old \o out, x)
      BY AppendToConcat
    <2>3. old \o Append(out, x) \in Seq(ByteSeq)
      BY <2>1, ConcatProperties
    <2> QED
      BY <1>2, <2>1, <2>2, <2>3, SdusInAppend
  <1>4. CASE t = EmptyToken /\ c.part = 0 /\ d = c
    <2>1. Part(A, c) = <<>>
      BY <1>4, PartType
    <2>2. Append(<<>>, NoByte) = <<NoByte>> /\ <<NoByte>> \in ByteSeq
      BY DEF NoByte, ByteSeq
    <2>3. t.e = TRUE /\ t.b = NoByte
      BY <1>4 DEF EmptyToken
    <2>4. TakeToken(acc, t) = [sdu |-> <<>>, out |-> Append(out, Append(<<>>, NoByte))]
      BY <2>1, <2>3 DEF TakeToken
    <2> DEFINE new == Append(out, <<NoByte>>)
    <2>5. new \in Seq(ByteSeq) /\ old \o new \in Seq(ByteSeq) /\ SdusIn(old \o new) = SdusIn(old \o out)
      BY <1>3, <2>2
    <2>6. TakeToken(acc, t) = [sdu |-> Part(A, d), out |-> new]
      BY <1>4, <2>1, <2>2, <2>4
    <2> HIDE DEF new, acc
    <2>7. Reassembly(A, d, Part(A, d), old \o new)
      BY <1>2, <1>4, <2>5 DEF Reassembly
    <2> QED
      BY <1>1, <1>4, <2>5, <2>6, <2>7 DEF acc
  <1>5. CASE /\ c.done < Len(A)
             /\ t = [b |-> <<A[c.done + 1], c.part + 1>>, e |-> c.part + 1 = SduLen[A[c.done + 1]]]
             /\ d = IF t.e THEN At(c.done + 1) ELSE [done |-> c.done, part |-> c.part + 1]
    <2> DEFINE i == A[c.done + 1]
               all == [k \in 1 .. c.part + 1 |-> <<i, k>>]
    <2>1. Append(Part(A, c), <<i, c.part + 1>>) = all /\ i \in 1 .. NofSdus
      BY <1>5, PartAppend
    <2>2. t.b = <<i, c.part + 1>> /\ t.e = (c.part + 1 = SduLen[i])
      BY <1>5
    <2>3. CASE c.part + 1 = SduLen[i]
      <3>1. all = Bytes(i)
        BY <2>3 DEF Bytes
      <3>2. Bytes(i) \in ByteSeq /\ Bytes(i) # <<NoByte>> /\ SduOf(Bytes(i)) = i
        BY <2>1, BytesType
      <3>3. d = At(c.done + 1) /\ t.e
        BY <1>5, <2>2, <2>3
      <3> DEFINE new == Append(out, Bytes(i))
      <3>4. TakeToken(acc, t) = [sdu |-> <<>>, out |-> new]
        <4>1. TakeToken(acc, t) = [sdu |-> <<>>, out |-> Append(out, Append(Part(A, c), t.b))]
          BY <3>3 DEF TakeToken
        <4> HIDE DEF all
        <4> QED
          BY <2>1, <2>2, <3>1, <4>1
      <3>5. /\ new \in Seq(ByteSeq) /\ old \o new \in Seq(ByteSeq)
            /\ SdusIn(old \o new) = Append(SubSeq(A, 1, c.done), i)
        BY <1>2, <1>3, <3>2
      <3>6. Append(SubSeq(A, 1, c.done), i) = SubSeq(A, 1, c.done + 1)
        <4>1. c.done + 1 \in 1 .. Len(A) /\ 1 \in 1 .. Len(A) /\ c.done + 1 \in 1 .. Len(A)
          BY <1>1, <1>5
        <4>2. SubSeq(A, 1, c.done + 1) = SubSeq(A, 1, (c.done + 1) - 1) \o <<A[c.done + 1]>>
          BY <4>1, SubSeqRecursiveSecond
        <4>3. (c.done + 1) - 1 = c.done
          BY <1>1
        <4>4. SubSeq(A, 1, c.done) \in Seq(1 .. NofSdus)
          <5>1. \A k \in 1 .. c.done : A[k] \in 1 .. NofSdus
            <6>1. \A k \in 1 .. c.done : k \in 1 .. Len(A)
              BY <1>1, <1>5
            <6> QED
              BY <6>1, ElementOfSeq
          <5> QED
            BY <1>1, <5>1, SubSeqProperties
        <4> QED
          BY <2>1, <4>2, <4>3, <4>4, AppendIsConcat
      <3>7. d \in Cursor /\ d.done = c.done + 1 /\ d.part = 0
        BY <1>1, <3>3 DEF At, Cursor
      <3>8. Part(A, d) = <<>>
        <4>1. Reach(d) <= Len(A)
          BY <1>1, <1>5, <3>7 DEF Reach
        <4> QED
          BY <3>7, <4>1, PartType
      <3> HIDE DEF new, acc
      <3>9. Reassembly(A, d, Part(A, d), old \o new)
        BY <3>5, <3>6, <3>7 DEF Reassembly
      <3> QED
        BY <1>1, <3>4, <3>5, <3>7, <3>8, <3>9 DEF acc
    <2>4. CASE c.part + 1 # SduLen[i]
      <3>1. d = [done |-> c.done, part |-> c.part + 1] /\ ~t.e
        BY <1>5, <2>2, <2>4
      <3>2. Part(A, d) = all
        BY <3>1 DEF Part
      <3>3. TakeToken(acc, t) = [sdu |-> Append(Part(A, c), t.b), out |-> out]
        BY <3>1 DEF TakeToken
      <3>4. TakeToken(acc, t) = [sdu |-> Part(A, d), out |-> out]
        <4> HIDE DEF all
        <4> QED
          BY <2>1, <2>2, <3>2, <3>3
      <3>5. d.done = c.done
        BY <3>1
      <3>6. Reassembly(A, d, Part(A, d), old \o out)
        BY <1>2, <3>5 DEF Reassembly
      <3> QED
        BY <1>1, <3>4, <3>5, <3>6
    <2> QED
      BY <2>3, <2>4
  <1> QED
    BY <1>4, <1>5 DEF StepTo

(* Reassembling what takes cursor c to d takes the reassembly from c to d. *)
LEMMA ReassembledSpan ==
  ASSUME NEW A \in Seq(1 .. NofSdus), NEW s, NEW c, NEW d, Span(A, s, c, d), Reach(c) <= Len(A),
         Reassembly(A, c, rx_sdu, delivered)
  PROVE  /\ Reassembled(s).out \in Seq(ByteSeq)
         /\ Reassembly(A, d, Reassembled(s).sdu, delivered \o Reassembled(s).out)
         /\ c.done <= d.done
  <1>1. Len(A) \in Nat
    BY LenProperties
  <1>2. PICK f : Path(A, s, c, d, f)
    BY DEF Span
  <1>3. s \in Seq(Token) /\ Len(s) \in Nat /\ c \in Cursor /\ d \in Cursor
    BY SpanEnds
  <1> DEFINE n == Len(s)
  <1>4. /\ f \in [0 .. n -> Cursor] /\ f[0] = c /\ f[n] = d
        /\ \A i \in 1 .. n : StepTo(A, f[i - 1], s[i], f[i])
    BY <1>2 DEF Path
  <1>5. PICK a : /\ a[0] = [sdu |-> rx_sdu, out |-> <<>>]
                 /\ \A i \in 1 .. n : a[i] = TakeToken(a[i - 1], s[i])
                 /\ Reassembled(s) = a[n]
    BY <1>3, ReassembledSteps
  <1>6. \A i \in 0 .. n : Reach(f[i]) \in Nat /\ Reach(f[i]) <= Len(A)
    <2>1. Reach(d) <= Len(A) /\ Reach(d) \in Nat
      BY <1>1, SpanReach
    <2>2. \A i \in 0 .. n : Reach(f[i]) \in Nat /\ Reach(f[i]) <= Reach(d)
      BY <1>1, <1>2, <1>3, PathReach
    <2> QED
      BY <1>1, <2>1, <2>2
  <1>7. n \in Nat
    BY <1>3
  <1>8. delivered \in Seq(ByteSeq) /\ rx_sdu = Part(A, c)
    BY DEF Reassembly
  <1> HIDE DEF n
  <1> DEFINE Good(i) == \E o \in Seq(ByteSeq) : /\ a[i] = [sdu |-> Part(A, f[i]), out |-> o]
                                                /\ Reassembly(A, f[i], Part(A, f[i]), delivered \o o)
                                                /\ c.done <= f[i].done
  <1>9. Good(0)
    <2>1. <<>> \in Seq(ByteSeq) /\ delivered \o <<>> = delivered
      BY <1>8, EmptySeq, ConcatEmptySeq
    <2>2. a[0] = [sdu |-> Part(A, f[0]), out |-> <<>>]
      BY <1>4, <1>5, <1>8
    <2>3. Reassembly(A, f[0], Part(A, f[0]), delivered \o <<>>)
      BY <1>4, <1>8, <2>1
    <2>4. c.done <= f[0].done
      BY <1>3, <1>4 DEF Cursor
    <2> QED
      BY <2>1, <2>2, <2>3, <2>4
  <1>10. ASSUME NEW i \in 1 .. n, Good(i - 1)
         PROVE  Good(i)
    <2>1. i - 1 \in 0 .. n /\ i \in 0 .. n
      BY <1>7
    <2>2. f[i - 1] \in Cursor /\ f[i] \in Cursor /\ Reach(f[i - 1]) <= Len(A)
      BY <1>4, <1>6, <2>1
    <2>3. PICK o \in Seq(ByteSeq) : /\ a[i - 1] = [sdu |-> Part(A, f[i - 1]), out |-> o]
                                    /\ Reassembly(A, f[i - 1], Part(A, f[i - 1]), delivered \o o)
                                    /\ c.done <= f[i - 1].done
      BY <1>10
    <2>4. StepTo(A, f[i - 1], s[i], f[i]) /\ a[i] = TakeToken(a[i - 1], s[i])
      BY <1>4, <1>5
    <2>5. PICK new \in Seq(ByteSeq) :
            /\ TakeToken([sdu |-> Part(A, f[i - 1]), out |-> o], s[i]) = [sdu |-> Part(A, f[i]), out |-> new]
            /\ Reassembly(A, f[i], Part(A, f[i]), delivered \o new)
            /\ f[i - 1].done <= f[i].done
      BY <1>8, <2>2, <2>3, <2>4, TakeStep
    <2>6. c.done <= f[i].done
      BY <1>3, <2>2, <2>3, <2>5 DEF Cursor
    <2>7. a[i] = [sdu |-> Part(A, f[i]), out |-> new]
      BY <2>3, <2>4, <2>5
    <2> QED
      BY <2>5, <2>6, <2>7
  <1> HIDE DEF Good
  <1>11. Good(n)
    <2> SUFFICES ASSUME ~Good(n) PROVE FALSE
      OBVIOUS
    <2> DEFINE Bad == {i \in 0 .. n : ~Good(i)}
    <2>1. Bad \in SUBSET Nat /\ n \in Bad
      BY <1>7
    <2> HIDE DEF Bad
    <2>2. PICK i \in Bad : \A y \in Bad : i <= y
      BY <2>1, LeastElement
    <2>3. i \in 0 .. n /\ ~Good(i)
      BY <2>2 DEF Bad
    <2>4. i # 0
      BY <1>9, <2>3
    <2>5. i \in 1 .. n /\ i - 1 \in 0 .. n /\ ~(i <= i - 1)
      BY <1>7, <2>3, <2>4
    <2>6. Good(i - 1)
      BY <2>2, <2>5 DEF Bad
    <2> QED
      BY <1>10, <2>3, <2>5, <2>6
  <1>12. PICK o \in Seq(ByteSeq) : /\ a[n] = [sdu |-> Part(A, f[n]), out |-> o]
                                   /\ Reassembly(A, f[n], Part(A, f[n]), delivered \o o)
                                   /\ c.done <= f[n].done
    BY <1>11 DEF Good
  <1>13. Reassembled(s).sdu = Part(A, d) /\ Reassembled(s).out = o
    BY <1>4, <1>5, <1>12
  <1> QED
    BY <1>4, <1>12, <1>13

(* seg is a part of the payload data, and the last one if it says so. *)
Piece(seg, data) ==
  \E end \in 0 .. Len(data) : /\ seg.so \in 0 .. end
                              /\ seg.data = SubSeq(data, seg.so + 1, end)
                              /\ seg.lsf <=> end = Len(data)

LEMMA PieceEnd ==
  ASSUME NEW data \in Seq(Token), NEW seg, Piece(seg, data)
  PROVE  /\ seg.so \in 0 .. Len(data) /\ SegEnd(seg) \in 0 .. Len(data) /\ seg.so <= SegEnd(seg)
         /\ seg.lsf <=> SegEnd(seg) = Len(data)
         /\ \A b \in Nat : seg.so < b /\ b <= SegEnd(seg) => seg.data[b - seg.so] = data[b]
  <1>1. Len(data) \in Nat
    BY LenProperties
  <1>2. PICK end \in 0 .. Len(data) : /\ seg.so \in 0 .. end
                                      /\ seg.data = SubSeq(data, seg.so + 1, end)
                                      /\ seg.lsf <=> end = Len(data)
    BY DEF Piece
  <1> DEFINE so == seg.so
  <1>3. so \in Nat /\ end \in Nat /\ so <= end /\ end <= Len(data) /\ seg.data = SubSeq(data, so + 1, end)
    BY <1>1, <1>2
  <1>4. \A k \in so + 1 .. end : data[k] \in Token
    <2>1. \A k \in so + 1 .. end : k \in 1 .. Len(data)
      BY <1>1, <1>3
    <2> QED
      BY <2>1, ElementOfSeq
  <1>5. /\ Len(seg.data) = IF so + 1 <= end THEN end - (so + 1) + 1 ELSE 0
        /\ \A k \in 1 .. end - (so + 1) + 1 : seg.data[k] = data[(so + 1) + k - 1]
    <2>1. so + 1 \in Int /\ end \in Int
      BY <1>3
    <2> HIDE DEF so
    <2>2. /\ Len(SubSeq(data, so + 1, end)) = IF so + 1 <= end THEN end - (so + 1) + 1 ELSE 0
          /\ \A k \in 1 .. end - (so + 1) + 1 : SubSeq(data, so + 1, end)[k] = data[(so + 1) + k - 1]
      BY <1>4, <2>1, SubSeqProperties
    <2> QED
      BY <1>3, <2>2
  <1>6. SegEnd(seg) = end
    <2> DEFINE l == Len(seg.data)
    <2>1. l = IF so + 1 <= end THEN end - (so + 1) + 1 ELSE 0
      BY <1>5
    <2>2. SegEnd(seg) = so + l
      BY DEF SegEnd
    <2> HIDE DEF l, so
    <2>3. so + l = end
      BY <1>3, <2>1
    <2> QED
      BY <2>2, <2>3
  <1>7. ASSUME NEW b \in Nat, so < b, b <= end PROVE seg.data[b - so] = data[b]
    <2>1. b - so \in 1 .. end - (so + 1) + 1 /\ (so + 1) + (b - so) - 1 = b
      BY <1>3, <1>7
    <2> QED
      BY <1>5, <2>1
  <1> QED
    BY <1>1, <1>2, <1>3, <1>6, <1>7

LEMMA JoinPieces ==
  ASSUME NEW data \in Seq(Token), NEW segs, \A seg \in segs : Piece(seg, data),
         SegmentsComplete(segs)
  PROVE  JoinSegments(segs) = data
  <1> DEFINE n == Len(data)
  <1>1. n \in Nat /\ data \in [1 .. n -> Token]
    BY LenProperties
  <1>2. \A seg \in segs :
          /\ seg.so \in 0 .. n /\ SegEnd(seg) \in 0 .. n /\ seg.so <= SegEnd(seg)
          /\ seg.lsf <=> SegEnd(seg) = n
          /\ \A b \in Nat : seg.so < b /\ b <= SegEnd(seg) => seg.data[b - seg.so] = data[b]
    BY PieceEnd
  <1>3. PICK last \in segs : last.lsf /\ Covered(segs, 0, SegEnd(last))
    BY DEF SegmentsComplete
  <1> HIDE DEF n
  <1>4. SegEnd(last) = n /\ \A s \in segs : SegEnd(s) <= n
    BY <1>1, <1>2, <1>3
  <1> DEFINE len == CHOOSE m \in {SegEnd(s) : s \in segs} : \A s \in segs : SegEnd(s) <= m
             owner(b) == CHOOSE s \in segs :
                           /\ s.so < b /\ b <= SegEnd(s)
                           /\ \A t \in segs : t.so < b /\ b <= SegEnd(t) => s.so <= t.so
  <1>5. len = n
    <2> DEFINE E == {SegEnd(s) : s \in segs}
    <2>1. n \in E /\ \A s \in segs : SegEnd(s) \in E
      BY <1>4
    <2>2. len \in E /\ \A s \in segs : SegEnd(s) <= len
      BY <1>4, <2>1
    <2>3. \A x \in E : x \in Nat /\ x <= n
      BY <1>1, <1>2, <1>4
    <2>4. n <= len
      BY <1>3, <1>4, <2>2
    <2>5. len \in Nat /\ len <= n
      BY <2>2, <2>3
    <2> HIDE DEF len, E
    <2> QED
      BY <1>1, <2>4, <2>5
  <1>6. ASSUME NEW b \in 1 .. n PROVE owner(b).data[b - owner(b).so] = data[b]
    <2> DEFINE Has(s) == s.so < b /\ b <= SegEnd(s)
               S == {s.so : s \in {t \in segs : Has(t)}}
    <2>1. PICK s0 \in segs : Has(s0)
      <3>1. b - 1 \in 0 .. n - 1
        BY <1>1
      <3>2. PICK s0 \in segs : s0.so <= b - 1 /\ b - 1 < SegEnd(s0)
        BY <1>3, <1>4, <3>1 DEF Covered
      <3>3. s0.so \in Nat /\ SegEnd(s0) \in Nat
        BY <1>1, <1>2
      <3>4. Has(s0)
        BY <1>1, <3>2, <3>3
      <3> QED
        BY <3>4
    <2>2. S \in SUBSET Nat /\ s0.so \in S
      BY <1>1, <1>2, <2>1
    <2>3. PICK m \in S : \A y \in S : m <= y
      <3> HIDE DEF S
      <3> QED
        BY <2>2, LeastElement
    <2>4. PICK s \in segs : Has(s) /\ m = s.so
      BY <2>3
    <2>5. \A t \in segs : Has(t) => s.so <= t.so
      BY <2>3, <2>4
    <2>6. owner(b) \in segs /\ Has(owner(b))
      BY <2>4, <2>5
    <2>7. b \in Nat
      BY <1>1
    <2> HIDE DEF owner
    <2> QED
      BY <1>2, <2>6, <2>7
  <1>7. JoinSegments(segs) = [b \in 1 .. len |-> owner(b).data[b - owner(b).so]]
    BY DEF JoinSegments
  <1> HIDE DEF len, owner
  <1>8. JoinSegments(segs) = [b \in 1 .. n |-> data[b]]
    BY <1>5, <1>6, <1>7
  <1> QED
    BY <1>1, <1>8

LEMMA SegmentsKept ==
  ASSUME NEW segs, NEW seg
  PROVE  PruneSegments(InsertSegment(segs, seg)) \subseteq segs \union {seg}
  BY DEF PruneSegments, InsertSegment

-----------------------------------------------------------------------------
(* The retransmission queue: what its entries say of the PDUs in the window. *)

Entry == [sn : SN, is_segment : BOOLEAN, so_start : Nat, so_end : Nat]

(* Nothing of a PDU is left to retransmit beyond its end, and something is. *)
EntryTrue(e, w) ==
  /\ e.so_end = Len(w[e.sn].data)
  /\ e.is_segment => e.so_start < e.so_end

(* y lies between x and vt_s, or below x. *)
InOrder(x, y) == Base(y, x) < Base(vt_s, x) \/ Base(y, x) > WINDOW

(* An entry that is still to be sent describes its PDU, and what is queued behind
   it is not vt_s: no new PDU gets an SN that a stale entry names.            *)
EntriesOK(q, w) ==
  /\ q \in Seq(Entry)
  /\ \A k \in 1 .. Len(q) : q[k].sn \in DOMAIN w => EntryTrue(q[k], w)
  /\ \A j, k \in 1 .. Len(q) : j <= k /\ q[j].sn \in DOMAIN w => InOrder(q[j].sn, q[k].sn)

WindowOK(w) ==
  \A sn \in DOMAIN w : /\ IsPdu(w[sn]) /\ w[sn].data \in Seq(Token)
                       /\ sn \in SN /\ Base(sn, vt_a) < Base(vt_s, vt_a)

LEMMA LiveInOrder ==
  ASSUME LinkWindowInv, NEW x \in SN, NEW y \in SN,
         Base(x, vt_a) < Base(vt_s, vt_a), Base(y, vt_a) < Base(vt_s, vt_a)
  PROVE  InOrder(x, y)
  <1> DEFINE a == Base(x, vt_a)
             b == Base(y, vt_a)
             s == Base(vt_s, vt_a)
             yx == Base(y, x)
             sx == Base(vt_s, x)
  <1>1. vt_a \in SN /\ vt_s \in SN /\ s \in 0 .. WINDOW /\ MOD = 2 * WINDOW /\ WINDOW \in Nat
    BY LinkDistances, ModType
  <1>2. a \in 0 .. MOD - 1 /\ b \in 0 .. MOD - 1 /\ yx \in 0 .. MOD - 1 /\ sx \in 0 .. MOD - 1
    BY <1>1, BaseLinear
  <1>3. b = IF a + yx < MOD THEN a + yx ELSE a + yx - MOD
    BY <1>1, BaseVia
  <1>4. s = IF a + sx < MOD THEN a + sx ELSE a + sx - MOD
    BY <1>1, BaseVia
  <1>5. a < s /\ b < s
    OBVIOUS
  <1> HIDE DEF a, b, s, yx, sx
  <1>6. yx < sx \/ yx > WINDOW
    BY <1>1, <1>2, <1>3, <1>4, <1>5
  <1> QED
    BY <1>6 DEF InOrder, yx, sx

LEMMA SameEntries ==
  ASSUME NEW q, NEW old, NEW new, WindowOK(old), EntriesOK(q, old), SameSdus(new, old)
  PROVE  WindowOK(new) /\ EntriesOK(q, new)
  BY DEF WindowOK, EntriesOK, SameSdus, EntryTrue

LEMMA EmptyEntries == \A w : EntriesOK(<<>>, w)
  BY EmptySeq DEF EntriesOK

LEMMA SuffixEntries ==
  ASSUME NEW q, NEW w, EntriesOK(q, w), NEW n \in Nat, n > 0
  PROVE  /\ EntriesOK(SubSeq(q, n, Len(q)), w)
  <1> DEFINE m == Len(q)
             t == SubSeq(q, n, m)
  <1>1. q \in Seq(Entry) /\ m \in Nat
    BY LenProperties DEF EntriesOK
  <1>2. /\ t \in Seq(Entry) /\ Len(t) = IF n <= m THEN m - n + 1 ELSE 0
        /\ \A i \in 1 .. m - n + 1 : t[i] = q[n + i - 1]
    <2>1. \A i \in n .. m : q[i] \in Entry
      <3>1. \A i \in n .. m : i \in 1 .. m
        BY <1>1
      <3> QED
        BY <1>1, <3>1, ElementOfSeq
    <2>2. n \in Int /\ m \in Int
      BY <1>1
    <2> HIDE DEF m
    <2> QED
      BY <2>1, <2>2, SubSeqProperties
  <1> HIDE DEF m, t
  <1>3. ASSUME NEW i \in 1 .. Len(t) PROVE n + i - 1 \in 1 .. m /\ t[i] = q[n + i - 1]
    BY <1>1, <1>2
  <1>4. \A j, k \in 1 .. Len(t) : j <= k => n + j - 1 <= n + k - 1
    BY <1>1, <1>2
  <1>5. EntriesOK(t, w)
    BY <1>2, <1>3, <1>4 DEF EntriesOK, m
  <1> QED
    BY <1>5 DEF t, m

LEMMA PushEntries ==
  ASSUME LinkWindowInv, NEW r, IsRetx(r), WindowOK(r.win), EntriesOK(r.q, r.win),
         NEW e \in Entry, e.sn \in DOMAIN r.win, EntryTrue(e, r.win)
  PROVE  Push(r, e).win = r.win /\ EntriesOK(Push(r, e).q, r.win)
  <1>1. CASE Len(r.q) = WINDOW - 1
    <2>1. Push(r, e) = [win |-> r.win, q |-> <<>>, ovf |-> TRUE, max |-> r.max]
      BY <1>1 DEF Push, IsRetx
    <2> QED
      BY <2>1, EmptyEntries
  <1>2. CASE Len(r.q) # WINDOW - 1
    <2> DEFINE q == r.q
               m == Len(q)
               t == Append(q, e)
    <2>1. Push(r, e) = [win |-> r.win, q |-> t, ovf |-> r.ovf, max |-> r.max]
      BY <1>2 DEF Push, IsRetx
    <2>2. q \in Seq(Entry) /\ m \in Nat
      BY LenProperties DEF EntriesOK
    <2>3. t \in Seq(Entry) /\ Len(t) = m + 1 /\ t[m + 1] = e /\ \A i \in 1 .. m : t[i] = q[i]
      BY <2>2, AppendProperties
    <2>4. \A k \in 1 .. m : q[k].sn \in DOMAIN r.win => EntryTrue(q[k], r.win)
      BY DEF EntriesOK
    <2>5. \A j, k \in 1 .. m : j <= k /\ q[j].sn \in DOMAIN r.win => InOrder(q[j].sn, q[k].sn)
      BY DEF EntriesOK
    <2>6. \A x \in DOMAIN r.win : InOrder(x, e.sn)
      BY LiveInOrder DEF WindowOK
    <2> HIDE DEF t, m, q
    <2>7. ASSUME NEW k \in 1 .. m + 1, t[k].sn \in DOMAIN r.win PROVE EntryTrue(t[k], r.win)
      <3>1. CASE k = m + 1
        BY <2>3, <3>1
      <3>2. CASE k # m + 1
        <4>1. k \in 1 .. m
          BY <2>2, <3>2
        <4> QED
          BY <2>3, <2>4, <2>7, <4>1
      <3> QED
        BY <3>1, <3>2
    <2>8. ASSUME NEW j \in 1 .. m + 1, NEW k \in 1 .. m + 1, j <= k, t[j].sn \in DOMAIN r.win
          PROVE  InOrder(t[j].sn, t[k].sn)
      <3>1. CASE k = m + 1
        BY <2>3, <2>6, <2>8, <3>1
      <3>2. CASE k # m + 1
        <4>1. k \in 1 .. m /\ j \in 1 .. m
          BY <2>2, <2>8, <3>2
        <4> QED
          BY <2>3, <2>5, <2>8, <4>1
      <3> QED
        BY <3>1, <3>2
    <2>9. EntriesOK(t, r.win)
      BY <2>3, <2>7, <2>8 DEF EntriesOK
    <2> QED
      BY <2>1, <2>9
  <1> QED
    BY <1>1, <1>2

LEMMA RetransmitEntries ==
  ASSUME LinkWindowInv, NEW r, IsRetx(r), WindowOK(r.win), EntriesOK(r.q, r.win), NEW sn
  PROVE  /\ sn \in DOMAIN r.win => EntriesOK(ScheduleRetx(r, sn).q, ScheduleRetx(r, sn).win)
         /\ EntriesOK(retransmit_pdu(r, sn).q, retransmit_pdu(r, sn).win)
  <1>1. ASSUME sn \in DOMAIN r.win
        PROVE  EntriesOK(ScheduleRetx(r, sn).q, ScheduleRetx(r, sn).win)
    <2> DEFINE c == CountRetx(r, sn)
               e == [sn |-> sn, is_segment |-> FALSE, so_start |-> 0, so_end |-> Len(r.win[sn].data)]
    <2>1. IsRetx(c) /\ SameSdus(c.win, r.win)
      BY CountRetxKeeps, CountRetxSdus
    <2>2. c.q = r.q
      BY DEF CountRetx, IsRetx
    <2>3. WindowOK(c.win) /\ EntriesOK(c.q, c.win)
      BY <2>1, <2>2, SameEntries
    <2>4. /\ e.sn \in DOMAIN c.win /\ e.sn = sn /\ e.so_end = Len(c.win[sn].data) /\ ~e.is_segment
          /\ c.win[sn].data \in Seq(Token) /\ sn \in SN
      BY <1>1, <2>1, <2>3 DEF SameSdus, WindowOK
    <2>5. e \in Entry
      <3>1. Len(c.win[sn].data) \in Nat
        BY <2>4, LenProperties
      <3> QED
        BY <2>4, <3>1 DEF Entry
    <2>6. ScheduleRetx(r, sn) = Push(c, e)
      BY DEF ScheduleRetx
    <2>7. EntryTrue(e, c.win)
      BY <2>4 DEF EntryTrue
    <2> HIDE DEF c, e
    <2> QED
      BY <2>1, <2>3, <2>4, <2>5, <2>6, <2>7, PushEntries
  <1> QED
    BY <1>1 DEF retransmit_pdu

LEMMA DropEntries ==
  ASSUME LinkWindowInv, NEW r, IsRetx(r), WindowOK(r.win), EntriesOK(r.q, r.win)
  PROVE  EntriesOK(DropAcknowledged(r).q, DropAcknowledged(r).win)
  <1> DEFINE keep == {k \in 1 .. Len(r.q) : r.q[k].sn \in DOMAIN r.win}
             first == CHOOSE k \in keep : \A j \in keep : k <= j
  <1>1. CASE keep = {}
    <2> DEFINE e == [win |-> r.win, q |-> <<>>, ovf |-> r.ovf, max |-> r.max]
    <2>1. DropAcknowledged(r) = retransmit_pdu([r EXCEPT !.q = <<>>], vt_a)
      BY <1>1 DEF DropAcknowledged
    <2>2. [r EXCEPT !.q = <<>>] = e
      BY DEF IsRetx
    <2>3. IsRetx(e) /\ e.q = <<>> /\ e.win = r.win
      BY EmptyIsSeq, ModType DEF IsRetx
    <2> HIDE DEF e
    <2> QED
      BY <2>1, <2>2, <2>3, EmptyEntries, RetransmitEntries
  <1>2. CASE keep # {}
    <2>1. Len(r.q) \in Nat
      BY LenProperties DEF EntriesOK
    <2>2. first \in keep
      <3>1. keep \in SUBSET Nat
        BY <2>1
      <3>2. PICK k0 \in keep : TRUE
        BY <1>2
      <3> HIDE DEF keep
      <3>3. \E k \in keep : \A j \in keep : k <= j
        BY <3>1, <3>2, LeastElement
      <3> QED
        BY <3>3
    <2>3. DropAcknowledged(r) = [r EXCEPT !.q = SubSeq(@, first, Len(@))]
      BY <1>2 DEF DropAcknowledged
    <2> HIDE DEF first
    <2>4. first \in Nat /\ first > 0
      BY <2>1, <2>2
    <2>5. DropAcknowledged(r).q = SubSeq(r.q, first, Len(r.q)) /\ DropAcknowledged(r).win = r.win
      BY <2>3 DEF IsRetx
    <2> QED
      BY <2>4, <2>5, SuffixEntries
  <1> QED
    BY <1>1, <1>2

LEMMA ReadyEntries ==
  ASSUME LinkWindowInv, WindowOK(tx_window), EntriesOK(retx_queue, tx_window)
  PROVE  WindowOK(Ready.win) /\ EntriesOK(Ready.q, Ready.win)
  <1>1. QueueOK
    BY DEF LinkWindowInv
  <1>2. /\ IsRetx(RetxState) /\ RetxState.win = tx_window /\ RetxState.q = retx_queue
    BY <1>1, RetxStateOK
  <1>3. IsRetx(Scheduled) /\ WindowOK(Scheduled.win) /\ EntriesOK(Scheduled.q, Scheduled.win)
    <2>1. IsRetx(Scheduled) /\ SameSdus(Scheduled.win, tx_window)
      BY <1>2, RetransmitKeeps, RetransmitSdus, SameSdusSelf DEF Scheduled
    <2>2. EntriesOK(Scheduled.q, Scheduled.win)
      BY <1>2, RetransmitEntries DEF Scheduled
    <2> QED
      BY <2>1, <2>2, SameEntries
  <1>4. EntriesOK(Ready.q, Ready.win)
    BY <1>3, DropEntries DEF Ready
  <1>5. SameSdus(Ready.win, tx_window)
    BY <1>1, ReadySdus
  <1> QED
    BY <1>4, <1>5, SameEntries

-----------------------------------------------------------------------------
(* The stream of bytes, from the SDUs that were accepted to those delivered. *)

(* The SNs that the receiver has not passed and the transmitter has used *)
Ahead(sn) == Base(sn, vr_r) < Base(vt_s, vr_r)

(* The payload of the PDU with such an SN *)
Data(sn) == IF sn \in DOMAIN rx_window THEN rx_window[sn] ELSE tx_window[sn].data

Carries(pdu, data) == IF pdu.rf THEN Piece(pdu, data) ELSE pdu.data = data

AcceptedOK ==
  /\ accepted \in Seq(1 .. NofSdus)
  /\ \A j, k \in 1 .. Len(accepted) : j < k => accepted[j] < accepted[k]
  /\ \A j \in 1 .. Len(accepted) : accepted[j] <= offered

WindowsSame ==
  \A sn \in DOMAIN tx_window : sn \in DOMAIN rx_window => tx_window[sn].data = rx_window[sn]

PdusTrue ==
  \A k \in 1 .. Len(dataCh) :
    Ahead(dataCh[k].pdu.sn) => Carries(dataCh[k].pdu, Data(dataCh[k].pdu.sn))

SegmentsTrue ==
  \A sn \in DOMAIN rx_segments : \A seg \in rx_segments[sn] : Ahead(sn) /\ Piece(seg, Data(sn))

(* The queue holds the SDUs that were accepted after the first u, in order. *)
QueueIs(u) ==
  /\ {tx_sdu_queue[k] : k \in 1 .. Len(tx_sdu_queue)} \ {Null}
       = {accepted[x] : x \in u + 1 .. Len(accepted)}
  /\ \A j, k \in 1 .. Len(tx_sdu_queue) :
       j < k /\ tx_sdu_queue[j] # Null /\ tx_sdu_queue[k] # Null => tx_sdu_queue[j] < tx_sdu_queue[k]

AtRx(c) == Reach(c) <= Len(accepted) /\ Reassembly(accepted, c, rx_sdu, delivered)

AtTx(c) ==
  \E u \in 0 .. Len(accepted) :
    /\ Span(accepted, tx_sdu, c, At(u))
    /\ \A k \in 1 .. Len(tx_sdu) : u > 0 /\ tx_sdu[k].b[1] = accepted[u]
    /\ QueueIs(u)

(* c[sn] is where in the accepted SDUs the payload of sn begins: the receiver has
   delivered what comes before c[vr_r], the PDUs ahead carry what follows, one
   after the other, and the transmitter holds what comes after c[vt_s].       *)
StreamAt(c) ==
  /\ AtRx(c[vr_r]) /\ AtTx(c[vt_s])
  /\ \A sn \in SN : Ahead(sn) => Span(accepted, Data(sn), c[sn], c[Add(sn, 1)])
  /\ \A sn \in SN : Base(sn, vr_r) <= Base(vt_s, vr_r) => Reach(c[sn]) <= Reach(c[vt_s])

Stream == \E c \in [SN -> Cursor] : StreamAt(c)

StreamInv ==
  /\ AcceptedOK
  /\ \A sn \in DOMAIN tx_window : tx_window[sn].data \in Seq(Token)
  /\ EntriesOK(retx_queue, tx_window)
  /\ WindowsSame
  /\ PdusTrue
  /\ SegmentsTrue
  /\ Stream

LEMMA AheadFrom ==
  ASSUME LinkWindowInv, NEW sn \in SN
  PROVE  Ahead(sn) <=> (/\ Base(vr_r, vt_a) <= Base(sn, vt_a)
                        /\ Base(sn, vt_a) < Base(vt_s, vt_a))
  <1> DEFINE r == Base(vr_r, vt_a)
             x == Base(sn, vt_a)
             s == Base(vt_s, vt_a)
             xr == Base(sn, vr_r)
             sr == Base(vt_s, vr_r)
  <1>1. /\ r \in 0 .. WINDOW /\ s \in 0 .. WINDOW /\ r <= s /\ x \in 0 .. MOD - 1
        /\ vr_r \in SN /\ vt_a \in SN /\ vt_s \in SN
    BY LinkDistances
  <1>2. xr = IF r <= x THEN x - r ELSE x - r + MOD
    BY FromVrR
  <1>3. sr = IF r <= s THEN s - r ELSE s - r + MOD
    BY <1>1, FromVrR
  <1>4. MOD = 2 * WINDOW /\ WINDOW \in Nat
    BY ModType
  <1> HIDE DEF r, x, s, xr, sr
  <1>5. xr < sr <=> (r <= x /\ x < s)
    BY <1>1, <1>2, <1>3, <1>4
  <1> QED
    BY <1>5 DEF Ahead, r, x, s, xr, sr

LEMMA AheadKept ==
  ASSUME LinkWindowInv, NEW sn \in SN, Ahead(sn)
  PROVE  sn \in DOMAIN rx_window \/ sn \in DOMAIN tx_window
  <1>1. Base(vr_r, vt_a) <= Base(sn, vt_a) /\ Base(sn, vt_a) < Base(vt_s, vt_a)
    BY AheadFrom
  <1> QED
    BY <1>1 DEF LinkWindowInv, MissingIsKept, TX_MOD_BASE

LEMMA TxWindowOK ==
  ASSUME TxInv, StreamInv
  PROVE  WindowOK(tx_window) /\ EntriesOK(retx_queue, tx_window)
  <1>1. /\ \A sn \in DOMAIN tx_window : sn \in SN /\ Base(sn, vt_a) < Base(vt_s, vt_a)
        /\ \A sn \in DOMAIN tx_window : IsPdu(tx_window[sn])
    BY LinkDistances DEF TxInv, ListsInv
  <1> QED
    BY <1>1 DEF WindowOK, StreamInv

LEMMA FewerEntries ==
  ASSUME NEW q, NEW old, NEW new, EntriesOK(q, old), DOMAIN new \subseteq DOMAIN old,
         \A sn \in DOMAIN new : new[sn].data = old[sn].data
  PROVE  EntriesOK(q, new)
  BY DEF EntriesOK, EntryTrue

(* A step that leaves the SDUs and the receiver alone. *)
LEMMA SameStream ==
  ASSUME TxInv, TxInv', StreamInv,
         UNCHANGED <<sduVars, vr_r, vt_s, rx_window, rx_segments, rx_sdu, delivered>>,
         EntriesOK(retx_queue', tx_window'),
         \A sn \in DOMAIN tx_window' :
           sn \in DOMAIN tx_window /\ tx_window'[sn].data = tx_window[sn].data,
         \A sn \in DOMAIN tx_window : sn \in DOMAIN tx_window' \/ sn \in DOMAIN rx_window \/ ~Ahead(sn),
         \A k \in 1 .. Len(dataCh') :
           \/ \E j \in 1 .. Len(dataCh) : dataCh'[k] = dataCh[j]
           \/ LET pdu == dataCh'[k].pdu
              IN  pdu.sn \in SN /\ (Ahead(pdu.sn) => Carries(pdu, Data(pdu.sn)))
  PROVE  StreamInv'
  <1>1. LinkWindowInv
    BY DEF TxInv
  <1>2. \A sn : Ahead(sn)' <=> Ahead(sn)
    BY DEF Ahead
  <1>3. ASSUME NEW sn \in SN, Ahead(sn) PROVE Data(sn)' = Data(sn)
    BY <1>1, <1>3, AheadKept DEF Data
  <1>4. AcceptedOK'
    BY DEF AcceptedOK, sduVars, StreamInv
  <1>5. \A sn \in DOMAIN tx_window' : tx_window'[sn].data \in Seq(Token)
    BY DEF StreamInv
  <1>6. EntriesOK(retx_queue, tx_window)'
    BY DEF EntriesOK, InOrder, EntryTrue
  <1>7. WindowsSame'
    BY DEF WindowsSame, StreamInv
  <1>8. PdusTrue'
    <2>1. ASSUME NEW k \in 1 .. Len(dataCh'), Ahead(dataCh'[k].pdu.sn)
          PROVE  Carries(dataCh'[k].pdu, Data(dataCh'[k].pdu.sn)) /\ dataCh'[k].pdu.sn \in SN
      <3>1. CASE \E j \in 1 .. Len(dataCh) : dataCh'[k] = dataCh[j]
        BY <1>1, <2>1, <3>1 DEF PdusTrue, StreamInv, LinkWindowInv, DataInFlight, DataOK
      <3> QED
        BY <2>1, <3>1
    <2>2. ASSUME NEW k \in 1 .. Len(dataCh'), NEW y, y = dataCh'[k].pdu.sn,
                 Base(y, vr_r') < Base(vt_s', vr_r')
          PROVE  Carries(dataCh'[k].pdu, IF y \in DOMAIN rx_window' THEN rx_window'[y]
                                         ELSE tx_window'[y].data)
      <3>1. Ahead(y)
        BY <2>2 DEF Ahead
      <3>2. Carries(dataCh'[k].pdu, Data(y)) /\ y \in SN
        BY <2>1, <2>2, <3>1
      <3>3. Data(y)' = Data(y)
        BY <1>3, <3>1, <3>2
      <3> QED
        BY <3>2, <3>3 DEF Data
    <2> QED
      BY <2>2 DEF PdusTrue, Ahead, Data
  <1>9. SegmentsTrue'
    <2>1. DOMAIN rx_segments \subseteq SN
      BY <1>1 DEF LinkWindowInv, RxPayloadTypeOK
    <2> QED
      BY <1>2, <1>3, <2>1 DEF SegmentsTrue, StreamInv
  <1>10. Stream'
    <2>1. PICK c \in [SN -> Cursor] : StreamAt(c)
      BY DEF StreamInv, Stream
    <2>2. StreamAt(c)'
      <3>1. AtRx(c[vr_r])' /\ AtTx(c[vt_s])'
        <4>1. AtRx(c[vr_r]) /\ AtTx(c[vt_s])
          BY <2>1 DEF StreamAt
        <4>2. AtRx(c[vr_r])'
          BY <4>1 DEF AtRx, sduVars
        <4>3. AtTx(c[vt_s])'
          <5>1. PICK u \in 0 .. Len(accepted) :
                  /\ Span(accepted, tx_sdu, c[vt_s], At(u))
                  /\ \A k \in 1 .. Len(tx_sdu) : u > 0 /\ tx_sdu[k].b[1] = accepted[u]
                  /\ QueueIs(u)
            BY <4>1 DEF AtTx
          <5>2. QueueIs(u)'
            BY <5>1 DEF QueueIs, sduVars
          <5>3. UNCHANGED <<accepted, tx_sdu>> /\ c[vt_s'] = c[vt_s]
            BY DEF sduVars
          <5> QED
            BY <5>1, <5>2, <5>3 DEF AtTx
        <4> QED
          BY <4>2, <4>3
      <3>2. \A sn \in SN : Ahead(sn)' => Span(accepted', Data(sn)', c[sn], c[Add(sn, 1)])
        BY <1>2, <1>3, <2>1 DEF StreamAt, sduVars
      <3>3. \A sn \in SN : Base(sn, vr_r') <= Base(vt_s', vr_r') => Reach(c[sn]) <= Reach(c[vt_s'])
        BY <2>1 DEF StreamAt
      <3> QED
        BY <3>1, <3>2, <3>3 DEF StreamAt
    <2> QED
      BY <2>2 DEF Stream
  <1> QED
    BY <1>4, <1>5, <1>6, <1>7, <1>8, <1>9, <1>10 DEF StreamInv

(* A step that sends nothing and changes the payload of no PDU *)
LEMMA QuietStream ==
  ASSUME TxInv, TxInv', StreamInv,
         UNCHANGED <<sduVars, vr_r, vt_s, rx_window, rx_segments, rx_sdu, delivered>>,
         EntriesOK(retx_queue', tx_window'), SameSdus(tx_window', tx_window),
         \A k \in 1 .. Len(dataCh') : \E j \in 1 .. Len(dataCh) : dataCh'[k] = dataCh[j]
  PROVE  StreamInv'
  <1>1. /\ \A sn \in DOMAIN tx_window' :
             sn \in DOMAIN tx_window /\ tx_window'[sn].data = tx_window[sn].data
        /\ DOMAIN tx_window' = DOMAIN tx_window
    BY DEF SameSdus, TxInv, ListsInv
  <1> QED
    BY <1>1, SameStream

(* The stack thread *)
LEMMA StackStream ==
  ASSUME TxInv, TxInv', StreamInv, UNCHANGED rxVars,
         timer_expired \/ NackSn \/ StatusDone \/ poll_retx_expires
  PROVE  StreamInv'
  <1>1. /\ UNCHANGED <<sduVars, vr_r, vt_s, rx_window, rx_segments, rx_sdu, delivered, dataCh>>
        /\ LinkWindowInv /\ QueueOK
    BY DEF timer_expired, NackSn, StatusDone, poll_retx_expires, rxVars, windowVars, payloadVars,
           TxInv, LinkWindowInv
  <1>2. /\ IsRetx(RetxState) /\ RetxState.win = tx_window /\ RetxState.q = retx_queue
        /\ WindowOK(tx_window) /\ EntriesOK(retx_queue, tx_window)
    BY <1>1, RetxStateOK, TxWindowOK
  <1>3. ASSUME NEW r, SetRetx(r), EntriesOK(r.q, r.win), SameSdus(r.win, tx_window) PROVE StreamInv'
    <2>1. EntriesOK(retx_queue', tx_window') /\ SameSdus(tx_window', tx_window)
      BY <1>3 DEF SetRetx
    <2> QED
      BY <1>1, <2>1, QuietStream
  <1>4. EntriesOK(RetxState.q, RetxState.win) /\ SameSdus(RetxState.win, tx_window)
    BY <1>2, SameSdusSelf
  <1>5. /\ EntriesOK(retransmit_pdu(RetxState, vt_a).q, retransmit_pdu(RetxState, vt_a).win)
        /\ SameSdus(retransmit_pdu(RetxState, vt_a).win, tx_window)
    BY <1>1, <1>2, RetransmitEntries, RetransmitSdus
  <1>6. CASE timer_expired
    <2>1. SetRetx(RetxState) \/ SetRetx(retransmit_pdu(RetxState, vt_a))
      BY <1>6 DEF timer_expired
    <2> QED
      BY <1>3, <1>4, <1>5, <2>1
  <1>7. CASE NackSn
    <2>1. \/ SetRetx(RetxState)
          \/ stack.i \in DOMAIN tx_window /\ SetRetx(ScheduleRetx(RetxState, stack.i))
      BY <1>7 DEF NackSn
    <2>2. ASSUME stack.i \in DOMAIN tx_window
          PROVE  /\ EntriesOK(ScheduleRetx(RetxState, stack.i).q, ScheduleRetx(RetxState, stack.i).win)
                 /\ SameSdus(ScheduleRetx(RetxState, stack.i).win, tx_window)
      BY <1>1, <1>2, <2>2, RetransmitEntries, RetransmitSdus
    <2> QED
      BY <1>3, <1>4, <2>1, <2>2
  <1>8. CASE StatusDone \/ poll_retx_expires
    <2>1. UNCHANGED <<tx_window, retx_queue>>
      BY <1>8 DEF StatusDone, poll_retx_expires, retxVars
    <2>2. EntriesOK(retx_queue', tx_window') /\ SameSdus(tx_window', tx_window)
      BY <1>2, <2>1, SameSdusSelf
    <2> QED
      BY <1>1, <2>2, QuietStream
  <1> QED
    BY <1>6, <1>7, <1>8

(* What an acknowledgement takes out of the window the peer has. *)
LEMMA AckStream ==
  ASSUME TxInv, TxInv', StreamInv, UNCHANGED rxVars, AckSn
  PROVE  StreamInv'
  <1>1. /\ UNCHANGED <<sduVars, vr_r, vt_s, rx_window, rx_segments, rx_sdu, delivered, dataCh, retx_queue>>
        /\ tx_window' = [s \in DOMAIN tx_window \ {stack.i} |-> tx_window[s]]
        /\ StatusLoops /\ stack.i \notin stack.nacks
    BY DEF AckSn, rxVars, windowVars, payloadVars
  <1>2. /\ stack \in StatusSection
        /\ \A sn \in SN : TX_MOD_BASE(stack.i) <= TX_MOD_BASE(sn) /\ Acks(stack, sn) => Received(sn)
    BY <1>1 DEF StatusLoops, TxInv, LinkWindowInv, StatusInWork
  <1>3. stack.i \in SN /\ TX_MOD_BASE(stack.i) \in Int
    BY <1>2, LinkDistances DEF StatusSection, TX_MOD_BASE, TxInv
  <1>4. Received(stack.i)
    BY <1>1, <1>2, <1>3 DEF Acks, StatusLoops
  <1>5. stack.i \in DOMAIN rx_window \/ ~Ahead(stack.i)
    <2>1. LinkWindowInv
      BY DEF TxInv
    <2>2. Base(vr_r, vt_a) \in Int /\ Base(stack.i, vt_a) \in Int
      BY <1>3, <2>1, LinkDistances
    <2> QED
      BY <1>3, <1>4, <2>1, <2>2, AheadFrom DEF Received, TX_MOD_BASE
  <1>6. EntriesOK(retx_queue', tx_window')
    BY <1>1, FewerEntries DEF StreamInv
  <1>7. /\ \A sn \in DOMAIN tx_window' :
             sn \in DOMAIN tx_window /\ tx_window'[sn].data = tx_window[sn].data
        /\ \A sn \in DOMAIN tx_window : sn \in DOMAIN tx_window' \/ sn \in DOMAIN rx_window \/ ~Ahead(sn)
    BY <1>1, <1>5
  <1> QED
    BY <1>1, <1>6, <1>7, SameStream

LEMMA StatusStream ==
  ASSUME TxInv, TxInv', StreamInv, DeliverStatus
  PROVE  StreamInv'
  <1>1. /\ UNCHANGED <<sduVars, vr_r, vt_s, rx_window, rx_segments, rx_sdu, delivered, dataCh, tx_window>>
        /\ retx_queue' = <<>> \/ retx_queue' = retx_queue
    BY DEF DeliverStatus, handle_control_pdu, windowVars, payloadVars
  <1>2. EntriesOK(retx_queue', tx_window') /\ SameSdus(tx_window', tx_window)
    BY <1>1, EmptyEntries, SameSdusSelf DEF StreamInv
  <1> QED
    BY <1>1, <1>2, QuietStream

(* MAC loses a PDU, and what the receiver does without one *)
LEMMA OtherStream ==
  ASSUME TxInv, TxInv', StreamInv,
         UNCHANGED <<sduVars, vr_r, vt_s, rx_window, payloadVars, tx_window, retx_queue>>,
         dataCh' = dataCh \/ \E k \in 1 .. Len(dataCh) : dataCh' = RemoveAt(dataCh, k)
  PROVE  StreamInv'
  <1>1. \A k \in 1 .. Len(dataCh') : \E j \in 1 .. Len(dataCh) : dataCh'[k] = dataCh[j]
    <2>1. CASE dataCh' = dataCh
      BY <2>1
    <2>2. ASSUME NEW k \in 1 .. Len(dataCh), dataCh' = RemoveAt(dataCh, k)
          PROVE  \A i \in 1 .. Len(dataCh') : \E j \in 1 .. Len(dataCh) : dataCh'[i] = dataCh[j]
      <3>1. dataCh \in Seq(Range(dataCh)) /\ Len(dataCh) \in Nat
        BY LenProperties DEF TxInv, LinkWindowInv, IsSeq
      <3>2. /\ Len(dataCh') = Len(dataCh) - 1
            /\ \A j \in 1 .. Len(dataCh) - 1 : dataCh'[j] = IF j < k THEN dataCh[j] ELSE dataCh[j + 1]
        BY <2>2, <3>1, RemoveAtSeq
      <3> QED
        BY <3>1, <3>2
    <2> QED
      BY <2>1, <2>2
  <1>2. EntriesOK(retx_queue', tx_window') /\ SameSdus(tx_window', tx_window)
    BY SameSdusSelf DEF StreamInv
  <1>3. UNCHANGED <<rx_segments, rx_sdu, delivered>>
    BY DEF payloadVars
  <1> QED
    BY <1>1, <1>2, <1>3, QuietStream

(* A retransmission carries the payload of its SN, or a piece of it. *)
LEMMA SendStream ==
  ASSUME TxInv, TxInv', StreamInv, UNCHANGED <<sduVars, vt_s, rxVars>>,
         EntriesOK(retx_queue', tx_window'), SameSdus(tx_window', tx_window),
         NEW d, dataCh' = Append(dataCh, d), d.pdu.sn \in DOMAIN tx_window,
         Carries(d.pdu, tx_window[d.pdu.sn].data)
  PROVE  StreamInv'
  <1>1. /\ UNCHANGED <<sduVars, vr_r, vt_s, rx_window, rx_segments, rx_sdu, delivered>>
        /\ \A sn \in DOMAIN tx_window' :
             sn \in DOMAIN tx_window /\ tx_window'[sn].data = tx_window[sn].data
        /\ DOMAIN tx_window' = DOMAIN tx_window
    BY DEF SameSdus, TxInv, ListsInv, rxVars, windowVars, payloadVars
  <1>2. d.pdu.sn \in SN /\ Data(d.pdu.sn) = tx_window[d.pdu.sn].data
    BY DEF TxInv, LinkWindowInv, StreamInv, WindowsSame, Data
  <1>3. /\ Len(dataCh) \in Nat /\ Len(dataCh') = Len(dataCh) + 1
        /\ \A j \in 1 .. Len(dataCh) + 1 : dataCh'[j] = IF j <= Len(dataCh) THEN dataCh[j] ELSE d
    <2>1. IsSeq(dataCh)
      BY DEF TxInv, LinkWindowInv
    <2> QED
      BY <2>1, AppendKeeps
  <1>4. ASSUME NEW k \in 1 .. Len(dataCh')
        PROVE  \/ \E j \in 1 .. Len(dataCh) : dataCh'[k] = dataCh[j]
               \/ dataCh'[k] = d
    BY <1>3
  <1>5. ASSUME NEW k \in 1 .. Len(dataCh')
        PROVE  \/ \E j \in 1 .. Len(dataCh) : dataCh'[k] = dataCh[j]
               \/ LET pdu == dataCh'[k].pdu
                  IN  pdu.sn \in SN /\ (Ahead(pdu.sn) => Carries(pdu, Data(pdu.sn)))
    BY <1>2, <1>4
  <1> QED
    BY <1>1, <1>5, SameStream

LEMMA ReadyHead ==
  ASSUME TxInv, StreamInv, Ready.q # <<>>
  PROVE  /\ IsRetx(Ready) /\ WindowOK(Ready.win) /\ EntriesOK(Ready.q, Ready.win)
         /\ SameSdus(Ready.win, tx_window)
         /\ Ready.q \in Seq(Entry) /\ Len(Ready.q) \in Nat \ {0}
         /\ Head(Ready.q) = Ready.q[1] /\ Head(Ready.q) \in Entry
         /\ Head(Ready.q).sn \in DOMAIN tx_window
         /\ Ready.win[Head(Ready.q).sn].data = tx_window[Head(Ready.q).sn].data
         /\ Ready.win[Head(Ready.q).sn].data \in Seq(Token)
         /\ EntryTrue(Head(Ready.q), Ready.win)
         /\ EntriesOK(Tail(Ready.q), Ready.win)
  <1>1. LinkWindowInv /\ QueueOK
    BY DEF TxInv, LinkWindowInv
  <1>2. IsRetx(Ready) /\ DOMAIN Ready.win = DOMAIN tx_window /\ Head(Ready.q).sn \in DOMAIN Ready.win
    BY <1>1, ReadyOK DEF HeadIsHeld
  <1>3. WindowOK(Ready.win) /\ EntriesOK(Ready.q, Ready.win) /\ SameSdus(Ready.win, tx_window)
    BY <1>1, TxWindowOK, ReadyEntries, ReadySdus
  <1>4. Ready.q \in Seq(Entry) /\ Len(Ready.q) \in Nat \ {0}
    <2>1. Ready.q \in Seq(Entry)
      BY <1>3 DEF EntriesOK
    <2> QED
      BY <2>1, EmptySeq, LenProperties
  <1>5. Head(Ready.q) = Ready.q[1] /\ 1 \in 1 .. Len(Ready.q)
    BY <1>4
  <1>6. EntriesOK(Tail(Ready.q), Ready.win)
    <2>1. Tail(Ready.q) = SubSeq(Ready.q, 2, Len(Ready.q))
      BY <1>4, TailIsSubSeq
    <2>2. 2 \in Nat /\ 2 > 0
      OBVIOUS
    <2>3. EntriesOK(SubSeq(Ready.q, 2, Len(Ready.q)), Ready.win)
      BY <1>3, <2>2, SuffixEntries
    <2> QED
      BY <2>1, <2>3
  <1>7. /\ Ready.win[Head(Ready.q).sn].data = tx_window[Head(Ready.q).sn].data
        /\ Ready.win[Head(Ready.q).sn].data \in Seq(Token)
    BY <1>2, <1>3 DEF SameSdus, WindowOK, TxInv, ListsInv
  <1>8. EntryTrue(Head(Ready.q), Ready.win)
    BY <1>2, <1>3, <1>5 DEF EntriesOK
  <1>9. Head(Ready.q) \in Entry
    BY <1>4, HeadTailProperties
  <1> QED
    BY <1>2, <1>3, <1>4, <1>5, <1>6, <1>7, <1>8, <1>9

LEMMA RetxWholeStream ==
  ASSUME TxInv, TxInv', StreamInv, UNCHANGED rxVars, Ready.q # <<>>, RetxWhole(Ready)
  PROVE  StreamInv'
  <1> DEFINE head == Head(Ready.q)
             data == Ready.win[head.sn].data
  <1>1. PICK p : /\ SetRetx([Ready EXCEPT !.q = Tail(@)])
                 /\ Send(AmdPdu(head.sn, p, data), TRUE)
                 /\ UNCHANGED <<sduVars, vt_s>>
    BY DEF RetxWhole
  <1> DEFINE d == [pdu |-> AmdPdu(head.sn, p, data), vt_a |-> vt_a, retx |-> TRUE]
  <1>2. [Ready EXCEPT !.q = Tail(@)]
          = [win |-> Ready.win, q |-> Tail(Ready.q), ovf |-> Ready.ovf, max |-> Ready.max]
    <2>1. IsRetx(Ready)
      BY ReadyHead
    <2> QED
      BY <2>1 DEF IsRetx
  <1>3. tx_window' = Ready.win /\ retx_queue' = Tail(Ready.q)
    BY <1>1, <1>2 DEF SetRetx
  <1>4. EntriesOK(retx_queue', tx_window') /\ SameSdus(tx_window', tx_window)
    BY <1>3, ReadyHead
  <1>5. d.pdu.sn = head.sn /\ d.pdu.data = data /\ d.pdu.rf = FALSE
    BY DEF AmdPdu
  <1>6. dataCh' = Append(dataCh, d)
    BY <1>1 DEF Send
  <1>7. d.pdu.sn \in DOMAIN tx_window /\ Carries(d.pdu, tx_window[d.pdu.sn].data)
    BY <1>5, ReadyHead DEF Carries
  <1> HIDE DEF d
  <1> QED
    BY <1>1, <1>4, <1>6, <1>7, SendStream

LEMMA RetxSegmentStream ==
  ASSUME TxInv, TxInv', StreamInv, UNCHANGED rxVars, Ready.q # <<>>, NEW s \in Nat,
         RetxSegment(Ready, s)
  PROVE  StreamInv'
  <1> DEFINE head == Head(Ready.q)
             data == Ready.win[head.sn].data
             n == Len(data)
             start == IF head.is_segment THEN head.so_start ELSE 0
             limit == IF head.is_segment THEN head.so_end ELSE n
             end == IF s < limit - start THEN start + s ELSE limit
             last == end = n
             first == [Ready.q[1] EXCEPT !.is_segment = TRUE, !.so_start = end]
             cut == [Ready.q EXCEPT ![1].is_segment = TRUE, ![1].so_start = end]
             q == IF last \/ head.so_end = end THEN Tail(Ready.q) ELSE cut
             pdu(p) == [rf |-> TRUE, sn |-> head.sn, p |-> p, so |-> start,
                        data |-> SubSeq(data, start + 1, end), lsf |-> last]
  <1>1. PICK p : /\ SetRetx([Ready EXCEPT !.q = q])
                 /\ Send(pdu(p), TRUE)
                 /\ UNCHANGED <<sduVars, vt_s>>
    BY DEF RetxSegment
  <1> DEFINE d == [pdu |-> pdu(p), vt_a |-> vt_a, retx |-> TRUE]
  <1>2. /\ head \in Entry /\ head = Ready.q[1] /\ head.sn \in DOMAIN tx_window
        /\ data \in Seq(Token) /\ data = tx_window[head.sn].data /\ n \in Nat
        /\ head.so_end = n /\ (head.is_segment => head.so_start < n)
    <2>1. data \in Seq(Token) /\ EntryTrue(head, Ready.win)
      BY ReadyHead
    <2>2. n \in Nat
      BY <2>1, LenProperties
    <2> QED
      BY <2>1, <2>2, ReadyHead DEF EntryTrue
  <1>3. start \in 0 .. n /\ limit = n /\ end \in start .. n
    <2>1. head.so_start \in Nat
      BY <1>2 DEF Entry
    <2>2. start \in 0 .. n /\ limit = n
      BY <1>2, <2>1
    <2> HIDE DEF start, limit, n
    <2> QED
      BY <1>2, <2>2
  <1>4. tx_window' = Ready.win /\ retx_queue' = q
    <2> HIDE DEF q
    <2>1. [Ready EXCEPT !.q = q] = [win |-> Ready.win, q |-> q, ovf |-> Ready.ovf, max |-> Ready.max]
      BY ReadyHead DEF IsRetx
    <2> QED
      BY <1>1, <2>1 DEF SetRetx
  <1>5. SameSdus(tx_window', tx_window)
    BY <1>4, ReadyHead
  <1>6. EntriesOK(q, Ready.win)
    <2>1. CASE last \/ head.so_end = end
      BY <2>1, ReadyHead
    <2>2. CASE ~(last \/ head.so_end = end)
      <3>1. cut = [Ready.q EXCEPT ![1] = first]
        BY Zenon
      <3>2. /\ first \in Entry /\ first.sn = head.sn /\ first.so_end = n
            /\ first.is_segment = TRUE /\ first.so_start = end
        <4>1. end \in Nat
          BY <1>2, <1>3
        <4>2. /\ Ready.q[1] \in Entry /\ Ready.q[1].sn = head.sn /\ Ready.q[1].so_end = n
          BY <1>2
        <4> HIDE DEF end, n, head
        <4> QED
          BY <4>1, <4>2 DEF Entry
      <3>3. EntryTrue(first, Ready.win)
        <4>1. end < n
          BY <1>2, <1>3, <2>2
        <4> HIDE DEF first, end
        <4> QED
          BY <3>2, <4>1 DEF EntryTrue
      <3>4. /\ cut \in Seq(Entry) /\ Len(cut) = Len(Ready.q)
            /\ \A j \in 1 .. Len(Ready.q) : cut[j] = IF j = 1 THEN first ELSE Ready.q[j]
        <4>1. Ready.q \in Seq(Entry) /\ 1 \in 1 .. Len(Ready.q)
          BY ReadyHead
        <4> HIDE DEF cut, first
        <4> QED
          BY <3>1, <3>2, <4>1, ExceptSeq
      <3>5. \A j \in 1 .. Len(Ready.q) : cut[j].sn = Ready.q[j].sn
        <4> HIDE DEF cut, first
        <4> QED
          BY <1>2, <3>2, <3>4
      <3>6. EntriesOK(Ready.q, Ready.win)
        BY ReadyHead
      <3> HIDE DEF cut, first
      <3>7. EntriesOK(cut, Ready.win)
        BY <3>2, <3>3, <3>4, <3>5, <3>6 DEF EntriesOK
      <3> QED
        BY <2>2, <3>7
    <2> QED
      BY <2>1, <2>2
  <1>7. dataCh' = Append(dataCh, d) /\ d.pdu = pdu(p)
    BY <1>1 DEF Send
  <1>8. Piece(pdu(p), data)
    <2> HIDE DEF start, end
    <2>1. start \in 0 .. end /\ end \in 0 .. n
      BY <1>2, <1>3
    <2> QED
      BY <2>1 DEF Piece
  <1>9. pdu(p).rf /\ pdu(p).sn = head.sn
    <2> HIDE DEF head, data, start, end, last
    <2> QED
      OBVIOUS
  <1>10. d.pdu.sn \in DOMAIN tx_window /\ Carries(d.pdu, tx_window[d.pdu.sn].data)
    <2> HIDE DEF d, pdu, data
    <2> QED
      BY <1>2, <1>7, <1>8, <1>9 DEF Carries
  <1> HIDE DEF d, q
  <1> QED
    BY <1>1, <1>4, <1>5, <1>6, <1>7, <1>10, SendStream

LEMMA NoPduStream ==
  ASSUME TxInv, TxInv', StreamInv, UNCHANGED rxVars, NEW pdus, NEW bytes, NoPdu(Ready, pdus, bytes)
  PROVE  StreamInv'
  <1>1. LinkWindowInv /\ QueueOK
    BY DEF TxInv, LinkWindowInv
  <1>2. EntriesOK(Ready.q, Ready.win) /\ SameSdus(Ready.win, tx_window)
    BY <1>1, TxWindowOK, ReadyEntries, ReadySdus
  <1>3. /\ tx_window' = Ready.win /\ retx_queue' = Ready.q
        /\ UNCHANGED <<sduVars, vr_r, vt_s, rx_window, rx_segments, rx_sdu, delivered, dataCh>>
    BY DEF NoPdu, SetRetx, rxVars, windowVars, payloadVars
  <1> QED
    BY <1>2, <1>3, QuietStream

LEMMA SamePrefix ==
  ASSUME NEW S, NEW A \in Seq(S), NEW B \in Seq(S), NEW n \in Nat, n <= Len(A), n <= Len(B),
         \A x \in 1 .. n : B[x] = A[x]
  PROVE  SubSeq(B, 1, n) = SubSeq(A, 1, n)
  <1>1. n - 1 + 1 = n /\ 1 \in Int /\ n \in Int /\ \A x \in 1 .. n : 1 + x - 1 = x
    OBVIOUS
  <1>2. \A x \in 1 .. n : A[x] \in S /\ B[x] \in S
    <2>1. \A x \in 1 .. n : x \in 1 .. Len(A) /\ x \in 1 .. Len(B)
      BY LenProperties
    <2> QED
      BY <2>1, ElementOfSeq
  <1>3. /\ SubSeq(A, 1, n) \in Seq(S) /\ SubSeq(B, 1, n) \in Seq(S)
        /\ Len(SubSeq(A, 1, n)) = Len(SubSeq(B, 1, n))
        /\ Len(SubSeq(A, 1, n)) = IF 1 <= n THEN n ELSE 0
        /\ \A x \in 1 .. n : SubSeq(A, 1, n)[x] = A[x] /\ SubSeq(B, 1, n)[x] = B[x]
    BY <1>1, <1>2, SubSeqProperties
  <1>4. \A x \in 1 .. Len(SubSeq(A, 1, n)) : SubSeq(B, 1, n)[x] = SubSeq(A, 1, n)[x]
    BY <1>3
  <1> QED
    BY <1>3, <1>4, SeqEqual

(* What was delivered depends on the SDUs that were begun by then, no others. *)
LEMMA ReassemblySame ==
  ASSUME NEW A \in Seq(1 .. NofSdus), NEW B \in Seq(1 .. NofSdus), NEW c \in Cursor,
         Reach(c) <= Len(A), \A x \in 1 .. Reach(c) : x <= Len(B) /\ B[x] = A[x],
         NEW sdu, NEW out, Reassembly(A, c, sdu, out)
  PROVE  Reach(c) <= Len(B) /\ Reassembly(B, c, sdu, out)
  <1>1. /\ c.done \in Nat /\ c.part \in Nat /\ Reach(c) \in Nat /\ Len(A) \in Nat /\ Len(B) \in Nat
        /\ Reach(c) = IF c.part > 0 THEN c.done + 1 ELSE c.done
    BY LenProperties DEF Reach, Cursor
  <1>2. Reach(c) <= Len(B)
    BY <1>1
  <1>3. SubSeq(B, 1, c.done) = SubSeq(A, 1, c.done)
    BY <1>1, <1>2, SamePrefix
  <1>4. Part(B, c) = Part(A, c)
    <2>1. CASE c.part = 0
      BY <2>1 DEF Part
    <2>2. CASE c.part # 0
      BY <1>1, <2>2 DEF Part
    <2> QED
      BY <2>1, <2>2
  <1> QED
    BY <1>2, <1>3, <1>4 DEF Reassembly

(* The SNs ahead are counted from vr_r up to vt_s. *)
LEMMA NextAhead ==
  ASSUME LinkWindowInv, NEW sn \in SN, Ahead(sn)
  PROVE  /\ Add(sn, 1) \in SN /\ Base(Add(sn, 1), vr_r) = Base(sn, vr_r) + 1
         /\ Base(Add(sn, 1), vr_r) <= Base(vt_s, vr_r)
  <1>1. vr_r \in SN /\ vt_s \in SN /\ Base(sn, vr_r) \in 0 .. MOD - 1 /\ Base(vt_s, vr_r) \in 0 .. MOD - 1
    BY LinkDistances
  <1>2. Base(sn, vr_r) < Base(vt_s, vr_r)
    BY DEF Ahead
  <1>3. MOD \in Nat
    BY ModType
  <1> QED
    BY <1>1, <1>2, <1>3, BaseNext

(* Other SDUs beyond the u-th change nothing of what was begun. *)
LEMMA StreamSame ==
  ASSUME LinkWindowInv, AcceptedOK, NEW c \in [SN -> Cursor], StreamAt(c),
         NEW u \in 0 .. Len(accepted), Span(accepted, tx_sdu, c[vt_s], At(u)),
         NEW B \in Seq(1 .. NofSdus), u <= Len(B), \A x \in 1 .. u : B[x] = accepted[x]
  PROVE  /\ Reach(c[vr_r]) <= Len(B) /\ Reassembly(B, c[vr_r], rx_sdu, delivered)
         /\ Span(B, tx_sdu, c[vt_s], At(u))
         /\ \A sn \in SN : Ahead(sn) => Span(B, Data(sn), c[sn], c[Add(sn, 1)])
  <1>1. accepted \in Seq(1 .. NofSdus) /\ Len(accepted) \in Nat /\ Len(B) \in Nat
    BY LenProperties DEF AcceptedOK
  <1>2. Reach(c[vt_s]) \in Nat /\ Reach(c[vt_s]) <= u
    <2>1. Reach(At(u)) = u
      BY DEF Reach, At
    <2> QED
      BY <1>1, <2>1, SpanReach
  <1>3. vr_r \in SN /\ vt_s \in SN /\ Base(vr_r, vr_r) = 0 /\ Base(vt_s, vr_r) \in 0 .. MOD - 1
    BY LinkDistances, BaseSelf
  <1>4. ASSUME NEW sn \in SN, Base(sn, vr_r) <= Base(vt_s, vr_r)
        PROVE  /\ Reach(c[sn]) \in Nat /\ Reach(c[sn]) <= u
               /\ \A x \in 1 .. Reach(c[sn]) : x <= Len(B) /\ B[x] = accepted[x]
    <2>1. Reach(c[sn]) \in Nat
      BY DEF Reach, Cursor
    <2>2. Reach(c[sn]) <= Reach(c[vt_s])
      BY <1>4 DEF StreamAt
    <2>3. Reach(c[sn]) <= u
      BY <1>2, <2>1, <2>2
    <2> QED
      BY <1>1, <2>1, <2>3
  <1>5. Reach(c[vr_r]) <= Len(B) /\ Reassembly(B, c[vr_r], rx_sdu, delivered)
    <2>1. \A x \in 1 .. Reach(c[vr_r]) : x <= Len(B) /\ B[x] = accepted[x]
      BY <1>3, <1>4
    <2> QED
      BY <1>1, <1>3, <2>1, ReassemblySame DEF StreamAt, AtRx
  <1>6. Span(B, tx_sdu, c[vt_s], At(u))
    <2>1. Reach(At(u)) = u
      BY DEF Reach, At
    <2> QED
      BY <1>1, <2>1, SpanSame
  <1>7. ASSUME NEW sn \in SN, Ahead(sn) PROVE Span(B, Data(sn), c[sn], c[Add(sn, 1)])
    <2>1. Add(sn, 1) \in SN /\ Base(Add(sn, 1), vr_r) <= Base(vt_s, vr_r)
      BY <1>7, NextAhead
    <2>2. Span(accepted, Data(sn), c[sn], c[Add(sn, 1)])
      BY <1>7 DEF StreamAt
    <2>3. \A x \in 1 .. Reach(c[Add(sn, 1)]) : x <= Len(B) /\ B[x] = accepted[x]
      BY <1>4, <2>1
    <2> QED
      BY <1>1, <2>2, <2>3, SpanSame
  <1> QED
    BY <1>5, <1>6, <1>7

(* A step of PDCP: what was begun stays, the queue and the SDUs after it change. *)
LEMMA SduStream ==
  ASSUME LinkWindowInv, StreamInv,
         UNCHANGED <<tx_sdu, vr_r, vt_s, rx_window, rx_segments, rx_sdu, delivered, tx_window,
                     retx_queue, dataCh>>,
         AcceptedOK',
         \A u \in 0 .. Len(accepted) :
           QueueIs(u) => /\ u <= Len(accepted') /\ QueueIs(u)'
                         /\ \A x \in 1 .. u : accepted'[x] = accepted[x]
  PROVE  StreamInv'
  <1>1. PICK c \in [SN -> Cursor] : StreamAt(c)
    BY DEF StreamInv, Stream
  <1>2. PICK u \in 0 .. Len(accepted) :
          /\ Span(accepted, tx_sdu, c[vt_s], At(u))
          /\ \A k \in 1 .. Len(tx_sdu) : u > 0 /\ tx_sdu[k].b[1] = accepted[u]
          /\ QueueIs(u)
    BY <1>1 DEF StreamAt, AtTx
  <1>3. accepted' \in Seq(1 .. NofSdus) /\ accepted \in Seq(1 .. NofSdus) /\ Len(accepted) \in Nat
        /\ Len(accepted') \in Nat
    BY LenProperties DEF AcceptedOK, StreamInv
  <1>4. u <= Len(accepted') /\ QueueIs(u)' /\ \A x \in 1 .. u : accepted'[x] = accepted[x]
    BY <1>2
  <1>5. /\ Reach(c[vr_r]) <= Len(accepted') /\ Reassembly(accepted', c[vr_r], rx_sdu, delivered)
        /\ Span(accepted', tx_sdu, c[vt_s], At(u))
        /\ \A sn \in SN : Ahead(sn) => Span(accepted', Data(sn), c[sn], c[Add(sn, 1)])
    BY <1>1, <1>2, <1>3, <1>4, StreamSame DEF StreamInv
  <1>6. \A sn : (Ahead(sn)' <=> Ahead(sn)) /\ Data(sn)' = Data(sn)
    BY DEF Ahead, Data
  <1>7. StreamAt(c)'
    <2>1. AtRx(c[vr_r])'
      BY <1>5 DEF AtRx
    <2>2. AtTx(c[vt_s])'
      <3>1. \A k \in 1 .. Len(tx_sdu') : u > 0 /\ tx_sdu'[k].b[1] = accepted'[u]
        BY <1>2, <1>4
      <3>2. u \in 0 .. Len(accepted')
        BY <1>3, <1>4
      <3>3. Span(accepted', tx_sdu', c[vt_s'], At(u))
        BY <1>5
      <3> QED
        BY <1>4, <3>1, <3>2, <3>3 DEF AtTx
    <2>3. \A sn \in SN : Ahead(sn)' => Span(accepted', Data(sn)', c[sn], c[Add(sn, 1)])
      BY <1>5, <1>6
    <2>4. \A sn \in SN : Base(sn, vr_r') <= Base(vt_s', vr_r') => Reach(c[sn]) <= Reach(c[vt_s'])
      BY <1>1 DEF StreamAt
    <2> QED
      BY <2>1, <2>2, <2>3, <2>4 DEF StreamAt
  <1>8. Stream'
    BY <1>7 DEF Stream
  <1>9. EntriesOK(retx_queue, tx_window)'
    BY DEF StreamInv, EntriesOK, InOrder, EntryTrue
  <1>10. WindowsSame' /\ \A sn \in DOMAIN tx_window' : tx_window'[sn].data \in Seq(Token)
    BY DEF StreamInv, WindowsSame
  <1>11. PdusTrue'
    <2>1. \A k \in 1 .. Len(dataCh) :
            Ahead(dataCh[k].pdu.sn) => Carries(dataCh[k].pdu, Data(dataCh[k].pdu.sn))
      BY DEF StreamInv, PdusTrue
    <2> QED
      BY <2>1 DEF PdusTrue, Ahead, Data
  <1>12. SegmentsTrue'
    BY <1>6 DEF StreamInv, SegmentsTrue
  <1> QED
    BY <1>8, <1>9, <1>10, <1>11, <1>12 DEF StreamInv

LEMMA WriteStream ==
  ASSUME TxInv, StreamInv, UNCHANGED rxVars, write_sdu
  PROVE  StreamInv'
  <1>1. LinkWindowInv /\ AcceptedOK /\ accepted \in Seq(1 .. NofSdus) /\ Len(accepted) \in Nat
    BY LenProperties DEF TxInv, StreamInv, AcceptedOK
  <1>2. /\ IsSeq(tx_sdu_queue) /\ Len(tx_sdu_queue) \in Nat /\ offered \in 0 .. NofSdus
        /\ NofSdus \in Nat
    BY LenProperties, TxAssumption DEF TxInv, TxTypes, IsSeq
  <1>3. UNCHANGED <<tx_sdu, vr_r, vt_s, rx_window, rx_segments, rx_sdu, delivered, tx_window,
                    retx_queue, dataCh>>
    BY DEF write_sdu, retxVars, rxVars, windowVars, payloadVars
  <1>4. offered' = offered + 1 /\ offered + 1 \in 1 .. NofSdus
    BY <1>2 DEF write_sdu
  <1>5. CASE Len(tx_sdu_queue) < QueueLen
    <2>1. tx_sdu_queue' = Append(tx_sdu_queue, offered + 1) /\ accepted' = Append(accepted, offered + 1)
      BY <1>5 DEF write_sdu
    <2>2. /\ Len(tx_sdu_queue') = Len(tx_sdu_queue) + 1
          /\ \A j \in 1 .. Len(tx_sdu_queue) + 1 :
               tx_sdu_queue'[j] = IF j <= Len(tx_sdu_queue) THEN tx_sdu_queue[j] ELSE offered + 1
      BY <1>2, <2>1, AppendKeeps
    <2>3. /\ accepted' \in Seq(1 .. NofSdus) /\ Len(accepted') = Len(accepted) + 1
          /\ \A x \in 1 .. Len(accepted) : accepted'[x] = accepted[x]
          /\ accepted'[Len(accepted) + 1] = offered + 1
      BY <1>1, <1>4, <2>1, AppendProperties
    <2>4. \A x \in 1 .. Len(accepted) : accepted[x] \in 1 .. NofSdus /\ accepted[x] <= offered
      BY <1>1, ElementOfSeq DEF AcceptedOK
    <2>5. AcceptedOK'
      <3>1. ASSUME NEW j \in 1 .. Len(accepted'), NEW k \in 1 .. Len(accepted'), j < k
            PROVE  accepted'[j] < accepted'[k]
        <4>1. j \in 1 .. Len(accepted) /\ accepted'[j] = accepted[j]
          BY <1>1, <2>3, <3>1
        <4>2. CASE k \in 1 .. Len(accepted)
          BY <1>1, <2>3, <3>1, <4>1, <4>2 DEF AcceptedOK
        <4>3. CASE k = Len(accepted) + 1
          BY <1>2, <2>3, <2>4, <4>1, <4>3
        <4> QED
          BY <1>1, <2>3, <4>2, <4>3
      <3>2. \A j \in 1 .. Len(accepted') : accepted'[j] <= offered'
        <4>1. \A j \in 1 .. Len(accepted') : j \in 1 .. Len(accepted) \/ j = Len(accepted) + 1
          BY <1>1, <2>3
        <4> QED
          BY <1>2, <1>4, <2>3, <2>4, <4>1
      <3> QED
        BY <2>3, <3>1, <3>2 DEF AcceptedOK
    <2>6. ASSUME NEW u \in 0 .. Len(accepted), QueueIs(u)
          PROVE  /\ u <= Len(accepted') /\ QueueIs(u)'
                 /\ \A x \in 1 .. u : accepted'[x] = accepted[x]
      <3> DEFINE q == tx_sdu_queue
                 n == Len(tx_sdu_queue)
                 m == Len(accepted)
                 T == {accepted[x] : x \in u + 1 .. m}
      <3>1. /\ {q[k] : k \in 1 .. n} \ {Null} = T
            /\ \A j, k \in 1 .. n : j < k /\ q[j] # Null /\ q[k] # Null => q[j] < q[k]
        BY <2>6 DEF QueueIs
      <3>2. {tx_sdu_queue'[k] : k \in 1 .. Len(tx_sdu_queue')} = {q[k] : k \in 1 .. n} \union {offered + 1}
        <4>1. \A k \in 1 .. Len(tx_sdu_queue') :
                (k \in 1 .. n /\ tx_sdu_queue'[k] = q[k]) \/ (k = n + 1 /\ tx_sdu_queue'[k] = offered + 1)
          BY <1>2, <2>2
        <4>2. \A k \in 1 .. n : k \in 1 .. Len(tx_sdu_queue') /\ tx_sdu_queue'[k] = q[k]
          BY <1>2, <2>2
        <4>3. n + 1 \in 1 .. Len(tx_sdu_queue') /\ tx_sdu_queue'[n + 1] = offered + 1
          BY <1>2, <2>2
        <4> HIDE DEF n
        <4> QED
          BY <4>1, <4>2, <4>3
      <3>3. {accepted'[x] : x \in u + 1 .. Len(accepted')} = T \union {offered + 1}
        <4>1. \A x \in u + 1 .. Len(accepted') :
                (x \in u + 1 .. m /\ accepted'[x] = accepted[x]) \/ (x = m + 1 /\ accepted'[x] = offered + 1)
          BY <1>1, <2>3
        <4>2. \A x \in u + 1 .. m : x \in u + 1 .. Len(accepted') /\ accepted'[x] = accepted[x]
          BY <1>1, <2>3
        <4>3. m + 1 \in u + 1 .. Len(accepted') /\ accepted'[m + 1] = offered + 1
          BY <1>1, <2>3
        <4> HIDE DEF m
        <4> QED
          BY <4>1, <4>2, <4>3 DEF T
      <3>4. offered + 1 # Null
        BY <1>2 DEF Null
      <3>5. \A y \in T : y \in Int /\ y <= offered
        <4>1. \A x \in u + 1 .. m : x \in 1 .. m
          BY <1>1
        <4> QED
          BY <2>4, <4>1
      <3>6. ASSUME NEW j \in 1 .. Len(tx_sdu_queue'), NEW k \in 1 .. Len(tx_sdu_queue'), j < k,
                   tx_sdu_queue'[j] # Null, tx_sdu_queue'[k] # Null
            PROVE  tx_sdu_queue'[j] < tx_sdu_queue'[k]
        <4>1. j \in 1 .. n /\ tx_sdu_queue'[j] = q[j]
          BY <1>2, <2>2, <3>6
        <4>2. CASE k \in 1 .. n
          <5>1. tx_sdu_queue'[k] = q[k]
            BY <1>2, <2>2, <4>2
          <5> QED
            BY <3>1, <3>6, <4>1, <4>2, <5>1
        <4>3. CASE k = n + 1
          <5>1. tx_sdu_queue'[k] = offered + 1
            BY <1>2, <2>2, <4>3
          <5>2. q[j] \in T
            BY <3>1, <3>6, <4>1
          <5>3. q[j] \in Int /\ q[j] <= offered
            <6> HIDE DEF q, T
            <6> QED
              BY <3>5, <5>2
          <5> HIDE DEF q, n
          <5> QED
            BY <1>2, <4>1, <5>1, <5>3
        <4>4. k \in 1 .. n \/ k = n + 1
          BY <1>2, <2>2
        <4> QED
          BY <4>2, <4>3, <4>4
      <3>7. {tx_sdu_queue'[k] : k \in 1 .. Len(tx_sdu_queue')} \ {Null}
              = {accepted'[x] : x \in u + 1 .. Len(accepted')}
        <4> HIDE DEF n, q, T
        <4> QED
          BY <3>1, <3>2, <3>3, <3>4
      <3>8. QueueIs(u)'
        BY <3>6, <3>7 DEF QueueIs
      <3> QED
        BY <1>1, <2>3, <3>8
    <2> QED
      BY <1>1, <1>3, <2>5, <2>6, SduStream
  <1>6. CASE ~(Len(tx_sdu_queue) < QueueLen)
    <2>1. UNCHANGED <<accepted, tx_sdu_queue>>
      BY <1>6 DEF write_sdu
    <2>2. AcceptedOK'
      <3>1. \A j \in 1 .. Len(accepted) : accepted[j] <= offered + 1
        BY <1>1, <1>2, ElementOfSeq DEF AcceptedOK
      <3> QED
        BY <1>1, <1>4, <2>1, <3>1 DEF AcceptedOK
    <2>3. \A u \in 0 .. Len(accepted) :
            QueueIs(u) => /\ u <= Len(accepted') /\ QueueIs(u)'
                          /\ \A x \in 1 .. u : accepted'[x] = accepted[x]
      <3>1. ASSUME NEW u \in 0 .. Len(accepted), QueueIs(u)
            PROVE  u <= Len(accepted') /\ QueueIs(u)' /\ \A x \in 1 .. u : accepted'[x] = accepted[x]
        <4>1. QueueIs(u)'
          BY <2>1, <3>1 DEF QueueIs
        <4>2. u <= Len(accepted')
          BY <1>1, <2>1
        <4> QED
          BY <2>1, <4>1, <4>2
      <3> QED
        BY <3>1
    <2> QED
      BY <1>1, <1>3, <2>2, <2>3, SduStream
  <1> QED
    BY <1>5, <1>6

(* An SDU that can be discarded has not been begun. *)
LEMMA DiscardEffect ==
  ASSUME TxInv, AcceptedOK, NEW i, discard_sdu(i)
  PROVE  \E p \in 1 .. Len(accepted) :
           /\ accepted' = RemoveAt(accepted, p) /\ AcceptedOK'
           /\ \A u \in 0 .. Len(accepted) :
                QueueIs(u) => /\ u < p /\ u <= Len(accepted') /\ QueueIs(u)'
                              /\ \A x \in 1 .. u : accepted'[x] = accepted[x]
  <1> DEFINE q == tx_sdu_queue
             n == Len(tx_sdu_queue)
             m == Len(accepted)
  <1>1. /\ accepted \in Seq(1 .. NofSdus) /\ m \in Nat /\ NofSdus \in Nat /\ offered' = offered
        /\ \A x \in 1 .. m : accepted[x] \in 1 .. NofSdus /\ accepted[x] <= offered
        /\ \A j, k \in 1 .. m : j < k => accepted[j] < accepted[k]
    BY LenProperties, ElementOfSeq, TxAssumption DEF AcceptedOK, discard_sdu
  <1>2. tx_sdu_queue \in Seq(Range(tx_sdu_queue)) /\ n \in Nat
    BY LenProperties DEF TxInv, TxTypes, IsSeq
  <1>3. PICK k \in 1 .. n : tx_sdu_queue[k] = i /\ tx_sdu_queue' = [tx_sdu_queue EXCEPT ![k] = Null]
    BY DEF discard_sdu
  <1>4. PICK p \in 1 .. m : accepted[p] = i /\ accepted' = RemoveAt(accepted, p)
    BY DEF discard_sdu
  <1>5. i \in 1 .. NofSdus /\ i # Null
    BY TxAssumption DEF discard_sdu, Null
  <1>6. /\ accepted' \in Seq(1 .. NofSdus) /\ Len(accepted') = m - 1
        /\ \A j \in 1 .. m - 1 : accepted'[j] = IF j < p THEN accepted[j] ELSE accepted[j + 1]
    <2>1. accepted \in Seq(1 .. NofSdus) /\ p \in 1 .. Len(accepted) /\ accepted' = RemoveAt(accepted, p)
      BY <1>1, <1>4
    <2> DEFINE S == 1 .. NofSdus
    <2>2. accepted \in Seq(S)
      BY <2>1
    <2> HIDE DEF S
    <2>3. /\ accepted' \in Seq(S) /\ Len(accepted') = Len(accepted) - 1
          /\ \A j \in 1 .. Len(accepted) - 1 : accepted'[j] = IF j < p THEN accepted[j] ELSE accepted[j + 1]
      BY <2>1, <2>2, RemoveAtSeq
    <2> QED
      BY <2>3 DEF S
  <1>7. /\ Len(tx_sdu_queue') = n
        /\ \A j \in 1 .. n : tx_sdu_queue'[j] = IF j = k THEN Null ELSE tx_sdu_queue[j]
    <2> DEFINE S == Range(tx_sdu_queue) \union {Null}
    <2>1. tx_sdu_queue \in Seq(S) /\ Null \in S
      BY <1>2, SeqMonotonic
    <2> HIDE DEF S
    <2> QED
      BY <1>3, <2>1, ExceptSeq
  <1> HIDE DEF q, n, m
  <1>8. AcceptedOK'
    <2>1. \A j \in 1 .. m - 1 : j \in 1 .. m /\ j + 1 \in 1 .. m
      BY <1>1
    <2>2. ASSUME NEW j \in 1 .. m - 1, NEW l \in 1 .. m - 1, j < l
          PROVE  accepted'[j] < accepted'[l]
      <3> DEFINE a == IF j < p THEN j ELSE j + 1
                 b == IF l < p THEN l ELSE l + 1
      <3>1. a \in 1 .. m /\ b \in 1 .. m /\ a < b
        BY <1>1, <1>4, <2>2
      <3>2. accepted'[j] = accepted[a] /\ accepted'[l] = accepted[b]
        BY <1>6
      <3> HIDE DEF a, b
      <3> QED
        BY <1>1, <3>1, <3>2
    <2>3. \A j \in 1 .. m - 1 : accepted'[j] <= offered'
      BY <1>1, <1>6, <2>1
    <2> QED
      BY <1>6, <2>2, <2>3 DEF AcceptedOK
  <1>9. ASSUME NEW u \in 0 .. m, QueueIs(u)
        PROVE  /\ u < p /\ u <= Len(accepted') /\ QueueIs(u)'
               /\ \A x \in 1 .. u : accepted'[x] = accepted[x]
    <2> DEFINE T == {accepted[x] : x \in u + 1 .. m}
    <2>1. /\ {q[j] : j \in 1 .. n} \ {Null} = T
          /\ \A j, l \in 1 .. n : j < l /\ q[j] # Null /\ q[l] # Null => q[j] < q[l]
      BY <1>9 DEF QueueIs, q, n, m
    <2>2. i \in T
      BY <1>3, <1>5, <2>1 DEF q
    <2>3. u < p
      <3>1. PICK x \in u + 1 .. m : accepted[x] = i
        BY <2>2
      <3>2. x \in 1 .. m
        BY <1>1, <3>1
      <3>3. ~(x < p) /\ ~(p < x)
        BY <1>1, <1>4, <1>5, <3>1, <3>2
      <3> QED
        BY <1>1, <1>4, <3>1, <3>3
    <2>4. \A x \in 1 .. u : accepted'[x] = accepted[x]
      BY <1>1, <1>4, <1>6, <2>3
    <2>5. u <= Len(accepted')
      BY <1>1, <1>4, <1>6, <2>3
    <2>6. \A j \in 1 .. n : j # k => q[j] # i
      <3> SUFFICES ASSUME NEW j \in 1 .. n, j # k, q[j] = i PROVE FALSE
        OBVIOUS
      <3>1. q[j] # Null /\ q[k] # Null /\ q[k] = i
        BY <1>3, <1>5 DEF q
      <3>2. j < k \/ k < j
        BY <1>2
      <3>3. ~(i < i)
        BY <1>1, <1>5
      <3> QED
        BY <1>3, <2>1, <3>1, <3>2, <3>3
    <2>7. {tx_sdu_queue'[j] : j \in 1 .. n} \ {Null} = T \ {i}
      <3>1. \A y : y \in {tx_sdu_queue'[j] : j \in 1 .. n} \ {Null}
                   <=> y \in ({q[j] : j \in 1 .. n} \ {Null}) \ {i}
        BY <1>3, <1>7, <2>6 DEF q
      <3> QED
        BY <2>1, <3>1
    <2>8. {accepted'[x] : x \in u + 1 .. m - 1} = T \ {i}
      <3>1. ASSUME NEW x \in u + 1 .. m - 1 PROVE accepted'[x] \in T \ {i}
        <4> DEFINE a == IF x < p THEN x ELSE x + 1
        <4>1. a \in u + 1 .. m /\ a \in 1 .. m /\ x \in 1 .. m - 1 /\ (a < p \/ p < a)
          BY <1>1, <1>4, <3>1
        <4>2. accepted'[x] = accepted[a]
          BY <1>6, <4>1
        <4> HIDE DEF a
        <4>3. accepted[a] # i
          BY <1>1, <1>4, <4>1
        <4> QED
          BY <4>1, <4>2, <4>3
      <3>2. ASSUME NEW y \in T \ {i} PROVE y \in {accepted'[x] : x \in u + 1 .. m - 1}
        <4>1. PICK a \in u + 1 .. m : y = accepted[a]
          BY <3>2
        <4>2. a # p
          BY <1>4, <3>2, <4>1
        <4> DEFINE x == IF a < p THEN a ELSE a - 1
        <4>3. x \in u + 1 .. m - 1 /\ x \in 1 .. m - 1 /\ a = (IF x < p THEN x ELSE x + 1)
          BY <1>1, <1>4, <2>3, <4>1, <4>2
        <4>4. accepted'[x] = y
          <5> HIDE DEF x
          <5> QED
            BY <1>6, <4>1, <4>3
        <4> QED
          BY <4>3, <4>4
      <3> QED
        BY <3>1, <3>2
    <2>9. \A j, l \in 1 .. n : /\ j < l
                               /\ tx_sdu_queue'[j] # Null
                               /\ tx_sdu_queue'[l] # Null
                               => tx_sdu_queue'[j] < tx_sdu_queue'[l]
      BY <1>7, <2>1 DEF q
    <2>10. QueueIs(u)'
      BY <1>6, <1>7, <2>7, <2>8, <2>9 DEF QueueIs
    <2> QED
      BY <2>3, <2>4, <2>5, <2>10
  <1> QED
    BY <1>4, <1>8, <1>9 DEF m

(* What has been delivered are SDUs that have been begun. *)
LEMMA DeliveredIs ==
  ASSUME LinkWindowInv, AcceptedOK, NEW c \in [SN -> Cursor], StreamAt(c)
  PROVE  /\ c[vr_r] \in Cursor /\ c[vr_r].done \in Nat /\ c[vr_r].done <= Len(accepted)
         /\ deliveredSdus = SubSeq(accepted, 1, c[vr_r].done)
         /\ Len(deliveredSdus) = c[vr_r].done
         /\ \A u \in 0 .. Len(accepted) :
              Span(accepted, tx_sdu, c[vt_s], At(u)) => c[vr_r].done <= u
  <1>1. accepted \in Seq(1 .. NofSdus) /\ Len(accepted) \in Nat
    BY LenProperties DEF AcceptedOK
  <1>2. vr_r \in SN /\ vt_s \in SN /\ Base(vr_r, vr_r) = 0 /\ Base(vt_s, vr_r) \in 0 .. MOD - 1
    BY LinkDistances, BaseSelf
  <1>3. /\ c[vr_r] \in Cursor /\ c[vr_r].done \in Nat /\ Reach(c[vr_r]) \in Nat
        /\ c[vr_r].done <= Reach(c[vr_r])
    BY <1>2 DEF Reach, Cursor
  <1>4. /\ Reach(c[vr_r]) <= Len(accepted) /\ Reach(c[vr_r]) <= Reach(c[vt_s])
        /\ SdusIn(delivered) = SubSeq(accepted, 1, c[vr_r].done)
    BY <1>2 DEF StreamAt, AtRx, Reassembly
  <1>5. c[vr_r].done <= Len(accepted)
    BY <1>1, <1>3, <1>4
  <1>6. deliveredSdus = SubSeq(accepted, 1, c[vr_r].done)
    BY <1>4 DEF deliveredSdus, SdusIn
  <1>7. Len(SubSeq(accepted, 1, c[vr_r].done)) = c[vr_r].done
    <2>1. \A x \in 1 .. c[vr_r].done : accepted[x] \in 1 .. NofSdus
      <3>1. \A x \in 1 .. c[vr_r].done : x \in 1 .. Len(accepted)
        BY <1>1, <1>3, <1>5
      <3> QED
        BY <1>1, <3>1, ElementOfSeq
    <2> QED
      BY <1>3, <2>1, SubSeqProperties
  <1>8. ASSUME NEW u \in 0 .. Len(accepted), Span(accepted, tx_sdu, c[vt_s], At(u))
        PROVE  c[vr_r].done <= u
    <2>1. Reach(At(u)) = u
      BY DEF Reach, At
    <2>2. Reach(c[vt_s]) \in Nat /\ Reach(c[vt_s]) <= u
      BY <1>1, <1>8, <2>1, SpanReach
    <2> QED
      BY <1>1, <1>3, <1>4, <2>2
  <1> QED
    BY <1>3, <1>5, <1>6, <1>7, <1>8

LEMMA DiscardStream ==
  ASSUME TxInv, StreamInv, UNCHANGED rxVars, NEW i, discard_sdu(i)
  PROVE  /\ StreamInv'
         /\ \E k \in Len(deliveredSdus) + 1 .. Len(accepted) : accepted' = RemoveAt(accepted, k)
  <1>1. LinkWindowInv /\ AcceptedOK /\ accepted \in Seq(1 .. NofSdus) /\ Len(accepted) \in Nat
    BY LenProperties DEF TxInv, StreamInv, AcceptedOK
  <1>2. UNCHANGED <<tx_sdu, vr_r, vt_s, rx_window, rx_segments, rx_sdu, delivered, tx_window,
                    retx_queue, dataCh>>
    BY DEF discard_sdu, retxVars, rxVars, windowVars, payloadVars
  <1>3. PICK p \in 1 .. Len(accepted) :
           /\ accepted' = RemoveAt(accepted, p) /\ AcceptedOK'
           /\ \A u \in 0 .. Len(accepted) :
                QueueIs(u) => /\ u < p /\ u <= Len(accepted') /\ QueueIs(u)'
                              /\ \A x \in 1 .. u : accepted'[x] = accepted[x]
    BY <1>1, DiscardEffect
  <1>4. StreamInv'
    BY <1>1, <1>2, <1>3, SduStream
  <1>5. PICK c \in [SN -> Cursor] : StreamAt(c)
    BY DEF StreamInv, Stream
  <1>6. PICK u \in 0 .. Len(accepted) : Span(accepted, tx_sdu, c[vt_s], At(u)) /\ QueueIs(u)
    BY <1>5 DEF StreamAt, AtTx
  <1>7. /\ c[vr_r].done \in Nat /\ Len(deliveredSdus) = c[vr_r].done /\ c[vr_r].done <= u
    BY <1>1, <1>5, <1>6, DeliveredIs
  <1>8. p \in Len(deliveredSdus) + 1 .. Len(accepted)
    BY <1>1, <1>3, <1>6, <1>7
  <1> QED
    BY <1>3, <1>4, <1>8

-----------------------------------------------------------------------------
(* The tokens of the SDUs in the queue *)

Slot(x) == IF x = Null THEN <<>> ELSE Tokens(x)

Slots(q, j, n) == {q[k] : k \in j .. n} \ {Null}

(* The queue q holds the SDUs of A after the first u, in order. *)
Queued(A, q, u) ==
  /\ Slots(q, 1, Len(q)) = {A[x] : x \in u + 1 .. Len(A)}
  /\ \A j, k \in 1 .. Len(q) : j < k /\ q[j] # Null /\ q[k] # Null => q[j] < q[k]

Increasing(A) == A \in Seq(1 .. NofSdus) /\ \A j, k \in 1 .. Len(A) : j < k => A[j] < A[k]

(* h[n] are the tokens of the first n slots of q. *)
QueueTokens(q, h) == Concats(h, [k \in 1 .. Len(q) |-> Slot(q[k])], Len(q), Token)

LEMMA SlotType ==
  ASSUME NEW A, Increasing(A), NEW q, Len(q) \in Nat, NEW u \in Nat, Queued(A, q, u),
         NEW k \in 1 .. Len(q)
  PROVE  /\ q[k] = Null \/ q[k] \in 1 .. NofSdus
         /\ Slot(q[k]) \in Seq(Token)
         /\ \A j \in 1 .. Len(Slot(q[k])) : q[k] # Null /\ Slot(q[k])[j].b[1] = q[k]
  <1>1. CASE q[k] = Null
    <2>1. Slot(q[k]) = <<>> /\ Len(<<>>) = 0 /\ <<>> \in Seq(Token)
      BY <1>1, EmptySeq DEF Slot
    <2> QED
      BY <1>1, <2>1
  <1>2. CASE q[k] # Null
    <2>1. q[k] \in {A[x] : x \in u + 1 .. Len(A)}
      BY <1>2 DEF Queued, Slots
    <2>2. A \in Seq(1 .. NofSdus) /\ \A x \in u + 1 .. Len(A) : x \in 1 .. Len(A)
      BY LenProperties DEF Increasing
    <2>3. q[k] \in 1 .. NofSdus
      BY <2>1, <2>2, ElementOfSeq
    <2>4. Slot(q[k]) = Tokens(q[k])
      BY <1>2 DEF Slot
    <2> DEFINE i == q[k]
    <2>5. i \in 1 .. NofSdus
      BY <2>3
    <2> HIDE DEF i
    <2>6. /\ Tokens(i) \in Seq(Token) /\ Len(Tokens(i)) = SduLen[i]
          /\ \A j \in 1 .. SduLen[i] : Tokens(i)[j] = [b |-> <<i, j>>, e |-> j = SduLen[i]]
      BY <2>5, TokensType
    <2>7. ASSUME NEW j \in 1 .. Len(Tokens(i)) PROVE Tokens(i)[j].b[1] = i
      <3> DEFINE e == j = SduLen[i]
      <3>1. Tokens(i)[j] = [b |-> <<i, j>>, e |-> e]
        BY <2>6
      <3> HIDE DEF e
      <3>2. Tokens(i)[j].b = <<i, j>>
        BY <3>1
      <3> QED
        BY <3>2
    <2> QED
      BY <1>2, <2>3, <2>4, <2>6, <2>7 DEF i
  <1> QED
    BY <1>1, <1>2

LEMMA QueuedTokensAre ==
  ASSUME NEW A, Increasing(A), NEW q, Len(q) \in Nat, NEW u \in Nat, Queued(A, q, u)
  PROVE  \E h : QueueTokens(q, h) /\ QueuedTokens(q) = h[Len(q)]
  <1> DEFINE N == Len(q)
             seqs == [k \in 1 .. N |-> Slot(q[k])]
  <1>1. N \in Nat /\ seqs \in [1 .. N -> Seq(Token)]
    BY SlotType
  <1>2. QueuedTokens(q) = FlattenSeq(seqs)
    BY DEF QueuedTokens, Slot
  <1> HIDE DEF seqs, N
  <1>3. PICK h : Concats(h, seqs, N, Token)
    BY <1>1, ConcatsExist
  <1>4. FlattenSeq(seqs) = h[N]
    BY <1>1, <1>3, FlattenIs
  <1> QED
    BY <1>2, <1>3, <1>4 DEF QueueTokens, seqs, N

LEMMA QueueTokensType ==
  ASSUME NEW A, Increasing(A), NEW q, Len(q) \in Nat, NEW u \in Nat, Queued(A, q, u),
         NEW h, QueueTokens(q, h)
  PROVE  /\ h \in [0 .. Len(q) -> Seq(Token)] /\ h[0] = <<>>
         /\ \A n \in 0 .. Len(q) : h[n] \in Seq(Token) /\ Len(h[n]) \in Nat
         /\ \A n \in 1 .. Len(q) : h[n] = h[n - 1] \o Slot(q[n])
  <1>1. /\ h \in [0 .. Len(q) -> Seq(Token)] /\ h[0] = <<>>
        /\ \A n \in 1 .. Len(q) : h[n] = h[n - 1] \o Slot(q[n])
    BY DEF QueueTokens, Concats
  <1>2. \A n \in 0 .. Len(q) : h[n] \in Seq(Token)
    BY <1>1
  <1>3. \A n \in 0 .. Len(q) : Len(h[n]) \in Nat
    BY <1>2, LenProperties
  <1> QED
    BY <1>1, <1>2, <1>3

(* What comes after the tokens of the first n slots are tokens of later slots. *)
TokensAfter(q, h, n, i) ==
  /\ Len(h[n]) <= Len(h[i])
  /\ \A k \in 1 .. Len(h[i]) :
       /\ k <= Len(h[n]) => h[i][k] = h[n][k]
       /\ k > Len(h[n]) => h[i][k].b[1] \in Slots(q, n + 1, i)

LEMMA TokensAfterHold ==
  ASSUME NEW A, Increasing(A), NEW q, Len(q) \in Nat, NEW u \in Nat, Queued(A, q, u),
         NEW h, QueueTokens(q, h), NEW n \in 0 .. Len(q), NEW i \in n .. Len(q)
  PROVE  TokensAfter(q, h, n, i)
  <1> DEFINE Bad == {x \in Nat : x \in n .. Len(q) /\ ~TokensAfter(q, h, n, x)}
  <1> SUFFICES ASSUME i \in Bad PROVE FALSE
    OBVIOUS
  <1>1. Bad \in SUBSET Nat
    OBVIOUS
  <1> HIDE DEF Bad
  <1>2. PICK m \in Bad : \A y \in Bad : m <= y
    BY <1>1, LeastElement
  <1>3. m \in Nat /\ m \in n .. Len(q) /\ ~TokensAfter(q, h, n, m)
    BY <1>2 DEF Bad
  <1>4. m # n
    <2>1. Len(h[n]) \in Nat
      BY QueueTokensType
    <2>2. TokensAfter(q, h, n, n)
      BY <2>1 DEF TokensAfter
    <2> QED
      BY <1>3, <2>2
  <1>5. m - 1 \in Nat /\ m - 1 \in n .. Len(q) /\ ~(m <= m - 1) /\ m \in 1 .. Len(q) /\ m - 1 \in 0 .. Len(q)
    BY <1>3, <1>4
  <1>6. TokensAfter(q, h, n, m - 1)
    <2>1. m - 1 \notin Bad
      BY <1>2, <1>5
    <2> QED
      BY <1>5, <2>1 DEF Bad
  <1> DEFINE s == h[m - 1]
             t == Slot(q[m])
             l == Len(h[n])
  <1>7. /\ s \in Seq(Token) /\ Len(s) \in Nat /\ l \in Nat /\ h[m] = s \o t
        /\ t \in Seq(Token) /\ Len(t) \in Nat
        /\ \A j \in 1 .. Len(t) : q[m] # Null /\ t[j].b[1] = q[m]
    <2>1. t \in Seq(Token) /\ \A j \in 1 .. Len(t) : q[m] # Null /\ t[j].b[1] = q[m]
      BY <1>5, SlotType
    <2>2. s \in Seq(Token) /\ Len(s) \in Nat /\ l \in Nat /\ h[m] = s \o t
      BY <1>5, QueueTokensType
    <2>3. Len(t) \in Nat
      BY <2>1, LenProperties
    <2> QED
      BY <2>1, <2>2, <2>3
  <1>8. /\ l <= Len(s)
        /\ \A k \in 1 .. Len(s) : /\ k <= l => s[k] = h[n][k]
                                  /\ k > l => s[k].b[1] \in Slots(q, n + 1, m - 1)
    BY <1>6 DEF TokensAfter
  <1>9. /\ Len(h[m]) = Len(s) + Len(t)
        /\ \A k \in 1 .. Len(s) + Len(t) : h[m][k] = IF k <= Len(s) THEN s[k] ELSE t[k - Len(s)]
    <2> HIDE DEF s, t
    <2> QED
      BY <1>7, ConcatProperties
  <1>10. Slots(q, n + 1, m - 1) \subseteq Slots(q, n + 1, m) /\ (q[m] # Null => q[m] \in Slots(q, n + 1, m))
    <2>1. m \in n + 1 .. m /\ \A k \in n + 1 .. m - 1 : k \in n + 1 .. m
      BY <1>3, <1>4
    <2> QED
      BY <2>1 DEF Slots
  <1> HIDE DEF s, t
  <1>11. ASSUME NEW k \in 1 .. Len(h[m])
         PROVE  /\ k <= l => h[m][k] = h[n][k]
                /\ k > l => h[m][k].b[1] \in Slots(q, n + 1, m)
    <2>1. CASE k <= Len(s)
      <3>1. k \in 1 .. Len(s) /\ h[m][k] = s[k]
        BY <1>7, <1>9, <2>1
      <3> QED
        BY <1>8, <1>10, <3>1
    <2>2. CASE ~(k <= Len(s))
      <3>1. k - Len(s) \in 1 .. Len(t) /\ h[m][k] = t[k - Len(s)] /\ ~(k <= l)
        BY <1>7, <1>8, <1>9, <2>2
      <3> QED
        BY <1>7, <1>10, <3>1
    <2> QED
      BY <2>1, <2>2
  <1>12. l <= Len(h[m])
    BY <1>7, <1>8, <1>9
  <1> QED
    BY <1>3, <1>11, <1>12 DEF TokensAfter

(* The first n slots of the queue hold the next SDUs, and their tokens span them. *)
Prefix(A, q, u, h, n) ==
  \E m \in u .. Len(A) :
    /\ Slots(q, 1, n) = {A[x] : x \in u + 1 .. m}
    /\ Span(A, h[n], At(u), At(m))
    /\ n > 0 /\ q[n] # Null => m > u /\ A[m] = q[n]
    /\ n = 0 => m = u

LEMMA PrefixQueued ==
  ASSUME NEW A, Increasing(A), NEW q, Len(q) \in Nat, NEW u \in 0 .. Len(A), Queued(A, q, u),
         NEW h, QueueTokens(q, h), NEW n \in 0 .. Len(q)
  PROVE  Prefix(A, q, u, h, n)
  <1> DEFINE N == Len(q)
             Bad == {x \in Nat : x \in 0 .. N /\ ~Prefix(A, q, u, h, x)}
  <1> SUFFICES ASSUME n \in Bad PROVE FALSE
    OBVIOUS
  <1>1. Bad \in SUBSET Nat
    OBVIOUS
  <1> HIDE DEF Bad
  <1>2. PICK i \in Bad : \A y \in Bad : i <= y
    BY <1>1, LeastElement
  <1>3. i \in Nat /\ i \in 0 .. N /\ ~Prefix(A, q, u, h, i)
    BY <1>2 DEF Bad
  <1>4. A \in Seq(1 .. NofSdus) /\ Len(A) \in Nat /\ u \in Nat /\ \A x \in 1 .. Len(A) : A[x] \in 1 .. NofSdus
    <2>1. A \in Seq(1 .. NofSdus)
      BY DEF Increasing
    <2>2. Len(A) \in Nat
      BY <2>1, LenProperties
    <2>3. \A x \in 1 .. Len(A) : A[x] \in 1 .. NofSdus
      BY <2>1, ElementOfSeq
    <2> QED
      BY <2>1, <2>2, <2>3
  <1>5. i # 0
    <2> SUFFICES ASSUME i = 0 PROVE FALSE
      OBVIOUS
    <2>1. h[0] = <<>> /\ At(u) \in Cursor
      BY <1>4, QueueTokensType DEF At, Cursor
    <2>2. Span(A, h[0], At(u), At(u))
      BY <2>1, SpanEmpty
    <2>3. Slots(q, 1, 0) = {A[x] : x \in u + 1 .. u}
      BY <1>4 DEF Slots
    <2>4. u \in u .. Len(A)
      BY <1>4
    <2>5. Prefix(A, q, u, h, 0)
      BY <2>2, <2>3, <2>4 DEF Prefix
    <2> QED
      BY <1>3, <2>5
  <1>6. i - 1 \in Nat /\ i - 1 \in 0 .. N /\ ~(i <= i - 1) /\ i \in 1 .. N
    BY <1>3, <1>5
  <1>7. Prefix(A, q, u, h, i - 1)
    <2>1. i - 1 \notin Bad
      BY <1>2, <1>6
    <2> QED
      BY <1>6, <2>1 DEF Bad
  <1>8. PICK m \in u .. Len(A) : /\ Slots(q, 1, i - 1) = {A[x] : x \in u + 1 .. m}
                                 /\ Span(A, h[i - 1], At(u), At(m))
    BY <1>7 DEF Prefix
  <1>9. h[i] = h[i - 1] \o Slot(q[i]) /\ h[i - 1] \in Seq(Token)
    BY <1>4, <1>6, QueueTokensType
  <1>10. \A y : y \in Slots(q, 1, i) <=> y \in Slots(q, 1, i - 1) \/ (y = q[i] /\ y # Null)
    <2>1. \A k : k \in 1 .. i <=> k \in 1 .. i - 1 \/ k = i
      BY <1>6
    <2> QED
      BY <2>1 DEF Slots
  <1>11. CASE q[i] = Null
    <2>1. h[i] = h[i - 1]
      BY <1>9, <1>11, ConcatEmptySeq DEF Slot
    <2>2. Slots(q, 1, i) = Slots(q, 1, i - 1)
      BY <1>10, <1>11
    <2>3. Prefix(A, q, u, h, i)
      BY <1>5, <1>8, <1>11, <2>1, <2>2 DEF Prefix
    <2> QED
      BY <1>3, <2>3
  <1>12. CASE q[i] # Null
    <2>1. /\ \A j, k \in 1 .. N : j < k /\ q[j] # Null /\ q[k] # Null => q[j] < q[k]
          /\ Slots(q, 1, N) = {A[x] : x \in u + 1 .. Len(A)}
          /\ \A j, k \in 1 .. Len(A) : j < k => A[j] < A[k]
      BY DEF Queued, Increasing
    <2>2. PICK y \in u + 1 .. Len(A) : q[i] = A[y]
      BY <1>6, <1>12, <2>1 DEF Slots
    <2>3. y \in 1 .. Len(A) /\ m \in Nat
      BY <1>4
    <2>4. ~(y <= m)
      <3> SUFFICES ASSUME y <= m PROVE FALSE
        OBVIOUS
      <3>1. A[y] \in Slots(q, 1, i - 1)
        <4>1. y \in u + 1 .. m
          BY <1>4, <2>3
        <4> QED
          BY <1>8, <4>1
      <3>2. PICK k \in 1 .. i - 1 : q[k] = A[y] /\ q[k] # Null
        BY <3>1 DEF Slots
      <3>3. k \in 1 .. N /\ k < i
        BY <1>6
      <3>4. q[k] < q[i]
        BY <1>6, <1>12, <2>1, <3>2, <3>3
      <3>5. A[y] \in Int
        BY <1>4, <2>3
      <3> QED
        BY <2>2, <3>2, <3>4, <3>5
    <2>5. y = m + 1
      <3> SUFFICES ASSUME y # m + 1 PROVE FALSE
        OBVIOUS
      <3>1. m + 1 \in u + 1 .. Len(A) /\ m + 1 \in 1 .. Len(A) /\ m + 1 < y
        BY <1>4, <2>3, <2>4
      <3>2. A[m + 1] < A[y] /\ A[m + 1] \in Int /\ A[y] \in Int
        BY <1>4, <2>1, <2>3, <3>1
      <3>3. PICK j \in 1 .. N : q[j] = A[m + 1] /\ q[j] # Null
        BY <2>1, <3>1 DEF Slots
      <3>4. CASE j = i
        BY <2>2, <3>2, <3>3, <3>4
      <3>5. CASE i < j
        <4>1. q[i] < q[j]
          BY <1>6, <1>12, <2>1, <3>3, <3>5
        <4> QED
          BY <2>2, <3>2, <3>3, <4>1
      <3>6. CASE j < i
        <4>1. j \in 1 .. i - 1
          BY <1>6, <3>6
        <4>2. q[j] \in Slots(q, 1, i - 1)
          BY <3>3, <4>1 DEF Slots
        <4>3. PICK x \in u + 1 .. m : A[x] = A[m + 1]
          BY <1>8, <3>3, <4>2
        <4>4. x \in 1 .. Len(A) /\ x < m + 1
          BY <1>4, <3>1
        <4>5. A[x] < A[m + 1]
          BY <2>1, <3>1, <4>4
        <4> QED
          BY <3>2, <4>3, <4>5
      <3> QED
        BY <1>6, <3>4, <3>5, <3>6
    <2>6. m + 1 \in u .. Len(A) /\ m < Len(A)
      BY <1>4, <2>3, <2>5
    <2>7. Span(A, Slot(q[i]), At(m), At(m + 1))
      <3>1. Slot(q[i]) = Tokens(A[m + 1])
        BY <1>12, <2>2, <2>5 DEF Slot
      <3> QED
        BY <1>4, <2>3, <2>6, <3>1, TokensSpan
    <2>8. Span(A, h[i], At(u), At(m + 1))
      BY <1>8, <1>9, <2>7, SpanConcat
    <2>9. Slots(q, 1, i) = {A[x] : x \in u + 1 .. m + 1}
      <3>1. \A x : x \in u + 1 .. m + 1 <=> x \in u + 1 .. m \/ x = m + 1
        BY <1>4, <2>3
      <3>2. {A[x] : x \in u + 1 .. m + 1} = {A[x] : x \in u + 1 .. m} \union {A[m + 1]}
        BY <3>1
      <3> QED
        BY <1>8, <1>10, <1>12, <2>2, <2>5, <3>2
    <2>10. m + 1 > u
      BY <1>4, <2>3
    <2>11. Prefix(A, q, u, h, i)
      BY <1>5, <2>2, <2>5, <2>6, <2>8, <2>9, <2>10 DEF Prefix
    <2> QED
      BY <1>3, <2>11
  <1> QED
    BY <1>11, <1>12

LEMMA SameRange ==
  ASSUME NEW S, NEW A \in Seq(S), NEW B \in Seq(S), NEW a \in Nat \ {0}, NEW b \in Nat,
         b <= Len(A), b <= Len(B), \A x \in a .. b : B[x] = A[x]
  PROVE  SubSeq(B, a, b) = SubSeq(A, a, b)
  <1>1. a \in Int /\ b \in Int /\ Len(A) \in Nat /\ Len(B) \in Nat
    BY LenProperties
  <1>2. \A x \in a .. b : A[x] \in S /\ B[x] \in S
    <2>1. \A x \in a .. b : x \in 1 .. Len(A) /\ x \in 1 .. Len(B)
      BY <1>1
    <2> QED
      BY <2>1, ElementOfSeq
  <1>3. /\ SubSeq(A, a, b) \in Seq(S) /\ SubSeq(B, a, b) \in Seq(S)
        /\ Len(SubSeq(A, a, b)) = Len(SubSeq(B, a, b))
        /\ Len(SubSeq(A, a, b)) = IF a <= b THEN b - a + 1 ELSE 0
        /\ \A x \in 1 .. b - a + 1 : SubSeq(A, a, b)[x] = A[a + x - 1] /\ SubSeq(B, a, b)[x] = B[a + x - 1]
    BY <1>1, <1>2, SubSeqProperties
  <1>4. ASSUME NEW x \in 1 .. Len(SubSeq(A, a, b)) PROVE SubSeq(B, a, b)[x] = SubSeq(A, a, b)[x]
    <2>1. x \in 1 .. b - a + 1
      BY <1>1, <1>3
    <2>2. a + x - 1 \in a .. b
      BY <1>1, <2>1
    <2>3. B[a + x - 1] = A[a + x - 1]
      BY <2>2
    <2> QED
      BY <1>3, <2>1, <2>3
  <1> QED
    BY <1>3, <1>4, SeqEqual

(* What is left of the queue when its first n slots are taken off. *)
LEMMA QueuedSuffix ==
  ASSUME NEW A, Increasing(A), NEW q, q \in Seq(Range(q)), NEW u \in 0 .. Len(A), Queued(A, q, u),
         NEW n \in 0 .. Len(q), NEW m \in u .. Len(A), Slots(q, 1, n) = {A[x] : x \in u + 1 .. m}
  PROVE  Queued(A, SubSeq(q, n + 1, Len(q)), m)
  <1> DEFINE N == Len(q)
             t == SubSeq(q, n + 1, N)
  <1>1. N \in Nat /\ Len(A) \in Nat /\ u \in Nat /\ m \in Nat
    <2>1. A \in Seq(1 .. NofSdus)
      BY DEF Increasing
    <2>2. N \in Nat /\ Len(A) \in Nat
      BY <2>1, LenProperties
    <2> QED
      BY <2>2
  <1>2. /\ Len(t) = N - n
        /\ \A i \in 1 .. N - n : t[i] = q[n + i]
    <2>1. \A i \in n + 1 .. N : q[i] \in Range(q)
      <3>1. \A i \in n + 1 .. N : i \in 1 .. Len(q)
        BY <1>1
      <3> QED
        BY <3>1, ElementOfSeq
    <2>2. n + 1 \in Int /\ N \in Int
      BY <1>1
    <2>3. /\ Len(t) = IF n + 1 <= N THEN N - (n + 1) + 1 ELSE 0
          /\ \A i \in 1 .. N - (n + 1) + 1 : t[i] = q[n + 1 + i - 1]
      <3> HIDE DEF N
      <3> QED
        BY <2>1, <2>2, SubSeqProperties
    <2>4. Len(t) = N - n
      BY <1>1, <2>3
    <2>5. ASSUME NEW i \in 1 .. N - n PROVE t[i] = q[n + i]
      <3>1. i \in 1 .. N - (n + 1) + 1 /\ n + 1 + i - 1 = n + i
        BY <1>1
      <3> HIDE DEF t, N
      <3>2. t[i] = q[n + 1 + i - 1]
        BY <2>3, <3>1
      <3> QED
        BY <3>1, <3>2
    <2> QED
      BY <2>4, <2>5
  <1>3. /\ Slots(q, 1, N) = {A[x] : x \in u + 1 .. Len(A)}
        /\ \A j, k \in 1 .. N : j < k /\ q[j] # Null /\ q[k] # Null => q[j] < q[k]
        /\ \A j, k \in 1 .. Len(A) : j < k => A[j] < A[k]
    BY DEF Queued, Increasing
  <1>4. \A x \in 1 .. Len(A) : A[x] \in Int
    <2>1. A \in Seq(1 .. NofSdus)
      BY DEF Increasing
    <2>2. \A x \in 1 .. Len(A) : A[x] \in 1 .. NofSdus
      BY <2>1, ElementOfSeq
    <2> QED
      BY <2>2
  <1> HIDE DEF t, N
  <1>5. ASSUME NEW j \in 1 .. Len(t), NEW k \in 1 .. Len(t), j < k, t[j] # Null, t[k] # Null
        PROVE  t[j] < t[k]
    <2>1. n + j \in 1 .. N /\ n + k \in 1 .. N /\ n + j < n + k /\ j \in 1 .. N - n /\ k \in 1 .. N - n
      BY <1>1, <1>2, <1>5
    <2>2. t[j] = q[n + j] /\ t[k] = q[n + k]
      BY <1>2, <2>1
    <2> QED
      BY <1>3, <1>5, <2>1, <2>2
  <1>6. ASSUME NEW y \in Slots(t, 1, Len(t)) PROVE y \in {A[x] : x \in m + 1 .. Len(A)}
    <2>1. PICK k \in 1 .. Len(t) : y = t[k] /\ y # Null
      BY <1>6 DEF Slots
    <2>2. n + k \in 1 .. N /\ k \in 1 .. N - n
      BY <1>1, <1>2
    <2>3. y = q[n + k]
      BY <1>2, <2>1, <2>2
    <2>4. y \in Slots(q, 1, N)
      BY <2>1, <2>2, <2>3 DEF Slots
    <2>5. PICK x \in u + 1 .. Len(A) : y = A[x]
      BY <1>3, <2>4
    <2>6. x \in 1 .. Len(A)
      BY <1>1
    <2>7. ~(x <= m)
      <3> SUFFICES ASSUME x <= m PROVE FALSE
        OBVIOUS
      <3>1. x \in u + 1 .. m
        BY <1>1
      <3>2. y \in Slots(q, 1, n)
        BY <2>5, <3>1
      <3>3. PICK i \in 1 .. n : q[i] = y
        BY <3>2 DEF Slots
      <3>4. i \in 1 .. N /\ i < n + k
        BY <1>1, <2>2, <3>3
      <3>5. q[i] < q[n + k]
        BY <1>3, <2>1, <2>2, <2>3, <3>3, <3>4
      <3> QED
        BY <1>4, <2>3, <2>5, <2>6, <3>3, <3>5
    <2>8. x \in m + 1 .. Len(A)
      BY <1>1, <2>6, <2>7
    <2> QED
      BY <2>5, <2>8
  <1>7. ASSUME NEW y \in {A[x] : x \in m + 1 .. Len(A)} PROVE y \in Slots(t, 1, Len(t))
    <2>1. PICK x \in m + 1 .. Len(A) : y = A[x]
      BY <1>7
    <2>2. x \in u + 1 .. Len(A) /\ x \in 1 .. Len(A)
      BY <1>1
    <2>3. PICK k \in 1 .. N : y = q[k] /\ y # Null
      BY <1>3, <2>1, <2>2 DEF Slots
    <2>4. ~(k <= n)
      <3> SUFFICES ASSUME k <= n PROVE FALSE
        OBVIOUS
      <3>1. k \in 1 .. n
        BY <1>1
      <3>2. y \in Slots(q, 1, n)
        BY <2>3, <3>1 DEF Slots
      <3>3. PICK i \in u + 1 .. m : y = A[i]
        BY <3>2
      <3>4. i \in 1 .. Len(A) /\ i < x
        BY <1>1, <2>1
      <3>5. A[i] < A[x]
        BY <1>3, <2>2, <3>4
      <3> QED
        BY <1>4, <2>1, <2>2, <3>3, <3>5
    <2>5. k - n \in 1 .. N - n /\ n + (k - n) = k
      BY <1>1, <2>4
    <2>6. t[k - n] = q[k] /\ k - n \in 1 .. Len(t)
      BY <1>2, <2>5
    <2> QED
      BY <2>3, <2>6 DEF Slots
  <1>8. Slots(t, 1, Len(t)) = {A[x] : x \in m + 1 .. Len(A)}
    BY <1>6, <1>7
  <1> QED
    BY <1>5, <1>8 DEF Queued, t, N

(* A PDU without payload fits between two SDUs. *)
LEMMA EmptySpan ==
  ASSUME NEW A, NEW n \in Nat
  PROVE  Span(A, <<EmptyToken>>, At(n), At(n))
  <1> DEFINE c == At(n)
             s == <<EmptyToken>>
             f == [i \in 0 .. 1 |-> c]
  <1>1. c \in Cursor /\ c.part = 0
    BY DEF At, Cursor
  <1>2. EmptyToken \in Token
    <2>1. NoByte \in Nat \X Nat
      BY DEF NoByte
    <2> QED
      BY <2>1 DEF EmptyToken, Token
  <1> HIDE DEF c
  <1>3. s \in Seq(Token) /\ Len(s) = 1 /\ s[1] = EmptyToken
    BY <1>2
  <1>4. \A i \in 1 .. 1 : i - 1 = 0 /\ i = 1
    OBVIOUS
  <1>5. f \in [0 .. 1 -> Cursor] /\ f[0] = c /\ f[1] = c
    BY <1>1
  <1> HIDE DEF s, f
  <1>6. Path(A, s, c, c, f)
    BY <1>1, <1>3, <1>4, <1>5 DEF Path, StepTo
  <1> QED
    BY <1>3, <1>6 DEF Span, s, c

-----------------------------------------------------------------------------
(* What build_data_pdu takes from what is left, s, of an SDU and from the queue q *)

PackStream(s, q) == s \o QueuedTokens(q)

PackLen(s, q, g) == IF g < Len(PackStream(s, q)) THEN g ELSE Len(PackStream(s, q))

PackTaken(s, q, g) == SubSeq(PackStream(s, q), 1, PackLen(s, q, g))

PackSdus(s, q, g) == {t.b[1] : t \in ToSet(PackTaken(s, q, g))}

PackReadTo(s, q, g) ==
  LET slots == {k \in 1 .. Len(q) : q[k] \in PackSdus(s, q, g)}
  IN  IF slots = {} THEN 0 ELSE CHOOSE k \in slots : \A j \in slots : j <= k

PackBegun(s, q, g) ==
  {k \in PackLen(s, q, g) + 1 .. Len(PackStream(s, q)) :
     PackStream(s, q)[k].b[1] \in PackSdus(s, q, g)}

PackLeft(s, q, g) ==
  SubSeq(PackStream(s, q), PackLen(s, q, g) + 1, Max(PackBegun(s, q, g) \union {PackLen(s, q, g)}))

PackData(s, q, g) ==
  IF PackTaken(s, q, g) = <<>> THEN <<[b |-> NoByte, e |-> TRUE]>> ELSE PackTaken(s, q, g)

(* The queue is cut after the slot n where the last SDU of the PDU ends: z tokens of the
   stream come from s and the slots up to n, and they reach the end of the first m SDUs. *)
Cut(A, q, u, s, g, h, n, z, m) ==
  /\ h[n] \in Seq(Token) /\ z = Len(s) + Len(h[n])
  /\ PackLen(s, q, g) \in 0 .. z /\ z <= Len(PackStream(s, q))
  /\ PackStream(s, q) \in Seq(Token)
  /\ PackLen(s, q, g) = 0 => Len(PackStream(s, q)) = 0
  /\ \A k \in 1 .. z : PackStream(s, q)[k] = (s \o h[n])[k]
  /\ \A k \in 1 .. z : \/ u > 0 /\ PackStream(s, q)[k].b[1] = A[u]
                       \/ PackStream(s, q)[k].b[1] \in Slots(q, 1, n)
  /\ \A k \in z + 1 .. Len(PackStream(s, q)) :
       PackStream(s, q)[k].b[1] \in Slots(q, n + 1, Len(q))
  /\ Slots(q, 1, n) = {A[x] : x \in u + 1 .. m}
  /\ Span(A, h[n], At(u), At(m))
  /\ \A k \in PackLen(s, q, g) + 1 .. z : m > 0 /\ PackStream(s, q)[k].b[1] = A[m]
  /\ n > 0 \/ PackLen(s, q, g) < z =>
       PackLen(s, q, g) > 0 /\ PackStream(s, q)[PackLen(s, q, g)].b[1] = A[m]
  /\ n > 0 => q[n] = A[m]

LEMMA PastOffset ==
  ASSUME NEW L \in Nat, NEW a \in Nat, NEW b \in Nat, NEW k \in L + a + 1 .. L + b
  PROVE  k \in 1 .. L + b /\ ~(k <= L) /\ k - L \in 1 .. b /\ k - L > a
  OBVIOUS

LEMMA PacksCut ==
  ASSUME NEW A, Increasing(A), NEW q, q \in Seq(Range(q)), NEW u \in 0 .. Len(A), Queued(A, q, u),
         NEW s \in Seq(Token), \A k \in 1 .. Len(s) : u > 0 /\ s[k].b[1] = A[u],
         NEW g \in Nat \ {0}, NEW h, QueueTokens(q, h), QueuedTokens(q) = h[Len(q)]
  PROVE  \E n \in 0 .. Len(q), z \in Nat, m \in u .. Len(A) : Cut(A, q, u, s, g, h, n, z, m)
  <1> DEFINE N == Len(q)
             S == PackStream(s, q)
             len == PackLen(s, q, g)
             L == Len(s)
             H == [k \in 0 .. N |-> Len(h[k])]
  <1>1. /\ N \in Nat /\ Len(A) \in Nat /\ u \in Nat /\ L \in Nat
    <2>1. A \in Seq(1 .. NofSdus)
      BY DEF Increasing
    <2>2. N \in Nat /\ Len(A) \in Nat /\ L \in Nat
      BY <2>1, LenProperties
    <2> QED
      BY <2>2
  <1>2. /\ h[0] = <<>> /\ \A n \in 0 .. N : h[n] \in Seq(Token) /\ H[n] \in Nat
        /\ \A n \in 1 .. N : h[n] = h[n - 1] \o Slot(q[n])
    BY <1>1, QueueTokensType
  <1>h. \A k \in 0 .. N : H[k] = Len(h[k])
    BY <1>1
  <1> HIDE DEF H
  <1>3. /\ S \in Seq(Token) /\ Len(S) = L + H[N]
        /\ \A i \in 1 .. L + H[N] : S[i] = IF i <= L THEN s[i] ELSE h[N][i - L]
    <2>1. h[N] \in Seq(Token) /\ S = s \o h[N]
      BY <1>1, <1>2 DEF PackStream
    <2>2. H[N] = Len(h[N])
      BY <1>1, <1>h
    <2> HIDE DEF S, N
    <2> QED
      BY <2>1, <2>2, ConcatProperties
  <1>4. H[N] \in Nat
    BY <1>1, <1>2
  <1>5. len = IF g < Len(S) THEN g ELSE Len(S)
    BY DEF PackLen
  <1> HIDE DEF N, S, len, L
  <1>6. /\ len \in 0 .. L + H[N] /\ (len = 0 => Len(S) = 0)
    BY <1>1, <1>3, <1>4, <1>5
  <1> DEFINE C == {k \in 0 .. N : len <= L + H[k]}
  <1>7. PICK n \in C : \A k \in C : n <= k
    <2>1. C \in SUBSET Nat /\ N \in C
      BY <1>1, <1>6
    <2> HIDE DEF C
    <2> QED
      BY <2>1, LeastElement
  <1>8. n \in 0 .. N /\ n \in Nat /\ len <= L + H[n] /\ H[n] \in Nat /\ h[n] \in Seq(Token)
    BY <1>1, <1>2, <1>7
  <1> DEFINE z == L + H[n]
  <1>9. z \in Nat /\ len \in 0 .. z /\ z = L + H[n] /\ H[n] = Len(h[n])
    BY <1>1, <1>6, <1>8, <1>h
  <1> HIDE DEF z
  <1>10. TokensAfter(q, h, n, N)
    <2>1. N \in n .. N
      BY <1>1, <1>8
    <2> QED
      BY <1>1, <1>8, <2>1, TokensAfterHold DEF N
  <1>11. /\ H[n] <= H[N]
         /\ \A k \in 1 .. H[N] : /\ k <= H[n] => h[N][k] = h[n][k]
                                 /\ k > H[n] => h[N][k].b[1] \in Slots(q, n + 1, N)
    <2>1. H[N] = Len(h[N]) /\ H[n] = Len(h[n])
      BY <1>1, <1>8, <1>h
    <2> QED
      BY <1>10, <2>1 DEF TokensAfter
  <1>12. /\ s \o h[n] \in Seq(Token) /\ Len(s \o h[n]) = z
         /\ \A i \in 1 .. z : (s \o h[n])[i] = IF i <= L THEN s[i] ELSE h[n][i - L]
    BY <1>8, <1>9, ConcatProperties DEF L
  <1>13. z <= Len(S)
    BY <1>1, <1>3, <1>4, <1>8, <1>9, <1>11
  <1>14. ASSUME NEW k \in 1 .. z PROVE k \in 1 .. L + H[N] /\ S[k] = (s \o h[n])[k]
    <2>1. k \in 1 .. L + H[N]
      BY <1>1, <1>4, <1>8, <1>9, <1>11
    <2>2. CASE k <= L
      BY <1>3, <1>12, <2>1, <2>2
    <2>3. CASE ~(k <= L)
      <3>1. k - L \in 1 .. H[N] /\ k - L <= H[n]
        BY <1>1, <1>4, <1>8, <1>9, <2>1, <2>3
      <3> QED
        BY <1>3, <1>11, <1>12, <2>1, <2>3, <3>1
    <2> QED
      BY <2>1, <2>2, <2>3
  <1>15. ASSUME NEW k \in z + 1 .. Len(S) PROVE S[k].b[1] \in Slots(q, n + 1, N)
    <2>1. k \in 1 .. L + H[N] /\ ~(k <= L) /\ k - L \in 1 .. H[N] /\ k - L > H[n]
      <3>1. k \in L + H[n] + 1 .. L + H[N]
        BY <1>3, <1>9
      <3> QED
        BY <1>1, <1>4, <1>8, <3>1, PastOffset
    <2> QED
      BY <1>3, <1>11, <2>1
  <1>16. PICK m \in u .. Len(A) :
           /\ Slots(q, 1, n) = {A[x] : x \in u + 1 .. m}
           /\ Span(A, h[n], At(u), At(m))
           /\ n > 0 /\ q[n] # Null => m > u /\ A[m] = q[n]
           /\ n = 0 => m = u
    <2>1. Prefix(A, q, u, h, n)
      BY <1>1, <1>8, PrefixQueued DEF N
    <2> QED
      BY <2>1 DEF Prefix
  <1>17. ASSUME NEW k \in 1 .. z
         PROVE  (u > 0 /\ S[k].b[1] = A[u]) \/ S[k].b[1] \in Slots(q, 1, n)
    <2>1. CASE k <= L
      <3>1. S[k] = s[k] /\ k \in 1 .. Len(s)
        BY <1>1, <1>12, <1>14, <2>1 DEF L
      <3> QED
        BY <3>1
    <2>2. CASE ~(k <= L)
      <3>1. k - L \in 1 .. H[n] /\ S[k] = h[n][k - L]
        <4>1. k \in L + 0 + 1 .. L + H[n] /\ 0 \in Nat
          BY <1>1, <1>8, <1>9, <2>2
        <4>2. ~(k <= L) /\ k - L \in 1 .. H[n]
          BY <1>1, <1>8, <4>1, PastOffset
        <4>3. S[k] = (s \o h[n])[k]
          BY <1>14
        <4>4. (s \o h[n])[k] = h[n][k - L]
          BY <1>12, <4>2
        <4> QED
          BY <4>2, <4>3, <4>4
      <3>2. TokensAfter(q, h, 0, n)
        <4>1. 0 \in 0 .. N /\ n \in 0 .. N
          BY <1>1, <1>8
        <4> QED
          BY <1>1, <4>1, TokensAfterHold DEF N
      <3>3. Len(h[0]) = 0
        BY <1>2
      <3>4. k - L > Len(h[0])
        BY <1>8, <3>1, <3>3
      <3>5. h[n][k - L].b[1] \in Slots(q, 0 + 1, n)
        <4>1. k - L \in 1 .. Len(h[n])
          BY <1>9, <3>1
        <4> QED
          BY <3>2, <3>4, <4>1 DEF TokensAfter
      <3>6. 0 + 1 = 1
        OBVIOUS
      <3> QED
        BY <3>1, <3>5, <3>6
    <2> QED
      BY <2>1, <2>2
  <1>18. CASE n = 0
    <2>1. z = L /\ m = u
      <3>1. H[0] = 0
        BY <1>2, <1>h, <1>1
      <3> QED
        BY <1>1, <1>9, <1>16, <1>18, <3>1
    <2>2. ASSUME NEW k \in 1 .. z PROVE m > 0 /\ S[k].b[1] = A[m]
      <3>1. S[k] = s[k] /\ k \in 1 .. Len(s)
        BY <1>1, <1>12, <1>14, <2>1 DEF L
      <3> QED
        BY <2>1, <3>1
    <2>3. \A k \in len + 1 .. z : k \in 1 .. z
      BY <1>9
    <2>4. len < z => len > 0 /\ len \in 1 .. z
      BY <1>6, <1>9, <1>13
    <2>6. ~(n > 0) /\ (len < z => len > 0 /\ S[len].b[1] = A[m])
      BY <1>18, <2>2, <2>4
    <2>7. \A k \in len + 1 .. z : m > 0 /\ S[k].b[1] = A[m]
      BY <2>2, <2>3
    <2>5. Cut(A, q, u, s, g, h, n, z, m)
      BY <1>3, <1>6, <1>8, <1>9, <1>13, <1>14, <1>15, <1>16, <1>17, <2>6, <2>7
         DEF Cut, S, N, L, len
    <2> QED
      BY <1>8, <1>9, <2>5 DEF N
  <1>19. CASE n # 0
    <2>1. n - 1 \in 0 .. N /\ n \in 1 .. N /\ n - 1 \in Nat /\ ~(n <= n - 1) /\ n \in n - 1 .. N /\ n > 0
      BY <1>1, <1>8, <1>19
    <2>2. H[n - 1] \in Nat /\ h[n - 1] \in Seq(Token) /\ h[n] = h[n - 1] \o Slot(q[n])
      BY <1>2, <2>1
    <2>3. ~(len <= L + H[n - 1])
      <3>1. n - 1 \notin C
        BY <1>7, <2>1
      <3> QED
        BY <2>1, <3>1
    <2> DEFINE b == L + H[n - 1]
    <2>b. b \in Nat /\ len > b
      BY <1>1, <1>9, <2>2, <2>3
    <2>4. q[n] # Null
      <3> SUFFICES ASSUME q[n] = Null PROVE FALSE
        OBVIOUS
      <3>1. h[n] = h[n - 1]
        BY <2>2, ConcatEmptySeq DEF Slot
      <3> QED
        BY <1>8, <1>9, <1>h, <2>1, <2>3, <3>1
    <2>5. m > u /\ A[m] = q[n] /\ m > 0
      BY <1>1, <1>16, <2>1, <2>4
    <2>6. TokensAfter(q, h, n - 1, n)
      BY <1>1, <2>1, TokensAfterHold DEF N
    <2>7. ASSUME NEW k \in 1 .. z, k > b PROVE S[k].b[1] = A[m]
      <3>1. ~(k <= L) /\ k - L \in 1 .. H[n] /\ k - L > H[n - 1]
        <4>1. k \in L + H[n - 1] + 1 .. L + H[n]
          <5> HIDE DEF b
          <5>1. k \in b + 1 .. z
            BY <1>9, <2>7, <2>b
          <5> QED
            BY <1>9, <5>1 DEF b
        <4> QED
          BY <1>1, <1>8, <2>2, <4>1, PastOffset
      <3>2. S[k] = h[n][k - L]
        BY <1>12, <1>14, <3>1
      <3>3. h[n][k - L].b[1] \in Slots(q, n - 1 + 1, n)
        BY <1>h, <1>9, <2>1, <2>6, <3>1 DEF TokensAfter
      <3>4. \A y \in Slots(q, n - 1 + 1, n) : y = q[n]
        <4>1. \A x \in n - 1 + 1 .. n : x = n
          BY <1>8
        <4> QED
          BY <4>1 DEF Slots
      <3> QED
        BY <2>5, <3>2, <3>3, <3>4
    <2>8. \A k \in len + 1 .. z : k \in 1 .. z /\ k > b
      <3> HIDE DEF b
      <3> QED
        BY <1>9, <2>b
    <2>9. len > 0 /\ len \in 1 .. z /\ len > b
      <3> HIDE DEF b
      <3> QED
        BY <1>9, <2>b
    <2>11. (\A k \in len + 1 .. z : m > 0 /\ S[k].b[1] = A[m]) /\ len > 0 /\ S[len].b[1] = A[m]
      <3> HIDE DEF b
      <3> QED
        BY <2>5, <2>7, <2>8, <2>9
    <2>10. Cut(A, q, u, s, g, h, n, z, m)
      BY <1>3, <1>6, <1>8, <1>9, <1>13, <1>14, <1>15, <1>16, <1>17, <2>5, <2>11
         DEF Cut, S, N, L, len
    <2> QED
      BY <1>8, <1>9, <2>10 DEF N
  <1> QED
    BY <1>18, <1>19

(* No SDU of the PDU is in a slot after the cut. *)
LEMMA LaterNotPacked ==
  ASSUME NEW A, Increasing(A), NEW q, Len(q) \in Nat, NEW u \in 0 .. Len(A), Queued(A, q, u),
         NEW s, NEW g, NEW h, NEW n \in 0 .. Len(q), NEW z \in Nat, NEW m \in u .. Len(A),
         Cut(A, q, u, s, g, h, n, z, m)
  PROVE  /\ PackSdus(s, q, g) = {PackStream(s, q)[x].b[1] : x \in 1 .. PackLen(s, q, g)}
         /\ Null \notin PackSdus(s, q, g)
         /\ \A y \in Slots(q, n + 1, Len(q)) : y \notin PackSdus(s, q, g)
  <1> DEFINE S == PackStream(s, q)
             len == PackLen(s, q, g)
             N == Len(q)
  <1>1. /\ S \in Seq(Token) /\ len \in 0 .. z /\ z <= Len(S) /\ Len(S) \in Nat
        /\ \A k \in 1 .. z : (u > 0 /\ S[k].b[1] = A[u]) \/ S[k].b[1] \in Slots(q, 1, n)
    BY LenProperties DEF Cut
  <1>2. /\ A \in Seq(1 .. NofSdus) /\ Len(A) \in Nat /\ u \in Nat
        /\ \A x \in 1 .. Len(A) : A[x] \in 1 .. NofSdus
        /\ \A j, k \in 1 .. Len(A) : j < k => A[j] < A[k]
    <2>1. A \in Seq(1 .. NofSdus)
      BY DEF Increasing
    <2>2. Len(A) \in Nat
      BY <2>1, LenProperties
    <2>3. \A x \in 1 .. Len(A) : A[x] \in 1 .. NofSdus
      BY <2>1, ElementOfSeq
    <2> QED
      BY <2>1, <2>2, <2>3 DEF Increasing
  <1>3. /\ Slots(q, 1, N) = {A[x] : x \in u + 1 .. Len(A)}
        /\ \A j, k \in 1 .. N : j < k /\ q[j] # Null /\ q[k] # Null => q[j] < q[k]
    BY DEF Queued
  <1>4. PackSdus(s, q, g) = {S[x].b[1] : x \in 1 .. len}
    <2>1. /\ Len(SubSeq(S, 1, len)) = len
          /\ \A x \in 1 .. len : SubSeq(S, 1, len)[x] = S[x]
          /\ DOMAIN SubSeq(S, 1, len) = 1 .. len
      <3> HIDE DEF S, len
      <3>1. 1 \in Int /\ len \in Int /\ \A x \in 1 .. len : S[x] \in Token
        <4>1. \A x \in 1 .. len : x \in 1 .. Len(S)
          BY <1>1
        <4> QED
          BY <1>1, <4>1, ElementOfSeq
      <3>2. /\ SubSeq(S, 1, len) \in Seq(Token)
            /\ Len(SubSeq(S, 1, len)) = IF 1 <= len THEN len - 1 + 1 ELSE 0
            /\ \A x \in 1 .. len - 1 + 1 : SubSeq(S, 1, len)[x] = S[1 + x - 1]
        BY <3>1, SubSeqProperties
      <3>3. Len(SubSeq(S, 1, len)) = len /\ len - 1 + 1 = len
        BY <1>1, <3>2
      <3>4. \A x \in 1 .. len : SubSeq(S, 1, len)[x] = S[x]
        <4>1. \A x \in 1 .. len : 1 + x - 1 = x
          OBVIOUS
        <4> QED
          BY <3>2, <3>3, <4>1
      <3>5. DOMAIN SubSeq(S, 1, len) = 1 .. len
        BY <3>2, <3>3, LenProperties
      <3> QED
        BY <3>3, <3>4, <3>5
    <2> HIDE DEF S, len
    <2>2. ToSet(SubSeq(S, 1, len)) = {S[x] : x \in 1 .. len}
      BY <2>1 DEF ToSet
    <2> QED
      BY <2>2 DEF PackSdus, PackTaken, S, len
  <1> HIDE DEF S, len
  <1>5. ASSUME NEW y \in PackSdus(s, q, g)
        PROVE  y # Null /\ y \notin Slots(q, n + 1, N)
    <2>1. PICK x \in 1 .. len : y = S[x].b[1]
      BY <1>4, <1>5
    <2>2. x \in 1 .. z
      BY <1>1
    <2>3. CASE u > 0 /\ y = A[u]
      <3>1. u \in 1 .. Len(A)
        BY <1>2, <2>3
      <3>2. y # Null /\ y \in Nat
        BY <1>2, <2>3, <3>1 DEF Null
      <3>3. ASSUME NEW k \in n + 1 .. N, q[k] = y PROVE FALSE
        <4>1. k \in 1 .. N
          BY <3>3
        <4>2. y \in Slots(q, 1, N)
          BY <3>2, <3>3, <4>1 DEF Slots
        <4>3. PICK j \in u + 1 .. Len(A) : y = A[j]
          BY <1>3, <4>2
        <4>4. j \in 1 .. Len(A) /\ u < j
          BY <1>2
        <4>5. A[u] < A[j]
          BY <1>2, <3>1, <4>4
        <4> QED
          BY <2>3, <3>2, <4>3, <4>5
      <3> QED
        BY <3>2, <3>3 DEF Slots
    <2>4. CASE y \in Slots(q, 1, n)
      <3>1. PICK j \in 1 .. n : y = q[j] /\ y # Null
        BY <2>4 DEF Slots
      <3>2. y \in Nat
        <4>1. j \in 1 .. N
          BY <3>1
        <4>2. y \in {A[x1] : x1 \in u + 1 .. Len(A)}
          BY <1>3, <3>1, <4>1 DEF Slots
        <4>3. \A x1 \in u + 1 .. Len(A) : x1 \in 1 .. Len(A)
          BY <1>2
        <4> QED
          BY <1>2, <4>2, <4>3
      <3>3. ASSUME NEW k \in n + 1 .. N, q[k] = y PROVE FALSE
        <4>1. j \in 1 .. N /\ k \in 1 .. N /\ j < k
          BY <3>3
        <4>2. q[j] < q[k]
          BY <1>3, <3>1, <3>3, <4>1
        <4> QED
          BY <3>1, <3>2, <3>3, <4>2
      <3> QED
        BY <3>1, <3>3 DEF Slots
    <2> QED
      BY <1>1, <2>1, <2>2, <2>3, <2>4
  <1> QED
    BY <1>4, <1>5 DEF S, len

(* The PDU takes the slots up to the cut and leaves the rest of its last SDU. *)
LEMMA PackedAre ==
  ASSUME NEW A, Increasing(A), NEW q, Len(q) \in Nat, NEW u \in 0 .. Len(A), Queued(A, q, u),
         NEW s, NEW g, NEW h, NEW n \in 0 .. Len(q), NEW z \in Nat, NEW m \in u .. Len(A),
         Cut(A, q, u, s, g, h, n, z, m)
  PROVE  /\ PackReadTo(s, q, g) = n
         /\ PackLeft(s, q, g) = SubSeq(PackStream(s, q), PackLen(s, q, g) + 1, z)
  <1> DEFINE S == PackStream(s, q)
             len == PackLen(s, q, g)
             N == Len(q)
             sdus == PackSdus(s, q, g)
             slots == {k \in 1 .. N : q[k] \in sdus}
             begun == {k \in len + 1 .. Len(S) : S[k].b[1] \in sdus}
  <1>1. /\ len \in 0 .. z /\ z <= Len(S) /\ Len(S) \in Nat
        /\ \A k \in z + 1 .. Len(S) : S[k].b[1] \in Slots(q, n + 1, N)
        /\ \A k \in len + 1 .. z : m > 0 /\ S[k].b[1] = A[m]
        /\ n > 0 \/ len < z => len > 0 /\ S[len].b[1] = A[m]
        /\ n > 0 => q[n] = A[m]
    BY LenProperties DEF Cut
  <1>2. /\ sdus = {S[x].b[1] : x \in 1 .. len} /\ Null \notin sdus
        /\ \A y \in Slots(q, n + 1, N) : y \notin sdus
    BY LaterNotPacked
  <1>3. n > 0 \/ len < z => A[m] \in sdus
    <2>1. len > 0 => len \in 1 .. len
      BY <1>1
    <2> QED
      BY <1>1, <1>2, <2>1
  <1>4. PackReadTo(s, q, g) = IF slots = {} THEN 0 ELSE CHOOSE k \in slots : \A j \in slots : j <= k
    BY DEF PackReadTo
  <1>5. PackLeft(s, q, g) = SubSeq(S, len + 1, Max(begun \union {len}))
    BY DEF PackLeft, PackBegun
  <1> HIDE DEF S, len, sdus
  <1>6. \A k \in slots : k <= n
    <2> SUFFICES ASSUME NEW k \in slots, ~(k <= n) PROVE FALSE
      OBVIOUS
    <2>1. k \in n + 1 .. N /\ q[k] \in sdus /\ q[k] # Null
      BY <1>2
    <2> QED
      BY <1>2, <2>1 DEF Slots
  <1>7. PackReadTo(s, q, g) = n
    <2>1. CASE n = 0
      <3>1. slots = {}
        BY <1>6, <2>1
      <3> QED
        BY <1>4, <2>1, <3>1
    <2>2. CASE n # 0
      <3>1. n \in slots /\ slots # {}
        BY <1>1, <1>3, <2>2
      <3>2. slots \subseteq Nat
        OBVIOUS
      <3> HIDE DEF slots
      <3>3. \A k \in slots : (\A j \in slots : j <= k) => k = n
        BY <1>6, <3>1, <3>2
      <3> QED
        BY <1>4, <1>6, <3>1, <3>3
    <2> QED
      BY <2>1, <2>2
  <1>8. Max(begun \union {len}) = z
    <2>1. begun \union {len} \in SUBSET Int
      BY <1>1
    <2>2. z \in begun \union {len}
      <3>1. CASE z = len
        BY <3>1
      <3>2. CASE z # len
        <4>1. z \in len + 1 .. z /\ z \in len + 1 .. Len(S) /\ len < z
          BY <1>1, <3>2
        <4> QED
          BY <1>1, <1>3, <4>1
      <3> QED
        BY <3>1, <3>2
    <2>3. \A x \in begun \union {len} : x <= z
      <3> SUFFICES ASSUME NEW x \in begun \union {len}, ~(x <= z) PROVE FALSE
        OBVIOUS
      <3>1. x \in begun /\ x \in z + 1 .. Len(S)
        BY <1>1
      <3> QED
        BY <1>1, <1>2, <3>1
    <2> HIDE DEF begun
    <2> QED
      BY <2>1, <2>2, <2>3, MaxIsGreatest
  <1> QED
    BY <1>5, <1>7, <1>8 DEF S, len

(* build_data_pdu: the PDU continues the stream, what is left of its last SDU
   continues the PDU, and the queue what is left.                            *)
LEMMA PacksNext ==
  ASSUME NEW A, Increasing(A), NEW q, q \in Seq(Range(q)), NEW u \in 0 .. Len(A), Queued(A, q, u),
         NEW s, NEW c, Span(A, s, c, At(u)), \A k \in 1 .. Len(s) : u > 0 /\ s[k].b[1] = A[u],
         NEW g \in Nat \ {0}
  PROVE  \E m \in 0 .. Len(A) : \E b :
           /\ Span(A, PackData(s, q, g), c, b) /\ Span(A, PackLeft(s, q, g), b, At(m))
           /\ \A k \in 1 .. Len(PackLeft(s, q, g)) : m > 0 /\ PackLeft(s, q, g)[k].b[1] = A[m]
           /\ Queued(A, SubSeq(q, PackReadTo(s, q, g) + 1, Len(q)), m)
  <1> DEFINE S == PackStream(s, q)
             len == PackLen(s, q, g)
             taken == PackTaken(s, q, g)
             left == PackLeft(s, q, g)
  <1>1. s \in Seq(Token) /\ Len(q) \in Nat /\ u \in Nat
    BY SpanEnds, LenProperties
  <1>2. PICK h : QueueTokens(q, h) /\ QueuedTokens(q) = h[Len(q)]
    BY <1>1, QueuedTokensAre
  <1>3. PICK n \in 0 .. Len(q), z \in Nat, m \in u .. Len(A) : Cut(A, q, u, s, g, h, n, z, m)
    BY <1>1, <1>2, PacksCut
  <1> DEFINE T == s \o h[n]
  <1>4. /\ h[n] \in Seq(Token) /\ z = Len(s) + Len(h[n]) /\ len \in 0 .. z /\ z <= Len(S)
        /\ S \in Seq(Token) /\ \A k \in 1 .. z : S[k] = T[k]
        /\ \A k \in len + 1 .. z : m > 0 /\ S[k].b[1] = A[m]
        /\ Span(A, h[n], At(u), At(m)) /\ Slots(q, 1, n) = {A[x] : x \in u + 1 .. m}
    BY <1>3 DEF Cut
  <1>5. PackReadTo(s, q, g) = n /\ left = SubSeq(S, len + 1, z) /\ taken = SubSeq(S, 1, len)
    <2>1. taken = SubSeq(S, 1, len)
      BY DEF PackTaken
    <2>2. PackReadTo(s, q, g) = n /\ PackLeft(s, q, g) = SubSeq(PackStream(s, q), PackLen(s, q, g) + 1, z)
      <3> HIDE DEF S, len, left
      <3> QED
        BY <1>1, <1>3, PackedAre
    <2> QED
      BY <2>1, <2>2
  <1>6. T \in Seq(Token) /\ Len(T) = z /\ Span(A, T, c, At(m))
    <2>1. Span(A, T, c, At(m))
      BY <1>4, SpanConcat
    <2> QED
      BY <1>1, <1>4, <2>1, ConcatProperties
  <1>7. Len(S) \in Nat
    BY <1>4, LenProperties
  <1> HIDE DEF S, len, T, left, taken
  <1>8. PICK b : Span(A, SubSeq(T, 1, len), c, b) /\ Span(A, SubSeq(T, len + 1, z), b, At(m))
    BY <1>4, <1>6, SpanSplit
  <1>9. SubSeq(S, 1, len) = SubSeq(T, 1, len) /\ SubSeq(S, len + 1, z) = SubSeq(T, len + 1, z)
    <2>1. /\ 1 \in Nat \ {0} /\ len + 1 \in Nat \ {0} /\ len \in Nat
          /\ len <= Len(T) /\ len <= Len(S) /\ z <= Len(T)
      BY <1>4, <1>6, <1>7
    <2>2. (\A x \in 1 .. len : S[x] = T[x]) /\ (\A x \in len + 1 .. z : S[x] = T[x])
      <3>1. (\A x \in 1 .. len : x \in 1 .. z) /\ (\A x \in len + 1 .. z : x \in 1 .. z)
        BY <1>4
      <3> QED
        BY <1>4, <3>1
    <2>3. SubSeq(S, 1, len) = SubSeq(T, 1, len)
      BY <1>4, <1>6, <2>1, <2>2, SameRange
    <2>4. SubSeq(S, len + 1, z) = SubSeq(T, len + 1, z)
      BY <1>4, <1>6, <2>1, <2>2, SameRange
    <2> QED
      BY <2>3, <2>4
  <1>10. Span(A, taken, c, b) /\ Span(A, left, b, At(m))
    BY <1>5, <1>8, <1>9
  <1>11. \A k \in 1 .. Len(left) : m > 0 /\ left[k].b[1] = A[m]
    <2>1. \A x \in len + 1 .. z : S[x] \in Token
      <3>1. \A x \in len + 1 .. z : x \in 1 .. Len(S)
        BY <1>4, <1>7
      <3> QED
        BY <1>4, <3>1, ElementOfSeq
    <2>2. len + 1 \in Int /\ z \in Int
      BY <1>4
    <2>3. /\ Len(left) = IF len + 1 <= z THEN z - (len + 1) + 1 ELSE 0
          /\ \A x \in 1 .. z - (len + 1) + 1 : left[x] = S[len + 1 + x - 1]
      BY <1>5, <2>1, <2>2, SubSeqProperties
    <2>4. ASSUME NEW k \in 1 .. Len(left) PROVE m > 0 /\ left[k].b[1] = A[m]
      <3>1. Len(left) = IF len + 1 <= z THEN z - (len + 1) + 1 ELSE 0
        BY <2>3
      <3>2. k \in 1 .. z - (len + 1) + 1 /\ len + 1 + k - 1 \in len + 1 .. z
        BY <1>4, <3>1
      <3>3. left[k] = S[len + 1 + k - 1]
        BY <2>3, <3>2
      <3> QED
        BY <1>4, <3>2, <3>3
    <2> QED
      BY <2>4
  <1>12. Queued(A, SubSeq(q, PackReadTo(s, q, g) + 1, Len(q)), m)
    BY <1>4, <1>5, QueuedSuffix
  <1>13. Span(A, PackData(s, q, g), c, b)
    <2>1. CASE taken = <<>>
      <3>1. PackData(s, q, g) = <<EmptyToken>>
        BY <2>1 DEF PackData, EmptyToken, taken
      <3>2. c \in Cursor /\ b = c
        BY <1>10, <2>1, SpanEnds, SpanEmpty
      <3>3. z = 0
        <4>1. len = 0
          <5>1. \A x \in 1 .. len : x \in 1 .. Len(S)
            BY <1>4, <1>7
          <5>2. \A x \in 1 .. len : S[x] \in Token
            BY <1>4, <5>1, ElementOfSeq
          <5>3. Len(taken) = IF 1 <= len THEN len - 1 + 1 ELSE 0
            <6>1. 1 \in Int /\ len \in Int
              BY <1>4
            <6> QED
              BY <1>5, <5>2, <6>1, SubSeqProperties
          <5>4. Len(taken) = 0
            BY <2>1
          <5>5. ~(1 <= len)
            <6> SUFFICES ASSUME 1 <= len PROVE FALSE
              OBVIOUS
            <6>1. len - 1 + 1 = 0
              BY <5>3, <5>4
            <6> QED
              BY <1>4, <6>1
          <5> QED
            BY <1>4, <5>5
        <4>2. Len(S) = 0
          BY <1>3, <4>1 DEF Cut, S, len
        <4> QED
          BY <1>4, <4>2
      <3>4. left = <<>>
        <4>1. \A x \in 1 .. Len(left) : FALSE
          <5>1. Len(left) = 0
            <6>1. \A x \in len + 1 .. z : S[x] \in Token
              BY <1>4, <3>3
            <6>2. len + 1 \in Int /\ z \in Int
              BY <1>4
            <6>3. Len(left) = IF len + 1 <= z THEN z - (len + 1) + 1 ELSE 0
              BY <1>5, <6>1, <6>2, SubSeqProperties
            <6> QED
              BY <1>4, <3>3, <6>3
          <5> QED
            BY <5>1
        <4>2. left \in Seq(Token) /\ Len(left) \in Nat
          BY <1>10, SpanEnds
        <4> QED
          BY <4>1, <4>2, EmptySeq, LenProperties
      <3>5. At(m) = b
        <4>1. b \in Cursor /\ Span(A, <<>>, b, At(m))
          BY <1>10, <3>4, SpanEnds
        <4> QED
          BY <4>1, SpanEmpty
      <3>6. m \in Nat
        BY <1>1
      <3> QED
        BY <3>1, <3>2, <3>5, <3>6, EmptySpan
    <2>2. CASE taken # <<>>
      BY <1>10, <2>2 DEF PackData, taken
    <2> QED
      BY <2>1, <2>2
  <1>14. m \in 0 .. Len(A)
    BY <1>1
  <1> QED
    BY <1>10, <1>11, <1>12, <1>13, <1>14 DEF left

-----------------------------------------------------------------------------
(* A new PDU. *)

(* While the window is not full, vt_s is an SN that nobody holds. *)
LEMMA SpaceLeft ==
  ASSUME LinkWindowInv, ~window_full
  PROVE  /\ Base(vt_s, vr_r) \in 0 .. WINDOW - 1 /\ Base(vt_s, vt_a) \in 0 .. WINDOW - 1
         /\ Add(vt_s, 1) \in SN /\ Base(Add(vt_s, 1), vr_r) = Base(vt_s, vr_r) + 1
         /\ vt_s \notin DOMAIN rx_window /\ vt_s \notin DOMAIN tx_window /\ ~Ahead(vt_s)
         /\ \A sn \in SN : Base(sn, vr_r) < Base(vt_s, vr_r) + 1 <=> Ahead(sn) \/ sn = vt_s
  <1> DEFINE a == Base(vt_s, vt_a)
             r == Base(vr_r, vt_a)
             B == Base(vt_s, vr_r)
             H == Base(vr_h, vr_r)
  <1>1. /\ vt_s \in SN /\ vr_r \in SN /\ r \in 0 .. WINDOW /\ a \in 0 .. WINDOW /\ r <= a
        /\ DOMAIN rx_window \subseteq SN
        /\ \A x \in SN : Base(x, vr_r) \in 0 .. MOD - 1
        /\ \A sn \in DOMAIN tx_window : Base(sn, vt_a) < a
        /\ vr_h \in SN /\ r <= Base(vr_h, vt_a) /\ Base(vr_h, vt_a) <= a
        /\ Base(vr_h, vt_a) \in 0 .. WINDOW
    BY LinkDistances
  <1>2. MOD = 2 * WINDOW /\ WINDOW \in Nat \ {0}
    BY WindowAssumption DEF MOD
  <1>3. ~(a >= WINDOW)
    BY DEF window_full, TX_MOD_BASE
  <1>4. B = IF r <= a THEN a - r ELSE a - r + MOD
    BY <1>1, FromVrR
  <1>5. H = IF r <= Base(vr_h, vt_a) THEN Base(vr_h, vt_a) - r ELSE Base(vr_h, vt_a) - r + MOD
    BY <1>1, FromVrR
  <1> DEFINE ha == Base(vr_h, vt_a)
  <1> HIDE DEF a, r, B, H, ha
  <1>6. B \in 0 .. WINDOW - 1 /\ a \in 0 .. WINDOW - 1
    <2>1. r \in 0 .. WINDOW /\ a \in 0 .. WINDOW /\ r <= a
      BY <1>1 DEF a, r
    <2> QED
      BY <1>2, <1>3, <1>4, <2>1
  <1>7. H \in Int /\ H <= B
    <2>1. ha \in 0 .. WINDOW /\ r <= ha /\ ha <= a /\ H = IF r <= ha THEN ha - r ELSE ha - r + MOD
      BY <1>1, <1>5 DEF ha
    <2> QED
      BY <1>1, <1>4, <2>1
  <1>8. Add(vt_s, 1) \in SN /\ Base(Add(vt_s, 1), vr_r) = B + 1
    <2>1. /\ Add(vt_s, 1) \in SN
          /\ Base(Add(vt_s, 1), vr_r) = IF B < MOD - 1 THEN B + 1 ELSE 0
      BY <1>1, BaseNext DEF B
    <2>2. B < MOD - 1
      BY <1>2, <1>6
    <2> QED
      BY <2>1, <2>2
  <1>9. vt_s \notin DOMAIN rx_window
    <2> SUFFICES ASSUME vt_s \in DOMAIN rx_window PROVE FALSE
      OBVIOUS
    <2>1. Base(vt_s, vr_r) < Base(vr_h, vr_r)
      BY DEF LinkWindowInv, RxInv, RxWindowContents, RX_MOD_BASE
    <2>2. B < H
      BY <2>1 DEF B, H
    <2> QED
      BY <1>6, <1>7, <2>2
  <1>10. vt_s \notin DOMAIN tx_window
    <2> SUFFICES ASSUME vt_s \in DOMAIN tx_window PROVE FALSE
      OBVIOUS
    <2>1. a < a
      BY <1>1 DEF a
    <2> QED
      BY <1>6, <2>1
  <1>11. ~Ahead(vt_s)
    BY <1>6 DEF Ahead, B
  <1>12. ASSUME NEW sn \in SN PROVE Base(sn, vr_r) < B + 1 <=> Ahead(sn) \/ sn = vt_s
    <2> DEFINE x == Base(sn, vr_r)
    <2>1. x \in 0 .. MOD - 1 /\ (Ahead(sn) <=> x < B) /\ (sn = vt_s => x = B)
      BY <1>1 DEF Ahead, B
    <2>2. x = B => sn = vt_s
      BY <1>1, BaseInjective DEF B
    <2> HIDE DEF x
    <2>3. x < B + 1 <=> x < B \/ x = B
      BY <1>6, <2>1
    <2> QED
      BY <2>1, <2>2, <2>3 DEF x
  <1> QED
    BY <1>6, <1>8, <1>9, <1>10, <1>11, <1>12 DEF a, B

(* What build_data_pdu does to the stream *)
LEMMA BuildPduEffect ==
  ASSUME NEW r, IsRetx(r), NEW g, NEW pdus, NEW bytes0, BuildDataPdu(r, g, pdus, bytes0)
  PROVE  /\ UNCHANGED <<offered, accepted, vt_a>> /\ vt_s' = Add(vt_s, 1) /\ retx_queue' = r.q
         /\ tx_sdu' = PackLeft(tx_sdu, tx_sdu_queue, g)
         /\ tx_sdu_queue' = SubSeq(tx_sdu_queue, PackReadTo(tx_sdu, tx_sdu_queue, g) + 1,
                                   Len(tx_sdu_queue))
         /\ DOMAIN tx_window' = DOMAIN r.win \union {vt_s}
         /\ \A sn \in DOMAIN r.win : sn # vt_s => tx_window'[sn] = r.win[sn]
         /\ tx_window'[vt_s].data = PackData(tx_sdu, tx_sdu_queue, g)
         /\ \E d : /\ dataCh' = Append(dataCh, d) /\ d.pdu.sn = vt_s /\ d.pdu.rf = FALSE
                   /\ d.pdu.data = PackData(tx_sdu, tx_sdu_queue, g)
  <1> DEFINE data == PackData(tx_sdu, tx_sdu_queue, g)
             sdus == PackSdus(tx_sdu, tx_sdu_queue, g)
             win == [sn \in DOMAIN r.win \union {vt_s} |->
                       IF sn = vt_s THEN [data |-> data, retx_count |-> 0, sdus |-> sdus]
                                    ELSE r.win[sn]]
  <1>1. PICK p : /\ SetRetx([r EXCEPT !.win = win])
                 /\ Send(AmdPdu(vt_s, p, data), FALSE)
                 /\ tx_sdu' = PackLeft(tx_sdu, tx_sdu_queue, g)
                 /\ tx_sdu_queue' = SubSeq(tx_sdu_queue, PackReadTo(tx_sdu, tx_sdu_queue, g) + 1,
                                           Len(tx_sdu_queue))
                 /\ vt_s' = Add(vt_s, 1) /\ UNCHANGED <<offered, accepted, vt_a>>
    BY DEF BuildDataPdu, PackData, PackSdus, PackReadTo, PackLeft, PackBegun, PackTaken, PackLen,
           PackStream
  <1> HIDE DEF data, sdus
  <1>2. [r EXCEPT !.win = win] = [win |-> win, q |-> r.q, ovf |-> r.ovf, max |-> r.max]
    <2> HIDE DEF win
    <2> QED
      BY DEF IsRetx
  <1>3. tx_window' = win /\ retx_queue' = r.q
    <2> HIDE DEF win
    <2> QED
      BY <1>1, <1>2 DEF SetRetx
  <1>4. /\ DOMAIN tx_window' = DOMAIN r.win \union {vt_s} /\ tx_window'[vt_s].data = data
        /\ \A sn \in DOMAIN r.win : sn # vt_s => tx_window'[sn] = r.win[sn]
    BY <1>3
  <1>5. \E d : /\ dataCh' = Append(dataCh, d) /\ d.pdu.sn = vt_s /\ d.pdu.rf = FALSE
               /\ d.pdu.data = data
    BY <1>1 DEF Send, AmdPdu
  <1> QED
    BY <1>1, <1>3, <1>4, <1>5 DEF data

(* The entries of the retransmission queue stay true and in order. *)
LEMMA BuildEntries ==
  ASSUME TxInv, TxInv', StreamInv, ~window_full, UNCHANGED vt_a, vt_s' = Add(vt_s, 1),
         retx_queue' = Ready.q, DOMAIN tx_window' = DOMAIN Ready.win \union {vt_s},
         \A sn \in DOMAIN Ready.win : sn # vt_s => tx_window'[sn] = Ready.win[sn]
  PROVE  EntriesOK(retx_queue, tx_window)'
  <1> DEFINE q == Ready.q
             w == Ready.win
  <1>1. LinkWindowInv /\ QueueOK
    BY DEF TxInv, LinkWindowInv
  <1>2. /\ HeadIsHeld(Ready) /\ DOMAIN w = DOMAIN tx_window
        /\ EntriesOK(q, w) /\ vt_s \notin DOMAIN w
    BY <1>1, ReadyOK, TxWindowOK, ReadyEntries, SpaceLeft
  <1>3. q \in Seq(Entry) /\ Len(q) \in Nat /\ \A k \in 1 .. Len(q) : q[k] \in Entry /\ q[k].sn \in SN
    <2>1. q \in Seq(Entry)
      BY <1>2 DEF EntriesOK
    <2>2. \A k \in 1 .. Len(q) : q[k] \in Entry
      BY <2>1, ElementOfSeq
    <2> QED
      BY <2>1, <2>2, LenProperties DEF Entry
  <1> HIDE DEF q, w
  <1>4. ASSUME NEW x \in DOMAIN w
        PROVE  /\ x \in SN /\ Base(vt_s, x) \in 0 .. WINDOW - 1
               /\ Base(Add(vt_s, 1), x) = Base(vt_s, x) + 1
    <2>1. /\ x \in SN /\ vt_s \in SN /\ vt_a \in SN /\ Base(x, vt_a) \in 0 .. MOD - 1
          /\ Base(x, vt_a) < Base(vt_s, vt_a)
      BY <1>1, <1>2, <1>4, LinkDistances
    <2> DEFINE a == Base(vt_s, vt_a)
               b == Base(x, vt_a)
               y == Base(vt_s, x)
    <2>2. a \in 0 .. WINDOW - 1 /\ b \in 0 .. MOD - 1 /\ b < a
      BY <1>1, <2>1, SpaceLeft
    <2>3. a = IF b + y < MOD THEN b + y ELSE b + y - MOD
      BY <2>1, BaseVia
    <2>4. y \in 0 .. MOD - 1
      BY <2>1, BaseLinear
    <2>5. MOD = 2 * WINDOW /\ WINDOW \in Nat \ {0}
      BY WindowAssumption DEF MOD
    <2>6. Base(Add(vt_s, 1), x) = IF y < MOD - 1 THEN y + 1 ELSE 0
      BY <2>1, BaseNext
    <2> HIDE DEF a, b, y
    <2>7. y \in 0 .. WINDOW - 1
      BY <2>2, <2>3, <2>4, <2>5
    <2>8. y < MOD - 1
      BY <2>5, <2>7
    <2> QED
      BY <2>1, <2>6, <2>7, <2>8 DEF y
  <1>5. ASSUME NEW k \in 1 .. Len(q) PROVE q[k].sn # vt_s
    <2> SUFFICES ASSUME q[k].sn = vt_s PROVE FALSE
      OBVIOUS
    <2>1. q # <<>> /\ 1 \in 1 .. Len(q) /\ 1 <= k /\ Head(q) = q[1]
      BY <1>3
    <2>2. q[1].sn \in DOMAIN w
      BY <1>2, <2>1 DEF HeadIsHeld, q, w
    <2>3. InOrder(q[1].sn, vt_s)
      BY <1>2, <2>1, <2>2 DEF EntriesOK
    <2>4. Base(vt_s, q[1].sn) \in 0 .. WINDOW - 1
      BY <1>4, <2>2
    <2>5. WINDOW \in Nat
      BY WindowAssumption
    <2> DEFINE y == Base(vt_s, q[1].sn)
    <2>6. y < y \/ y > WINDOW
      BY <2>3 DEF InOrder
    <2> HIDE DEF y
    <2> QED
      BY <2>4, <2>5, <2>6 DEF y
  <1>6. ASSUME NEW k \in 1 .. Len(q), q[k].sn \in DOMAIN tx_window' PROVE EntryTrue(q[k], tx_window')
    <2>1. q[k].sn \in DOMAIN w /\ tx_window'[q[k].sn] = w[q[k].sn]
      BY <1>5, <1>6 DEF w
    <2> QED
      BY <1>2, <2>1 DEF EntriesOK, EntryTrue
  <1>7. ASSUME NEW j \in 1 .. Len(q), NEW k \in 1 .. Len(q), j <= k, q[j].sn \in DOMAIN tx_window'
        PROVE  \/ Base(q[k].sn, q[j].sn) < Base(vt_s', q[j].sn)
               \/ Base(q[k].sn, q[j].sn) > WINDOW
    <2> DEFINE x == q[j].sn
               b == Base(q[k].sn, x)
               y == Base(vt_s, x)
    <2>1. x \in DOMAIN w
      BY <1>5, <1>7 DEF w
    <2>2. b < y \/ b > WINDOW
      BY <1>2, <1>7, <2>1 DEF EntriesOK, InOrder
    <2>3. y \in 0 .. WINDOW - 1 /\ Base(vt_s', x) = y + 1 /\ x \in SN
      BY <1>4, <2>1
    <2>4. b \in 0 .. MOD - 1
      BY <1>3, <2>3, BaseLinear
    <2> HIDE DEF b, y
    <2>5. b < y + 1 \/ b > WINDOW
      BY <2>2, <2>3, <2>4
    <2> QED
      BY <2>3, <2>5 DEF b
  <1>8. retx_queue' = q
    BY DEF q
  <1> QED
    BY <1>3, <1>6, <1>7, <1>8 DEF EntriesOK, InOrder, EntryTrue

LEMMA SentIsNotNext ==
  ASSUME LinkWindowInv, ~window_full, NEW d, DataOK(d)
  PROVE  d.pdu.sn # vt_s /\ d.pdu.sn \in SN
  <1> SUFFICES ASSUME d.pdu.sn = vt_s PROVE FALSE
    BY DEF DataOK
  <1> DEFINE a == Age(d)
             b == Base(vt_s, vt_a)
             y == Base(vt_s, d.vt_a)
  <1>1. /\ a \in 0 .. WINDOW /\ b \in 0 .. WINDOW - 1
    BY AgeType, SpaceLeft
  <1>2. y < a + b
    BY DEF DataOK, TX_MOD_BASE
  <1>3. y = IF a + b < MOD THEN a + b ELSE a + b - MOD
    <2>1. vt_s \in SN /\ vt_a \in SN /\ d.vt_a \in SN
      BY DEF DataOK, LinkWindowInv
    <2> QED
      BY <2>1, BaseVia DEF Age
  <1>4. MOD = 2 * WINDOW /\ WINDOW \in Nat \ {0}
    BY WindowAssumption DEF MOD
  <1> HIDE DEF a, b, y
  <1> QED
    BY <1>1, <1>2, <1>3, <1>4

(* A new PDU continues the stream. *)
LEMMA BuildStream ==
  ASSUME TxInv, TxInv', StreamInv, UNCHANGED rxVars, ~window_full, NEW g \in Nat \ {0}, NEW pdus,
         NEW bytes0, BuildDataPdu(Ready, g, pdus, bytes0)
  PROVE  StreamInv'
  <1> DEFINE data == PackData(tx_sdu, tx_sdu_queue, g)
             left == PackLeft(tx_sdu, tx_sdu_queue, g)
             B == Base(vt_s, vr_r)
             v == Add(vt_s, 1)
  <1>1. LinkWindowInv /\ QueueOK /\ AcceptedOK
    BY DEF TxInv, LinkWindowInv, StreamInv
  <1>2. /\ UNCHANGED <<vr_r, rx_window, rx_segments, rx_sdu, delivered>>
    BY DEF rxVars, windowVars, payloadVars
  <1>3. /\ IsRetx(Ready) /\ DOMAIN Ready.win = DOMAIN tx_window
        /\ SameSdus(Ready.win, tx_window)
    BY <1>1, ReadyOK, ReadySdus
  <1>4. /\ UNCHANGED <<offered, accepted, vt_a>> /\ vt_s' = v /\ retx_queue' = Ready.q
        /\ tx_sdu' = left
        /\ tx_sdu_queue' = SubSeq(tx_sdu_queue, PackReadTo(tx_sdu, tx_sdu_queue, g) + 1,
                                  Len(tx_sdu_queue))
        /\ DOMAIN tx_window' = DOMAIN tx_window \union {vt_s}
        /\ \A sn \in DOMAIN Ready.win : sn # vt_s => tx_window'[sn] = Ready.win[sn]
        /\ tx_window'[vt_s].data = data
        /\ \E d : /\ dataCh' = Append(dataCh, d) /\ d.pdu.sn = vt_s /\ d.pdu.rf = FALSE
                  /\ d.pdu.data = data
    BY <1>3, BuildPduEffect
  <1>5. /\ B \in 0 .. WINDOW - 1 /\ v \in SN /\ Base(v, vr_r) = B + 1
        /\ vt_s \notin DOMAIN rx_window /\ vt_s \notin DOMAIN tx_window /\ ~Ahead(vt_s)
        /\ \A sn \in SN : Base(sn, vr_r) < B + 1 <=> Ahead(sn) \/ sn = vt_s
    BY <1>1, SpaceLeft
  <1>6. vt_s \in SN /\ vr_r \in SN /\ \A x \in SN : Base(x, vr_r) \in 0 .. MOD - 1
    BY <1>1, LinkDistances
  <1>7. PICK c \in [SN -> Cursor] : StreamAt(c)
    BY DEF StreamInv, Stream
  <1>8. PICK u \in 0 .. Len(accepted) :
          /\ Span(accepted, tx_sdu, c[vt_s], At(u))
          /\ \A k \in 1 .. Len(tx_sdu) : u > 0 /\ tx_sdu[k].b[1] = accepted[u]
          /\ QueueIs(u)
    BY <1>7 DEF StreamAt, AtTx
  <1>9a. PICK m \in 0 .. Len(accepted) : \E b :
          /\ Span(accepted, data, c[vt_s], b) /\ Span(accepted, left, b, At(m))
          /\ \A k \in 1 .. Len(left) : m > 0 /\ left[k].b[1] = accepted[m]
          /\ Queued(accepted, tx_sdu_queue', m)
    <2>1. Increasing(accepted) /\ Queued(accepted, tx_sdu_queue, u)
      BY <1>1, <1>8 DEF Increasing, AcceptedOK, Queued, Slots, QueueIs
    <2>2. tx_sdu_queue \in Seq(Range(tx_sdu_queue))
      BY DEF TxInv, TxTypes, IsSeq
    <2> HIDE DEF data, left
    <2> QED
      BY <1>4, <1>8, <2>1, <2>2, PacksNext DEF data, left
  <1>9. PICK b :
          /\ Span(accepted, data, c[vt_s], b) /\ Span(accepted, left, b, At(m))
          /\ \A k \in 1 .. Len(left) : m > 0 /\ left[k].b[1] = accepted[m]
          /\ Queued(accepted, tx_sdu_queue', m)
    BY <1>9a
  <1>10. b \in Cursor /\ data \in Seq(Token) /\ left \in Seq(Token)
    BY <1>9, SpanEnds
  <1> HIDE DEF data, left, B, v
  <1>11. \A sn \in SN : Ahead(sn)' <=> Ahead(sn) \/ sn = vt_s
    BY <1>2, <1>4, <1>5 DEF Ahead
  <1>12. \A sn \in DOMAIN tx_window : sn # vt_s /\ tx_window'[sn].data = tx_window[sn].data
    BY <1>3, <1>4, <1>5 DEF SameSdus, TxInv, ListsInv
  <1>13. \A sn \in SN :
         /\ Ahead(sn) => Data(sn)' = Data(sn) /\ sn # vt_s
         /\ sn = vt_s => Data(sn)' = data
    <2>1. ASSUME NEW sn \in SN, Ahead(sn) PROVE Data(sn)' = Data(sn) /\ sn # vt_s
      <3>1. sn \in DOMAIN rx_window \/ sn \in DOMAIN tx_window
        BY <1>1, <2>1, AheadKept
      <3> QED
        BY <1>2, <1>5, <1>12, <2>1, <3>1 DEF Data
    <2>2. ASSUME NEW sn \in SN, sn = vt_s PROVE Data(sn)' = data
      BY <1>2, <1>4, <1>5, <2>2 DEF Data
    <2> QED
      BY <2>1, <2>2
  <1>14. AcceptedOK'
    BY <1>1, <1>4 DEF AcceptedOK
  <1>15. \A sn \in DOMAIN tx_window' : tx_window'[sn].data \in Seq(Token)
    BY <1>4, <1>10, <1>12 DEF StreamInv
  <1>16. EntriesOK(retx_queue, tx_window)'
    BY <1>3, <1>4, BuildEntries DEF v
  <1>17. WindowsSame'
    BY <1>2, <1>4, <1>5, <1>12 DEF WindowsSame, StreamInv
  <1>18. PdusTrue'
    <2>1. PICK d : dataCh' = Append(dataCh, d) /\ d.pdu.sn = vt_s /\ d.pdu.rf = FALSE /\ d.pdu.data = data
      BY <1>4
    <2>2. /\ Len(dataCh) \in Nat /\ Len(dataCh') = Len(dataCh) + 1
          /\ \A j \in 1 .. Len(dataCh) + 1 : dataCh'[j] = IF j <= Len(dataCh) THEN dataCh[j] ELSE d
      <3>1. IsSeq(dataCh)
        BY <1>1 DEF LinkWindowInv
      <3> QED
        BY <2>1, <3>1, AppendKeeps
    <2>3. ASSUME NEW k \in 1 .. Len(dataCh'), NEW y, y = dataCh'[k].pdu.sn,
                 Base(y, vr_r') < Base(vt_s', vr_r')
          PROVE  Carries(dataCh'[k].pdu, IF y \in DOMAIN rx_window' THEN rx_window'[y]
                                         ELSE tx_window'[y].data)
      <3>1. CASE k <= Len(dataCh)
        <4>1. k \in 1 .. Len(dataCh) /\ dataCh'[k] = dataCh[k]
          BY <2>2, <3>1
        <4>2. y # vt_s /\ y \in SN
          BY <1>1, <2>3, <4>1, SentIsNotNext DEF LinkWindowInv, DataInFlight
        <4>3. Ahead(y)
          BY <1>11, <2>3, <4>2 DEF Ahead
        <4>4. Carries(dataCh[k].pdu, Data(y))
          BY <2>3, <4>1, <4>3 DEF StreamInv, PdusTrue
        <4>5. Data(y)' = Data(y)
          BY <1>13, <4>2, <4>3
        <4> QED
          BY <4>1, <4>4, <4>5 DEF Data
      <3>2. CASE ~(k <= Len(dataCh))
        <4>1. dataCh'[k] = d
          BY <2>2, <3>2
        <4>2. y = vt_s /\ Data(y)' = data
          BY <1>6, <1>13, <2>1, <2>3, <4>1
        <4>3. Carries(d.pdu, data)
          BY <2>1 DEF Carries
        <4> QED
          BY <4>1, <4>2, <4>3 DEF Data
      <3> QED
        BY <3>1, <3>2
    <2> QED
      BY <2>3 DEF PdusTrue, Ahead, Data
  <1>19. SegmentsTrue'
    <2>1. DOMAIN rx_segments \subseteq SN
      BY <1>1 DEF LinkWindowInv, RxPayloadTypeOK
    <2>2. ASSUME NEW sn \in DOMAIN rx_segments', NEW seg \in rx_segments'[sn]
          PROVE  Ahead(sn)' /\ Piece(seg, Data(sn)')
      <3>1. sn \in SN /\ Ahead(sn) /\ Piece(seg, Data(sn))
        BY <1>2, <2>1, <2>2 DEF StreamInv, SegmentsTrue
      <3> QED
        BY <1>11, <1>13, <3>1
    <2> QED
      BY <2>2 DEF SegmentsTrue
  <1>20. Stream'
    <2>1. PICK cc \in [SN -> Cursor] : cc[v] = b /\ \A sn \in SN : sn # v => cc[sn] = c[sn]
      <3>1. [c EXCEPT ![v] = b] \in [SN -> Cursor]
        BY <1>5, <1>10
      <3>2. [c EXCEPT ![v] = b][v] = b /\ \A sn \in SN : sn # v => [c EXCEPT ![v] = b][sn] = c[sn]
        BY <1>5
      <3> QED
        BY <3>1, <3>2
    <2>2. \A sn \in SN : Base(sn, vr_r) <= B => sn # v
      BY <1>5
    <2>3. Base(vt_s, vr_r) = B /\ Base(vr_r, vr_r) = 0
      BY <1>6, BaseSelf DEF B
    <2>4. cc[vr_r] = c[vr_r] /\ cc[vt_s] = c[vt_s]
      BY <1>5, <1>6, <2>1, <2>2, <2>3
    <2>5. AtRx(cc[vr_r])'
      <3>1. AtRx(c[vr_r])
        BY <1>7 DEF StreamAt
      <3> QED
        BY <1>2, <1>4, <2>4, <3>1 DEF AtRx
    <2>6. AtTx(cc[vt_s])'
      <3>1. QueueIs(m)'
        <4>1. accepted' = accepted /\ Queued(accepted, tx_sdu_queue', m)
          BY <1>4, <1>9
        <4> QED
          BY <4>1 DEF Queued, QueueIs, Slots
      <3>2. cc[vt_s'] = b
        BY <1>4, <2>1
      <3>3. Span(accepted', tx_sdu', cc[vt_s'], At(m)) /\ m \in 0 .. Len(accepted')
        BY <1>4, <1>9, <3>2
      <3>4. \A k \in 1 .. Len(tx_sdu') : m > 0 /\ tx_sdu'[k].b[1] = accepted'[m]
        BY <1>4, <1>9
      <3> QED
        BY <3>1, <3>3, <3>4 DEF AtTx
    <2>7. ASSUME NEW sn \in SN, Ahead(sn)' PROVE Span(accepted', Data(sn)', cc[sn], cc[Add(sn, 1)])
      <3>1. CASE Ahead(sn)
        <4>1. Add(sn, 1) \in SN /\ Base(Add(sn, 1), vr_r) <= B /\ Base(sn, vr_r) < B
          BY <1>1, <3>1, NextAhead DEF Ahead, B
        <4>2. Base(sn, vr_r) <= B
          BY <1>5, <1>6, <4>1
        <4>3. cc[sn] = c[sn] /\ cc[Add(sn, 1)] = c[Add(sn, 1)]
          BY <2>1, <2>2, <4>1, <4>2
        <4>4. Span(accepted, Data(sn), c[sn], c[Add(sn, 1)])
          BY <1>7, <3>1 DEF StreamAt
        <4> QED
          BY <1>4, <1>13, <3>1, <4>3, <4>4
      <3>2. CASE sn = vt_s
        <4>1. cc[sn] = c[vt_s] /\ Add(sn, 1) = v
          BY <2>4, <3>2 DEF v
        <4> QED
          BY <1>4, <1>9, <1>13, <2>1, <3>2, <4>1
      <3> QED
        BY <1>11, <2>7, <3>1, <3>2
    <2>8. ASSUME NEW sn \in SN, Base(sn, vr_r') <= Base(vt_s', vr_r')
          PROVE  Reach(cc[sn]) <= Reach(cc[vt_s'])
      <3>1. Len(accepted) \in Nat
        BY <1>1, LenProperties DEF AcceptedOK
      <3>2. Reach(c[vt_s]) \in Nat /\ Reach(b) \in Nat /\ Reach(c[vt_s]) <= Reach(b)
        BY <1>9, <3>1, SpanReach
      <3>3. cc[vt_s'] = b
        BY <1>4, <2>1
      <3>4. CASE sn = v
        <4>1. Reach(cc[sn]) = Reach(b) /\ Reach(cc[vt_s']) = Reach(b)
          BY <2>1, <3>3, <3>4
        <4> QED
          BY <3>2, <4>1
      <3>5. CASE sn # v
        <4>1. Base(sn, vr_r) # B + 1
          BY <1>5, <1>6, <3>5, BaseInjective
        <4>2. Base(sn, vr_r) <= B
          BY <1>2, <1>4, <1>5, <1>6, <2>8, <4>1
        <4>3. Reach(c[sn]) <= Reach(c[vt_s])
          BY <1>7, <2>3, <4>2 DEF StreamAt
        <4>4. Reach(c[sn]) \in Nat /\ cc[sn] = c[sn]
          BY <2>1, <3>5 DEF Reach, Cursor
        <4> QED
          BY <3>2, <3>3, <4>3, <4>4
      <3> QED
        BY <3>4, <3>5
    <2>9. StreamAt(cc)'
      BY <2>5, <2>6, <2>7, <2>8 DEF StreamAt
    <2> QED
      BY <2>1, <2>9 DEF Stream
  <1> QED
    BY <1>14, <1>15, <1>16, <1>17, <1>18, <1>19, <1>20 DEF StreamInv

LEMMA ReadPduStream ==
  ASSUME TxInv, TxInv', StreamInv, NEW g \in Grants, NEW s \in Nat, ReadPdu(g, s)
  PROVE  StreamInv' /\ UNCHANGED <<accepted, delivered>>
  <1>1. QueueOK /\ IsRetx(Ready) /\ UNCHANGED rxVars /\ read_pdu(g, s)
    BY ReadyOK DEF TxInv, LinkWindowInv, ReadPdu
  <1>2. \/ Ready.q # <<>> /\ RetxWhole(Ready)
        \/ Ready.q # <<>> /\ RetxSegment(Ready, s)
        \/ ~window_full /\ g > 0 /\ \E pdus, bytes : BuildDataPdu(Ready, g, pdus, bytes)
        \/ \E pdus, bytes : NoPdu(Ready, pdus, bytes)
    BY <1>1 DEF read_pdu, Ready, Scheduled
  <1>3. UNCHANGED delivered
    BY <1>1 DEF rxVars, payloadVars
  <1>4. CASE Ready.q # <<>> /\ RetxWhole(Ready)
    BY <1>1, <1>3, <1>4, RetxWholeStream DEF RetxWhole, sduVars
  <1>5. CASE Ready.q # <<>> /\ RetxSegment(Ready, s)
    BY <1>1, <1>3, <1>5, RetxSegmentStream DEF RetxSegment, sduVars
  <1>6. CASE ~window_full /\ g > 0 /\ \E pdus, bytes : BuildDataPdu(Ready, g, pdus, bytes)
    <2>1. g \in Nat \ {0}
      BY <1>6, TxAssumption
    <2>2. PICK pdus, bytes : BuildDataPdu(Ready, g, pdus, bytes)
      BY <1>6
    <2>3. UNCHANGED accepted
      BY <1>1, <2>2, BuildPduEffect
    <2> QED
      BY <1>1, <1>3, <1>6, <2>1, <2>2, <2>3, BuildStream
  <1>7. CASE \E pdus, bytes : NoPdu(Ready, pdus, bytes)
    BY <1>1, <1>3, <1>7, NoPduStream DEF NoPdu, sduVars
  <1> QED
    BY <1>2, <1>4, <1>5, <1>6, <1>7

-----------------------------------------------------------------------------
(* A PDU arrives. *)

(* What the receiver holds, or accepts, is ahead. *)
LEMMA HeldAhead ==
  ASSUME LinkWindowInv
  PROVE  /\ Base(vt_s, vr_r) \in 0 .. WINDOW
         /\ \A sn \in DOMAIN rx_window : sn \in SN /\ Ahead(sn)
         /\ \A d : DataOK(d) /\ inside_rx_window(d.pdu.sn) => d.pdu.sn \in SN /\ Ahead(d.pdu.sn)
  <1> DEFINE a == Base(vt_s, vt_a)
             r == Base(vr_r, vt_a)
             ha == Base(vr_h, vt_a)
             S == Base(vt_s, vr_r)
             H == Base(vr_h, vr_r)
  <1>1. /\ vt_s \in SN /\ vr_r \in SN /\ DOMAIN rx_window \subseteq SN /\ vr_h \in SN
        /\ \A x \in SN : Base(x, vr_r) \in 0 .. MOD - 1
    BY LinkDistances
  <1>2. r \in 0 .. WINDOW /\ a \in 0 .. WINDOW /\ r <= a /\ r <= ha /\ ha <= a /\ ha \in 0 .. WINDOW
    BY LinkDistances
  <1>3. WINDOW \in Nat
    BY WindowAssumption
  <1>4. S = IF r <= a THEN a - r ELSE a - r + MOD
    BY <1>1, FromVrR
  <1>5. H = IF r <= ha THEN ha - r ELSE ha - r + MOD
    BY <1>1, FromVrR
  <1>6. ASSUME NEW sn \in DOMAIN rx_window PROVE sn \in SN /\ Base(sn, vr_r) < H
    BY <1>1 DEF LinkWindowInv, RxInv, RxWindowContents, RX_MOD_BASE
  <1>7. ASSUME NEW d, DataOK(d), inside_rx_window(d.pdu.sn)
        PROVE  r + Base(d.pdu.sn, vr_r) + 1 <= a /\ d.pdu.sn \in SN
    BY <1>7, PduReach DEF DataOK
  <1> HIDE DEF a, r, ha, S, H
  <1>8. S = a - r /\ S \in 0 .. WINDOW /\ H \in Int /\ H <= S
    BY <1>2, <1>3, <1>4, <1>5
  <1>9. ASSUME NEW sn \in DOMAIN rx_window PROVE sn \in SN /\ Ahead(sn)
    <2> DEFINE x == Base(sn, vr_r)
    <2>1. x \in 0 .. MOD - 1 /\ x < H
      BY <1>1, <1>6
    <2> HIDE DEF x
    <2>2. x < S
      BY <1>8, <2>1
    <2> QED
      BY <1>1, <2>2 DEF Ahead, S, x
  <1>10. ASSUME NEW d, DataOK(d), inside_rx_window(d.pdu.sn) PROVE d.pdu.sn \in SN /\ Ahead(d.pdu.sn)
    <2> DEFINE x == Base(d.pdu.sn, vr_r)
    <2>1. x \in 0 .. MOD - 1 /\ r + x + 1 <= a
      BY <1>1, <1>7, <1>10
    <2> HIDE DEF x
    <2>2. x < S
      BY <1>2, <1>8, <2>1
    <2> QED
      BY <1>7, <1>10, <2>2 DEF Ahead, S, x
  <1> QED
    BY <1>8, <1>9, <1>10 DEF S

(* A step of the receiver that passes nothing on *)
LEMMA SegmentsStream ==
  ASSUME StreamInv,
         UNCHANGED <<sduVars, vr_r, vt_s, rx_window, rx_sdu, delivered, tx_window, retx_queue>>,
         \A k \in 1 .. Len(dataCh') : \E j \in 1 .. Len(dataCh) : dataCh'[k] = dataCh[j],
         \A sn \in DOMAIN rx_segments' : \A seg \in rx_segments'[sn] :
           \/ sn \in DOMAIN rx_segments /\ seg \in rx_segments[sn]
           \/ Ahead(sn) /\ Piece(seg, Data(sn))
  PROVE  StreamInv'
  <1>1. \A sn : (Ahead(sn)' <=> Ahead(sn)) /\ Data(sn)' = Data(sn)
    BY DEF Ahead, Data
  <1>2. UNCHANGED <<offered, accepted, tx_sdu_queue, tx_sdu>>
    BY DEF sduVars
  <1>3. AcceptedOK'
    BY <1>2 DEF AcceptedOK, StreamInv
  <1>4. EntriesOK(retx_queue, tx_window)'
    BY DEF StreamInv, EntriesOK, InOrder, EntryTrue
  <1>5. WindowsSame' /\ \A sn \in DOMAIN tx_window' : tx_window'[sn].data \in Seq(Token)
    BY DEF StreamInv, WindowsSame
  <1>6. PdusTrue'
    <2>1. ASSUME NEW k \in 1 .. Len(dataCh'), NEW y, y = dataCh'[k].pdu.sn,
                 Base(y, vr_r') < Base(vt_s', vr_r')
          PROVE  Carries(dataCh'[k].pdu, IF y \in DOMAIN rx_window' THEN rx_window'[y]
                                         ELSE tx_window'[y].data)
      <3>1. PICK j \in 1 .. Len(dataCh) : dataCh'[k] = dataCh[j]
        OBVIOUS
      <3>2. Ahead(dataCh[j].pdu.sn) /\ y = dataCh[j].pdu.sn
        BY <2>1, <3>1 DEF Ahead
      <3>3. Carries(dataCh[j].pdu, Data(dataCh[j].pdu.sn))
        BY <3>2 DEF StreamInv, PdusTrue
      <3> QED
        BY <3>1, <3>2, <3>3 DEF Data
    <2> QED
      BY <2>1 DEF PdusTrue, Ahead, Data
  <1>7. SegmentsTrue'
    <2>1. ASSUME NEW sn \in DOMAIN rx_segments', NEW seg \in rx_segments'[sn]
          PROVE  Ahead(sn) /\ Piece(seg, Data(sn))
      BY <2>1 DEF StreamInv, SegmentsTrue
    <2> QED
      BY <1>1, <2>1 DEF SegmentsTrue
  <1>8. Stream'
    <2>1. PICK c \in [SN -> Cursor] : StreamAt(c)
      BY DEF StreamInv, Stream
    <2>2. AtRx(c[vr_r])'
      BY <1>2, <2>1 DEF StreamAt, AtRx
    <2>3. AtTx(c[vt_s])'
      <3>1. PICK u \in 0 .. Len(accepted) :
              /\ Span(accepted, tx_sdu, c[vt_s], At(u))
              /\ \A k \in 1 .. Len(tx_sdu) : u > 0 /\ tx_sdu[k].b[1] = accepted[u]
              /\ QueueIs(u)
        BY <2>1 DEF StreamAt, AtTx
      <3>2. QueueIs(u)'
        BY <1>2, <3>1 DEF QueueIs
      <3> QED
        BY <1>2, <3>1, <3>2 DEF AtTx
    <2>4. \A sn \in SN : Ahead(sn)' => Span(accepted', Data(sn)', c[sn], c[Add(sn, 1)])
      BY <1>1, <1>2, <2>1 DEF StreamAt
    <2>5. \A sn \in SN : Base(sn, vr_r') <= Base(vt_s', vr_r') => Reach(c[sn]) <= Reach(c[vt_s'])
      BY <2>1 DEF StreamAt
    <2>6. StreamAt(c)'
      BY <2>2, <2>3, <2>4, <2>5 DEF StreamAt
    <2> QED
      BY <2>6 DEF Stream
  <1> QED
    BY <1>3, <1>4, <1>5, <1>6, <1>7, <1>8 DEF StreamInv

(* What the reassembly of a prefix has handed over *)
LEMMA DeliveredPrefix ==
  ASSUME NEW A \in Seq(1 .. NofSdus), NEW c \in Cursor, Reach(c) <= Len(A), NEW sdu, NEW out,
         Reassembly(A, c, sdu, out)
  PROVE  /\ SdusIn(out) = SubSeq(A, 1, c.done) /\ c.done \in 0 .. Len(A)
         /\ Len(SdusIn(out)) = c.done
  <1>1. SdusIn(out) = SubSeq(A, 1, c.done)
    BY DEF Reassembly
  <1>2. c.done \in Nat /\ c.part \in Nat /\ Len(A) \in Nat
    BY LenProperties DEF Cursor
  <1>3. c.done <= Len(A)
    BY <1>2 DEF Reach
  <1>4. Len(SubSeq(A, 1, c.done)) = c.done
    <2> DEFINE n == c.done
    <2>1. n \in Nat /\ n <= Len(A)
      BY <1>2, <1>3
    <2> HIDE DEF n
    <2>2. \A x \in 1 .. n : A[x] \in 1 .. NofSdus
      <3>1. \A x \in 1 .. n : x \in 1 .. Len(A)
        BY <1>2, <2>1
      <3> QED
        BY <3>1, ElementOfSeq
    <2>3. Len(SubSeq(A, 1, n)) = IF 1 <= n THEN n - 1 + 1 ELSE 0
      <3>1. 1 \in Int /\ n \in Int
        BY <2>1
      <3> QED
        BY <2>2, <3>1, SubSeqProperties
    <2>4. Len(SubSeq(A, 1, n)) = n
      BY <2>1, <2>3
    <2> QED
      BY <2>4 DEF n
  <1> QED
    BY <1>1, <1>2, <1>3, <1>4

(* The receiver takes a PDU and moves vr_r by n: seen from there. *)
LEMMA WindowMoves ==
  ASSUME LinkWindowInv, NEW held \in SUBSET SN, \A s \in held : Ahead(s),
         NEW n \in 0 .. WINDOW, SkipsHeld(held, vr_r, n), vr_r' = Add(vr_r, n), UNCHANGED vt_s
  PROVE  /\ n <= Base(vt_s, vr_r) /\ vr_r' \in SN /\ Base(vr_r', vr_r) = n
         /\ \A i \in 0 .. n : Add(vr_r, i) \in SN /\ Base(Add(vr_r, i), vr_r) = i
         /\ \A i \in 0 .. n - 1 : Add(vr_r, i) \in held
         /\ \A x \in SN : Ahead(x)' <=> Ahead(x) /\ Base(x, vr_r) >= n
         /\ \A x \in SN : Base(x, vr_r') <= Base(vt_s', vr_r') =>
                            Base(x, vr_r) >= n /\ Base(x, vr_r) <= Base(vt_s, vr_r)
  <1> DEFINE S == Base(vt_s, vr_r)
  <1>1. /\ vt_s \in SN /\ vr_r \in SN /\ Base(vr_r, vr_r) = 0
        /\ \A x \in SN : Base(x, vr_r) \in 0 .. MOD - 1
    BY LinkDistances, BaseSelf
  <1>2. S \in 0 .. WINDOW
    BY HeldAhead
  <1>3. MOD = 2 * WINDOW /\ WINDOW \in Nat \ {0}
    BY WindowAssumption DEF MOD
  <1>4. n <= S
    <2>1. \A s \in held : Base(s, vr_r) < S
      BY DEF Ahead
    <2>2. Base(vr_r, vr_r) <= S
      BY <1>1, <1>2
    <2>3. Base(vr_r, vr_r) + n <= S
      <3> HIDE DEF S
      <3> QED
        BY <1>1, <1>2, <2>1, <2>2, SkipBound
    <2> QED
      BY <1>1, <2>3
  <1> HIDE DEF S
  <1>5. \A i \in 0 .. n : Add(vr_r, i) \in SN /\ Base(Add(vr_r, i), vr_r) = i
    <2>1. ASSUME NEW i \in 0 .. n PROVE Add(vr_r, i) \in SN /\ Base(Add(vr_r, i), vr_r) = i
      <3>1. i \in 0 .. MOD /\ Base(vr_r, vr_r) + i < MOD /\ Base(vr_r, vr_r) + i = i
        BY <1>1, <1>3
      <3> QED
        BY <1>1, <3>1, AddLinear, BaseOfAdd
    <2> QED
      BY <2>1
  <1>6. vr_r' \in SN /\ Base(vr_r', vr_r) = n
    <2>1. n \in 0 .. n
      OBVIOUS
    <2> QED
      BY <1>5, <2>1
  <1>7. ASSUME NEW x \in SN
        PROVE  Base(x, vr_r') = IF Base(x, vr_r) >= n THEN Base(x, vr_r) - n ELSE Base(x, vr_r) - n + MOD
    <2>1. n \in 0 .. MOD
      BY <1>3
    <2> QED
      BY <1>1, <2>1, BaseShift
  <1>8. Base(vt_s', vr_r') = S - n
    BY <1>1, <1>2, <1>4, <1>7 DEF S
  <1>9. ASSUME NEW x \in SN
        PROVE  /\ Ahead(x)' <=> Ahead(x) /\ Base(x, vr_r) >= n
               /\ Base(x, vr_r') <= Base(vt_s', vr_r') => Base(x, vr_r) >= n /\ Base(x, vr_r) <= S
    <2> DEFINE b == Base(x, vr_r)
               d == Base(x, vr_r')
    <2>1. b \in 0 .. MOD - 1 /\ d = IF b >= n THEN b - n ELSE b - n + MOD
      BY <1>1, <1>7
    <2>2. (Ahead(x) <=> b < S) /\ (Ahead(x)' <=> d < S - n)
      <3>1. Ahead(x)' <=> Base(x, vr_r') < Base(vt_s', vr_r')
        BY DEF Ahead
      <3> QED
        BY <1>8, <3>1 DEF Ahead, S
    <2> HIDE DEF b, d
    <2>3. d < S - n <=> b < S /\ b >= n
      BY <1>2, <1>3, <1>4, <2>1
    <2>4. d <= S - n => b >= n /\ b <= S
      BY <1>2, <1>3, <1>4, <2>1
    <2> QED
      BY <1>8, <2>2, <2>3, <2>4 DEF b, d
  <1>10. \A i \in 0 .. n - 1 : Add(vr_r, i) \in held
    BY DEF SkipsHeld
  <1> QED
    BY <1>4, <1>5, <1>6, <1>9, <1>10 DEF S

(* The payload of the PDUs passed is what lies between the two cursors. *)
LEMMA PassedSpan ==
  ASSUME NEW A, NEW c \in [SN -> Cursor], NEW v \in SN, NEW n \in 0 .. WINDOW, NEW seqs,
         \A i \in 0 .. n : Add(v, i) \in SN,
         seqs \in [1 .. n -> Seq(Token)],
         \A i \in 1 .. n : Span(A, seqs[i], c[Add(v, i - 1)], c[Add(Add(v, i - 1), 1)])
  PROVE  Span(A, FlattenSeq(seqs), c[v], c[Add(v, n)])
  <1>1. n \in Nat /\ WINDOW \in Nat /\ MOD = 2 * WINDOW /\ WINDOW > 0
    BY WindowAssumption DEF MOD
  <1>2. PICK h : Concats(h, seqs, n, Token)
    BY <1>1, ConcatsExist
  <1>3. FlattenSeq(seqs) = h[n]
    BY <1>1, <1>2, FlattenIs
  <1>4. h[0] = <<>> /\ \A i \in 1 .. n : h[i] = h[i - 1] \o seqs[i]
    BY <1>2 DEF Concats
  <1> DEFINE Good(i) == Span(A, h[i], c[v], c[Add(v, i)])
             Bad == {i \in Nat : i <= n /\ ~Good(i)}
  <1>5. Bad = {}
    <2> SUFFICES ASSUME Bad # {} PROVE FALSE
      OBVIOUS
    <2>1. PICK m \in Bad : \A y \in Bad : m <= y
      <3>1. Bad \in SUBSET Nat
        OBVIOUS
      <3> HIDE DEF Bad
      <3> QED
        BY <3>1, LeastElement
    <2>2. m \in Nat /\ m <= n /\ ~Good(m)
      BY <2>1
    <2>3. CASE m = 0
      <3>1. Add(v, 0) = v
        <4>1. 0 \in 0 .. MOD
          BY <1>1
        <4>2. v \in 0 .. MOD - 1
          BY DEF SN
        <4>3. Add(v, 0) = IF v + 0 < MOD THEN v + 0 ELSE v + 0 - MOD
          BY <4>1, AddLinear
        <4> QED
          BY <1>1, <4>2, <4>3
      <3>2. c[v] \in Cursor
        OBVIOUS
      <3>3. Good(0)
        BY <1>4, <3>1, <3>2, SpanEmpty
      <3> QED
        BY <2>2, <2>3, <3>3
    <2>4. CASE m # 0
      <3>1. m - 1 \in Nat /\ m - 1 <= n /\ ~(m <= m - 1) /\ m \in 1 .. n
        BY <1>1, <2>2, <2>4
      <3>2. Good(m - 1)
        BY <2>1, <3>1
      <3>3. Add(Add(v, m - 1), 1) = Add(v, m)
        <4>1. /\ m - 1 \in 0 .. MOD /\ m \in 0 .. MOD /\ m < MOD /\ m - 1 < MOD - 1
              /\ m \in 0 .. n /\ m - 1 \in 0 .. n
          BY <1>1, <2>2, <3>1
        <4>2. Base(v, v) = 0 /\ 0 + m < MOD /\ 0 + (m - 1) < MOD /\ 0 + (m - 1) = m - 1 /\ 0 + m = m
          <5>1. Base(v, v) = 0
            BY BaseSelf
          <5>2. 0 + m < MOD /\ 0 + (m - 1) < MOD /\ 0 + (m - 1) = m - 1 /\ 0 + m = m
            BY <1>1, <4>1, <2>2, <3>1
          <5> QED
            BY <5>1, <5>2
        <4>3. /\ Base(Add(v, m), v) = m /\ Base(Add(v, m - 1), v) = m - 1
              /\ Add(v, m) \in SN /\ Add(v, m - 1) \in SN
          BY <4>1, <4>2, BaseOfAdd
        <4>4. Add(Add(v, m - 1), 1) \in SN /\ Base(Add(Add(v, m - 1), 1), v) = m
          BY <2>2, <4>1, <4>3, BaseNext
        <4> QED
          BY <4>3, <4>4, BaseInjective
      <3>4. Span(A, seqs[m], c[Add(v, m - 1)], c[Add(v, m)])
        BY <3>1, <3>3
      <3>5. Span(A, h[m - 1] \o seqs[m], c[v], c[Add(v, m)])
        BY <3>2, <3>4, SpanConcat
      <3>6. Good(m)
        BY <1>4, <3>1, <3>5
      <3> QED
        BY <2>2, <3>6
    <2> QED
      BY <2>3, <2>4
  <1>6. Good(n)
    BY <1>1, <1>5
  <1> QED
    BY <1>3, <1>6

(* The receiver hands over none, one or several of the SDUs that are next. *)
HandsOver ==
  \E k \in Len(deliveredSdus) .. Len(accepted) : deliveredSdus' = SubSeq(accepted, 1, k)

(* win is the window with sn in it, and passed are the n SNs that leave it. *)
Takes(sn, n, win, passed) ==
  /\ win = [s \in DOMAIN rx_window \union {sn} |-> IF s = sn THEN Data(sn) ELSE rx_window[s]]
  /\ passed = {Add(vr_r, i) : i \in 0 .. n - 1}
  /\ SkipsHeld(DOMAIN rx_window \union {sn}, vr_r, n)
  /\ vr_r' = Add(vr_r, n)
  /\ rx_window' = [s \in (DOMAIN rx_window \union {sn}) \ passed |-> win[s]]
  /\ UNCHANGED <<vt_s, tx_window>>

(* What the window holds once a PDU has been taken, and what it passes on *)
LEMMA AcceptContents ==
  ASSUME LinkWindowInv, NEW sn \in SN, Ahead(sn), sn \notin DOMAIN rx_window,
         NEW n \in 0 .. WINDOW, NEW win, NEW passed, Takes(sn, n, win, passed)
  PROVE  /\ \A x \in SN : x \in passed <=> Base(x, vr_r) < n
         /\ \A x \in SN : Ahead(x)' <=> Ahead(x) /\ x \notin passed
         /\ \A x \in SN : Ahead(x)' => Data(x)' = Data(x)
         /\ \A i \in 1 .. n : /\ Add(vr_r, i - 1) \in SN /\ Ahead(Add(vr_r, i - 1))
                              /\ win[Add(vr_r, i - 1)] = Data(Add(vr_r, i - 1))
         /\ \A x \in DOMAIN rx_window' : x = sn \/ x \in DOMAIN rx_window
         /\ \A x \in DOMAIN rx_window' : rx_window'[x] = Data(x)
  <1> DEFINE held == DOMAIN rx_window \union {sn}
  <1> USE DEF Takes
  <1>1. held \in SUBSET SN /\ \A s \in held : Ahead(s)
    BY HeldAhead
  <1>2. /\ \A i \in 0 .. n : Add(vr_r, i) \in SN /\ Base(Add(vr_r, i), vr_r) = i
        /\ \A i \in 0 .. n - 1 : Add(vr_r, i) \in held
        /\ \A x \in SN : Ahead(x)' <=> Ahead(x) /\ Base(x, vr_r) >= n
    <2> HIDE DEF held
    <2>1. SkipsHeld(held, vr_r, n) /\ UNCHANGED vt_s
      BY DEF held
    <2> QED
      BY <1>1, <2>1, WindowMoves
  <1>3. n \in Nat /\ vr_r \in SN /\ \A x \in SN : Base(x, vr_r) \in Nat
    <2>1. \A x \in SN : Base(x, vr_r) \in 0 .. MOD - 1 /\ vr_r \in SN
      BY LinkDistances
    <2>2. n \in Nat /\ vr_r \in SN
      BY WindowAssumption, LinkDistances
    <2> QED
      BY <2>1, <2>2
  <1>4. ASSUME NEW x \in SN PROVE x \in passed <=> Base(x, vr_r) < n
    <2>1. ASSUME x \in passed PROVE Base(x, vr_r) < n
      <3>1. PICK i \in 0 .. n - 1 : x = Add(vr_r, i)
        BY <2>1
      <3>2. i \in 0 .. n /\ i < n
        BY <1>3, <3>1
      <3> QED
        BY <1>2, <3>1, <3>2
    <2>2. ASSUME Base(x, vr_r) < n PROVE x \in passed
      <3> DEFINE i == Base(x, vr_r)
      <3>1. i \in 0 .. n - 1 /\ i \in 0 .. n
        BY <1>3, <2>2
      <3>2. Base(Add(vr_r, i), vr_r) = Base(x, vr_r) /\ Add(vr_r, i) \in SN
        BY <1>2, <3>1
      <3>3. Add(vr_r, i) = x
        BY <1>3, <3>2, BaseInjective
      <3> QED
        BY <3>1, <3>3
    <2> QED
      BY <2>1, <2>2
  <1>5. \A x \in SN : Ahead(x)' <=> Ahead(x) /\ x \notin passed
    <2>1. \A x \in SN : Base(x, vr_r) >= n <=> ~(Base(x, vr_r) < n)
      BY <1>3
    <2> QED
      BY <1>2, <1>4, <2>1
  <1>6. \A x \in held : win[x] = Data(x)
    BY DEF Data
  <1>7. \A x \in DOMAIN rx_window' : rx_window'[x] = Data(x) /\ x \in held
    BY <1>6
  <1>8. ASSUME NEW x \in SN, Ahead(x)' PROVE Data(x)' = Data(x)
    <2>1. x \notin passed
      BY <1>5, <1>8
    <2>2. CASE x \in held
      <3>1. x \in DOMAIN rx_window'
        BY <2>1, <2>2
      <3> QED
        BY <1>7, <3>1 DEF Data
    <2>3. CASE x \notin held
      <3>1. x \notin DOMAIN rx_window' /\ x \notin DOMAIN rx_window
        BY <2>3
      <3> QED
        BY <3>1 DEF Data
    <2> QED
      BY <2>2, <2>3
  <1>9. ASSUME NEW i \in 1 .. n
        PROVE  /\ Add(vr_r, i - 1) \in SN /\ Ahead(Add(vr_r, i - 1))
               /\ win[Add(vr_r, i - 1)] = Data(Add(vr_r, i - 1))
    <2>1. i - 1 \in 0 .. n - 1
      BY <1>3
    <2>2. Add(vr_r, i - 1) \in held
      BY <1>2, <2>1
    <2> QED
      BY <1>1, <1>6, <2>2
  <1> QED
    BY <1>4, <1>5, <1>7, <1>8, <1>9

LEMMA QueueSame ==
  ASSUME UNCHANGED <<accepted, tx_sdu_queue>>, NEW u, QueueIs(u)
  PROVE  QueueIs(u)'
  BY DEF QueueIs

LEMMA AcceptStream ==
  ASSUME LinkWindowInv, StreamInv, NEW sn \in SN, Ahead(sn), sn \notin DOMAIN rx_window,
         NEW p, NEW data, data = Data(sn), NEW segs, NEW asked,
         \A x \in DOMAIN segs : x \in DOMAIN rx_segments /\ segs[x] \subseteq rx_segments[x],
         DOMAIN rx_segments \subseteq SN,
         NEW m \in 0 .. WINDOW, NEW n \in 0 .. WINDOW, AcceptPdu(sn, p, data, segs, asked, m, n),
         UNCHANGED <<sduVars, vt_s, tx_window, retx_queue>>,
         \A k \in 1 .. Len(dataCh') : \E j \in 1 .. Len(dataCh) : dataCh'[k] = dataCh[j]
  PROVE  StreamInv' /\ HandsOver
  <1> DEFINE held == DOMAIN rx_window \union {sn}
  <1>1. PICK win, passed :
          /\ win = [s \in held |-> IF s = sn THEN data ELSE rx_window[s]]
          /\ passed = {Add(vr_r, i) : i \in 0 .. n - 1}
    OBVIOUS
  <1>2. PICK seqs : seqs = [i \in 1 .. n |-> win[Add(vr_r, i - 1)]]
    OBVIOUS
  <1>3. /\ SkipsHeld(held, vr_r, n) /\ vr_r' = Add(vr_r, n)
        /\ rx_window' = [s \in held \ passed |-> win[s]]
        /\ rx_segments' = [s \in DOMAIN segs |-> IF s \in passed THEN {} ELSE segs[s]]
        /\ rx_sdu' = Reassembled(FlattenSeq(seqs)).sdu
        /\ delivered' = delivered \o Reassembled(FlattenSeq(seqs)).out
    BY <1>1, <1>2 DEF AcceptPdu
  <1>4. /\ \A x \in SN : Ahead(x)' <=> Ahead(x) /\ x \notin passed
        /\ \A x \in SN : Ahead(x)' => Data(x)' = Data(x)
        /\ \A i \in 1 .. n : /\ Add(vr_r, i - 1) \in SN /\ Ahead(Add(vr_r, i - 1))
                             /\ win[Add(vr_r, i - 1)] = Data(Add(vr_r, i - 1))
        /\ \A x \in DOMAIN rx_window' : x = sn \/ x \in DOMAIN rx_window
        /\ \A x \in DOMAIN rx_window' : rx_window'[x] = Data(x)
    <2>1. Takes(sn, n, win, passed)
      BY <1>1, <1>3 DEF Takes
    <2> QED
      BY <2>1, AcceptContents
  <1>5. /\ n <= Base(vt_s, vr_r) /\ vr_r' \in SN
        /\ \A i \in 0 .. n : Add(vr_r, i) \in SN
        /\ \A x \in SN : Base(x, vr_r') <= Base(vt_s', vr_r') =>
                            Base(x, vr_r) >= n /\ Base(x, vr_r) <= Base(vt_s, vr_r)
    <2>1. held \in SUBSET SN /\ \A s \in held : Ahead(s)
      BY HeldAhead
    <2> HIDE DEF held
    <2> QED
      BY <1>3, <2>1, WindowMoves
  <1> HIDE DEF held
  <1>6. UNCHANGED <<offered, accepted, tx_sdu_queue, tx_sdu>>
    BY DEF sduVars
  <1>7. AcceptedOK'
    BY <1>6 DEF AcceptedOK, StreamInv
  <1>8. EntriesOK(retx_queue, tx_window)'
    BY DEF StreamInv, EntriesOK, InOrder, EntryTrue
  <1>9. WindowsSame' /\ \A x \in DOMAIN tx_window' : tx_window'[x].data \in Seq(Token)
    <2>1. ASSUME NEW x \in DOMAIN tx_window', x \in DOMAIN rx_window'
          PROVE  tx_window'[x].data = rx_window'[x]
      <3>1. tx_window[x].data = Data(x)
        BY <2>1 DEF StreamInv, WindowsSame, Data
      <3> QED
        BY <1>4, <2>1, <3>1
    <2> QED
      BY <2>1 DEF StreamInv, WindowsSame
  <1>10. PdusTrue'
    <2>1. ASSUME NEW k \in 1 .. Len(dataCh'), NEW y,
                 y = dataCh'[k].pdu.sn, Base(y, vr_r') < Base(vt_s', vr_r')
          PROVE  Carries(dataCh'[k].pdu, IF y \in DOMAIN rx_window' THEN rx_window'[y]
                                         ELSE tx_window'[y].data)
      <3>1. PICK j \in 1 .. Len(dataCh) : dataCh'[k] = dataCh[j]
        OBVIOUS
      <3>2. y \in SN
        BY <2>1, <3>1 DEF LinkWindowInv, DataInFlight, DataOK
      <3>3. Ahead(y)'
        BY <2>1 DEF Ahead
      <3>4. Ahead(y) /\ Data(y)' = Data(y)
        BY <1>4, <3>2, <3>3
      <3>5. Carries(dataCh[j].pdu, Data(y))
        BY <2>1, <3>1, <3>4 DEF StreamInv, PdusTrue
      <3> QED
        BY <3>1, <3>4, <3>5 DEF Data
    <2> QED
      BY <2>1 DEF PdusTrue, Ahead, Data
  <1>11. SegmentsTrue'
    <2>1. ASSUME NEW x \in DOMAIN rx_segments', NEW seg \in rx_segments'[x]
          PROVE  Ahead(x)' /\ Piece(seg, Data(x)')
      <3>1. x \in DOMAIN segs /\ x \notin passed /\ seg \in segs[x]
        BY <1>3, <2>1
      <3>2. x \in DOMAIN rx_segments /\ seg \in rx_segments[x] /\ x \in SN
        BY <3>1
      <3>3. Ahead(x) /\ Piece(seg, Data(x))
        BY <3>2 DEF StreamInv, SegmentsTrue
      <3> QED
        BY <1>4, <3>1, <3>2, <3>3
    <2> QED
      BY <2>1 DEF SegmentsTrue
  <1>12. PICK c \in [SN -> Cursor] : StreamAt(c)
    BY DEF StreamInv, Stream
  <1>13. /\ \A x \in SN : Ahead(x) => Span(accepted, Data(x), c[x], c[Add(x, 1)])
         /\ AtRx(c[vr_r])
    BY <1>12 DEF StreamAt
  <1>14. vr_r \in SN
    BY LinkDistances
  <1>15. Span(accepted, FlattenSeq(seqs), c[vr_r], c[vr_r'])
    <2>1. ASSUME NEW i \in 1 .. n
          PROVE  /\ seqs[i] = Data(Add(vr_r, i - 1))
                 /\ Span(accepted, seqs[i], c[Add(vr_r, i - 1)], c[Add(Add(vr_r, i - 1), 1)])
      BY <1>2, <1>4, <1>13
    <2>2. seqs \in [1 .. n -> Seq(Token)]
      <3>1. \A i \in 1 .. n : seqs[i] \in Seq(Token)
        BY <2>1, SpanEnds
      <3> QED
        BY <1>2, <3>1
    <2> QED
      BY <1>3, <1>5, <1>14, <2>1, <2>2, PassedSpan
  <1>16. /\ accepted \in Seq(1 .. NofSdus) /\ Len(accepted) \in Nat
         /\ Reach(c[vr_r]) <= Len(accepted) /\ Reassembly(accepted, c[vr_r], rx_sdu, delivered)
    BY <1>13, LenProperties DEF StreamInv, AcceptedOK, AtRx
  <1>17. /\ Reach(c[vr_r']) <= Len(accepted) /\ c[vr_r'] \in Cursor /\ c[vr_r] \in Cursor
         /\ Reassembly(accepted, c[vr_r'], rx_sdu', delivered')
         /\ c[vr_r].done <= c[vr_r'].done
    <2>1. Reach(c[vr_r']) <= Len(accepted)
      BY <1>15, <1>16, SpanReach
    <2> QED
      BY <1>3, <1>5, <1>14, <1>15, <1>16, <2>1, ReassembledSpan
  <1>18. Stream'
    <2>1. AtRx(c[vr_r])'
      BY <1>6, <1>17 DEF AtRx
    <2>2. AtTx(c[vt_s])'
      <3>1. PICK u \in 0 .. Len(accepted) :
              /\ Span(accepted, tx_sdu, c[vt_s], At(u))
              /\ \A k \in 1 .. Len(tx_sdu) : u > 0 /\ tx_sdu[k].b[1] = accepted[u]
              /\ QueueIs(u)
        BY <1>12 DEF StreamAt, AtTx
      <3>2. QueueIs(u)'
        BY <1>6, <3>1, QueueSame
      <3> QED
        BY <1>6, <3>1, <3>2 DEF AtTx
    <2>3. \A x \in SN : Ahead(x)' => Span(accepted', Data(x)', c[x], c[Add(x, 1)])
      BY <1>4, <1>6, <1>13
    <2>4. \A x \in SN : Base(x, vr_r') <= Base(vt_s', vr_r') => Reach(c[x]) <= Reach(c[vt_s'])
      BY <1>5, <1>12 DEF StreamAt
    <2>5. StreamAt(c)'
      BY <2>1, <2>2, <2>3, <2>4 DEF StreamAt
    <2> QED
      BY <2>5 DEF Stream
  <1>19. HandsOver
    <2>1. /\ SdusIn(delivered) = SubSeq(accepted, 1, c[vr_r].done)
          /\ Len(SdusIn(delivered)) = c[vr_r].done /\ c[vr_r].done \in 0 .. Len(accepted)
      BY <1>16, <1>17, DeliveredPrefix
    <2>2. SdusIn(delivered') = SubSeq(accepted, 1, c[vr_r'].done) /\ c[vr_r'].done \in 0 .. Len(accepted)
      BY <1>16, <1>17, DeliveredPrefix
    <2>3. deliveredSdus = SdusIn(delivered) /\ deliveredSdus' = SdusIn(delivered')
      BY DEF deliveredSdus, SdusIn
    <2>4. c[vr_r'].done \in Len(deliveredSdus) .. Len(accepted)
      BY <1>16, <1>17, <2>1, <2>2, <2>3
    <2> QED
      BY <2>2, <2>3, <2>4 DEF HandsOver
  <1> QED
    BY <1>7, <1>8, <1>9, <1>10, <1>11, <1>18, <1>19 DEF StreamInv

LEMMA DeliveredSoFar ==
  ASSUME LinkWindowInv, StreamInv
  PROVE  /\ Len(deliveredSdus) \in 0 .. Len(accepted)
         /\ deliveredSdus = SubSeq(accepted, 1, Len(deliveredSdus))
         /\ UNCHANGED delivered => deliveredSdus' = deliveredSdus /\ HandsOver
  <1>1. PICK c \in [SN -> Cursor] : StreamAt(c)
    BY DEF StreamInv, Stream
  <1>2. AcceptedOK /\ Len(accepted) \in Nat
    BY LenProperties DEF StreamInv, AcceptedOK
  <1>3. /\ c[vr_r].done \in Nat /\ c[vr_r].done <= Len(accepted)
        /\ deliveredSdus = SubSeq(accepted, 1, c[vr_r].done)
        /\ Len(deliveredSdus) = c[vr_r].done
    BY <1>1, <1>2, DeliveredIs
  <1>4. /\ Len(deliveredSdus) \in 0 .. Len(accepted)
        /\ Len(deliveredSdus) \in Len(deliveredSdus) .. Len(accepted)
        /\ deliveredSdus = SubSeq(accepted, 1, Len(deliveredSdus))
    BY <1>2, <1>3
  <1>5. UNCHANGED delivered => deliveredSdus' = deliveredSdus
    BY DEF deliveredSdus
  <1> QED
    BY <1>4, <1>5 DEF HandsOver

(* The receiver's lists of segments only lose some: dataCh' and the windows of
   the two ends as they are.                                                  *)
LEMMA DiscardPduStream ==
  ASSUME LinkWindowInv, StreamInv, NEW p, NEW segs, NEW asked, DiscardPdu(p, segs, asked),
         \A x \in DOMAIN segs : x \in DOMAIN rx_segments /\ segs[x] \subseteq rx_segments[x],
         UNCHANGED <<sduVars, vt_s, tx_window, retx_queue>>,
         \A k \in 1 .. Len(dataCh') : \E j \in 1 .. Len(dataCh) : dataCh'[k] = dataCh[j]
  PROVE  StreamInv' /\ HandsOver
  <1>1. UNCHANGED <<vr_r, rx_window, rx_sdu, delivered>> /\ rx_segments' = segs
    BY DEF DiscardPdu, windowVars
  <1>2. StreamInv'
    BY <1>1, SegmentsStream
  <1> QED
    BY <1>1, <1>2, DeliveredSoFar

LEMMA FullPduStream ==
  ASSUME LinkWindowInv, StreamInv, NEW sn \in SN, NEW p, NEW data, NEW segs, NEW asked,
         handle_data_pdu_full(sn, p, data, segs, asked),
         inside_rx_window(sn) => Ahead(sn) /\ data = Data(sn),
         \A x \in DOMAIN segs : x \in DOMAIN rx_segments /\ segs[x] \subseteq rx_segments[x],
         UNCHANGED <<sduVars, vt_s, tx_window, retx_queue>>,
         \A k \in 1 .. Len(dataCh') : \E j \in 1 .. Len(dataCh) : dataCh'[k] = dataCh[j]
  PROVE  StreamInv' /\ HandsOver
  <1>1. CASE DiscardPdu(p, segs, asked)
    BY <1>1, DiscardPduStream
  <1>2. ASSUME inside_rx_window(sn), sn \notin DOMAIN rx_window, NEW m \in 0 .. WINDOW,
               NEW n \in 0 .. WINDOW, AcceptPdu(sn, p, data, segs, asked, m, n)
        PROVE  StreamInv' /\ HandsOver
    <2>1. DOMAIN rx_segments \subseteq SN
      BY DEF LinkWindowInv, RxPayloadTypeOK
    <2> QED
      BY <1>2, <2>1, AcceptStream
  <1> QED
    BY <1>1, <1>2 DEF handle_data_pdu_full

LEMMA AheadData ==
  ASSUME StreamInv, NEW sn \in SN, Ahead(sn)
  PROVE  Data(sn) \in Seq(Token)
  <1>1. PICK c \in [SN -> Cursor] : StreamAt(c)
    BY DEF StreamInv, Stream
  <1>2. Span(accepted, Data(sn), c[sn], c[Add(sn, 1)])
    BY <1>1 DEF StreamAt
  <1> QED
    BY <1>2, SpanEnds

LEMMA SegmentPduStream ==
  ASSUME LinkWindowInv, StreamInv, NEW pdu, pdu.sn \in SN, handle_data_pdu_segment(pdu),
         inside_rx_window(pdu.sn) => Ahead(pdu.sn) /\ Piece(pdu, Data(pdu.sn)),
         UNCHANGED <<sduVars, vt_s, tx_window, retx_queue>>,
         \A k \in 1 .. Len(dataCh') : \E j \in 1 .. Len(dataCh) : dataCh'[k] = dataCh[j]
  PROVE  StreamInv' /\ HandsOver
  <1> DEFINE sn == pdu.sn
             seg == [so |-> pdu.so, data |-> pdu.data, lsf |-> pdu.lsf, p |-> pdu.p]
  <1>1. CASE DiscardPdu(pdu.p, rx_segments, do_status)
    BY <1>1, DiscardPduStream
  <1>2. ASSUME inside_rx_window(sn), sn \notin DOMAIN rx_segments, NewSegmentList(pdu)
        PROVE  StreamInv' /\ HandsOver
    <2>1. Ahead(sn) /\ Piece(seg, Data(sn))
      BY <1>2 DEF Piece
    <2>2. UNCHANGED <<vr_r, rx_window, rx_sdu, delivered>>
      BY <1>2 DEF NewSegmentList
    <2>3. rx_segments' = [s \in DOMAIN rx_segments \union {sn} |->
                            IF s = sn THEN {seg} ELSE rx_segments[s]]
      BY <1>2 DEF NewSegmentList
    <2> HIDE DEF seg
    <2>4. \A x \in DOMAIN rx_segments' : \A s \in rx_segments'[x] :
            \/ x \in DOMAIN rx_segments /\ s \in rx_segments[x]
            \/ Ahead(x) /\ Piece(s, Data(x))
      BY <2>1, <2>3
    <2>5. StreamInv'
      BY <2>2, <2>4, SegmentsStream
    <2> QED
      BY <2>2, <2>5, DeliveredSoFar
  <1>3. ASSUME inside_rx_window(sn), sn \in DOMAIN rx_segments, AddSegmentAndCheck(pdu)
        PROVE  StreamInv' /\ HandsOver
    <2> DEFINE segs == PruneSegments(InsertSegment(rx_segments[sn], seg))
               others == [s \in DOMAIN rx_segments \ {sn} |-> rx_segments[s]]
    <2>1. Ahead(sn) /\ Piece(seg, Data(sn))
      BY <1>3 DEF Piece
    <2>2. \A s \in rx_segments[sn] : Piece(s, Data(sn))
      BY <1>3 DEF StreamInv, SegmentsTrue
    <2> HIDE DEF seg
    <2>3. \A s \in segs : Piece(s, Data(sn)) /\ (s \in rx_segments[sn] \/ s = seg)
      <3>1. segs \subseteq rx_segments[sn] \union {seg}
        BY SegmentsKept
      <3> QED
        BY <2>1, <2>2, <3>1
    <2>4. ASSUME UNCHANGED <<windowVars, rx_sdu, delivered>>,
                 rx_segments' = [rx_segments EXCEPT ![sn] = segs]
          PROVE  StreamInv' /\ HandsOver
      <3>1. UNCHANGED <<vr_r, rx_window, rx_sdu, delivered>>
        BY <2>4 DEF windowVars
      <3> HIDE DEF segs
      <3>2. \A x \in DOMAIN rx_segments' : \A s \in rx_segments'[x] :
              \/ x \in DOMAIN rx_segments /\ s \in rx_segments[x]
              \/ Ahead(x) /\ Piece(s, Data(x))
        BY <1>3, <2>1, <2>3, <2>4
      <3>3. StreamInv'
        BY <3>1, <3>2, SegmentsStream
      <3> QED
        BY <3>1, <3>3, DeliveredSoFar
    <2>5. ASSUME SegmentsComplete(segs), NEW p, NEW asked,
                 handle_data_pdu_full(sn, p, JoinSegments(segs), others, asked)
          PROVE  StreamInv' /\ HandsOver
      <3>1. Data(sn) \in Seq(Token)
        BY <2>1, AheadData
      <3>2. JoinSegments(segs) = Data(sn)
        <4> HIDE DEF segs
        <4> QED
          BY <2>3, <2>5, <3>1, JoinPieces
      <3>3. \A x \in DOMAIN others : x \in DOMAIN rx_segments /\ others[x] \subseteq rx_segments[x]
        OBVIOUS
      <3> HIDE DEF segs, others
      <3> QED
        BY <2>1, <2>5, <3>2, <3>3, FullPduStream
    <2>6. \/ /\ UNCHANGED <<windowVars, rx_sdu, delivered>>
             /\ rx_segments' = [rx_segments EXCEPT ![sn] = segs]
          \/ /\ SegmentsComplete(segs)
             /\ \E p, asked : handle_data_pdu_full(sn, p, JoinSegments(segs), others, asked)
      BY <1>3 DEF AddSegmentAndCheck, seg
    <2> HIDE DEF segs, others
    <2> QED
      BY <2>4, <2>5, <2>6
  <1> QED
    BY <1>1, <1>2, <1>3 DEF handle_data_pdu_segment

LEMMA DeliverStream ==
  ASSUME LinkWindowInv, StreamInv, DeliverPdu
  PROVE  StreamInv' /\ HandsOver /\ UNCHANGED accepted
  <1>1. PICK k \in 1 .. Len(dataCh) :
          handle_data_pdu(dataCh[k].pdu) /\ dataCh' = RemoveAt(dataCh, k)
    BY DEF DeliverPdu
  <1>2. UNCHANGED <<sduVars, vt_s, tx_window, retx_queue>> /\ UNCHANGED accepted
    BY DEF DeliverPdu, retxVars, sduVars
  <1>3. \A i \in 1 .. Len(dataCh') : \E j \in 1 .. Len(dataCh) : dataCh'[i] = dataCh[j]
    <2>1. IsSeq(dataCh)
      BY DEF LinkWindowInv
    <2>2. /\ Len(dataCh) \in Nat /\ Len(dataCh') = Len(dataCh) - 1
          /\ \A j \in 1 .. Len(dataCh) - 1 :
               dataCh'[j] = IF j < k THEN dataCh[j] ELSE dataCh[j + 1]
      BY <1>1, <2>1, RemoveAtKeeps
    <2> QED
      BY <2>2
  <1> DEFINE d == dataCh[k]
             pdu == d.pdu
  <1>4. pdu.sn \in SN /\ DataOK(d)
    BY DEF LinkWindowInv, DataInFlight, DataOK
  <1>5. inside_rx_window(pdu.sn) => Ahead(pdu.sn) /\ Carries(pdu, Data(pdu.sn))
    <2>1. ASSUME inside_rx_window(pdu.sn) PROVE Ahead(pdu.sn)
      BY <1>4, <2>1, HeldAhead
    <2>2. Ahead(pdu.sn) => Carries(pdu, Data(pdu.sn))
      BY DEF StreamInv, PdusTrue
    <2> QED
      BY <2>1, <2>2
  <1> HIDE DEF d
  <1>6. CASE pdu.rf /\ handle_data_pdu_segment(pdu)
    <2>1. inside_rx_window(pdu.sn) => Ahead(pdu.sn) /\ Piece(pdu, Data(pdu.sn))
      BY <1>5, <1>6 DEF Carries
    <2> HIDE DEF pdu
    <2>2. StreamInv' /\ HandsOver
      BY <1>2, <1>3, <1>4, <1>6, <2>1, SegmentPduStream
    <2> QED
      BY <1>2, <2>2
  <1>7. CASE ~pdu.rf /\ handle_data_pdu_full(pdu.sn, pdu.p, pdu.data, rx_segments, do_status)
    <2>1. inside_rx_window(pdu.sn) => Ahead(pdu.sn) /\ pdu.data = Data(pdu.sn)
      BY <1>5, <1>7 DEF Carries
    <2> HIDE DEF pdu
    <2>2. StreamInv' /\ HandsOver
      BY <1>2, <1>3, <1>4, <1>7, <2>1, FullPduStream
    <2> QED
      BY <1>2, <2>2
  <1> QED
    BY <1>1, <1>6, <1>7 DEF handle_data_pdu, d

(* Nothing is queued or under way: the start, and what reestablish leaves. *)
NothingUnderWay ==
  /\ tx_sdu_queue = <<>> /\ tx_sdu = <<>> /\ vr_r = 0 /\ vt_s = 0
  /\ rx_window = <<>> /\ rx_segments = <<>> /\ rx_sdu = <<>>
  /\ tx_window = <<>> /\ retx_queue = <<>> /\ dataCh = <<>>
  /\ AcceptedOK /\ delivered \in Seq(ByteSeq) /\ SdusIn(delivered) = accepted

LEMMA NothingUnderWayStream == NothingUnderWay => StreamInv
  <1> SUFFICES ASSUME NothingUnderWay PROVE StreamInv
    OBVIOUS
  <1> DEFINE n == Len(accepted)
  <1>1. accepted \in Seq(1 .. NofSdus) /\ n \in Nat /\ AcceptedOK
    BY LenProperties DEF NothingUnderWay, AcceptedOK
  <1>2. DOMAIN tx_window = {} /\ DOMAIN rx_window = {} /\ DOMAIN rx_segments = {}
    BY DEF NothingUnderWay
  <1>3. Len(dataCh) = 0 /\ Len(tx_sdu) = 0 /\ Len(tx_sdu_queue) = 0
    BY DEF NothingUnderWay
  <1>4. EntriesOK(retx_queue, tx_window)
    BY EmptyEntries DEF NothingUnderWay
  <1>5. WindowsSame /\ PdusTrue /\ SegmentsTrue /\ \A sn \in DOMAIN tx_window : tx_window[sn].data \in Seq(Token)
    BY <1>2, <1>3 DEF WindowsSame, PdusTrue, SegmentsTrue
  <1>6. PICK c : c = [sn \in SN |-> At(n)]
    OBVIOUS
  <1>7. At(n) \in Cursor /\ Reach(At(n)) = n /\ At(n).done = n /\ At(n).part = 0
    BY <1>1 DEF At, Cursor, Reach
  <1>8. 0 \in SN /\ \A sn \in SN : c[sn] = At(n)
    BY <1>6, ModType DEF SN
  <1>9. AtRx(c[vr_r])
    <2>1. SubSeq(accepted, 1, n) = accepted
      BY <1>1
    <2>2. Part(accepted, At(n)) = <<>>
      BY <1>1, <1>7, PartType
    <2>3. Reassembly(accepted, At(n), rx_sdu, delivered)
      BY <1>7, <2>1, <2>2 DEF NothingUnderWay, Reassembly
    <2> QED
      BY <1>1, <1>7, <1>8, <2>3 DEF NothingUnderWay, AtRx
  <1>10. AtTx(c[vt_s])
    <2>1. n \in 0 .. Len(accepted)
      BY <1>1
    <2>2. Span(accepted, tx_sdu, At(n), At(n))
      BY <1>7, SpanEmpty DEF NothingUnderWay
    <2>3. QueueIs(n)
      <3>1. 1 .. 0 = {} /\ n + 1 .. n = {}
        BY <1>1
      <3> QED
        BY <1>3, <3>1 DEF QueueIs
    <2>4. c[vt_s] = At(n)
      BY <1>8 DEF NothingUnderWay
    <2> QED
      BY <1>3, <2>1, <2>2, <2>3, <2>4 DEF AtTx
  <1>11. \A sn \in SN : ~Ahead(sn)
    <2>1. ASSUME NEW sn \in SN PROVE ~Ahead(sn)
      <3>1. Base(0, 0) = 0 /\ Base(sn, 0) \in 0 .. MOD - 1
        BY <1>8, BaseSelf, BaseLinear
      <3> QED
        BY <3>1 DEF Ahead, NothingUnderWay
    <2> QED
      BY <2>1
  <1>12. \A sn \in SN : Base(sn, vr_r) <= Base(vt_s, vr_r) => Reach(c[sn]) <= Reach(c[vt_s])
    <2>1. vt_s \in SN
      BY <1>8 DEF NothingUnderWay
    <2> QED
      BY <1>1, <1>7, <1>8, <2>1
  <1>13. c \in [SN -> Cursor] /\ StreamAt(c)
    BY <1>6, <1>7, <1>9, <1>10, <1>11, <1>12 DEF StreamAt
  <1> QED
    BY <1>1, <1>4, <1>5, <1>13 DEF StreamInv, Stream

LEMMA NothingUnderWayNext == NothingUnderWay' => StreamInv'
  BY NothingUnderWayStream, PTL

LEMMA LinkInitStream == LinkInit => StreamInv /\ accepted = <<>> /\ deliveredSdus = <<>>
  <1> SUFFICES ASSUME LinkInit PROVE StreamInv /\ accepted = <<>> /\ deliveredSdus = <<>>
    OBVIOUS
  <1>1. accepted = <<>> /\ delivered = <<>>
    BY DEF LinkInit, TxInit, RxInit
  <1>2. SdusIn(<<>>) = <<>>
    <2>1. PICK old : old = [k \in 1 .. Len(<<>>) |->
                             IF <<>>[k] = <<NoByte>> THEN <<>> ELSE <<SduOf(<<>>[k])>>]
      OBVIOUS
    <2>2. 1 .. Len(<<>>) = 1 .. 0 /\ 1 .. 0 = {}
      OBVIOUS
    <2>3. old \in [1 .. 0 -> Seq(Nat)]
      BY <2>1, <2>2
    <2>4. PICK h : Concats(h, old, 0, Nat)
      BY <2>3, ConcatsExist
    <2>5. FlattenSeq(old) = h[0]
      BY <2>3, <2>4, FlattenIs
    <2> QED
      BY <2>1, <2>4, <2>5 DEF SdusIn, Concats
  <1>3. SdusIn(delivered) = accepted /\ delivered \in Seq(ByteSeq) /\ AcceptedOK
    BY <1>1, <1>2 DEF AcceptedOK
  <1>4. deliveredSdus = SdusIn(delivered)
    BY DEF deliveredSdus, SdusIn
  <1>5. NothingUnderWay
    BY <1>3 DEF NothingUnderWay, LinkInit, TxInit, RxInit
  <1> QED
    BY <1>1, <1>3, <1>4, <1>5, NothingUnderWayStream

LEMMA ReestablishStream ==
  ASSUME TxInv, StreamInv, reestablish
  PROVE  StreamInv' /\ accepted' = deliveredSdus /\ UNCHANGED delivered
  <1> DEFINE k == Len(deliveredSdus)
  <1>1. LinkWindowInv /\ accepted \in Seq(1 .. NofSdus) /\ Len(accepted) \in Nat /\ AcceptedOK
    BY LenProperties DEF TxInv, StreamInv, AcceptedOK
  <1>2. k \in 0 .. Len(accepted) /\ deliveredSdus = SubSeq(accepted, 1, k)
    BY <1>1, DeliveredSoFar
  <1>3. accepted' = deliveredSdus /\ UNCHANGED <<offered, delivered>>
    BY DEF reestablish, tx_reestablish, rx_reestablish
  <1> HIDE DEF k
  <1>4. AcceptedOK'
    <2>1. \A x \in 1 .. k : x \in 1 .. Len(accepted) /\ accepted[x] \in 1 .. NofSdus
      <3>1. \A x \in 1 .. k : x \in 1 .. Len(accepted)
        BY <1>1, <1>2
      <3> QED
        BY <1>1, <3>1, ElementOfSeq
    <2>2. /\ SubSeq(accepted, 1, k) \in Seq(1 .. NofSdus) /\ Len(SubSeq(accepted, 1, k)) = k
          /\ \A x \in 1 .. k : SubSeq(accepted, 1, k)[x] = accepted[x]
      <3>1. accepted \in Seq(1 .. NofSdus) /\ k \in 0 .. Len(accepted)
        BY <1>1, <1>2
      <3> QED
        BY <2>1, <3>1, SubSeqProperties
    <2>3. \A x \in 1 .. k : accepted'[x] = accepted[x]
      BY <1>2, <1>3, <2>2
    <2> QED
      BY <1>1, <1>2, <1>3, <2>1, <2>2, <2>3 DEF AcceptedOK
  <1>5. delivered \in Seq(ByteSeq)
    <2>1. PICK c \in [SN -> Cursor] : StreamAt(c)
      BY DEF StreamInv, Stream
    <2> QED
      BY <2>1 DEF StreamAt, AtRx, Reassembly
  <1>6. deliveredSdus = SdusIn(delivered)
    BY DEF deliveredSdus, SdusIn
  <1>7. NothingUnderWay'
    BY <1>3, <1>4, <1>5, <1>6 DEF NothingUnderWay, reestablish, tx_reestablish, rx_reestablish
  <1> QED
    BY <1>3, <1>7, NothingUnderWayNext

(* One step: the stream is kept, and the service takes a step or stutters. *)
ServiceStep == [Service!Next]_(Service!vars)

LEMMA ServiceStutter ==
  ASSUME UNCHANGED <<accepted, delivered>>
  PROVE  ServiceStep
  <1>1. UNCHANGED <<accepted, deliveredSdus>>
    BY DEF deliveredSdus
  <1> QED
    BY <1>1 DEF ServiceStep, Service!vars

LEMMA HandsOverServes ==
  ASSUME LinkWindowInv, StreamInv, HandsOver, UNCHANGED accepted
  PROVE  ServiceStep
  <1>1. PICK k \in Len(deliveredSdus) .. Len(accepted) : deliveredSdus' = SubSeq(accepted, 1, k)
    BY DEF HandsOver
  <1>2. /\ Len(deliveredSdus) \in Int /\ Len(accepted) \in Int
        /\ deliveredSdus = SubSeq(accepted, 1, Len(deliveredSdus))
    BY DeliveredSoFar
  <1>3. CASE k = Len(deliveredSdus)
    <2>1. UNCHANGED <<accepted, deliveredSdus>>
      BY <1>1, <1>2, <1>3
    <2> QED
      BY <2>1 DEF ServiceStep, Service!vars
  <1>4. CASE k # Len(deliveredSdus)
    <2>1. k \in Len(deliveredSdus) + 1 .. Len(accepted)
      <3>1. \A a, b \in Int : k \in a .. b /\ k # a => k \in a + 1 .. b
        OBVIOUS
      <3> QED
        BY <1>2, <1>4, <3>1
    <2>2. Service!Deliver
      BY <1>1, <2>1 DEF Service!Deliver
    <2> QED
      BY <2>2 DEF ServiceStep, Service!Next
  <1> QED
    BY <1>3, <1>4

LEMMA DiscardServes ==
  ASSUME TxInv, StreamInv, UNCHANGED rxVars, NEW i, discard_sdu(i)
  PROVE  StreamInv' /\ ServiceStep
  <1>1. StreamInv' /\ \E k \in Len(deliveredSdus) + 1 .. Len(accepted) : accepted' = RemoveAt(accepted, k)
    BY DiscardStream
  <1>2. UNCHANGED delivered
    BY DEF rxVars, payloadVars
  <1>3. UNCHANGED deliveredSdus
    BY <1>2 DEF deliveredSdus
  <1>4. Service!Discard
    BY <1>1, <1>3 DEF Service!Discard, Service!RemoveAt, RemoveAt
  <1> QED
    BY <1>1, <1>4 DEF ServiceStep, Service!Next

LEMMA WriteServes ==
  ASSUME TxInv, StreamInv, UNCHANGED rxVars, write_sdu
  PROVE  StreamInv' /\ ServiceStep
  <1>1. StreamInv'
    BY WriteStream
  <1>2. UNCHANGED delivered
    BY DEF rxVars, payloadVars
  <1>3. UNCHANGED deliveredSdus
    BY <1>2 DEF deliveredSdus
  <1>4. CASE UNCHANGED accepted
    BY <1>1, <1>2, <1>4, ServiceStutter
  <1>5. CASE accepted' = Append(accepted, offered + 1)
    <2>1. offered \in 0 .. NofSdus /\ offered < NofSdus /\ NofSdus \in Nat
      BY TxAssumption DEF TxInv, TxTypes, write_sdu
    <2>2. offered + 1 \in 1 .. NofSdus
      BY <2>1
    <2>3. \A k \in 1 .. Len(accepted) : accepted[k] < offered + 1
      <3>1. \A k \in 1 .. Len(accepted) : accepted[k] \in 1 .. NofSdus /\ accepted[k] <= offered
        BY ElementOfSeq DEF StreamInv, AcceptedOK
      <3> QED
        BY <2>1, <3>1
    <2>4. Service!Accept
      BY <1>3, <1>5, <2>2, <2>3 DEF Service!Accept
    <2> QED
      BY <1>1, <2>4 DEF ServiceStep, Service!Next
  <1> QED
    BY <1>4, <1>5 DEF write_sdu

LEMMA StreamStepInv ==
  TxInv /\ TxInv' /\ StreamInv /\ [LinkNext]_linkVars => StreamInv' /\ ServiceStep
  <1> SUFFICES ASSUME TxInv, TxInv', StreamInv, [LinkNext]_linkVars PROVE StreamInv' /\ ServiceStep
    OBVIOUS
  <1>0. LinkWindowInv
    BY DEF TxInv
  <1>1. CASE Tx(write_sdu)
    BY <1>1, WriteServes DEF Tx
  <1>2. ASSUME NEW i \in Discardable, Tx(discard_sdu(i)) PROVE StreamInv' /\ ServiceStep
    BY <1>2, DiscardServes DEF Tx
  <1>3. ASSUME NEW g \in Grants, NEW s \in {g - 1, g} \intersect Nat, ReadPdu(g, s)
        PROVE  StreamInv' /\ ServiceStep
    <2>1. s \in Nat
      OBVIOUS
    <2> QED
      BY <1>3, <2>1, ReadPduStream, ServiceStutter
  <1>4. CASE PollTimeout \/ Tx(timer_expired) \/ Tx(NackSn) \/ Tx(StatusDone)
    <2>1. UNCHANGED rxVars /\ (timer_expired \/ NackSn \/ StatusDone \/ poll_retx_expires)
      BY <1>4 DEF PollTimeout, Tx
    <2>2. UNCHANGED <<accepted, delivered>>
      BY <2>1 DEF timer_expired, NackSn, StatusDone, poll_retx_expires, sduVars, rxVars, payloadVars
    <2> QED
      BY <2>1, <2>2, StackStream, ServiceStutter
  <1>5. CASE Tx(AckSn)
    <2>1. UNCHANGED rxVars /\ AckSn
      BY <1>5 DEF Tx
    <2>2. UNCHANGED <<accepted, delivered>>
      BY <2>1 DEF AckSn, sduVars, rxVars, payloadVars
    <2> QED
      BY <2>1, <2>2, AckStream, ServiceStutter
  <1>6. CASE DeliverPdu
    BY <1>0, <1>6, DeliverStream, HandsOverServes
  <1>7. CASE LosePdu \/ LoseStatus \/ ReorderingTimeout \/ Rx(status_prohibit_expired)
             \/ (\E grant : Rx(build_status_pdu(grant))) \/ UNCHANGED linkVars
    <2>1. /\ UNCHANGED <<sduVars, vr_r, vt_s, rx_window, payloadVars, tx_window, retx_queue>>
          /\ dataCh' = dataCh \/ \E k \in 1 .. Len(dataCh) : dataCh' = RemoveAt(dataCh, k)
      BY <1>7 DEF LosePdu, LoseStatus, ReorderingTimeout, Rx, status_prohibit_expired,
                  build_status_pdu, reordering_timer_expired, linkVars, txVars, rxVars, windowVars,
                  retxVars
    <2>2. UNCHANGED <<accepted, delivered>>
      BY <2>1 DEF sduVars, payloadVars
    <2> QED
      BY <2>1, <2>2, OtherStream, ServiceStutter
  <1>8. CASE DeliverStatus
    <2>1. UNCHANGED <<accepted, delivered>>
      BY <1>8 DEF DeliverStatus, handle_control_pdu, sduVars, payloadVars
    <2> QED
      BY <1>8, <2>1, StatusStream, ServiceStutter
  <1>9. CASE reestablish
    <2>1. StreamInv' /\ accepted' = deliveredSdus /\ UNCHANGED delivered
      BY <1>9, ReestablishStream
    <2>2. UNCHANGED deliveredSdus
      BY <2>1 DEF deliveredSdus
    <2>3. Service!Reestablish
      BY <2>1, <2>2 DEF Service!Reestablish
    <2> QED
      BY <2>1, <2>3 DEF ServiceStep, Service!Next
  <1> QED
    BY <1>1, <1>2, <1>3, <1>4, <1>5, <1>6, <1>7, <1>8, <1>9 DEF LinkNext

(* rlc_am_lte implements RlcAmService: what handle_data_pdu and reassemble_rx_sdus hand
   to PDCP is, whole, once and in order, what write_sdu took, less what discard_sdu took out
   of tx_sdu_queue and what reestablish dropped, whatever MAC loses, delays or reorders and
   however build_data_pdu and build_segment cut SDUs and PDUs up.            *)
THEOREM ImplementsServiceHolds == LinkSpec => ImplementsService
  <1>1. LinkInit => TxInv /\ StreamInv /\ Service!Init
    BY TxInitInv, LinkInitStream DEF Service!Init
  <1>2. TxInv /\ StreamInv /\ [LinkNext]_linkVars => TxInv' /\ StreamInv' /\ [Service!Next]_(Service!vars)
    BY TxStepInv, StreamStepInv DEF ServiceStep
  <1> QED
    BY <1>1, <1>2, PTL DEF LinkSpec, ImplementsService, Service!Spec

-----------------------------------------------------------------------------
(* x is an element of one of the first n of these sequences. *)
OneOf(x, seqs, n) == \E i \in 1 .. n : \E j \in 1 .. Len(seqs[i]) : x = seqs[i][j]

(* An element of the sequences put together is one of theirs. *)
LEMMA ConcatElement ==
  ASSUME NEW S, NEW n \in Nat, NEW seqs \in [1 .. n -> Seq(S)], NEW h, Concats(h, seqs, n, S)
  PROVE  \A k \in 1 .. Len(h[n]) : OneOf(h[n][k], seqs, n)
  <1> USE DEF OneOf
  <1> DEFINE From(x, m) == OneOf(x, seqs, m)
             Bad == {m \in Nat : m <= n /\ \E l \in 1 .. Len(h[m]) : ~From(h[m][l], m)}
  <1>1. /\ \A m \in 0 .. n : h[m] \in Seq(S) /\ Len(h[m]) \in Nat
        /\ h[0] = <<>> /\ \A m \in 1 .. n : h[m] = h[m - 1] \o seqs[m]
    <2>1. \A m \in 0 .. n : h[m] \in Seq(S)
      BY DEF Concats
    <2> QED
      BY <2>1, LenProperties DEF Concats
  <1> SUFFICES ASSUME NEW k \in 1 .. Len(h[n]), ~From(h[n][k], n) PROVE FALSE
    OBVIOUS
  <1>b. n \in Bad
    OBVIOUS
  <1>2. Bad \in SUBSET Nat
    OBVIOUS
  <1> HIDE DEF Bad
  <1>3. PICK m \in Bad : \A y \in Bad : m <= y
    BY <1>2, <1>b, LeastElement
  <1>4. m \in Nat /\ m <= n /\ \E l \in 1 .. Len(h[m]) : ~From(h[m][l], m)
    BY <1>3 DEF Bad
  <1>5. PICK l \in 1 .. Len(h[m]) : ~From(h[m][l], m)
    BY <1>4
  <1>6. m # 0
    <2>1. Len(<<>>) = 0
      OBVIOUS
    <2> QED
      BY <1>1, <1>5, <2>1
  <1>7. m - 1 \in Nat /\ m - 1 <= n /\ ~(m <= m - 1) /\ m \in 1 .. n /\ m - 1 \in 0 .. n /\ m \in 0 .. n
    BY <1>4, <1>6
  <1>8. \A x : From(x, m - 1) => From(x, m)
    <2>1. \A i \in 1 .. m - 1 : i \in 1 .. m
      BY <1>7
    <2> QED
      BY <2>1
  <1>9. \A j \in 1 .. Len(seqs[m]) : From(seqs[m][j], m)
    <2>1. m \in 1 .. m
      BY <1>7
    <2> QED
      BY <2>1
  <1>10. \A j \in 1 .. Len(h[m - 1]) : From(h[m - 1][j], m - 1)
    BY <1>3, <1>7 DEF Bad
  <1> HIDE DEF From, OneOf
  <1>11. /\ h[m - 1] \in Seq(S) /\ seqs[m] \in Seq(S) /\ h[m] = h[m - 1] \o seqs[m]
         /\ Len(h[m - 1]) \in Nat /\ Len(seqs[m]) \in Nat
    <2>1. seqs[m] \in Seq(S)
      BY <1>7
    <2> QED
      BY <1>1, <1>7, <2>1, LenProperties
  <1> DEFINE a == Len(h[m - 1])
             b == Len(seqs[m])
  <1>12. /\ Len(h[m]) = a + b
         /\ \A i \in 1 .. a + b : h[m][i] = IF i <= a THEN h[m - 1][i] ELSE seqs[m][i - a]
    <2> DEFINE p == h[m - 1]
               r == seqs[m]
    <2>1. p \in Seq(S) /\ r \in Seq(S) /\ h[m] = p \o r /\ a = Len(p) /\ b = Len(r)
      BY <1>11
    <2> HIDE DEF p, r, a, b
    <2>2. /\ Len(p \o r) = Len(p) + Len(r)
          /\ \A i \in 1 .. Len(p) + Len(r) : (p \o r)[i] = IF i <= Len(p) THEN p[i] ELSE r[i - Len(p)]
      BY <2>1, ConcatProperties
    <2> QED
      BY <2>1, <2>2 DEF p, r
  <1>13. a \in Nat /\ b \in Nat
    BY <1>11
  <1>14. \A i \in 1 .. a : From(h[m - 1][i], m)
    BY <1>8, <1>10
  <1>15. \A i \in 1 .. b : From(seqs[m][i], m)
    BY <1>9
  <1> HIDE DEF a, b
  <1>16. l \in 1 .. a \/ (~(l <= a) /\ l - a \in 1 .. b)
    BY <1>5, <1>12, <1>13
  <1>17. l \in 1 .. a + b
    BY <1>5, <1>12
  <1> QED
    BY <1>5, <1>12, <1>13, <1>14, <1>15, <1>16, <1>17

(* What build_data_pdu reads comes from what is left of an SDU or from one in the queue. *)
LEMMA StreamTokens ==
  ASSUME NEW A, Increasing(A), NEW q, Len(q) \in Nat, NEW u \in Nat, Queued(A, q, u),
         NEW s \in Seq(Token), NEW k \in 1 .. Len(PackStream(s, q))
  PROVE  \/ \E j \in 1 .. Len(s) : PackStream(s, q)[k] = s[j]
         \/ \E j \in 1 .. Len(q) : q[j] # Null /\ PackStream(s, q)[k].b[1] = q[j]
  <1>1. PICK h : QueueTokens(q, h) /\ QueuedTokens(q) = h[Len(q)]
    BY QueuedTokensAre
  <1> DEFINE N == Len(q)
             seqs == [j \in 1 .. N |-> Slot(q[j])]
             t == h[N]
  <1>2. N \in Nat /\ seqs \in [1 .. N -> Seq(Token)] /\ Concats(h, seqs, N, Token)
    BY <1>1, SlotType DEF QueueTokens
  <1>3. t \in Seq(Token) /\ Len(t) \in Nat /\ Len(s) \in Nat
    <2>1. N \in 0 .. N
      BY <1>2
    <2> QED
      BY <1>1, <2>1, QueueTokensType, LenProperties
  <1>4. \A j \in 1 .. N : seqs[j] = Slot(q[j])
    OBVIOUS
  <1>5. PackStream(s, q) = s \o t
    BY <1>1 DEF PackStream
  <1> HIDE DEF seqs
  <1>6. ASSUME NEW i \in 1 .. Len(t)
        PROVE  \E j \in 1 .. N : q[j] # Null /\ t[i].b[1] = q[j]
    <2>0. \A x \in 1 .. Len(h[N]) : OneOf(h[N][x], seqs, N)
      <3> HIDE DEF N
      <3> QED
        BY <1>2, ConcatElement
    <2>1. PICK j \in 1 .. N : \E l \in 1 .. Len(seqs[j]) : t[i] = seqs[j][l]
      BY <2>0 DEF OneOf
    <2>2. PICK l \in 1 .. Len(Slot(q[j])) : t[i] = Slot(q[j])[l]
      BY <1>4, <2>1
    <2>3. q[j] # Null /\ Slot(q[j])[l].b[1] = q[j]
      BY <2>2, SlotType
    <2> QED
      BY <2>2, <2>3
  <1> HIDE DEF t, N
  <1>7. /\ Len(PackStream(s, q)) = Len(s) + Len(t)
        /\ \A i \in 1 .. Len(s) + Len(t) :
             PackStream(s, q)[i] = IF i <= Len(s) THEN s[i] ELSE t[i - Len(s)]
    BY <1>3, <1>5, ConcatProperties
  <1>8. k \in 1 .. Len(s) \/ (~(k <= Len(s)) /\ k - Len(s) \in 1 .. Len(t))
    BY <1>3, <1>7
  <1>9. CASE k \in 1 .. Len(s)
    <2>1. PackStream(s, q)[k] = s[k]
      BY <1>3, <1>7, <1>9
    <2> QED
      BY <1>9, <2>1
  <1>10. CASE ~(k <= Len(s)) /\ k - Len(s) \in 1 .. Len(t)
    <2>1. PackStream(s, q)[k] = t[k - Len(s)]
      BY <1>3, <1>7, <1>10
    <2> QED
      BY <1>6, <1>10, <2>1 DEF N
  <1> QED
    BY <1>8, <1>9, <1>10

LEMMA StepDone ==
  ASSUME NEW A, NEW c \in Cursor, NEW t, NEW d \in Cursor, StepTo(A, c, t, d)
  PROVE  d.done = c.done \/ d.done = c.done + 1
  <1>1. CASE d = c
    BY <1>1
  <1>2. CASE d = IF t.e THEN At(c.done + 1) ELSE [done |-> c.done, part |-> c.part + 1]
    <2>1. CASE d = At(c.done + 1)
      BY <2>1 DEF At
    <2>2. CASE d = [done |-> c.done, part |-> c.part + 1]
      BY <2>2
    <2> QED
      BY <1>2, <2>1, <2>2
  <1> QED
    BY <1>1, <1>2 DEF StepTo

(* A path never goes back. *)
LEMMA PathDone ==
  ASSUME NEW A, NEW s, Len(s) \in Nat, NEW c, NEW d, NEW f, Path(A, s, c, d, f)
  PROVE  \A i \in 0 .. Len(s) : f[i].done \in Nat /\ c.done <= f[i].done /\ f[i].done <= d.done
  <1> DEFINE n == Len(s)
  <1>1. /\ n \in Nat /\ f \in [0 .. n -> Cursor] /\ f[0] = c /\ f[n] = d
        /\ \A i \in 1 .. n : StepTo(A, f[i - 1], s[i], f[i])
    BY DEF Path
  <1> HIDE DEF n
  <1>2. \A i \in 0 .. n : f[i].done \in Nat /\ f[i] \in Cursor
    BY <1>1 DEF Cursor
  <1>3. \A i \in 1 .. n : i - 1 \in 0 .. n /\ i \in 0 .. n
    BY <1>1
  <1>4. ASSUME NEW i \in 1 .. n PROVE f[i - 1].done <= f[i].done
    <2>1. f[i].done = f[i - 1].done \/ f[i].done = f[i - 1].done + 1
      BY <1>1, <1>2, <1>3, StepDone
    <2> QED
      BY <1>2, <1>3, <2>1
  <1>5. ASSUME NEW i \in 0 .. n, ~(c.done <= f[i].done) PROVE FALSE
    <2> DEFINE Bad == {j \in 0 .. n : ~(c.done <= f[j].done)}
    <2>1. Bad \in SUBSET Nat /\ i \in Bad
      BY <1>1, <1>5
    <2> HIDE DEF Bad
    <2>2. PICK j \in Bad : \A y \in Bad : j <= y
      BY <2>1, LeastElement
    <2>3. j \in 0 .. n /\ ~(c.done <= f[j].done)
      BY <2>2 DEF Bad
    <2>4. j # 0
      BY <1>1, <1>2, <2>3
    <2>5. j \in 1 .. n /\ j - 1 \in 0 .. n /\ ~(j <= j - 1)
      BY <1>1, <2>3, <2>4
    <2>6. f[j - 1].done <= f[j].done /\ f[j - 1].done \in Nat /\ f[j].done \in Nat
      BY <1>2, <1>4, <2>3, <2>5
    <2>7. c.done \in Nat
      BY <1>1, <1>2
    <2>8. j - 1 \in Bad
      BY <2>3, <2>5, <2>6, <2>7 DEF Bad
    <2> QED
      BY <2>2, <2>5, <2>8
  <1>6. ASSUME NEW i \in 0 .. n, ~(f[i].done <= d.done) PROVE FALSE
    <2> DEFINE Bad == {j \in 0 .. n : ~(f[j].done <= d.done)}
    <2>1. Bad \in SUBSET Nat /\ i \in Bad /\ \A y \in Bad : y <= n
      BY <1>1, <1>6
    <2> HIDE DEF Bad
    <2>2. PICK j \in Bad : \A y \in Bad : y <= j
      BY <1>1, <2>1, GreatestElement
    <2>3. j \in 0 .. n /\ ~(f[j].done <= d.done)
      BY <2>2 DEF Bad
    <2>4. n \in 0 .. n
      BY <1>1
    <2>5. j # n /\ d.done \in Nat
      BY <1>1, <1>2, <2>3, <2>4
    <2>6. j + 1 \in 1 .. n /\ (j + 1) - 1 = j /\ j + 1 \in 0 .. n /\ ~(j + 1 <= j)
      BY <1>1, <2>3, <2>5
    <2>7. f[j].done <= f[j + 1].done /\ f[j].done \in Nat /\ f[j + 1].done \in Nat
      BY <1>2, <1>4, <2>3, <2>6
    <2>8. j + 1 \in Bad
      BY <2>3, <2>5, <2>6, <2>7 DEF Bad
    <2> QED
      BY <2>2, <2>6, <2>8
  <1> QED
    BY <1>2, <1>5, <1>6 DEF n

(* A byte of a span is of an SDU that was not completed before it; the mark of its end
   means that it is completed by its end.                                    *)
LEMMA SpanToken ==
  ASSUME NEW A, Len(A) \in Nat, NEW s, NEW c, NEW d, Span(A, s, c, d),
         NEW j \in 1 .. Len(s), s[j] # EmptyToken
  PROVE  \E x \in 1 .. Len(A) : s[j].b[1] = A[x] /\ c.done < x /\ (s[j].e => x <= d.done)
  <1>1. s \in Seq(Token) /\ Len(s) \in Nat /\ c \in Cursor /\ d \in Cursor
    BY SpanEnds
  <1>2. PICK f : Path(A, s, c, d, f)
    BY DEF Span
  <1>3. StepTo(A, f[j - 1], s[j], f[j])
    BY <1>2 DEF Path
  <1>4. j - 1 \in 0 .. Len(s) /\ j \in 0 .. Len(s)
    BY <1>1
  <1>5. /\ f[j - 1].done \in Nat /\ c.done <= f[j - 1].done
        /\ f[j].done \in Nat /\ f[j].done <= d.done
    BY <1>1, <1>2, <1>4, PathDone
  <1>6. c.done \in Nat /\ d.done \in Nat
    BY <1>1 DEF Cursor
  <1> DEFINE b == f[j - 1]
             x == b.done + 1
  <1>7. /\ b.done < Len(A)
        /\ s[j] = [b |-> <<A[b.done + 1], b.part + 1>>, e |-> b.part + 1 = SduLen[A[b.done + 1]]]
        /\ f[j] = IF s[j].e THEN At(b.done + 1) ELSE [done |-> b.done, part |-> b.part + 1]
    BY <1>3 DEF StepTo
  <1>8. s[j].b[1] = A[x]
    <2> DEFINE e == b.part + 1 = SduLen[A[b.done + 1]]
    <2>1. s[j] = [b |-> <<A[b.done + 1], b.part + 1>>, e |-> e]
      BY <1>7
    <2> HIDE DEF e
    <2>2. s[j].b = <<A[b.done + 1], b.part + 1>>
      BY <2>1
    <2> QED
      BY <2>2
  <1>9. s[j].e => f[j].done = x
    BY <1>7 DEF At
  <1>10. x \in 1 .. Len(A) /\ c.done < x
    BY <1>5, <1>6, <1>7
  <1> HIDE DEF x
  <1>11. s[j].e => x <= d.done
    BY <1>5, <1>9
  <1> QED
    BY <1>8, <1>10, <1>11

(* Byte k of the x-th SDU comes before cursor c. *)
Precedes(x, k, c) == c.done >= x \/ (c.done + 1 = x /\ c.part >= k)

HasByte(s, b) == \E j \in 1 .. Len(s) : s[j].b = b

(* A span has the bytes that come before its end and not before its beginning. *)
LEMMA SpanHas ==
  ASSUME NEW A, NEW s, NEW c, NEW d, Span(A, s, c, d), NEW x \in Nat \ {0}, NEW k \in Nat \ {0},
         SduLen[A[x]] \in Nat, k <= SduLen[A[x]], ~Precedes(x, k, c), Precedes(x, k, d)
  PROVE  HasByte(s, <<A[x], k>>)
  <1> USE DEF HasByte
  <1>1. Len(s) \in Nat
    BY SpanEnds
  <1>2. PICK f : Path(A, s, c, d, f)
    BY DEF Span
  <1> DEFINE n == Len(s)
             Past == {j \in 0 .. n : Precedes(x, k, f[j])}
  <1>3. /\ n \in Nat /\ f \in [0 .. n -> Cursor] /\ f[0] = c /\ f[n] = d
        /\ \A i \in 1 .. n : StepTo(A, f[i - 1], s[i], f[i])
    BY <1>1, <1>2 DEF Path
  <1> HIDE DEF n
  <1>4. Past \in SUBSET Nat /\ n \in Past
    BY <1>3
  <1>5. PICK j \in Past : \A y \in Past : j <= y
    <2> HIDE DEF Past
    <2> QED
      BY <1>4, LeastElement
  <1>6. j \in 0 .. n /\ Precedes(x, k, f[j]) /\ j # 0
    BY <1>3, <1>5
  <1>7. j \in 1 .. n /\ j - 1 \in 0 .. n /\ ~(j <= j - 1)
    BY <1>3, <1>6
  <1>8. ~Precedes(x, k, f[j - 1])
    BY <1>5, <1>7
  <1> DEFINE a == f[j - 1]
             b == f[j]
  <1>9. StepTo(A, a, s[j], b) /\ a \in Cursor /\ b \in Cursor
    BY <1>3, <1>6, <1>7
  <1>10. ~Precedes(x, k, a) /\ Precedes(x, k, b)
    BY <1>6, <1>8
  <1> HIDE DEF a, b
  <1> DEFINE t == s[j]
  <1>11. /\ t = [b |-> <<A[a.done + 1], a.part + 1>>, e |-> a.part + 1 = SduLen[A[a.done + 1]]]
         /\ b = IF t.e THEN At(a.done + 1) ELSE [done |-> a.done, part |-> a.part + 1]
    BY <1>9, <1>10 DEF StepTo
  <1> DEFINE e == a.part + 1 = SduLen[A[a.done + 1]]
  <1>12. t.b = <<A[a.done + 1], a.part + 1>> /\ t.e = e
    <2> HIDE DEF e
    <2>1. t = [b |-> <<A[a.done + 1], a.part + 1>>, e |-> e]
      BY <1>11 DEF e
    <2> HIDE DEF t
    <2> QED
      BY <2>1
  <1> HIDE DEF t
  <1>13. a.done \in Nat /\ a.part \in Nat
    BY <1>9 DEF Cursor
  <1>14. CASE t.e
    <2>1. b.done = a.done + 1 /\ b.part = 0
      BY <1>11, <1>14 DEF At
    <2>2. a.done + 1 = x /\ a.part < k
      BY <1>10, <1>13, <2>1 DEF Precedes
    <2>3. a.part + 1 = SduLen[A[a.done + 1]]
      <3>1. e
        <4> HIDE DEF e
        <4> QED
          BY <1>12, <1>14, Zenon
      <3> QED
        BY <3>1
    <2>4. a.part + 1 = SduLen[A[x]]
      BY <2>2, <2>3
    <2>5. a.part + 1 = k
      BY <1>13, <2>2, <2>4
    <2> QED
      BY <1>7, <1>12, <2>2, <2>5 DEF n, t
  <1>15. CASE ~t.e
    <2>1. b.done = a.done /\ b.part = a.part + 1
      BY <1>11, <1>15
    <2>2. a.done + 1 = x /\ a.part < k /\ a.part + 1 >= k
      BY <1>10, <1>13, <2>1 DEF Precedes
    <2>3. a.part + 1 = k
      BY <1>13, <2>2
    <2> QED
      BY <1>7, <1>12, <2>2, <2>3 DEF n, t
  <1> QED
    BY <1>14, <1>15

-----------------------------------------------------------------------------
(* What notify_delivery reports.  An SDU that has begun is no longer in the queue,
   and one that has ended has nothing left in tx_sdu.                        *)
Begun(i) ==
  /\ \E x \in 1 .. Len(accepted) : accepted[x] = i
  /\ \A k \in 1 .. Len(tx_sdu_queue) : tx_sdu_queue[k] # i

Ended(i) == \A k \in 1 .. Len(tx_sdu) : tx_sdu[k].b[1] # i

(* The SDUs of a PDU in the window are named in it; an SDU that waits for an
   acknowledgement has begun, and has ended if it is marked so; one that is about to
   be reported has ended and is in no PDU of the window.                     *)
NotifyInv ==
  /\ stack.pc # "status" => notify_info_vec = {}
  /\ \A sn \in DOMAIN tx_window : \A k \in 1 .. Len(tx_window[sn].data) :
       tx_window[sn].data[k].b[1] \in tx_window[sn].sdus \union {Null}
  /\ \A i \in DOMAIN undelivered : Begun(i) /\ (undelivered[i].fully_txed => Ended(i))
  /\ \A i \in notify_info_vec :
       Begun(i) /\ Ended(i) /\ \A sn \in DOMAIN tx_window : i \notin tx_window[sn].sdus

(* An SDU that is among the PDCP PDUs delivered was delivered with all of its bytes. *)
LEMMA DeliveredIsThere ==
  ASSUME NEW out \in Seq(ByteSeq), NEW i \in 1 .. NofSdus, NEW x \in 1 .. Len(SdusIn(out)),
         SdusIn(out)[x] = i
  PROVE  \E j \in 1 .. Len(out) : out[j] = Bytes(i)
  <1> DEFINE n == Len(out)
             T == 0 .. NofSdus
             seqs == [k \in 1 .. n |-> IF out[k] = <<NoByte>> THEN <<>> ELSE <<SduOf(out[k])>>]
  <1>1. n \in Nat /\ NofSdus \in Nat
    BY LenProperties, TxAssumption
  <1>2. ASSUME NEW y PROVE (IF y = <<NoByte>> THEN <<>> ELSE <<SduOf(y)>>) \in Seq(T)
    <2>1. SduOf(y) \in T
      BY SduOfType
    <2> HIDE DEF T
    <2> QED
      BY <2>1, EmptySeq
  <1>3. SdusIn(out) = FlattenSeq(seqs)
    BY DEF SdusIn
  <1> HIDE DEF n, T
  <1>4. seqs \in [1 .. n -> Seq(T)]
    BY <1>2
  <1>5. \A k \in 1 .. n : seqs[k] = IF out[k] = <<NoByte>> THEN <<>> ELSE <<SduOf(out[k])>>
    OBVIOUS
  <1> HIDE DEF seqs
  <1>6. PICK h : Concats(h, seqs, n, T)
    BY <1>1, <1>4, ConcatsExist
  <1>7. SdusIn(out) = h[n]
    BY <1>1, <1>3, <1>4, <1>6, FlattenIs
  <1>8. PICK j \in 1 .. n : \E l \in 1 .. Len(seqs[j]) : h[n][x] = seqs[j][l]
    <2>1. \A y \in 1 .. Len(h[n]) : OneOf(h[n][y], seqs, n)
      BY <1>1, <1>4, <1>6, ConcatElement
    <2> QED
      BY <1>7, <2>1 DEF OneOf
  <1>9. PICK l \in 1 .. Len(seqs[j]) : i = seqs[j][l]
    BY <1>7, <1>8
  <1>10. seqs[j] = <<SduOf(out[j])>>
    <2>1. seqs[j] # <<>>
      BY <1>9
    <2> QED
      BY <1>5, <2>1
  <1>11. SduOf(out[j]) = i
    BY <1>9, <1>10
  <1>12. out[j] = Bytes(i)
    <2>1. i # 0
      BY <1>1
    <2>2. \E m \in 1 .. NofSdus : out[j] = Bytes(m)
      BY <1>11, <2>1 DEF SduOf
    <2>3. SduOf(out[j]) = CHOOSE m \in 1 .. NofSdus : out[j] = Bytes(m)
      BY <2>2 DEF SduOf
    <2> QED
      BY <1>11, <2>2, <2>3
  <1> QED
    BY <1>12 DEF n

(* The SNs between two others, one after the other *)
LEMMA AheadBounds ==
  ASSUME NEW a \in SN, NEW b \in SN
  PROVE  /\ Base(b, a) \in 0 .. MOD - 1 /\ MOD \in Nat
         /\ Add(a, Base(b, a)) = b /\ Add(a, 0) = a
  <1>1. Base(b, a) \in 0 .. MOD - 1 /\ MOD \in Nat /\ Add(a, Base(b, a)) = b
    BY BaseLinear, AddBase, ModType
  <1>2. Base(a, a) = 0 /\ Add(a, Base(a, a)) = a
    BY BaseSelf, AddBase
  <1> QED
    BY <1>1, <1>2, Zenon

LEMMA AheadNext ==
  ASSUME NEW a \in SN, NEW n \in 0 .. MOD - 1
  PROVE  Add(a, n) \in SN /\ Base(Add(a, n), a) = n /\ Add(Add(a, n), 1) = Add(a, n + 1)
  <1> DEFINE x == Add(a, n)
  <1>1. MOD \in Nat /\ MOD > 0 /\ a \in 0 .. MOD - 1
    BY ModType DEF SN
  <1>2. n \in 0 .. MOD /\ n + 1 \in 0 .. MOD /\ 1 \in 0 .. MOD
    BY <1>1
  <1>3. x \in SN /\ x = IF a + n < MOD THEN a + n ELSE a + n - MOD
    BY <1>2, AddLinear
  <1>4. Base(x, a) = n
    <2>1. Base(a, a) = 0 /\ 0 + n < MOD /\ 0 + n = n
      BY <1>1, BaseSelf
    <2>2. Base(a, a) + n < MOD /\ Base(a, a) + n = n
      BY <2>1, Zenon
    <2> QED
      BY <1>2, <2>2, BaseOfAdd
  <1> HIDE DEF x
  <1>5. Add(x, 1) = IF x + 1 < MOD THEN x + 1 ELSE x + 1 - MOD
    BY <1>2, <1>3, AddLinear
  <1>6. Add(a, n + 1) = IF a + (n + 1) < MOD THEN a + (n + 1) ELSE a + (n + 1) - MOD
    BY <1>2, AddLinear
  <1>7. Add(x, 1) = Add(a, n + 1)
    BY <1>1, <1>3, <1>5, <1>6
  <1> QED
    BY <1>3, <1>4, <1>7 DEF x

PackEnded(s, q, g) == {t.b[1] : t \in {v \in ToSet(PackTaken(s, q, g)) : v.e}}

(* The SDUs of a PDU leave the queue, what is left of tx_sdu is of one of them, and of
   those that end in it nothing is left.                                     *)
PackedRight(A, s, q, g) ==
  LET Q == SubSeq(q, PackReadTo(s, q, g) + 1, Len(q)) IN
  /\ \A i \in PackSdus(s, q, g) :
       /\ \E x \in 1 .. Len(A) : A[x] = i
       /\ \A k \in 1 .. Len(Q) : Q[k] # i
       /\ (\E j \in 1 .. Len(s) : s[j].b[1] = i) \/ (\E j \in 1 .. Len(q) : q[j] = i)
  /\ \A k \in 1 .. Len(Q) : \E j \in 1 .. Len(q) : Q[k] = q[j]
  /\ \A k \in 1 .. Len(PackLeft(s, q, g)) : PackLeft(s, q, g)[k].b[1] \in PackSdus(s, q, g)
  /\ \A k \in 1 .. Len(PackData(s, q, g)) :
       PackData(s, q, g)[k].b[1] \in PackSdus(s, q, g) \union {Null}
  /\ \A i \in PackEnded(s, q, g) :
       \A k \in 1 .. Len(PackLeft(s, q, g)) : PackLeft(s, q, g)[k].b[1] # i

(* What is left of an SDU is of the last that left the queue. *)
OfSdu(A, s, u) == \A k \in 1 .. Len(s) : u > 0 /\ s[k].b[1] = A[u]

LEMMA PackedSdus ==
  ASSUME NEW A, Increasing(A), NEW q, q \in Seq(Range(q)), NEW u \in 0 .. Len(A), Queued(A, q, u),
         NEW s, NEW c, Span(A, s, c, At(u)), OfSdu(A, s, u), NEW g \in Nat \ {0}
  PROVE  PackedRight(A, s, q, g)
  <1> USE DEF PackedRight, OfSdu
  <1> DEFINE S == PackStream(s, q)
             len == PackLen(s, q, g)
             sdus == PackSdus(s, q, g)
             left == PackLeft(s, q, g)
             taken == PackTaken(s, q, g)
             data == PackData(s, q, g)
             N == Len(q)
             Q == SubSeq(q, PackReadTo(s, q, g) + 1, Len(q))
  <1>1. s \in Seq(Token) /\ Len(s) \in Nat /\ N \in Nat /\ u \in Nat
    BY SpanEnds, LenProperties
  <1>2. /\ A \in Seq(1 .. NofSdus) /\ Len(A) \in Nat /\ \A x \in 1 .. Len(A) : A[x] \in Nat
        /\ \A j, k \in 1 .. Len(A) : j < k => A[j] < A[k]
    <2>1. A \in Seq(1 .. NofSdus)
      BY DEF Increasing
    <2>2. \A x \in 1 .. Len(A) : A[x] \in 1 .. NofSdus
      BY <2>1, ElementOfSeq
    <2>3. \A x \in 1 .. Len(A) : A[x] \in Nat
      BY <2>2
    <2> QED
      BY <2>1, <2>3, LenProperties DEF Increasing
  <1>3. PICK h : QueueTokens(q, h) /\ QueuedTokens(q) = h[N]
    BY <1>1, QueuedTokensAre
  <1>4. PICK n \in 0 .. N, z \in Nat, m \in u .. Len(A) : Cut(A, q, u, s, g, h, n, z, m)
    BY <1>1, <1>3, PacksCut
  <1>5. /\ S \in Seq(Token) /\ Len(S) \in Nat /\ len \in 0 .. z /\ z <= Len(S)
        /\ \A k \in len + 1 .. z : m > 0 /\ S[k].b[1] = A[m]
        /\ n > 0 \/ len < z => len > 0 /\ S[len].b[1] = A[m]
    BY <1>4, LenProperties DEF Cut
  <1>6. /\ sdus = {S[x].b[1] : x \in 1 .. len} /\ Null \notin sdus
        /\ \A y \in Slots(q, n + 1, N) : y \notin sdus
    BY <1>1, <1>4, LaterNotPacked
  <1>7. PackReadTo(s, q, g) = n /\ left = SubSeq(S, len + 1, z) /\ taken = SubSeq(S, 1, len)
    <2>1. taken = SubSeq(S, 1, len)
      BY DEF PackTaken
    <2>2. PackReadTo(s, q, g) = n /\ PackLeft(s, q, g) = SubSeq(PackStream(s, q), PackLen(s, q, g) + 1, z)
      <3> HIDE DEF S, len, left
      <3> QED
        BY <1>1, <1>4, PackedAre
    <2> QED
      BY <2>1, <2>2
  <1>8. Slots(q, 1, N) = {A[x] : x \in u + 1 .. Len(A)}
    BY DEF Queued
  <1>9. sdus = {t.b[1] : t \in ToSet(taken)}
    BY DEF PackSdus
  <1>10. ASSUME NEW k \in 1 .. Len(S)
         PROVE  \/ \E j \in 1 .. Len(s) : S[k] = s[j]
                \/ \E j \in 1 .. Len(q) : q[j] # Null /\ S[k].b[1] = q[j]
    BY <1>1, StreamTokens
  <1>11. data = IF taken = <<>> THEN <<[b |-> NoByte, e |-> TRUE]>> ELSE taken
    BY DEF PackData
  <1>12a. PICK m1 \in 0 .. Len(A) : \E b : Span(A, data, c, b) /\ Span(A, left, b, At(m1))
    <2> HIDE DEF data, left
    <2> QED
      BY <1>1, PacksNext DEF data, left
  <1>12. PICK b : Span(A, data, c, b) /\ Span(A, left, b, At(m1))
    BY <1>12a
  <1>q. Q = SubSeq(q, n + 1, N)
    BY <1>7
  <1> HIDE DEF S, len, sdus, left, taken, data, Q
  <1>13. ASSUME NEW i \in sdus
         PROVE  /\ \E x \in 1 .. Len(A) : A[x] = i
                /\ (\E j \in 1 .. Len(s) : s[j].b[1] = i) \/ (\E j \in 1 .. Len(q) : q[j] = i)
    <2>1. PICK x \in 1 .. len : i = S[x].b[1]
      BY <1>6, <1>13
    <2>2. x \in 1 .. Len(S)
      BY <1>5
    <2>3. CASE \E j \in 1 .. Len(s) : S[x] = s[j]
      <3>1. PICK j \in 1 .. Len(s) : S[x] = s[j]
        BY <2>3
      <3>2. u > 0 /\ s[j].b[1] = i /\ A[u] = i
        BY <2>1, <3>1
      <3>3. u \in 1 .. Len(A)
        BY <3>2
      <3> QED
        BY <3>2, <3>3
    <2>4. CASE \E j \in 1 .. N : q[j] # Null /\ S[x].b[1] = q[j]
      <3>1. PICK j \in 1 .. N : q[j] # Null /\ i = q[j]
        BY <2>1, <2>4
      <3>2. i \in Slots(q, 1, N)
        BY <3>1 DEF Slots
      <3>3. PICK y \in u + 1 .. Len(A) : i = A[y]
        BY <1>8, <3>2
      <3>4. y \in 1 .. Len(A)
        BY <1>1, <1>2
      <3> QED
        BY <3>1, <3>3, <3>4
    <2> QED
      BY <1>10, <2>2, <2>3, <2>4
  <1>14. ASSUME NEW k \in 1 .. Len(Q)
         PROVE  \E j \in n + 1 .. N : Q[k] = q[j]
    <2> DEFINE R == Range(q)
    <2>1. q \in Seq(R)
      OBVIOUS
    <2> HIDE DEF R
    <2>2. \A x \in n + 1 .. N : q[x] \in R
      <3>1. \A x \in n + 1 .. N : x \in 1 .. N
        BY <1>1
      <3> QED
        BY <2>1, <3>1, ElementOfSeq
    <2> HIDE DEF N
    <2>3. /\ Len(Q) = IF n + 1 <= N THEN N - (n + 1) + 1 ELSE 0
          /\ \A x \in 1 .. N - (n + 1) + 1 : Q[x] = q[n + 1 + x - 1]
      <3>1. n + 1 \in Int /\ N \in Int
        BY <1>1
      <3> QED
        BY <1>q, <2>2, <3>1, SubSeqProperties
    <2>4. k \in 1 .. N - (n + 1) + 1 /\ n + 1 + k - 1 \in n + 1 .. N
      <3>1. Len(Q) = IF n + 1 <= N THEN N - (n + 1) + 1 ELSE 0
        BY <2>3
      <3> QED
        BY <1>1, <3>1
    <2> QED
      BY <2>3, <2>4
  <1>15. ASSUME NEW i \in sdus, NEW k \in 1 .. Len(Q), Q[k] = i PROVE FALSE
    <2>1. PICK j \in n + 1 .. N : Q[k] = q[j]
      BY <1>14
    <2>2. i \in Slots(q, n + 1, N)
      BY <1>6, <1>15, <2>1 DEF Slots
    <2> QED
      BY <1>6, <1>15, <2>2
  <1>16. \A k \in 1 .. Len(Q) : \E j \in 1 .. N : Q[k] = q[j]
    <2>1. \A j \in n + 1 .. N : j \in 1 .. N
      BY <1>1
    <2> QED
      BY <1>14, <2>1
  <1>17. ASSUME NEW k \in 1 .. Len(left) PROVE left[k].b[1] \in sdus
    <2>1. \A x \in len + 1 .. z : S[x] \in Token
      <3>1. \A x \in len + 1 .. z : x \in 1 .. Len(S)
        BY <1>5
      <3> QED
        BY <1>5, <3>1, ElementOfSeq
    <2>2. len + 1 \in Int /\ z \in Int
      BY <1>5
    <2>3. /\ Len(left) = IF len + 1 <= z THEN z - (len + 1) + 1 ELSE 0
          /\ \A x \in 1 .. z - (len + 1) + 1 : left[x] = S[len + 1 + x - 1]
      BY <1>7, <2>1, <2>2, SubSeqProperties
    <2>4. k \in 1 .. z - (len + 1) + 1 /\ len + 1 + k - 1 \in len + 1 .. z /\ len < z
      <3>1. Len(left) = IF len + 1 <= z THEN z - (len + 1) + 1 ELSE 0
        BY <2>3
      <3> QED
        BY <1>5, <3>1
    <2>5. left[k].b[1] = A[m] /\ len > 0 /\ S[len].b[1] = A[m]
      BY <1>5, <2>3, <2>4
    <2>6. len \in 1 .. len
      BY <1>5, <2>5
    <2> QED
      BY <1>6, <2>5, <2>6
  <1>18. taken \in Seq(Token) /\ DOMAIN taken = 1 .. Len(taken)
    <2>1. \A x \in 1 .. len : x \in 1 .. Len(S)
      BY <1>5
    <2>2. \A x \in 1 .. len : S[x] \in Token
      BY <1>5, <2>1, ElementOfSeq
    <2>3. 1 \in Int /\ len \in Int
      BY <1>5
    <2>4. taken \in Seq(Token)
      BY <1>7, <2>2, <2>3, SubSeqProperties
    <2> QED
      BY <2>4, LenProperties
  <1>19. ASSUME NEW k \in 1 .. Len(data) PROVE data[k].b[1] \in sdus \union {Null}
    <2>1. CASE taken = <<>>
      <3>1. Len(data) = 1 /\ data[1].b = NoByte
        BY <1>11, <2>1
      <3>2. k = 1
        BY <3>1
      <3> QED
        BY <3>1, <3>2 DEF NoByte, Null
    <2>2. CASE taken # <<>>
      <3>1. data = taken
        BY <1>11, <2>2
      <3>2. taken[k] \in ToSet(taken)
        BY <1>18, <3>1 DEF ToSet
      <3> QED
        BY <1>9, <3>1, <3>2
    <2> QED
      BY <2>1, <2>2
  <1>20. ASSUME NEW i \in PackEnded(s, q, g), NEW k \in 1 .. Len(left), left[k].b[1] = i PROVE FALSE
    <2>1. PICK t \in ToSet(taken) : t.e /\ i = t.b[1]
      BY <1>20 DEF PackEnded, taken
    <2>2. PICK j \in 1 .. Len(taken) : t = taken[j]
      BY <1>18, <2>1 DEF ToSet
    <2>3. data = taken
      <3>1. taken # <<>>
        BY <2>2
      <3> QED
        BY <1>11, <3>1
    <2>4. EmptyToken.b[1] = Null
      BY DEF EmptyToken, NoByte, Null
    <2>5. t # EmptyToken /\ left[k] # EmptyToken
      <3>1. t.b[1] \in sdus
        BY <1>9, <2>1
      <3> QED
        BY <1>6, <1>17, <2>4, <3>1
    <2>6. PICK x \in 1 .. Len(A) : t.b[1] = A[x] /\ x <= b.done
      BY <1>2, <1>12, <2>1, <2>2, <2>3, <2>5, SpanToken
    <2>7. PICK y \in 1 .. Len(A) : left[k].b[1] = A[y] /\ b.done < y
      <3>1. Span(A, left, b, At(m1)) /\ left[k] # EmptyToken /\ Len(A) \in Nat
        BY <1>2, <1>12, <2>5
      <3> QED
        BY <3>1, SpanToken
    <2>8. b.done \in Nat
      BY <1>12, SpanEnds DEF Cursor
    <2>9. x < y
      BY <2>6, <2>7, <2>8
    <2>10. A[x] < A[y] /\ A[x] = A[y] /\ A[x] \in Nat
      BY <1>2, <1>20, <2>1, <2>6, <2>7, <2>9
    <2> QED
      BY <2>10
  <1> QED
    BY <1>13, <1>15, <1>16, <1>17, <1>19, <1>20 DEF sdus, left, data, Q

(* What build_data_pdu does to the lists of segments *)
LEMMA BuildLists ==
  ASSUME NEW r, IsRetx(r), NEW g, NEW pdus, NEW bytes0, BuildDataPdu(r, g, pdus, bytes0)
  PROVE  /\ PduJoins(r.win, PackData(tx_sdu, tx_sdu_queue, g), PackSdus(tx_sdu, tx_sdu_queue, g),
                     PackEnded(tx_sdu, tx_sdu_queue, g))
         /\ UNCHANGED <<notify_info_vec, stack>>
  <1> DEFINE data == PackData(tx_sdu, tx_sdu_queue, g)
             sdus == PackSdus(tx_sdu, tx_sdu_queue, g)
             ended == PackEnded(tx_sdu, tx_sdu_queue, g)
             win == [sn \in DOMAIN r.win \union {vt_s} |->
                       IF sn = vt_s THEN [data |-> data, retx_count |-> 0, sdus |-> sdus]
                                    ELSE r.win[sn]]
  <1>1. /\ SetRetx([r EXCEPT !.win = win])
        /\ undelivered' = [i \in DOMAIN undelivered \union sdus |->
             LET old == IF i \in DOMAIN undelivered THEN undelivered[i]
                        ELSE [fully_txed |-> FALSE, sns |-> {}]
             IN  IF i \in sdus THEN [fully_txed |-> i \in ended, sns |-> old.sns \union {vt_s}]
                               ELSE old]
        /\ UNCHANGED <<notify_info_vec, stack>>
    BY DEF BuildDataPdu, PackData, PackSdus, PackEnded, PackTaken, PackLen, PackStream
  <1> HIDE DEF data, sdus, ended
  <1>2. tx_window' = win
    <2> HIDE DEF win
    <2>1. [r EXCEPT !.win = win] = [win |-> win, q |-> r.q, ovf |-> r.ovf, max |-> r.max]
      BY DEF IsRetx
    <2> QED
      BY <1>1, <2>1 DEF SetRetx
  <1>3. PduJoins(r.win, data, sdus, ended)
    BY <1>1, <1>2 DEF PduJoins
  <1> QED
    BY <1>1, <1>3 DEF data, sdus, ended

(* Steps that leave SDUs and segments alone *)
LEMMA QuietNotify ==
  ASSUME TxInv, NotifyInv, UNCHANGED <<accepted, tx_sdu_queue, tx_sdu, undelivered>>,
         SameSdus(tx_window', tx_window), notify_info_vec' \subseteq notify_info_vec,
         stack'.pc # "status" => notify_info_vec' = {}
  PROVE  NotifyInv'
  <1>1. \A sn \in DOMAIN tx_window' :
          /\ sn \in DOMAIN tx_window /\ tx_window'[sn].data = tx_window[sn].data
          /\ tx_window'[sn].sdus = tx_window[sn].sdus
    BY DEF SameSdus, TxInv, ListsInv
  <1> QED
    BY <1>1 DEF NotifyInv, Begun, Ended

LEMMA AckNotify ==
  ASSUME TxInv, NotifyInv, AckSn
  PROVE  NotifyInv'
  <1> DEFINE sn == stack.i
  <1>1. \A s \in DOMAIN tx_window' : s \in DOMAIN tx_window /\ s # sn /\ tx_window'[s] = tx_window[s]
    BY DEF AckSn
  <1>2. PICK done : /\ done = IF sn \in DOMAIN tx_window THEN FullyAcked(sn) ELSE {}
                    /\ undelivered' = [i \in DOMAIN undelivered \ done |->
                         [undelivered[i] EXCEPT !.sns = IF sn \in DOMAIN tx_window THEN @ \ {sn} ELSE @]]
                    /\ notify_info_vec' = notify_info_vec \union done
    BY DEF AckSn
  <1>3. stack'.pc = "status" /\ UNCHANGED <<accepted, tx_sdu_queue, tx_sdu>>
    BY StatusPc DEF AckSn, sduVars
  <1> HIDE DEF sn
  <1>4. \A i \in DOMAIN undelivered' :
          i \in DOMAIN undelivered /\ undelivered'[i].fully_txed = undelivered[i].fully_txed
    <2> SUFFICES ASSUME NEW i \in DOMAIN undelivered'
                 PROVE  i \in DOMAIN undelivered /\ undelivered'[i].fully_txed = undelivered[i].fully_txed
      OBVIOUS
    <2>1. i \in DOMAIN undelivered /\ IsUndelivered(undelivered[i])
      BY <1>2 DEF TxInv, ListsInv
    <2>2. undelivered'[i] =
            [undelivered[i] EXCEPT !.sns = IF sn \in DOMAIN tx_window THEN @ \ {sn} ELSE @]
      BY <1>2
    <2> QED
      BY <2>1, <2>2 DEF IsUndelivered
  <1>5. ASSUME NEW i \in done
        PROVE  /\ i \in DOMAIN undelivered /\ undelivered[i].fully_txed
               /\ \A s \in DOMAIN tx_window' : i \notin tx_window'[s].sdus
    <2>1. i \in DOMAIN undelivered /\ undelivered[i].fully_txed /\ undelivered[i].sns = {sn}
      BY <1>2, <1>5 DEF FullyAcked
    <2>2. undelivered[i].sns = {s \in DOMAIN tx_window : i \in tx_window[s].sdus}
      BY <2>1 DEF TxInv, ListsInv, SegmentListsAgree
    <2>3. \A s \in DOMAIN tx_window : i \in tx_window[s].sdus => s = sn
      BY <2>1, <2>2
    <2> QED
      BY <1>1, <2>1, <2>3
  <1>6. ASSUME NEW i \in notify_info_vec'
        PROVE  Begun(i) /\ Ended(i) /\ \A s \in DOMAIN tx_window' : i \notin tx_window'[s].sdus
    <2>1. CASE i \in done
      BY <1>5, <2>1 DEF NotifyInv
    <2>2. CASE i \in notify_info_vec
      BY <1>1, <2>2 DEF NotifyInv
    <2> QED
      BY <1>2, <1>6, <2>1, <2>2
  <1>7. \A i : (Begun(i) => Begun(i)') /\ (Ended(i) => Ended(i)')
    BY <1>3 DEF Begun, Ended
  <1>8. \A s \in DOMAIN tx_window' : \A k \in 1 .. Len(tx_window'[s].data) :
          tx_window'[s].data[k].b[1] \in tx_window'[s].sdus \union {Null}
    BY <1>1 DEF NotifyInv
  <1>9. \A i \in DOMAIN undelivered' : Begun(i)' /\ (undelivered'[i].fully_txed => Ended(i)')
    BY <1>4, <1>7 DEF NotifyInv
  <1>10. \A i \in notify_info_vec' :
           Begun(i)' /\ Ended(i)' /\ \A s \in DOMAIN tx_window' : i \notin tx_window'[s].sdus
    BY <1>6, <1>7
  <1> QED
    BY <1>3, <1>8, <1>9, <1>10 DEF NotifyInv

(* PDCP's steps: what has begun is not touched. *)
LEMMA SduNotify ==
  ASSUME NotifyInv, UNCHANGED <<tx_sdu, tx_window, undelivered, notify_info_vec, stack>>,
         \A i : Begun(i) => Begun(i)'
  PROVE  NotifyInv'
  <1>1. \A i : Ended(i) => Ended(i)'
    BY DEF Ended
  <1>2. \A i \in DOMAIN undelivered' : Begun(i)' /\ (undelivered'[i].fully_txed => Ended(i)')
    BY <1>1 DEF NotifyInv
  <1>3. \A i \in notify_info_vec' :
          Begun(i)' /\ Ended(i)' /\ \A s \in DOMAIN tx_window' : i \notin tx_window'[s].sdus
    BY <1>1 DEF NotifyInv
  <1>4. \A s \in DOMAIN tx_window' : \A k \in 1 .. Len(tx_window'[s].data) :
          tx_window'[s].data[k].b[1] \in tx_window'[s].sdus \union {Null}
    BY DEF NotifyInv
  <1>5. stack'.pc # "status" => notify_info_vec' = {}
    BY DEF NotifyInv
  <1> QED
    BY <1>2, <1>3, <1>4, <1>5 DEF NotifyInv

LEMMA WriteNotify ==
  ASSUME TxInv, StreamInv, NotifyInv, write_sdu
  PROVE  NotifyInv'
  <1>1. /\ UNCHANGED <<tx_sdu, tx_window, undelivered, notify_info_vec, stack>>
        /\ \/ UNCHANGED <<accepted, tx_sdu_queue>>
           \/ /\ tx_sdu_queue' = Append(tx_sdu_queue, offered + 1)
              /\ accepted' = Append(accepted, offered + 1)
    BY DEF write_sdu, retxVars, ackVars
  <1>2. /\ accepted \in Seq(1 .. NofSdus) /\ offered \in Nat /\ NofSdus \in Nat
        /\ \A x \in 1 .. Len(accepted) : accepted[x] \in 1 .. NofSdus /\ accepted[x] <= offered
    <2>1. accepted \in Seq(1 .. NofSdus) /\ offered \in Nat /\ NofSdus \in Nat
      BY TxAssumption DEF StreamInv, AcceptedOK, TxInv, TxTypes
    <2> QED
      BY <2>1, ElementOfSeq DEF StreamInv, AcceptedOK
  <1>3. ASSUME NEW i, Begun(i) PROVE Begun(i)'
    <2>1. CASE UNCHANGED <<accepted, tx_sdu_queue>>
      BY <1>3, <2>1 DEF Begun
    <2>2. CASE /\ tx_sdu_queue' = Append(tx_sdu_queue, offered + 1)
               /\ accepted' = Append(accepted, offered + 1)
      <3>1. /\ Len(tx_sdu_queue) \in Nat /\ Len(tx_sdu_queue') = Len(tx_sdu_queue) + 1
            /\ \A j \in 1 .. Len(tx_sdu_queue) + 1 :
                 tx_sdu_queue'[j] = IF j <= Len(tx_sdu_queue) THEN tx_sdu_queue[j] ELSE offered + 1
        BY <2>2, AppendKeeps DEF TxInv, TxTypes
      <3>2. /\ Len(accepted) \in Nat /\ Len(accepted') = Len(accepted) + 1
            /\ \A j \in 1 .. Len(accepted) + 1 :
                 accepted'[j] = IF j <= Len(accepted) THEN accepted[j] ELSE offered + 1
        <4>1. IsSeq(accepted)
          BY <1>2, SeqOfRange DEF IsSeq
        <4> QED
          BY <2>2, <4>1, AppendKeeps
      <3>3. PICK x \in 1 .. Len(accepted) : accepted[x] = i
        BY <1>3 DEF Begun
      <3>4. x \in 1 .. Len(accepted') /\ accepted'[x] = i
        BY <3>2, <3>3
      <3>5. i # offered + 1
        BY <1>2, <3>3
      <3>6. \A k \in 1 .. Len(tx_sdu_queue') : tx_sdu_queue'[k] # i
        <4>1. \A k \in 1 .. Len(tx_sdu_queue) : tx_sdu_queue[k] # i
          BY <1>3 DEF Begun
        <4> QED
          BY <3>1, <3>5, <4>1
      <3> QED
        BY <3>4, <3>6 DEF Begun
    <2> QED
      BY <1>1, <2>1, <2>2
  <1> QED
    BY <1>1, <1>3, SduNotify

LEMMA DiscardNotify ==
  ASSUME TxInv, StreamInv, NotifyInv, NEW d, discard_sdu(d)
  PROVE  NotifyInv'
  <1>1. UNCHANGED <<tx_sdu, tx_window, undelivered, notify_info_vec, stack>>
    BY DEF discard_sdu, retxVars, ackVars
  <1>2. PICK k \in 1 .. Len(tx_sdu_queue) :
          tx_sdu_queue[k] = d /\ tx_sdu_queue' = [tx_sdu_queue EXCEPT ![k] = Null]
    BY DEF discard_sdu
  <1>3. PICK p \in 1 .. Len(accepted) : accepted[p] = d /\ accepted' = RemoveAt(accepted, p)
    BY DEF discard_sdu
  <1>4. accepted \in Seq(1 .. NofSdus) /\ Len(accepted) \in Nat /\ NofSdus \in Nat
    BY TxAssumption, LenProperties DEF StreamInv, AcceptedOK
  <1>5. /\ Len(accepted') = Len(accepted) - 1
        /\ \A j \in 1 .. Len(accepted) - 1 : accepted'[j] = IF j < p THEN accepted[j] ELSE accepted[j + 1]
    BY <1>3, <1>4, RemoveAtSeq
  <1>6. /\ Len(tx_sdu_queue') = Len(tx_sdu_queue)
        /\ \A j \in 1 .. Len(tx_sdu_queue) : tx_sdu_queue'[j] = IF j = k THEN Null ELSE tx_sdu_queue[j]
    <2> DEFINE S == Range(tx_sdu_queue) \union {Null}
    <2>1. tx_sdu_queue \in Seq(S) /\ Null \in S
      BY SeqMonotonic DEF TxInv, TxTypes, IsSeq
    <2> HIDE DEF S
    <2> QED
      BY <1>2, <2>1, ExceptSeq
  <1>7. ASSUME NEW i, Begun(i) PROVE Begun(i)'
    <2>1. PICK x \in 1 .. Len(accepted) : accepted[x] = i
      BY <1>7 DEF Begun
    <2>2. \A j \in 1 .. Len(tx_sdu_queue) : tx_sdu_queue[j] # i
      BY <1>7 DEF Begun
    <2>3. i # d /\ i # Null /\ x # p
      <3>1. i \in 1 .. NofSdus
        BY <1>4, <2>1, ElementOfSeq
      <3> QED
        BY <1>2, <1>3, <1>4, <2>1, <2>2, <3>1 DEF Null
    <2>4. \E y \in 1 .. Len(accepted') : accepted'[y] = i
      <3>1. CASE x < p
        <4>1. x \in 1 .. Len(accepted) - 1
          BY <1>4, <3>1
        <4> QED
          BY <1>5, <2>1, <3>1, <4>1
      <3>2. CASE ~(x < p)
        <4>1. x - 1 \in 1 .. Len(accepted) - 1 /\ ~(x - 1 < p) /\ (x - 1) + 1 = x
          BY <1>4, <2>3, <3>2
        <4>2. accepted'[x - 1] = accepted[(x - 1) + 1]
          BY <1>5, <4>1
        <4> QED
          BY <1>5, <2>1, <4>1, <4>2
      <3> QED
        BY <3>1, <3>2
    <2>5. \A j \in 1 .. Len(tx_sdu_queue') : tx_sdu_queue'[j] # i
      BY <1>6, <2>2, <2>3
    <2> QED
      BY <2>4, <2>5 DEF Begun
  <1> QED
    BY <1>1, <1>7, SduNotify

(* The SDUs of a new PDU have begun, and those that end in it have ended; none of
   them is about to be reported.                                             *)
LEMMA BuildNotify ==
  ASSUME TxInv, StreamInv, NotifyInv, ~window_full, NEW g \in Nat \ {0}, NEW pdus,
         NEW bytes0, BuildDataPdu(Ready, g, pdus, bytes0)
  PROVE  NotifyInv'
  <1> DEFINE q == tx_sdu_queue
             data == PackData(tx_sdu, q, g)
             left == PackLeft(tx_sdu, q, g)
             sdus == PackSdus(tx_sdu, q, g)
             ended == PackEnded(tx_sdu, q, g)
  <1>1. LinkWindowInv /\ QueueOK /\ AcceptedOK
    BY DEF TxInv, LinkWindowInv, StreamInv
  <1>2. IsRetx(Ready) /\ SameSdus(Ready.win, tx_window) /\ vt_s \notin DOMAIN tx_window
    BY <1>1, ReadyOK, ReadySdus, SpaceLeft
  <1>3. /\ UNCHANGED accepted /\ tx_sdu' = left
        /\ tx_sdu_queue' = SubSeq(q, PackReadTo(tx_sdu, q, g) + 1, Len(q))
    BY <1>2, BuildPduEffect
  <1>4. PduJoins(Ready.win, data, sdus, ended) /\ UNCHANGED <<notify_info_vec, stack>>
    BY <1>2, BuildLists
  <1>5. /\ \A i \in sdus : /\ \E x \in 1 .. Len(accepted) : accepted[x] = i
                           /\ \A k \in 1 .. Len(tx_sdu_queue') : tx_sdu_queue'[k] # i
                           /\ \/ \E j \in 1 .. Len(tx_sdu) : tx_sdu[j].b[1] = i
                              \/ \E j \in 1 .. Len(q) : q[j] = i
        /\ \A k \in 1 .. Len(tx_sdu_queue') : \E j \in 1 .. Len(q) : tx_sdu_queue'[k] = q[j]
        /\ \A k \in 1 .. Len(left) : left[k].b[1] \in sdus
        /\ \A k \in 1 .. Len(data) : data[k].b[1] \in sdus \union {Null}
        /\ \A i \in ended : \A k \in 1 .. Len(left) : left[k].b[1] # i
    <2>1. PICK c \in [SN -> Cursor] : StreamAt(c)
      BY DEF StreamInv, Stream
    <2>2. PICK u \in 0 .. Len(accepted) :
            /\ Span(accepted, tx_sdu, c[vt_s], At(u))
            /\ \A k \in 1 .. Len(tx_sdu) : u > 0 /\ tx_sdu[k].b[1] = accepted[u]
            /\ QueueIs(u)
      BY <2>1 DEF StreamAt, AtTx
    <2>3. Increasing(accepted) /\ Queued(accepted, q, u)
      BY <1>1, <2>2 DEF Increasing, AcceptedOK, Queued, Slots, QueueIs
    <2>4. q \in Seq(Range(q))
      BY DEF TxInv, TxTypes, IsSeq
    <2> DEFINE Q == SubSeq(q, PackReadTo(tx_sdu, q, g) + 1, Len(q))
    <2>5. tx_sdu_queue' = Q
      BY <1>3
    <2>6. PackedRight(accepted, tx_sdu, q, g)
      <3>1. OfSdu(accepted, tx_sdu, u)
        BY <2>2 DEF OfSdu
      <3>2. Span(accepted, tx_sdu, c[vt_s], At(u)) /\ u \in 0 .. Len(accepted)
        BY <2>2
      <3> HIDE DEF q
      <3> QED
        BY <2>3, <2>4, <3>1, <3>2, PackedSdus
    <2>7. /\ \A i \in sdus : /\ \E x \in 1 .. Len(accepted) : accepted[x] = i
                             /\ \A k \in 1 .. Len(Q) : Q[k] # i
                             /\ \/ \E j \in 1 .. Len(tx_sdu) : tx_sdu[j].b[1] = i
                                \/ \E j \in 1 .. Len(q) : q[j] = i
          /\ \A k \in 1 .. Len(Q) : \E j \in 1 .. Len(q) : Q[k] = q[j]
          /\ \A k \in 1 .. Len(left) : left[k].b[1] \in sdus
          /\ \A k \in 1 .. Len(data) : data[k].b[1] \in sdus \union {Null}
          /\ \A i \in ended : \A k \in 1 .. Len(left) : left[k].b[1] # i
      BY <2>6 DEF PackedRight
    <2> HIDE DEF data, left, sdus, ended, q, Q
    <2> QED
      BY <2>5, <2>7 DEF q
  <1> HIDE DEF data, left, sdus, ended
  <1>6. /\ DOMAIN tx_window' = DOMAIN tx_window \union {vt_s}
        /\ tx_window'[vt_s].data = data /\ tx_window'[vt_s].sdus = sdus
        /\ \A sn \in DOMAIN tx_window : /\ tx_window'[sn].data = tx_window[sn].data
                                        /\ tx_window'[sn].sdus = tx_window[sn].sdus
    <2>1. /\ DOMAIN tx_window' = DOMAIN tx_window \union {vt_s}
          /\ tx_window'[vt_s] = [data |-> data, retx_count |-> 0, sdus |-> sdus]
          /\ \A sn \in DOMAIN tx_window : tx_window'[sn] = Ready.win[sn]
      BY <1>2, <1>4 DEF PduJoins, SameSdus
    <2> QED
      BY <1>2, <2>1 DEF SameSdus, TxInv, ListsInv
  <1>7. \A i : Begun(i) => Begun(i)'
    <2>1. \A k \in 1 .. Len(tx_sdu_queue') : \E j \in 1 .. Len(tx_sdu_queue) :
            tx_sdu_queue'[k] = tx_sdu_queue[j]
      BY <1>5
    <2> QED
      BY <1>3, <2>1 DEF Begun
  <1>8. \A i \in sdus : Begun(i)'
    BY <1>3, <1>5 DEF Begun
  <1>9. \A i : i \notin sdus => Ended(i)'
    BY <1>3, <1>5 DEF Ended
  <1>10. \A i \in ended : Ended(i)'
    BY <1>3, <1>5 DEF Ended
  <1>11. \A i \in DOMAIN undelivered' :
           /\ i \in DOMAIN undelivered \/ i \in sdus
           /\ i \in sdus => undelivered'[i].fully_txed = (i \in ended)
    BY <1>4 DEF PduJoins
  <1>12. \A i \in DOMAIN undelivered' : Begun(i)' /\ (undelivered'[i].fully_txed => Ended(i)')
    BY <1>7, <1>8, <1>9, <1>10, <1>11 DEF NotifyInv
  <1>13. \A sn \in DOMAIN tx_window' : \A k \in 1 .. Len(tx_window'[sn].data) :
           tx_window'[sn].data[k].b[1] \in tx_window'[sn].sdus \union {Null}
    BY <1>5, <1>6 DEF NotifyInv
  <1>14. ASSUME NEW i \in notify_info_vec
         PROVE  Begun(i)' /\ Ended(i)' /\ \A sn \in DOMAIN tx_window' : i \notin tx_window'[sn].sdus
    <2>1. Begun(i) /\ Ended(i) /\ \A sn \in DOMAIN tx_window : i \notin tx_window[sn].sdus
      BY <1>14 DEF NotifyInv
    <2>2. i \notin sdus
      BY <1>5, <2>1 DEF Begun, Ended
    <2> QED
      BY <1>6, <1>7, <1>9, <2>1, <2>2
  <1>15. stack'.pc # "status" => notify_info_vec' = {}
    BY <1>4 DEF NotifyInv
  <1> QED
    BY <1>4, <1>12, <1>13, <1>14, <1>15 DEF NotifyInv

LEMMA ReadPduNotify ==
  ASSUME TxInv, StreamInv, NotifyInv, NEW g \in Grants, NEW s, ReadPdu(g, s)
  PROVE  NotifyInv'
  <1>1. QueueOK /\ IsRetx(Ready) /\ read_pdu(g, s) /\ SameSdus(Ready.win, tx_window)
    BY ReadyOK, ReadySdus DEF TxInv, LinkWindowInv, ReadPdu
  <1>2. \/ RetxWhole(Ready)
        \/ RetxSegment(Ready, s)
        \/ ~window_full /\ g > 0 /\ \E pdus, bytes : BuildDataPdu(Ready, g, pdus, bytes)
        \/ \E pdus, bytes : NoPdu(Ready, pdus, bytes)
    BY <1>1 DEF read_pdu, Ready, Scheduled
  <1>3. ASSUME tx_window' = Ready.win, UNCHANGED <<sduVars, ackVars, stack>> PROVE NotifyInv'
    BY <1>1, <1>3, QuietNotify DEF sduVars, ackVars, NotifyInv
  <1>4. CASE RetxWhole(Ready)
    <2>1. SetRetx([Ready EXCEPT !.q = Tail(@)]) /\ UNCHANGED <<sduVars, ackVars, stack>>
      BY <1>4 DEF RetxWhole
    <2>2. [Ready EXCEPT !.q = Tail(@)].win = Ready.win
      BY <1>1 DEF IsRetx
    <2> QED
      BY <1>3, <2>1, <2>2 DEF SetRetx
  <1>5. CASE RetxSegment(Ready, s)
    <2>1. PICK q : SetRetx([Ready EXCEPT !.q = q]) /\ UNCHANGED <<sduVars, ackVars, stack>>
      BY <1>5 DEF RetxSegment
    <2>2. [Ready EXCEPT !.q = q].win = Ready.win
      BY <1>1 DEF IsRetx
    <2> QED
      BY <1>3, <2>1, <2>2 DEF SetRetx
  <1>6. CASE ~window_full /\ g > 0 /\ \E pdus, bytes : BuildDataPdu(Ready, g, pdus, bytes)
    <2>1. g \in Nat \ {0}
      BY <1>6, TxAssumption
    <2> QED
      BY <1>6, <2>1, BuildNotify
  <1>7. CASE \E pdus, bytes : NoPdu(Ready, pdus, bytes)
    BY <1>3, <1>7 DEF NoPdu, SetRetx
  <1> QED
    BY <1>2, <1>4, <1>5, <1>6, <1>7

(* The stack thread, and what is not the transmitter's *)
LEMMA StackNotify ==
  ASSUME TxInv, NotifyInv, timer_expired \/ NackSn \/ StatusDone \/ poll_retx_expires
  PROVE  NotifyInv'
  <1>1. IsRetx(RetxState) /\ RetxState.win = tx_window
    BY RetxStateOK DEF TxInv, LinkWindowInv
  <1>2. CASE timer_expired
    <2>1. SameSdus(tx_window', tx_window)
      BY <1>1, <1>2, RetransmitSdus, SameSdusSelf DEF timer_expired, SetRetx
    <2>2. /\ UNCHANGED <<accepted, tx_sdu_queue, tx_sdu, undelivered, notify_info_vec>>
          /\ notify_info_vec = {}
      BY <1>2 DEF timer_expired, sduVars, ackVars, NotifyInv
    <2> QED
      BY <2>1, <2>2, QuietNotify
  <1>3. CASE NackSn
    <2>1. SameSdus(tx_window', tx_window)
      BY <1>1, <1>3, RetransmitSdus, SameSdusSelf DEF NackSn, SetRetx
    <2>2. /\ UNCHANGED <<accepted, tx_sdu_queue, tx_sdu, undelivered, notify_info_vec>>
          /\ stack'.pc = "status"
      BY <1>3, StatusPc DEF NackSn, sduVars, ackVars
    <2> QED
      BY <2>1, <2>2, QuietNotify
  <1>4. CASE StatusDone
    <2>1. UNCHANGED <<accepted, tx_sdu_queue, tx_sdu, undelivered, tx_window>> /\ notify_info_vec' = {}
      BY <1>4 DEF StatusDone, sduVars, retxVars
    <2> QED
      BY <2>1, SameSdusSelf, QuietNotify
  <1>5. CASE poll_retx_expires
    <2>1. /\ UNCHANGED <<accepted, tx_sdu_queue, tx_sdu, undelivered, tx_window, notify_info_vec>>
          /\ notify_info_vec = {}
      BY <1>5 DEF poll_retx_expires, sduVars, retxVars, ackVars, NotifyInv, Idle
    <2> QED
      BY <2>1, SameSdusSelf, QuietNotify
  <1> QED
    BY <1>2, <1>3, <1>4, <1>5

LEMMA OtherNotify ==
  ASSUME TxInv, NotifyInv, UNCHANGED <<sduVars, tx_window, ackVars>>,
         stack' = stack \/ stack'.pc = "status"
  PROVE  NotifyInv'
  <1>1. UNCHANGED <<accepted, tx_sdu_queue, tx_sdu, undelivered, tx_window, notify_info_vec>>
    BY DEF sduVars, ackVars
  <1>2. stack'.pc # "status" => notify_info_vec' = {}
    BY <1>1 DEF NotifyInv
  <1> QED
    BY <1>1, <1>2, SameSdusSelf, QuietNotify

LEMMA ResetNotify ==
  ASSUME notify_info_vec = {}, tx_window = <<>>, undelivered = <<>>
  PROVE  NotifyInv
  <1>1. DOMAIN tx_window = {} /\ DOMAIN undelivered = {}
    OBVIOUS
  <1> QED
    BY <1>1 DEF NotifyInv

LEMMA ReestablishNotify ==
  ASSUME NotifyInv, reestablish
  PROVE  NotifyInv'
  <1>1. notify_info_vec' = {} /\ tx_window' = <<>> /\ undelivered' = <<>>
    BY DEF reestablish, tx_reestablish, NotifyInv, Idle
  <1>2. DOMAIN tx_window' = {} /\ DOMAIN undelivered' = {}
    BY <1>1
  <1> QED
    BY <1>1, <1>2 DEF NotifyInv

LEMMA NotifyStepInv ==
  TxInv /\ StreamInv /\ NotifyInv /\ [LinkNext]_linkVars => NotifyInv'
  <1> SUFFICES ASSUME TxInv, StreamInv, NotifyInv, [LinkNext]_linkVars PROVE NotifyInv'
    OBVIOUS
  <1>1. CASE Tx(write_sdu)
    BY <1>1, WriteNotify DEF Tx
  <1>2. ASSUME NEW i \in Discardable, Tx(discard_sdu(i)) PROVE NotifyInv'
    BY <1>2, DiscardNotify DEF Tx
  <1>3. ASSUME NEW g \in Grants, NEW s, ReadPdu(g, s) PROVE NotifyInv'
    BY <1>3, ReadPduNotify
  <1>4. CASE PollTimeout \/ Tx(timer_expired) \/ Tx(NackSn) \/ Tx(StatusDone)
    BY <1>4, StackNotify DEF Tx, PollTimeout
  <1>5. CASE Tx(AckSn)
    BY <1>5, AckNotify DEF Tx
  <1>6. CASE DeliverPdu \/ LosePdu \/ LoseStatus \/ ReorderingTimeout \/ Rx(status_prohibit_expired)
             \/ (\E grant : Rx(build_status_pdu(grant))) \/ UNCHANGED linkVars
    <2>1. UNCHANGED <<sduVars, tx_window, ackVars, stack>>
      BY <1>6 DEF DeliverPdu, LosePdu, LoseStatus, ReorderingTimeout, Rx, linkVars, txVars, retxVars
    <2> QED
      BY <2>1, OtherNotify
  <1>7. CASE DeliverStatus
    <2>1. UNCHANGED <<sduVars, tx_window, ackVars>> /\ (stack' = stack \/ stack'.pc = "status")
      BY <1>7 DEF DeliverStatus, handle_control_pdu
    <2> QED
      BY <2>1, OtherNotify
  <1>8. CASE reestablish
    BY <1>8, ReestablishNotify
  <1> QED
    BY <1>1, <1>2, <1>3, <1>4, <1>5, <1>6, <1>7, <1>8 DEF LinkNext

(* What is reported the peer has: of an SDU that has begun and ended nothing is left at
   the transmitter, so a byte of it comes before the cursor of vt_s.  It has been
   delivered, is in the SDU being reassembled, or is in a PDU ahead; that PDU is in the
   window of the receiver, or in that of the transmitter, which has none of the SDU. *)
LEMMA ReportedIsHeld ==
  ASSUME TxInv, StreamInv, NotifyInv, NEW i \in notify_info_vec, NEW k \in 1 .. SduLen[i]
  PROVE  PeerHas(<<i, k>>)
  <1> DEFINE A == accepted
  <1>1. Begun(i) /\ Ended(i) /\ \A sn \in DOMAIN tx_window : i \notin tx_window[sn].sdus
    BY DEF NotifyInv
  <1>2. PICK x \in 1 .. Len(A) : A[x] = i
    BY <1>1 DEF Begun
  <1>3. /\ A \in Seq(1 .. NofSdus) /\ Len(A) \in Nat /\ i \in 1 .. NofSdus /\ NofSdus \in Nat
        /\ SduLen[i] \in Nat /\ x \in Nat \ {0} /\ k \in Nat \ {0}
    <2>1. A \in Seq(1 .. NofSdus) /\ NofSdus \in Nat
      BY TxAssumption DEF StreamInv, AcceptedOK
    <2>2. Len(A) \in Nat /\ i \in 1 .. NofSdus
      BY <1>2, <2>1, LenProperties, ElementOfSeq
    <2>3. SduLen[i] \in Nat
      BY <2>2, TxAssumption
    <2> QED
      BY <1>2, <2>1, <2>2, <2>3
  <1>x. SduLen[A[x]] \in Nat /\ k <= SduLen[A[x]]
    BY <1>2, <1>3
  <1>4. PICK c \in [SN -> Cursor] : StreamAt(c)
    BY DEF StreamInv, Stream
  <1>5. PICK u \in 0 .. Len(A) : Span(A, tx_sdu, c[vt_s], At(u)) /\ QueueIs(u)
    BY <1>4 DEF StreamAt, AtTx
  <1>6. LinkWindowInv /\ vr_r \in SN /\ vt_s \in SN
    BY LinkDistances DEF TxInv
  <1>7. c[vt_s] \in Cursor /\ c[vr_r] \in Cursor /\ u \in Nat
    BY <1>3, <1>4, <1>5, <1>6
  <1>8. x <= u
    <2> SUFFICES ASSUME ~(x <= u) PROVE FALSE
      OBVIOUS
    <2>1. x \in u + 1 .. Len(A)
      BY <1>2, <1>3, <1>7
    <2>2. i \in {tx_sdu_queue[j] : j \in 1 .. Len(tx_sdu_queue)} \ {Null}
      BY <1>2, <1>5, <2>1 DEF QueueIs
    <2> QED
      BY <1>1, <2>2 DEF Begun
  <1>9. Precedes(x, k, c[vt_s])
    <2> SUFFICES ASSUME ~Precedes(x, k, c[vt_s]) PROVE FALSE
      OBVIOUS
    <2>1. Precedes(x, k, At(u))
      BY <1>3, <1>7, <1>8 DEF Precedes, At
    <2>2. PICK j \in 1 .. Len(tx_sdu) : tx_sdu[j].b = <<A[x], k>>
      <3>1. HasByte(tx_sdu, <<A[x], k>>)
        <4> HIDE DEF A
        <4> QED
          BY <1>3, <1>x, <1>5, <2>1, SpanHas
      <3> QED
        BY <3>1 DEF HasByte
    <2> QED
      BY <1>1, <1>2, <2>2 DEF Ended
  <1> HIDE DEF A
  <1>10. CASE Precedes(x, k, c[vr_r])
    <2> DEFINE done == c[vr_r].done
               part == c[vr_r].part
    <2>1. /\ rx_sdu = Part(A, c[vr_r]) /\ delivered \in Seq(ByteSeq)
          /\ SdusIn(delivered) = SubSeq(A, 1, done) /\ Reach(c[vr_r]) <= Len(A)
      BY <1>4 DEF StreamAt, AtRx, Reassembly, A
    <2>2. done \in Nat /\ part \in Nat
      BY <1>7 DEF Cursor
    <2>3. CASE x <= done
      <3>1. done <= Len(A)
        BY <1>3, <2>1, <2>2 DEF Reach
      <3>2. x \in 1 .. Len(SdusIn(delivered)) /\ SdusIn(delivered)[x] = i
        <4>1. \A j \in 1 .. done : A[j] \in 1 .. NofSdus
          <5>1. \A j \in 1 .. done : j \in 1 .. Len(A)
            BY <1>3, <2>2, <3>1
          <5> QED
            BY <1>3, <5>1, ElementOfSeq
        <4>2. 1 \in Int /\ done \in Int
          BY <2>2
        <4> HIDE DEF done
        <4>3. /\ Len(SubSeq(A, 1, done)) = IF 1 <= done THEN done - 1 + 1 ELSE 0
              /\ \A j \in 1 .. done - 1 + 1 : SubSeq(A, 1, done)[j] = A[1 + j - 1]
          BY <4>1, <4>2, SubSeqProperties
        <4>4. x \in 1 .. done - 1 + 1 /\ 1 + x - 1 = x /\ 1 <= done
          BY <1>3, <2>3, <4>2
        <4> QED
          BY <1>2, <2>1, <4>3, <4>4 DEF A
      <3>3. PICK j \in 1 .. Len(delivered) : delivered[j] = Bytes(i)
        BY <1>3, <2>1, <3>2, DeliveredIsThere
      <3>4. <<i, k>> \in ToSet(Bytes(i))
        BY <1>3 DEF Bytes, ToSet
      <3> QED
        BY <3>3, <3>4 DEF PeerHas
    <2>4. CASE ~(x <= done)
      <3>1. done + 1 = x /\ k \in 1 .. part
        BY <1>3, <1>10, <2>2, <2>4 DEF Precedes
      <3>2. DOMAIN rx_sdu = 1 .. part /\ rx_sdu[k] = <<i, k>>
        BY <1>2, <2>1, <3>1 DEF Part, A
      <3>3. <<i, k>> \in ToSet(rx_sdu)
        BY <3>1, <3>2 DEF ToSet
      <3> QED
        BY <3>3 DEF PeerHas
    <2> QED
      BY <2>3, <2>4
  <1>11. CASE ~Precedes(x, k, c[vr_r])
    <2> DEFINE B == Base(vt_s, vr_r)
               Past == {n \in 0 .. B : Precedes(x, k, c[Add(vr_r, n)])}
    <2>1. /\ B \in 0 .. MOD - 1 /\ MOD \in Nat
          /\ Add(vr_r, B) = vt_s /\ Add(vr_r, 0) = vr_r
      BY <1>6, AheadBounds
    <2>2. Past \in SUBSET Nat /\ B \in Past
      BY <1>9, <2>1
    <2>3. PICK n \in Past : \A y \in Past : n <= y
      <3> HIDE DEF Past
      <3> QED
        BY <2>2, LeastElement
    <2>4. n \in 0 .. B /\ Precedes(x, k, c[Add(vr_r, n)]) /\ n # 0
      BY <1>11, <2>1, <2>3
    <2> HIDE DEF B
    <2>5. n - 1 \in 0 .. B /\ ~(n <= n - 1) /\ n - 1 \in 0 .. MOD - 1 /\ n - 1 < B /\ (n - 1) + 1 = n
      BY <2>1, <2>4
    <2> DEFINE sn == Add(vr_r, n - 1)
    <2>6. ~Precedes(x, k, c[sn])
      BY <2>3, <2>5
    <2>7. sn \in SN /\ Base(sn, vr_r) = n - 1 /\ Add(sn, 1) = Add(vr_r, n)
      BY <1>6, <2>5, AheadNext
    <2> HIDE DEF sn, Past
    <2>8. Ahead(sn)
      BY <2>5, <2>7 DEF Ahead, B
    <2>9. Span(A, Data(sn), c[sn], c[Add(sn, 1)])
      BY <1>4, <2>7, <2>8 DEF StreamAt, A
    <2>10. PICK j \in 1 .. Len(Data(sn)) : Data(sn)[j].b = <<A[x], k>>
      <3>1. Precedes(x, k, c[Add(sn, 1)])
        BY <2>4, <2>7
      <3>2. HasByte(Data(sn), <<A[x], k>>)
        BY <1>3, <1>x, <2>6, <2>9, <3>1, SpanHas
      <3> QED
        BY <3>2 DEF HasByte
    <2>11. CASE sn \in DOMAIN rx_window
      <3>1. Data(sn) = rx_window[sn] /\ Data(sn) \in Seq(Token)
        BY <2>9, <2>11, SpanEnds DEF Data
      <3>2. Data(sn)[j] \in ToSet(rx_window[sn])
        BY <3>1, LenProperties DEF ToSet
      <3> QED
        BY <1>2, <2>10, <2>11, <3>2 DEF PeerHas, A
    <2>12. CASE sn \notin DOMAIN rx_window
      <3>1. sn \in DOMAIN tx_window /\ Data(sn) = tx_window[sn].data
        BY <1>6, <2>7, <2>8, <2>12, AheadKept DEF Data
      <3>2. Data(sn)[j].b[1] = i
        BY <1>2, <2>10 DEF A
      <3>3. i \in tx_window[sn].sdus \union {Null}
        BY <2>10, <3>1, <3>2 DEF NotifyInv
      <3>4. i # Null
        BY <1>3 DEF Null
      <3> QED
        BY <1>1, <3>1, <3>3, <3>4
    <2> QED
      BY <2>11, <2>12
  <1> QED
    BY <1>10, <1>11

(* An SDU is named to PDCP (notify_delivery, from notify_info_vec) only when the peer has
   every byte of it: each PDU with a segment of it was acknowledged after it was received,
   however build_data_pdu cut it, whatever was lost or overtaken, and although new PDUs are
   built while handle_control_pdu works through a STATUS PDU.                *)
THEOREM NotifiedWasReceivedHolds == LinkSpec => NotifiedWasReceived
  <1> DEFINE Report == notify_info_vec' = {} =>
               \A i \in notify_info_vec : \A byte \in ToSet(Bytes(i)) : PeerHas(byte)
  <1>1. LinkInit => TxInv /\ StreamInv /\ NotifyInv
    BY TxInitInv, LinkInitStream, ResetNotify DEF LinkInit, TxInit
  <1>2. TxInv /\ StreamInv /\ NotifyInv /\ [LinkNext]_linkVars => TxInv' /\ StreamInv' /\ NotifyInv'
    BY TxStepInv, StreamStepInv, NotifyStepInv
  <1>3. TxInv /\ StreamInv /\ NotifyInv => Report
    <2> SUFFICES ASSUME TxInv, StreamInv, NotifyInv, NEW i \in notify_info_vec,
                        NEW byte \in ToSet(Bytes(i))
                 PROVE  PeerHas(byte)
      OBVIOUS
    <2>1. PICK k \in 1 .. SduLen[i] : byte = <<i, k>>
      BY DEF Bytes, ToSet
    <2> QED
      BY <2>1, ReportedIsHeld
  <1> QED
    BY <1>1, <1>2, <1>3, PTL DEF LinkSpec, NotifiedWasReceived
=============================================================================
