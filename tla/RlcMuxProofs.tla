---------------------------- MODULE RlcMuxProofs ----------------------------
(***************************************************************************)
(* No set of threads around the RLC of a UE waits for itself, and no       *)
(* bearer is deleted under a thread that uses it, for any number of PHY    *)
(* workers, logical channels and deferred tasks.                           *)
(*                                                                         *)
(* The code of a method is a sequence.  It is proved with an outline: what *)
(* its thread holds before each instruction.  Outlines compose as methods  *)
(* do; the invariant says that the rest of every call has an outline that  *)
(* begins with what its thread holds now.                                  *)
(***************************************************************************)
EXTENDS RlcMux, TLAPS, SequenceTheorems

(* What a thread has: the mutexes it holds, how often it reads, whether it
   writes, and the bearers it may use.  `never' marks a point that is not
   reached.                                                                *)
State == [held : SUBSET Locks, reads : Nat, at : {"free", "write", "never"}, inside : SUBSET Lcids]

Instr ==
  {Op(o, l) : o \in {"rdlock", "rdunlock", "wrlock", "wrunlock", "lock", "unlock"},
              l \in Locks \union {None}}
  \union {[op |-> "try", lock |-> l, skip |-> n] : l \in Locks, n \in Nat}
  \union {[op |-> "valid_lcid", lcid |-> x, skip |-> n] : x \in Lcids, n \in Nat}
  \union {[op |-> o, lcid |-> x] : o \in {"emplace", "erase", "deliver"}, x \in Lcids}

Kind(t) == IF t = Stack THEN "stack" ELSE "phy"
NoTx(P) == \A l \in P.held : l[1] # "tx"

(* A thread holds mutexes of bearers that it may use only, and a PHY worker may use
   a bearer only while it reads.                                            *)
Fits(k, P) ==
  /\ \A l \in P.held : l[2] \in P.inside
  /\ k = "phy" => P.at = "free" /\ (P.inside # {} => P.reads > 0)

(* The discipline: what a thread may hold when it executes an instruction.  With the
   mutex of a transmitter it never waits; with that of a receiver only the stack
   thread does, and never for another receiver.                             *)
MutexPre(k, P, o) ==
  /\ o.op \in {"lock", "try", "unlock"} => o.lock \in Locks /\ o.lock[2] \in P.inside
  /\ o.op = "lock" => /\ NoTx(P)
                      /\ k = "phy" => P.held = {} /\ o.lock[1] = "tx"
                      /\ o.lock[1] = "rx" => P.held = {}
  /\ o.op = "unlock" => o.lock \in P.held

RwPre(k, P, o) ==
  /\ o.op = "rdlock" => NoTx(P) /\ P.at = "free" /\ (k = "phy" => P.held = {})
  /\ o.op = "rdunlock" => P.reads > 0
  /\ o.op = "wrlock" => k = "stack" /\ P.held = {} /\ P.reads = 0 /\ P.at = "free"
  /\ o.op = "wrunlock" => P.at = "write"

TablePre(k, P, o) ==
  /\ o.op \in {"valid_lcid", "emplace", "erase", "deliver"} => o.lcid \in Lcids
  /\ o.op = "valid_lcid" /\ k = "phy" => P.reads > 0
  /\ o.op = "erase" => k = "stack" /\ P.held = {} /\ P.at = "write"
  /\ o.op = "deliver" => k = "stack" /\ NoTx(P) /\ P.at = "free"

Pre(k, P, o) == o \in Instr /\ MutexPre(k, P, o) /\ RwPre(k, P, o) /\ TablePre(k, P, o)

(* What it has afterwards; it may forget bearers. *)
Follows(P, o, Q) ==
  /\ Q.held = IF o.op \in {"lock", "try"} THEN P.held \union {o.lock}
              ELSE IF o.op = "unlock" THEN P.held \ {o.lock} ELSE P.held
  /\ Q.reads = IF o.op = "rdlock" THEN P.reads + 1
               ELSE IF o.op = "rdunlock" THEN P.reads - 1 ELSE P.reads
  /\ Q.at = IF o.op = "wrlock" THEN "write" ELSE IF o.op = "wrunlock" THEN "free" ELSE P.at
  /\ Q.inside \subseteq IF o.op = "valid_lcid" THEN P.inside \union {o.lcid}
                        ELSE IF o.op = "erase" THEN P.inside \ {o.lcid} ELSE P.inside

(* Q forgets bearers of P. *)
Forgets(P, Q) == Q.held = P.held /\ Q.reads = P.reads /\ Q.at = P.at /\ Q.inside \subseteq P.inside

(* try_to_lock fails for sure when the thread itself has the mutex. *)
Executes(k, P, o, Q) ==
  Pre(k, P, o) /\ ((o.op = "try" /\ o.lock \in P.held) \/ Follows(P, o, Q))

Branches(o) == o.op \in {"try", "valid_lcid"}

Outline(k, c, A) ==
  /\ A \in [1 .. Len(c) + 1 -> State]
  /\ \A j \in 1 .. Len(c) + 1 : A[j].at # "never" => Fits(k, A[j])
  /\ \A j \in 1 .. Len(c) : A[j].at # "never" =>
       /\ Executes(k, A[j], c[j], A[j + 1])
       /\ Branches(c[j]) => /\ c[j].skip \in Nat /\ j + c[j].skip + 1 <= Len(c) + 1
                            /\ Forgets(A[j], A[j + c[j].skip + 1])

(* Code c takes a thread of kind k from P to Q. *)
Code(k, P, c, Q) ==
  /\ c \in Seq(Instr)
  /\ \E A : Outline(k, c, A) /\ A[1] = P /\ A[Len(c) + 1] = Q

-----------------------------------------------------------------------------
(* Outlines compose. *)

LEMMA CodeConcat ==
  ASSUME NEW k, NEW P, NEW Q, NEW R, NEW c, NEW d, Code(k, P, c, Q), Code(k, Q, d, R)
  PROVE  Code(k, P, c \o d, R)
  <1>1. c \in Seq(Instr) /\ d \in Seq(Instr)
    BY DEF Code
  <1>2. PICK A : Outline(k, c, A) /\ A[1] = P /\ A[Len(c) + 1] = Q
    BY DEF Code
  <1>3. PICK B : Outline(k, d, B) /\ B[1] = Q /\ B[Len(d) + 1] = R
    BY DEF Code
  <1>4. PICK m \in Nat : m = Len(c)
    BY <1>1, LenProperties
  <1>5. PICK n \in Nat : n = Len(d)
    BY <1>1, LenProperties
  <1>6. PICK e : e = c \o d
    OBVIOUS
  <1>7. /\ e \in Seq(Instr) /\ Len(e) = m + n
        /\ \A j \in 1 .. m + n : e[j] = IF j <= m THEN c[j] ELSE d[j - m]
    BY <1>1, <1>4, <1>5, <1>6, ConcatProperties
  <1> DEFINE C == [j \in 1 .. (m + n) + 1 |-> IF j <= m THEN A[j] ELSE B[j - m]]
  <1>8. \A j \in 1 .. m + 1 : j \in 1 .. (m + n) + 1 /\ C[j] = A[j]
    <2>1. \A j \in 1 .. m + 1 : j \in 1 .. (m + n) + 1 /\ (j <= m \/ j = m + 1)
      BY <1>4, <1>5
    <2>2. m + 1 \in 1 .. (m + n) + 1 /\ ~(m + 1 <= m) /\ (m + 1) - m = 1
      BY <1>4, <1>5
    <2>3. C[m + 1] = A[m + 1]
      BY <1>2, <1>3, <1>4, <2>2
    <2> QED
      BY <2>1, <2>3
  <1>9. \A j \in 1 .. n + 1 : j + m \in 1 .. (m + n) + 1 /\ C[j + m] = B[j]
    <2> SUFFICES ASSUME NEW j \in 1 .. n + 1
                 PROVE  j + m \in 1 .. (m + n) + 1 /\ C[j + m] = B[j]
      OBVIOUS
    <2>1. j + m \in 1 .. (m + n) + 1 /\ ~(j + m <= m) /\ (j + m) - m = j
      BY <1>4, <1>5
    <2> QED
      BY <2>1
  <1>10. \A j \in 1 .. (m + n) + 1 : j \in 1 .. m + 1 \/ (\E i \in 1 .. n + 1 : j = i + m)
    <2>1. ASSUME NEW j \in 1 .. (m + n) + 1, ~(j \in 1 .. m + 1) PROVE \E i \in 1 .. n + 1 : j = i + m
      <3>1. j - m \in 1 .. n + 1 /\ j = (j - m) + m
        BY <1>4, <1>5, <2>1
      <3> QED
        BY <3>1
    <2> QED
      BY <2>1
  <1>11. \A j \in 1 .. (m + n) : j \in 1 .. m \/ (\E i \in 1 .. n : j = i + m)
    <2>1. ASSUME NEW j \in 1 .. (m + n), ~(j \in 1 .. m) PROVE \E i \in 1 .. n : j = i + m
      <3>1. j - m \in 1 .. n /\ j = (j - m) + m
        BY <1>4, <1>5, <2>1
      <3> QED
        BY <3>1
    <2> QED
      BY <2>1
  <1>12. C \in [1 .. (m + n) + 1 -> State]
    <2>1. \A j \in 1 .. (m + n) + 1 : C[j] \in State
      <3>1. (\A j \in 1 .. m + 1 : A[j] \in State) /\ (\A j \in 1 .. n + 1 : B[j] \in State)
        BY <1>2, <1>3, <1>4, <1>5 DEF Outline
      <3> HIDE DEF C
      <3> QED
        BY <1>8, <1>9, <1>10, <3>1
    <2> QED
      BY <2>1
  <1>13. C[1] = P /\ C[(m + n) + 1] = R
    <2>1. 1 \in 1 .. m + 1 /\ n + 1 \in 1 .. n + 1 /\ (n + 1) + m = (m + n) + 1
      BY <1>4, <1>5
    <2> QED
      BY <1>2, <1>3, <1>5, <1>8, <1>9, <2>1
  <1> HIDE DEF C
  <1>14. \A j \in 1 .. (m + n) + 1 : C[j].at # "never" => Fits(k, C[j])
    BY <1>2, <1>3, <1>4, <1>5, <1>8, <1>9, <1>10 DEF Outline
  <1>15. ASSUME NEW j \in 1 .. m + n, C[j].at # "never"
         PROVE  /\ Executes(k, C[j], e[j], C[j + 1])
                /\ Branches(e[j]) => /\ e[j].skip \in Nat /\ j + e[j].skip + 1 <= (m + n) + 1
                                     /\ Forgets(C[j], C[j + e[j].skip + 1])
    <2>1. CASE j \in 1 .. m
      <3>1. j \in 1 .. m + 1 /\ j + 1 \in 1 .. m + 1 /\ j <= m
        BY <1>4, <2>1
      <3>2. C[j] = A[j] /\ C[j + 1] = A[j + 1] /\ e[j] = c[j]
        BY <1>7, <1>8, <3>1
      <3>3. /\ Executes(k, A[j], c[j], A[j + 1])
            /\ Branches(c[j]) => /\ c[j].skip \in Nat /\ j + c[j].skip + 1 <= m + 1
                                 /\ Forgets(A[j], A[j + c[j].skip + 1])
        BY <1>2, <1>4, <1>15, <2>1, <3>2 DEF Outline
      <3>4. ASSUME NEW s \in Nat, j + s + 1 <= m + 1
            PROVE  j + s + 1 <= (m + n) + 1 /\ j + s + 1 \in 1 .. m + 1
        BY <1>4, <1>5, <2>1, <3>4
      <3> QED
        BY <1>8, <3>2, <3>3, <3>4
    <2>2. CASE \E i \in 1 .. n : j = i + m
      <3>0. PICK i \in 1 .. n : j = i + m
        BY <2>2
      <3>1. i \in 1 .. n + 1 /\ i + 1 \in 1 .. n + 1 /\ (i + 1) + m = j + 1 /\ ~(j <= m) /\ j - m = i
        BY <1>4, <1>5, <3>0
      <3>2. C[j] = B[i] /\ C[j + 1] = B[i + 1] /\ e[j] = d[i]
        <4>1. C[i + m] = B[i] /\ C[(i + 1) + m] = B[i + 1]
          BY <1>9, <3>1
        <4> QED
          BY <1>7, <3>0, <3>1, <4>1
      <3>3. /\ Executes(k, B[i], d[i], B[i + 1])
            /\ Branches(d[i]) => /\ d[i].skip \in Nat /\ i + d[i].skip + 1 <= n + 1
                                 /\ Forgets(B[i], B[i + d[i].skip + 1])
        BY <1>3, <1>5, <1>15, <3>2 DEF Outline
      <3>4. ASSUME NEW s \in Nat, i + s + 1 <= n + 1
            PROVE  j + s + 1 <= (m + n) + 1 /\ C[j + s + 1] = B[i + s + 1]
        <4>1. /\ j + s + 1 <= (m + n) + 1 /\ i + s + 1 \in 1 .. n + 1
              /\ (i + s + 1) + m = j + s + 1
          BY <1>4, <1>5, <3>0, <3>4
        <4>2. C[(i + s + 1) + m] = B[i + s + 1]
          BY <1>9, <4>1
        <4> QED
          BY <4>1, <4>2
      <3> QED
        BY <3>2, <3>3, <3>4
    <2> QED
      BY <1>11, <2>1, <2>2
  <1>16. Outline(k, e, C)
    BY <1>7, <1>12, <1>14, <1>15 DEF Outline
  <1> QED
    BY <1>6, <1>7, <1>13, <1>16 DEF Code

(* What is left of the code has what is left of the outline. *)
LEMMA Suffix ==
  ASSUME NEW k, NEW c \in Seq(Instr), NEW A, Outline(k, c, A), NEW i \in 1 .. Len(c) + 1
  PROVE  Code(k, A[i], SubSeq(c, i, Len(c)), A[Len(c) + 1])
  <1>1. PICK m \in Nat : m = Len(c)
    BY LenProperties
  <1>2. PICK d : d = SubSeq(c, i, m)
    OBVIOUS
  <1> DEFINE n == (m + 1) - i
  <1>3. n \in Nat /\ i \in Nat /\ (n + 1) + (i - 1) = m + 1 /\ 1 + (i - 1) = i
    BY <1>1
  <1>4. d \in Seq(Instr) /\ Len(d) = n /\ \A j \in 1 .. n : d[j] = c[j + (i - 1)]
    <2>1. \A j \in i .. m : c[j] \in Instr
      BY <1>1, ElementOfSeq
    <2>2. /\ d \in Seq(Instr) /\ Len(d) = IF i <= m THEN m - i + 1 ELSE 0
          /\ \A j \in 1 .. m - i + 1 : d[j] = c[i + j - 1]
      BY <1>1, <1>2, <1>3, <2>1, SubSeqProperties
    <2>3. \A j \in 1 .. n : j \in 1 .. m - i + 1 /\ i + j - 1 = j + (i - 1)
      BY <1>1, <1>3
    <2>4. n = IF i <= m THEN m - i + 1 ELSE 0
      BY <1>1, <1>3
    <2> QED
      BY <2>2, <2>3, <2>4
  <1> HIDE DEF n
  <1> DEFINE B == [j \in 1 .. n + 1 |-> A[j + (i - 1)]]
  <1>5. \A j \in 1 .. n + 1 : j + (i - 1) \in 1 .. m + 1
    BY <1>1, <1>3
  <1>6. B \in [1 .. n + 1 -> State] /\ \A j \in 1 .. n + 1 : B[j].at # "never" => Fits(k, B[j])
    BY <1>1, <1>5 DEF Outline
  <1>7. \A j \in 1 .. n + 1 : B[j] = A[j + (i - 1)]
    OBVIOUS
  <1> HIDE DEF B
  <1>8. ASSUME NEW j \in 1 .. n, B[j].at # "never"
        PROVE  /\ Executes(k, B[j], d[j], B[j + 1])
               /\ Branches(d[j]) => /\ d[j].skip \in Nat /\ j + d[j].skip + 1 <= n + 1
                                    /\ Forgets(B[j], B[j + d[j].skip + 1])
    <2>1. PICK x \in 1 .. m : x = j + (i - 1)
      BY <1>1, <1>3
    <2>2. B[j] = A[x] /\ B[j + 1] = A[x + 1] /\ d[j] = c[x]
      <3>1. j \in 1 .. n + 1 /\ j + 1 \in 1 .. n + 1 /\ (j + 1) + (i - 1) = x + 1
        BY <1>1, <1>3, <2>1
      <3> QED
        BY <1>4, <1>7, <2>1, <3>1
    <2>3. /\ Executes(k, A[x], c[x], A[x + 1])
          /\ Branches(c[x]) => /\ c[x].skip \in Nat /\ x + c[x].skip + 1 <= m + 1
                               /\ Forgets(A[x], A[x + c[x].skip + 1])
      BY <1>1, <1>8, <2>2 DEF Outline
    <2>4. ASSUME NEW s \in Nat, x + s + 1 <= m + 1
          PROVE  j + s + 1 <= n + 1 /\ B[j + s + 1] = A[x + s + 1]
      <3>1. j + s + 1 <= n + 1 /\ j + s + 1 \in 1 .. n + 1 /\ (j + s + 1) + (i - 1) = x + s + 1
        BY <1>1, <1>3, <2>1, <2>4
      <3> QED
        BY <1>7, <3>1
    <2>5. ASSUME Branches(d[j])
          PROVE  /\ d[j].skip \in Nat /\ j + d[j].skip + 1 <= n + 1
                 /\ Forgets(B[j], B[j + d[j].skip + 1])
      <3>1. PICK s \in Nat : s = d[j].skip
        BY <2>2, <2>3, <2>5
      <3>2. x + s + 1 <= m + 1 /\ Forgets(A[x], A[x + s + 1])
        BY <2>2, <2>3, <2>5, <3>1
      <3>3. j + s + 1 <= n + 1 /\ B[j + s + 1] = A[x + s + 1]
        BY <2>4, <3>2
      <3> QED
        BY <2>2, <3>1, <3>2, <3>3
    <2> QED
      BY <2>2, <2>3, <2>5
  <1>9. Outline(k, d, B)
    BY <1>4, <1>6, <1>8 DEF Outline
  <1>10. B[1] = A[i] /\ B[n + 1] = A[m + 1]
    <2>1. 1 \in 1 .. n + 1 /\ n + 1 \in 1 .. n + 1
      BY <1>3
    <2> QED
      BY <1>3, <1>7, <2>1
  <1> QED
    BY <1>1, <1>2, <1>4, <1>9, <1>10 DEF Code

Live(k, P) == P \in State /\ P.at # "never" /\ Fits(k, P)

(* A thread that is at the beginning of some code executes its first instruction or
   takes the branch.                                                        *)
LEMMA CodeFirst ==
  ASSUME NEW k, NEW P, NEW Q, NEW c, Code(k, P, c, Q), Live(k, P), c # <<>>,
         ~(Head(c).op = "try" /\ Head(c).lock \in P.held)
  PROVE  \E R : Live(k, R) /\ Follows(P, Head(c), R) /\ Code(k, R, Tail(c), Q)
  <1>1. c \in Seq(Instr) /\ Len(c) \in Nat /\ Len(c) > 0 /\ Head(c) = c[1]
    BY EmptySeq, LenProperties, HeadTailProperties DEF Code
  <1>2. PICK A : Outline(k, c, A) /\ A[1] = P /\ A[Len(c) + 1] = Q
    BY DEF Code
  <1>3. 1 \in 1 .. Len(c) /\ 2 \in 1 .. Len(c) + 1 /\ 1 + 1 = 2
    BY <1>1
  <1>4. Executes(k, A[1], c[1], A[2])
    BY <1>2, <1>3 DEF Outline, Live
  <1>5. Follows(P, c[1], A[2])
    BY <1>1, <1>2, <1>4 DEF Executes
  <1>6. A[2].at # "never"
    BY <1>5 DEF Follows, Live
  <1>7. Live(k, A[2])
    BY <1>2, <1>3, <1>6 DEF Outline, Live
  <1>8. Code(k, A[2], Tail(c), Q)
    BY <1>1, <1>2, <1>3, Suffix, TailIsSubSeq
  <1> QED
    BY <1>1, <1>5, <1>7, <1>8

LEMMA CodeSkip ==
  ASSUME NEW k, NEW P, NEW Q, NEW c, Code(k, P, c, Q), Live(k, P), c # <<>>, Branches(Head(c))
  PROVE  \E R : Live(k, R) /\ Forgets(P, R) /\ Code(k, R, SubSeq(c, Head(c).skip + 2, Len(c)), Q)
  <1>1. c \in Seq(Instr) /\ Len(c) \in Nat /\ Len(c) > 0 /\ Head(c) = c[1]
    BY EmptySeq, LenProperties, HeadTailProperties DEF Code
  <1>2. PICK A : Outline(k, c, A) /\ A[1] = P /\ A[Len(c) + 1] = Q
    BY DEF Code
  <1>3. 1 \in 1 .. Len(c)
    BY <1>1
  <1>4. c[1].skip \in Nat /\ 1 + c[1].skip + 1 <= Len(c) + 1 /\ Forgets(A[1], A[1 + c[1].skip + 1])
    BY <1>1, <1>2, <1>3 DEF Outline, Live
  <1>5. PICK s \in Nat : s = c[1].skip
    BY <1>4
  <1>6. PICK i \in 1 .. Len(c) + 1 : i = s + 2 /\ i = 1 + s + 1
    BY <1>1, <1>4, <1>5
  <1>7. Forgets(P, A[i]) /\ Live(k, A[i])
    BY <1>2, <1>4, <1>5, <1>6 DEF Outline, Live, Forgets
  <1>8. Code(k, A[i], SubSeq(c, i, Len(c)), Q)
    BY <1>1, <1>2, Suffix
  <1> QED
    BY <1>1, <1>5, <1>6, <1>7, <1>8

(* A thread obeys the discipline. *)
LEMMA CodePre ==
  ASSUME NEW k, NEW P, NEW Q, NEW c, Code(k, P, c, Q), Live(k, P), c # <<>>
  PROVE  Pre(k, P, Head(c))
  <1>1. c \in Seq(Instr) /\ Len(c) \in Nat /\ Len(c) > 0 /\ Head(c) = c[1]
    BY EmptySeq, LenProperties, HeadTailProperties DEF Code
  <1>2. PICK A : Outline(k, c, A) /\ A[1] = P
    BY DEF Code
  <1>3. 1 \in 1 .. Len(c)
    BY <1>1
  <1> QED
    BY <1>1, <1>2, <1>3 DEF Outline, Live, Executes

-----------------------------------------------------------------------------
(* Outlines of the constructs that methods are made of. *)

LEMMA CodeEmpty ==
  ASSUME NEW k, NEW P, Live(k, P)
  PROVE  Code(k, P, <<>>, P)
  <1> DEFINE A == [j \in 1 .. 1 |-> P]
  <1>1. Len(<<>>) = 0 /\ <<>> \in Seq(Instr)
    BY EmptySeq
  <1>2. A \in [1 .. 1 -> State] /\ A[1] = P /\ \A j \in 1 .. 1 : A[j] = P
    BY DEF Live
  <1> HIDE DEF A
  <1>3. Outline(k, <<>>, A)
    BY <1>1, <1>2 DEF Outline, Live
  <1> QED
    BY <1>1, <1>2, <1>3 DEF Code

LEMMA CodeOne ==
  ASSUME NEW k, NEW P, NEW Q, NEW o, Live(k, P), Live(k, Q),
         Pre(k, P, o), Follows(P, o, Q), ~Branches(o)
  PROVE  Code(k, P, <<o>>, Q)
  <1> DEFINE A == [j \in 1 .. 2 |-> IF j = 1 THEN P ELSE Q]
             c == <<o>>
  <1>1. Len(c) = 1 /\ c[1] = o /\ c \in Seq(Instr)
    BY DEF Pre
  <1>2. A \in [1 .. 2 -> State] /\ A[1] = P /\ A[2] = Q /\ \A j \in 1 .. 2 : A[j] = P \/ A[j] = Q
    BY DEF Live
  <1> HIDE DEF A, c
  <1>3. 1 + 1 = 2 /\ \A j \in 1 .. 1 : j = 1
    OBVIOUS
  <1>4. Outline(k, c, A)
    BY <1>1, <1>2, <1>3 DEF Outline, Live, Executes
  <1>5. Code(k, P, c, Q)
    BY <1>1, <1>2, <1>3, <1>4 DEF Code
  <1> QED
    BY <1>5 DEF c

(* At its end code may forget. *)
LEMMA CodeForgets ==
  ASSUME NEW k, NEW P, NEW Q, NEW R, NEW c, Code(k, P, c, Q), c # <<>>,
         Live(k, Q), Live(k, R), Forgets(Q, R)
  PROVE  Code(k, P, c, R)
  <1>1. c \in Seq(Instr) /\ Len(c) \in Nat /\ Len(c) > 0
    BY EmptySeq, LenProperties DEF Code
  <1>2. PICK A : Outline(k, c, A) /\ A[1] = P /\ A[Len(c) + 1] = Q
    BY DEF Code
  <1>3. PICK m \in Nat : m = Len(c) /\ m > 0
    BY <1>1
  <1> DEFINE B == [A EXCEPT ![m + 1] = R]
  <1>4. A \in [1 .. m + 1 -> State] /\ m + 1 \in 1 .. m + 1 /\ m + 1 # 1
    BY <1>2, <1>3 DEF Outline
  <1>5. /\ B \in [1 .. m + 1 -> State] /\ B[1] = P /\ B[m + 1] = R
        /\ \A j \in 1 .. m + 1 : j # m + 1 => B[j] = A[j]
    BY <1>2, <1>3, <1>4 DEF Live
  <1> HIDE DEF B
  <1>6. \A j \in 1 .. m + 1 : B[j] = A[j] \/ (j = m + 1 /\ B[j] = R)
    BY <1>5
  <1>7. \A j \in 1 .. m + 1 : B[j].at # "never" => Fits(k, B[j])
    BY <1>2, <1>3, <1>6 DEF Outline, Live
  <1>8. \A X, o : Executes(k, X, o, Q) => Executes(k, X, o, R)
    BY DEF Executes, Follows, Forgets
  <1>9. \A X : Forgets(X, Q) => Forgets(X, R)
    BY DEF Forgets
  <1>10. ASSUME NEW j \in 1 .. m, B[j].at # "never"
         PROVE  /\ Executes(k, B[j], c[j], B[j + 1])
                /\ Branches(c[j]) => /\ c[j].skip \in Nat /\ j + c[j].skip + 1 <= m + 1
                                     /\ Forgets(B[j], B[j + c[j].skip + 1])
    <2>1. j \in 1 .. m + 1 /\ j # m + 1 /\ j + 1 \in 1 .. m + 1
      BY <1>3
    <2>2. /\ B[j] = A[j] /\ Executes(k, A[j], c[j], A[j + 1])
          /\ Branches(c[j]) => /\ c[j].skip \in Nat /\ j + c[j].skip + 1 <= m + 1
                               /\ Forgets(A[j], A[j + c[j].skip + 1])
      BY <1>2, <1>3, <1>5, <1>10, <2>1 DEF Outline
    <2>3. Executes(k, B[j], c[j], B[j + 1])
      BY <1>2, <1>3, <1>6, <1>8, <2>1, <2>2
    <2>4. ASSUME Branches(c[j])
          PROVE  /\ c[j].skip \in Nat /\ j + c[j].skip + 1 <= m + 1
                 /\ Forgets(B[j], B[j + c[j].skip + 1])
      <3>1. PICK s \in Nat : s = c[j].skip
        BY <2>2, <2>4
      <3>2. PICK i \in 1 .. m + 1 : i = j + s + 1
        BY <1>3, <2>2, <2>4, <3>1
      <3>3. Forgets(A[j], A[i])
        BY <2>2, <2>4, <3>1, <3>2
      <3>4. Forgets(B[j], B[i])
        BY <1>2, <1>3, <1>6, <1>9, <2>2, <3>3
      <3> QED
        BY <2>2, <2>4, <3>1, <3>2, <3>4
    <2> QED
      BY <2>3, <2>4
  <1>11. Outline(k, c, B)
    BY <1>3, <1>5, <1>7, <1>10 DEF Outline
  <1> QED
    BY <1>1, <1>3, <1>5, <1>11 DEF Code

Uses(P, x) == [P EXCEPT !.inside = @ \union {x}]
Holds(P, l) == [P EXCEPT !.held = @ \union {l}]
Reads(P) == [P EXCEPT !.reads = @ + 1]
Writes(P) == [P EXCEPT !.at = "write"]

(* valid_lcid: the body may use the bearer, and what is behind it may not. *)
LEMMA CodeIf ==
  ASSUME NEW k, NEW P, NEW x \in Lcids, NEW body, Live(k, P), k = "phy" => P.reads > 0,
         Code(k, Uses(P, x), body, P)
  PROVE  Code(k, P, If(x, body), P)
  <1>1. body \in Seq(Instr)
    BY DEF Code
  <1>2. PICK A : Outline(k, body, A) /\ A[1] = Uses(P, x) /\ A[Len(body) + 1] = P
    BY DEF Code
  <1>3. PICK m \in Nat : m = Len(body)
    BY <1>1, LenProperties
  <1>4. PICK o : o = [op |-> "valid_lcid", lcid |-> x, skip |-> m]
    OBVIOUS
  <1>5. o \in Instr /\ o.op = "valid_lcid" /\ o.lcid = x /\ o.skip = m
    BY <1>4 DEF Instr
  <1>6. PICK c : c = <<o>> \o body
    OBVIOUS
  <1>7. c = If(x, body)
    BY <1>3, <1>4, <1>6 DEF If
  <1>8. /\ c \in Seq(Instr) /\ Len(c) = m + 1 /\ c[1] = o
        /\ \A j \in 1 .. m : c[j + 1] = body[j]
    <2>1. <<o>> \in Seq(Instr) /\ Len(<<o>>) = 1 /\ <<o>>[1] = o
      BY <1>5
    <2>2. /\ c \in Seq(Instr) /\ Len(c) = 1 + m
          /\ \A j \in 1 .. 1 + m : c[j] = IF j <= 1 THEN <<o>>[j] ELSE body[j - 1]
      BY <1>1, <1>3, <1>6, <2>1, ConcatProperties
    <2>3. \A j \in 1 .. m : j + 1 \in 1 .. 1 + m /\ ~(j + 1 <= 1) /\ (j + 1) - 1 = j
      BY <1>3
    <2>4. 1 \in 1 .. 1 + m /\ 1 + m = m + 1
      BY <1>3
    <2> QED
      BY <2>1, <2>2, <2>3, <2>4
  <1> DEFINE B == [j \in 1 .. (m + 1) + 1 |-> IF j = 1 THEN P ELSE A[j - 1]]
  <1>9. \A j \in 1 .. m + 1 : j + 1 \in 1 .. (m + 1) + 1 /\ j + 1 # 1 /\ (j + 1) - 1 = j
    BY <1>3
  <1>10. \A j \in 1 .. (m + 1) + 1 : j = 1 \/ \E i \in 1 .. m + 1 : j = i + 1
    <2>1. ASSUME NEW j \in 1 .. (m + 1) + 1, j # 1 PROVE \E i \in 1 .. m + 1 : j = i + 1
      <3>1. j - 1 \in 1 .. m + 1 /\ j = (j - 1) + 1
        BY <1>3, <2>1
      <3> QED
        BY <3>1
    <2> QED
      BY <2>1
  <1>11. B[1] = P /\ \A j \in 1 .. m + 1 : B[j + 1] = A[j]
    <2>1. 1 \in 1 .. (m + 1) + 1
      BY <1>3
    <2> QED
      BY <1>9, <2>1
  <1>12. B \in [1 .. (m + 1) + 1 -> State]
    <2>1. \A j \in 1 .. m + 1 : A[j] \in State
      BY <1>2, <1>3 DEF Outline
    <2>2. \A j \in 1 .. (m + 1) + 1 : B[j] \in State
      <3> HIDE DEF B
      <3> QED
        BY <1>10, <1>11, <2>1 DEF Live
    <2> QED
      BY <2>2
  <1> HIDE DEF B
  <1>13. \A j \in 1 .. (m + 1) + 1 : B[j].at # "never" => Fits(k, B[j])
    <2>1. \A j \in 1 .. m + 1 : A[j].at # "never" => Fits(k, A[j])
      BY <1>2, <1>3 DEF Outline
    <2> QED
      BY <1>10, <1>11, <2>1 DEF Live
  <1>14. Executes(k, P, o, Uses(P, x)) /\ Forgets(P, P)
    BY <1>5 DEF Executes, Pre, MutexPre, RwPre, TablePre, Follows, Forgets, Uses, Live, State
  <1>15. ASSUME NEW j \in 1 .. m + 1, B[j].at # "never"
         PROVE  /\ Executes(k, B[j], c[j], B[j + 1])
                /\ Branches(c[j]) => /\ c[j].skip \in Nat /\ j + c[j].skip + 1 <= (m + 1) + 1
                                     /\ Forgets(B[j], B[j + c[j].skip + 1])
    <2>1. CASE j = 1
      <3>1. B[j] = P /\ B[j + 1] = Uses(P, x) /\ c[j] = o
        <4>1. 1 \in 1 .. m + 1
          BY <1>3
        <4> QED
          BY <1>2, <1>8, <1>11, <2>1, <4>1
      <3>2. j + m + 1 = (m + 1) + 1 /\ m + 1 \in 1 .. m + 1
        BY <1>3, <2>1
      <3>3. B[j + m + 1] = P
        BY <1>2, <1>3, <1>11, <3>2
      <3> QED
        BY <1>3, <1>5, <1>14, <3>1, <3>2, <3>3
    <2>2. CASE j # 1
      <3>1. PICK i \in 1 .. m : j = i + 1
        <4>1. j - 1 \in 1 .. m /\ j = (j - 1) + 1
          BY <1>3, <2>2
        <4> QED
          BY <4>1
      <3>2. i \in 1 .. m + 1 /\ i + 1 \in 1 .. m + 1 /\ (i + 1) + 1 = j + 1
        BY <1>3, <3>1
      <3>3. B[j] = A[i] /\ B[j + 1] = A[i + 1] /\ c[j] = body[i]
        BY <1>8, <1>11, <3>1, <3>2
      <3>4. /\ Executes(k, A[i], body[i], A[i + 1])
            /\ Branches(body[i]) => /\ body[i].skip \in Nat /\ i + body[i].skip + 1 <= m + 1
                                    /\ Forgets(A[i], A[i + body[i].skip + 1])
        BY <1>2, <1>3, <1>15, <3>3 DEF Outline
      <3>5. ASSUME Branches(c[j])
            PROVE  /\ c[j].skip \in Nat /\ j + c[j].skip + 1 <= (m + 1) + 1
                   /\ Forgets(B[j], B[j + c[j].skip + 1])
        <4>1. PICK s \in Nat : s = c[j].skip
          BY <3>3, <3>4, <3>5
        <4>2. i + s + 1 <= m + 1
          BY <3>3, <3>4, <3>5, <4>1
        <4>0. Forgets(A[i], A[i + s + 1])
          BY <3>3, <3>4, <3>5, <4>1
        <4>3. i + s + 1 \in 1 .. m + 1 /\ (i + s + 1) + 1 = j + s + 1 /\ j + s + 1 <= (m + 1) + 1
          BY <1>3, <3>1, <4>1, <4>2
        <4>4. B[(i + s + 1) + 1] = A[i + s + 1]
          BY <1>11, <4>3
        <4> QED
          BY <3>3, <4>0, <4>1, <4>3, <4>4
      <3> QED
        BY <3>3, <3>4, <3>5
    <2> QED
      BY <2>1, <2>2
  <1>16. Outline(k, c, B)
    BY <1>8, <1>12, <1>13, <1>15 DEF Outline
  <1>17. B[(m + 1) + 1] = P
    <2>1. m + 1 \in 1 .. m + 1
      BY <1>3
    <2> QED
      BY <1>2, <1>3, <1>11, <2>1
  <1> QED
    BY <1>7, <1>8, <1>11, <1>16, <1>17 DEF Code

(* The mutex of a receiver is tried; a thread that has it already fails. *)
LEMMA CodeStatus ==
  ASSUME NEW k, NEW P, NEW x \in Lcids, Live(k, P), x \in P.inside
  PROVE  Code(k, P, Status(x), P)
  <1> DEFINE l == <<"rx", x>>
             N == IF l \in P.held THEN [P EXCEPT !.at = "never"] ELSE Holds(P, l)
  <1>1. l \in Locks /\ l[2] = x
    BY DEF Locks
  <1>2. PICK o : o = [op |-> "try", lock |-> l, skip |-> 1]
    OBVIOUS
  <1>3. PICK u : u = Op("unlock", l)
    OBVIOUS
  <1>4. o \in Instr /\ o.op = "try" /\ o.lock = l /\ o.skip = 1
    BY <1>1, <1>2 DEF Instr
  <1>5. u \in Instr /\ u.op = "unlock" /\ u.lock = l
    BY <1>1, <1>3 DEF Instr, Op
  <1>6. PICK c : c = Status(x)
    OBVIOUS
  <1>7. c \in Seq(Instr) /\ Len(c) = 2 /\ c[1] = o /\ c[2] = u
    <2>1. c = <<o>> \o <<>> \o <<u>>
      BY <1>2, <1>3, <1>6, EmptySeq DEF Status, TryWith
    <2>2. <<o>> \in Seq(Instr) /\ <<u>> \in Seq(Instr) /\ Len(<<o>>) = 1 /\ Len(<<u>>) = 1
      BY <1>4, <1>5
    <2>3. <<o>> \o <<>> = <<o>>
      BY <2>2, ConcatEmptySeq
    <2>4. c \in Seq(Instr) /\ Len(c) = 1 + 1
          /\ \A j \in 1 .. 1 + 1 : c[j] = IF j <= 1 THEN <<o>>[j] ELSE <<u>>[j - 1]
      BY <2>1, <2>2, <2>3, ConcatProperties
    <2> QED
      BY <2>4
  <1>8. /\ N \in State /\ (N.at # "never" => Fits(k, N))
        /\ Executes(k, P, o, N)
        /\ N.at # "never" => Executes(k, N, u, P)
        /\ Forgets(P, P)
    <2>1. CASE l \in P.held
      BY <1>1, <1>4, <1>5, <2>1
         DEF Executes, Pre, MutexPre, RwPre, TablePre, Forgets, Live, State
    <2>2. CASE l \notin P.held
      <3>1. /\ N \in State /\ N.held = P.held \union {l} /\ N.reads = P.reads /\ N.at = P.at
            /\ N.inside = P.inside
        BY <1>1, <2>2 DEF Holds, Live, State
      <3> HIDE DEF N, l
      <3>2. Fits(k, N)
        BY <1>1, <3>1 DEF Live, Fits
      <3>3. Executes(k, P, o, N)
        BY <1>1, <1>4, <3>1 DEF Executes, Pre, MutexPre, RwPre, TablePre, Follows
      <3>4. Executes(k, N, u, P)
        BY <1>1, <1>5, <2>2, <3>1 DEF Executes, Pre, MutexPre, RwPre, TablePre, Follows
      <3> QED
        BY <3>1, <3>2, <3>3, <3>4 DEF Forgets
    <2> QED
      BY <2>1, <2>2
  <1> HIDE DEF N, l
  <1> DEFINE A == [j \in 1 .. 3 |-> IF j = 2 THEN N ELSE P]
  <1>9. /\ A \in [1 .. 3 -> State] /\ A[1] = P /\ A[2] = N /\ A[3] = P
        /\ \A j \in 1 .. 3 : A[j].at # "never" => Fits(k, A[j])
    BY <1>8 DEF Live
  <1> HIDE DEF A
  <1>10. ASSUME NEW j \in 1 .. 2, A[j].at # "never"
         PROVE  /\ Executes(k, A[j], c[j], A[j + 1])
                /\ Branches(c[j]) => /\ c[j].skip \in Nat /\ j + c[j].skip + 1 <= 3
                                     /\ Forgets(A[j], A[j + c[j].skip + 1])
    <2>1. CASE j = 1
      BY <1>4, <1>7, <1>8, <1>9, <2>1
    <2>2. CASE j = 2
      BY <1>5, <1>7, <1>8, <1>9, <1>10, <2>2 DEF Branches
    <2> QED
      BY <2>1, <2>2
  <1>11. Outline(k, c, A)
    BY <1>7, <1>9, <1>10 DEF Outline
  <1> QED
    BY <1>6, <1>7, <1>9, <1>11 DEF Code

(* A critical section *)
LEMMA CodeWith ==
  ASSUME NEW k, NEW P, NEW l \in Locks, NEW body, Live(k, P), l[2] \in P.inside,
         NoTx(P), k = "phy" => P.held = {} /\ l[1] = "tx", l[1] = "rx" => P.held = {},
         Code(k, Holds(P, l), body, Holds(P, l))
  PROVE  Code(k, P, With(l, body), P)
  <1>1. PICK o : o = Op("lock", l)
    OBVIOUS
  <1>2. PICK u : u = Op("unlock", l)
    OBVIOUS
  <1>3. PICK N : N = Holds(P, l)
    OBVIOUS
  <1>4. o \in Instr /\ o.op = "lock" /\ o.lock = l /\ u \in Instr /\ u.op = "unlock" /\ u.lock = l
    BY <1>1, <1>2 DEF Instr, Op
  <1>5. /\ N \in State /\ N.held = P.held \union {l} /\ N.reads = P.reads /\ N.at = P.at
        /\ N.inside = P.inside
    BY <1>3 DEF Holds, Live, State
  <1>6. l \notin P.held
    BY DEF NoTx, Locks
  <1>7. Live(k, N)
    BY <1>5 DEF Live, Fits
  <1>8. Code(k, P, <<o>>, N)
    <2>1. Pre(k, P, o) /\ Follows(P, o, N) /\ ~Branches(o)
      BY <1>4, <1>5 DEF Pre, MutexPre, RwPre, TablePre, Follows, Branches
    <2> QED
      BY <1>7, <2>1, CodeOne
  <1>9. Code(k, N, <<u>>, P)
    <2>1. Pre(k, N, u) /\ Follows(N, u, P) /\ ~Branches(u)
      BY <1>4, <1>5, <1>6 DEF Pre, MutexPre, RwPre, TablePre, Follows, Branches
    <2> QED
      BY <1>7, <2>1, CodeOne
  <1>10. Code(k, P, <<o>> \o body, N)
    BY <1>3, <1>8, CodeConcat
  <1>11. Code(k, P, (<<o>> \o body) \o <<u>>, P)
    BY <1>9, <1>10, CodeConcat
  <1> QED
    BY <1>1, <1>2, <1>11 DEF With

LEMMA RwInstr ==
  ASSUME NEW r \in {"rdlock", "rdunlock", "wrlock", "wrunlock"}
  PROVE  Op(r, None) \in Instr /\ Op(r, None).op = r
  <1>1. /\ r \in {"rdlock", "rdunlock", "wrlock", "wrunlock", "lock", "unlock"}
        /\ None \in Locks \union {None}
    OBVIOUS
  <1>2. Op(r, None) \in {Op(o, l) : o \in {"rdlock", "rdunlock", "wrlock", "wrunlock", "lock", "unlock"},
                                   l \in Locks \union {None}}
    BY <1>1
  <1> QED
    BY <1>2 DEF Instr, Op

(* Reading *)
LEMMA CodeRead ==
  ASSUME NEW k, NEW P, NEW body, Live(k, P), NoTx(P), P.at = "free", k = "phy" => P.held = {},
         Code(k, Reads(P), body, Reads(P))
  PROVE  Code(k, P, RdLock \o body \o RdUnlock, P)
  <1>1. PICK o : o = Op("rdlock", None)
    OBVIOUS
  <1>2. PICK u : u = Op("rdunlock", None)
    OBVIOUS
  <1>3. PICK N : N = Reads(P)
    OBVIOUS
  <1>4. o \in Instr /\ o.op = "rdlock" /\ u \in Instr /\ u.op = "rdunlock"
    BY <1>1, <1>2, RwInstr
  <1>5. /\ N \in State /\ N.held = P.held /\ N.reads = P.reads + 1 /\ N.at = P.at
        /\ N.inside = P.inside /\ P.reads \in Nat
    BY <1>3 DEF Reads, Live, State
  <1>6. Live(k, N)
    BY <1>5 DEF Live, Fits
  <1>7. Code(k, P, <<o>>, N)
    <2>1. Pre(k, P, o) /\ Follows(P, o, N) /\ ~Branches(o)
      BY <1>4, <1>5 DEF Pre, MutexPre, RwPre, TablePre, Follows, Branches
    <2> QED
      BY <1>6, <2>1, CodeOne
  <1>8. Code(k, N, <<u>>, P)
    <2>1. Pre(k, N, u) /\ Follows(N, u, P) /\ ~Branches(u)
      BY <1>4, <1>5 DEF Pre, MutexPre, RwPre, TablePre, Follows, Branches
    <2> QED
      BY <1>6, <2>1, CodeOne
  <1>9. Code(k, P, <<o>> \o body, N)
    BY <1>3, <1>7, CodeConcat
  <1>10. Code(k, P, (<<o>> \o body) \o <<u>>, P)
    BY <1>8, <1>9, CodeConcat
  <1> QED
    BY <1>1, <1>2, <1>10 DEF RdLock, RdUnlock

(* Writing, by the stack thread when it holds nothing *)
LEMMA CodeWrite ==
  ASSUME NEW P, NEW body, Live("stack", P), P.held = {}, P.reads = 0, P.at = "free",
         Code("stack", Writes(P), body, Writes(P))
  PROVE  Code("stack", P, WrLock \o body \o WrUnlock, P)
  <1>1. PICK o : o = Op("wrlock", None)
    OBVIOUS
  <1>2. PICK u : u = Op("wrunlock", None)
    OBVIOUS
  <1>3. PICK N : N = Writes(P)
    OBVIOUS
  <1>4. o \in Instr /\ o.op = "wrlock" /\ u \in Instr /\ u.op = "wrunlock"
    BY <1>1, <1>2, RwInstr
  <1>5. /\ N \in State /\ N.held = P.held /\ N.reads = P.reads /\ N.at = "write"
        /\ N.inside = P.inside
    BY <1>3 DEF Writes, Live, State
  <1>6. Live("stack", N)
    BY <1>5 DEF Live, Fits
  <1>7. Code("stack", P, <<o>>, N)
    <2>1. Pre("stack", P, o) /\ Follows(P, o, N) /\ ~Branches(o)
      BY <1>4, <1>5 DEF Pre, MutexPre, RwPre, TablePre, Follows, Branches
    <2> QED
      BY <1>6, <2>1, CodeOne
  <1>8. Code("stack", N, <<u>>, P)
    <2>1. Pre("stack", N, u) /\ Follows(N, u, P) /\ ~Branches(u)
      BY <1>4, <1>5 DEF Pre, MutexPre, RwPre, TablePre, Follows, Branches
    <2> QED
      BY <1>6, <2>1, CodeOne
  <1>9. Code("stack", P, <<o>> \o body, N)
    BY <1>3, <1>7, CodeConcat
  <1>10. Code("stack", P, (<<o>> \o body) \o <<u>>, P)
    BY <1>8, <1>9, CodeConcat
  <1> QED
    BY <1>1, <1>2, <1>10 DEF WrLock, WrUnlock

-----------------------------------------------------------------------------
(* The methods. *)

Idle == [held |-> {}, reads |-> 0, at |-> "free", inside |-> {}]

LEMMA IdleLive == \A k : Live(k, Idle) /\ NoTx(Idle)
  BY DEF Idle, Live, State, Fits, NoTx

LEMMA UsesLive ==
  ASSUME NEW k, NEW P, Live(k, P), NEW x \in Lcids, k = "phy" => P.reads > 0
  PROVE  /\ Live(k, Uses(P, x)) /\ Forgets(Uses(P, x), P) /\ x \in Uses(P, x).inside
         /\ Uses(P, x).held = P.held /\ Uses(P, x).reads = P.reads /\ Uses(P, x).at = P.at
         /\ Uses(P, x).inside = P.inside \union {x}
  <1>1. PICK N : N = Uses(P, x)
    OBVIOUS
  <1>2. /\ N \in State /\ N.held = P.held /\ N.reads = P.reads /\ N.at = P.at
        /\ N.inside = P.inside \union {x}
    BY <1>1 DEF Uses, Live, State
  <1>3. Live(k, N) /\ Forgets(N, P) /\ x \in N.inside
    BY <1>2 DEF Live, Fits, Forgets
  <1> QED
    BY <1>1, <1>2, <1>3

LEMMA HoldsLive ==
  ASSUME NEW k, NEW P, Live(k, P), NEW l \in Locks, l[2] \in P.inside
  PROVE  /\ Live(k, Holds(P, l)) /\ Holds(P, l).inside = P.inside /\ Holds(P, l).at = P.at
         /\ Holds(P, l).held = P.held \union {l}
  <1>1. PICK N : N = Holds(P, l)
    OBVIOUS
  <1>2. /\ N \in State /\ N.held = P.held \union {l} /\ N.reads = P.reads /\ N.at = P.at
        /\ N.inside = P.inside
    BY <1>1 DEF Holds, Live, State
  <1>3. Live(k, N)
    BY <1>2 DEF Live, Fits
  <1> QED
    BY <1>1, <1>2, <1>3

LEMMA ReadsLive ==
  ASSUME NEW k, NEW P, Live(k, P)
  PROVE  /\ Live(k, Reads(P)) /\ Reads(P).inside = P.inside /\ Reads(P).at = P.at
         /\ Reads(P).held = P.held /\ Reads(P).reads > 0
  <1>1. PICK N : N = Reads(P)
    OBVIOUS
  <1>2. /\ N \in State /\ N.held = P.held /\ N.reads = P.reads + 1 /\ N.at = P.at
        /\ N.inside = P.inside /\ P.reads \in Nat
    BY <1>1 DEF Reads, Live, State
  <1>3. Live(k, N) /\ N.reads > 0
    BY <1>2 DEF Live, Fits
  <1> QED
    BY <1>1, <1>2, <1>3

LEMMA LockTypes ==
  ASSUME NEW x \in Lcids
  PROVE  /\ \E l \in Locks : l = <<"tx", x>> /\ l[1] = "tx" /\ l[2] = x
         /\ \E l \in Locks : l = <<"rx", x>> /\ l[1] = "rx" /\ l[2] = x
  <1>1. <<"tx", x>> \in Locks /\ <<"rx", x>> \in Locks
    BY DEF Locks
  <1> QED
    BY <1>1

LEMMA WithNonEmpty ==
  ASSUME NEW l \in Locks, NEW body \in Seq(Instr)
  PROVE  With(l, body) \in Seq(Instr) /\ With(l, body) # <<>>
  <1>1. PICK o : o = Op("lock", l)
    OBVIOUS
  <1>2. PICK u : u = Op("unlock", l)
    OBVIOUS
  <1>3. o \in Instr /\ u \in Instr
    BY <1>1, <1>2 DEF Instr, Op
  <1>4. <<o>> \in Seq(Instr) /\ <<u>> \in Seq(Instr) /\ <<u>> # <<>>
    BY <1>3
  <1>5. <<o>> \o body \in Seq(Instr)
    BY <1>4, ConcatProperties
  <1>6. (<<o>> \o body) \o <<u>> \in Seq(Instr) /\ (<<o>> \o body) \o <<u>> # <<>>
    BY <1>4, <1>5, ConcatProperties, ConcatEqualIffEmpty
  <1> QED
    BY <1>1, <1>2, <1>6 DEF With

(* valid_lcid before a body that keeps the bearer *)
LEMMA CodeIfKeeps ==
  ASSUME NEW k, NEW P, NEW x \in Lcids, NEW body, Live(k, P), k = "phy" => P.reads > 0,
         Code(k, Uses(P, x), body, Uses(P, x)), body # <<>>
  PROVE  Code(k, P, If(x, body), P)
  <1>1. Code(k, Uses(P, x), body, P)
    BY UsesLive, CodeForgets
  <1> QED
    BY <1>1, CodeIf

(* A critical section of a transmitter in which the receiver may be tried *)
LEMMA SectionCode ==
  ASSUME NEW k, NEW P, NEW x \in Lcids, Live(k, P), x \in P.inside, NoTx(P), k = "phy" => P.held = {}
  PROVE  /\ Code(k, P, AmReadPdu(x), P) /\ Code(k, P, AmBufferState(x), P)
         /\ Code(k, P, AmWriteSdu(x), P) /\ Code(k, P, HandleControlPdu(x), P)
         /\ AmReadPdu(x) # <<>> /\ AmBufferState(x) # <<>>
         /\ AmWriteSdu(x) # <<>> /\ HandleControlPdu(x) # <<>>
  <1>1. PICK l \in Locks : l = <<"tx", x>> /\ l[1] = "tx" /\ l[2] = x
    BY LockTypes
  <1>2. Live(k, Holds(P, l)) /\ x \in Holds(P, l).inside
    BY <1>1, HoldsLive
  <1>3. Code(k, Holds(P, l), Status(x), Holds(P, l)) /\ Code(k, Holds(P, l), <<>>, Holds(P, l))
    BY <1>2, CodeStatus, CodeEmpty
  <1>4. Code(k, P, With(l, Status(x)), P)
    BY <1>1, <1>3, CodeWith
  <1>5. Code(k, P, With(l, <<>>), P)
    BY <1>1, <1>3, CodeWith
  <1>6. With(l, Status(x)) # <<>> /\ With(l, <<>>) # <<>>
    BY <1>3, WithNonEmpty DEF Code
  <1> QED
    BY <1>1, <1>4, <1>5, <1>6 DEF AmReadPdu, AmBufferState, AmWriteSdu, HandleControlPdu

LEMMA BufferStateCode ==
  ASSUME NEW k, NEW P, NEW x \in Lcids, Live(k, P), NoTx(P), P.at = "free", k = "phy" => P.held = {}
  PROVE  Code(k, P, get_buffer_state(x), P)
  <1>1. PICK N : N = Reads(P)
    OBVIOUS
  <1>2. Live(k, N) /\ N.held = P.held /\ N.reads > 0
    BY <1>1, ReadsLive
  <1>3. PICK U : U = Uses(N, x)
    OBVIOUS
  <1>4. Live(k, U) /\ x \in U.inside /\ U.held = P.held
    BY <1>2, <1>3, UsesLive
  <1>5. Code(k, U, AmBufferState(x), U) /\ AmBufferState(x) # <<>>
    BY <1>4, SectionCode DEF NoTx
  <1>6. Code(k, N, If(x, AmBufferState(x)), N)
    BY <1>2, <1>3, <1>5, CodeIfKeeps
  <1> QED
    BY <1>1, <1>6, CodeRead DEF get_buffer_state

LEMMA UpdateBsrCode ==
  ASSUME NEW k, NEW P, NEW x \in Lcids, Live(k, P), NoTx(P), P.at = "free", k = "phy" => P.held = {}
  PROVE  Code(k, P, update_bsr(x), P)
  <1>1. CASE HasBsr
    BY <1>1, BufferStateCode DEF update_bsr
  <1>2. CASE ~HasBsr
    BY <1>2, CodeEmpty DEF update_bsr
  <1> QED
    BY <1>1, <1>2

(* The body of a method and the callback behind it *)
LEMMA ThenBsr ==
  ASSUME NEW k, NEW P, NEW x \in Lcids, NEW body, Live(k, P), NoTx(P), P.at = "free",
         k = "phy" => P.held = {}, Code(k, P, body, P), body # <<>>
  PROVE  Code(k, P, body \o update_bsr(x), P) /\ body \o update_bsr(x) # <<>>
  <1>1. Code(k, P, update_bsr(x), P)
    BY UpdateBsrCode
  <1>2. body \in Seq(Instr) /\ update_bsr(x) \in Seq(Instr)
    BY <1>1 DEF Code
  <1>3. body \o update_bsr(x) # <<>>
    BY <1>2, ConcatEqualIffEmpty
  <1> QED
    BY <1>1, <1>3, CodeConcat

LEMMA ReadPduCode ==
  ASSUME NEW x \in Lcids
  PROVE  Code("phy", Idle, read_pdu(x), Idle) /\ Code("phy", Idle, get_buffer_state(x), Idle)
  <1>1. PICK N : N = Reads(Idle)
    OBVIOUS
  <1>2. Live("phy", Idle) /\ NoTx(Idle) /\ Idle.at = "free" /\ Idle.held = {}
    BY IdleLive DEF Idle
  <1>3. Live("phy", N) /\ N.held = {} /\ N.reads > 0 /\ N.at = "free"
    BY <1>1, <1>2, ReadsLive
  <1>4. PICK U : U = Uses(N, x)
    OBVIOUS
  <1>5. Live("phy", U) /\ x \in U.inside /\ U.held = {} /\ U.at = "free"
    BY <1>3, <1>4, UsesLive
  <1>6. Code("phy", U, AmReadPdu(x), U) /\ AmReadPdu(x) # <<>>
    BY <1>5, SectionCode DEF NoTx
  <1>7. Code("phy", U, AmReadPdu(x) \o update_bsr(x), U) /\ AmReadPdu(x) \o update_bsr(x) # <<>>
    BY <1>5, <1>6, ThenBsr DEF NoTx
  <1>8. Code("phy", N, If(x, AmReadPdu(x) \o update_bsr(x)), N)
    BY <1>3, <1>4, <1>7, CodeIfKeeps
  <1> QED
    BY <1>1, <1>2, <1>8, CodeRead, BufferStateCode DEF read_pdu

(* Also in the middle of a delivery, with the mutex of the receiver *)
LEMMA WriteSduCode ==
  ASSUME NEW P, NEW x \in Lcids, Live("stack", P), NoTx(P), P.at = "free"
  PROVE  Code("stack", P, write_sdu(x), P)
  <1>1. PICK U : U = Uses(P, x)
    OBVIOUS
  <1>2. Live("stack", U) /\ x \in U.inside /\ U.held = P.held /\ U.at = "free"
    BY <1>1, UsesLive
  <1>3. Code("stack", U, AmWriteSdu(x), U) /\ AmWriteSdu(x) # <<>>
    BY <1>2, SectionCode DEF NoTx
  <1>4. Code("stack", U, AmWriteSdu(x) \o update_bsr(x), U) /\ AmWriteSdu(x) \o update_bsr(x) # <<>>
    BY <1>2, <1>3, ThenBsr DEF NoTx
  <1> QED
    BY <1>1, <1>4, CodeIfKeeps DEF write_sdu

LEMMA DataPduCode ==
  ASSUME NEW P, NEW x \in Lcids, Live("stack", P), P.held = {}, P.at = "free", x \in P.inside
  PROVE  Code("stack", P, HandleDataPdu(x), P) /\ HandleDataPdu(x) # <<>>
  <1>1. PICK l \in Locks : l = <<"rx", x>> /\ l[1] = "rx" /\ l[2] = x
    BY LockTypes
  <1>2. PICK N : N = Holds(P, l)
    OBVIOUS
  <1>3. Live("stack", N) /\ N.at = "free" /\ N.held = {l}
    BY <1>1, <1>2, HoldsLive
  <1>4. PICK o : o = [op |-> "deliver", lcid |-> x]
    OBVIOUS
  <1>5. o \in Instr /\ o.op = "deliver" /\ o.lcid = x
    BY <1>4 DEF Instr
  <1>6. Pre("stack", N, o) /\ Follows(N, o, N) /\ ~Branches(o)
    BY <1>1, <1>3, <1>5 DEF Pre, MutexPre, RwPre, TablePre, Follows, Branches, NoTx
  <1>7. Code("stack", N, <<o>>, N)
    BY <1>3, <1>6, CodeOne
  <1>8. Code("stack", P, With(l, <<o>>), P)
    BY <1>1, <1>2, <1>7, CodeWith DEF NoTx
  <1>9. With(l, <<o>>) # <<>>
    BY <1>7, WithNonEmpty DEF Code
  <1> QED
    BY <1>1, <1>4, <1>8, <1>9 DEF HandleDataPdu

LEMMA WritePduCode ==
  ASSUME NEW x \in Lcids, NEW m \in write_pdu(x)
  PROVE  Code("stack", Idle, m, Idle)
  <1>1. PICK U : U = Uses(Idle, x)
    OBVIOUS
  <1>2. Live("stack", Idle) /\ Idle.held = {} /\ Idle.at = "free"
    BY IdleLive DEF Idle
  <1>3. Live("stack", U) /\ x \in U.inside /\ U.held = {} /\ U.at = "free" /\ NoTx(U)
    BY <1>1, <1>2, UsesLive DEF NoTx
  <1>4. PICK body \in {HandleControlPdu(x), HandleDataPdu(x)} : m = If(x, body \o update_bsr(x))
    BY DEF write_pdu
  <1>5. Code("stack", U, body, U) /\ body # <<>>
    BY <1>3, <1>4, SectionCode, DataPduCode
  <1>6. Code("stack", U, body \o update_bsr(x), U) /\ body \o update_bsr(x) # <<>>
    BY <1>3, <1>5, ThenBsr
  <1> QED
    BY <1>1, <1>2, <1>4, <1>6, CodeIfKeeps

LEMMA ReestablishCode ==
  ASSUME NEW P, NEW x \in Lcids, Live("stack", P), P.held = {}, x \in P.inside
  PROVE  Code("stack", P, AmReestablish(x), P) /\ AmReestablish(x) # <<>>
  <1>1. PICK l \in Locks : l = <<"tx", x>> /\ l[1] = "tx" /\ l[2] = x
    BY LockTypes
  <1>2. PICK r \in Locks : r = <<"rx", x>> /\ r[1] = "rx" /\ r[2] = x
    BY LockTypes
  <1>3. Live("stack", Holds(P, l)) /\ Live("stack", Holds(P, r)) /\ NoTx(P)
    BY <1>1, <1>2, HoldsLive DEF NoTx
  <1>4. Code("stack", Holds(P, l), <<>>, Holds(P, l)) /\ Code("stack", Holds(P, r), <<>>, Holds(P, r))
    BY <1>3, CodeEmpty
  <1>5. Code("stack", P, With(l, <<>>), P)
    BY <1>1, <1>3, <1>4, CodeWith
  <1>6. Code("stack", P, With(r, <<>>), P)
    BY <1>2, <1>3, <1>4, CodeWith
  <1>7. Code("stack", P, With(l, <<>>) \o With(r, <<>>), P)
    BY <1>5, <1>6, CodeConcat
  <1>8. With(l, <<>>) # <<>>
    BY <1>4, WithNonEmpty DEF Code
  <1>9. With(l, <<>>) \o With(r, <<>>) # <<>>
    BY <1>5, <1>6, <1>8, ConcatEqualIffEmpty DEF Code
  <1> QED
    BY <1>1, <1>2, <1>7, <1>9 DEF AmReestablish

LEMMA DeferredCode ==
  ASSUME NEW d \in Deferred
  PROVE  Code("stack", Idle, d, Idle)
  <1>1. Live("stack", Idle) /\ Idle.held = {} /\ Idle.at = "free" /\ Idle.reads = 0 /\ Idle.inside = {}
    BY IdleLive DEF Idle
  <1>2. PICK W : W = Writes(Idle)
    OBVIOUS
  <1>3. Live("stack", W) /\ W.held = {} /\ W.at = "write" /\ W.reads = 0 /\ W.inside = {}
    BY <1>2 DEF Writes, Idle, Live, State, Fits
  <1>4. ASSUME NEW x \in Lcids PROVE Code("stack", Idle, add_bearer(x), Idle)
    <2>1. PICK o : o = [op |-> "emplace", lcid |-> x]
      OBVIOUS
    <2>2. o \in Instr /\ o.op = "emplace" /\ o.lcid = x
      BY <2>1 DEF Instr
    <2>3. Pre("stack", W, o) /\ Follows(W, o, W) /\ ~Branches(o)
      BY <2>2 DEF Pre, MutexPre, RwPre, TablePre, Follows, Branches
    <2>4. Code("stack", W, <<o>>, W)
      BY <1>3, <2>3, CodeOne
    <2> QED
      BY <1>1, <1>2, <2>1, <2>4, CodeWrite DEF add_bearer
  <1>5. ASSUME NEW x \in Lcids PROVE Code("stack", Idle, del_bearer(x), Idle)
    <2>1. PICK o : o = [op |-> "erase", lcid |-> x]
      OBVIOUS
    <2>2. o \in Instr /\ o.op = "erase" /\ o.lcid = x
      BY <2>1 DEF Instr
    <2>3. PICK U : U = Uses(W, x)
      OBVIOUS
    <2>4. Live("stack", U) /\ U.held = {} /\ U.at = "write" /\ U.reads = 0 /\ U.inside = {x}
      BY <1>3, <2>3, UsesLive
    <2>5. Pre("stack", U, o) /\ Follows(U, o, W) /\ ~Branches(o)
      BY <1>3, <2>2, <2>4 DEF Pre, MutexPre, RwPre, TablePre, Follows, Branches
    <2>6. Code("stack", U, <<o>>, W)
      BY <1>3, <2>4, <2>5, CodeOne
    <2>7. Code("stack", U, AmReestablish(x), U)
      BY <2>4, ReestablishCode
    <2>8. Code("stack", U, AmReestablish(x) \o <<o>>, W)
      BY <2>6, <2>7, CodeConcat
    <2>9. Code("stack", W, If(x, AmReestablish(x) \o <<o>>), W)
      BY <1>3, <2>3, <2>8, CodeIf
    <2> QED
      BY <1>1, <1>2, <2>1, <2>9, CodeWrite DEF del_bearer
  <1>6. ASSUME NEW x \in Lcids PROVE Code("stack", Idle, reestablish(x), Idle)
    <2>1. PICK U : U = Uses(Idle, x)
      OBVIOUS
    <2>2. Live("stack", U) /\ U.held = {} /\ x \in U.inside
      BY <1>1, <2>1, UsesLive
    <2>3. Code("stack", U, AmReestablish(x), U) /\ AmReestablish(x) # <<>>
      BY <2>2, ReestablishCode
    <2> QED
      BY <1>1, <2>1, <2>3, CodeIfKeeps DEF reestablish
  <1> QED
    BY <1>4, <1>5, <1>6 DEF Deferred

-----------------------------------------------------------------------------
(* The inductive invariant. *)

MuxTypes ==
  /\ rlc_array \in SUBSET Lcids
  /\ readers \in [Thread -> Nat]
  /\ writer \in Thread \union {None}
  /\ mutex \in [Locks -> Thread \union {None}]
  /\ call \in [Thread -> Seq(Instr)]
  /\ tasks \in Seq(Deferred)

(* P is what thread t has. *)
Has(t, P) ==
  /\ P.held = {l \in Locks : mutex[l] = t}
  /\ P.reads = readers[t]
  /\ P.at = "write" <=> writer = t
  /\ P.inside \subseteq rlc_array

(* From what it has, thread t gets to the end of its call. *)
Outlined(t) == \E P : Live(Kind(t), P) /\ Has(t, P) /\ Code(Kind(t), P, call[t], Idle)

WriterExcludes == writer # None => \A t \in Thread : readers[t] = 0

MuxInv == MuxTypes /\ WriterExcludes /\ \A t \in Thread : Outlined(t)

-----------------------------------------------------------------------------
(* The steps. *)

LEMMA ThreadNames ==
  /\ None \notin Thread /\ Stack \in Thread /\ None # Stack
  /\ \A t \in Thread : Kind(t) = "phy" <=> t # Stack
  /\ \A t \in Thread : Kind(t) = "stack" <=> t = Stack
  /\ \A t \in Phy : t \in Thread /\ Kind(t) = "phy"
  BY MuxAssumption DEF Thread, None, Stack, Kind

LEMMA CodeEnds ==
  ASSUME NEW k, NEW P, NEW Q, Code(k, P, <<>>, Q)
  PROVE  P = Q
  <1>1. PICK A : A[1] = P /\ A[Len(<<>>) + 1] = Q
    BY DEF Code
  <1>2. Len(<<>>) + 1 = 1
    BY EmptySeq
  <1> QED
    BY <1>1, <1>2

(* A step of thread t leaves what the others have alone: no bearer is deleted but
   under the write lock, when nobody else is inside one.                    *)
LEMMA OthersKeep ==
  ASSUME MuxInv, NEW t \in Thread, MuxTypes', WriterExcludes', Outlined(t)',
         \A u \in Thread : u # t =>
           /\ call'[u] = call[u] /\ readers'[u] = readers[u]
           /\ writer' = u <=> writer = u
           /\ \A l \in Locks : mutex'[l] = u <=> mutex[l] = u
           /\ rlc_array \subseteq rlc_array' \/ (Kind(u) = "phy" /\ readers[u] = 0)
  PROVE  MuxInv'
  <1>1. ASSUME NEW u \in Thread, u # t PROVE Outlined(u)'
    <2>1. PICK P : Live(Kind(u), P) /\ Has(u, P) /\ Code(Kind(u), P, call[u], Idle)
      BY DEF MuxInv, Outlined
    <2>2. P.inside \subseteq rlc_array'
      <3>1. CASE Kind(u) = "phy" /\ readers[u] = 0
        BY <2>1, <3>1 DEF Live, Fits, Has
      <3> QED
        BY <1>1, <2>1, <3>1 DEF Has
    <2>3. {l \in Locks : mutex'[l] = u} = {l \in Locks : mutex[l] = u}
      BY <1>1
    <2>4. Has(u, P)'
      BY <1>1, <2>1, <2>2, <2>3 DEF Has
    <2> QED
      BY <1>1, <2>1, <2>4 DEF Outlined
  <1> QED
    BY <1>1 DEF MuxInv

(* What a thread at work has, and what the discipline says *)
LEMMA AtWork ==
  ASSUME MuxInv, NEW t \in Thread, call[t] # <<>>
  PROVE  \E P : /\ Live(Kind(t), P) /\ Has(t, P) /\ Code(Kind(t), P, call[t], Idle)
                /\ Pre(Kind(t), P, Here(t)) /\ Here(t) \in Instr
  <1>1. PICK P : Live(Kind(t), P) /\ Has(t, P) /\ Code(Kind(t), P, call[t], Idle)
    BY DEF MuxInv, Outlined
  <1>2. Pre(Kind(t), P, Here(t))
    BY <1>1, CodePre DEF Here
  <1> QED
    BY <1>1, <1>2 DEF Pre

LEMMA RwStepInv ==
  ASSUME MuxInv, NEW t \in Thread, call[t] # <<>>, RwStep(t)
  PROVE  MuxInv'
  <1>1. PICK P : /\ Live(Kind(t), P) /\ Has(t, P) /\ Code(Kind(t), P, call[t], Idle)
                 /\ Pre(Kind(t), P, Here(t)) /\ Here(t) \in Instr
    BY AtWork
  <1>2. Here(t).op \in {"rdlock", "rdunlock", "wrlock", "wrunlock"}
    BY DEF RwStep
  <1>3. PICK R : Live(Kind(t), R) /\ Follows(P, Here(t), R) /\ Code(Kind(t), R, Tail(call[t]), Idle)
    BY <1>1, <1>2, CodeFirst DEF Here
  <1>4. MuxTypes
    BY DEF MuxInv
  <1>5. /\ call' = [call EXCEPT ![t] = Tail(call[t])] /\ Tail(call[t]) \in Seq(Instr)
        /\ UNCHANGED <<rlc_array, mutex, tasks>>
    BY <1>3 DEF RwStep, GoesOn, Goes, Code
  <1>6. /\ call' \in [Thread -> Seq(Instr)] /\ call'[t] = Tail(call[t])
        /\ \A u \in Thread : u # t => call'[u] = call[u]
    BY <1>4, <1>5 DEF MuxTypes
  <1>7. /\ R.held = P.held /\ R.inside \subseteq P.inside
    BY <1>2, <1>3 DEF Follows
  <1>8. P.reads \in Nat /\ P.reads = readers[t] /\ (P.at = "write" <=> writer = t)
    BY <1>1 DEF Live, State, Has
  <1>9. /\ readers' \in [Thread -> Nat] /\ writer' \in Thread \union {None}
        /\ R.reads = readers'[t] /\ (R.at = "write" <=> writer' = t)
        /\ \A u \in Thread : u # t => readers'[u] = readers[u] /\ (writer' = u <=> writer = u)
        /\ WriterExcludes'
    <2>1. CASE /\ Here(t).op = "rdlock" /\ CanRead(t)
               /\ readers' = [readers EXCEPT ![t] = @ + 1] /\ UNCHANGED writer
      <3>1. R.reads = P.reads + 1 /\ R.at = P.at
        BY <1>3, <2>1 DEF Follows
      <3> QED
        BY <1>4, <1>8, <2>1, <3>1 DEF MuxTypes, CanRead, WriterExcludes
    <2>2. CASE Here(t).op = "rdunlock" /\ readers' = [readers EXCEPT ![t] = @ - 1] /\ UNCHANGED writer
      <3>1. R.reads = P.reads - 1 /\ R.at = P.at /\ P.reads > 0
        BY <1>1, <1>3, <2>2 DEF Follows, Pre, RwPre
      <3>2. writer = None
        BY <1>8, <3>1 DEF MuxInv, WriterExcludes
      <3> QED
        BY <1>4, <1>8, <2>2, <3>1, <3>2 DEF MuxTypes, WriterExcludes
    <2>3. CASE Here(t).op = "wrlock" /\ CanWrite(t) /\ writer' = t /\ UNCHANGED readers
      <3>1. R.reads = P.reads /\ R.at = "write"
        BY <1>3, <2>3 DEF Follows
      <3> QED
        BY <1>4, <1>8, <2>3, <3>1, ThreadNames DEF MuxTypes, CanWrite, WriterExcludes
    <2>4. CASE Here(t).op = "wrunlock" /\ writer' = None /\ UNCHANGED readers
      <3>1. R.reads = P.reads /\ R.at = "free" /\ P.at = "write"
        BY <1>1, <1>3, <2>4 DEF Follows, Pre, RwPre
      <3> QED
        BY <1>4, <1>8, <2>4, <3>1, ThreadNames DEF MuxTypes, WriterExcludes
    <2> QED
      BY <2>1, <2>2, <2>3, <2>4 DEF RwStep
  <1>10. MuxTypes'
    BY <1>4, <1>5, <1>6, <1>9 DEF MuxTypes
  <1>11. Outlined(t)'
    <2>1. Has(t, R)'
      BY <1>1, <1>5, <1>7, <1>9 DEF Has
    <2> QED
      BY <1>3, <1>6, <2>1 DEF Outlined
  <1> QED
    BY <1>5, <1>6, <1>9, <1>10, <1>11, OthersKeep

LEMMA MutexStepInv ==
  ASSUME MuxInv, NEW t \in Thread, call[t] # <<>>, MutexStep(t)
  PROVE  MuxInv'
  <1>1. PICK P : /\ Live(Kind(t), P) /\ Has(t, P) /\ Code(Kind(t), P, call[t], Idle)
                 /\ Pre(Kind(t), P, Here(t)) /\ Here(t) \in Instr
    BY AtWork
  <1>2. Here(t).op \in {"lock", "try", "unlock"}
    BY DEF MutexStep
  <1>3. PICK l \in Locks : l = Here(t).lock /\ (Here(t).op = "unlock" => l \in P.held)
    BY <1>1, <1>2 DEF Pre, MutexPre
  <1>4. MuxTypes /\ UNCHANGED <<rlc_array, readers, writer, tasks>>
    BY DEF MuxInv, MutexStep
  <1>5. WriterExcludes'
    BY <1>4 DEF MuxInv, WriterExcludes
  <1>6. PICK R, c : /\ Live(Kind(t), R) /\ Code(Kind(t), R, c, Idle) /\ Goes(t, c)
                    /\ R.reads = P.reads /\ R.at = P.at /\ R.inside \subseteq P.inside
                    /\ mutex' \in [Locks -> Thread \union {None}]
                    /\ R.held = {m \in Locks : mutex'[m] = t}
                    /\ \A u \in Thread : u # t => \A m \in Locks : mutex'[m] = u <=> mutex[m] = u
    <2>0. /\ P.held = {m \in Locks : mutex[m] = t}
          /\ mutex \in [Locks -> Thread \union {None}] /\ None \notin Thread
      BY <1>1, <1>4, ThreadNames DEF Has, MuxTypes
    <2>1. CASE /\ Here(t).op \in {"lock", "try"} /\ mutex[l] = None
               /\ mutex' = [mutex EXCEPT ![l] = t] /\ GoesOn(t)
      <3>1. l \notin P.held
        BY <2>0, <2>1
      <3>2. PICK R : Live(Kind(t), R) /\ Follows(P, Here(t), R) /\ Code(Kind(t), R, Tail(call[t]), Idle)
        BY <1>1, <1>3, <3>1, CodeFirst DEF Here
      <3>3. /\ R.held = P.held \union {l} /\ R.reads = P.reads
            /\ R.at = P.at /\ R.inside \subseteq P.inside
        BY <1>3, <2>1, <3>2 DEF Follows
      <3>4. R.held = {m \in Locks : mutex'[m] = t}
        BY <2>0, <2>1, <3>3
      <3>5. \A u \in Thread : u # t => \A m \in Locks : mutex'[m] = u <=> mutex[m] = u
        BY <2>0, <2>1
      <3>6. mutex' \in [Locks -> Thread \union {None}]
        BY <2>0, <2>1
      <3> QED
        BY <2>1, <3>2, <3>3, <3>4, <3>5, <3>6 DEF GoesOn
    <2>2. CASE Here(t).op = "try" /\ mutex[l] # None /\ Skips(t, Here(t).skip) /\ UNCHANGED mutex
      <3>1. PICK R : /\ Live(Kind(t), R) /\ Forgets(P, R)
                     /\ Code(Kind(t), R, SubSeq(call[t], Here(t).skip + 2, Len(call[t])), Idle)
        BY <1>1, <2>2, CodeSkip DEF Here, Branches
      <3> QED
        BY <2>0, <2>2, <3>1 DEF Skips, Forgets
    <2>3. CASE Here(t).op = "unlock" /\ mutex' = [mutex EXCEPT ![l] = None] /\ GoesOn(t)
      <3>1. PICK R : Live(Kind(t), R) /\ Follows(P, Here(t), R) /\ Code(Kind(t), R, Tail(call[t]), Idle)
        BY <1>1, <2>3, CodeFirst DEF Here
      <3>2. /\ R.held = P.held \ {l} /\ R.reads = P.reads /\ R.at = P.at /\ R.inside \subseteq P.inside
        BY <1>3, <2>3, <3>1 DEF Follows
      <3>3. mutex[l] = t
        BY <1>3, <2>0, <2>3
      <3>4. R.held = {m \in Locks : mutex'[m] = t}
        BY <2>0, <2>3, <3>2
      <3>5. \A u \in Thread : u # t => \A m \in Locks : mutex'[m] = u <=> mutex[m] = u
        BY <2>0, <2>3, <3>3
      <3>6. mutex' \in [Locks -> Thread \union {None}]
        BY <2>0, <2>3
      <3> QED
        BY <2>3, <3>1, <3>2, <3>4, <3>5, <3>6 DEF GoesOn
    <2> QED
      BY <1>3, <2>1, <2>2, <2>3 DEF MutexStep
  <1>7. call' = [call EXCEPT ![t] = c] /\ c \in Seq(Instr)
    BY <1>6 DEF Goes, Code
  <1>8. /\ call' \in [Thread -> Seq(Instr)] /\ call'[t] = c
        /\ \A u \in Thread : u # t => call'[u] = call[u]
    BY <1>4, <1>7 DEF MuxTypes
  <1>9. MuxTypes'
    BY <1>4, <1>6, <1>8 DEF MuxTypes
  <1>10. Outlined(t)'
    <2>1. Has(t, R)'
      BY <1>1, <1>4, <1>6 DEF Has
    <2> QED
      BY <1>6, <1>8, <2>1 DEF Outlined
  <1> QED
    BY <1>4, <1>5, <1>6, <1>8, <1>9, <1>10, OthersKeep

(* A step that leaves the locks alone *)
LEMMA NoLockStep ==
  ASSUME MuxInv, NEW t \in Thread, NEW P, Has(t, P), NEW R, NEW c,
         Live(Kind(t), R), Code(Kind(t), R, c, Idle), Goes(t, c),
         R.held = P.held, R.reads = P.reads, R.at = P.at, R.inside \subseteq rlc_array',
         rlc_array' \in SUBSET Lcids, tasks' \in Seq(Deferred),
         \/ rlc_array \subseteq rlc_array'
         \/ \A u \in Thread : u # t => Kind(u) = "phy" /\ readers[u] = 0,
         UNCHANGED <<readers, writer, mutex>>
  PROVE  MuxInv'
  <1>1. MuxTypes
    BY DEF MuxInv
  <1>2. call' = [call EXCEPT ![t] = c] /\ c \in Seq(Instr)
    BY DEF Goes, Code
  <1>3. /\ call' \in [Thread -> Seq(Instr)] /\ call'[t] = c
        /\ \A u \in Thread : u # t => call'[u] = call[u]
    BY <1>1, <1>2 DEF MuxTypes
  <1>4. MuxTypes' /\ WriterExcludes'
    BY <1>1, <1>3 DEF MuxInv, MuxTypes, WriterExcludes
  <1>5. Has(t, R)'
    BY DEF Has
  <1>6. Outlined(t)'
    BY <1>3, <1>5 DEF Outlined
  <1> QED
    BY <1>3, <1>4, <1>6, OthersKeep

LEMMA TableStepInv ==
  ASSUME MuxInv, NEW t \in Thread, call[t] # <<>>, TableStep(t)
  PROVE  MuxInv'
  <1>1. PICK P : /\ Live(Kind(t), P) /\ Has(t, P) /\ Code(Kind(t), P, call[t], Idle)
                 /\ Pre(Kind(t), P, Here(t)) /\ Here(t) \in Instr
    BY AtWork
  <1>2. /\ Here(t).op \in {"valid_lcid", "emplace", "erase"}
        /\ UNCHANGED <<readers, writer, mutex, tasks>>
    BY DEF TableStep
  <1>3. rlc_array \in SUBSET Lcids /\ tasks \in Seq(Deferred) /\ Here(t).lcid \in Lcids
    BY <1>1, <1>2 DEF MuxInv, MuxTypes, Pre, TablePre
  <1>4. P.inside \subseteq rlc_array
    BY <1>1 DEF Has
  <1>5. PICK R : Live(Kind(t), R) /\ Follows(P, Here(t), R) /\ Code(Kind(t), R, Tail(call[t]), Idle)
    BY <1>1, <1>2, CodeFirst DEF Here
  <1>6. R.held = P.held /\ R.reads = P.reads /\ R.at = P.at
    BY <1>2, <1>5 DEF Follows
  <1>7. CASE Here(t).op = "valid_lcid"
    <2>1. UNCHANGED rlc_array
      BY <1>7 DEF TableStep
    <2>2. CASE Here(t).lcid \in rlc_array
      <3>1. Goes(t, SubSeq(call[t], 0 + 2, Len(call[t])))
        BY <1>7, <2>2 DEF TableStep, Skips
      <3>2. SubSeq(call[t], 0 + 2, Len(call[t])) = Tail(call[t])
        BY TailIsSubSeq DEF MuxInv, MuxTypes
      <3>3. Goes(t, Tail(call[t]))
        BY <3>1, <3>2
      <3>4. R.inside \subseteq rlc_array'
        BY <1>4, <1>5, <1>7, <2>1, <2>2 DEF Follows
      <3> QED
        BY <1>1, <1>2, <1>3, <1>5, <1>6, <2>1, <3>3, <3>4, NoLockStep
    <2>3. CASE Here(t).lcid \notin rlc_array
      <3>1. Goes(t, SubSeq(call[t], Here(t).skip + 2, Len(call[t])))
        BY <1>7, <2>3 DEF TableStep, Skips
      <3>2. PICK S : /\ Live(Kind(t), S) /\ Forgets(P, S)
                     /\ Code(Kind(t), S, SubSeq(call[t], Here(t).skip + 2, Len(call[t])), Idle)
        BY <1>1, <1>7, CodeSkip DEF Here, Branches
      <3>3. S.held = P.held /\ S.reads = P.reads /\ S.at = P.at /\ S.inside \subseteq rlc_array'
        BY <1>4, <2>1, <3>2 DEF Forgets
      <3> QED
        BY <1>1, <1>2, <1>3, <2>1, <3>1, <3>2, <3>3, NoLockStep
    <2> QED
      BY <2>2, <2>3
  <1>8. CASE Here(t).op = "emplace"
    <2>1. rlc_array' = rlc_array \union {Here(t).lcid} /\ Goes(t, Tail(call[t]))
      BY <1>8 DEF TableStep, GoesOn
    <2>2. R.inside \subseteq rlc_array' /\ rlc_array \subseteq rlc_array' /\ rlc_array' \in SUBSET Lcids
      BY <1>3, <1>4, <1>5, <1>8, <2>1 DEF Follows
    <2> QED
      BY <1>1, <1>2, <1>3, <1>5, <1>6, <2>1, <2>2, NoLockStep
  <1>9. CASE Here(t).op = "erase"
    <2>1. rlc_array' = rlc_array \ {Here(t).lcid} /\ Goes(t, Tail(call[t]))
      BY <1>9 DEF TableStep, GoesOn
    <2>2. R.inside \subseteq rlc_array' /\ rlc_array' \in SUBSET Lcids
      BY <1>3, <1>4, <1>5, <1>9, <2>1 DEF Follows
    <2>3. Kind(t) = "stack" /\ P.at = "write"
      BY <1>1, <1>9 DEF Pre, TablePre
    <2>4. t = Stack /\ writer = t /\ t # None
      BY <1>1, <2>3, ThreadNames DEF Has
    <2>5. \A u \in Thread : u # t => Kind(u) = "phy" /\ readers[u] = 0
      BY <2>4, ThreadNames DEF MuxInv, WriterExcludes
    <2> QED
      BY <1>1, <1>2, <1>3, <1>5, <1>6, <2>1, <2>2, <2>5, NoLockStep
  <1> QED
    BY <1>2, <1>7, <1>8, <1>9

LEMMA DeliverInv ==
  ASSUME MuxInv, NEW t \in Thread, call[t] # <<>>, Deliver(t)
  PROVE  MuxInv'
  <1>1. PICK P : /\ Live(Kind(t), P) /\ Has(t, P) /\ Code(Kind(t), P, call[t], Idle)
                 /\ Pre(Kind(t), P, Here(t)) /\ Here(t) \in Instr
    BY AtWork
  <1>2. Here(t).op = "deliver" /\ UNCHANGED <<rlc_array, readers, writer, mutex>>
    BY DEF Deliver
  <1>3. /\ rlc_array \in SUBSET Lcids /\ tasks \in Seq(Deferred) /\ Here(t).lcid \in Lcids
        /\ Kind(t) = "stack" /\ NoTx(P) /\ P.at = "free"
    BY <1>1, <1>2 DEF MuxInv, MuxTypes, Pre, TablePre
  <1>4. PICK R : Live("stack", R) /\ Follows(P, Here(t), R) /\ Code("stack", R, Tail(call[t]), Idle)
    BY <1>1, <1>2, <1>3, CodeFirst DEF Here
  <1>5. R.held = P.held /\ R.reads = P.reads /\ R.at = P.at /\ R.inside \subseteq P.inside
    BY <1>2, <1>4 DEF Follows
  <1>6. R.inside \subseteq rlc_array' /\ NoTx(R) /\ R.at = "free"
    BY <1>1, <1>2, <1>3, <1>5 DEF Has, NoTx
  <1>7. CASE \E a \in Answers(Here(t).lcid) : Goes(t, a \o Tail(call[t])) /\ UNCHANGED tasks
    <2>1. PICK a \in Answers(Here(t).lcid) : Goes(t, a \o Tail(call[t])) /\ UNCHANGED tasks
      BY <1>7
    <2>2. Code("stack", R, a, R)
      BY <1>3, <1>4, <1>6, CodeEmpty, WriteSduCode DEF Answers
    <2>3. Code("stack", R, a \o Tail(call[t]), Idle)
      BY <1>4, <2>2, CodeConcat
    <2> QED
      BY <1>1, <1>2, <1>3, <1>4, <1>5, <1>6, <2>1, <2>3, NoLockStep
  <1>8. CASE (\E d \in Deferred : tasks' = Append(tasks, d)) /\ GoesOn(t)
    <2>1. tasks' \in Seq(Deferred)
      BY <1>3, <1>8, AppendProperties
    <2> QED
      BY <1>1, <1>2, <1>3, <1>4, <1>5, <1>6, <1>8, <2>1, NoLockStep DEF GoesOn
  <1> QED
    BY <1>7, <1>8 DEF Deliver

(* A thread that is in no method begins one. *)
LEMMA CallInv ==
  ASSUME MuxInv, NEW t \in Thread, call[t] = <<>>, NEW c, Goes(t, c), Code(Kind(t), Idle, c, Idle),
         tasks' \in Seq(Deferred), UNCHANGED <<rlc_array, readers, writer, mutex>>
  PROVE  MuxInv'
  <1>1. PICK P : Live(Kind(t), P) /\ Has(t, P) /\ Code(Kind(t), P, call[t], Idle)
    BY DEF MuxInv, Outlined
  <1>2. P = Idle
    BY <1>1, CodeEnds
  <1>3. Has(t, Idle) /\ Live(Kind(t), Idle)
    BY <1>1, <1>2
  <1>4. Idle.inside \subseteq rlc_array' /\ rlc_array' \in SUBSET Lcids /\ rlc_array \subseteq rlc_array'
    BY DEF Idle, MuxInv, MuxTypes
  <1> QED
    BY <1>3, <1>4, NoLockStep

LEMMA CallsInv ==
  ASSUME MuxInv, StackCalls \/ RunTask \/ \E t \in Thread : PhyCalls(t)
  PROVE  MuxInv'
  <1>1. tasks \in Seq(Deferred) /\ Stack \in Thread /\ Kind(Stack) = "stack"
    BY ThreadNames DEF MuxInv, MuxTypes
  <1>2. CASE StackCalls
    <2>0. PICK l \in Lcids : \E m \in write_pdu(l) \union {write_sdu(l)} : Goes(Stack, m)
      BY <1>2 DEF StackCalls
    <2>1. PICK m \in write_pdu(l) \union {write_sdu(l)} : Goes(Stack, m)
      BY <2>0
    <2>2. Code("stack", Idle, m, Idle)
      <3>1. Live("stack", Idle) /\ NoTx(Idle) /\ Idle.at = "free"
        BY IdleLive DEF Idle
      <3> QED
        BY <2>1, <3>1, WritePduCode, WriteSduCode
    <2> QED
      BY <1>1, <1>2, <2>1, <2>2, CallInv DEF StackCalls
  <1>3. CASE RunTask
    <2>1. Head(tasks) \in Deferred /\ Tail(tasks) \in Seq(Deferred)
      BY <1>1, <1>3, HeadTailProperties DEF RunTask
    <2>2. Code("stack", Idle, Head(tasks), Idle)
      BY <2>1, DeferredCode
    <2> QED
      BY <1>1, <1>3, <2>1, <2>2, CallInv DEF RunTask
  <1>4. CASE \E t \in Thread : PhyCalls(t)
    <2>1. PICK t \in Phy : PhyCalls(t)
      BY <1>4 DEF PhyCalls
    <2>2. t \in Thread /\ Kind(t) = "phy"
      BY ThreadNames
    <2>3. PICK l \in Lcids : Goes(t, read_pdu(l)) \/ Goes(t, get_buffer_state(l))
      BY <2>1 DEF PhyCalls
    <2>4. PICK c : Goes(t, c) /\ Code("phy", Idle, c, Idle)
      BY <2>3, ReadPduCode
    <2> QED
      BY <1>1, <2>1, <2>2, <2>4, CallInv DEF PhyCalls
  <1> QED
    BY <1>2, <1>3, <1>4

LEMMA MuxInitInv == MuxInit => MuxInv
  <1> SUFFICES ASSUME MuxInit PROVE MuxInv
    OBVIOUS
  <1>1. MuxTypes
    BY MuxAssumption, EmptySeq DEF MuxInit, MuxTypes
  <1>2. WriterExcludes
    BY DEF MuxInit, WriterExcludes
  <1>3. ASSUME NEW t \in Thread PROVE Outlined(t)
    <2>1. t # None
      BY ThreadNames
    <2>2. Has(t, Idle)
      BY <2>1 DEF MuxInit, Has, Idle
    <2>3. Live(Kind(t), Idle) /\ Code(Kind(t), Idle, call[t], Idle)
      BY IdleLive, CodeEmpty DEF MuxInit
    <2> QED
      BY <2>2, <2>3 DEF Outlined
  <1> QED
    BY <1>1, <1>2, <1>3 DEF MuxInv

LEMMA MuxStepInv == MuxInv /\ [MuxNext]_muxVars => MuxInv'
  <1> SUFFICES ASSUME MuxInv, [MuxNext]_muxVars PROVE MuxInv'
    OBVIOUS
  <1>1. ASSUME NEW t \in Thread, Step(t) PROVE MuxInv'
    BY <1>1, RwStepInv, MutexStepInv, TableStepInv, DeliverInv DEF Step
  <1>2. CASE StackCalls \/ RunTask \/ \E t \in Thread : PhyCalls(t)
    BY <1>2, CallsInv
  <1>3. CASE UNCHANGED muxVars
    BY <1>3 DEF muxVars, MuxInv, MuxTypes, WriterExcludes, Outlined, Has
  <1> QED
    BY <1>1, <1>2, <1>3 DEF MuxNext

-----------------------------------------------------------------------------
(* What the discipline means for the threads that wait. *)

HoldsTx(t) == \E l \in Locks : l[1] = "tx" /\ mutex[l] = t
HoldsMutex(t) == \E l \in Locks : mutex[l] = t

(* A thread that waits does so in one of three ways, and has no transmitter; a PHY
   worker has no mutex at all.                                              *)
LEMMA Waiting ==
  ASSUME MuxInv, NEW t \in Thread, WaitsFor(t) # {}
  PROVE  /\ ~HoldsTx(t)
         /\ t # Stack => ~HoldsMutex(t)
         /\ \/ \E l \in Locks : /\ WaitsFor(t) \subseteq {mutex[l]} /\ mutex[l] # None
                                /\ l[1] # "tx" => t = Stack /\ ~HoldsMutex(t)
            \/ WaitsFor(t) = {writer} /\ writer # None /\ writer # t
            \/ /\ t = Stack /\ readers[t] = 0 /\ writer # t
               /\ WaitsFor(t) \subseteq ({writer} \ {None}) \union {u \in Thread : readers[u] > 0}
  <1>1. call[t] # <<>>
    BY DEF WaitsFor
  <1>2. PICK P : /\ Live(Kind(t), P) /\ Has(t, P) /\ Pre(Kind(t), P, Here(t)) /\ Here(t) \in Instr
    BY <1>1, AtWork
  <1>3. P.held = {l \in Locks : mutex[l] = t} /\ P.reads = readers[t] /\ (P.at = "write" <=> writer = t)
    BY <1>2 DEF Has
  <1>4. (Kind(t) = "phy" <=> t # Stack) /\ (Kind(t) = "stack" <=> t = Stack)
    BY ThreadNames
  <1>5. NoTx(P) => ~HoldsTx(t)
    BY <1>3 DEF NoTx, HoldsTx
  <1>6. P.held = {} => ~HoldsMutex(t) /\ ~HoldsTx(t)
    BY <1>3 DEF HoldsMutex, HoldsTx
  <1>7. CASE Here(t).op = "lock"
    <2>1. PICK l \in Locks : l = Here(t).lock
      BY <1>2, <1>7 DEF Pre, MutexPre
    <2>2. WaitsFor(t) = {mutex[l]} \ {None}
      BY <1>1, <1>7, <2>1 DEF WaitsFor
    <2>3. /\ NoTx(P) /\ (t # Stack => P.held = {} /\ l[1] = "tx")
          /\ l[1] = "rx" => P.held = {}
      BY <1>2, <1>4, <1>7, <2>1 DEF Pre, MutexPre
    <2>4. l[1] # "tx" => l[1] = "rx"
      BY DEF Locks
    <2>5. /\ WaitsFor(t) \subseteq {mutex[l]} /\ mutex[l] # None
          /\ l[1] # "tx" => t = Stack /\ ~HoldsMutex(t)
      BY <1>6, <2>2, <2>3, <2>4
    <2> QED
      BY <1>5, <1>6, <2>3, <2>5
  <1>8. CASE Here(t).op = "rdlock"
    <2>1. NoTx(P) /\ P.at = "free" /\ (t # Stack => P.held = {})
      BY <1>2, <1>4, <1>8 DEF Pre, RwPre
    <2>2. WaitsFor(t) = {writer} /\ writer # None
      BY <1>1, <1>8 DEF WaitsFor, CanRead
    <2> QED
      BY <1>3, <1>5, <1>6, <2>1, <2>2
  <1>9. CASE Here(t).op = "wrlock"
    <2>1. t = Stack /\ P.held = {} /\ P.reads = 0 /\ P.at = "free"
      BY <1>2, <1>4, <1>9 DEF Pre, RwPre
    <2>2. WaitsFor(t) = ({writer} \ {None}) \union {u \in Thread : readers[u] > 0}
      BY <1>1, <1>9 DEF WaitsFor
    <2> QED
      BY <1>3, <1>6, <2>1, <2>2
  <1> QED
    BY <1>1, <1>7, <1>8, <1>9 DEF WaitsFor

(* Only the stack thread writes. *)
LEMMA StackWrites ==
  ASSUME MuxInv
  PROVE  writer \in {Stack, None}
  <1> SUFFICES ASSUME writer # None PROVE writer = Stack
    OBVIOUS
  <1>1. writer \in Thread
    BY DEF MuxInv, MuxTypes
  <1>2. PICK P : Live(Kind(writer), P) /\ Has(writer, P)
    BY <1>1 DEF MuxInv, Outlined
  <1>3. P.at # "free"
    BY <1>2 DEF Has
  <1>4. Kind(writer) # "phy"
    BY <1>2, <1>3 DEF Live, Fits
  <1> QED
    BY <1>1, <1>4, ThreadNames

LEMMA NoCircle == MuxInv => NoCircularWait
  <1> SUFFICES ASSUME MuxInv, NEW s \in (SUBSET Thread) \ {{}},
                      \A t \in s : WaitsFor(t) \cap s # {}
               PROVE  FALSE
    BY DEF NoCircularWait
  <1>1. /\ s \subseteq Thread /\ s # {} /\ \A t \in s : WaitsFor(t) # {}
        /\ None \notin s
    BY ThreadNames
  <1>2. mutex \in [Locks -> Thread \union {None}] /\ readers \in [Thread -> Nat]
    BY DEF MuxInv, MuxTypes
  <1>3. ASSUME NEW t \in s, NEW l \in Locks, WaitsFor(t) \subseteq {mutex[l]},
               l[1] # "tx" => t = Stack /\ ~HoldsMutex(t)
        PROVE  FALSE
    <2>1. PICK u \in s : u = mutex[l]
      BY <1>3
    <2>2. ~HoldsTx(u) /\ (u # Stack => ~HoldsMutex(u))
      BY <1>1, Waiting
    <2>3. HoldsMutex(u) /\ (l[1] = "tx" => HoldsTx(u))
      BY <2>1 DEF HoldsMutex, HoldsTx
    <2> QED
      BY <1>3, <2>2, <2>3
  <1>4. ASSUME NEW t \in s
        PROVE  \/ WaitsFor(t) = {writer} /\ writer # None /\ writer # t
               \/ /\ t = Stack /\ readers[t] = 0 /\ writer # t
                  /\ WaitsFor(t) \subseteq ({writer} \ {None}) \union {u \in Thread : readers[u] > 0}
    BY <1>1, <1>3, Waiting
  <1>5. ASSUME NEW t \in s, t # Stack PROVE FALSE
    <2>1. WaitsFor(t) = {writer} /\ writer # None
      BY <1>4, <1>5
    <2>2. writer = Stack /\ Stack \in s
      BY <1>5, <2>1, StackWrites
    <2> QED
      BY <1>4, <2>2
  <1>6. s = {Stack}
    BY <1>1, <1>5
  <1>7. WaitsFor(Stack) \cap {Stack} # {} /\ Stack \in Thread
    BY <1>6, ThreadNames
  <1>8. writer # Stack
    BY <1>4, <1>6
  <1>9. writer = None
    BY <1>8, StackWrites
  <1>10. readers[Stack] = 0 /\ WaitsFor(Stack) \subseteq {u \in Thread : readers[u] > 0}
    BY <1>4, <1>6, <1>9
  <1> QED
    BY <1>7, <1>10

LEMMA NoneInside == MuxInv => NoUseAfterFree
  <1> SUFFICES ASSUME MuxInv PROVE NoUseAfterFree
    OBVIOUS
  <1>1. ASSUME NEW t \in Thread, call[t] # <<>>, Here(t).op \in {"lock", "try", "unlock"}
        PROVE  Here(t).lock[2] \in rlc_array
    <2>1. PICK P : Has(t, P) /\ Pre(Kind(t), P, Here(t))
      BY <1>1, AtWork
    <2> QED
      BY <1>1, <2>1 DEF Has, Pre, MutexPre
  <1>2. ASSUME NEW l \in Locks, mutex[l] # None PROVE l[2] \in rlc_array
    <2>1. PICK t \in Thread : t = mutex[l]
      BY <1>2 DEF MuxInv, MuxTypes
    <2>2. PICK P : Live(Kind(t), P) /\ Has(t, P)
      BY DEF MuxInv, Outlined
    <2>3. l \in P.held
      BY <2>1, <2>2 DEF Has
    <2> QED
      BY <2>2, <2>3 DEF Live, Fits, Has
  <1> QED
    BY <1>1, <1>2 DEF NoUseAfterFree

-----------------------------------------------------------------------------
(* The theorems. *)

(* What is left of every call has an outline that begins with the locks its thread
   holds and the bearers it may use now: the methods of rlc.cc and rlc_am_lte.cc
   keep the discipline in every interleaving.                               *)
THEOREM MuxInvariance == MuxSpec => []MuxInv
  BY MuxInitInv, MuxStepInv, PTL DEF MuxSpec

(* PHY workers in read_pdu and get_buffer_state and the stack thread in write_pdu,
   write_sdu, add_bearer, del_bearer and reestablish never wait for each other in
   a circle.                                                                *)
THEOREM NoCircularWaitHolds == MuxSpec => []NoCircularWait
  BY MuxInvariance, NoCircle, PTL

(* del_bearer never deletes a bearer that another thread is inside of or has looked
   up, although the stack thread looks bearers up without the lock.         *)
THEOREM NoUseAfterFreeHolds == MuxSpec => []NoUseAfterFree
  BY MuxInvariance, NoneInside, PTL
=============================================================================
