-------------------------- MODULE TraceFileProofs --------------------------
(***************************************************************************)
(* Proofs that the trace format is read back as it was written: the        *)
(* command line of the header, the body of a syscall's record, the frame   *)
(* around it, and a file of such frames that is cut somewhere, for any     *)
(* command line and any number of records.                                 *)
(***************************************************************************)
EXTENDS TraceFile, NumberLemmas, SequenceTheorems, TLAPS

IsSequence(s) == \E S : s \in Seq(S)

\* A sequence of anything stays one when something is appended.
LEMMA SequenceGrows ==
  ASSUME NEW s, NEW x, IsSequence(s)
  PROVE  /\ IsSequence(Append(s, x)) /\ Len(s) \in Nat /\ Len(Append(s, x)) = Len(s) + 1
         /\ DOMAIN Append(s, x) = 1..(Len(s) + 1) /\ DOMAIN s = 1..Len(s)
         /\ \A i \in 1..Len(s) : Append(s, x)[i] = s[i]
         /\ Append(s, x)[Len(s) + 1] = x
<1>1. PICK S : s \in Seq(S) BY Zenon DEF IsSequence
<1> DEFINE T == S \cup {x}
<1>2. s \in Seq(T) /\ x \in T
  <2>1. S \subseteq T /\ x \in T BY Zenon
  <2>2. Len(s) \in Nat /\ DOMAIN s = 1..Len(s) /\ \A i \in 1..Len(s) : s[i] \in S
    BY Zenon, <1>1, LenProperties
  <2> HIDE DEF T
  <2>3. \A i \in 1..Len(s) : s[i] \in T BY Zenon, <2>1, <2>2
  <2> QED BY <1>1, <2>1, <2>2, <2>3
<1> HIDE DEF T
<1> QED BY <1>2, AppendProperties, LenProperties DEF IsSequence

IsAppend(s, x, q) == Len(q) = Len(s) + 1 /\ (\A i \in 1..Len(s) : q[i] = s[i]) /\ q[Len(s) + 1] = x

\* An element is added behind the others.
LEMMA AppendIs ==
  ASSUME NEW s, NEW x, IsSequence(s)
  PROVE  IsAppend(s, x, Append(s, x))
BY SequenceGrows DEF IsAppend

-----------------------------------------------------------------------------
(* The command line in the header.                                         *)

Text == 0..(Base - 2)

\* Two sequences over S put together, cell by cell.
LEMMA JoinIs ==
  ASSUME NEW S, NEW s \in Seq(S), NEW t \in Seq(S)
  PROVE  /\ s \o t \in Seq(S) /\ Len(s) \in Nat /\ Len(t) \in Nat /\ Len(s \o t) = Len(s) + Len(t)
         /\ \A j \in 1..Len(s) : (s \o t)[j] = s[j]
         /\ \A j \in 1..Len(t) : (s \o t)[Len(s) + j] = t[j]
<1>1. /\ s \o t \in Seq(S) /\ Len(s \o t) = Len(s) + Len(t) /\ Len(s) \in Nat /\ Len(t) \in Nat
      /\ \A j \in 1..(Len(s) + Len(t)) : (s \o t)[j] = IF j <= Len(s) THEN s[j] ELSE t[j - Len(s)]
  BY Zenon, ConcatProperties, LenProperties
<1>2. PICK m \in Nat, n \in Nat : m = Len(s) /\ n = Len(t) BY Zenon, <1>1
<1>3. \A j \in 1..m : j \in 1..(m + n) /\ j <= m OBVIOUS
<1>4. \A j \in 1..n : m + j \in 1..(m + n) /\ ~(m + j <= m) /\ (m + j) - m = j OBVIOUS
<1>5. \A j \in 1..m : (s \o t)[j] = s[j] BY Zenon, <1>1, <1>2, <1>3
<1>6. \A j \in 1..n : (s \o t)[m + j] = t[j] BY Zenon, <1>1, <1>2, <1>4
<1> QED BY Zenon, <1>1, <1>2, <1>5, <1>6

\* k cells of a file from position p on.
CellsIn(S, s, p, k) == \A j \in 1..k : s[p + j] \in S
IsCut(S, s, p, k, q) == q \in Seq(S) /\ Len(q) = k /\ \A j \in 1..k : q[j] = s[p + j]

\* A part of a sequence has the cells it was cut from.
LEMMA CutIs ==
  ASSUME NEW S, NEW s, NEW p \in Nat, NEW k \in Nat, CellsIn(S, s, p, k)
  PROVE  IsCut(S, s, p, k, SubSeq(s, p + 1, p + k))
<1>1. PICK m \in Int, n \in Int : m = p + 1 /\ n = p + k
  <2>1. p + 1 \in Int /\ p + k \in Int OBVIOUS
  <2> QED BY Zenon, <2>1
<1>2. /\ n - m + 1 = k /\ (IF m <= n THEN n - m + 1 ELSE 0) = k
      /\ \A j \in 1..k : m + j - 1 = p + j
      /\ \A i \in m..n : i - p \in 1..k /\ p + (i - p) = i
  BY <1>1
<1>3. \A i \in m..n : s[i] \in S BY Zenon, <1>2 DEF CellsIn
<1>4. PICK q : q = SubSeq(s, m, n) BY Zenon
<1>5. /\ q \in Seq(S) /\ Len(q) = (IF m <= n THEN n - m + 1 ELSE 0)
      /\ \A j \in 1..(n - m + 1) : q[j] = s[m + j - 1]
  BY <1>3, <1>4, SubSeqProperties
<1> QED BY Zenon, <1>1, <1>2, <1>4, <1>5 DEF IsCut

\* push_str writes the length and then the string.
LEMMA PushIs ==
  ASSUME NEW s \in Seq(Nat)
  PROVE  /\ push_str(s) \in Seq(Nat) /\ Len(s) \in Nat /\ Len(push_str(s)) = 1 + Len(s)
         /\ push_str(s)[1] = Len(s) /\ \A j \in 1..Len(s) : push_str(s)[1 + j] = s[j]
<1>1. Len(s) \in Nat BY Zenon, LenProperties
<1>2. PICK c \in Seq(Nat) : c = <<Len(s)>>
  <2>1. <<Len(s)>> \in Seq(Nat) BY <1>1
  <2> QED BY Zenon, <2>1
<1>3. Len(c) = 1 /\ c[1] = Len(s) /\ 1 \in 1..1 BY <1>2
<1>4. push_str(s) = c \o s BY Zenon, <1>2 DEF push_str
<1>5. /\ c \o s \in Seq(Nat) /\ Len(c \o s) = Len(c) + Len(s)
      /\ \A j \in 1..Len(c) : (c \o s)[j] = c[j]
      /\ \A j \in 1..Len(s) : (c \o s)[Len(c) + j] = s[j]
  BY JoinIs
<1> QED BY Zenon, <1>1, <1>3, <1>4, <1>5

\* Positions counted from the end.
LEMMA FromTheEnd ==
  ASSUME NEW n \in Nat
  PROVE  /\ \A i \in 1..(n + 1) : i > n => (n + 1) - i = 0
         /\ n + 1 \in 1..(n + 1) /\ n + 1 > n
         /\ \A i \in 1..n : i \in 1..(n + 1) /\ ~(i > n)
         /\ \A i \in 1..(n + 1) : (n + 1) - i \in Nat /\ (n + 1) - i <= n /\ (n + 1) - ((n + 1) - i) = i
OBVIOUS

\* The positions before the last turn of a loop.
LEMMA BeforeTheEnd ==
  ASSUME NEW n \in Nat, NEW i \in 1..(n + 1), ~(i > n)
  PROVE  /\ i \in 1..n /\ i + 1 \in 1..(n + 1) /\ n - i \in Nat /\ n - i < n /\ n - (n - i) = i
         /\ (n + 1) - i = (n - i) + 1 /\ (n + 1) - (i + 1) = n - i
OBVIOUS

\* encode_cmdline's loop over the arguments.
LEMMA ArgsFromIs ==
  ASSUME NEW args \in Seq(Seq(Nat))
  PROVE  /\ \A i \in 1..(Len(args) + 1) : ArgsFrom(args)[i] \in Seq(Nat)
         /\ ArgsFrom(args)[Len(args) + 1] = <<>>
         /\ \A i \in 1..Len(args) : ArgsFrom(args)[i] = push_str(args[i]) \o ArgsFrom(args)[i + 1]
<1> DEFINE n == Len(args)
           S == Seq(Nat)
           E(f) == [i \in 1..(n + 1) |-> IF i > n THEN <<>> ELSE push_str(args[i]) \o f[i + 1]]
           F == [p \in Nat \X S |-> IF p[1] < n THEN push_str(args[n - p[1]]) \o p[2] ELSE p[2]]
<1>0. n \in Nat /\ \A i \in 1..n : args[i] \in S BY Zenon, LenProperties, ElementOfSeq
<1> HIDE DEF n
<1>1. F \in [Nat \X S -> S]
  <2>1. ASSUME NEW k \in Nat, NEW s \in S PROVE (IF k < n THEN push_str(args[n - k]) \o s ELSE s) \in S
    <3>1. CASE k < n
      <4>1. n - k \in 1..n BY <1>0, <3>1
      <4> QED BY Zenon, <1>0, <3>1, <4>1, PushIs, JoinIs
    <3>2. CASE ~(k < n) BY Zenon, <3>2
    <3> QED BY Zenon, <3>1, <3>2
  <2>2. \A p \in Nat \X S : (IF p[1] < n THEN push_str(args[n - p[1]]) \o p[2] ELSE p[2]) \in S
    BY Zenon, <2>1
  <2> QED BY Zenon, <2>2
<1>2. PICK h \in [Nat -> S] : h[0] = <<>> /\ \A k \in Nat : h[k + 1] = F[<<k, h[k]>>]
  <2>1. <<>> \in S BY Zenon, EmptySeq
  <2> HIDE DEF F, S
  <2>2. IsTurn(S, F) BY Zenon, <1>1 DEF IsTurn
  <2>3. PICK h : IsLoop(S, <<>>, F, h) BY Zenon, <2>1, <2>2, RecursionExists
  <2> QED BY Zenon, <2>3 DEF IsLoop
<1>3. ASSUME NEW k \in Nat, k < n PROVE h[k + 1] = push_str(args[n - k]) \o h[k]
  <2>1. <<k, h[k]>> \in Nat \X S BY Zenon
  <2>2. F[<<k, h[k]>>] = push_str(args[n - k]) \o h[k] BY Zenon, <1>3, <2>1
  <2> QED BY Zenon, <1>2, <2>2
<1> HIDE DEF F
<1> DEFINE f == [i \in 1..(n + 1) |-> h[(n + 1) - i]]
<1>4. \A i \in 1..(n + 1) : f[i] = IF i > n THEN <<>> ELSE push_str(args[i]) \o f[i + 1]
  <2> SUFFICES ASSUME NEW i \in 1..(n + 1) PROVE f[i] = IF i > n THEN <<>> ELSE push_str(args[i]) \o f[i + 1]
    BY Zenon
  <2>1. CASE i > n
    <3>1. (n + 1) - i = 0 BY Zenon, <1>0, <2>1, FromTheEnd
    <3> QED BY Zenon, <1>2, <2>1, <3>1
  <2>2. CASE ~(i > n)
    <3>1. PICK k \in Nat : k = n - i /\ k < n /\ n - k = i /\ (n + 1) - i = k + 1 /\ (n + 1) - (i + 1) = k
      <4>1. /\ n - i \in Nat /\ n - i < n /\ n - (n - i) = i
            /\ (n + 1) - i = (n - i) + 1 /\ (n + 1) - (i + 1) = n - i
        BY Zenon, <1>0, <2>2, BeforeTheEnd
      <4> QED BY Zenon, <4>1
    <3>2. i + 1 \in 1..(n + 1) BY Zenon, <1>0, <2>2, BeforeTheEnd
    <3>3. f[i] = h[k + 1] /\ f[i + 1] = h[k] BY Zenon, <3>1, <3>2
    <3> QED BY Zenon, <1>3, <2>2, <3>1, <3>3
  <2> QED BY Zenon, <2>1, <2>2
<1>5. f = E(f) BY Zenon, <1>4
<1> HIDE DEF f
<1>6. PICK A : A = ArgsFrom(args) BY Zenon
<1>7. A = E(A) BY Zenon, <1>5, <1>6 DEF ArgsFrom, n
<1>8. /\ A[n + 1] = <<>>
      /\ \A i \in 1..n : A[i] = push_str(args[i]) \o A[i + 1]
  BY Zenon, <1>0, <1>7, FromTheEnd
<1> HIDE DEF E
<1>9. \A i \in 1..(n + 1) : A[i] \in S
  <2> DEFINE B == {k \in Nat : k <= n /\ A[(n + 1) - k] \notin S}
  <2>1. B = {}
    <3> SUFFICES ASSUME B # {} PROVE FALSE BY Zenon
    <3>1. PICK m \in B : \A k \in B : m <= k
      <4>1. B \in SUBSET Nat BY Zenon
      <4> HIDE DEF B
      <4> QED BY Zenon, <4>1, LeastExists
    <3>2. m # 0
      <4>1. (n + 1) - 0 = n + 1 BY <1>0
      <4> QED BY Zenon, <1>8, <3>1, <4>1, EmptySeq
    <3>3. /\ m - 1 \in Nat /\ m - 1 <= n /\ ~(m <= m - 1) /\ (n + 1) - m \in 1..n
          /\ (n + 1) - (m - 1) = ((n + 1) - m) + 1
      BY <1>0, <3>1, <3>2
    <3>4. A[((n + 1) - m) + 1] \in S BY Zenon, <3>1, <3>3
    <3>5. push_str(args[(n + 1) - m]) \in S BY Zenon, <1>0, <3>3, PushIs
    <3>6. push_str(args[(n + 1) - m]) \o A[((n + 1) - m) + 1] \in S BY <3>4, <3>5, JoinIs
    <3>7. A[(n + 1) - m] \in S BY Zenon, <1>8, <3>3, <3>6
    <3> QED BY Zenon, <3>1, <3>7
  <2>2. ASSUME NEW i \in 1..(n + 1) PROVE A[i] \in S
    <3>1. (n + 1) - i \in Nat /\ (n + 1) - i <= n /\ (n + 1) - ((n + 1) - i) = i BY Zenon, <1>0, FromTheEnd
    <3> QED BY Zenon, <2>1, <3>1
  <2> QED BY Zenon, <2>2
<1> QED BY Zenon, <1>6, <1>8, <1>9 DEF n

\* read_str returns the string that push_str wrote.
HasStr(buf, p, a) ==
    /\ p + 1 + Len(a) <= Len(buf) /\ buf[p + 1] = Len(a)
    /\ \A j \in 1..Len(a) : buf[(p + 1) + j] = a[j]

\* read_str finds the end of a string that is there.
LEMMA StrEndIs ==
  ASSUME NEW buf \in Seq(Nat), NEW p \in Nat, NEW a \in Seq(Text), HasStr(buf, p, a)
  PROVE  /\ StrEnd(buf, p) = p + 1 + Len(a)
         /\ SubSeq(buf, p + 2, p + 1 + Len(a)) = a
<1> USE DEF HasStr
<1>1. PICK m \in Nat, n \in Nat : m = Len(a) /\ n = Len(buf)
  <2>1. Len(a) \in Nat /\ Len(buf) \in Nat BY Zenon, LenProperties
  <2> QED BY Zenon, <2>1
<1>2. PICK e \in Nat : e = p + 1 + m /\ e <= n
  <2>1. p + 1 + m \in Nat OBVIOUS
  <2> QED BY Zenon, <1>1, <2>1
<1>3. \A j \in 1..m : a[j] \in Text BY Zenon, <1>1, ElementOfSeq
<1>4. /\ p # n /\ ~(e > n)
      /\ \A k \in (p + 2)..e : k - (p + 1) \in 1..m /\ (p + 1) + (k - (p + 1)) = k
  BY <1>2
<1>5. \A k \in (p + 2)..e : buf[k] \in Text BY Zenon, <1>1, <1>3, <1>4
<1>6. NotUtf8 \notin Text BY FormatAssumption DEF NotUtf8, Text
<1>7. p # None BY Zenon, FormatAssumption
<1>8. StrEnd(buf, p) = e
  <2>1. p + 1 + buf[p + 1] = e BY Zenon, <1>1, <1>2
  <2>2. ~(p = None \/ p = Len(buf)) BY Zenon, <1>1, <1>4, <1>7
  <2>3. ~(e > Len(buf) \/ \E i \in (p + 2)..e : buf[i] = NotUtf8) BY Zenon, <1>1, <1>4, <1>5, <1>6
  <2> QED BY Zenon, <2>1, <2>2, <2>3 DEF StrEnd
<1>9. SubSeq(buf, p + 2, e) = a
  <2>1. PICK q \in Nat : q = p + 1 /\ p + 2 = q + 1 /\ e = q + m
    <3>1. p + 1 \in Nat /\ p + 2 = (p + 1) + 1 OBVIOUS
    <3> QED BY Zenon, <1>2, <3>1
  <2>2. \A j \in 1..m : buf[q + j] = a[j] /\ a[j] \in Text BY Zenon, <1>1, <1>3, <2>1
  <2>3. PICK s : s = SubSeq(buf, q + 1, q + m) BY Zenon
  <2>4. s \in Seq(Text) /\ Len(s) = m /\ \A j \in 1..m : s[j] = buf[q + j]
    <3>1. CellsIn(Text, buf, q, m) BY Zenon, <2>2 DEF CellsIn
    <3>2. IsCut(Text, buf, q, m, SubSeq(buf, q + 1, q + m)) BY Zenon, <3>1, CutIs
    <3> QED BY Zenon, <2>3, <3>2 DEF IsCut
  <2>5. s = a BY Zenon, <1>1, <2>2, <2>4, SeqEqual
  <2> QED BY Zenon, <2>1, <2>3, <2>5
<1> QED BY Zenon, <1>1, <1>2, <1>8, <1>9

\* decode_cmdline's loop over the arguments.
LEMMA StrEndsIs ==
  ASSUME NEW buf \in Seq(Nat), NEW start \in Nat, start <= Len(buf)
  PROVE  /\ StrEnds(buf, start)[0] = start
         /\ \A i \in Nat : StrEnds(buf, start)[i + 1] = StrEnd(buf, StrEnds(buf, start)[i])
<1> DEFINE S == 0..Len(buf) \cup {None}
           E(f) == [i \in Nat |-> IF i = 0 THEN start ELSE StrEnd(buf, f[i - 1])]
           F == [q \in Nat \X S |-> StrEnd(buf, q[2])]
<1>0. Len(buf) \in Nat /\ \A i \in 1..Len(buf) : buf[i] \in Nat BY Zenon, LenProperties, ElementOfSeq
<1>1. F \in [Nat \X S -> S]
  <2>1. ASSUME NEW p \in S PROVE StrEnd(buf, p) \in S
    <3>1. CASE p = None \/ p = Len(buf) BY Zenon, <3>1 DEF StrEnd
    <3>2. CASE ~(p = None \/ p = Len(buf))
      <4>1. p \in Nat /\ p + 1 \in 1..Len(buf) BY <1>0, <3>2
      <4>2. buf[p + 1] \in Nat BY Zenon, <1>0, <4>1
      <4>3. CASE p + 1 + buf[p + 1] > Len(buf) \/ \E i \in (p + 2)..(p + 1 + buf[p + 1]) : buf[i] = NotUtf8
        BY Zenon, <3>2, <4>3 DEF StrEnd
      <4>4. CASE ~(p + 1 + buf[p + 1] > Len(buf) \/ \E i \in (p + 2)..(p + 1 + buf[p + 1]) : buf[i] = NotUtf8)
        <5>1. StrEnd(buf, p) = p + 1 + buf[p + 1] BY Zenon, <3>2, <4>4 DEF StrEnd
        <5>2. p + 1 + buf[p + 1] \in 0..Len(buf) BY <1>0, <4>1, <4>2, <4>4
        <5> QED BY Zenon, <5>1, <5>2
      <4> QED BY Zenon, <4>3, <4>4
    <3> QED BY Zenon, <3>1, <3>2
  <2> HIDE DEF S
  <2>2. \A q \in Nat \X S : StrEnd(buf, q[2]) \in S BY Zenon, <2>1
  <2> QED BY Zenon, <2>2
<1>2. PICK h : h \in [Nat -> S] /\ h[0] = start /\ \A k \in Nat : h[k + 1] = F[<<k, h[k]>>]
  <2>1. start \in S BY <1>0
  <2> HIDE DEF F, S
  <2>2. IsTurn(S, F) BY Zenon, <1>1 DEF IsTurn
  <2>3. PICK h : IsLoop(S, start, F, h) BY Zenon, <2>1, <2>2, RecursionExists
  <2> QED BY Zenon, <2>3 DEF IsLoop
<1> HIDE DEF S
<1>3. \A k \in Nat : h[k + 1] = StrEnd(buf, h[k]) BY Zenon, <1>2
<1> HIDE DEF F
<1>4. h = E(h)
  <2>1. ASSUME NEW i \in Nat, i # 0 PROVE h[i] = StrEnd(buf, h[i - 1])
    <3>1. i - 1 \in Nat /\ (i - 1) + 1 = i BY <2>1
    <3>2. h[(i - 1) + 1] = StrEnd(buf, h[i - 1]) BY Zenon, <1>3, <3>1
    <3> QED BY Zenon, <3>1, <3>2
  <2>2. \A i \in Nat : h[i] = IF i = 0 THEN start ELSE StrEnd(buf, h[i - 1]) BY Zenon, <1>2, <2>1
  <2> QED BY Zenon, <1>2, <2>2
<1>5. PICK A : A = StrEnds(buf, start) BY Zenon
<1>6. A = E(A) BY Zenon, <1>4, <1>5 DEF StrEnds
<1>7. 0 \in Nat /\ \A i \in Nat : i + 1 \in Nat /\ i + 1 # 0 /\ (i + 1) - 1 = i OBVIOUS
<1>8. A[0] = start /\ \A i \in Nat : A[i + 1] = StrEnd(buf, A[i])
  BY Zenon, <1>6, <1>7
<1> QED BY Zenon, <1>5, <1>8

\* What is left of a buffer after position x is t.
Suffix(b, x, t) == x + Len(t) = Len(b) /\ \A j \in 1..Len(t) : b[x + j] = t[j]

\* One turn of the loop: the string is read and the rest is left.
LEMMA NextStr ==
  ASSUME NEW b \in Seq(Nat), NEW a \in Seq(Text), NEW r \in Seq(Nat), NEW x \in Nat,
         Suffix(b, x, push_str(a) \o r)
  PROVE  /\ StrEnd(b, x) \in Nat /\ Suffix(b, StrEnd(b, x), r)
         /\ SubSeq(b, x + 2, StrEnd(b, x)) = a
<1>0. a \in Seq(Nat)
  <2>1. Text \subseteq Nat BY FormatAssumption DEF Text
  <2> QED BY Zenon, <2>1, SeqMonotonic
<1>1. PICK s \in Seq(Nat) : s = push_str(a) BY Zenon, <1>0, PushIs
<1>2. PICK t : t = s \o r BY Zenon
<1>3. PICK m \in Nat, k \in Nat : m = Len(a) /\ k = Len(r)
  <2>1. Len(a) \in Nat /\ Len(r) \in Nat BY Zenon, LenProperties
  <2> QED BY Zenon, <2>1
<1>4. Len(s) = 1 + m /\ s[1] = m /\ \A j \in 1..m : s[1 + j] = a[j] BY Zenon, <1>0, <1>1, <1>3, PushIs
<1>5. /\ Len(s \o r) = Len(s) + Len(r)
      /\ \A j \in 1..Len(s) : (s \o r)[j] = s[j]
      /\ \A j \in 1..Len(r) : (s \o r)[Len(s) + j] = r[j]
  BY JoinIs
<1>6. /\ Len(t) = (1 + m) + k /\ \A j \in 1..(1 + m) : t[j] = s[j]
      /\ \A j \in 1..k : t[(1 + m) + j] = r[j]
  BY Zenon, <1>2, <1>3, <1>4, <1>5
<1>7. PICK n \in Nat : n = Len(b) /\ x + ((1 + m) + k) = n /\ \A j \in 1..((1 + m) + k) : b[x + j] = t[j]
  <2>1. Len(b) \in Nat BY Zenon, LenProperties
  <2> QED BY Zenon, <1>1, <1>2, <1>6, <2>1 DEF Suffix
<1>8. /\ x + 1 + m <= n /\ 1 \in 1..((1 + m) + k) /\ 1 \in 1..(1 + m)
      /\ \A j \in 1..m : (x + 1) + j = x + (1 + j) /\ 1 + j \in 1..((1 + m) + k) /\ 1 + j \in 1..(1 + m)
  BY <1>7
<1>9. HasStr(b, x, a)
  <2>1. b[x + 1] = m BY Zenon, <1>4, <1>6, <1>7, <1>8
  <2>2. ASSUME NEW j \in 1..m PROVE b[(x + 1) + j] = a[j]
    <3>1. b[x + (1 + j)] = t[1 + j] /\ t[1 + j] = s[1 + j] BY Zenon, <1>6, <1>7, <1>8
    <3> QED BY Zenon, <1>4, <1>8, <3>1
  <2> QED BY Zenon, <1>3, <1>7, <1>8, <2>1, <2>2 DEF HasStr
<1>10. PICK e \in Nat : e = x + 1 + m
  <2>1. x + 1 + m \in Nat OBVIOUS
  <2> QED BY Zenon, <2>1
<1>11. StrEnd(b, x) = e /\ SubSeq(b, x + 2, e) = a BY Zenon, <1>3, <1>9, <1>10, StrEndIs
<1>12. /\ e + k = n
       /\ \A j \in 1..k : e + j = x + ((1 + m) + j) /\ (1 + m) + j \in 1..((1 + m) + k)
  BY <1>7, <1>10
<1>13. Suffix(b, e, r) BY ZenonT(30), <1>3, <1>6, <1>7, <1>12 DEF Suffix
<1> QED BY Zenon, <1>11, <1>13

\* Every turn finds its argument: the positions of decode_cmdline are the ones at
\* which encode_cmdline's loop wrote.
LEMMA ArgsFound ==
  ASSUME NEW b \in Seq(Nat), NEW args \in Seq(Seq(Text)), NEW start \in Nat, start <= Len(b),
         Suffix(b, start, ArgsFrom(args)[1]), NEW i \in 0..Len(args)
  PROVE  /\ StrEnds(b, start)[i] \in Nat
         /\ Suffix(b, StrEnds(b, start)[i], ArgsFrom(args)[i + 1])
         /\ i # 0 => SubSeq(b, StrEnds(b, start)[i - 1] + 2, StrEnds(b, start)[i]) = args[i]
<1>1. args \in Seq(Seq(Nat))
  <2>1. Text \subseteq Nat BY FormatAssumption DEF Text
  <2>2. Seq(Text) \subseteq Seq(Nat) BY Zenon, <2>1, SeqMonotonic
  <2> QED BY Zenon, <2>2, SeqMonotonic
<1>2. PICK n \in Nat : n = Len(args) /\ \A k \in 1..n : args[k] \in Seq(Text)
  <2>1. Len(args) \in Nat /\ \A k \in 1..Len(args) : args[k] \in Seq(Text) BY Zenon, LenProperties, ElementOfSeq
  <2> QED BY Zenon, <2>1
<1>3. PICK A : /\ A = ArgsFrom(args) /\ \A k \in 1..(n + 1) : A[k] \in Seq(Nat)
               /\ \A k \in 1..n : A[k] = push_str(args[k]) \o A[k + 1]
  BY Zenon, <1>1, <1>2, ArgsFromIs
<1>4. PICK X : X = StrEnds(b, start) /\ X[0] = start /\ \A k \in Nat : X[k + 1] = StrEnd(b, X[k])
  <2>1. /\ StrEnds(b, start)[0] = start
        /\ \A k \in Nat : StrEnds(b, start)[k + 1] = StrEnd(b, StrEnds(b, start)[k])
    BY Zenon, StrEndsIs
  <2> QED BY Zenon, <2>1
<1> DEFINE Q(k) == X[k] \in Nat /\ Suffix(b, X[k], A[k + 1])
<1>5. Q(0)
  <2>1. 0 + 1 = 1 OBVIOUS
  <2> QED BY Zenon, <1>3, <1>4, <2>1
<1>6. ASSUME NEW k \in Nat, k < n, Q(k) PROVE Q(k + 1) /\ SubSeq(b, X[k] + 2, X[k + 1]) = args[k + 1]
  <2>1. k + 1 \in 1..n /\ (k + 1) + 1 \in 1..(n + 1) BY <1>6
  <2>2. Suffix(b, X[k], push_str(args[k + 1]) \o A[(k + 1) + 1]) BY Zenon, <1>3, <1>6, <2>1
  <2>3. args[k + 1] \in Seq(Text) /\ A[(k + 1) + 1] \in Seq(Nat) BY Zenon, <1>2, <1>3, <2>1
  <2>4. /\ StrEnd(b, X[k]) \in Nat /\ Suffix(b, StrEnd(b, X[k]), A[(k + 1) + 1])
        /\ SubSeq(b, X[k] + 2, StrEnd(b, X[k])) = args[k + 1]
    BY Zenon, <1>6, <2>2, <2>3, NextStr
  <2> QED BY Zenon, <1>4, <1>6, <2>4
<1> HIDE DEF Q
<1>7. ASSUME NEW k \in Nat, k <= n PROVE Q(k)
  <2> DEFINE B == {j \in Nat : j <= n /\ ~Q(j)}
  <2> SUFFICES ASSUME ~Q(k) PROVE FALSE BY Zenon
  <2>1. PICK m \in B : \A j \in B : m <= j
    <3>1. k \in B /\ B \in SUBSET Nat BY Zenon, <1>7
    <3> HIDE DEF B
    <3> QED BY Zenon, <3>1, LeastExists
  <2>2. m \in Nat /\ m <= n /\ ~Q(m) BY Zenon, <2>1
  <2>3. m # 0 BY Zenon, <1>5, <2>2
  <2>4. m - 1 \in Nat /\ m - 1 < n /\ m - 1 <= n /\ (m - 1) + 1 = m /\ ~(m <= m - 1) BY <2>2, <2>3
  <2>5. Q(m - 1) BY Zenon, <2>1, <2>4
  <2>6. Q((m - 1) + 1) BY Zenon, <1>6, <2>4, <2>5
  <2> QED BY Zenon, <2>2, <2>4, <2>6
<1>8. i \in Nat /\ i <= n BY <1>2
<1>9. Q(i) BY Zenon, <1>7, <1>8
<1>10. ASSUME i # 0 PROVE SubSeq(b, X[i - 1] + 2, X[i]) = args[i]
  <2>1. i - 1 \in Nat /\ i - 1 < n /\ i - 1 <= n /\ (i - 1) + 1 = i BY <1>8, <1>10
  <2>2. Q(i - 1) BY Zenon, <1>7, <2>1
  <2>3. SubSeq(b, X[i - 1] + 2, X[(i - 1) + 1]) = args[(i - 1) + 1] BY Zenon, <1>6, <2>1, <2>2
  <2> QED BY Zenon, <2>1, <2>3
<1> QED BY Zenon, <1>3, <1>4, <1>9, <1>10 DEF Q

\* decode_cmdline returns what encode_cmdline was given, for every program and any
\* number of arguments, empty ones included.
THEOREM CommandRoundTrip ==
  ASSUME NEW program \in Seq(Text), NEW args \in Seq(Seq(Text))
  PROVE  /\ encode_cmdline(program, args) \in Seq(Nat)
         /\ Len(encode_cmdline(program, args)) > 0
         /\ decode_cmdline(encode_cmdline(program, args)) = [program |-> program, args |-> args]
<1>1. program \in Seq(Nat) /\ args \in Seq(Seq(Nat)) /\ Seq(Text) \subseteq Seq(Nat)
  <2>1. Text \subseteq Nat BY FormatAssumption DEF Text
  <2>2. Seq(Text) \subseteq Seq(Nat) BY Zenon, <2>1, SeqMonotonic
  <2> QED BY Zenon, <2>2, SeqMonotonic
<1>2. PICK n \in Nat, m \in Nat : n = Len(args) /\ m = Len(program)
  <2>1. Len(args) \in Nat /\ Len(program) \in Nat BY Zenon, LenProperties
  <2> QED BY Zenon, <2>1
<1>3. PICK s \in Seq(Nat) : s = push_str(program) BY Zenon, <1>1, PushIs
<1>4. PICK u \in Seq(Nat) : u = <<n>> /\ Len(u) = 1 /\ u[1] = n
  <2>1. <<n>> \in Seq(Nat) /\ Len(<<n>>) = 1 /\ <<n>>[1] = n OBVIOUS
  <2> QED BY Zenon, <2>1
<1>5. PICK r \in Seq(Nat) : r = ArgsFrom(args)[1]
  <2>1. 1 \in 1..(n + 1) OBVIOUS
  <2> QED BY Zenon, <1>1, <1>2, <2>1, ArgsFromIs
<1>6. PICK k \in Nat : k = Len(r)
  <2>1. Len(r) \in Nat BY Zenon, LenProperties
  <2> QED BY Zenon, <2>1
<1>7. Len(s) = 1 + m /\ s[1] = m /\ \A j \in 1..m : s[1 + j] = program[j] BY Zenon, <1>1, <1>2, <1>3, PushIs
<1>8. PICK h \in Seq(Nat) :
         /\ h = s \o u /\ Len(h) = (1 + m) + 1
         /\ (\A j \in 1..(1 + m) : h[j] = s[j]) /\ h[(1 + m) + 1] = n
  <2>1. PICK h : h = s \o u BY Zenon
  <2>2. /\ h \in Seq(Nat) /\ Len(h) = Len(s) + Len(u)
        /\ \A j \in 1..Len(s) : h[j] = s[j]
        /\ \A j \in 1..Len(u) : h[Len(s) + j] = u[j]
    BY <2>1, JoinIs
  <2>3. 1 \in 1..1 OBVIOUS
  <2>4. /\ Len(h) = (1 + m) + 1 /\ (\A j \in 1..(1 + m) : h[j] = s[j]) /\ h[(1 + m) + 1] = n
    BY Zenon, <1>4, <1>7, <2>2, <2>3
  <2> QED BY Zenon, <2>1, <2>2, <2>4
<1>9. PICK b \in Seq(Nat) :
         /\ b = h \o r /\ Len(b) = ((1 + m) + 1) + k
         /\ (\A j \in 1..((1 + m) + 1) : b[j] = h[j])
         /\ \A j \in 1..k : b[((1 + m) + 1) + j] = r[j]
  <2>1. PICK b : b = h \o r BY Zenon
  <2>2. /\ b \in Seq(Nat) /\ Len(b) = Len(h) + Len(r)
        /\ \A j \in 1..Len(h) : b[j] = h[j]
        /\ \A j \in 1..Len(r) : b[Len(h) + j] = r[j]
    BY <2>1, JoinIs
  <2>3. /\ Len(b) = ((1 + m) + 1) + k /\ (\A j \in 1..((1 + m) + 1) : b[j] = h[j])
        /\ \A j \in 1..k : b[((1 + m) + 1) + j] = r[j]
    BY Zenon, <1>6, <1>8, <2>2
  <2> QED BY Zenon, <2>1, <2>2, <2>3
<1>10. b = encode_cmdline(program, args) BY Zenon, <1>2, <1>3, <1>4, <1>5, <1>8, <1>9 DEF encode_cmdline
<1>11. PICK e \in Nat, x \in Nat, L \in Nat :
          e = 0 + 1 + m /\ x = e + 1 /\ L = Len(b) /\ L > 0 /\ L = x + k /\ x <= L /\ e <= L /\ e # L
          /\ x = (1 + m) + 1 /\ 0 + 2 = 2
  <2>1. /\ 0 + 1 + m \in Nat /\ (0 + 1 + m) + 1 = (1 + m) + 1 /\ (1 + m) + 1 \in Nat
        /\ ((1 + m) + 1) + k \in Nat /\ ((1 + m) + 1) + k > 0 /\ (1 + m) + 1 <= ((1 + m) + 1) + k
        /\ 0 + 1 + m <= ((1 + m) + 1) + k /\ 0 + 1 + m # ((1 + m) + 1) + k /\ 0 + 2 = 2
    OBVIOUS
  <2> QED BY Zenon, <1>9, <2>1
<1>12. HasStr(b, 0, program)
  <2>1. /\ 0 + 1 = 1 /\ 1 \in 1..(1 + m) /\ 1 \in 1..((1 + m) + 1)
        /\ \A j \in 1..m : (0 + 1) + j = 1 + j /\ 1 + j \in 1..(1 + m) /\ 1 + j \in 1..((1 + m) + 1)
    OBVIOUS
  <2>2. b[0 + 1] = m BY Zenon, <1>7, <1>8, <1>9, <2>1
  <2>3. ASSUME NEW j \in 1..m PROVE b[(0 + 1) + j] = program[j]
    <3>1. b[1 + j] = h[1 + j] /\ h[1 + j] = s[1 + j] BY Zenon, <1>8, <1>9, <2>1
    <3> QED BY Zenon, <1>7, <2>1, <3>1
  <2> QED BY Zenon, <1>2, <1>11, <2>2, <2>3 DEF HasStr
<1>13. StrEnd(b, 0) = e /\ SubSeq(b, 2, e) = program
  <2>1. 0 \in Nat OBVIOUS
  <2>2. StrEnd(b, 0) = 0 + 1 + Len(program) /\ SubSeq(b, 0 + 2, 0 + 1 + Len(program)) = program
    BY Zenon, <1>12, <2>1, StrEndIs
  <2> QED BY Zenon, <1>2, <1>11, <2>2
<1>14. b[e + 1] = n
  <2>1. (1 + m) + 1 \in 1..((1 + m) + 1) /\ 1 \in 1..(1 + m) OBVIOUS
  <2> QED BY ZenonT(30), <1>8, <1>9, <1>11, <2>1
<1>15. Suffix(b, x, ArgsFrom(args)[1]) BY Zenon, <1>5, <1>6, <1>9, <1>11 DEF Suffix
<1>16. PICK X : X = StrEnds(b, x) BY Zenon
<1>17. ASSUME NEW i \in 0..n
       PROVE  X[i] \in Nat /\ (i # 0 => SubSeq(b, X[i - 1] + 2, X[i]) = args[i])
  <2>1. i \in 0..Len(args) /\ x <= Len(b) BY Zenon, <1>2, <1>11
  <2>2. /\ StrEnds(b, x)[i] \in Nat
        /\ i # 0 => SubSeq(b, StrEnds(b, x)[i - 1] + 2, StrEnds(b, x)[i]) = args[i]
    BY Zenon, <1>15, <2>1, ArgsFound
  <2> QED BY Zenon, <1>16, <2>2
<1>18. /\ None \notin Nat /\ X[n] # None /\ n # None /\ e # None
  <2>1. n \in 0..n OBVIOUS
  <2> QED BY Zenon, <1>17, <2>1, FormatAssumption
<1>19. [i \in 1..n |-> SubSeq(b, X[i - 1] + 2, X[i])] = args
  <2>1. \A i \in 1..n : i \in 0..n /\ i # 0 OBVIOUS
  <2>2. \A i \in 1..n : SubSeq(b, X[i - 1] + 2, X[i]) = args[i] BY Zenon, <1>17, <2>1
  <2>3. args = [i \in 1..n |-> args[i]] BY Zenon, <1>2, LenProperties
  <2> QED BY Zenon, <2>2, <2>3
<1>20. decode_cmdline(b) = [program |-> SubSeq(b, 2, e), args |-> [i \in 1..n |-> SubSeq(b, X[i - 1] + 2, X[i])]]
  BY Zenon, <1>11, <1>13, <1>14, <1>16, <1>18 DEF decode_cmdline
<1> QED BY Zenon, <1>10, <1>11, <1>13, <1>19, <1>20

-----------------------------------------------------------------------------
(* The cells of a record.                                                  *)

IsJoin(s, t, q) ==
    /\ IsSequence(q) /\ Len(q) = Len(s) + Len(t)
    /\ \A j \in 1..Len(s) : q[j] = s[j]
    /\ \A j \in 1..Len(t) : q[Len(s) + j] = t[j]

\* Two sequences put together keep their elements, in order.
LEMMA SequenceJoins ==
  ASSUME NEW s, NEW t, IsSequence(s), IsSequence(t)
  PROVE  IsJoin(s, t, s \o t)
<1>1. PICK S : s \in Seq(S) BY Zenon DEF IsSequence
<1>2. PICK T : t \in Seq(T) BY Zenon DEF IsSequence
<1>3. PICK U : U = S \cup T BY Zenon
<1>4. s \in Seq(U) /\ t \in Seq(U)
  <2>1. S \subseteq U /\ T \subseteq U BY Zenon, <1>3
  <2> QED BY Zenon, <1>1, <1>2, <2>1, SeqMonotonic
<1>5. PICK q : q = s \o t BY Zenon
<1>6. /\ q \in Seq(U) /\ Len(q) = Len(s) + Len(t)
      /\ \A j \in 1..Len(s) : q[j] = s[j]
      /\ \A j \in 1..Len(t) : q[Len(s) + j] = t[j]
  BY <1>4, <1>5, JoinIs
<1> QED BY Zenon, <1>5, <1>6 DEF IsJoin, IsSequence

\* What a recorder writes for a syscall of a thread.
Captured == [tid : Nat, kind : [name : {"SyscallEnter", "SyscallExit"}, raw : {0}],
             payload : Nat \X {0, 1}]

\* from_u16 undoes to_u16 for the two kinds the collector writes.
LEMMA KindBack ==
  ASSUME NEW k \in {"SyscallEnter", "SyscallExit"}
  PROVE  from_u16(to_u16([name |-> k, raw |-> 0])) = [name |-> k, raw |-> 0]
<1>1. \E i \in DOMAIN KindNames : KindNames[i] = k
  <2>1. 1 \in DOMAIN KindNames /\ 2 \in DOMAIN KindNames BY DEF KindNames
  <2>2. KindNames[1] = "SyscallEnter" /\ KindNames[2] = "SyscallExit" BY Zenon DEF KindNames
  <2> QED BY Zenon, <2>1, <2>2
<1>2. PICK i : i = CHOOSE j \in DOMAIN KindNames : KindNames[j] = k BY Zenon
<1>3. i \in DOMAIN KindNames /\ KindNames[i] = k BY Zenon, <1>1, <1>2
<1>4. to_u16([name |-> k, raw |-> 0]) = i BY Zenon, <1>2 DEF to_u16
<1> QED BY Zenon, <1>3, <1>4 DEF from_u16

IsBody(q, e, b) ==
    /\ IsSequence(b) /\ Len(b) = 5 /\ b[1] = q /\ b[2] = e.tid
    /\ from_u16(b[3]) = e.kind /\ e.payload = <<b[4], b[5]>>
    /\ e = [tid |-> e.tid, kind |-> e.kind, payload |-> e.payload]

\* encode_body: five cells for a syscall.
LEMMA BodyIs ==
  ASSUME NEW q, NEW e \in Captured
  PROVE  IsBody(q, e, encode_body(q, e))
<1>b. PICK b : b = encode_body(q, e) BY Zenon
<1>1. PICK t \in Nat, k \in {"SyscallEnter", "SyscallExit"}, n \in Nat, r \in {0, 1} :
         e = [tid |-> t, kind |-> [name |-> k, raw |-> 0], payload |-> <<n, r>>]
  <2>1. /\ e = [tid |-> e.tid, kind |-> e.kind, payload |-> e.payload] /\ e.tid \in Nat
        /\ e.kind \in [name : {"SyscallEnter", "SyscallExit"}, raw : {0}] /\ e.payload \in Nat \X {0, 1}
    BY DEF Captured
  <2>2. e.kind = [name |-> e.kind.name, raw |-> 0] /\ e.kind.name \in {"SyscallEnter", "SyscallExit"}
    BY <2>1
  <2>3. /\ e.payload = <<e.payload[1], e.payload[2]>>
        /\ e.payload[1] \in Nat /\ e.payload[2] \in {0, 1}
    BY <2>1
  <2> QED BY Zenon, <2>1, <2>2, <2>3
<1>2. t # None BY Zenon, FormatAssumption
<1>3. PICK c : c = to_u16([name |-> k, raw |-> 0]) BY Zenon
<1>4. PICK x, y : x = <<q, t, c>> /\ y = <<n, r>> BY Zenon
<1>5. b = x \o y BY Zenon, <1>b, <1>1, <1>2, <1>3, <1>4 DEF encode_body
<1>6. /\ IsSequence(x) /\ IsSequence(y) /\ Len(x) = 3 /\ Len(y) = 2
      /\ x[1] = q /\ x[2] = t /\ x[3] = c /\ y[1] = n /\ y[2] = r
  <2>1. x \in Seq({q, t, c}) /\ y \in Seq({n, r}) BY <1>4
  <2>2. Len(x) = 3 /\ Len(y) = 2 /\ x[1] = q /\ x[2] = t /\ x[3] = c /\ y[1] = n /\ y[2] = r
    BY Zenon, <1>4
  <2> QED BY Zenon, <2>1, <2>2 DEF IsSequence
<1>7. IsJoin(x, y, b) BY Zenon, <1>5, <1>6, SequenceJoins
<1>8. 3 + 2 = 5 /\ 3 + 1 = 4 /\ 1 \in 1..3 /\ 2 \in 1..3 /\ 3 \in 1..3 /\ 1 \in 1..2 /\ 2 \in 1..2 OBVIOUS
<1>9. /\ IsSequence(b) /\ Len(b) = 5 /\ b[1] = q /\ b[2] = t /\ b[3] = c /\ b[4] = n /\ b[5] = r
  BY ZenonT(30), <1>6, <1>7, <1>8 DEF IsJoin
<1>10. from_u16(c) = [name |-> k, raw |-> 0] BY Zenon, <1>3, KindBack
<1> QED BY Zenon, <1>b, <1>1, <1>9, <1>10 DEF IsBody

\* The three writes of append, and the frame they make.
LEMMA FrameIs ==
  ASSUME NEW b, IsSequence(b), Len(b) = 5
  PROVE  /\ IsSequence(Frame(b)) /\ Len(Frame(b)) = 9 /\ Frame(b)[1] = 5 /\ Frame(b)[2] = 0
         /\ (\A j \in 1..5 : Frame(b)[2 + j] = b[j]) /\ Frame(b)[8] = Crc(b) /\ Frame(b)[9] = 0
         /\ FrameParts(b)[1] = <<5, 0>> /\ FrameParts(b)[2] = b
<1>1. 5 % Base = 5 /\ 5 \div Base = 0 BY FormatAssumption
<1>2. PICK x, z : x = <<5, 0>> /\ z = <<Crc(b), 0>> BY Zenon
<1>3. FrameParts(b)[1] = x /\ FrameParts(b)[2] = b /\ FrameParts(b)[3] = z
  BY Zenon, <1>1, <1>2 DEF FrameParts
<1>4. IsSequence(x) /\ IsSequence(z) /\ Len(x) = 2 /\ Len(z) = 2 /\ x[1] = 5 /\ x[2] = 0 /\ z[1] = Crc(b) /\ z[2] = 0
  <2>1. x \in Seq({5, 0}) /\ z \in Seq({Crc(b), 0}) BY <1>2
  <2>2. Len(x) = 2 /\ Len(z) = 2 /\ x[1] = 5 /\ x[2] = 0 /\ z[1] = Crc(b) /\ z[2] = 0 BY Zenon, <1>2
  <2> QED BY Zenon, <2>1, <2>2 DEF IsSequence
<1>5. PICK y, f : y = x \o b /\ f = y \o z BY Zenon
<1>6. IsJoin(x, b, y) BY Zenon, <1>4, <1>5, SequenceJoins
<1>7. IsJoin(y, z, f)
  <2>1. IsSequence(y) BY Zenon, <1>6 DEF IsJoin
  <2> QED BY Zenon, <1>4, <1>5, <2>1, SequenceJoins
<1>8. /\ 2 + 5 = 7 /\ 7 + 2 = 9 /\ 7 + 1 = 8 /\ 1 \in 1..2 /\ 2 \in 1..2 /\ 1 \in 1..7 /\ 2 \in 1..7
      /\ \A j \in 1..5 : 2 + j \in 1..7
  OBVIOUS
<1>9. Len(y) = 7 /\ y[1] = 5 /\ y[2] = 0 /\ \A j \in 1..5 : y[2 + j] = b[j]
  BY Zenon, <1>4, <1>6, <1>8 DEF IsJoin
<1>10. /\ IsSequence(f) /\ Len(f) = 9 /\ f[1] = 5 /\ f[2] = 0
       /\ (\A j \in 1..5 : f[2 + j] = b[j]) /\ f[8] = Crc(b) /\ f[9] = 0
  <2>1. /\ IsSequence(f) /\ Len(f) = 9 /\ (\A j \in 1..7 : f[j] = y[j])
        /\ \A j \in 1..2 : f[7 + j] = z[j]
    BY Zenon, <1>4, <1>7, <1>8, <1>9 DEF IsJoin
  <2>2. f[1] = 5 /\ f[2] = 0 /\ \A j \in 1..5 : f[2 + j] = b[j] BY Zenon, <1>8, <1>9, <2>1
  <2>3. f[7 + 1] = z[1] /\ f[7 + 2] = z[2] BY Zenon, <1>8, <2>1
  <2> QED BY Zenon, <1>4, <1>8, <2>1, <2>2, <2>3
<1>11. Frame(b) = f BY Zenon, <1>3, <1>5 DEF Frame
<1> QED BY Zenon, <1>2, <1>3, <1>10, <1>11

\* decode_body undoes encode_body.
LEMMA DecodeIs ==
  ASSUME NEW q, NEW e \in Captured
  PROVE  decode_body(FORMAT_VERSION, encode_body(q, e)) = [seq |-> q, event |-> e]
<1>1. PICK b : b = encode_body(q, e) BY Zenon
<1>2. /\ IsSequence(b) /\ Len(b) = 5 /\ b[1] = q /\ b[2] = e.tid
      /\ from_u16(b[3]) = e.kind /\ e.payload = <<b[4], b[5]>>
      /\ e = [tid |-> e.tid, kind |-> e.kind, payload |-> e.payload]
  <2>1. IsBody(q, e, b) BY Zenon, <1>1, BodyIs
  <2> QED BY Zenon, <2>1 DEF IsBody
<1>3. min_body_len(FORMAT_VERSION) = 3 /\ FORMAT_VERSION >= TID_MIN_VERSION
  BY DEF min_body_len, FORMAT_VERSION, TID_MIN_VERSION
<1>4. SubSeq(b, 3 + 1, 5) = <<b[4], b[5]>>
  <2>1. PICK S : S = {b[4], b[5]} BY Zenon
  <2>2. 3 \in Nat /\ 2 \in Nat /\ 3 + 2 = 5 /\ 3 + 1 = 4 /\ \A j \in 1..2 : j = 1 \/ j = 2 OBVIOUS
  <2>3. CellsIn(S, b, 3, 2) BY Zenon, <2>1, <2>2 DEF CellsIn
  <2>4. IsCut(S, b, 3, 2, SubSeq(b, 3 + 1, 3 + 2)) BY Zenon, <2>2, <2>3, CutIs
  <2>5. PICK s : s = SubSeq(b, 3 + 1, 5) BY Zenon
  <2>6. s \in Seq(S) /\ Len(s) = 2 /\ \A j \in 1..2 : s[j] = b[3 + j] BY Zenon, <2>2, <2>4, <2>5 DEF IsCut
  <2>7. PICK w : w = <<b[4], b[5]>> BY Zenon
  <2>8. w \in Seq(S) /\ Len(w) = 2 /\ \A j \in 1..2 : w[j] = b[3 + j] BY <2>1, <2>7
  <2>9. Len(s) = Len(w) /\ \A j \in 1..Len(s) : s[j] = w[j] BY Zenon, <2>6, <2>8
  <2>10. s = w BY Zenon, <2>6, <2>8, <2>9, SeqEqual
  <2> QED BY Zenon, <2>5, <2>7, <2>10
<1> QED BY Zenon, <1>1, <1>2, <1>3, <1>4 DEF decode_body

-----------------------------------------------------------------------------
(* What the reader makes of a whole frame, and of one that is cut.         *)

\* The cells of w are in s after position p.
Holds(s, p, w) == \A j \in 1..Len(w) : s[p + j] = w[j]

\* The part of a file that holds w is w.
LEMMA CutHeld ==
  ASSUME NEW s, NEW p \in Nat, NEW w, IsSequence(w), NEW k \in Nat, Len(w) = k, Holds(s, p, w)
  PROVE  SubSeq(s, p + 1, p + k) = w
<1>1. PICK S : w \in Seq(S) BY Zenon DEF IsSequence
<1>2. \A j \in 1..k : w[j] \in S BY Zenon, <1>1, ElementOfSeq
<1>3. CellsIn(S, s, p, k) BY Zenon, <1>2 DEF CellsIn, Holds
<1>4. PICK q : q = SubSeq(s, p + 1, p + k) BY Zenon
<1>5. IsCut(S, s, p, k, q) BY Zenon, <1>3, <1>4, CutIs
<1>6. q \in Seq(S) /\ Len(q) = Len(w) /\ \A j \in 1..Len(q) : q[j] = w[j]
  BY Zenon, <1>5 DEF IsCut, Holds
<1>7. q = w BY Zenon, <1>1, <1>6, SeqEqual
<1> QED BY Zenon, <1>4, <1>7

Start == BASE_HEADER_LEN + Len(encode_cmdline(Program, Args))
Command == [program |-> Program, args |-> Args]

\* A reader at position p, after the record l.
ReaderAt(st, p, l) ==
    [state |-> st, version |-> FORMAT_VERSION, cmdline |-> Command, pos |-> p, last_seq |-> l]

ReadsWhole(file, p, l, b) ==
    /\ read_record(file, ReaderAt("open", p, l)) =
          [tag |-> "record", record |-> decode_body(FORMAT_VERSION, b)]
    /\ Advanced(file, ReaderAt("open", p, l)) = ReaderAt("open", p + 9, b[1])

\* read_record returns the record of a whole frame and moves behind it.
LEMMA ReadWhole ==
  ASSUME NEW file, NEW p \in Nat, NEW l, Len(file) \in Nat, p + 9 <= Len(file),
         NEW b, IsSequence(b), Len(b) = 5, Holds(file, p, Frame(b)), check_monotonic(l, b[1])
  PROVE  ReadsWhole(file, p, l, b)
<1>1. PICK L \in Nat : L = Len(file) BY Zenon
<1>2. PICK f : f = Frame(b) BY Zenon
<1>3. /\ Len(f) = 9 /\ f[1] = 5 /\ f[2] = 0
      /\ (\A j \in 1..5 : f[2 + j] = b[j]) /\ f[8] = Crc(b) /\ f[9] = 0
  BY Zenon, <1>2, FrameIs
<1>4. \A j \in 1..9 : file[p + j] = f[j] BY Zenon, <1>2, <1>3 DEF Holds
<1>5. 1 \in 1..9 /\ 2 \in 1..9 /\ 8 \in 1..9 /\ 9 \in 1..9 OBVIOUS
<1>6. file[p + 1] = 5 /\ file[p + 2] = 0 /\ file[p + 8] = Crc(b) /\ file[p + 9] = 0
  BY Zenon, <1>3, <1>4, <1>5
<1>7. file[p + 1] + Base * file[p + 2] = 5
  <2>1. 5 + Base * 0 = 5 BY FormatAssumption
  <2> QED BY Zenon, <1>6, <2>1
<1>8. SubSeq(file, p + 3, p + 2 + 5) = b
  <2>1. p + 2 \in Nat /\ (p + 2) + 1 = p + 3 /\ (p + 2) + 5 = p + 2 + 5 /\ 5 \in Nat
        /\ \A j \in 1..5 : 2 + j \in 1..9 /\ (p + 2) + j = p + (2 + j)
    OBVIOUS
  <2>2. \A j \in 1..5 : file[(p + 2) + j] = b[j]
    <3> TAKE j \in 1..5
    <3>1. file[p + (2 + j)] = f[2 + j] BY Zenon, <1>4, <2>1
    <3> QED BY Zenon, <1>3, <2>1, <3>1
  <2>h. Holds(file, p + 2, b) BY Zenon, <2>2 DEF Holds
  <2>3. SubSeq(file, (p + 2) + 1, (p + 2) + 5) = b BY Zenon, <2>1, <2>h, CutHeld
  <2> QED BY Zenon, <2>1, <2>3
<1>9. SubSeq(file, p + 3 + 5, p + 4 + 5) = <<Crc(b), 0>>
  <2>1. /\ p + 7 \in Nat /\ (p + 7) + 1 = p + 3 + 5 /\ (p + 7) + 2 = p + 4 + 5 /\ 2 \in Nat
        /\ (p + 7) + 1 = p + 8 /\ (p + 7) + 2 = p + 9 /\ \A j \in 1..2 : j = 1 \/ j = 2
    OBVIOUS
  <2>2. PICK z : z = <<Crc(b), 0>> BY Zenon
  <2>3. Len(z) = 2 /\ z[1] = Crc(b) /\ z[2] = 0 BY Zenon, <2>2
  <2>4. IsSequence(z)
    <3>1. z \in Seq({Crc(b), 0}) BY <2>2
    <3> QED BY Zenon, <3>1 DEF IsSequence
  <2>5. Holds(file, p + 7, z) BY Zenon, <1>6, <2>1, <2>3 DEF Holds
  <2>6. SubSeq(file, (p + 7) + 1, (p + 7) + 2) = z BY Zenon, <2>1, <2>3, <2>4, <2>5, CutHeld
  <2> QED BY Zenon, <2>1, <2>2, <2>6
<1>10. /\ L - p # 0 /\ ~(L - p < 2) /\ ~(L < p + 4 + 5) /\ ~(5 < 3) /\ ~(5 > MAX_BODY_LEN)
       /\ p + 4 + 5 = p + 9
  BY <1>1, FormatAssumption
<1>11. PICK rd : rd = ReaderAt("open", p, l) BY Zenon
<1>12. rd.pos = p /\ rd.version = FORMAT_VERSION /\ rd.last_seq = l BY Zenon, <1>11 DEF ReaderAt
<1>13. read_exact_or_eof(file, rd) = "full" BY Zenon, <1>1, <1>10, <1>12 DEF read_exact_or_eof
<1>14. min_body_len(FORMAT_VERSION) = 3 BY DEF min_body_len, FORMAT_VERSION, TID_MIN_VERSION
<1>15. ChecksumOk(b, <<Crc(b), 0>>) BY Zenon DEF ChecksumOk
<1>16. decode_body(FORMAT_VERSION, b).seq = b[1] BY Zenon DEF decode_body
<1>17. "full" # "eof" /\ "full" # "partial" OBVIOUS
<1>18. read_record(file, rd) = [tag |-> "record", record |-> decode_body(FORMAT_VERSION, b)]
  BY Zenon, <1>1, <1>7, <1>8, <1>9, <1>10, <1>12, <1>13, <1>14, <1>15, <1>16, <1>17 DEF read_record
<1>19. Advanced(file, rd) = [rd EXCEPT !.pos = @ + 4 + 5, !.last_seq = b[1]]
  <2>1. PICK r, d : r = read_record(file, rd) /\ d = decode_body(FORMAT_VERSION, b) BY Zenon
  <2>a. r = [tag |-> "record", record |-> d] BY Zenon, <1>18, <2>1
  <2>b. r.tag = "record" /\ r.record = d BY <2>a
  <2>2. r.tag = "record" /\ r.record.seq = b[1] BY Zenon, <1>16, <2>1, <2>b
  <2> QED BY Zenon, <1>7, <1>12, <2>1, <2>2 DEF Advanced
<1>20. [rd EXCEPT !.pos = @ + 4 + 5, !.last_seq = b[1]] = ReaderAt("open", p + 9, b[1])
  <2>1. [rd EXCEPT !.pos = @ + 4 + 5, !.last_seq = b[1]] = [rd EXCEPT !.pos = p + 9, !.last_seq = b[1]]
    BY Zenon, <1>10, <1>12
  <2>2. PICK x, y : x = p + 9 /\ y = b[1] BY Zenon
  <2>3. [rd EXCEPT !.pos = x, !.last_seq = y] = ReaderAt("open", x, y)
    <3>1. PICK v, c : v = FORMAT_VERSION /\ c = Command BY Zenon
    <3>2. rd = [state |-> "open", version |-> v, cmdline |-> c, pos |-> p, last_seq |-> l]
      BY Zenon, <1>11, <3>1 DEF ReaderAt
    <3>3. [rd EXCEPT !.pos = x, !.last_seq = y] =
             [state |-> "open", version |-> v, cmdline |-> c, pos |-> x, last_seq |-> y]
      <4>1. PICK e : e = [rd EXCEPT !.pos = x] BY Zenon
      <4>2. e = [state |-> "open", version |-> v, cmdline |-> c, pos |-> x, last_seq |-> l]
        BY <3>2, <4>1
      <4>3. [e EXCEPT !.last_seq = y] =
               [state |-> "open", version |-> v, cmdline |-> c, pos |-> x, last_seq |-> y]
        BY <4>2
      <4>4. [rd EXCEPT !.pos = x, !.last_seq = y] = [[rd EXCEPT !.pos = x] EXCEPT !.last_seq = y]
        BY Zenon
      <4> QED BY Zenon, <4>1, <4>3, <4>4
    <3> QED BY Zenon, <3>1, <3>3 DEF ReaderAt
  <2> QED BY Zenon, <2>1, <2>2, <2>3
<1> QED BY Zenon, <1>11, <1>18, <1>19, <1>20 DEF ReadsWhole

\* A file that ends inside a frame is reported as cut there.
LEMMA ReadCut ==
  ASSUME NEW file, NEW p \in Nat, NEW l, Len(file) \in Nat, p < Len(file), Len(file) < p + 9,
         Len(file) >= p + 2 => file[p + 1] = 5 /\ file[p + 2] = 0
  PROVE  /\ read_record(file, ReaderAt("open", p, l)).tag = "Truncated"
         /\ Advanced(file, ReaderAt("open", p, l)) = ReaderAt("Truncated", p, l)
<1>1. PICK L \in Nat : L = Len(file) BY Zenon
<1>2. PICK rd : rd = ReaderAt("open", p, l) BY Zenon
<1>3. rd.pos = p /\ rd.version = FORMAT_VERSION /\ rd.last_seq = l BY Zenon, <1>2 DEF ReaderAt
<1>4. min_body_len(FORMAT_VERSION) = 3 BY DEF min_body_len, FORMAT_VERSION, TID_MIN_VERSION
<1>5. read_record(file, rd) = [tag |-> "Truncated", record |-> None]
  <2>1. CASE L - p < 2
    <3>1. L - p # 0 BY <1>1
    <3>2. read_exact_or_eof(file, rd) = "partial"
      BY Zenon, <1>1, <1>3, <2>1, <3>1 DEF read_exact_or_eof
    <3>3. "partial" # "eof" OBVIOUS
    <3> QED BY Zenon, <3>2, <3>3 DEF read_record
  <2>2. CASE ~(L - p < 2)
    <3>1. L - p # 0 /\ L >= p + 2 /\ L < p + 4 + 5 /\ ~(5 < 3) /\ ~(5 > MAX_BODY_LEN)
      BY <1>1, <2>2, FormatAssumption
    <3>2. read_exact_or_eof(file, rd) = "full"
      BY Zenon, <1>1, <1>3, <2>2, <3>1 DEF read_exact_or_eof
    <3>3. "full" # "eof" /\ "full" # "partial" OBVIOUS
    <3>4. file[p + 1] + Base * file[p + 2] = 5
      <4>1. 5 + Base * 0 = 5 BY FormatAssumption
      <4> QED BY Zenon, <1>1, <3>1, <4>1
    <3> QED BY Zenon, <1>1, <1>3, <1>4, <3>1, <3>2, <3>3, <3>4 DEF read_record
  <2> QED BY Zenon, <2>1, <2>2
<1>6. "Truncated" # "record" /\ "Truncated" # "eof" OBVIOUS
<1>7. Advanced(file, rd) = [rd EXCEPT !.state = "Truncated"]
  <2>1. PICK r : r = read_record(file, rd) BY Zenon
  <2>a. r = [tag |-> "Truncated", record |-> None] BY Zenon, <1>5, <2>1
  <2>2. r.tag = "Truncated" BY <2>a
  <2> QED BY <1>6, <2>1, <2>2 DEF Advanced
<1>8. [rd EXCEPT !.state = "Truncated"] = ReaderAt("Truncated", p, l) BY <1>2 DEF ReaderAt
<1>9. read_record(file, rd).tag = "Truncated"
  <2>1. PICK r : r = read_record(file, rd) BY Zenon
  <2>2. r = [tag |-> "Truncated", record |-> None] BY Zenon, <1>5, <2>1
  <2>3. r.tag = "Truncated" BY <2>2
  <2> QED BY Zenon, <2>1, <2>3
<1> QED BY Zenon, <1>2, <1>7, <1>8, <1>9

\* The header: its first three cells, and then the command line.
LEMMA HeaderIs ==
  ASSUME NEW c, c = encode_cmdline(Program, Args)
  PROVE  /\ Start \in Nat /\ Start > 3 /\ IsSequence(Header) /\ Len(Header) = Start
         /\ Header[1] = MAGIC /\ Header[2] = FORMAT_VERSION /\ Header[3] = Start
         /\ IsSequence(c) /\ Len(c) = Start - 3 /\ \A j \in 1..Len(c) : Header[3 + j] = c[j]
<1>1. c \in Seq(Nat) /\ Len(c) > 0
  <2>1. Program \in Seq(Text) /\ Args \in Seq(Seq(Text)) BY Zenon, CommandAssumption DEF Text
  <2> QED BY Zenon, <2>1, CommandRoundTrip
<1>2. PICK k \in Nat : k = Len(c)
  <2>1. Len(c) \in Nat BY Zenon, <1>1, LenProperties
  <2> QED BY Zenon, <2>1
<1>3. /\ Start = 3 + k /\ 3 + k \in Nat /\ 3 + k > 3 /\ 3 + k < Base /\ (3 + k) % Base = 3 + k
      /\ (3 + k) - 3 = k
  <2>1. Start = 3 + k /\ 3 + k < Base BY Zenon, <1>2, CommandAssumption DEF Start, BASE_HEADER_LEN
  <2>2. k > 0 BY Zenon, <1>1, <1>2
  <2> QED BY <2>1, <2>2, FormatAssumption
<1>4. PICK x : x = <<MAGIC, FORMAT_VERSION, 3 + k>> BY Zenon
<1>5. Len(x) = 3 /\ x[1] = MAGIC /\ x[2] = FORMAT_VERSION /\ x[3] = 3 + k BY Zenon, <1>4
<1>6. IsSequence(x) /\ IsSequence(c)
  <2>1. x \in Seq({MAGIC, FORMAT_VERSION, 3 + k}) BY <1>4
  <2> QED BY Zenon, <1>1, <2>1 DEF IsSequence
<1>7. Header = x \o c BY Zenon, <1>2, <1>3, <1>4 DEF Header, write_header, BASE_HEADER_LEN
<1>8. IsJoin(x, c, Header) BY Zenon, <1>6, <1>7, SequenceJoins
<1>9. 1 \in 1..3 /\ 2 \in 1..3 /\ 3 \in 1..3 OBVIOUS
<1>10. /\ IsSequence(Header) /\ Len(Header) = 3 + k /\ Header[1] = MAGIC /\ Header[2] = FORMAT_VERSION
       /\ Header[3] = 3 + k /\ \A j \in 1..Len(c) : Header[3 + j] = c[j]
  BY Zenon, <1>2, <1>5, <1>8, <1>9 DEF IsJoin
<1> QED BY Zenon, <1>2, <1>3, <1>6, <1>10

\* TraceReader::open on what is left of a file: an error inside the header, the
\* command line and the first frame otherwise.
OpenedAs(file, rd) ==
    /\ Len(file) < Start => rd.state \in {"BadMagic", "Truncated"}
    /\ Len(file) >= Start => rd = ReaderAt("open", Start, None)

HeaderOf(file) == \A j \in 1..Len(file) : j <= Start => file[j] = Header[j]

\* open finds the command line behind a whole header, and stops inside a cut one.
LEMMA OpenIs ==
  ASSUME NEW file, Len(file) \in Nat, HeaderOf(file)
  PROVE  OpenedAs(file, open(file))
<1>1. PICK L \in Nat, S \in Nat : L = Len(file) /\ S = Start /\ S > 3 BY Zenon, HeaderIs
<1>2. CASE L < 3
  <2>1. L < BASE_HEADER_LEN BY Zenon, <1>2 DEF BASE_HEADER_LEN
  <2>a. ~(L >= BASE_HEADER_LEN) BY <1>2 DEF BASE_HEADER_LEN
  <2>2. open(file) = Failed("BadMagic") BY Zenon, <1>1, <2>1, <2>a DEF open
  <2>3. Failed("BadMagic").state = "BadMagic" BY DEF Failed
  <2>4. ~(L >= S) BY <1>1, <1>2
  <2> QED BY Zenon, <1>1, <2>2, <2>3, <2>4 DEF OpenedAs
<1>3. CASE ~(L < 3)
  <2>1. /\ 1 \in 1..L /\ 2 \in 1..L /\ 3 \in 1..L /\ 1 <= S /\ 2 <= S /\ 3 <= S
        /\ ~(S < 3) /\ 3 + (S - 3) = S /\ S - 3 # 0 /\ S - 3 \in Nat /\ L >= 3 /\ ~(L < 3)
    BY <1>1, <1>3
  <2>2. file[1] = MAGIC /\ file[2] = FORMAT_VERSION /\ file[3] = S
    BY Zenon, <1>1, <2>1, HeaderIs DEF HeaderOf
  <2>3. PICK o : o = IF L < S THEN Failed("Truncated")
                     ELSE IF decode_cmdline(SubSeq(file, 4, S)) = None THEN Failed("MalformedHeader")
                     ELSE Opened(FORMAT_VERSION, decode_cmdline(SubSeq(file, 4, S)), S)
    BY Zenon
  <2>4. open(file) = o
    <3>1. PICK d : d = decode_cmdline(SubSeq(file, 4, S)) BY Zenon
    <3>2. PICK f1, f2, f3 : f1 = file[1] /\ f2 = file[2] /\ f3 = file[3] BY Zenon
    <3>3. (IF file[3] < BASE_HEADER_LEN THEN 0 ELSE file[3] - BASE_HEADER_LEN) = S - 3
      BY Zenon, <2>1, <2>2 DEF BASE_HEADER_LEN
    <3>4. ~(FORMAT_VERSION > FORMAT_VERSION) /\ ~(FORMAT_VERSION < CMDLINE_MIN_VERSION)
      BY DEF FORMAT_VERSION, CMDLINE_MIN_VERSION
    <3>5. ~(Len(file) < BASE_HEADER_LEN \/ file[1] # MAGIC) BY Zenon, <1>1, <2>1, <2>2 DEF BASE_HEADER_LEN
    <3>6. ~(file[2] > FORMAT_VERSION) BY Zenon, <2>2, <3>4
    <3>7. open(file) = IF Len(file) < BASE_HEADER_LEN + (S - 3) THEN Failed("Truncated")
               ELSE IF file[2] < CMDLINE_MIN_VERSION \/ S - 3 = 0 THEN Opened(file[2], None, 3 + (S - 3))
               ELSE IF decode_cmdline(SubSeq(file, 4, 3 + (S - 3))) = None THEN Failed("MalformedHeader")
               ELSE Opened(file[2], decode_cmdline(SubSeq(file, 4, 3 + (S - 3))), 3 + (S - 3))
      BY <3>3, <3>5, <3>6 DEF open
    <3> QED BY Zenon, <1>1, <2>1, <2>2, <2>3, <3>4, <3>7 DEF BASE_HEADER_LEN
  <2>5. CASE L < S
    <3>1. Failed("Truncated").state = "Truncated" BY DEF Failed
    <3>2. ~(L >= S) BY <2>5
    <3> QED BY Zenon, <1>1, <2>3, <2>4, <2>5, <3>1, <3>2 DEF OpenedAs
  <2>6. CASE ~(L < S)
    <3>1. PICK c : c = encode_cmdline(Program, Args) BY Zenon
    <3>2. PICK k \in Nat : k = Len(c) /\ k = S - 3 /\ 3 + k = S BY Zenon, <1>1, <2>1, <3>1, HeaderIs
    <3>3. \A j \in 1..k : 3 + j \in 1..L /\ 3 + j <= S BY <2>6, <3>2
    <3>4. \A j \in 1..k : Header[3 + j] = c[j] BY Zenon, <3>1, <3>2, HeaderIs
    <3>5. Holds(file, 3, c) BY Zenon, <1>1, <3>2, <3>3, <3>4 DEF Holds, HeaderOf
    <3>6. SubSeq(file, 3 + 1, 3 + k) = c
      <4>1. IsSequence(c) /\ 3 \in Nat BY Zenon, <3>1, HeaderIs
      <4> QED BY ZenonT(30), <3>2, <3>5, <4>1, CutHeld
    <3>7. SubSeq(file, 4, S) = c
      <4>1. 3 + 1 = 4 OBVIOUS
      <4> QED BY Zenon, <3>2, <3>6, <4>1
    <3>8. decode_cmdline(c) = Command
      <4>1. Program \in Seq(Text) /\ Args \in Seq(Seq(Text)) BY Zenon, CommandAssumption DEF Text
      <4> QED BY Zenon, <3>1, <4>1, CommandRoundTrip DEF Command
    <3>9. Command # None BY Zenon, CommandAssumption DEF Command
    <3>10. open(file) = ReaderAt("open", S, None)
      BY Zenon, <2>3, <2>4, <2>6, <3>7, <3>8, <3>9 DEF Opened, ReaderAt
    <3> QED BY Zenon, <1>1, <2>6, <3>10 DEF OpenedAs
  <2> QED BY Zenon, <2>5, <2>6
<1> QED BY Zenon, <1>2, <1>3

-----------------------------------------------------------------------------
(* The file grows by whole frames: the header, then nine cells for each    *)
(* record, then what a failed append left of the next frame.               *)

After(i) == Start + 9 * i

RecordCells(r) == Frame(encode_body(r.seq, r.event))

RecordsOf(wr) == \A i \in 1..Len(wr) : \E e \in Captured : wr[i] = [seq |-> i - 1, event |-> e]

Holding(st, wr) ==
    /\ \A j \in 1..Start : st[j] = Header[j]
    /\ \A i \in 1..Len(wr) : \A j \in 1..9 : st[After(i - 1) + j] = RecordCells(wr[i])[j]

CutAfter(st, p) ==
    Len(st) \in {p, p + 2, p + 7} /\ (Len(st) > p => st[p + 1] = 5 /\ st[p + 2] = 0)

\* Where the frames begin and end.
LEMMA AfterIs ==
  ASSUME NEW n \in Nat
  PROVE  /\ Start \in Nat /\ Start > 3 /\ After(n) \in Nat /\ After(n) >= Start /\ After(0) = Start
         /\ After(n + 1) = After(n) + 9
         /\ (\A i \in 1..n : \A j \in 1..9 : After(i - 1) + j \in 1..After(n))
         /\ \A m \in Nat : (m < n => After(m) + 9 <= After(n)) /\ (m <= n => After(m) <= After(n))
<1>1. PICK S \in Nat : S = Start /\ S > 3 BY Zenon, HeaderIs
<1>2. \A i : After(i) = S + 9 * i BY Zenon, <1>1 DEF After
<1>3. /\ S + 9 * n \in Nat /\ S + 9 * n >= S /\ S + 9 * 0 = S /\ S + 9 * (n + 1) = (S + 9 * n) + 9
      /\ (\A i \in 1..n : \A j \in 1..9 : (S + 9 * (i - 1)) + j \in 1..(S + 9 * n))
      /\ \A m \in Nat : (m < n => (S + 9 * m) + 9 <= S + 9 * n) /\ (m <= n => S + 9 * m <= S + 9 * n)
  OBVIOUS
<1> QED BY Zenon, <1>1, <1>2, <1>3

\* A captured record takes nine cells.
LEMMA CapturedCells ==
  ASSUME NEW q, NEW e \in Captured, NEW r, r = [seq |-> q, event |-> e]
  PROVE  /\ RecordCells(r) = Frame(encode_body(q, e))
         /\ IsSequence(encode_body(q, e)) /\ Len(encode_body(q, e)) = 5
         /\ IsSequence(RecordCells(r)) /\ Len(RecordCells(r)) = 9
<1>1. r.seq = q /\ r.event = e OBVIOUS
<1>2. PICK b : b = encode_body(q, e) BY Zenon
<1>3. IsSequence(b) /\ Len(b) = 5
  <2>1. IsBody(q, e, b) BY Zenon, <1>2, BodyIs
  <2> QED BY Zenon, <2>1 DEF IsBody
<1>4. IsSequence(Frame(b)) /\ Len(Frame(b)) = 9 BY Zenon, <1>3, FrameIs
<1> QED BY Zenon, <1>1, <1>2, <1>3, <1>4 DEF RecordCells

\* What is appended to a file leaves its header and whole frames as they are.
LEMMA HoldingKept ==
  ASSUME NEW st, NEW wr, NEW t, NEW u, IsSequence(st), IsSequence(wr), IsSequence(t), u = st \o t,
         Holding(st, wr), Len(st) \in Nat, After(Len(wr)) <= Len(st)
  PROVE  Holding(u, wr)
<1>1. IsJoin(st, t, u) BY Zenon, SequenceJoins
<1>2. PICK n \in Nat : n = Len(wr) BY Zenon, SequenceGrows
<1>3. \A j \in 1..After(n) : u[j] = st[j]
  <2>1. PICK A \in Nat, L \in Nat : A = After(n) /\ L = Len(st) /\ A <= L BY Zenon, <1>2, AfterIs
  <2>2. \A j \in 1..A : j \in 1..L BY <2>1
  <2>3. \A j \in 1..L : u[j] = st[j] BY Zenon, <1>1, <2>1 DEF IsJoin
  <2> QED BY Zenon, <2>1, <2>2, <2>3
<1>4. \A i \in 1..n : \A j \in 1..9 : After(i - 1) + j \in 1..After(n) BY Zenon, AfterIs
<1>5. \A j \in 1..Start : j \in 1..After(n)
  <2>1. PICK S \in Nat, A \in Nat : S = Start /\ A = After(n) /\ A >= S BY Zenon, AfterIs
  <2>2. \A j \in 1..S : j \in 1..A BY <2>1
  <2> QED BY Zenon, <2>1, <2>2
<1>6. \A j \in 1..Start : u[j] = Header[j] BY Zenon, <1>3, <1>5 DEF Holding
<1>7. \A i \in 1..n : \A j \in 1..9 : u[After(i - 1) + j] = RecordCells(wr[i])[j]
  <2> TAKE i \in 1..n
  <2> TAKE j \in 1..9
  <2>1. st[After(i - 1) + j] = RecordCells(wr[i])[j] BY Zenon, <1>2 DEF Holding
  <2> QED BY Zenon, <1>3, <1>4, <2>1
<1> QED BY Zenon, <1>2, <1>6, <1>7 DEF Holding

Grown(u, w, p) == Holding(u, w) /\ IsSequence(u) /\ Len(u) = p

\* append adds one whole frame.
LEMMA HoldingGrows ==
  ASSUME NEW st, NEW wr, NEW r, IsSequence(st), IsSequence(wr),
         IsSequence(RecordCells(r)), Len(RecordCells(r)) = 9,
         Holding(st, wr), Len(st) = After(Len(wr))
  PROVE  Grown(st \o RecordCells(r), Append(wr, r), After(Len(wr) + 1))
<1>1. PICK c, u, w : c = RecordCells(r) /\ u = st \o c /\ w = Append(wr, r) BY Zenon
<1>2. IsJoin(st, c, u) BY Zenon, <1>1, SequenceJoins
<1>3. PICK n \in Nat : n = Len(wr) BY Zenon, SequenceGrows
<1>4. Len(w) = n + 1 /\ (\A i \in 1..n : w[i] = wr[i]) /\ w[n + 1] = r
  <2>1. IsAppend(wr, r, w) BY Zenon, <1>1, AppendIs
  <2> QED BY Zenon, <1>3, <2>1 DEF IsAppend
<1>5. IsSequence(u) /\ Len(u) = After(n) + 9 /\ \A j \in 1..9 : u[After(n) + j] = c[j]
  BY Zenon, <1>1, <1>2, <1>3 DEF IsJoin
<1>6. After(n + 1) = After(n) + 9 BY Zenon, AfterIs
<1>7. Holding(u, wr)
  <2>1. PICK A \in Nat : A = After(n) BY Zenon, AfterIs
  <2>2. A <= A OBVIOUS
  <2>3. Len(st) \in Nat /\ After(Len(wr)) <= Len(st) BY Zenon, <1>3, <2>1, <2>2
  <2> QED BY Zenon, <1>1, <2>3, HoldingKept
<1>8. ASSUME NEW i \in 1..(n + 1) PROVE \A j \in 1..9 : u[After(i - 1) + j] = RecordCells(w[i])[j]
  <2>1. i \in 1..n \/ i = n + 1 OBVIOUS
  <2>2. (n + 1) - 1 = n OBVIOUS
  <2>3. CASE i \in 1..n
    <3>1. \A j \in 1..9 : u[After(i - 1) + j] = RecordCells(wr[i])[j] BY Zenon, <1>3, <1>7, <2>3 DEF Holding
    <3> QED BY Zenon, <1>4, <2>3, <3>1
  <2>4. CASE i = n + 1 BY Zenon, <1>1, <1>4, <1>5, <2>2, <2>4
  <2> QED BY Zenon, <2>1, <2>3, <2>4
<1>9. Holding(u, w) BY Zenon, <1>4, <1>7, <1>8 DEF Holding
<1> QED BY Zenon, <1>1, <1>3, <1>5, <1>6, <1>9 DEF Grown

\* A write fails: what it leaves of a frame starts with the length of a body.
LEMMA CutFrame ==
  ASSUME NEW st, NEW wr, NEW b, NEW u, IsSequence(st), IsSequence(wr), IsSequence(b), Len(b) = 5,
         Holding(st, wr), Len(st) = After(Len(wr)),
         u \in {st, st \o FrameParts(b)[1], st \o FrameParts(b)[1] \o FrameParts(b)[2]}
  PROVE  IsSequence(u) /\ Holding(u, wr) /\ CutAfter(u, After(Len(wr)))
<1>1. PICK n \in Nat, p \in Nat : n = Len(wr) /\ p = After(n)
  <2>1. Len(wr) \in Nat BY Zenon, SequenceGrows
  <2> QED BY Zenon, <2>1, AfterIs
<1>2. PICK x : x = <<5, 0>> /\ FrameParts(b)[1] = x /\ FrameParts(b)[2] = b BY Zenon, FrameIs
<1>3. Len(x) = 2 /\ x[1] = 5 /\ x[2] = 0
  <2>1. x = <<5, 0>> BY Zenon, <1>2
  <2> QED BY <2>1
<1>4. IsSequence(x)
  <2>1. x \in Seq({5, 0}) BY <1>2
  <2> QED BY Zenon, <2>1 DEF IsSequence
<1>5. PICK v, w : v = st \o x /\ w = v \o b BY Zenon
<1>6. IsJoin(st, x, v) BY Zenon, <1>4, <1>5, SequenceJoins
<1>7. 1 \in 1..2 /\ 2 \in 1..2 /\ (p + 2) + 5 = p + 7 /\ ~(p > p) OBVIOUS
<1>8. IsSequence(v) /\ Len(v) = p + 2 /\ v[p + 1] = 5 /\ v[p + 2] = 0
  BY Zenon, <1>1, <1>3, <1>6, <1>7 DEF IsJoin
<1>9. IsJoin(v, b, w) BY Zenon, <1>5, <1>8, SequenceJoins
<1>10. IsSequence(w) /\ Len(w) = p + 7 /\ w[p + 1] = 5 /\ w[p + 2] = 0
  <2>1. p + 1 \in 1..(p + 2) /\ p + 2 \in 1..(p + 2) OBVIOUS
  <2>2. IsSequence(w) /\ Len(w) = p + 7 /\ \A j \in 1..(p + 2) : w[j] = v[j]
    BY Zenon, <1>7, <1>8, <1>9 DEF IsJoin
  <2> QED BY Zenon, <1>8, <2>1, <2>2
<1>11. Holding(v, wr)
  <2>1. p <= p OBVIOUS
  <2>2. Len(st) \in Nat /\ After(Len(wr)) <= Len(st) BY Zenon, <1>1, <2>1
  <2> QED BY Zenon, <1>4, <1>5, <2>2, HoldingKept
<1>12. Holding(w, wr)
  <2>1. p + 2 \in Nat /\ p <= p + 2 OBVIOUS
  <2>2. Len(v) \in Nat /\ After(Len(wr)) <= Len(v) BY Zenon, <1>1, <1>8, <2>1
  <2> QED BY Zenon, <1>5, <1>8, <1>11, <2>2, HoldingKept
<1>13. CutAfter(st, p) /\ CutAfter(v, p) /\ CutAfter(w, p)
  BY Zenon, <1>1, <1>7, <1>8, <1>10 DEF CutAfter
<1>14. u \in {st, v, w} BY Zenon, <1>2, <1>5
<1> QED BY Zenon, <1>1, <1>8, <1>10, <1>11, <1>12, <1>13, <1>14

-----------------------------------------------------------------------------
(* What the reader makes of what is left of a file.                        *)

Survives(d, st) == Len(d) \in Nat /\ Len(d) <= Len(st) /\ \A j \in 1..Len(d) : d[j] = st[j]

LastOf(m) == IF m = 0 THEN None ELSE m - 1

\* What read_record does after m whole records of a file that survived in part.
Reads(d, wr, m, rd) ==
    \/ Len(d) = After(m) /\ read_record(d, rd).tag = "eof"
    \/ /\ After(m) < Len(d) /\ Len(d) < After(m + 1) /\ read_record(d, rd).tag = "Truncated"
       /\ Advanced(d, rd) = ReaderAt("Truncated", After(m), LastOf(m))
    \/ /\ m + 1 \in 0..Len(wr) /\ After(m + 1) <= Len(d)
       /\ read_record(d, rd) = [tag |-> "record", record |-> wr[m + 1]]
       /\ Advanced(d, rd) = ReaderAt("open", After(m + 1), LastOf(m + 1))

\* A reader behind m whole records meets the end, a cut frame or record m + 1.
LEMMA ReadsOn ==
  ASSUME NEW d, NEW st, NEW wr, IsSequence(wr), RecordsOf(wr), Holding(st, wr),
         CutAfter(st, After(Len(wr))), Survives(d, st), NEW m \in 0..Len(wr), After(m) <= Len(d)
  PROVE  Reads(d, wr, m, ReaderAt("open", After(m), LastOf(m)))
<1>1. PICK n \in Nat, L \in Nat : n = Len(wr) /\ L = Len(d)
  <2>1. Len(wr) \in Nat /\ Len(d) \in Nat BY Zenon, SequenceGrows DEF Survives
  <2> QED BY Zenon, <2>1
<1>2. m \in 0..n BY Zenon, <1>1
<1>3. m \in Nat /\ m <= n /\ n \in Nat BY <1>2
<1>4. PICK p \in Nat, e \in Nat : p = After(m) /\ e = After(n) /\ (m < n => p + 9 <= e) /\ After(m + 1) = p + 9
  BY Zenon, <1>3, AfterIs
<1>5. p <= L BY Zenon, <1>1, <1>4
<1>6. L <= e + 7
  <2>1. PICK s : s = Len(st) BY Zenon
  <2>2. s \in {e, e + 2, e + 7} /\ L <= s BY Zenon, <1>1, <1>4, <2>1 DEF CutAfter, Survives
  <2> QED BY <2>2
<1>7. PICK rd : rd = ReaderAt("open", p, LastOf(m)) BY Zenon
<1>8. CASE L = p
  <2>1. rd.pos = p BY Zenon, <1>7 DEF ReaderAt
  <2>2. L - p = 0 BY <1>8
  <2>3. read_exact_or_eof(d, rd) = "eof" BY Zenon, <1>1, <2>1, <2>2 DEF read_exact_or_eof
  <2>4. read_record(d, rd) = [tag |-> "eof", record |-> None] BY Zenon, <2>3 DEF read_record
  <2>5. PICK r : r = read_record(d, rd) BY Zenon
  <2>6. r = [tag |-> "eof", record |-> None] BY Zenon, <2>4, <2>5
  <2>7. r.tag = "eof" BY <2>6
  <2> QED BY Zenon, <1>1, <1>4, <1>7, <1>8, <2>5, <2>7 DEF Reads
<1>9. \A j \in 1..L : d[j] = st[j] BY Zenon, <1>1 DEF Survives
<1>10. ASSUME m < n
       PROVE  \A j \in 1..9 : st[p + j] = RecordCells(wr[m + 1])[j]
  <2>1. m + 1 \in 1..n /\ (m + 1) - 1 = m BY <1>3, <1>10
  <2>2. \A i \in 1..n : \A j \in 1..9 : st[After(i - 1) + j] = RecordCells(wr[i])[j]
    BY Zenon, <1>1 DEF Holding
  <2> QED BY Zenon, <1>4, <2>1, <2>2
<1>11. ASSUME m < n
       PROVE  \E c \in Captured : wr[m + 1] = [seq |-> m, event |-> c]
  <2>1. m + 1 \in 1..n /\ (m + 1) - 1 = m BY <1>3, <1>11
  <2>2. \A i \in 1..n : \E c \in Captured : wr[i] = [seq |-> i - 1, event |-> c] BY Zenon, <1>1 DEF RecordsOf
  <2> QED BY Zenon, <2>1, <2>2
<1>12. CASE p < L /\ L < p + 9
  <2>1. L >= p + 2 => d[p + 1] = 5 /\ d[p + 2] = 0
    <3> HAVE L >= p + 2
    <3>1. p + 1 \in 1..L /\ p + 2 \in 1..L /\ 1 \in 1..9 /\ 2 \in 1..9 OBVIOUS
    <3>2. d[p + 1] = st[p + 1] /\ d[p + 2] = st[p + 2] BY Zenon, <1>9, <3>1
    <3>3. CASE m < n
      <4>1. PICK c \in Captured : wr[m + 1] = [seq |-> m, event |-> c] BY Zenon, <1>11, <3>3
      <4>2. PICK r, b : r = wr[m + 1] /\ b = encode_body(m, c) BY Zenon
      <4>3. RecordCells(r) = Frame(b) /\ IsSequence(b) /\ Len(b) = 5 BY Zenon, <4>1, <4>2, CapturedCells
      <4>4. Frame(b)[1] = 5 /\ Frame(b)[2] = 0 BY Zenon, <4>3, FrameIs
      <4>5. st[p + 1] = RecordCells(r)[1] /\ st[p + 2] = RecordCells(r)[2] BY Zenon, <1>10, <3>1, <3>3, <4>2
      <4> QED BY Zenon, <3>2, <4>3, <4>4, <4>5
    <3>4. CASE m = n
      <4>1. PICK s : s = Len(st) BY Zenon
      <4>2. s \in {p, p + 2, p + 7} /\ L <= s BY Zenon, <1>1, <1>4, <3>4, <4>1 DEF CutAfter, Survives
      <4>3. s > p BY <1>12, <4>2
      <4>4. st[p + 1] = 5 /\ st[p + 2] = 0 BY Zenon, <1>1, <1>4, <3>4, <4>1, <4>3 DEF CutAfter
      <4> QED BY Zenon, <3>2, <4>4
    <3> QED BY <1>3, <3>3, <3>4
  <2>2. /\ read_record(d, ReaderAt("open", p, LastOf(m))).tag = "Truncated"
        /\ Advanced(d, ReaderAt("open", p, LastOf(m))) = ReaderAt("Truncated", p, LastOf(m))
    BY ZenonT(30), <1>1, <1>12, <2>1, ReadCut
  <2> QED BY Zenon, <1>1, <1>4, <1>12, <2>2 DEF Reads
<1>13. CASE p + 9 <= L
  <2>1. m < n
    <3>1. CASE m = n
      <4>1. e = p BY Zenon, <1>4, <3>1
      <4> QED BY <1>6, <1>13, <4>1
    <3> QED BY <1>3, <3>1
  <2>2. PICK c \in Captured : wr[m + 1] = [seq |-> m, event |-> c] BY Zenon, <1>11, <2>1
  <2>3. PICK r, b : r = wr[m + 1] /\ b = encode_body(m, c) BY Zenon
  <2>4. RecordCells(r) = Frame(b) /\ IsSequence(b) /\ Len(b) = 5 BY Zenon, <2>2, <2>3, CapturedCells
  <2>5. b[1] = m
    <3>1. IsBody(m, c, b) BY Zenon, <2>3, BodyIs
    <3> QED BY Zenon, <3>1 DEF IsBody
  <2>6. Holds(d, p, Frame(b))
    <3>1. Len(Frame(b)) = 9 BY Zenon, <2>4, FrameIs
    <3>2. \A j \in 1..9 : p + j \in 1..L BY <1>13
    <3>3. \A j \in 1..9 : st[p + j] = Frame(b)[j] BY Zenon, <1>10, <2>1, <2>3, <2>4
    <3> QED BY Zenon, <1>9, <3>1, <3>2, <3>3 DEF Holds
  <2>7. check_monotonic(LastOf(m), b[1])
    <3>1. CASE m = 0 BY Zenon, <3>1 DEF check_monotonic, LastOf
    <3>2. CASE m # 0
      <4>1. m > m - 1 BY <1>3
      <4> QED BY Zenon, <2>5, <3>2, <4>1 DEF check_monotonic, LastOf
    <3> QED BY Zenon, <3>1, <3>2
  <2>8. /\ read_record(d, ReaderAt("open", p, LastOf(m))) =
              [tag |-> "record", record |-> decode_body(FORMAT_VERSION, b)]
        /\ Advanced(d, ReaderAt("open", p, LastOf(m))) = ReaderAt("open", p + 9, b[1])
    <3>1. Len(d) \in Nat /\ p + 9 <= Len(d) BY Zenon, <1>1, <1>13
    <3>2. ReadsWhole(d, p, LastOf(m), b) BY Zenon, <2>4, <2>6, <2>7, <3>1, ReadWhole
    <3> QED BY Zenon, <3>2 DEF ReadsWhole
  <2>9. decode_body(FORMAT_VERSION, b) = wr[m + 1] BY Zenon, <2>2, <2>3, DecodeIs
  <2>10. LastOf(m + 1) = m
    <3>1. m + 1 # 0 /\ (m + 1) - 1 = m BY <1>3
    <3> QED BY Zenon, <3>1 DEF LastOf
  <2>11. m + 1 \in 0..n BY <1>3, <2>1
  <2> QED BY Zenon, <1>1, <1>4, <1>13, <2>5, <2>8, <2>9, <2>10, <2>11 DEF Reads
<1>14. L = p \/ (p < L /\ L < p + 9) \/ p + 9 <= L BY <1>5
<1> QED BY Zenon, <1>8, <1>12, <1>13, <1>14

=============================================================================
