-------------------------- MODULE CounterNameProofs --------------------------
(***************************************************************************)
(* parse_app_pegasus_perf_counter_name accepts every name of the naming    *)
(* scheme, of any length, and returns the fields the scheme puts in it.    *)
(*                                                                         *)
(* The argument follows the code.  In a name of the scheme the '@' after   *)
(* the metric is the last '@' and the '*' before it the last '*', so the   *)
(* two find_last_of calls land on the scheme's delimiters.  Each "%d" of   *)
(* sscanf starts on an integer literal that ends before a non-digit, and   *)
(* reads exactly that literal (ScanIntLiteral).  substr's count is not     *)
(* negative there, so it takes the metric.  The value of a digit run is    *)
(* never computed: both sides apply DecimalValue to the same sequence.     *)
(* ParseCorrect lifts this to the model: the result the merge loop holds   *)
(* after the call is the scheme's reading of the name.                     *)
(***************************************************************************)
EXTENDS MCCounterName, SequenceTheorems, TLAPS

-----------------------------------------------------------------------------
(* Lemmas about sequences, stated for all arguments so that they apply to  *)
(* compound terms such as SubSeq(s, m, n).                                 *)

\* SubSeq(s, m, n) within the bounds of s: its length and its elements.
SubSeqSpec(S, s, m, n) ==
    s \in Seq(S) /\ m \in 1 .. Len(s) + 1 /\ n \in m - 1 .. Len(s) =>
        /\ SubSeq(s, m, n) \in Seq(S)
        /\ Len(SubSeq(s, m, n)) = n - m + 1
        /\ \A i \in 1 .. n - m + 1 : SubSeq(s, m, n)[i] = s[m + i - 1]

LEMMA SubSeqFacts == \A S, s, m, n : SubSeqSpec(S, s, m, n)
<1> SUFFICES ASSUME NEW S, NEW s, NEW m, NEW n,
                    s \in Seq(S), m \in 1 .. Len(s) + 1, n \in m - 1 .. Len(s)
             PROVE  /\ SubSeq(s, m, n) \in Seq(S)
                    /\ Len(SubSeq(s, m, n)) = n - m + 1
                    /\ \A i \in 1 .. n - m + 1 : SubSeq(s, m, n)[i] = s[m + i - 1]
  BY DEF SubSeqSpec
<1>1. \A i \in m .. n : s[i] \in S
  BY ElementOfSeq
<1>2. m \in Int /\ n \in Int
  OBVIOUS
<1>3. QED
  BY <1>1, <1>2, SubSeqProperties

\* Two sequences of the same length and elements are equal.
SeqEqSpec(S, a, b) ==
    a \in Seq(S) /\ b \in Seq(S) /\ Len(a) = Len(b) /\ (\A i \in 1 .. Len(a) : a[i] = b[i])
        => a = b

LEMMA SeqExt == \A S, a, b : SeqEqSpec(S, a, b)
<1> SUFFICES ASSUME NEW S, NEW a, NEW b, a \in Seq(S), b \in Seq(S), Len(a) = Len(b),
                    \A i \in 1 .. Len(a) : a[i] = b[i]
             PROVE  a = b
  BY Zenon DEF SeqEqSpec
<1> QED
  BY SeqEqual

-----------------------------------------------------------------------------
(* One "%d" conversion.                                                    *)

\* A sign is not a digit.
LEMMA SignNotDigit == "+" \notin Digits /\ "-" \notin Digits /\ "." \notin Digits
BY DEF Digits

(***************************************************************************)
(* sscanf's "%d" at position k of t, where t[k .. e] is an integer literal *)
(* (an optional sign, then digits) and t[e + 1], if any, is not a digit,  *)
(* reads exactly that literal: its value is the literal's, and the scan    *)
(* goes on at e + 1.                                                       *)
(***************************************************************************)
ScanSpec(S, t, k, e) ==
    /\ t \in Seq(S) /\ k \in 1 .. Len(t) /\ e \in k .. Len(t)
    /\ IsIntLiteral(SubSeq(t, k, e))
    /\ e = Len(t) \/ t[e + 1] \notin Digits
    => ScanInt(t, k) = [ok |-> TRUE, val |-> IntOf(SubSeq(t, k, e)), next |-> e + 1]

LEMMA ScanIntLiteral == \A S, t, k, e : ScanSpec(S, t, k, e)
<1> SUFFICES ASSUME NEW S, NEW t, NEW k, NEW e PROVE ScanSpec(S, t, k, e)
  OBVIOUS
<1> SUFFICES ASSUME t \in Seq(S), k \in 1 .. Len(t), e \in k .. Len(t),
                    IsIntLiteral(SubSeq(t, k, e)),
                    e = Len(t) \/ t[e + 1] \notin Digits
             PROVE  ScanInt(t, k) = [ok |-> TRUE, val |-> IntOf(SubSeq(t, k, e)), next |-> e + 1]
  BY DEF ScanSpec
<1> DEFINE signed == k <= Len(t) /\ t[k] \in {"+", "-"}
           first  == IF signed THEN k + 1 ELSE k
           ends   == {j \in first .. Len(t) : \A x \in first .. j : t[x] \in Digits}
           last   == CHOOSE j \in ends : \A x \in ends : x <= j
<1>0. PICK u : u = SubSeq(t, k, e)
  OBVIOUS
<1>1. /\ u \in Seq(S) /\ Len(u) = e - k + 1
      /\ \A i \in 1 .. e - k + 1 : u[i] = t[k + i - 1]
  <2>1. SubSeqSpec(S, t, k, e)
    BY SubSeqFacts
  <2>2. QED
    BY <1>0, <2>1 DEF SubSeqSpec
<1>2. u[1] = t[k] /\ u # << >> /\ IsIntLiteral(u)
  BY <1>0, <1>1
\* The literal's digits: all of t[first .. e], and first <= e.
<1>3. first \in k .. e /\ \A x \in first .. e : t[x] \in Digits
  <2>1. CASE signed
    <3>1. ~(\A x \in 1 .. Len(u) : u[x] \in Digits)
      BY <2>1, <1>1, <1>2, SignNotDigit
    <3>2. Len(u) > 1 /\ \A x \in 2 .. Len(u) : u[x] \in Digits
      BY <1>2, <3>1 DEF IsIntLiteral
    <3>3. first = k + 1
      BY <2>1
    <3>4. \A x \in k + 1 .. e : t[x] = u[x - k + 1] /\ x - k + 1 \in 2 .. Len(u)
      BY <1>1
    <3>5. ASSUME NEW x \in k + 1 .. e PROVE t[x] \in Digits
      <4>1. t[x] = u[x - k + 1] /\ x - k + 1 \in 2 .. Len(u)
        BY <3>4
      <4>2. QED
        BY <4>1, <3>2
    <3>6. k + 1 <= e
      BY <3>2, <1>1
    <3>7. QED
      BY <3>3, <3>5, <3>6
  <2>2. CASE ~signed
    <3>1. ~(u[1] \in {"+", "-"})
      BY <2>2, <1>2
    <3>2. \A x \in 1 .. Len(u) : u[x] \in Digits
      BY <1>2, <3>1 DEF IsIntLiteral
    <3>3. first = k
      BY <2>2
    <3>4. \A x \in k .. e : t[x] = u[x - k + 1] /\ x - k + 1 \in 1 .. Len(u)
      BY <1>1
    <3>5. ASSUME NEW x \in k .. e PROVE t[x] \in Digits
      <4>1. t[x] = u[x - k + 1] /\ x - k + 1 \in 1 .. Len(u)
        BY <3>4
      <4>2. QED
        BY <4>1, <3>2
    <3>6. QED
      BY <3>3, <3>5
  <2>3. QED
    BY <2>1, <2>2
\* The longest run of digits from first ends at e.
<1>4. ends = first .. e
  <2>1. ASSUME NEW j \in ends PROVE j <= e
    <3>1. SUFFICES ASSUME j > e PROVE FALSE
      OBVIOUS
    <3>2. e < Len(t) /\ e + 1 \in first .. j
      BY <3>1, <1>3
    <3>3. t[e + 1] \notin Digits
      BY <3>2
    <3>4. QED
      BY <3>2, <3>3
  <2>2. QED
    BY <2>1, <1>3
<1>5. last = e
  BY <1>3, <1>4
<1>6. ScanInt(t, k) = [ok |-> TRUE,
                       val |-> IF signed /\ t[k] = "-"
                               THEN -DecimalValue(SubSeq(t, first, e))
                               ELSE DecimalValue(SubSeq(t, first, e)),
                       next |-> e + 1]
  <2>1. ends # {}
    BY <1>3, <1>4
  <2>2. ScanInt(t, k) =
          IF ends = {} THEN [ok |-> FALSE]
          ELSE [ok |-> TRUE,
                val |-> IF signed /\ t[k] = "-"
                        THEN -DecimalValue(SubSeq(t, first, last))
                        ELSE DecimalValue(SubSeq(t, first, last)),
                next |-> last + 1]
    BY DEF ScanInt
  <2>3. QED
    BY <2>1, <2>2, <1>5
\* The literal's value, read by IntOf from its first character.
<1>7. CASE signed
  <2>1. Tail(u) = SubSeq(t, k + 1, e)
    <3>1. Tail(u) \in Seq(S) /\ Len(Tail(u)) = Len(u) - 1
          /\ \A i \in 1 .. Len(Tail(u)) : Tail(u)[i] = u[i + 1]
      BY <1>1, <1>2, HeadTailProperties
    <3>2. SubSeqSpec(S, t, k + 1, e)
      BY SubSeqFacts
    <3>3. SeqEqSpec(S, Tail(u), SubSeq(t, k + 1, e))
      BY SeqExt
    <3>4. QED
      BY <1>1, <1>3, <1>7, <3>1, <3>2, <3>3 DEF SubSeqSpec, SeqEqSpec
  <2>2. IntOf(u) = IF t[k] = "-" THEN -DecimalValue(SubSeq(t, k + 1, e))
                                 ELSE DecimalValue(SubSeq(t, k + 1, e))
    BY <1>2, <1>7, <2>1 DEF IntOf
  <2>3. QED
    BY <1>0, <1>6, <1>7, <2>2
<1>8. CASE ~signed
  <2>1. IntOf(u) = DecimalValue(u)
    BY <1>2, <1>8 DEF IntOf
  <2>2. QED
    BY <1>0, <1>6, <1>8, <2>1
<1>9. QED
  BY <1>7, <1>8

-----------------------------------------------------------------------------
(* find_last_of.                                                           *)

\* find_last_of(c) is p when s[p] = c and no c follows it.
FindSpec(s, c, p) ==
    p \in 1 .. Len(s) /\ s[p] = c /\ (\A x \in p + 1 .. Len(s) : s[x] # c)
        => FindLastOf(s, c) = p

LEMMA FindLast == \A s, c, p : FindSpec(s, c, p)
<1> SUFFICES ASSUME NEW s, NEW c, NEW p,
                    p \in 1 .. Len(s), s[p] = c, \A x \in p + 1 .. Len(s) : s[x] # c
             PROVE  FindLastOf(s, c) = p
  BY DEF FindSpec
<1> DEFINE at == {i \in 1 .. Len(s) : s[i] = c}
<1>1. p \in at /\ \A j \in at : j <= p
  OBVIOUS
<1>2. \A i \in at : (\A j \in at : j <= i) => i = p
  BY <1>1
<1>3. (CHOOSE i \in at : \A j \in at : j <= i) = p
  BY <1>1, <1>2
<1>4. QED
  BY <1>1, <1>3 DEF FindLastOf

-----------------------------------------------------------------------------
(* The whole parser on a name of the scheme.                               *)

\* The fields a split q of the scheme puts in the name s.
SchemeFields(s, q) ==
    [ok |-> TRUE, app |-> IntOf(SubSeq(s, q[2] + 1, q[3] - 1)),
     part |-> IntOf(SubSeq(s, q[3] + 1, q[4])),
     counter |-> SubSeq(s, q[1] + 1, q[2] - 1)]

\* The parser on a name whose last '*', last '@' and the '.' after it are at
\* p1 < p2 < p3, with integer literals between p2 and p3 and from p3 to p4.
SplitSpec(S, s, p1, p2, p3, p4) ==
    /\ s \in Seq(S)
    /\ p1 \in 1 .. Len(s) /\ p2 \in 1 .. Len(s) /\ p3 \in 1 .. Len(s) /\ p4 \in 1 .. Len(s)
    /\ p1 < p2 /\ p2 < p3 /\ p3 < p4
    /\ s[p1] = "*" /\ s[p2] = "@" /\ s[p3] = "."
    /\ \A x \in p1 + 1 .. Len(s) : x # p2 => s[x] \notin {"*", "@"}
    /\ IsIntLiteral(SubSeq(s, p2 + 1, p3 - 1))
    /\ IsIntLiteral(SubSeq(s, p3 + 1, p4))
    /\ p4 = Len(s) \/ s[p4 + 1] \notin Digits
    => ParseCounterName(s) =
         [ok |-> TRUE, app |-> IntOf(SubSeq(s, p2 + 1, p3 - 1)),
          part |-> IntOf(SubSeq(s, p3 + 1, p4)),
          counter |-> SubSeq(s, p1 + 1, p2 - 1)]

LEMMA ParseOfSplit == \A S, s, p1, p2, p3, p4 : SplitSpec(S, s, p1, p2, p3, p4)
<1> SUFFICES ASSUME NEW S, NEW s, NEW p1, NEW p2, NEW p3, NEW p4
             PROVE  SplitSpec(S, s, p1, p2, p3, p4)
  OBVIOUS
<1> SUFFICES
      ASSUME s \in Seq(S),
           p1 \in 1 .. Len(s), p2 \in 1 .. Len(s),
           p3 \in 1 .. Len(s), p4 \in 1 .. Len(s),
           p1 < p2, p2 < p3, p3 < p4,
           s[p1] = "*", s[p2] = "@", s[p3] = ".",
           \A x \in p1 + 1 .. Len(s) : x # p2 => s[x] \notin {"*", "@"},
           IsIntLiteral(SubSeq(s, p2 + 1, p3 - 1)),
           IsIntLiteral(SubSeq(s, p3 + 1, p4)),
           p4 = Len(s) \/ s[p4 + 1] \notin Digits
      PROVE  ParseCounterName(s) =
               [ok |-> TRUE, app |-> IntOf(SubSeq(s, p2 + 1, p3 - 1)),
                part |-> IntOf(SubSeq(s, p3 + 1, p4)),
                counter |-> SubSeq(s, p1 + 1, p2 - 1)]
  BY DEF SplitSpec
\* The two find_last_of calls land on the scheme's '@' and '*'.
<1>2. FindLastOf(s, "@") = p2
  <2>1. FindSpec(s, "@", p2)
    BY FindLast
  <2>2. \A x \in p2 + 1 .. Len(s) : s[x] # "@"
    OBVIOUS
  <2>3. QED
    BY <2>1, <2>2 DEF FindSpec
<1>3. FindLastOf(s, "*") = p1
  <2>1. FindSpec(s, "*", p1)
    BY FindLast
  <2>2. \A x \in p1 + 1 .. Len(s) : s[x] # "*"
    OBVIOUS
  <2>3. QED
    BY <2>1, <2>2 DEF FindSpec
\* What sscanf reads: the name after the '@'.
<1>4. PICK t : t = SubSeq(s, p2 + 1, Len(s))
  OBVIOUS
<1>5. /\ t \in Seq(S) /\ Len(t) = Len(s) - p2
      /\ \A i \in 1 .. Len(s) - p2 : t[i] = s[p2 + i]
  <2>1. SubSeqSpec(S, s, p2 + 1, Len(s))
    BY SubSeqFacts
  <2>2. QED
    BY <1>4, <2>1 DEF SubSeqSpec
\* A piece of t is the piece of s shifted by p2.
<1>6. ASSUME NEW m \in 1 .. Len(t) + 1, NEW n \in m - 1 .. Len(t)
      PROVE  SubSeq(t, m, n) = SubSeq(s, p2 + m, p2 + n)
  <2>1. SubSeqSpec(S, t, m, n)
    BY SubSeqFacts
  <2>2. SubSeqSpec(S, s, p2 + m, p2 + n)
    BY SubSeqFacts
  <2>3. SeqEqSpec(S, SubSeq(t, m, n), SubSeq(s, p2 + m, p2 + n))
    BY SeqExt
  <2>4. /\ SubSeq(t, m, n) \in Seq(S) /\ Len(SubSeq(t, m, n)) = n - m + 1
        /\ \A i \in 1 .. n - m + 1 : SubSeq(t, m, n)[i] = t[m + i - 1]
    BY <1>5, <2>1 DEF SubSeqSpec
  <2>5. /\ SubSeq(s, p2 + m, p2 + n) \in Seq(S)
        /\ Len(SubSeq(s, p2 + m, p2 + n)) = n - m + 1
        /\ \A i \in 1 .. n - m + 1 : SubSeq(s, p2 + m, p2 + n)[i] = s[p2 + m + i - 1]
    BY <1>5, <2>2 DEF SubSeqSpec
  <2>6. \A i \in 1 .. n - m + 1 : t[m + i - 1] = s[p2 + m + i - 1]
    <3>1. SUFFICES ASSUME NEW i \in 1 .. n - m + 1
                   PROVE  t[m + i - 1] = s[p2 + m + i - 1]
      OBVIOUS
    <3>2. m + i - 1 \in 1 .. Len(s) - p2
      BY <1>5
    <3>3. t[m + i - 1] = s[p2 + (m + i - 1)]
      BY <1>5, <3>2
    <3>4. QED
      BY <3>3
  <2>7. QED
    BY <2>3, <2>4, <2>5, <2>6 DEF SeqEqSpec
\* The first "%d": the app id, up to the '.'.
<1>7. PICK a : a = ScanInt(t, 1)
  OBVIOUS
<1>8. a = [ok |-> TRUE, val |-> IntOf(SubSeq(s, p2 + 1, p3 - 1)), next |-> p3 - p2]
  <2> DEFINE e == p3 - p2 - 1
  <2>1. Len(SubSeq(s, p2 + 1, p3 - 1)) = e
    <3>1. SubSeqSpec(S, s, p2 + 1, p3 - 1)
      BY SubSeqFacts
    <3>2. QED
      BY <3>1 DEF SubSeqSpec
  <2>2. e \in 1 .. Len(t)
    <3>1. Len(SubSeq(s, p2 + 1, p3 - 1)) > 0
      BY DEF IsIntLiteral
    <3>2. QED
      BY <1>5, <2>1, <3>1
  <2>3. SubSeq(t, 1, e) = SubSeq(s, p2 + 1, p3 - 1)
    <3>1. 1 \in 1 .. Len(t) + 1 /\ e \in 1 - 1 .. Len(t) /\ p2 + e = p3 - 1
      BY <1>5, <2>2
    <3>2. SubSeq(t, 1, e) = SubSeq(s, p2 + 1, p2 + e)
      BY <1>6, <3>1
    <3>3. QED
      BY <3>1, <3>2
  <2>4. t[e + 1] \notin Digits
    <3>1. t[e + 1] = s[p3]
      BY <1>5
    <3>2. QED
      BY <3>1, SignNotDigit
  <2>5. ScanSpec(S, t, 1, e)
    BY ScanIntLiteral
  <2>6. IsIntLiteral(SubSeq(t, 1, e))
    BY <2>3
  <2>7. ScanInt(t, 1) = [ok |-> TRUE, val |-> IntOf(SubSeq(t, 1, e)), next |-> e + 1]
    BY <1>5, <2>2, <2>4, <2>5, <2>6 DEF ScanSpec
  <2>8. IntOf(SubSeq(t, 1, e)) = IntOf(SubSeq(s, p2 + 1, p3 - 1))
    BY Zenon, <2>3
  <2>9. e + 1 = p3 - p2
    OBVIOUS
  <2>10. QED
    BY <1>7, <2>7, <2>8, <2>9
<1>9. a.next <= Len(t) /\ t[a.next] = "."
  BY <1>5, <1>8
\* The second "%d": the partition index, to the end of its digits.
<1>10. PICK b : b = ScanInt(t, a.next + 1)
  OBVIOUS
<1>11. b = [ok |-> TRUE, val |-> IntOf(SubSeq(s, p3 + 1, p4)), next |-> p4 - p2 + 1]
  <2> DEFINE k == p3 - p2 + 1
             e == p4 - p2
  <2>1. k \in 1 .. Len(t) /\ e \in k .. Len(t) /\ a.next + 1 = k
    BY <1>5, <1>8
  <2>2. SubSeq(t, k, e) = SubSeq(s, p3 + 1, p4)
    <3>1. k \in 1 .. Len(t) + 1 /\ e \in k - 1 .. Len(t) /\ p2 + k = p3 + 1 /\ p2 + e = p4
      BY <1>5, <2>1
    <3>2. SubSeq(t, k, e) = SubSeq(s, p2 + k, p2 + e)
      BY <1>6, <3>1
    <3>3. QED
      BY <3>1, <3>2
  <2>3. e = Len(t) \/ t[e + 1] \notin Digits
    <3>1. CASE p4 = Len(s)
      BY <1>5, <3>1
    <3>2. CASE p4 # Len(s)
      <4>1. e + 1 \in 1 .. Len(s) - p2 /\ p2 + (e + 1) = p4 + 1
        BY <3>2
      <4>2. t[e + 1] = s[p4 + 1]
        BY <1>5, <4>1
      <4>3. QED
        BY <3>2, <4>2
    <3>3. QED
      BY <3>1, <3>2
  <2>4. ScanSpec(S, t, k, e)
    BY ScanIntLiteral
  <2>5. IsIntLiteral(SubSeq(t, k, e))
    BY <2>2
  <2>6. ScanInt(t, k) = [ok |-> TRUE, val |-> IntOf(SubSeq(t, k, e)), next |-> e + 1]
    BY <1>5, <2>1, <2>3, <2>4, <2>5 DEF ScanSpec
  <2>7. QED
    BY <1>10, <2>1, <2>2, <2>6
\* substr(find2 + 1, find - find2 - 1) with a count that is not negative.
<1>12. CounterOf(s, p2, p1) = SubSeq(s, p1 + 1, p2 - 1)
  BY DEF CounterOf, Substr
<1>13. ParseCounterName(s) =
          IF p2 = 0 THEN Fail
          ELSE IF ~a.ok THEN Fail
          ELSE IF a.next > Len(t) \/ t[a.next] # "." THEN Fail
          ELSE IF ~b.ok THEN Fail
          ELSE IF p1 = 0 THEN Fail
          ELSE [ok |-> TRUE, app |-> a.val, part |-> b.val,
                counter |-> CounterOf(s, p2, p1)]
  BY <1>2, <1>3, <1>4, <1>7, <1>10 DEF ParseCounterName
<1>14. QED
  BY <1>8, <1>9, <1>11, <1>12, <1>13


\* The same for a split q of the scheme.
LEMMA ParseOfScheme ==
    ASSUME NEW S, NEW s \in Seq(S), NEW q \in SchemeSplits(s)
    PROVE  ParseCounterName(s) = SchemeFields(s, q)
<1>1. /\ q[1] \in 1 .. Len(s) /\ q[2] \in 1 .. Len(s) /\ q[3] \in 1 .. Len(s)
      /\ q[4] \in 1 .. Len(s)
      /\ q[1] < q[2] /\ q[2] < q[3] /\ q[3] < q[4]
      /\ s[q[1]] = "*" /\ s[q[2]] = "@" /\ s[q[3]] = "."
      /\ \A x \in q[1] + 1 .. Len(s) : x # q[2] => s[x] \notin {"*", "@"}
      /\ IsIntLiteral(SubSeq(s, q[2] + 1, q[3] - 1))
      /\ IsIntLiteral(SubSeq(s, q[3] + 1, q[4]))
      /\ q[4] = Len(s) \/ s[q[4] + 1] \notin Digits
  BY DEF SchemeSplits
<1>2. ParseCounterName(s) =
        [ok |-> TRUE, app |-> IntOf(SubSeq(s, q[2] + 1, q[3] - 1)),
         part |-> IntOf(SubSeq(s, q[3] + 1, q[4])),
         counter |-> SubSeq(s, q[1] + 1, q[2] - 1)]
  <2>1. SplitSpec(S, s, q[1], q[2], q[3], q[4])
    BY ParseOfSplit
  <2>2. QED
    BY <1>1, <2>1 DEF SplitSpec
<1>3. QED
  BY <1>2 DEF SchemeFields

\* A name the scheme reads is parsed to what the scheme reads.
LEMMA SchemeOk ==
    ASSUME NEW S, NEW s \in Seq(S), SchemeParse(s).ok
    PROVE  ParseCounterName(s) = SchemeParse(s)
<1>1. SchemeSplits(s) # {}
  BY DEF SchemeParse, Fail
<1>2. PICK q : q = CHOOSE r \in SchemeSplits(s) : TRUE
  OBVIOUS
<1>3. q \in SchemeSplits(s)
  BY <1>1, <1>2
<1>4. SchemeParse(s) = SchemeFields(s, q)
  BY <1>1, <1>2 DEF SchemeParse, SchemeFields
<1>5. ParseCounterName(s) = SchemeFields(s, q)
  BY <1>3, ParseOfScheme
<1>6. QED
  BY <1>4, <1>5

-----------------------------------------------------------------------------
(* The model: a name of Names handed once to the parser.                   *)

\* The inductive invariant: the name stays a string of Names, and after the
\* call the result is what the parser returns on it.
PInv ==
    /\ name \in Names
    /\ called => result = ParseCounterName(name)

LEMMA InitPInv == Init => PInv
  BY DEF Init, PInv

LEMMA NextPInv == PInv /\ [Call]_vars => PInv'
<1> SUFFICES ASSUME PInv, [Call]_vars PROVE PInv'
  OBVIOUS
<1>1. CASE Call
  BY <1>1 DEF PInv, Call
<1>2. CASE UNCHANGED vars
  BY <1>2 DEF PInv, vars
<1>3. QED
  BY <1>1, <1>2

LEMMA PInvScheme == PInv => ParseMatchesScheme
<1> SUFFICES ASSUME PInv, called, SchemeParse(name).ok
             PROVE  result = SchemeParse(name)
  BY DEF ParseMatchesScheme
<1>1. name \in Seq(STRING)
  BY NamesAssumption DEF PInv
<1>2. ParseCounterName(name) = SchemeParse(name)
  BY <1>1, SchemeOk
<1>3. QED
  BY <1>2 DEF PInv

(***************************************************************************)
(* The result of parse_app_pegasus_perf_counter_name on a name of the      *)
(* documented form "*<metric>@<app_id>.<partition_index>", of any length,   *)
(* is the app id, the partition index and the counter name the scheme puts *)
(* in it: ParseMatchesScheme holds in every state of the model.            *)
(***************************************************************************)
THEOREM ParseCorrect == Spec => []ParseMatchesScheme
<1>1. Init => PInv
  BY InitPInv
<1>2. PInv /\ [Call]_vars => PInv'
  BY NextPInv
<1>3. PInv => ParseMatchesScheme
  BY PInvScheme
<1>4. QED
  BY <1>1, <1>2, <1>3, PTL DEF Spec

=============================================================================
