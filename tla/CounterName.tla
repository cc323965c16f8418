----------------------------- MODULE CounterName -----------------------------
(***************************************************************************)
(* parse_app_pegasus_perf_counter_name of src/src/shell/command_helper.h:  *)
(* the name of a replica's perf counter, "<section>*<counter>@<app>.<pidx>"*)
(* on the wire, is split into the app id, the partition index and the      *)
(* counter name.  A name is a sequence of one-character strings; positions *)
(* are 1-based and 0 stands for std::string::npos.                         *)
(***************************************************************************)
EXTENDS Integers, Sequences

DigitSeq == <<"0", "1", "2", "3", "4", "5", "6", "7", "8", "9">>
Digits == {"0", "1", "2", "3", "4", "5", "6", "7", "8", "9"}
DigitVal(c) == CHOOSE k \in 0 .. 9 : DigitSeq[k + 1] = c

\* std::string::find_last_of(c): the last position of c, or npos.
FindLastOf(s, c) ==
    LET at == {i \in 1 .. Len(s) : s[i] = c}
    IN  IF at = {} THEN 0 ELSE CHOOSE i \in at : \A j \in at : j <= i

\* The value of a run of decimal digits, accumulated from the left.
DecimalValue(ds) ==
    LET val[i \in 0 .. Len(ds)] == IF i = 0 THEN 0 ELSE 10 * val[i - 1] + DigitVal(ds[i])
    IN  val[Len(ds)]

(***************************************************************************)
(* One "%d" conversion of sscanf at position k of t: an optional sign and  *)
(* the longest run of digits after it (no white space occurs in counter   *)
(* names).  "next" is the position after the digits.                       *)
(***************************************************************************)
ScanInt(t, k) ==
    LET signed == k <= Len(t) /\ t[k] \in {"+", "-"}
        first  == IF signed THEN k + 1 ELSE k
        ends   == {j \in first .. Len(t) : \A x \in first .. j : t[x] \in Digits}
        last   == CHOOSE j \in ends : \A x \in ends : x <= j
    IN  IF ends = {}
        THEN [ok |-> FALSE]
        ELSE [ok   |-> TRUE,
              val  |-> IF signed /\ t[k] = "-"
                       THEN -DecimalValue(SubSeq(t, first, last))
                       ELSE DecimalValue(SubSeq(t, first, last)),
              next |-> last + 1]

(***************************************************************************)
(* std::string::substr(pos, n) with n of type size_type: a negative        *)
(* "find - find2 - 1" wraps around to a huge count, which takes the rest   *)
(* of the string.  pos never exceeds the length here, so substr does not   *)
(* throw.                                                                  *)
(***************************************************************************)
Substr(s, pos, n) ==
    SubSeq(s, pos, IF n < 0 \/ pos + n - 1 > Len(s) THEN Len(s) ELSE pos + n - 1)

Fail == [ok |-> FALSE]

\* Mutant of the counter name extraction: the count is one too large.
CounterOfLong(s, find, find2) == Substr(s, find2 + 1, find - find2)

\* counter_name = name.substr(find2 + 1, find - find2 - 1)
CounterOf(s, find, find2) == Substr(s, find2 + 1, find - find2 - 1)

\* The whole function: the three early "return false" and the result.
ParseCounterName(s) ==
    LET find == FindLastOf(s, "@")
        t    == SubSeq(s, find + 1, Len(s))
        a    == ScanInt(t, 1)
        b    == ScanInt(t, a.next + 1)
        find2 == FindLastOf(s, "*")
    IN  IF find = 0 THEN Fail
        ELSE IF ~a.ok THEN Fail
        ELSE IF a.next > Len(t) \/ t[a.next] # "." THEN Fail
        ELSE IF ~b.ok THEN Fail
        ELSE IF find2 = 0 THEN Fail
        ELSE [ok |-> TRUE, app |-> a.val, part |-> b.val,
              counter |-> CounterOf(s, find, find2)]

-----------------------------------------------------------------------------
(***************************************************************************)
(* The naming scheme of the specification, as a reference definition:      *)
(* "...*<metric>@<entity>.<partition>...", where the metric and what       *)
(* follows the '@' hold neither delimiter, and both numbers are integer    *)
(* literals (an optional sign and the longest run of digits).              *)
(***************************************************************************)
IsIntLiteral(u) ==
    \/ Len(u) > 0 /\ \A x \in 1 .. Len(u) : u[x] \in Digits
    \/ Len(u) > 1 /\ u[1] \in {"+", "-"} /\ \A x \in 2 .. Len(u) : u[x] \in Digits

IntOf(u) == IF u[1] = "-" THEN -DecimalValue(Tail(u))
            ELSE IF u[1] = "+" THEN DecimalValue(Tail(u))
            ELSE DecimalValue(u)

\* <<star, at, dot, end>>: the positions of the delimiters and of the last
\* digit of the partition index in a name of the scheme.
SchemeSplits(s) ==
    LET at(c) == {x \in 1 .. Len(s) : s[x] = c}
    IN  { q \in at("*") \X at("@") \X at(".") \X (1 .. Len(s)) :
        /\ q[1] < q[2] /\ q[2] < q[3] /\ q[3] < q[4]
        /\ s[q[1]] = "*" /\ s[q[2]] = "@" /\ s[q[3]] = "."
        /\ \A x \in q[1] + 1 .. Len(s) : x # q[2] => s[x] \notin {"*", "@"}
        /\ IsIntLiteral(SubSeq(s, q[2] + 1, q[3] - 1))
        /\ IsIntLiteral(SubSeq(s, q[3] + 1, q[4]))
        /\ q[4] = Len(s) \/ s[q[4] + 1] \notin Digits }

SchemeParse(s) ==
    IF SchemeSplits(s) = {} THEN Fail
    ELSE LET q == CHOOSE q \in SchemeSplits(s) : TRUE
         IN  [ok |-> TRUE,
              app |-> IntOf(SubSeq(s, q[2] + 1, q[3] - 1)),
              part |-> IntOf(SubSeq(s, q[3] + 1, q[4])),
              counter |-> SubSeq(s, q[1] + 1, q[2] - 1)]

=============================================================================
