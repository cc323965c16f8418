---------------------------- MODULE MCCounterName ----------------------------
(***************************************************************************)
(* Every counter name up to a length, over an alphabet holding both        *)
(* delimiters, the dot, a sign, a digit and a letter, is handed to the     *)
(* parser once; the properties compare its result with the scheme.         *)
(***************************************************************************)
EXTENDS CounterName

CONSTANT Names   \* the counter names a replica may report

\* Counter names are std::string values: sequences of characters.
ASSUME NamesAssumption == Names \subseteq Seq(STRING)

VARIABLES
    name,    \* the counter name m.name handed to the parser
    called,  \* the parser has been called
    result   \* what it returned: ok, and app_id, partition_index, counter_name

vars == <<name, called, result>>

Init ==
    /\ name \in Names
    /\ called = FALSE
    /\ result = Fail

\* The merge loop of get_app_stat calls parse_app_pegasus_perf_counter_name.
Call ==
    /\ ~called
    /\ called' = TRUE
    /\ result' = ParseCounterName(name)
    /\ UNCHANGED name

Spec == Init /\ [][Call]_vars

MCAlphabet == {"*", "@", ".", "-", "3", "a"}
MCNames == UNION {[1 .. n -> MCAlphabet] : n \in 0 .. 6}

\* The example of the specification: "*get_qps*rdb@7.3", with the metric
\* shortened to "g" and the section to "r".
MCSpecExample == {<<"*", "g", "*", "r", "@", "7", ".", "3">>}

(***************************************************************************)
(* A name of the documented form is accepted by                            *)
(* parse_app_pegasus_perf_counter_name, and it yields the app id, the      *)
(* partition index and the counter name the scheme puts in it (sscanf's    *)
(* sign and longest digit run, substr's bounds).                           *)
(***************************************************************************)
ParseMatchesScheme ==
    called /\ SchemeParse(name).ok => result = SchemeParse(name)

(***************************************************************************)
(* The specification: parsing fails if the delimiters are not in the       *)
(* expected order.  parse_app_pegasus_perf_counter_name accepts only names *)
(* of the scheme.                                                          *)
(***************************************************************************)
ParseRejectsMalformed ==
    called /\ result.ok => SchemeParse(name).ok

(***************************************************************************)
(* The specification's example: "*get_qps*rdb@7.3" parses to app 7,        *)
(* partition 3 and the counter get_qps.                                    *)
(***************************************************************************)
SpecExampleParses ==
    called => result = [ok |-> TRUE, app |-> 7, part |-> 3, counter |-> <<"g">>]

=============================================================================
