------------------------------ MODULE Results ------------------------------
(***************************************************************************)
(* What the first two bytes of a result tell: the functions that           *)
(* categorise the entries of DQRR and of user-provided storage, and those  *)
(* that read the flags of a frame dequeue.                                 *)
(***************************************************************************)
EXTENDS Integers

QB_VALID_BIT == 128

\* Bit k of a byte.
Bit(byte, k) == (byte \div 2^k) % 2

\* The codes in the verb byte, next to the valid bit.
QBMAN_RESULT ==
  [DQ |-> 96, FQRN |-> 33, FQRNI |-> 34, FQPN |-> 36, FQDAN |-> 37, CDAN |-> 38,
   CSCN_MEM |-> 39, CGCU |-> 40, BPSCN |-> 41, CSCN_WQ |-> 42]

\* verb & QBMAN_RESPONSE_VERB_MASK
ResponseVerb(verb) == verb % QB_VALID_BIT

result_is(verb, x) == ResponseVerb(verb) = QBMAN_RESULT[x]

is_CSCN(verb) == result_is(verb, "CSCN_MEM") \/ result_is(verb, "CSCN_WQ")

\* The categories whose predicate holds of a verb; both kinds of CSCN are one.
Recognised(verb) ==
  {c \in DOMAIN QBMAN_RESULT \ {"CSCN_MEM", "CSCN_WQ"} : result_is(verb, c)}
    \cup (IF is_CSCN(verb) THEN {"CSCN"} ELSE {})

\* qbman_result_DQ_is_pull and _is_pull_complete, on the flags.
DQ_is_pull(stat)          == Bit(stat, 1) = 1
DQ_is_pull_complete(stat) == Bit(stat, 0) = 1
=============================================================================
