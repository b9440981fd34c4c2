------------------------------ MODULE Tickets ------------------------------
(***************************************************************************)
(* What an array of command slots promises to several threads: a command   *)
(* is accepted while there is room, and each accepted command is executed  *)
(* once, in any order.  Commands are numbered as they are accepted.        *)
(***************************************************************************)
EXTENDS Integers, FiniteSets

CONSTANTS
  Capacity,  \* commands that may wait: the number of slots
  MaxCmds    \* bound on the number of commands, for model checking

VARIABLES
  accepted,  \* number of commands accepted so far
  executed   \* the commands executed so far

vars == <<accepted, executed>>

Init == accepted = 0 /\ executed = {}

Accept ==
  /\ accepted - Cardinality(executed) < Capacity /\ accepted < MaxCmds
  /\ accepted' = accepted + 1
  /\ UNCHANGED executed

Execute(c) ==
  /\ c \in 1..accepted /\ c \notin executed
  /\ executed' = executed \cup {c}
  /\ UNCHANGED accepted

Next == Accept \/ \E c \in 1..MaxCmds : Execute(c)

Spec == Init /\ [][Next]_vars

\* No accepted command is left behind.
FairSpec == Spec /\ \A c \in 1..MaxCmds : WF_vars(Execute(c))
=============================================================================
