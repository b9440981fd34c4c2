------------------------------ MODULE Mailbox ------------------------------
(***************************************************************************)
(* What the management command interface promises as long as QMan answers  *)
(* in time: one command at a time is sent, QMan executes it once, and then *)
(* the caller has its answer.  Commands are numbered as they are sent.     *)
(***************************************************************************)
EXTENDS Integers

CONSTANT MaxCmds   \* bound on the number of commands, for model checking

VARIABLES
  sent,      \* commands sent so far
  executed,  \* commands executed so far
  answered   \* the last command whose caller has its answer

vars == <<sent, executed, answered>>

Init == sent = 0 /\ executed = 0 /\ answered = 0

Send ==
  /\ answered = sent /\ sent < MaxCmds
  /\ sent' = sent + 1
  /\ UNCHANGED <<executed, answered>>

Execute ==
  /\ executed < sent
  /\ executed' = sent
  /\ UNCHANGED <<sent, answered>>

Answer ==
  /\ executed = sent /\ answered < sent
  /\ answered' = sent
  /\ UNCHANGED <<sent, executed>>

Next == Send \/ Execute \/ Answer

Spec == Init /\ [][Next]_vars
=============================================================================
