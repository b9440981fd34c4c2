------------------------------- MODULE Pulls -------------------------------
(***************************************************************************)
(* What volatile dequeues promise.  One pull at a time has the right to    *)
(* issue a command; the command keeps it until a result proves that it has *)
(* been started, and gives it back at the latest with its last result; or  *)
(* the right is lost, and no pull has it any more.                         *)
(* QMan executes each command once, in the order they are issued, and each *)
(* result is fetched once, those of a command in their order.              *)
(***************************************************************************)
EXTENDS Integers

CONSTANTS
  MaxNumf,  \* frames asked of a command
  MaxCmds   \* bound on the number of commands, for model checking

VARIABLES
  holder,   \* who has the right: "nobody", a "caller", the last "command", or
            \* "lost", and it does not come back
  issued,   \* commands issued so far
  queued,   \* the command that waits for QMan, or 0
  running,  \* the command that QMan executes, and its results so far
  waiting   \* results to be fetched: <<command, number of the result>>

vars == <<holder, issued, queued, running, waiting>>

NoRun == [cmd |-> 0, done |-> 0]

Init ==
  /\ holder = "nobody" /\ issued = 0
  /\ queued = 0 /\ running = NoRun /\ waiting = {}

Grant ==
  /\ holder = "nobody" /\ issued < MaxCmds
  /\ holder' = "caller"
  /\ UNCHANGED <<issued, queued, running, waiting>>

\* The command before has left the place for the next one.
Issue ==
  /\ holder = "caller" /\ queued = 0
  /\ queued' = issued + 1
  /\ issued' = issued + 1
  /\ holder' \in {"command", "lost"}
  /\ UNCHANGED <<running, waiting>>

Start ==
  /\ queued # 0 /\ running = NoRun
  /\ running' = [cmd |-> queued, done |-> 0]
  /\ queued' = 0
  /\ UNCHANGED <<holder, issued, waiting>>

Produce(last) ==
  /\ running # NoRun
  /\ running.done + 1 = MaxNumf => last
  /\ waiting' = waiting \cup {<<running.cmd, running.done + 1>>}
  /\ running' = IF last THEN NoRun ELSE [running EXCEPT !.done = @ + 1]
  /\ UNCHANGED <<holder, issued, queued>>

\* A result of the last command is proof that it was started.
Proof == holder = "command" /\ queued = 0 /\ \E r \in waiting : r[1] = issued

\* With results rs waiting, something of the last command is still to be fetched.
Remains(rs) == queued # 0 \/ running.cmd = issued \/ \E r \in rs : r[1] = issued

Release ==
  /\ \/ Proof /\ holder' = "nobody"
     \/ holder = "command" /\ holder' = "lost"
  /\ UNCHANGED <<issued, queued, running, waiting>>

\* The caller fetches the next result of a command.
Fetch(r) ==
  /\ r \in waiting /\ \A q \in waiting : q[1] = r[1] => q[2] >= r[2]
  /\ waiting' = waiting \ {r}
  /\ \/ /\ r[1] = issued /\ Proof
        /\ holder' = "nobody"
     \/ holder = "command" /\ holder' = "lost"
     \/ /\ holder = "command" => Remains(waiting \ {r})
        /\ UNCHANGED holder
  /\ UNCHANGED <<issued, queued, running>>

FetchOf(c) == \E n \in 1..MaxNumf : Fetch(<<c, n>>)

Next == \/ Grant \/ Issue \/ Start \/ Release
        \/ \E last \in BOOLEAN : Produce(last)
        \/ \E c \in 1..MaxCmds : FetchOf(c)

Spec == Init /\ [][Next]_vars

\* Granted pulls are issued, commands executed, and all results fetched, with the
\* last of which the right comes back.
FairSpec ==
  /\ Spec
  /\ WF_vars(Issue) /\ WF_vars(Start \/ \E last \in BOOLEAN : Produce(last))
  /\ \A c \in 1..MaxCmds : WF_vars(FetchOf(c))
=============================================================================
