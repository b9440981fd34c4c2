---------------------------- MODULE BoundedFifo ----------------------------
(***************************************************************************)
(* What a ring between the driver and QMan promises, whichever side fills  *)
(* it: the enqueue command ring and the dequeue response ring implement    *)
(* it.                                                                     *)
(*                                                                         *)
(* Entries are numbered in the order in which they are accepted.  At most  *)
(* Capacity accepted entries wait, and each is executed (taken by the      *)
(* other side) once, in the order of acceptance.                           *)
(***************************************************************************)
EXTENDS Integers

CONSTANTS
  Capacity,   \* entries that may wait: the size of the ring
  MaxFrames   \* bound on the number of entries, for model checking

VARIABLES
  accepted,   \* number of entries accepted so far
  executed,   \* number of entries taken so far
  got         \* the entry taken last (0: none)

vars == <<accepted, executed, got>>

Init == accepted = 0 /\ executed = 0 /\ got = 0

\* n entries are accepted at once, and never more than there is room for.
Accept(n) ==
  /\ accepted + n - executed <= Capacity
  /\ accepted + n <= MaxFrames
  /\ accepted' = accepted + n
  /\ UNCHANGED <<executed, got>>

\* The oldest waiting entry is taken.
Execute ==
  /\ executed < accepted
  /\ executed' = executed + 1
  /\ got' = executed + 1
  /\ UNCHANGED accepted

Next == Execute \/ \E n \in 1..Capacity : Accept(n)

Spec == Init /\ [][Next]_vars

\* Entries keep being taken.
FairSpec == Spec /\ WF_vars(Execute)
=============================================================================
