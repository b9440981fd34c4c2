--------------------------- MODULE AtomicCounter ---------------------------
(***************************************************************************)
(* What the functions on atomic_t promise: a counter that several threads  *)
(* change, each call at one moment between its begin and its end, and the  *)
(* call returns the value of that moment.  Some call always comes through, *)
(* although no thread in particular is promised that it does.              *)
(***************************************************************************)
EXTENDS Integers

CONSTANTS Threads, Deltas   \* Deltas: what a call may add

VARIABLES
  counter,
  calls    \* thread -> the call it is in: what it adds, what it returns

vars == <<counter, calls>>

NoCall == [st |-> "none", delta |-> 0, ret |-> 0]

Init == counter = 1 /\ calls = [t \in Threads |-> NoCall]

Call(t, delta) ==
  /\ calls[t].st = "none"
  /\ calls' = [calls EXCEPT ![t] = [NoCall EXCEPT !.st = "begun", !.delta = delta]]
  /\ UNCHANGED counter

Apply(t) ==
  /\ calls[t].st = "begun"
  /\ counter' = counter + calls[t].delta
  /\ calls' = [calls EXCEPT ![t].st = "applied", ![t].ret = counter']

Return(t) ==
  /\ calls[t].st = "applied"
  /\ calls' = [calls EXCEPT ![t] = NoCall]
  /\ UNCHANGED counter

Next == \E t \in Threads :
          Apply(t) \/ Return(t) \/ \E delta \in Deltas : Call(t, delta)

Spec == Init /\ [][Next]_vars

\* Lock-freedom: as long as calls wait, one of them is applied.
FairSpec == Spec /\ WF_vars(\E t \in Threads : Apply(t))
=============================================================================
