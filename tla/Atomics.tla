------------------------------ MODULE Atomics ------------------------------
(***************************************************************************)
(* The functions on atomic_t of compat.h, instruction by instruction, as   *)
(* the driver uses them on vdq.busy: qbman_swp_pull takes the counter with *)
(* atomic_dec_and_test, and whoever lost the race, or has seen a result of *)
(* the winner's command, gives it back with atomic_inc.                    *)
(*                                                                         *)
(* Each function is a loop of a load-exclusive and a store-exclusive.  The *)
(* store takes place only if the thread still holds the reservation that   *)
(* its load made; any store to the counter ends all reservations, and one  *)
(* may end for no reason the thread can see.                               *)
(***************************************************************************)
EXTENDS Integers, FiniteSets

CONSTANTS
  Threads,
  MaxCalls,   \* dec_and_test calls in all; bounds the model
  MaxLosses   \* reservations that end without a store; bounds the model

ASSUME AtomicsAssumption ==
  IsFiniteSet(Threads) /\ MaxCalls \in Nat /\ MaxLosses \in Nat

VARIABLES
  counter,   \* atomic_t
  reserved,  \* threads whose reservation of the counter holds
  th,        \* thread -> instruction it is at, its function, its registers
  role,      \* thread -> does it hold vdq, or has it lost the race for it?
  started,   \* dec_and_test calls so far
  losses     \* reservations that ended without a store so far

vars == <<counter, reserved, th, role, started, losses>>

-----------------------------------------------------------------------------
(* Broken variants of definitions (names with an underscore) stand before them. *)

Functions == {"none", "add", "sub_return"}
Idle == [pc |-> "idle", fn |-> "none", result |-> 0]

\* vdq.busy is set to 1 by qbman_swp_init.
Init ==
  /\ counter = 1
  /\ reserved = {}
  /\ th = [t \in Threads |-> Idle]
  /\ role = [t \in Threads |-> "out"]
  /\ started = 0 /\ losses = 0

\* The add or sub of a function, with i = 1.
Computed(fn, result) == IF fn = "add" THEN result + 1 ELSE result - 1

-----------------------------------------------------------------------------
\* atomic_dec_and_test, in qbman_swp_pull.
dec_and_test(t) ==
  /\ th[t].pc = "idle" /\ role[t] = "out" /\ started < MaxCalls
  /\ th' = [th EXCEPT ![t] = [pc |-> "ldxr", fn |-> "sub_return", result |-> 0]]
  /\ started' = started + 1
  /\ UNCHANGED <<counter, reserved, role, losses>>

\* atomic_inc: at once by the loser, some time by the one who holds vdq.
inc(t) ==
  /\ th[t].pc = "idle" /\ role[t] # "out"
  /\ th' = [th EXCEPT ![t] = [pc |-> "ldxr", fn |-> "add", result |-> 0]]
  /\ UNCHANGED <<counter, reserved, role, started, losses>>

Ldxr(t) ==
  /\ th[t].pc = "ldxr"
  /\ th' = [th EXCEPT ![t].pc = "stxr", ![t].result = Computed(th[t].fn, counter)]
  /\ reserved' = reserved \cup {t}
  /\ UNCHANGED <<counter, role, started, losses>>

Stxr_Plain(t) ==
  /\ th[t].pc = "stxr"
  /\ counter' = th[t].result
  /\ reserved' = {}
  /\ th' = [th EXCEPT ![t].pc = "ret"]
  /\ UNCHANGED <<role, started, losses>>

\* stxr or stlxr, and cbnz back to the load if it failed.
Stxr(t) ==
  /\ th[t].pc = "stxr"
  /\ IF t \in reserved
       THEN /\ counter' = th[t].result
            /\ reserved' = {}
            /\ th' = [th EXCEPT ![t].pc = "ret"]
       ELSE /\ th' = [th EXCEPT ![t].pc = "ldxr"]
            /\ UNCHANGED <<counter, reserved>>
  /\ UNCHANGED <<role, started, losses>>

Won_NotNegative(result) == result <= 0

\* atomic_sub_return(1, v) == 0
Won(result) == result = 0

\* The function returns (behind smp_mb in atomic_sub_return).
Ret(t) ==
  /\ th[t].pc = "ret"
  /\ role' = [role EXCEPT ![t] = IF th[t].fn = "add" THEN "out"
                                 ELSE IF Won(th[t].result) THEN "holds" ELSE "lost"]
  /\ th' = [th EXCEPT ![t] = Idle]
  /\ UNCHANGED <<counter, reserved, started, losses>>

\* A context switch or the cache ends a reservation.
Lose(t) ==
  /\ t \in reserved /\ losses < MaxLosses
  /\ reserved' = reserved \ {t}
  /\ losses' = losses + 1
  /\ UNCHANGED <<counter, th, role, started>>

-----------------------------------------------------------------------------
Step(t) == Ldxr(t) \/ Stxr(t) \/ Ret(t)

Next == \E t \in Threads : dec_and_test(t) \/ inc(t) \/ Step(t) \/ Lose(t)

Spec == Init /\ [][Next]_vars

\* Each thread goes on executing the function it is in.
FairSpec == Spec /\ \A t \in Threads : WF_vars(Step(t))

-----------------------------------------------------------------------------
(* Properties. *)

Counts == (-Cardinality(Threads)) .. 1

\* The type invariant; the counter leaves its range only if an update is lost.
TypeOK ==
  /\ counter \in Counts
  /\ reserved \subseteq Threads
  /\ th \in [Threads -> [pc : {"idle", "ldxr", "stxr", "ret"}, fn : Functions,
                         result : (-Cardinality(Threads) - 1) .. 2]]
  /\ role \in [Threads -> {"out", "holds", "lost"}]
  /\ started \in 0..MaxCalls /\ losses \in 0..MaxLosses

\* Threads that have taken one from the counter and not yet put it back.
Owing ==
  {t \in Threads : \/ th[t].fn = "sub_return" /\ th[t].pc = "ret"
                   \/ role[t] # "out" /\ ~(th[t].fn = "add" /\ th[t].pc = "ret")}

\* No update of the counter is lost, however the loops interleave: it is 1 less
\* the threads that have decremented and not yet incremented.
NoUpdateLost == counter = 1 - Cardinality(Owing)

Holders == {t \in Owing : role[t] = "holds" \/ (role[t] = "out" /\ Won(th[t].result))}

\* Two threads never hold vdq at once: atomic_dec_and_test is true for the one
\* that takes the counter from 1 to 0, and for no other before it is given back.
OneHolder == \A t, u \in Holders : t = u

\* The loops keep the promise of an atomic counter; reservations that end for
\* no reason, if they are finitely many, do not keep all calls from coming through.
Delta(fn) == IF fn = "add" THEN 1 ELSE -1
Abstract == INSTANCE AtomicCounter WITH
  Deltas <- {1, -1},
  calls <- [t \in Threads |->
              IF th[t].pc = "idle" THEN [st |-> "none", delta |-> 0, ret |-> 0]
              ELSE IF th[t].pc = "ret"
                THEN [st |-> "applied", delta |-> Delta(th[t].fn), ret |-> th[t].result]
                ELSE [st |-> "begun", delta |-> Delta(th[t].fn), ret |-> 0]]
CounterSpec == Abstract!FairSpec
=============================================================================
