--------------------------- MODULE AtomicsProofs ----------------------------
(***************************************************************************)
(* Proofs about Atomics, for any finite set of threads and any number of   *)
(* calls and of lost reservations.                                         *)
(*                                                                         *)
(* A reservation that holds means that nothing was stored since the load,  *)
(* so what its thread is about to store is computed from the counter as it *)
(* is (Reservations).  Every store then moves the counter by one and its   *)
(* thread into or out of Owing, which is NoUpdateLost; and a thread that   *)
(* stores 0 found the counter at 1, that is nobody owing: OneHolder.       *)
(***************************************************************************)
EXTENDS Atomics, FiniteSetTheorems, TLAPS

\* A thread decrements only without vdq, and increments only after it did.
Roles ==
  \A t \in Threads :
    /\ th[t].pc = "idle" <=> th[t].fn = "none"
    /\ th[t].fn = "sub_return" => role[t] = "out"
    /\ th[t].fn = "add" => role[t] # "out"

Reservations ==
  \A t \in reserved : /\ th[t].pc = "stxr"
                      /\ th[t].result = Computed(th[t].fn, counter)

IInv == TypeOK /\ Roles /\ Reservations /\ NoUpdateLost /\ OneHolder

-----------------------------------------------------------------------------
\* Owing is a finite set, so its size is a number up to that of Threads.
LEMMA OwingFinite ==
  /\ IsFiniteSet(Owing) /\ Cardinality(Owing) \in Nat
  /\ Cardinality(Owing) <= Cardinality(Threads)
  /\ Cardinality(Threads) \in Nat
<1>1. Owing \in SUBSET Threads
  BY DEF Owing
<1> QED
  BY <1>1, AtomicsAssumption, FS_Subset, FS_CardinalityType

\* The size of Owing bounds the counter.
LEMMA CounterType ==
  ASSUME NoUpdateLost
  PROVE  counter \in Counts /\ counter \in Int
BY OwingFinite DEF NoUpdateLost, Counts

\* A thread in a function is in one that counts by one.
LEMMA InFunction ==
  ASSUME IInv, NEW t \in Threads, th[t].pc # "idle"
  PROVE  /\ th[t].fn \in {"add", "sub_return"}
         /\ Computed(th[t].fn, counter) = counter + Delta(th[t].fn)
         /\ Delta(th[t].fn) = IF th[t].fn = "add" THEN 1 ELSE -1
<1>1. th[t].fn \in {"add", "sub_return"}
  BY DEF IInv, TypeOK, Roles, Functions
<1>2. counter \in Int
  BY CounterType DEF IInv
<1> QED
  BY <1>1, <1>2 DEF Computed, Delta

-----------------------------------------------------------------------------
\* The invariant holds at the start.
LEMMA InitIInv == Init => IInv
<1> SUFFICES ASSUME Init PROVE IInv
  OBVIOUS
<1>1. Owing = {}
  BY DEF Init, Owing, Idle
<1>2. NoUpdateLost /\ OneHolder
  BY <1>1, FS_EmptySet DEF Init, NoUpdateLost, OneHolder, Holders
<1>3. TypeOK
  BY <1>2, CounterType, OwingFinite, AtomicsAssumption
     DEF Init, TypeOK, Idle, Functions
<1>4. Roles /\ Reservations
  BY DEF Init, Roles, Reservations, Idle
<1> QED
  BY <1>2, <1>3, <1>4 DEF IInv

\* A function begins.
LEMMA CallIInv ==
  ASSUME IInv, NEW t \in Threads, dec_and_test(t) \/ inc(t)
  PROVE  IInv'
<1>1. PICK fn \in {"add", "sub_return"} :
        /\ th[t].pc = "idle" /\ (role[t] = "out" <=> fn = "sub_return")
        /\ th' = [th EXCEPT ![t] = [pc |-> "ldxr", fn |-> fn, result |-> 0]]
        /\ UNCHANGED <<counter, reserved, role>>
  BY DEF dec_and_test, inc
<1>2. started' \in 0..MaxCalls /\ losses' \in 0..MaxLosses
  BY AtomicsAssumption DEF IInv, TypeOK, dec_and_test, inc
<1>3. /\ th[t].fn = "none"
      /\ \A u \in Threads \ {t} : th'[u] = th[u]
      /\ th'[t] = [pc |-> "ldxr", fn |-> fn, result |-> 0]
  BY <1>1 DEF IInv, TypeOK, Roles
<1>4. Owing' = Owing /\ Holders' = Holders
  <2>1. Owing' = Owing
    BY <1>1, <1>3 DEF Owing
  <2>2. t \in Owing => role[t] # "out"
    BY <1>3 DEF Owing
  <2>3. \A u \in Owing : (role'[u] = "out" /\ Won(th'[u].result))
                           <=> (role[u] = "out" /\ Won(th[u].result))
    BY <1>1, <1>3, <2>2 DEF Owing
  <2> QED
    BY <1>1, <2>1, <2>3 DEF Holders
<1>5. NoUpdateLost' /\ OneHolder'
  BY <1>1, <1>4 DEF IInv, NoUpdateLost, OneHolder
<1>6. TypeOK'
  BY <1>1, <1>2, OwingFinite DEF IInv, TypeOK, Functions
<1>7. Roles'
  BY <1>1, <1>3 DEF IInv, Roles
<1>8. Reservations'
  BY <1>1, <1>3 DEF IInv, TypeOK, Reservations
<1> QED
  BY <1>5, <1>6, <1>7, <1>8 DEF IInv

\* The load: the thread reserves the counter and computes from what it read.
LEMMA LdxrIInv ==
  ASSUME IInv, NEW t \in Threads, Ldxr(t)
  PROVE  IInv'
<1> DEFINE new == Computed(th[t].fn, counter)
<1>1. /\ th[t].pc = "ldxr" /\ reserved' = reserved \cup {t}
      /\ th' = [th EXCEPT ![t].pc = "stxr", ![t].result = new]
      /\ UNCHANGED <<counter, role, started, losses>>
  BY DEF Ldxr
<1>2. /\ \A u \in Threads \ {t} : th'[u] = th[u]
      /\ th'[t] = [th[t] EXCEPT !.pc = "stxr", !.result = new]
      /\ th[t] \in [pc : {"idle", "ldxr", "stxr", "ret"}, fn : Functions,
                    result : (-Cardinality(Threads) - 1) .. 2]
  BY <1>1 DEF IInv, TypeOK
<1>3. new \in (-Cardinality(Threads) - 1) .. 2
  BY CounterType, OwingFinite DEF IInv, Computed, Counts
<1> HIDE DEF new
<1>4. th'[t].pc = "stxr" /\ th'[t].fn = th[t].fn /\ th'[t].result = new
  BY <1>2
<1>5. Owing' = Owing /\ Holders' = Holders
  <2>1. Owing' = Owing
    BY <1>1, <1>2, <1>4 DEF Owing
  <2>2. t \in Owing => role[t] # "out"
    BY <1>1 DEF Owing
  <2>3. \A u \in Owing : (role'[u] = "out" /\ Won(th'[u].result))
                           <=> (role[u] = "out" /\ Won(th[u].result))
    BY <1>1, <1>2, <2>2 DEF Owing
  <2> QED
    BY <1>1, <2>1, <2>3 DEF Holders
<1>6. NoUpdateLost' /\ OneHolder'
  BY <1>1, <1>5 DEF IInv, NoUpdateLost, OneHolder
<1>7. TypeOK'
  BY <1>1, <1>2, <1>3, OwingFinite DEF IInv, TypeOK, Functions
<1>8. Roles'
  <2>1. th[t].fn # "none"
    BY <1>1 DEF IInv, Roles
  <2>2. \A u \in Threads : /\ th'[u].fn = th[u].fn /\ role'[u] = role[u]
                           /\ th'[u].pc = "idle" <=> th[u].pc = "idle"
    BY <1>1, <1>2, <1>4
  <2> QED
    BY <2>1, <2>2 DEF IInv, Roles
<1>9. Reservations'
  BY <1>1, <1>2, <1>4 DEF IInv, TypeOK, Reservations, new
<1> QED
  BY <1>6, <1>7, <1>8, <1>9 DEF IInv

-----------------------------------------------------------------------------
\* The store succeeds: it moves the counter by one, and its thread into Owing or
\* out of it.
LEMMA StoreCounts ==
  ASSUME IInv, NEW t \in Threads, Stxr(t), t \in reserved
  PROVE  /\ counter' = counter + Delta(th[t].fn)
         /\ th'[t].pc = "ret" /\ th'[t].fn = th[t].fn
         /\ th'[t].result = counter'
         /\ th[t].fn = "add" => t \in Owing /\ Owing' = Owing \ {t}
         /\ th[t].fn = "sub_return" => t \notin Owing /\ Owing' = Owing \cup {t}
         /\ NoUpdateLost'
<1>1. /\ th[t].pc = "stxr" /\ counter' = th[t].result /\ reserved' = {}
      /\ th' = [th EXCEPT ![t].pc = "ret"]
      /\ UNCHANGED <<role, started, losses>>
  BY DEF Stxr
<1>2. /\ \A u \in Threads \ {t} : th'[u] = th[u]
      /\ th'[t].pc = "ret" /\ th'[t].fn = th[t].fn /\ th'[t].result = th[t].result
  BY <1>1 DEF IInv, TypeOK
<1>3. /\ th[t].fn \in {"add", "sub_return"}
      /\ counter' = counter + Delta(th[t].fn)
      /\ Delta(th[t].fn) = IF th[t].fn = "add" THEN 1 ELSE -1
  BY <1>1, InFunction DEF IInv, Reservations
<1>4. /\ th[t].fn = "sub_return" => role[t] = "out"
      /\ th[t].fn = "add" => role[t] # "out"
  BY DEF IInv, Roles
<1>5. th[t].fn = "add" => t \in Owing /\ Owing' = Owing \ {t}
  BY <1>1, <1>2, <1>4 DEF Owing
<1>6. th[t].fn = "sub_return" => t \notin Owing /\ Owing' = Owing \cup {t}
  BY <1>1, <1>2, <1>4 DEF Owing
<1>7. counter = 1 - Cardinality(Owing)
  BY DEF IInv, NoUpdateLost
<1>8. NoUpdateLost'
  <2>1. CASE th[t].fn = "add"
    <3>1. Cardinality(Owing') = Cardinality(Owing) - 1
      BY <1>5, <2>1, OwingFinite, FS_RemoveElement
    <3>2. counter' = counter + 1
      BY <1>3, <2>1
    <3> QED
      BY <1>7, <3>1, <3>2, OwingFinite DEF NoUpdateLost
  <2>2. CASE th[t].fn = "sub_return"
    <3>1. Cardinality(Owing') = Cardinality(Owing) + 1
      BY <1>6, <2>2, OwingFinite, FS_AddElement
    <3>2. counter' = counter - 1
      BY <1>3, <1>7, <2>2, OwingFinite
    <3> QED
      BY <1>7, <3>1, <3>2, OwingFinite DEF NoUpdateLost
  <2> QED
    BY <1>3, <2>1, <2>2
<1> QED
  BY <1>1, <1>2, <1>3, <1>5, <1>6, <1>8

\* The store, which fails if the reservation is gone.
LEMMA StxrIInv ==
  ASSUME IInv, NEW t \in Threads, Stxr(t)
  PROVE  IInv'
<1>1. CASE t \in reserved
  <2>1. /\ th[t].pc = "stxr" /\ counter' = th[t].result /\ reserved' = {}
        /\ th' = [th EXCEPT ![t].pc = "ret"]
        /\ UNCHANGED <<role, started, losses>>
    BY <1>1 DEF Stxr
  <2>2. \A u \in Threads \ {t} : th'[u] = th[u]
    BY <2>1 DEF IInv, TypeOK
  <2>3. counter' \in Counts
    <3>1. Owing' \in SUBSET Threads
      BY DEF Owing
    <3>2. Cardinality(Owing') \in Nat /\ Cardinality(Owing') <= Cardinality(Threads)
      BY <3>1, AtomicsAssumption, FS_Subset, FS_CardinalityType
    <3> QED
      BY <1>1, <3>2, StoreCounts, OwingFinite DEF NoUpdateLost, Counts
  <2>4. TypeOK'
    BY <2>1, <2>3 DEF IInv, TypeOK
  <2>5. Roles'
    BY <1>1, <2>1, <2>2, StoreCounts DEF IInv, Roles
  <2>6. Reservations'
    BY <2>1 DEF Reservations
  <2>7. OneHolder'
    <3>1. CASE th[t].fn = "add"
      <4>1. Holders' \subseteq Holders
        BY <1>1, <2>1, <2>2, <3>1, StoreCounts DEF Holders
      <4> QED
        BY <4>1 DEF IInv, OneHolder
    <3>2. CASE th[t].fn = "sub_return" /\ Won(th'[t].result)
      <4>1. counter' = 0 /\ counter = 1 /\ counter \in Int
        BY <1>1, <3>2, StoreCounts, CounterType DEF IInv, Won, Delta
      <4>2. Owing = {}
        BY <4>1, OwingFinite, FS_EmptySet DEF IInv, NoUpdateLost
      <4>3. Owing' = {t}
        BY <1>1, <3>2, <4>2, StoreCounts
      <4> QED
        BY <4>3 DEF OneHolder, Holders
    <3>3. CASE th[t].fn = "sub_return" /\ ~Won(th'[t].result)
      <4>1. role'[t] = "out"
        BY <2>1, <3>3 DEF IInv, Roles
      <4>2. Holders' \subseteq Holders
        BY <1>1, <2>1, <2>2, <3>3, <4>1, StoreCounts DEF Holders
      <4> QED
        BY <4>2 DEF IInv, OneHolder
    <3> QED
      BY <2>1, <3>1, <3>2, <3>3, InFunction
  <2> QED
    BY <1>1, <2>4, <2>5, <2>6, <2>7, StoreCounts DEF IInv
<1>2. CASE t \notin reserved
  <2>1. /\ th[t].pc = "stxr" /\ th' = [th EXCEPT ![t].pc = "ldxr"]
        /\ UNCHANGED <<counter, reserved, role, started, losses>>
    BY <1>2 DEF Stxr
  <2>2. /\ \A u \in Threads \ {t} : th'[u] = th[u]
        /\ th'[t].pc = "ldxr" /\ th'[t].fn = th[t].fn
        /\ th'[t].result = th[t].result
    BY <2>1 DEF IInv, TypeOK
  <2>3. Owing' = Owing /\ Holders' = Holders
    <3>1. Owing' = Owing
      BY <2>1, <2>2 DEF Owing
    <3>2. \A u \in Threads : th'[u].result = th[u].result
      BY <2>2
    <3> QED
      BY <2>1, <3>1, <3>2 DEF Holders, Owing
  <2>4. TypeOK'
    BY <2>1 DEF IInv, TypeOK
  <2>5. Roles'
    BY <2>1, <2>2 DEF IInv, Roles
  <2>6. Reservations'
    BY <1>2, <2>1, <2>2 DEF IInv, TypeOK, Reservations
  <2> QED
    BY <2>1, <2>3, <2>4, <2>5, <2>6 DEF IInv, NoUpdateLost, OneHolder
<1> QED
  BY <1>1, <1>2

\* A function returns.
LEMMA RetIInv ==
  ASSUME IInv, NEW t \in Threads, Ret(t)
  PROVE  IInv'
<1>1. /\ th[t].pc = "ret" /\ th' = [th EXCEPT ![t] = Idle]
      /\ role' = [role EXCEPT ![t] = IF th[t].fn = "add" THEN "out"
                    ELSE IF Won(th[t].result) THEN "holds" ELSE "lost"]
      /\ UNCHANGED <<counter, reserved, started, losses>>
  BY DEF Ret
<1>2. /\ \A u \in Threads \ {t} : th'[u] = th[u] /\ role'[u] = role[u]
      /\ th'[t] = Idle
      /\ role'[t] = IF th[t].fn = "add" THEN "out"
                    ELSE IF Won(th[t].result) THEN "holds" ELSE "lost"
  BY <1>1 DEF IInv, TypeOK
<1>3. th[t].fn \in {"add", "sub_return"}
  BY <1>1, InFunction
<1>4. Owing' = Owing
  BY <1>1, <1>2, <1>3 DEF IInv, Roles, Owing, Idle
<1>5. Holders' = Holders
  <2>1. t \in Owing => th[t].fn = "sub_return" /\ role[t] = "out"
    BY <1>1, <1>3 DEF IInv, Roles, Owing
  <2>2. t \in Holders' <=> t \in Holders
    BY <1>2, <1>4, <2>1 DEF Holders
  <2>3. \A u \in Threads \ {t} : u \in Holders' <=> u \in Holders
    BY <1>2, <1>4 DEF Holders
  <2> QED
    BY <1>4, <2>2, <2>3 DEF Holders, Owing
<1>6. TypeOK'
  BY <1>1, OwingFinite DEF IInv, TypeOK, Idle, Functions
<1>7. Roles'
  BY <1>1, <1>2 DEF IInv, Roles, Idle
<1>8. Reservations'
  BY <1>1, <1>2 DEF IInv, TypeOK, Reservations
<1> QED
  BY <1>1, <1>4, <1>5, <1>6, <1>7, <1>8 DEF IInv, NoUpdateLost, OneHolder

\* A reservation ends without a store.
LEMMA LoseIInv ==
  ASSUME IInv, NEW t \in Threads, Lose(t)
  PROVE  IInv'
<1> USE DEF Lose, IInv
<1>1. TypeOK'
  BY AtomicsAssumption DEF TypeOK
<1>2. Roles' /\ Reservations'
  BY DEF Roles, Reservations
<1>3. NoUpdateLost' /\ OneHolder'
  BY DEF NoUpdateLost, OneHolder, Holders, Owing
<1> QED
  BY <1>1, <1>2, <1>3

\* The invariant holds in every state.
LEMMA Inductive == Spec => []IInv
<1>1. IInv /\ [Next]_vars => IInv'
  <2> SUFFICES ASSUME IInv, [Next]_vars PROVE IInv'
    OBVIOUS
  <2>1. CASE Next
    BY <2>1, CallIInv, LdxrIInv, StxrIInv, RetIInv, LoseIInv DEF Next, Step
  <2>2. CASE UNCHANGED vars
    BY <2>2 DEF vars, IInv, TypeOK, Roles, Reservations, NoUpdateLost, OneHolder,
                Holders, Owing
  <2> QED
    BY <2>1, <2>2
<1> QED
  BY <1>1, InitIInv, PTL DEF Spec

-----------------------------------------------------------------------------
\* The type invariant; its range for the counter is that of the threads.
THEOREM TypeCorrect == Spec => []TypeOK
<1>1. IInv => TypeOK
  BY DEF IInv
<1> QED
  BY <1>1, Inductive, PTL

\* No update of the counter is lost, whatever number of threads run the loops of
\* compat.h, and whenever their reservations end.
THEOREM CounterKeepsCount == Spec => []NoUpdateLost
<1>1. IInv => NoUpdateLost
  BY DEF IInv
<1> QED
  BY <1>1, Inductive, PTL

\* vdq.busy has at most one holder: atomic_dec_and_test is true for one thread
\* until the counter is given back.
THEOREM MutualExclusion == Spec => []OneHolder
<1>1. IInv => OneHolder
  BY DEF IInv
<1> QED
  BY <1>1, Inductive, PTL

-----------------------------------------------------------------------------
\* What the abstract counter sees of a thread.
CallOf(t) ==
  IF th[t].pc = "idle" THEN [st |-> "none", delta |-> 0, ret |-> 0]
  ELSE IF th[t].pc = "ret"
    THEN [st |-> "applied", delta |-> Delta(th[t].fn), ret |-> th[t].result]
    ELSE [st |-> "begun", delta |-> Delta(th[t].fn), ret |-> 0]
Calls == [t \in Threads |-> CallOf(t)]

\* A step of one thread changes what the counter sees of that thread only.
LEMMA OthersStay ==
  ASSUME NEW t \in Threads, \A u \in Threads \ {t} : th'[u] = th[u]
  PROVE  Calls' = [Calls EXCEPT ![t] = CallOf(t)']
<1>1. \A u \in Threads \ {t} : CallOf(u)' = CallOf(u)
  BY DEF CallOf
<1> QED
  BY <1>1 DEF Calls

\* The actions of the abstract counter, in terms of Calls.
LEMMA AbstractActions ==
  ASSUME NEW t \in Threads
  PROVE  /\ \A delta \in {1, -1} :
              /\ CallOf(t).st = "none" /\ counter' = counter
              /\ Calls' = [Calls EXCEPT ![t] = [st |-> "begun", delta |-> delta,
                                               ret |-> 0]]
              => Abstract!Next
         /\ /\ CallOf(t).st = "begun" /\ counter' = counter + CallOf(t).delta
            /\ Calls' = [Calls EXCEPT ![t] = [st |-> "applied",
                            delta |-> CallOf(t).delta, ret |-> counter']]
            => Abstract!Next
         /\ /\ CallOf(t).st = "applied" /\ counter' = counter
            /\ Calls' = [Calls EXCEPT ![t] = [st |-> "none", delta |-> 0, ret |-> 0]]
            => Abstract!Next
<1> DEFINE calls == [u \in Threads |->
              IF th[u].pc = "idle" THEN [st |-> "none", delta |-> 0, ret |-> 0]
              ELSE IF th[u].pc = "ret"
                THEN [st |-> "applied", delta |-> Delta(th[u].fn), ret |-> th[u].result]
                ELSE [st |-> "begun", delta |-> Delta(th[u].fn), ret |-> 0]]
<1>1. Calls = calls /\ Calls' = calls'
  BY DEF Calls, CallOf
<1>2. calls[t] = CallOf(t)
  BY DEF CallOf
<1>3. ASSUME NEW delta \in {1, -1}, CallOf(t).st = "none", counter' = counter,
             Calls' = [Calls EXCEPT ![t] = [st |-> "begun", delta |-> delta,
                                            ret |-> 0]]
      PROVE  Abstract!Next
  <2>1. Abstract!Call(t, delta) <=>
          /\ calls[t].st = "none"
          /\ calls' = [calls EXCEPT ![t] = [[st |-> "none", delta |-> 0, ret |-> 0]
                          EXCEPT !.st = "begun", !.delta = delta]]
          /\ UNCHANGED counter
    BY DEF Abstract!Call, Abstract!NoCall
  <2> HIDE DEF calls
  <2>2. Abstract!Call(t, delta)
    BY <1>1, <1>2, <1>3, <2>1
  <2> QED
    BY <2>2 DEF Abstract!Next
<1>4. ASSUME CallOf(t).st = "begun", counter' = counter + CallOf(t).delta,
             Calls' = [Calls EXCEPT ![t] = [st |-> "applied",
                            delta |-> CallOf(t).delta, ret |-> counter']]
      PROVE  Abstract!Next
  <2>1. Abstract!Apply(t) <=>
          /\ calls[t].st = "begun"
          /\ counter' = counter + calls[t].delta
          /\ calls' = [calls EXCEPT ![t].st = "applied", ![t].ret = counter']
    BY DEF Abstract!Apply
  <2>2. PICK d, r : CallOf(t) = [st |-> "begun", delta |-> d, ret |-> r]
    BY <1>4 DEF CallOf
  <2>3. /\ calls = [u \in Threads |-> calls[u]]
        /\ [calls EXCEPT ![t].st = "applied", ![t].ret = counter']
             = [calls EXCEPT ![t] = [calls[t] EXCEPT !.st = "applied", !.ret = counter']]
    OBVIOUS
  <2> HIDE DEF calls
  <2>4. [CallOf(t) EXCEPT !.st = "applied", !.ret = counter']
          = [st |-> "applied", delta |-> CallOf(t).delta, ret |-> counter']
    <3> DEFINE begun == CallOf(t)
               applied == [begun EXCEPT !.st = "applied"]
    <3>1. [begun EXCEPT !.st = "applied", !.ret = counter']
            = [applied EXCEPT !.ret = counter']
      OBVIOUS
    <3>2. [[st |-> "begun", delta |-> d, ret |-> r] EXCEPT !.st = "applied"]
            = [st |-> "applied", delta |-> d, ret |-> r]
      OBVIOUS
    <3>3. [[st |-> "applied", delta |-> d, ret |-> r] EXCEPT !.ret = counter']
            = [st |-> "applied", delta |-> d, ret |-> counter']
      OBVIOUS
    <3>4. applied = [st |-> "applied", delta |-> d, ret |-> r]
      BY <2>2, <3>2, Zenon
    <3> HIDE DEF applied
    <3>5. [applied EXCEPT !.ret = counter']
            = [st |-> "applied", delta |-> d, ret |-> counter']
      BY <3>3, <3>4, Zenon
    <3> QED
      BY <2>2, <3>1, <3>5
  <2>5. Abstract!Apply(t)
    BY <1>1, <1>2, <1>4, <2>1, <2>3, <2>4
  <2> QED
    BY <2>5 DEF Abstract!Next
<1>5. ASSUME CallOf(t).st = "applied", counter' = counter,
             Calls' = [Calls EXCEPT ![t] = [st |-> "none", delta |-> 0, ret |-> 0]]
      PROVE  Abstract!Next
  <2>1. Abstract!Return(t) <=>
          /\ calls[t].st = "applied"
          /\ calls' = [calls EXCEPT ![t] = [st |-> "none", delta |-> 0, ret |-> 0]]
          /\ UNCHANGED counter
    BY DEF Abstract!Return, Abstract!NoCall
  <2> HIDE DEF calls
  <2>2. Abstract!Return(t)
    BY <1>1, <1>2, <1>5, <2>1
  <2> QED
    BY <2>2 DEF Abstract!Next
<1> QED
  BY <1>3, <1>4, <1>5

\* Every step is a step of the abstract counter, the successful store the one
\* that applies the call, or leaves its state alone.
LEMMA StepRefines ==
  ASSUME IInv, [Next]_vars
  PROVE  [Abstract!Next]_(Abstract!vars)
<1>1. counter' = counter /\ Calls' = Calls => UNCHANGED Abstract!vars
  BY DEF Abstract!vars, Calls, CallOf
<1>2. ASSUME NEW t \in Threads, dec_and_test(t) \/ inc(t)
      PROVE  Abstract!Next
  <2>1. PICK fn \in {"add", "sub_return"} :
          /\ th[t].pc = "idle" /\ counter' = counter
          /\ th' = [th EXCEPT ![t] = [pc |-> "ldxr", fn |-> fn, result |-> 0]]
    BY <1>2 DEF dec_and_test, inc
  <2>2. /\ \A u \in Threads \ {t} : th'[u] = th[u]
        /\ th'[t] = [pc |-> "ldxr", fn |-> fn, result |-> 0]
    BY <2>1 DEF IInv, TypeOK
  <2>3. /\ CallOf(t).st = "none" /\ Delta(fn) \in {1, -1}
        /\ CallOf(t)' = [st |-> "begun", delta |-> Delta(fn), ret |-> 0]
    BY <2>1, <2>2 DEF CallOf, Delta
  <2> QED
    BY <2>1, <2>2, <2>3, OthersStay, AbstractActions
<1>3. ASSUME NEW t \in Threads, Ldxr(t)
      PROVE  counter' = counter /\ Calls' = Calls
  <2>1. /\ th[t].pc = "ldxr" /\ counter' = counter
        /\ \A u \in Threads \ {t} : th'[u] = th[u]
        /\ th'[t].pc = "stxr" /\ th'[t].fn = th[t].fn
    BY <1>3 DEF Ldxr, IInv, TypeOK
  <2>2. \A u \in Threads : CallOf(u)' = CallOf(u)
    BY <2>1 DEF CallOf
  <2> QED
    BY <2>1, <2>2 DEF Calls
<1>4. ASSUME NEW t \in Threads, Stxr(t), t \in reserved
      PROVE  Abstract!Next
  <2>1. /\ th[t].pc = "stxr"
        /\ \A u \in Threads \ {t} : th'[u] = th[u]
    BY <1>4 DEF Stxr, IInv, TypeOK
  <2>2. /\ CallOf(t).st = "begun" /\ counter' = counter + CallOf(t).delta
        /\ CallOf(t)' = [st |-> "applied", delta |-> CallOf(t).delta,
                         ret |-> counter']
    BY <1>4, <2>1, StoreCounts DEF CallOf
  <2> QED
    BY <2>1, <2>2, OthersStay, AbstractActions
<1>5. ASSUME NEW t \in Threads, Stxr(t), t \notin reserved
      PROVE  counter' = counter /\ Calls' = Calls
  <2>1. /\ th[t].pc = "stxr" /\ counter' = counter
        /\ \A u \in Threads \ {t} : th'[u] = th[u]
        /\ th'[t].pc = "ldxr" /\ th'[t].fn = th[t].fn
    BY <1>5 DEF Stxr, IInv, TypeOK
  <2>2. \A u \in Threads : CallOf(u)' = CallOf(u)
    BY <2>1 DEF CallOf
  <2> QED
    BY <2>1, <2>2 DEF Calls
<1>6. ASSUME NEW t \in Threads, Ret(t)
      PROVE  Abstract!Next
  <2>1. /\ th[t].pc = "ret" /\ counter' = counter
        /\ \A u \in Threads \ {t} : th'[u] = th[u]
        /\ th'[t].pc = "idle"
    BY <1>6 DEF Ret, Idle, IInv, TypeOK
  <2>2. /\ CallOf(t).st = "applied"
        /\ CallOf(t)' = [st |-> "none", delta |-> 0, ret |-> 0]
    BY <2>1 DEF CallOf
  <2> QED
    BY <2>1, <2>2, OthersStay, AbstractActions
<1>7. ASSUME NEW t \in Threads, Lose(t)
      PROVE  counter' = counter /\ Calls' = Calls
  BY <1>7 DEF Lose, Calls, CallOf
<1>8. CASE UNCHANGED vars
  BY <1>1, <1>8 DEF vars, Calls, CallOf
<1> QED
  BY <1>1, <1>2, <1>3, <1>4, <1>5, <1>6, <1>7, <1>8 DEF Next, Step

\* The loops of compat.h implement the atomic counter (its safety part): each
\* call takes effect at one moment, its store, and returns the value of then.
THEOREM ImplementsCounter == Spec => Abstract!Spec
<1>1. Init => Abstract!Init
  BY DEF Init, Idle, Abstract!Init, Abstract!NoCall
<1> QED
  BY <1>1, Inductive, StepRefines, PTL DEF Spec, Abstract!Spec
=============================================================================
