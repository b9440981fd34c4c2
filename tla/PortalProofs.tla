---------------------------- MODULE PortalProofs ----------------------------
(***************************************************************************)
(* Proofs about Portal, for any set of portals, any of them memory-backed, *)
(* and any set of channels.                                                *)
(*                                                                         *)
(* SdqcrMatches and NothingDangles are inductive with the type invariant.  *)
(***************************************************************************)
EXTENDS Portal, TLAPS

IInv == TypeOK /\ SdqcrMatches /\ NothingDangles

-----------------------------------------------------------------------------
\* A portal has one of the two modes.
LEMMA ModeType == \A p : Mode(p) \in {"direct", "mem_back"}
BY DEF Mode

\* The value of SDQCR for a set of channels: zero exactly for the empty set.
LEMMA SdqcrFacts ==
  ASSUME NEW src \in SUBSET Channels
  PROVE  /\ Sdqcr(src) \in [zero : BOOLEAN, src : SUBSET Channels]
         /\ Sdqcr(src).src = src
         /\ src = {} => Sdqcr(src).zero
BY DEF Sdqcr, Zero

\* SDQCR out of reset enables nothing and is zero.
LEMMA ZeroFacts ==
  /\ Zero \in [zero : BOOLEAN, src : SUBSET Channels]
  /\ Zero.src = {} /\ Zero.zero
BY DEF Zero

-----------------------------------------------------------------------------
\* The invariant holds at the start.
LEMMA InitIInv == Init => IInv
<1> SUFFICES ASSUME Init PROVE IInv
  OBVIOUS
<1>1. TypeOK
  BY ZeroFacts, PortalAssumption DEF Init, TypeOK
<1>2. SdqcrMatches /\ NothingDangles
  BY ZeroFacts DEF Init, SdqcrMatches, NothingDangles
<1> QED
  BY <1>1, <1>2 DEF IInv

\* A portal is initialised.
LEMMA InitOkIInv ==
  ASSUME IInv, NEW p \in Portals, InitOk(p)
  PROVE  IInv'
<1> USE DEF IInv, InitOk, SysInit
<1>1. TypeOK'
  BY ZeroFacts, ModeType DEF TypeOK, InitSdqcr, SelectMode
<1>2. SdqcrMatches'
  <2>1. \A q \in Portals : sdqcr'[q] = IF q = p THEN Zero ELSE sdqcr[q]
    BY DEF TypeOK, InitSdqcr
  <2>2. \A q \in Portals : sdq'[q] = IF q = p THEN {} ELSE sdq[q]
    BY DEF TypeOK
  <2>3. live \subseteq Portals /\ live' = live \cup {p}
    BY DEF TypeOK
  <2>4. \A q \in Portals : sdqcr'[q].src = {} => sdqcr'[q].zero
    BY <2>1, ZeroFacts DEF SdqcrMatches
  <2>5. \A q \in live' : sdqcr'[q].src = sdq'[q]
    BY <2>1, <2>2, <2>3, ZeroFacts DEF SdqcrMatches
  <2> QED
    BY <2>4, <2>5 DEF SdqcrMatches
<1>3. NothingDangles'
  BY DEF TypeOK, NothingDangles
<1> QED
  BY <1>1, <1>2, <1>3

\* An initialisation finds the portal not clean.
LEMMA InitNotCleanIInv ==
  ASSUME IInv, NEW p \in Portals, InitNotClean(p)
  PROVE  IInv'
<1> USE DEF IInv, InitNotClean, SysInit
<1>1. TypeOK'
  BY ModeType, PortalAssumption DEF TypeOK
<1>2. SdqcrMatches'
  BY DEF TypeOK, SdqcrMatches
<1>3. NothingDangles'
  BY PortalAssumption DEF TypeOK, NothingDangles
<1> QED
  BY <1>1, <1>2, <1>3

\* A portal is finished: its shadow area, counted as not leaked, is freed.
LEMMA FinishIInv ==
  ASSUME IInv, NEW p \in Portals, Finish(p)
  PROVE  IInv'
<1> USE DEF IInv, Finish
<1>1. shadows[p] = leaked[p] + 1 /\ leaked[p] \in Nat
  BY PortalAssumption DEF TypeOK, NothingDangles
<1>2. TypeOK'
  BY <1>1 DEF TypeOK
<1>3. SdqcrMatches'
  BY DEF SdqcrMatches
<1>4. NothingDangles'
  BY <1>1 DEF TypeOK, NothingDangles
<1> QED
  BY <1>2, <1>3, <1>4

\* A channel is enabled or disabled.
LEMMA PushSetIInv ==
  ASSUME IInv, NEW p \in Portals, NEW c \in Channels, NEW enable \in BOOLEAN,
         push_set(p, c, enable)
  PROVE  IInv'
<1> DEFINE src == IF enable THEN sdq[p] \cup {c} ELSE sdq[p] \ {c}
<1>1. /\ p \in live /\ sdq' = [sdq EXCEPT ![p] = src]
      /\ sdqcr' = [sdqcr EXCEPT ![p] = Sdqcr(src)]
      /\ UNCHANGED <<live, shadows, leaked, portal_idx_map, ptrs, cfg, dirty>>
  BY DEF push_set
<1>2. src \in SUBSET Channels
  BY DEF IInv, TypeOK
<1> HIDE DEF src
<1>3. TypeOK'
  BY <1>1, <1>2, SdqcrFacts DEF IInv, TypeOK
<1>4. SdqcrMatches'
  BY <1>1, <1>2, SdqcrFacts DEF IInv, TypeOK, SdqcrMatches
<1>5. NothingDangles'
  BY <1>1 DEF IInv, NothingDangles
<1> QED
  BY <1>3, <1>4, <1>5 DEF IInv

\* QMan makes a portal dirty, the management complex cleans one out of use.
LEMMA EnvironmentIInv ==
  ASSUME IInv, NEW p \in Portals, Dequeue(p) \/ Reset(p)
  PROVE  IInv'
<1>1. CASE Dequeue(p)
  BY <1>1 DEF Dequeue, IInv, TypeOK, SdqcrMatches, NothingDangles
<1>2. CASE Reset(p)
  <2> USE <1>2 DEF IInv, Reset
  <2>1. TypeOK' /\ SdqcrMatches'
    BY ZeroFacts DEF TypeOK, SdqcrMatches
  <2>2. NothingDangles'
    BY DEF TypeOK, NothingDangles
  <2> QED
    BY <2>1, <2>2
<1> QED
  BY <1>1, <1>2

\* The invariant holds in every state.
LEMMA Inductive == Spec => []IInv
<1>1. IInv /\ [Next]_vars => IInv'
  <2> SUFFICES ASSUME IInv, [Next]_vars PROVE IInv'
    OBVIOUS
  <2>1. CASE Next
    BY <2>1, InitOkIInv, InitNotCleanIInv, FinishIInv, PushSetIInv,
       EnvironmentIInv DEF Next
  <2>2. CASE UNCHANGED vars
    BY <2>2 DEF vars, IInv, TypeOK, SdqcrMatches, NothingDangles
  <2> QED
    BY <2>1, <2>2
<1> QED
  BY <1>1, InitIInv, PTL DEF Spec

-----------------------------------------------------------------------------
\* The type invariant: in particular no shadow area is freed more often than it
\* was allocated.
THEOREM TypeCorrect == Spec => []TypeOK
<1>1. IInv => TypeOK
  BY DEF IInv
<1> QED
  BY <1>1, Inductive, PTL

\* SDQCR is zero whenever it enables no channel, and a portal in use dequeues
\* from the channels it was asked to, also if it was used before and not reset.
THEOREM SdqcrFollows == Spec => []SdqcrMatches
<1>1. IInv => SdqcrMatches
  BY DEF IInv
<1> QED
  BY <1>1, Inductive, PTL

\* The map from tokens to portals never leads to a freed object, and a shadow
\* area is lost only by an initialisation that finds its portal not clean.
THEOREM NoDanglingPortal == Spec => []NothingDangles
<1>1. IInv => NothingDangles
  BY DEF IInv
<1> QED
  BY <1>1, Inductive, PTL
=============================================================================
