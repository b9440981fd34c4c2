------------------------------- MODULE MCEqcr -------------------------------
(* Instances of Eqcr for TLC. *)
EXTENDS Eqcr

mc_DcaFrames == {2, 3}

-----------------------------------------------------------------------------
(* Both modes in one state space: a portal is in direct mode (the constants of *)
(* the configuration) or in memory-backed mode, where the valid bit out of     *)
(* reset is the other one.                                                     *)

VARIABLE mem_back

MB == INSTANCE Eqcr WITH MemBack <- TRUE, ResetVb <- 1 - ResetVb

both_Init == (mem_back = FALSE /\ Init) \/ (mem_back = TRUE /\ MB!Init)

both_Direct(A) == ~mem_back /\ A /\ UNCHANGED mem_back
both_MemBack(A) == mem_back /\ A /\ UNCHANGED mem_back

both_Next == both_Direct(Next) \/ both_MemBack(MB!Next)
both_vars == <<vars, mem_back>>

\* The fairness of FairSpec in either mode.
both_FairSpec ==
  /\ both_Init /\ [][both_Next]_both_vars
  /\ WF_both_vars(both_Direct(Driver) \/ both_MemBack(MB!Driver))
  /\ WF_both_vars(both_Direct(Memory) \/ both_MemBack(MB!Memory))
  /\ WF_both_vars(both_Direct(Execute) \/ both_MemBack(MB!Execute))
  /\ WF_both_vars(both_Direct(PublishCi) \/ both_MemBack(MB!PublishCi))

-----------------------------------------------------------------------------
\* In memory-backed mode DCA is stored behind the verb as well, but EQCR_PI hands
\* the slot over last, behind dma_wmb: QMan consumes the DQRR entries of the frames
\* enqueued with the flag and no others, wherever a batch crosses the ring's end.
MemBackDcaReachesQMan == mem_back => DcaReachesQMan
=============================================================================
