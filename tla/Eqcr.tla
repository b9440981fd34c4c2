-------------------------------- MODULE Eqcr --------------------------------
(***************************************************************************)
(* The enqueue command ring (EQCR) of a software portal in ring mode: the  *)
(* driver's producer side (s->eqcr in qbman_portal.c) and QMan's consumer  *)
(* side.                                                                   *)
(*                                                                         *)
(* Software fills ring slots and hands them over in one of two ways.  In   *)
(* direct mode QMan polls the valid bit in word 0 of the slot; in memory-  *)
(* backed mode it consumes up to the producer index that software writes   *)
(* to the EQCR_PI register.  A store to a slot reaches QMan some time      *)
(* after it is issued, in any order that no barrier or flush forbids.  One *)
(* thread uses the producer side of a portal; QMan runs beside it.         *)
(***************************************************************************)
EXTENDS Integers

CONSTANTS
  RingSize,    \* eqcr.pi_ring_size: 8, or 32 in memory-backed mode
  MemBack,     \* memory-backed mode (QMan 5.0, fastest access)?
  ResetVb,     \* valid bit of EQCR_PI out of reset
  MaxBatch,    \* largest num_frames of a call; bounds the model
  MaxFrames,   \* frames accepted in all; bounds the model
  DcaFrames    \* the frames whose enqueue shall also consume a DQRR entry

ASSUME EqcrAssumption ==
  /\ RingSize \in Nat \ {0}
  /\ MemBack \in BOOLEAN
  /\ ResetVb \in {0, 1}
  /\ MaxBatch \in Nat
  /\ MaxFrames \in Nat
  /\ DcaFrames \subseteq 1..MaxFrames

VARIABLES
  pi, pi_vb, ci, available,  \* struct qbman_swp, member eqcr
  call,     \* the enqueue call in progress
  last,     \* what the last finished call was asked and what it returned
  cpu,      \* the ring as software wrote it
  stores,   \* slot -> parts of it written but not yet visible to QMan
  ring,     \* the ring as QMan sees it
  pi_reg,   \* the EQCR_PI register (memory-backed mode)
  hw_ci,    \* QMan's own consumer index
  ci_reg,   \* the consumer index software can read, at times behind hw_ci
  accepted, \* frames accepted so far (history); frame k is the k-th of them
  executed, \* commands QMan has executed so far (history)
  got       \* what the last command executed carried (history)

eqcr == <<pi, pi_vb, ci, available>>
hw   == <<hw_ci, ci_reg, executed, got>>
vars == <<eqcr, call, last, cpu, stores, ring, pi_reg, hw, accepted>>

-----------------------------------------------------------------------------
EBUSY == 16

\* Broken variants (names with an underscore) stand before the definition they
\* are a variant of; a property is worth checking if such a bug violates it.
Full_NoMask(x) == x

\* x & full_mask and x & half_mask: the ring size is a power of two and
\* pi_ci_mask, built from it bit by bit, is 2 * pi_ring_size - 1.
Full(x) == x % (2 * RingSize)
Slot(x) == x % RingSize

\* Distance from index 'first' to index 'last' in a ring whose indices run
\* over twice its size.
qm_cyc_diff(ringsize, first, end) ==
  IF first <= end THEN end - first ELSE 2 * ringsize + end - first

\* The valid bit QMan expects at index x: it flips at each turn of the ring.
VbAt(x) == IF x < RingSize THEN ResetVb ELSE 1 - ResetVb

VbAfter_NeverFlips(x, vb) == vb

\* pi_vb ^= QB_VALID_BIT when the index after x starts a turn of the ring.
VbAfter(x, vb) == IF Slot(x + 1) = 0 THEN 1 - vb ELSE vb

\* x & (pi_ci_mask << 1), the mask qbman_swp_init applies: it drops bit 0.
DropBit0(x) == x - (x % 2)

\* The room qbman_swp_init computes from the index registers.
InitAvailable(ci0, pi0) ==
  RingSize - qm_cyc_diff(RingSize, DropBit0(ci0), DropBit0(pi0))

Idle == [pc |-> "idle", api |-> "none", asked |-> 0, num |-> 0, i |-> 0]

Slots == 0 .. RingSize - 1

\* A reset portal: indices zero, no slot carries the valid bit of turn one.
Init ==
  /\ pi = 0 /\ ci = 0
  /\ pi_vb = ResetVb
  /\ available = InitAvailable(0, 0)
  /\ call = Idle
  /\ last = [api |-> "none", asked |-> 0, ret |-> 0]
  /\ cpu = [s \in Slots |-> [vb |-> 1 - ResetVb, frame |-> 0, dca |-> FALSE]]
  /\ ring = cpu
  /\ stores = [s \in Slots |-> {}]
  /\ pi_reg = 0 /\ hw_ci = 0 /\ ci_reg = 0
  /\ accepted = 0 /\ executed = 0
  /\ got = [frame |-> 0, dca |-> FALSE]

-----------------------------------------------------------------------------
(* The enqueue functions. *)

RefreshedAvailable_HalfMask ==
  IF available = 0 THEN qm_cyc_diff(RingSize, Slot(ci), Slot(ci_reg)) ELSE available

\* The consumer index and the room after the refresh that the functions make
\* when they have run out of room.
RefreshedCi == IF available = 0 THEN ci_reg ELSE ci
RefreshedAvailable ==
  IF available = 0 THEN qm_cyc_diff(RingSize, ci, ci_reg) ELSE available

Refuse(api, asked, ret) ==
  /\ RefreshedAvailable = 0
  /\ available' = 0
  /\ last' = [api |-> api, asked |-> asked, ret |-> ret]
  /\ UNCHANGED <<call, accepted>>

Claim(api, asked) ==
  LET num == IF RefreshedAvailable < asked THEN RefreshedAvailable ELSE asked
  IN /\ RefreshedAvailable > 0
     /\ accepted + num <= MaxFrames
     /\ available' = RefreshedAvailable - num
     /\ accepted' = accepted + num
     /\ call' = [pc |-> "fill", api |-> api, asked |-> asked,
                 num |-> num, i |-> 0]
     /\ UNCHANGED last

Begin(api, asked, busy) ==
  /\ call.pc = "idle"
  /\ ci' = RefreshedCi
  /\ Refuse(api, asked, busy) \/ Claim(api, asked)
  /\ UNCHANGED <<pi, pi_vb, cpu, stores, ring, pi_reg, hw>>

\* The single-frame functions decrement available at the end of the call and
\* not here: nothing looks at it in between.
Enqueue == Begin("enqueue", 1, -EBUSY)
EnqueueMultiple(n) == Begin("multiple", n, 0)
EnqueueMultipleDesc(n) == Begin("multiple_desc", n, 0)

\* The index, slot and frame that the loops of a call are at.
At      == Full(pi + call.i)
AtSlot  == Slot(At)
AtFrame == accepted - call.num + call.i + 1

\* A store to a part of a slot: "body" is everything but word 0.
Store(s, part, slot) ==
  /\ cpu' = [cpu EXCEPT ![s] = slot]
  /\ stores' = [stores EXCEPT ![s] = @ \cup {part}]

FillBody ==
  /\ call.pc = "fill" /\ call.i < call.num
  /\ Store(AtSlot, "body", [cpu[AtSlot] EXCEPT !.frame = AtFrame])
  /\ call' = [call EXCEPT !.i = @ + 1]
  /\ UNCHANGED <<eqcr, last, ring, pi_reg, hw, accepted>>

Lwsync_Missing ==
  /\ call.pc = "fill" /\ call.i = call.num
  /\ call' = [call EXCEPT !.pc = "verb", !.i = 0]
  /\ UNCHANGED <<eqcr, last, cpu, stores, ring, pi_reg, hw, accepted>>

\* lwsync() in direct mode: no word 0 before every body is visible.
Lwsync ==
  /\ call.pc = "fill" /\ call.i = call.num
  /\ MemBack \/ \A s \in Slots : "body" \notin stores[s]
  /\ call' = [call EXCEPT !.pc = "verb", !.i = 0]
  /\ UNCHANGED <<eqcr, last, cpu, stores, ring, pi_reg, hw, accepted>>

\* The flags of qbman_swp_enqueue_multiple ask for DCA frame by frame; in the
\* other functions the descriptor's word 0 already does.
ByFlag == call.api = "multiple" /\ AtFrame \in DcaFrames

NextFrame ==
  /\ call' = [call EXCEPT !.pc = "verb", !.i = @ + 1]
  /\ pi_vb' = VbAfter(At, pi_vb)

WriteVerb ==
  /\ call.pc = "verb" /\ call.i < call.num
  /\ Store(AtSlot, "word0",
           [cpu[AtSlot] EXCEPT !.vb = pi_vb,
                               !.dca = AtFrame \in DcaFrames /\ ~ByFlag])
  /\ IF ByFlag THEN /\ call' = [call EXCEPT !.pc = "dca"]
                    /\ UNCHANGED pi_vb
               ELSE NextFrame
  /\ UNCHANGED <<pi, ci, available, last, ring, pi_reg, hw, accepted>>

\* d->eq.dca = ..., a second store to word 0 of the slot.
WriteDca ==
  /\ call.pc = "dca"
  /\ Store(AtSlot, "word0", [cpu[AtSlot] EXCEPT !.dca = TRUE])
  /\ NextFrame
  /\ UNCHANGED <<pi, ci, available, last, ring, pi_reg, hw, accepted>>

\* dcbf: the cache line of the slot goes to QMan.
Flush ==
  /\ ~MemBack
  /\ \/ call.pc = "flush"
     \/ call.pc = "verb" /\ call.i = call.num /\ call.num > 0
  /\ LET j == IF call.pc = "verb" THEN 0 ELSE call.i
         s == Slot(Full(pi + j))
     IN /\ j < call.num
        /\ ring' = [ring EXCEPT ![s] = cpu[s]]
        /\ stores' = [stores EXCEPT ![s] = {}]
        /\ call' = [call EXCEPT !.pc = "flush", !.i = j + 1]
  /\ UNCHANGED <<eqcr, last, cpu, pi_reg, hw, accepted>>

\* The end of a call, s->eqcr.pi = eqcr_pi & full_mask.
Return ==
  /\ pi' = Full(pi + call.num)
  /\ last' = [api |-> call.api, asked |-> call.asked,
              ret |-> IF call.api = "enqueue" THEN 0 ELSE call.num]
  /\ call' = Idle
  /\ UNCHANGED <<pi_vb, ci, available, cpu, stores, ring, hw, accepted>>

ReturnDirect ==
  /\ ~MemBack
  /\ call.pc \in {"verb", "flush"} /\ call.i = call.num
  /\ call.pc = "verb" => call.num = 0
  /\ Return
  /\ UNCHANGED pi_reg

ReturnMemBack_NoWmb ==
  /\ MemBack
  /\ call.pc = "verb" /\ call.i = call.num
  /\ Return
  /\ pi_reg' = pi'

\* dma_wmb() and the write to EQCR_PI.
ReturnMemBack ==
  /\ MemBack
  /\ call.pc = "verb" /\ call.i = call.num
  /\ \A s \in Slots : stores[s] = {}
  /\ Return
  /\ pi_reg' = pi'

-----------------------------------------------------------------------------
(* Memory: an issued store becomes visible to QMan. *)

Drain(s, part) ==
  /\ part \in stores[s]
  /\ ring' = [ring EXCEPT ![s] =
                IF part = "body" THEN [@ EXCEPT !.frame = cpu[s].frame]
                ELSE [@ EXCEPT !.vb = cpu[s].vb, !.dca = cpu[s].dca]]
  /\ stores' = [stores EXCEPT ![s] = @ \ {part}]
  /\ UNCHANGED <<eqcr, call, last, cpu, pi_reg, hw, accepted>>

(* QMan. *)

\* A command that QMan takes for a new one is at its consumer index.
Pending ==
  IF MemBack THEN hw_ci # pi_reg ELSE ring[Slot(hw_ci)].vb = VbAt(hw_ci)

Execute ==
  /\ Pending
  /\ executed < MaxFrames
  /\ got' = [frame |-> ring[Slot(hw_ci)].frame, dca |-> ring[Slot(hw_ci)].dca]
  /\ executed' = executed + 1
  /\ hw_ci' = Full(hw_ci + 1)
  /\ UNCHANGED <<eqcr, call, last, cpu, stores, ring, pi_reg, ci_reg, accepted>>

PublishCi ==
  /\ ci_reg # hw_ci
  /\ ci_reg' = hw_ci
  /\ UNCHANGED <<eqcr, call, last, cpu, stores, ring, pi_reg, hw_ci, executed,
                 got, accepted>>

-----------------------------------------------------------------------------
Caller == \/ Enqueue
          \/ \E n \in 0..MaxBatch : EnqueueMultiple(n) \/ EnqueueMultipleDesc(n)

Driver == \/ FillBody \/ Lwsync \/ WriteVerb \/ WriteDca
          \/ Flush \/ ReturnDirect \/ ReturnMemBack

Memory == \E s \in Slots, part \in {"body", "word0"} : Drain(s, part)

QMan == Execute \/ PublishCi

Next == Caller \/ Driver \/ Memory \/ QMan

Spec == Init /\ [][Next]_vars

\* A call once begun runs to its end, stores reach memory, QMan executes.
FairSpec == /\ Spec
            /\ WF_vars(Driver) /\ WF_vars(Memory)
            /\ WF_vars(Execute) /\ WF_vars(PublishCi)

-----------------------------------------------------------------------------
(* Properties. *)

Indices == 0 .. 2 * RingSize - 1
SlotState == [vb : {0, 1}, frame : Nat, dca : BOOLEAN]

\* The type invariant of the ring, the call in progress and QMan's side.
TypeOK ==
  /\ pi \in Indices /\ ci \in Indices /\ pi_vb \in {0, 1}
  /\ available \in 0..RingSize
  /\ call \in [pc : {"idle", "fill", "verb", "dca", "flush"},
               api : {"none", "enqueue", "multiple", "multiple_desc"},
               asked : Nat, num : 0..RingSize, i : 0..RingSize]
  /\ last \in [api : {"none", "enqueue", "multiple", "multiple_desc"},
               asked : Nat, ret : Int]
  /\ cpu \in [Slots -> SlotState] /\ ring \in [Slots -> SlotState]
  /\ stores \in [Slots -> SUBSET {"body", "word0"}]
  /\ pi_reg \in Indices /\ hw_ci \in Indices /\ ci_reg \in Indices
  /\ accepted \in Nat /\ executed \in Nat
  /\ got \in [frame : Nat, dca : BOOLEAN]

\* QMan executes the accepted frames once each and in order: whatever the
\* interleaving of software's stores with QMan's reads, the n-th command it
\* executes carries frame n, so no slot is read torn or stale, run twice,
\* skipped, or overwritten before it was executed.
InOrder == got.frame = executed

\* The functions refuse a frame ("EQCR is not ready") only if the ring is full
\* as far as the published consumer index tells: the cached room never falls
\* behind, and no slot of the ring is lost however often the index wraps.
RefusesOnlyWhenFull ==
  call.pc = "idle" /\ RefreshedAvailable = 0
    => accepted - executed + qm_cyc_diff(RingSize, ci_reg, hw_ci) = RingSize

\* A frame enqueued with the DCA flag reaches QMan with its DCA field set, and
\* only such a frame does.
DcaReachesQMan == executed > 0 => (got.dca <=> executed \in DcaFrames)

\* The ring keeps the promise of the bounded queue: room for RingSize frames,
\* each executed once and in order, and under fairness all of them executed.
Fifo == INSTANCE BoundedFifo WITH
          Capacity <- RingSize, accepted <- accepted, executed <- executed,
          got <- got.frame
FifoSpec == Fifo!FairSpec
=============================================================================
