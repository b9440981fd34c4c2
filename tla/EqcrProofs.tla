----------------------------- MODULE EqcrProofs -----------------------------
(***************************************************************************)
(* Proofs about Eqcr, for every ring size, both modes and every reset      *)
(* value of the valid bit.                                                 *)
(*                                                                         *)
(* The inductive invariant IInv looks at the ring from QMan's consumer     *)
(* index on: the d-th index ahead of it belongs to frame executed + 1 + d. *)
(* Room counts slots: those freed but not published, published but not     *)
(* read, waiting, and available add up to the ring.  ValidBits says which  *)
(* slots of the window carry the valid bit of their turn, Bodied which of  *)
(* them carry their frame and have it visible to QMan.  InOrder needs both *)
(* of these, and RefusesOnlyWhenFull is a case of Room.                    *)
(***************************************************************************)
EXTENDS Eqcr, TLAPS

\* Accepted frames that QMan has not executed yet.
Waiting == accepted - executed

\* The d-th index from QMan's consumer index on, and its slot.
Ahead(d) == Full(hw_ci + d)
AheadSlot(d) == Slot(Ahead(d))

\* Of the frames of the call in progress: bodies stored, valid bits stored,
\* and the place of the index that pi_vb belongs to.
Bodies == IF call.pc = "fill" THEN call.i ELSE call.num
Verbs == IF call.pc = "dca" THEN call.i + 1
         ELSE IF call.pc = "verb" THEN call.i
         ELSE IF call.pc = "flush" THEN call.num ELSE 0
VbPlace == IF call.pc \in {"verb", "dca"} THEN call.i
           ELSE IF call.pc = "flush" THEN call.num ELSE 0

\* Of the waiting frames: those whose body is stored, and those handed over.
Stored == Waiting - call.num + Bodies
Handed == IF MemBack THEN Waiting - call.num
                     ELSE Waiting - call.num + Verbs

Types ==
  /\ pi \in Indices /\ ci \in Indices /\ pi_vb \in {0, 1}
  /\ available \in Int
  /\ call \in [pc : {"idle", "fill", "verb", "dca", "flush"},
               api : {"none", "enqueue", "multiple", "multiple_desc"},
               asked : Nat, num : 0..RingSize, i : 0..RingSize]
  /\ last \in [api : {"none", "enqueue", "multiple", "multiple_desc"},
               asked : Nat, ret : Int]
  /\ cpu \in [Slots -> SlotState] /\ ring \in [Slots -> SlotState]
  /\ stores \in [Slots -> SUBSET {"body", "word0"}]
  /\ pi_reg \in Indices /\ hw_ci \in Indices /\ ci_reg \in Indices
  /\ accepted \in Nat /\ executed \in Nat
  /\ got \in [frame : Nat, dca : BOOLEAN]

CallOK ==
  /\ call.i <= call.num
  /\ call.pc = "idle" => call.num = 0 /\ call.i = 0
  /\ call.pc = "dca" => call.i < call.num
  /\ call.pc = "flush" => ~MemBack

Room ==
  /\ available >= 0
  /\ Handed >= 0
  /\ qm_cyc_diff(RingSize, ci, ci_reg) + qm_cyc_diff(RingSize, ci_reg, hw_ci)
       + Waiting + available = RingSize
  /\ Full(pi + call.num) = Full(hw_ci + Waiting)
  /\ MemBack => pi_reg = pi

ValidBits ==
  /\ pi_vb = VbAt(Full(pi + VbPlace))
  /\ ~MemBack => \A d \in 0 .. RingSize - 1 :
       /\ d < Handed => cpu[AheadSlot(d)].vb = VbAt(Ahead(d))
       /\ d >= Handed => /\ cpu[AheadSlot(d)].vb # VbAt(Ahead(d))
                         /\ ring[AheadSlot(d)].vb # VbAt(Ahead(d))

Bodied ==
  /\ got.frame = executed
  /\ \A s \in Slots : "body" \notin stores[s] => ring[s].frame = cpu[s].frame
  /\ ~MemBack /\ call.pc \in {"verb", "dca", "flush"}
       => \A s \in Slots : "body" \notin stores[s]
  /\ \A d \in 0 .. RingSize - 1 :
       /\ d < Stored => cpu[AheadSlot(d)].frame = executed + 1 + d
       /\ d < Handed => "body" \notin stores[AheadSlot(d)]

IInv == Types /\ CallOK /\ Room /\ ValidBits /\ Bodied

-----------------------------------------------------------------------------
\* Reduction modulo twice the ring size, without %.
LEMMA FullVal ==
  ASSUME NEW x \in 0 .. 4 * RingSize - 1
  PROVE  Full(x) = IF x < 2 * RingSize THEN x ELSE x - 2 * RingSize
BY EqcrAssumption DEF Full

\* Reduction of an index to its slot, without %.
LEMMA SlotVal ==
  ASSUME NEW x \in 0 .. 2 * RingSize
  PROVE  Slot(x) = IF x < RingSize THEN x
                   ELSE IF x < 2 * RingSize THEN x - RingSize ELSE 0
BY EqcrAssumption DEF Slot

\* Indices are numbers.
LEMMA IndicesNat == Indices \subseteq Nat
BY EqcrAssumption DEF Indices

\* Reduction gives an index.
LEMMA FullType ==
  ASSUME NEW x \in 0 .. 4 * RingSize - 1
  PROVE  Full(x) \in Indices
BY FullVal, EqcrAssumption DEF Indices

\* An index has a slot.
LEMMA SlotType ==
  ASSUME NEW x \in Indices
  PROVE  Slot(x) \in Slots
BY SlotVal, EqcrAssumption DEF Indices, Slots

\* An offset from the next index is the offset plus one from this one.
LEMMA Shift ==
  ASSUME NEW h \in Indices, NEW d \in 0 .. RingSize
  PROVE  /\ Full(h + 1) \in Indices
         /\ Full(Full(h + 1) + d) = Full(h + (d + 1))
<1>1. h + 1 \in 0 .. 4 * RingSize - 1 /\ h + (d + 1) \in 0 .. 4 * RingSize - 1
  BY EqcrAssumption DEF Indices
<1>2. Full(h + 1) = IF h + 1 < 2 * RingSize THEN h + 1 ELSE h + 1 - 2 * RingSize
  BY <1>1, FullVal, EqcrAssumption DEF Indices
<1>3. Full(h + 1) + d \in 0 .. 4 * RingSize - 1
  BY <1>1, <1>2, EqcrAssumption DEF Indices
<1> QED
  BY <1>1, <1>2, <1>3, FullVal, EqcrAssumption DEF Indices

\* The index after an offset is the offset plus one.
LEMMA ShiftOne ==
  ASSUME NEW h \in Indices, NEW d \in 0 .. RingSize
  PROVE  /\ Full(h + d) \in Indices
         /\ Full(Full(h + d) + 1) = Full(h + (d + 1))
<1>1. h + d \in 0 .. 4 * RingSize - 1 /\ h + (d + 1) \in 0 .. 4 * RingSize - 1
  BY EqcrAssumption DEF Indices
<1>2. Full(h + d) = IF h + d < 2 * RingSize THEN h + d ELSE h + d - 2 * RingSize
  BY <1>1, FullVal, EqcrAssumption DEF Indices
<1>3. Full(h + d) + 1 \in 0 .. 4 * RingSize - 1
  BY <1>1, <1>2, EqcrAssumption DEF Indices
<1> QED
  BY <1>1, <1>2, <1>3, FullVal, EqcrAssumption DEF Indices

\* The slots of a window of RingSize indices are distinct.
LEMMA SlotInjective ==
  ASSUME NEW h \in Indices,
         NEW d \in 0 .. RingSize - 1, NEW e \in 0 .. RingSize - 1,
         Slot(Full(h + d)) = Slot(Full(h + e))
  PROVE  d = e
<1>1. h + d \in 0 .. 4 * RingSize - 1 /\ h + e \in 0 .. 4 * RingSize - 1
  BY EqcrAssumption DEF Indices
<1>2. /\ Full(h + d) = IF h + d < 2 * RingSize THEN h + d ELSE h + d - 2 * RingSize
      /\ Full(h + e) = IF h + e < 2 * RingSize THEN h + e ELSE h + e - 2 * RingSize
  BY <1>1, FullVal, EqcrAssumption DEF Indices
<1>3. Full(h + d) \in 0 .. 2 * RingSize /\ Full(h + e) \in 0 .. 2 * RingSize
  BY <1>1, <1>2, EqcrAssumption DEF Indices
<1> QED
  BY <1>2, <1>3, SlotVal, EqcrAssumption DEF Indices

\* One turn later the slot is the same and its valid bit the other one.
LEMMA NextTurn ==
  ASSUME NEW h \in Indices
  PROVE  /\ Slot(Full(h + RingSize)) = Slot(h)
         /\ VbAt(Full(h + RingSize)) # VbAt(h)
<1>1. h + RingSize \in 0 .. 4 * RingSize - 1
  BY EqcrAssumption DEF Indices
<1>2. Full(h + RingSize)
        = IF h < RingSize THEN h + RingSize ELSE h - RingSize
  BY <1>1, FullVal, EqcrAssumption DEF Indices
<1>3. /\ h \in 0 .. 2 * RingSize
      /\ Full(h + RingSize) \in 0 .. 2 * RingSize
  BY <1>2, EqcrAssumption DEF Indices
<1>4. Slot(Full(h + RingSize)) = Slot(h)
  BY <1>2, <1>3, SlotVal, EqcrAssumption DEF Indices
<1>5. VbAt(Full(h + RingSize)) # VbAt(h)
  BY <1>2, EqcrAssumption DEF VbAt, Indices
<1> QED
  BY <1>4, <1>5

\* The flip of pi_vb at a turn keeps it the valid bit of the next index.
LEMMA VbNext ==
  ASSUME NEW x \in Indices
  PROVE  VbAfter(x, VbAt(x)) = VbAt(Full(x + 1))
<1>1. x + 1 \in 0 .. 2 * RingSize /\ x + 1 \in 0 .. 4 * RingSize - 1
  BY EqcrAssumption DEF Indices
<1>2. Full(x + 1) = IF x + 1 < 2 * RingSize THEN x + 1 ELSE x + 1 - 2 * RingSize
  BY <1>1, FullVal, EqcrAssumption DEF Indices
<1>3. Slot(x + 1) = IF x + 1 < RingSize THEN x + 1
                    ELSE IF x + 1 < 2 * RingSize THEN x + 1 - RingSize ELSE 0
  BY <1>1, SlotVal, EqcrAssumption DEF Indices
<1> QED
  BY <1>2, <1>3, EqcrAssumption DEF VbAfter, VbAt, Indices

\* qm_cyc_diff is the distance that leads from one index to the other.
LEMMA CycVal ==
  ASSUME NEW a \in Indices, NEW b \in Indices
  PROVE  /\ qm_cyc_diff(RingSize, a, b) \in Indices
         /\ qm_cyc_diff(RingSize, a, a) = 0
         /\ qm_cyc_diff(RingSize, a, b) = 0 => a = b
         /\ Full(a + qm_cyc_diff(RingSize, a, b)) = b
<1>1. qm_cyc_diff(RingSize, a, b) \in Indices
  BY EqcrAssumption DEF qm_cyc_diff, Indices
<1>2. a + qm_cyc_diff(RingSize, a, b) \in 0 .. 4 * RingSize - 1
  BY <1>1, EqcrAssumption DEF Indices
<1> QED
  BY <1>1, <1>2, FullVal, EqcrAssumption DEF qm_cyc_diff, Indices

\* A step of the later index adds one to the distance.
LEMMA CycStep ==
  ASSUME NEW a \in Indices, NEW b \in Indices,
         qm_cyc_diff(RingSize, a, b) < 2 * RingSize - 1
  PROVE  qm_cyc_diff(RingSize, a, Full(b + 1))
           = qm_cyc_diff(RingSize, a, b) + 1
<1>1. b + 1 \in 0 .. 4 * RingSize - 1
  BY EqcrAssumption DEF Indices
<1> QED
  BY <1>1, FullVal, EqcrAssumption DEF qm_cyc_diff, Indices

\* Distances add up within a ring size.
LEMMA CycAdd ==
  ASSUME NEW a \in Indices, NEW b \in Indices, NEW c \in Indices,
         qm_cyc_diff(RingSize, a, b) + qm_cyc_diff(RingSize, b, c) <= RingSize
  PROVE  qm_cyc_diff(RingSize, a, c)
           = qm_cyc_diff(RingSize, a, b) + qm_cyc_diff(RingSize, b, c)
BY EqcrAssumption DEF qm_cyc_diff, Indices

-----------------------------------------------------------------------------
Apis == {"none", "enqueue", "multiple", "multiple_desc"}

\* The reset portal satisfies the invariant.
LEMMA InitIInv == Init => IInv
<1> SUFFICES ASSUME Init PROVE IInv
  OBVIOUS
<1>1. 0 \in Indices /\ 0 \in 0 .. 4 * RingSize - 1 /\ Full(0) = 0
  BY FullVal, EqcrAssumption DEF Indices
<1>2. available = RingSize
  BY <1>1, EqcrAssumption DEF Init, InitAvailable, DropBit0, qm_cyc_diff
<1>3. Types
  BY <1>1, <1>2, EqcrAssumption DEF Init, Types, Idle, Slots, SlotState
<1>4. CallOK
  BY DEF Init, CallOK, Idle
<1>5. Handed = 0 /\ Stored = 0 /\ Waiting = 0
  BY DEF Init, Idle, Handed, Stored, Waiting, Bodies, Verbs
<1>6. Room
  BY <1>1, <1>2, <1>5, EqcrAssumption DEF Init, Room, Idle, qm_cyc_diff
<1>7. ValidBits
  <2>1. pi_vb = VbAt(Full(pi + VbPlace))
    BY <1>1, EqcrAssumption DEF Init, Idle, VbPlace, VbAt
  <2>2. ASSUME NEW d \in 0 .. RingSize - 1
        PROVE  /\ AheadSlot(d) \in Slots
               /\ VbAt(Ahead(d)) = ResetVb
    <3>1. hw_ci + d = d /\ d \in 0 .. 4 * RingSize - 1 /\ d \in 0 .. 2 * RingSize
      BY EqcrAssumption DEF Init
    <3>2. Ahead(d) = d
      BY <3>1, FullVal, EqcrAssumption DEF Ahead
    <3> QED
      BY <3>1, <3>2, SlotVal, EqcrAssumption DEF AheadSlot, VbAt, Slots
  <2> QED
    BY <1>5, <2>1, <2>2, EqcrAssumption DEF Init, ValidBits
<1>8. Bodied
  BY <1>5, EqcrAssumption DEF Init, Bodied, Idle
<1> QED
  BY <1>3, <1>4, <1>6, <1>7, <1>8 DEF IInv

\* The start of a call, refused or granted, keeps the invariant.
LEMMA BeginStep ==
  ASSUME IInv, NEW api \in Apis, NEW asked \in Nat, NEW busy \in Int,
         Begin(api, asked, busy)
  PROVE  IInv'
<1> USE EqcrAssumption
<1>1. /\ call.pc = "idle" /\ call.num = 0 /\ call.i = 0
      /\ Types /\ Room /\ ValidBits /\ Bodied
  BY DEF IInv, CallOK, Begin
<1>2. /\ ci \in Indices /\ ci_reg \in Indices /\ hw_ci \in Indices
      /\ available \in Int /\ Waiting \in Int
  BY <1>1 DEF Types, Waiting
<1>3. Waiting >= 0
  BY <1>1, <1>2 DEF Room, Handed, Verbs
<1>4. /\ RefreshedCi \in Indices /\ RefreshedAvailable \in Nat
      /\ qm_cyc_diff(RingSize, RefreshedCi, ci_reg)
           + qm_cyc_diff(RingSize, ci_reg, hw_ci)
           + Waiting + RefreshedAvailable = RingSize
  <2>1. /\ qm_cyc_diff(RingSize, ci, ci_reg) \in Nat
        /\ qm_cyc_diff(RingSize, ci_reg, hw_ci) \in Nat
        /\ qm_cyc_diff(RingSize, ci_reg, ci_reg) = 0
    BY <1>2, CycVal, IndicesNat
  <2>2. available = 0 \/ available > 0
    BY <1>1, <1>2 DEF Room
  <2> QED
    BY <1>1, <1>2, <2>1, <2>2 DEF Room, RefreshedCi, RefreshedAvailable
<1>5. qm_cyc_diff(RingSize, RefreshedCi, ci_reg) \in Nat
      /\ qm_cyc_diff(RingSize, ci_reg, hw_ci) \in Nat
  BY <1>2, <1>4, CycVal, IndicesNat
<1>6. RefreshedAvailable <= RingSize
  BY <1>3, <1>4, <1>5, <1>2
<1>7. CASE Refuse(api, asked, busy)
  <2>1. /\ available' = RefreshedAvailable /\ ci' = RefreshedCi
        /\ UNCHANGED <<pi, pi_vb, call, cpu, stores, ring, pi_reg, hw_ci, ci_reg,
                       executed, got, accepted>>
        /\ last' = [api |-> api, asked |-> asked, ret |-> busy]
    BY <1>7 DEF Begin, Refuse, hw
  <2>2. Types'
    BY <1>1, <1>4, <2>1 DEF Types, Apis
  <2>3. CallOK'
    BY <2>1 DEF IInv, CallOK
  <2>4. /\ Waiting' = Waiting /\ Handed' = Handed /\ Stored' = Stored
        /\ VbPlace' = VbPlace
        /\ \A d : Ahead(d)' = Ahead(d) /\ AheadSlot(d)' = AheadSlot(d)
    BY <2>1 DEF Waiting, Handed, Stored, VbPlace, Verbs, Bodies, Ahead, AheadSlot
  <2>5. Room'
    BY <1>1, <1>4, <2>1, <2>4 DEF Room
  <2>6. ValidBits' /\ Bodied'
    BY <1>1, <2>1, <2>4 DEF ValidBits, Bodied
  <2> QED
    BY <2>2, <2>3, <2>5, <2>6 DEF IInv
<1>8. CASE Claim(api, asked)
  <2> DEFINE num == IF RefreshedAvailable < asked THEN RefreshedAvailable ELSE asked
  <2>1. /\ available' = RefreshedAvailable - num /\ ci' = RefreshedCi
        /\ accepted' = accepted + num
        /\ call' = [pc |-> "fill", api |-> api, asked |-> asked,
                    num |-> num, i |-> 0]
        /\ UNCHANGED <<pi, pi_vb, last, cpu, stores, ring, pi_reg, hw_ci, ci_reg,
                       executed, got>>
    BY <1>8 DEF Begin, Claim, hw
  <2>2. num \in 0 .. RingSize /\ num <= RefreshedAvailable
    BY <1>4, <1>6
  <2> HIDE DEF num
  <2>3. Types'
    BY <1>1, <1>4, <2>1, <2>2 DEF Types, Apis
  <2>4. CallOK'
    BY <2>1, <2>2 DEF CallOK
  <2>5. /\ Waiting' = Waiting + num /\ Handed' = Handed /\ Stored' = Waiting
        /\ Handed = Waiting /\ Stored = Waiting
        /\ VbPlace' = 0 /\ VbPlace = 0
        /\ \A d : Ahead(d)' = Ahead(d) /\ AheadSlot(d)' = AheadSlot(d)
    BY <1>1, <1>2, <2>1, <2>2
    DEF Waiting, Handed, Stored, VbPlace, Verbs, Bodies, Ahead, AheadSlot, Types
  <2>6. Room'
    <3>1. /\ pi \in Indices /\ pi + 0 = pi /\ Full(pi) = Full(hw_ci + Waiting)
          /\ pi \in 0 .. 4 * RingSize - 1 /\ pi + num \in 0 .. 4 * RingSize - 1
          /\ Waiting \in Int /\ hw_ci \in Indices
          /\ Waiting + num >= 0 /\ Waiting + num <= RingSize
      BY <1>1, <1>3, <1>4, <1>5, <2>2, <1>2 DEF Room, Types, Indices
    <3>2. /\ hw_ci + Waiting \in 0 .. 4 * RingSize - 1
          /\ hw_ci + (Waiting + num) \in 0 .. 4 * RingSize - 1
      BY <1>3, <2>2, <3>1 DEF Indices
    <3>3. Full(pi + num) = Full(hw_ci + (Waiting + num))
      BY <3>1, <3>2, <2>2, <1>3, FullVal DEF Indices
    <3> QED
      BY <1>1, <1>2, <1>4, <1>5, <2>1, <2>2, <2>5, <3>3 DEF Room
  <2>7. ValidBits' /\ Bodied'
    BY <1>1, <2>1, <2>5 DEF ValidBits, Bodied
  <2> QED
    BY <2>3, <2>4, <2>6, <2>7 DEF IInv
<1> QED
  BY <1>7, <1>8 DEF Begin

-----------------------------------------------------------------------------
\* The ranges that the invariant gives.
LEMMA Basics ==
  ASSUME IInv
  PROVE  /\ hw_ci \in Indices /\ pi \in Indices /\ executed \in Nat /\ accepted \in Nat
         /\ call.num \in 0 .. RingSize /\ call.i \in 0 .. call.num
         /\ Bodies \in 0 .. call.num /\ Verbs \in 0 .. call.num
         /\ Waiting \in 0 .. RingSize /\ Handed \in 0 .. RingSize /\ Stored \in Int
<1>1. /\ hw_ci \in Indices /\ pi \in Indices /\ ci \in Indices /\ ci_reg \in Indices
      /\ executed \in Nat /\ accepted \in Nat /\ available \in Int
      /\ call.num \in 0 .. RingSize /\ call.i \in 0 .. call.num
  BY EqcrAssumption DEF IInv, Types, CallOK
<1>2. Bodies \in 0 .. call.num /\ Verbs \in 0 .. call.num
  BY <1>1, EqcrAssumption DEF IInv, CallOK, Bodies, Verbs
<1>3. Waiting \in Int /\ Waiting >= 0
  BY <1>1, <1>2 DEF IInv, Room, Handed, Waiting
<1>4. /\ qm_cyc_diff(RingSize, ci, ci_reg) \in Nat
      /\ qm_cyc_diff(RingSize, ci_reg, hw_ci) \in Nat
  BY <1>1, CycVal, IndicesNat
<1>5. Waiting <= RingSize
  BY <1>1, <1>3, <1>4, EqcrAssumption DEF IInv, Room
<1>6. Handed \in 0 .. RingSize /\ Stored \in Int
  BY <1>1, <1>2, <1>3, <1>5, EqcrAssumption DEF IInv, Room, Handed, Stored
<1> QED
  BY <1>1, <1>2, <1>3, <1>5, <1>6, EqcrAssumption

\* The ranges of the terms of Room.
LEMMA RoomTypes ==
  ASSUME IInv
  PROVE  /\ ci \in Indices /\ ci_reg \in Indices /\ hw_ci \in Indices
         /\ qm_cyc_diff(RingSize, ci, ci_reg) \in Nat
         /\ qm_cyc_diff(RingSize, ci_reg, hw_ci) \in Nat
         /\ available \in Nat
<1>1. ci \in Indices /\ ci_reg \in Indices /\ hw_ci \in Indices /\ available \in Int
  BY DEF IInv, Types
<1>2. /\ qm_cyc_diff(RingSize, ci, ci_reg) \in Nat
      /\ qm_cyc_diff(RingSize, ci_reg, hw_ci) \in Nat
  BY <1>1, CycVal, IndicesNat
<1> QED
  BY <1>1, <1>2 DEF IInv, Room

\* The window consists of indices, and of slots.
LEMMA AheadType ==
  ASSUME IInv, NEW d \in 0 .. RingSize
  PROVE  Ahead(d) \in Indices /\ AheadSlot(d) \in Slots
<1>1. hw_ci + d \in 0 .. 4 * RingSize - 1
  BY Basics, EqcrAssumption DEF Indices
<1> QED
  BY <1>1, FullType, SlotType DEF Ahead, AheadSlot

\* Where in the window the frames of the call in progress are.
LEMMA Place ==
  ASSUME IInv, NEW j \in 0 .. call.num, Waiting - call.num + j >= 0
  PROVE  Full(pi + j) = Ahead(Waiting - call.num + j)
<1> DEFINE d == Waiting - call.num + j
<1>1. /\ pi + j \in 0 .. 4 * RingSize - 1 /\ pi + call.num \in 0 .. 4 * RingSize - 1
      /\ hw_ci + Waiting \in 0 .. 4 * RingSize - 1 /\ hw_ci + d \in 0 .. 4 * RingSize - 1
      /\ d \in 0 .. RingSize
  BY Basics, EqcrAssumption DEF Indices
<1>2. Full(pi + call.num) = Full(hw_ci + Waiting)
  BY DEF IInv, Room
<1>3. Full(pi + j) = Full(hw_ci + d)
  BY <1>1, <1>2, Basics, FullVal, EqcrAssumption DEF Indices
<1> QED
  BY <1>3 DEF Ahead

\* The loops of a call stay inside the ring.
LEMMA AtType ==
  ASSUME IInv
  PROVE  At \in Indices /\ AtSlot \in Slots
<1>1. call.i \in 0 .. RingSize
  BY Basics, EqcrAssumption
<1> QED
  BY <1>1, Basics, ShiftOne, SlotType DEF AtSlot, At

\* No slot is twice in the window.
LEMMA Distinct ==
  ASSUME IInv, NEW d \in 0 .. RingSize - 1, NEW e \in 0 .. RingSize - 1,
         AheadSlot(d) = AheadSlot(e)
  PROVE  d = e
BY Basics, SlotInjective DEF AheadSlot, Ahead

\* Storing a body keeps the invariant: it goes to no slot handed over.
LEMMA FillStep ==
  ASSUME IInv, FillBody
  PROVE  IInv'
<1> USE EqcrAssumption
<1>1. /\ call.pc = "fill" /\ call.i < call.num
      /\ call' = [call EXCEPT !.i = @ + 1]
      /\ cpu' = [cpu EXCEPT ![AtSlot] = [cpu[AtSlot] EXCEPT !.frame = AtFrame]]
      /\ stores' = [stores EXCEPT ![AtSlot] = @ \cup {"body"}]
      /\ UNCHANGED <<pi, pi_vb, ci, available, last, ring, pi_reg, hw_ci, ci_reg,
                     executed, got, accepted>>
  BY DEF FillBody, Store, eqcr, hw
<1>2. Types /\ CallOK /\ Room /\ ValidBits /\ Bodied
  BY DEF IInv
<1>3. /\ Stored \in 0 .. RingSize - 1 /\ AtSlot = AheadSlot(Stored)
      /\ AtSlot \in Slots
      /\ AtFrame = executed + 1 + Stored /\ AtFrame \in Nat
      /\ Handed <= Stored
  <2>1. /\ Stored = Waiting - call.num + call.i
        /\ Handed = Waiting - call.num /\ Handed >= 0
    BY <1>1, <1>2, Basics DEF Stored, Bodies, Handed, Verbs, Room
  <2>2. Stored \in 0 .. RingSize - 1 /\ Handed <= Stored
    BY <1>1, <2>1, Basics
  <2>3. AtSlot = AheadSlot(Stored)
    BY <2>1, <2>2, Basics, Place DEF AtSlot, At, AheadSlot
  <2>4. AtFrame = executed + 1 + Stored
    BY <2>1, Basics DEF AtFrame, Waiting
  <2> QED
    BY <2>2, <2>3, <2>4, AheadType, Basics
<1>4. /\ Waiting' = Waiting /\ Handed' = Handed /\ Stored' = Stored + 1
      /\ VbPlace' = VbPlace
      /\ \A d : Ahead(d)' = Ahead(d) /\ AheadSlot(d)' = AheadSlot(d)
  BY <1>1, <1>2, Basics
  DEF Waiting, Handed, Stored, VbPlace, Verbs, Bodies, Ahead, AheadSlot, Types
<1>a. /\ cpu[AtSlot] \in SlotState
      /\ [cpu[AtSlot] EXCEPT !.frame = AtFrame] \in SlotState
      /\ [cpu[AtSlot] EXCEPT !.frame = AtFrame].frame = AtFrame
      /\ [cpu[AtSlot] EXCEPT !.frame = AtFrame].vb = cpu[AtSlot].vb
  <2>1. cpu[AtSlot] \in SlotState
    BY <1>2, <1>3 DEF Types
  <2> QED
    BY <1>3, <2>1 DEF SlotState
<1>5. Types'
  <2>1. cpu' \in [Slots -> SlotState] /\ stores' \in [Slots -> SUBSET {"body", "word0"}]
    BY <1>1, <1>2, <1>3, <1>a DEF Types
  <2>2. call.i + 1 \in 0 .. RingSize
    BY <1>1, Basics
  <2> QED
    BY <1>1, <1>2, <2>1, <2>2 DEF Types
<1>6. CallOK'
  <2>1. /\ call'.pc = "fill" /\ call'.num = call.num /\ call'.i = call.i + 1
    BY <1>1, <1>2 DEF Types
  <2> QED
    BY <1>1, <2>1, Basics DEF CallOK
<1>7. Room'
  BY <1>1, <1>2, <1>4 DEF Room, Types
<1>8. ValidBits'
  <2>1. \A s \in Slots : cpu'[s].vb = cpu[s].vb
    BY <1>1, <1>2, <1>3, <1>a DEF Types
  <2> QED
    BY <1>1, <1>2, <1>4, <2>1, AheadType DEF ValidBits
<1>9. Bodied'
  <2>1. \A s \in Slots : "body" \notin stores'[s] => ring'[s].frame = cpu'[s].frame
    BY <1>1, <1>2, <1>3 DEF Bodied, Types
  <2>2. ASSUME NEW d \in 0 .. RingSize - 1
        PROVE  /\ d < Stored + 1 => cpu'[AheadSlot(d)].frame = executed + 1 + d
               /\ d < Handed => "body" \notin stores'[AheadSlot(d)]
    <3>1. CASE d = Stored
      <4>1. cpu'[AtSlot].frame = AtFrame
        BY <1>1, <1>2, <1>3, <1>a DEF Types
      <4> QED
        BY <1>3, <3>1, <4>1, Basics
    <3>2. CASE d # Stored
      <4>1. AheadSlot(d) # AtSlot /\ AheadSlot(d) \in Slots
        BY <1>3, <3>2, Distinct, AheadType
      <4>2. /\ cpu'[AheadSlot(d)] = cpu[AheadSlot(d)]
            /\ stores'[AheadSlot(d)] = stores[AheadSlot(d)]
        BY <1>1, <1>2, <4>1 DEF Types
      <4>3. d < Stored + 1 => d < Stored
        BY <1>3, <3>2
      <4> QED
        BY <1>2, <4>2, <4>3 DEF Bodied
    <3> QED
      BY <3>1, <3>2
  <2> QED
    BY <1>1, <1>2, <1>4, <2>1, <2>2 DEF Bodied
<1> QED
  BY <1>5, <1>6, <1>7, <1>8, <1>9 DEF IInv

\* The barrier between bodies and valid bits keeps the invariant.
LEMMA LwsyncStep ==
  ASSUME IInv, Lwsync
  PROVE  IInv'
<1>1. /\ call.pc = "fill" /\ call.i = call.num
      /\ MemBack \/ \A s \in Slots : "body" \notin stores[s]
      /\ call' = [call EXCEPT !.pc = "verb", !.i = 0]
      /\ UNCHANGED <<pi, pi_vb, ci, available, last, cpu, stores, ring, pi_reg,
                     hw_ci, ci_reg, executed, got, accepted>>
  BY DEF Lwsync, eqcr, hw
<1>2. Types /\ CallOK /\ Room /\ ValidBits /\ Bodied
  BY DEF IInv
<1>a. call'.pc = "verb" /\ call'.i = 0 /\ call'.num = call.num
  BY <1>1, <1>2 DEF Types
<1>3. /\ Waiting' = Waiting /\ Handed' = Handed /\ Stored' = Stored
      /\ VbPlace' = VbPlace
      /\ \A d : Ahead(d)' = Ahead(d) /\ AheadSlot(d)' = AheadSlot(d)
  BY <1>1, <1>a
  DEF Waiting, Handed, Stored, VbPlace, Verbs, Bodies, Ahead, AheadSlot
<1>4. Types'
  <2>1. 0 \in 0 .. RingSize
    BY EqcrAssumption
  <2>2. call' \in [pc : {"idle", "fill", "verb", "dca", "flush"}, api : Apis,
                   asked : Nat, num : 0..RingSize, i : 0..RingSize]
    BY <1>1, <1>2, <2>1 DEF Types, Apis
  <2> QED
    BY <1>1, <1>2, <2>2 DEF Types, Apis
<1>5. CallOK'
  BY <1>a, Basics DEF CallOK
<1>6. Room' /\ ValidBits' /\ Bodied'
  BY <1>1, <1>2, <1>a, <1>3 DEF Room, ValidBits, Bodied
<1> QED
  BY <1>4, <1>5, <1>6 DEF IInv

\* pi_vb is the valid bit of the index that the second loop is at.
LEMMA PiVbNow ==
  ASSUME IInv, call.pc \in {"verb", "dca"}
  PROVE  pi_vb = VbAt(At)
<1>1. VbPlace = call.i
  BY DEF VbPlace
<1>2. pi_vb = VbAt(Full(pi + VbPlace))
  BY DEF IInv, ValidBits
<1> QED
  BY <1>1, <1>2 DEF At

\* pi_vb follows the second loop to the next index.
LEMMA PiVbStep ==
  ASSUME IInv, call.pc \in {"verb", "dca"}, call.i < call.num, NextFrame
  PROVE  /\ pi_vb = VbAt(At)
         /\ pi_vb' = VbAt(Full(pi + (call.i + 1)))
<1>1. pi_vb = VbAt(At) /\ pi_vb' = VbAfter(At, pi_vb)
  BY PiVbNow DEF NextFrame
<1>2. At \in Indices /\ Full(At + 1) = Full(pi + (call.i + 1))
  <2>1. call.i \in 0 .. RingSize
    BY Basics, EqcrAssumption
  <2> QED
    BY <2>1, Basics, ShiftOne DEF At
<1> QED
  BY <1>1, <1>2, VbNext

\* What the end of an iteration of the second loop changes.
LEMMA NextFrameStep ==
  ASSUME IInv, call.pc \in {"verb", "dca"}, call.i < call.num, NextFrame,
         UNCHANGED <<accepted, executed, hw_ci>>
  PROVE  /\ call'.pc = "verb" /\ call'.i = call.i + 1 /\ call'.num = call.num
         /\ Waiting' = Waiting /\ Stored' = Stored
         /\ Handed' = IF MemBack \/ call.pc = "dca" THEN Handed ELSE Handed + 1
         /\ VbPlace' = call.i + 1
         /\ CallOK'
         /\ \A d : Ahead(d)' = Ahead(d) /\ AheadSlot(d)' = AheadSlot(d)
<1>1. call'.pc = "verb" /\ call'.i = call.i + 1 /\ call'.num = call.num
  BY DEF IInv, Types, NextFrame
<1>2. /\ Waiting' = Waiting /\ Stored' = Stored
      /\ VbPlace' = call.i + 1
      /\ \A d : Ahead(d)' = Ahead(d) /\ AheadSlot(d)' = AheadSlot(d)
  BY <1>1 DEF Waiting, Stored, Bodies, VbPlace, Ahead, AheadSlot
<1>3. Handed' = IF MemBack \/ call.pc = "dca" THEN Handed ELSE Handed + 1
  BY <1>1, <1>2, Basics DEF Handed, Verbs
<1>4. CallOK'
  BY <1>1, Basics DEF CallOK
<1> QED
  BY <1>1, <1>2, <1>3, <1>4

\* The second store to word 0 keeps the invariant.
LEMMA WriteDcaStep ==
  ASSUME IInv, WriteDca
  PROVE  IInv'
<1> USE EqcrAssumption
<1>1. /\ call.pc = "dca" /\ NextFrame
      /\ cpu' = [cpu EXCEPT ![AtSlot] = [cpu[AtSlot] EXCEPT !.dca = TRUE]]
      /\ stores' = [stores EXCEPT ![AtSlot] = @ \cup {"word0"}]
      /\ UNCHANGED <<pi, ci, available, last, ring, pi_reg, hw_ci, ci_reg,
                     executed, got, accepted>>
  BY DEF WriteDca, Store, hw
<1>2. Types /\ CallOK /\ Room /\ ValidBits /\ Bodied
  BY DEF IInv
<1>3. call.i < call.num
  BY <1>1, <1>2 DEF CallOK
<1>4. AtSlot \in Slots
  BY AtType
<1>5. /\ cpu[AtSlot] \in SlotState
      /\ [cpu[AtSlot] EXCEPT !.dca = TRUE] \in SlotState
      /\ [cpu[AtSlot] EXCEPT !.dca = TRUE].frame = cpu[AtSlot].frame
      /\ [cpu[AtSlot] EXCEPT !.dca = TRUE].vb = cpu[AtSlot].vb
  <2>1. cpu[AtSlot] \in SlotState
    BY <1>2, <1>4 DEF Types
  <2> QED
    BY <2>1 DEF SlotState
<1>6. /\ \A s \in Slots : cpu'[s].vb = cpu[s].vb /\ cpu'[s].frame = cpu[s].frame
      /\ \A s \in Slots : "body" \in stores'[s] <=> "body" \in stores[s]
      /\ cpu' \in [Slots -> SlotState]
      /\ stores' \in [Slots -> SUBSET {"body", "word0"}]
  BY <1>1, <1>2, <1>4, <1>5 DEF Types
<1>7. /\ call'.pc = "verb" /\ call'.i = call.i + 1 /\ call'.num = call.num
      /\ Waiting' = Waiting /\ Stored' = Stored /\ Handed' = Handed
      /\ VbPlace' = call.i + 1
      /\ CallOK'
      /\ \A d : Ahead(d)' = Ahead(d) /\ AheadSlot(d)' = AheadSlot(d)
  BY <1>1, <1>3, NextFrameStep
<1>8. Types'
  <2>1. pi_vb' \in {0, 1}
    BY <1>1, <1>2 DEF NextFrame, VbAfter, Types
  <2>2. call' \in [pc : {"idle", "fill", "verb", "dca", "flush"},
                   api : {"none", "enqueue", "multiple", "multiple_desc"},
                   asked : Nat, num : 0..RingSize, i : 0..RingSize]
    <3>1. call.i + 1 \in 0 .. RingSize
      BY <1>3, Basics
    <3> QED
      BY <1>1, <1>2, <3>1 DEF NextFrame, Types
  <2> QED
    BY <1>1, <1>2, <1>6, <2>1, <2>2 DEF Types
<1>9. Room'
  BY <1>1, <1>2, <1>7 DEF Room
<1>10. ValidBits'
  <2>1. pi_vb' = VbAt(Full(pi + (call.i + 1)))
    BY <1>1, <1>3, PiVbStep
  <2> QED
    BY <1>1, <1>2, <1>6, <1>7, <2>1, AheadType DEF ValidBits
<1>11. Bodied'
  BY <1>1, <1>2, <1>6, <1>7, AheadType DEF Bodied
<1> QED
  BY <1>7, <1>8, <1>9, <1>10, <1>11 DEF IInv

\* Storing word 0 hands the next frame over and keeps the invariant.
LEMMA WriteVerbStep ==
  ASSUME IInv, WriteVerb
  PROVE  IInv'
<1> USE EqcrAssumption
<1> DEFINE d0 == Waiting - call.num + call.i
           slot == [cpu[AtSlot] EXCEPT !.vb = pi_vb,
                                       !.dca = AtFrame \in DcaFrames /\ ~ByFlag]
<1>1. /\ call.pc = "verb" /\ call.i < call.num
      /\ cpu' = [cpu EXCEPT ![AtSlot] = slot]
      /\ stores' = [stores EXCEPT ![AtSlot] = @ \cup {"word0"}]
      /\ UNCHANGED <<pi, ci, available, last, ring, pi_reg, hw_ci, ci_reg,
                     executed, got, accepted>>
  BY DEF WriteVerb, Store, hw
<1>2. Types /\ CallOK /\ Room /\ ValidBits /\ Bodied
  BY DEF IInv
<1>3. /\ d0 \in 0 .. RingSize - 1 /\ AtSlot = AheadSlot(d0) /\ At = Ahead(d0)
      /\ AtSlot \in Slots
      /\ ~MemBack => Handed = d0
  <2>1. ~MemBack => Handed = d0
    BY <1>1, Basics DEF Handed, Verbs
  <2>2. MemBack => Handed = Waiting - call.num
    BY DEF Handed
  <2>3. d0 \in 0 .. RingSize - 1
    BY <1>1, <2>1, <2>2, Basics
  <2>4. At = Ahead(d0)
    BY <1>1, <2>3, Basics, Place DEF At
  <2> QED
    BY <2>1, <2>3, <2>4, AtType DEF AtSlot, AheadSlot
<1>4. slot \in SlotState /\ slot.frame = cpu[AtSlot].frame /\ slot.vb = pi_vb
  <2>1. cpu[AtSlot] \in SlotState /\ pi_vb \in {0, 1}
    BY <1>2, <1>3 DEF Types
  <2>2. (AtFrame \in DcaFrames /\ ~ByFlag) \in BOOLEAN
    OBVIOUS
  <2> QED
    BY <2>1, <2>2 DEF SlotState
<1> HIDE DEF slot
<1>5. /\ \A s \in Slots : cpu'[s].frame = cpu[s].frame
      /\ \A s \in Slots : s # AtSlot => cpu'[s].vb = cpu[s].vb
      /\ cpu'[AtSlot].vb = pi_vb
      /\ \A s \in Slots : "body" \in stores'[s] <=> "body" \in stores[s]
      /\ cpu' \in [Slots -> SlotState]
      /\ stores' \in [Slots -> SUBSET {"body", "word0"}]
  BY <1>1, <1>2, <1>3, <1>4 DEF Types
<1>6. /\ call'.pc \in {"verb", "dca"} /\ call'.num = call.num
      /\ Waiting' = Waiting /\ Stored' = Stored
      /\ Handed' = IF MemBack THEN Handed ELSE Handed + 1
      /\ CallOK'
      /\ \A d : Ahead(d)' = Ahead(d) /\ AheadSlot(d)' = AheadSlot(d)
      /\ pi_vb' = VbAt(Full(pi + VbPlace'))
      /\ pi_vb' \in {0, 1}
      /\ call'.i \in 0 .. RingSize
      /\ call'.api = call.api /\ call'.asked = call.asked
      /\ call' = [call EXCEPT !.pc = call'.pc, !.i = call'.i]
  <2>1. CASE ByFlag
    <3>1. call' = [call EXCEPT !.pc = "dca"] /\ pi_vb' = pi_vb
      BY <2>1 DEF WriteVerb
    <3>2. /\ call'.pc = "dca" /\ call'.num = call.num /\ call'.i = call.i
          /\ call'.api = call.api /\ call'.asked = call.asked
          /\ call' = [call EXCEPT !.pc = call'.pc, !.i = call'.i]
      BY <3>1, <1>2 DEF Types
    <3>3. /\ Waiting' = Waiting /\ Stored' = Stored
          /\ VbPlace' = call.i /\ VbPlace = call.i
          /\ \A d : Ahead(d)' = Ahead(d) /\ AheadSlot(d)' = AheadSlot(d)
      BY <1>1, <3>2 DEF Waiting, Stored, Bodies, VbPlace, Ahead, AheadSlot
    <3>4. Handed' = IF MemBack THEN Handed ELSE Handed + 1
      BY <1>1, <3>2, <3>3, Basics DEF Handed, Verbs
    <3>5. CallOK'
      BY <1>1, <3>2, Basics DEF CallOK
    <3>6. pi_vb = VbAt(Full(pi + VbPlace)) /\ pi_vb \in {0, 1}
      BY <1>2 DEF ValidBits, Types
    <3>7. call'.i \in 0 .. RingSize
      BY <3>2, Basics
    <3> QED
      BY <3>1, <3>2, <3>3, <3>4, <3>5, <3>6, <3>7
  <2>2. CASE ~ByFlag
    <3>1. NextFrame
      BY <2>2 DEF WriteVerb
    <3>2. /\ call'.pc = "verb" /\ call'.num = call.num /\ call'.i = call.i + 1
          /\ Waiting' = Waiting /\ Stored' = Stored
          /\ Handed' = IF MemBack THEN Handed ELSE Handed + 1
          /\ VbPlace' = call.i + 1
          /\ CallOK'
          /\ \A d : Ahead(d)' = Ahead(d) /\ AheadSlot(d)' = AheadSlot(d)
      BY <1>1, <3>1, NextFrameStep
    <3>3. pi_vb' = VbAt(Full(pi + (call.i + 1)))
      BY <1>1, <3>1, PiVbStep
    <3>4. pi_vb' \in {0, 1}
      BY <3>1, <1>2 DEF NextFrame, VbAfter, Types
    <3>5. call'.i \in 0 .. RingSize
      BY <1>1, <3>2, Basics
    <3>6. /\ call'.api = call.api /\ call'.asked = call.asked
          /\ call' = [call EXCEPT !.pc = call'.pc, !.i = call'.i]
      BY <3>1, <1>2 DEF NextFrame, Types
    <3> QED
      BY <3>2, <3>3, <3>4, <3>5, <3>6
  <2> QED
    BY <2>1, <2>2
<1>7. Types'
  <2>1. call' \in [pc : {"idle", "fill", "verb", "dca", "flush"}, api : Apis,
                   asked : Nat, num : 0..RingSize, i : 0..RingSize]
    BY <1>2, <1>6 DEF Types, Apis
  <2> QED
    BY <1>1, <1>2, <1>5, <1>6, <2>1 DEF Types, Apis
<1>8. Room'
  BY <1>1, <1>2, <1>6, Basics DEF Room
<1>9. ValidBits'
  <2> SUFFICES ASSUME ~MemBack, NEW d \in 0 .. RingSize - 1
               PROVE  /\ d < Handed + 1 => cpu'[AheadSlot(d)].vb = VbAt(Ahead(d))
                      /\ d >= Handed + 1 => /\ cpu'[AheadSlot(d)].vb # VbAt(Ahead(d))
                                            /\ ring[AheadSlot(d)].vb # VbAt(Ahead(d))
    BY <1>1, <1>6 DEF ValidBits
  <2>1. CASE d = d0
    <3>1. pi_vb = VbAt(At)
      BY <1>1, PiVbNow
    <3>2. AheadSlot(d) = AtSlot /\ Ahead(d) = At
      BY <1>3, <2>1
    <3>3. cpu'[AheadSlot(d)].vb = VbAt(Ahead(d))
      BY <1>5, <3>1, <3>2
    <3>4. ~(d >= Handed + 1)
      <4>1. Handed = d /\ Handed \in Int
        BY <1>3, <2>1, Basics
      <4> QED
        BY <4>1
    <3> QED
      BY <3>3, <3>4
  <2>2. CASE d # d0
    <3>1. AheadSlot(d) # AtSlot /\ AheadSlot(d) \in Slots
      BY <1>3, <2>2, Distinct, AheadType
    <3>2. cpu'[AheadSlot(d)].vb = cpu[AheadSlot(d)].vb
      BY <1>5, <3>1
    <3>3. /\ d < Handed => cpu[AheadSlot(d)].vb = VbAt(Ahead(d))
          /\ d >= Handed => /\ cpu[AheadSlot(d)].vb # VbAt(Ahead(d))
                            /\ ring[AheadSlot(d)].vb # VbAt(Ahead(d))
      BY <1>2 DEF ValidBits
    <3>4. d # Handed /\ Handed \in Int
      BY <1>3, <2>2, Basics
    <3>5. /\ d < Handed + 1 => d < Handed
          /\ d >= Handed + 1 => d >= Handed
      BY <3>4
    <3> QED
      BY <3>2, <3>3, <3>5
  <2> QED
    BY <2>1, <2>2
<1>10. Bodied'
  <2>1. \A s \in Slots : "body" \notin stores'[s] => ring'[s].frame = cpu'[s].frame
    BY <1>1, <1>2, <1>5 DEF Bodied
  <2>2. ~MemBack => \A s \in Slots : "body" \notin stores[s]
    BY <1>1, <1>2 DEF Bodied
  <2>3. \A d \in 0 .. RingSize - 1 :
          /\ d < Stored => cpu'[AheadSlot(d)].frame = executed + 1 + d
          /\ (MemBack /\ d < Handed) \/ ~MemBack => "body" \notin stores'[AheadSlot(d)]
    BY <1>2, <1>5, <2>2, AheadType DEF Bodied
  <2> QED
    BY <1>1, <1>2, <1>5, <1>6, <2>1, <2>2, <2>3 DEF Bodied
<1> QED
  BY <1>6, <1>7, <1>8, <1>9, <1>10 DEF IInv

\* Flushing a line keeps the invariant.
LEMMA FlushStep ==
  ASSUME IInv, Flush
  PROVE  IInv'
<1> USE EqcrAssumption
<1> DEFINE j == IF call.pc = "verb" THEN 0 ELSE call.i
           s == Slot(Full(pi + j))
<1>1. /\ ~MemBack /\ j < call.num
      /\ \/ call.pc = "flush"
         \/ call.pc = "verb" /\ call.i = call.num
      /\ ring' = [ring EXCEPT ![s] = cpu[s]]
      /\ stores' = [stores EXCEPT ![s] = {}]
      /\ call' = [call EXCEPT !.pc = "flush", !.i = j + 1]
      /\ UNCHANGED <<pi, pi_vb, ci, available, last, cpu, pi_reg, hw_ci, ci_reg,
                     executed, got, accepted>>
  BY DEF Flush, eqcr, hw
<1>2. Types /\ CallOK /\ Room /\ ValidBits /\ Bodied
  BY DEF IInv
<1>3. j \in 0 .. RingSize - 1 /\ s \in Slots
  <2>1. j \in 0 .. RingSize - 1
    <3>1. j = 0 \/ j = call.i
      OBVIOUS
    <3> HIDE DEF j
    <3> QED
      BY <1>1, <3>1, Basics
  <2>2. Full(pi + j) \in Indices
    <3>1. j \in 0 .. RingSize
      BY <2>1
    <3> QED
      BY <3>1, Basics, ShiftOne
  <2> QED
    BY <2>1, <2>2, SlotType
<1> HIDE DEF s
<1>4. /\ call'.pc = "flush" /\ call'.i = j + 1 /\ call'.num = call.num
      /\ call'.api = call.api /\ call'.asked = call.asked
  BY <1>1, <1>2 DEF Types
<1>5. /\ Waiting' = Waiting /\ Stored' = Stored /\ Handed' = Handed
      /\ VbPlace' = VbPlace
      /\ CallOK'
      /\ \A d : Ahead(d)' = Ahead(d) /\ AheadSlot(d)' = AheadSlot(d)
  <2>1. Verbs' = Verbs /\ Bodies' = Bodies /\ VbPlace' = VbPlace
    BY <1>1, <1>4 DEF Verbs, Bodies, VbPlace
  <2>2. CallOK'
    BY <1>1, <1>3, <1>4, Basics DEF CallOK
  <2> QED
    BY <1>1, <1>4, <2>1, <2>2 DEF Waiting, Stored, Handed, Ahead, AheadSlot
<1>6. Types'
  <2>1. call' \in [pc : {"idle", "fill", "verb", "dca", "flush"}, api : Apis,
                   asked : Nat, num : 0..RingSize, i : 0..RingSize]
    <3>1. j + 1 \in 0 .. RingSize
      BY <1>3
    <3> QED
      BY <1>1, <1>2, <3>1 DEF Types, Apis
  <2>2. /\ ring' \in [Slots -> SlotState]
        /\ stores' \in [Slots -> SUBSET {"body", "word0"}]
    BY <1>1, <1>2, <1>3 DEF Types
  <2> QED
    BY <1>1, <1>2, <2>1, <2>2 DEF Types, Apis
<1>7. Room'
  BY <1>1, <1>2, <1>4, <1>5 DEF Room
<1>8. ValidBits'
  <2>1. \A x \in Slots : ring'[x].vb = ring[x].vb \/ ring'[x].vb = cpu[x].vb
    BY <1>1, <1>2, <1>3 DEF Types
  <2> QED
    BY <1>1, <1>2, <1>5, <2>1, AheadType DEF ValidBits
<1>9. Bodied'
  <2>1. /\ \A x \in Slots : "body" \notin stores'[x] => ring'[x].frame = cpu[x].frame
        /\ \A x \in Slots : "body" \notin stores[x] => "body" \notin stores'[x]
    BY <1>1, <1>2, <1>3 DEF Types, Bodied
  <2>2. \A x \in Slots : "body" \notin stores[x]
    BY <1>1, <1>2 DEF Bodied
  <2> QED
    BY <1>1, <1>2, <1>5, <2>1, <2>2, AheadType DEF Bodied
<1> QED
  BY <1>5, <1>6, <1>7, <1>8, <1>9 DEF IInv

\* The end of a call keeps the invariant.
LEMMA ReturnStep ==
  ASSUME IInv, Return,
         call.pc \in {"verb", "flush"}, call.i = call.num,
         ~MemBack /\ call.pc = "verb" => call.num = 0,
         MemBack => \A s \in Slots : stores[s] = {},
         pi_reg' = IF MemBack THEN pi' ELSE pi_reg
  PROVE  IInv'
<1> USE EqcrAssumption
<1>1. /\ pi' = Full(pi + call.num)
      /\ last' = [api |-> call.api, asked |-> call.asked,
                  ret |-> IF call.api = "enqueue" THEN 0 ELSE call.num]
      /\ call' = Idle
      /\ UNCHANGED <<pi_vb, ci, available, cpu, stores, ring, hw_ci, ci_reg,
                     executed, got, accepted>>
  BY DEF Return, hw
<1>2. Types /\ CallOK /\ Room /\ ValidBits /\ Bodied
  BY DEF IInv
<1>3. pi' \in Indices
  BY <1>1, Basics, ShiftOne
<1>4. call'.pc = "idle" /\ call'.num = 0 /\ call'.i = 0
  BY <1>1 DEF Idle
<1>5. /\ Waiting' = Waiting /\ Stored' = Waiting /\ Handed' = Waiting
      /\ Stored = Waiting
      /\ ~MemBack => Handed = Waiting
      /\ VbPlace' = 0 /\ VbPlace = call.num
      /\ \A d : Ahead(d)' = Ahead(d) /\ AheadSlot(d)' = AheadSlot(d)
  <2>1. Verbs = call.num /\ Bodies = call.num /\ VbPlace = call.num
    BY Basics DEF Verbs, Bodies, VbPlace
  <2>2. Verbs' = 0 /\ Bodies' = 0 /\ VbPlace' = 0
    BY <1>4 DEF Verbs, Bodies, VbPlace
  <2> QED
    BY <1>1, <1>4, <2>1, <2>2, Basics DEF Waiting, Stored, Handed, Ahead, AheadSlot
<1>6. Types'
  <2>1. /\ call.api \in Apis /\ call.asked \in Nat
        /\ (IF call.api = "enqueue" THEN 0 ELSE call.num) \in Int
    BY <1>2, Basics DEF Types, Apis
  <2>2. last' \in [api : Apis, asked : Nat, ret : Int]
    BY <1>1, <2>1
  <2>3. call' \in [pc : {"idle", "fill", "verb", "dca", "flush"}, api : Apis,
                   asked : Nat, num : 0..RingSize, i : 0..RingSize]
    BY <1>1 DEF Idle, Apis
  <2>4. pi_reg' \in Indices
    BY <1>2, <1>3 DEF Types
  <2> QED
    BY <1>1, <1>2, <1>3, <2>2, <2>3, <2>4 DEF Types, Apis
<1>7. CallOK'
  BY <1>4 DEF CallOK
<1>8. pi' + 0 = pi' /\ Full(pi') = pi'
  <2>1. pi' \in 0 .. 4 * RingSize - 1 /\ pi' + 0 = pi' /\ pi' < 2 * RingSize
    BY <1>3 DEF Indices
  <2> QED
    BY <2>1, FullVal
<1>9. Room'
  BY <1>1, <1>2, <1>4, <1>5, <1>8, Basics DEF Room
<1>10. ValidBits'
  <2>1. pi_vb' = VbAt(Full(pi' + VbPlace'))
    BY <1>1, <1>2, <1>5, <1>8 DEF ValidBits
  <2> QED
    BY <1>1, <1>2, <1>5, <2>1 DEF ValidBits
<1>11. Bodied'
  <2>1. \A d \in 0 .. RingSize - 1 : "body" \notin stores[AheadSlot(d)]
    BY <1>2, AheadType DEF Bodied
  <2> QED
    BY <1>1, <1>2, <1>4, <1>5, <2>1 DEF Bodied
<1> QED
  BY <1>6, <1>7, <1>9, <1>10, <1>11 DEF IInv

\* A store that becomes visible keeps the invariant.
LEMMA DrainStep ==
  ASSUME IInv, NEW s \in Slots, NEW part \in {"body", "word0"}, Drain(s, part)
  PROVE  IInv'
<1> DEFINE new == IF part = "body" THEN [ring[s] EXCEPT !.frame = cpu[s].frame]
                  ELSE [ring[s] EXCEPT !.vb = cpu[s].vb, !.dca = cpu[s].dca]
<1>1. /\ part \in stores[s]
      /\ ring' = [ring EXCEPT ![s] = new]
      /\ stores' = [stores EXCEPT ![s] = @ \ {part}]
      /\ UNCHANGED <<pi, pi_vb, ci, available, call, last, cpu, pi_reg, hw_ci,
                     ci_reg, executed, got, accepted>>
  BY DEF Drain, eqcr, hw
<1>2. Types /\ CallOK /\ Room /\ ValidBits /\ Bodied
  BY DEF IInv
<1>3. /\ new \in SlotState
      /\ new.vb = ring[s].vb \/ new.vb = cpu[s].vb
      /\ new.frame = IF part = "body" THEN cpu[s].frame ELSE ring[s].frame
  <2>1. ring[s] \in SlotState /\ cpu[s] \in SlotState
    BY <1>2 DEF Types
  <2> QED
    BY <2>1 DEF SlotState
<1> HIDE DEF new
<1>4. /\ ring' \in [Slots -> SlotState]
      /\ stores' \in [Slots -> SUBSET {"body", "word0"}]
      /\ \A x \in Slots : ring'[x].vb = ring[x].vb \/ ring'[x].vb = cpu[x].vb
      /\ \A x \in Slots : "body" \notin stores[x] => "body" \notin stores'[x]
      /\ \A x \in Slots : "body" \notin stores'[x] => ring'[x].frame = cpu[x].frame
  BY <1>1, <1>2, <1>3 DEF Types, Bodied
<1>5. /\ Waiting' = Waiting /\ Stored' = Stored /\ Handed' = Handed
      /\ VbPlace' = VbPlace /\ CallOK'
      /\ \A d : Ahead(d)' = Ahead(d) /\ AheadSlot(d)' = AheadSlot(d)
  BY <1>1, <1>2
  DEF Waiting, Stored, Handed, Verbs, Bodies, VbPlace, Ahead, AheadSlot, CallOK
<1>6. Types' /\ Room'
  BY <1>1, <1>2, <1>4, <1>5 DEF Types, Room
<1>7. ValidBits'
  BY <1>1, <1>2, <1>4, <1>5, AheadType, EqcrAssumption DEF ValidBits
<1>8. Bodied'
  BY <1>1, <1>2, <1>4, <1>5, AheadType, EqcrAssumption DEF Bodied
<1> QED
  BY <1>5, <1>6, <1>7, <1>8 DEF IInv

\* A command that QMan takes for a new one was handed over.
LEMMA PendingIsHanded ==
  ASSUME IInv, Pending
  PROVE  /\ Handed > 0 /\ Stored >= Handed /\ Waiting >= Handed
         /\ Ahead(0) = hw_ci /\ AheadSlot(0) = Slot(hw_ci)
<1> USE EqcrAssumption
<1>1. Ahead(0) = hw_ci /\ AheadSlot(0) = Slot(hw_ci)
  <2>1. hw_ci + 0 = hw_ci /\ hw_ci \in 0 .. 4 * RingSize - 1 /\ hw_ci < 2 * RingSize
    BY Basics DEF Indices
  <2> QED
    BY <2>1, FullVal DEF Ahead, AheadSlot
<1>2. Stored >= Handed /\ Waiting >= Handed
  <2>1. Verbs <= Bodies
    BY Basics DEF Verbs, Bodies, IInv, CallOK
  <2> QED
    BY <2>1, Basics DEF Stored, Handed
<1>3. Handed # 0
  <2> SUFFICES ASSUME Handed = 0 PROVE FALSE
    OBVIOUS
  <2>1. CASE MemBack
    <3>1. Waiting - call.num + 0 = 0 /\ 0 \in 0 .. call.num
      BY <2>1, Basics DEF Handed
    <3>2. Full(pi + 0) = Ahead(0)
      BY <3>1, Place
    <3>3. pi + 0 = pi /\ pi \in 0 .. 4 * RingSize - 1 /\ pi < 2 * RingSize
      BY Basics DEF Indices
    <3>4. Full(pi + 0) = pi
      BY <3>3, FullVal
    <3> QED
      BY <1>1, <2>1, <3>2, <3>4 DEF Pending, IInv, Room
  <2>2. CASE ~MemBack
    <3>1. 0 \in 0 .. RingSize - 1
      OBVIOUS
    <3>2. ring[AheadSlot(0)].vb # VbAt(Ahead(0))
      BY <2>2, <3>1 DEF IInv, ValidBits
    <3> QED
      BY <1>1, <2>2, <3>2 DEF Pending
  <2> QED
    BY <2>1, <2>2
<1> QED
  BY <1>1, <1>2, <1>3, Basics

\* Executing a command keeps the invariant: the window moves by one.
LEMMA ExecuteStep ==
  ASSUME IInv, Execute
  PROVE  IInv'
<1> USE EqcrAssumption
<1>1. /\ Pending
      /\ got' = [frame |-> ring[Slot(hw_ci)].frame, dca |-> ring[Slot(hw_ci)].dca]
      /\ executed' = executed + 1
      /\ hw_ci' = Full(hw_ci + 1)
      /\ UNCHANGED <<pi, pi_vb, ci, available, call, last, cpu, stores, ring, pi_reg,
                     ci_reg, accepted>>
  BY DEF Execute, eqcr
<1>2. Types /\ CallOK /\ Room /\ ValidBits /\ Bodied
  BY DEF IInv
<1>3. /\ Handed > 0 /\ Stored >= Handed /\ Waiting >= Handed
      /\ Ahead(0) = hw_ci /\ AheadSlot(0) = Slot(hw_ci) /\ 0 \in 0 .. RingSize - 1
  BY <1>1, PendingIsHanded
<1>4. /\ ring[Slot(hw_ci)].frame = executed + 1 /\ ring[Slot(hw_ci)] \in SlotState
  <2>1. AheadSlot(0) \in Slots
    BY AheadType
  <2>2. cpu[AheadSlot(0)].frame = executed + 1 + 0
    BY <1>2, <1>3, Basics DEF Bodied
  <2>3. "body" \notin stores[AheadSlot(0)]
    BY <1>2, <1>3 DEF Bodied
  <2>4. ring[AheadSlot(0)].frame = cpu[AheadSlot(0)].frame
    BY <1>2, <2>1, <2>3 DEF Bodied
  <2> QED
    BY <1>2, <1>3, <2>1, <2>2, <2>4, Basics DEF Types
<1>5. /\ Waiting' = Waiting - 1 /\ Stored' = Stored - 1 /\ Handed' = Handed - 1
      /\ VbPlace' = VbPlace /\ CallOK'
  <2>1. Verbs' = Verbs /\ Bodies' = Bodies
    BY <1>1 DEF Verbs, Bodies
  <2> QED
    BY <1>1, <1>2, <2>1, Basics DEF Waiting, Stored, Handed, VbPlace, CallOK
<1>6. \A d \in 0 .. RingSize - 1 :
         /\ d + 1 \in 0 .. RingSize
         /\ Ahead(d)' = Ahead(d + 1) /\ AheadSlot(d)' = AheadSlot(d + 1)
  BY <1>1, Basics, Shift DEF Ahead, AheadSlot
<1>7. Types'
  <2>1. hw_ci' \in Indices
    BY <1>1, Basics, ShiftOne
  <2>2. got' \in [frame : Nat, dca : BOOLEAN]
    BY <1>1, <1>4 DEF SlotState
  <2> QED
    BY <1>1, <1>2, <2>1, <2>2 DEF Types
<1>8. Room'
  <2>1. /\ ci \in Indices /\ ci_reg \in Indices /\ hw_ci \in Indices
        /\ qm_cyc_diff(RingSize, ci, ci_reg) \in Nat
        /\ qm_cyc_diff(RingSize, ci_reg, hw_ci) \in Nat
        /\ available \in Nat
    BY RoomTypes
  <2>2. qm_cyc_diff(RingSize, ci_reg, hw_ci) < 2 * RingSize - 1
    BY <1>2, <1>3, <2>1, Basics DEF Room
  <2>3. qm_cyc_diff(RingSize, ci_reg, hw_ci') = qm_cyc_diff(RingSize, ci_reg, hw_ci) + 1
    BY <1>1, <2>1, <2>2, CycStep
  <2>4. Full(hw_ci' + (Waiting - 1)) = Full(hw_ci + Waiting)
    <3>1. Waiting - 1 \in 0 .. RingSize /\ (Waiting - 1) + 1 = Waiting
      BY <1>3, Basics
    <3> QED
      BY <1>1, <3>1, Basics, Shift
  <2>5. Handed - 1 >= 0
    BY <1>3, Basics
  <2> QED
    BY <1>1, <1>2, <1>5, <2>1, <2>3, <2>4, <2>5, Basics DEF Room
<1>9. ValidBits'
  <2> SUFFICES ASSUME ~MemBack, NEW d \in 0 .. RingSize - 1
               PROVE  /\ d < Handed - 1 => cpu[AheadSlot(d + 1)].vb = VbAt(Ahead(d + 1))
                      /\ d >= Handed - 1
                           => /\ cpu[AheadSlot(d + 1)].vb # VbAt(Ahead(d + 1))
                              /\ ring[AheadSlot(d + 1)].vb # VbAt(Ahead(d + 1))
    BY <1>1, <1>2, <1>5, <1>6 DEF ValidBits
  <2>1. CASE d < RingSize - 1
    <3>1. d + 1 \in 0 .. RingSize - 1
      BY <2>1
    <3>2. /\ d < Handed - 1 => d + 1 < Handed
          /\ d >= Handed - 1 => d + 1 >= Handed
      BY Basics
    <3> QED
      BY <1>2, <3>1, <3>2 DEF ValidBits
  <2>2. CASE d = RingSize - 1
    <3>1. d + 1 = RingSize /\ ~(d < Handed - 1)
      BY <2>2, Basics
    <3>2. AheadSlot(RingSize) = AheadSlot(0) /\ VbAt(Ahead(RingSize)) # VbAt(Ahead(0))
      BY <1>3, Basics, NextTurn DEF AheadSlot, Ahead
    <3>3. cpu[AheadSlot(0)].vb = VbAt(Ahead(0))
      BY <1>2, <1>3 DEF ValidBits
    <3>4. ring[AheadSlot(0)].vb = VbAt(Ahead(0))
      BY <1>1, <1>3 DEF Pending
    <3> QED
      BY <3>1, <3>2, <3>3, <3>4
  <2> QED
    BY <2>1, <2>2
<1>10. Bodied'
  <2>1. got'.frame = executed'
    BY <1>1, <1>4
  <2>2. ASSUME NEW d \in 0 .. RingSize - 1
        PROVE  /\ d < Stored - 1 => cpu[AheadSlot(d + 1)].frame = (executed + 1) + 1 + d
               /\ d < Handed - 1 => "body" \notin stores[AheadSlot(d + 1)]
    <3>1. CASE d < RingSize - 1
      <4>1. d + 1 \in 0 .. RingSize - 1
        BY <3>1
      <4>2. /\ d < Stored - 1 => d + 1 < Stored
            /\ d < Handed - 1 => d + 1 < Handed
        BY Basics
      <4>3. /\ d + 1 < Stored => cpu[AheadSlot(d + 1)].frame = executed + 1 + (d + 1)
            /\ d + 1 < Handed => "body" \notin stores[AheadSlot(d + 1)]
        BY <1>2, <4>1 DEF Bodied
      <4> QED
        BY <4>2, <4>3, Basics
    <3>2. CASE d = RingSize - 1
      <4>1. Stored <= Waiting
        BY Basics DEF Stored
      <4> QED
        BY <3>2, <4>1, Basics
    <3> QED
      BY <3>1, <3>2
  <2> QED
    BY <1>1, <1>2, <1>5, <1>6, <2>1, <2>2 DEF Bodied
<1> QED
  BY <1>5, <1>7, <1>8, <1>9, <1>10 DEF IInv

\* Publishing the consumer index keeps the invariant.
LEMMA PublishCiStep ==
  ASSUME IInv, PublishCi
  PROVE  IInv'
<1>1. /\ ci_reg' = hw_ci
      /\ UNCHANGED <<pi, pi_vb, ci, available, call, last, cpu, stores, ring, pi_reg,
                     hw_ci, executed, got, accepted>>
  BY DEF PublishCi, eqcr
<1>2. Types /\ CallOK /\ Room /\ ValidBits /\ Bodied
  BY DEF IInv
<1>3. /\ Waiting' = Waiting /\ Stored' = Stored /\ Handed' = Handed
      /\ VbPlace' = VbPlace /\ CallOK'
      /\ \A d : Ahead(d)' = Ahead(d) /\ AheadSlot(d)' = AheadSlot(d)
  BY <1>1, <1>2
  DEF Waiting, Stored, Handed, Verbs, Bodies, VbPlace, Ahead, AheadSlot, CallOK
<1>4. Types' /\ ValidBits' /\ Bodied'
  BY <1>1, <1>2, <1>3 DEF Types, ValidBits, Bodied
<1>5. Room'
  <2>1. /\ ci \in Indices /\ ci_reg \in Indices /\ hw_ci \in Indices
        /\ qm_cyc_diff(RingSize, ci, ci_reg) \in Nat
        /\ qm_cyc_diff(RingSize, ci_reg, hw_ci) \in Nat
        /\ available \in Nat
    BY RoomTypes
  <2>2. qm_cyc_diff(RingSize, ci, ci_reg) + qm_cyc_diff(RingSize, ci_reg, hw_ci)
          <= RingSize
    BY <1>2, <2>1, Basics, EqcrAssumption DEF Room
  <2>3. /\ qm_cyc_diff(RingSize, hw_ci, hw_ci) = 0
        /\ qm_cyc_diff(RingSize, ci, hw_ci)
             = qm_cyc_diff(RingSize, ci, ci_reg) + qm_cyc_diff(RingSize, ci_reg, hw_ci)
    BY <2>1, <2>2, CycVal, CycAdd
  <2> QED
    BY <1>1, <1>2, <1>3, <2>1, <2>3, Basics DEF Room
<1> QED
  BY <1>3, <1>4, <1>5 DEF IInv

-----------------------------------------------------------------------------
\* The invariant is inductive.
LEMMA NextIInv == IInv /\ [Next]_vars => IInv'
<1> SUFFICES ASSUME IInv, [Next]_vars PROVE IInv'
  OBVIOUS
<1>1. CASE Caller
  <2>1. /\ 1 \in Nat /\ 0 \in Int /\ -EBUSY \in Int
        /\ \A n \in 0 .. MaxBatch : n \in Nat
        /\ {"enqueue", "multiple", "multiple_desc"} \subseteq Apis
    BY DEF EBUSY, Apis
  <2> QED
    BY <1>1, <2>1, BeginStep DEF Caller, Enqueue, EnqueueMultiple, EnqueueMultipleDesc
<1>2. CASE FillBody
  BY <1>2, FillStep
<1>3. CASE Lwsync
  BY <1>3, LwsyncStep
<1>4. CASE WriteVerb
  BY <1>4, WriteVerbStep
<1>5. CASE WriteDca
  BY <1>5, WriteDcaStep
<1>6. CASE Flush
  BY <1>6, FlushStep
<1>7. CASE ReturnDirect
  BY <1>7, ReturnStep DEF ReturnDirect
<1>8. CASE ReturnMemBack
  BY <1>8, ReturnStep DEF ReturnMemBack
<1>9. CASE Memory
  BY <1>9, DrainStep DEF Memory
<1>10. CASE Execute
  BY <1>10, ExecuteStep
<1>11. CASE PublishCi
  BY <1>11, PublishCiStep
<1>12. CASE UNCHANGED vars
  <2>1. UNCHANGED <<pi, pi_vb, ci, available, call, last, cpu, stores, ring, pi_reg,
                    hw_ci, ci_reg, executed, got, accepted>>
    BY <1>12 DEF vars, eqcr, hw
  <2>2. /\ Waiting' = Waiting /\ Stored' = Stored /\ Handed' = Handed
        /\ VbPlace' = VbPlace
        /\ \A d : Ahead(d)' = Ahead(d) /\ AheadSlot(d)' = AheadSlot(d)
    BY <2>1 DEF Waiting, Stored, Handed, Verbs, Bodies, VbPlace, Ahead, AheadSlot
  <2> QED
    BY <2>1, <2>2 DEF IInv, Types, CallOK, Room, ValidBits, Bodied
<1> QED
  BY <1>1, <1>2, <1>3, <1>4, <1>5, <1>6, <1>7, <1>8, <1>9, <1>10, <1>11, <1>12
  DEF Next, Driver, QMan

\* The invariant holds in every reachable state.
LEMMA Inductive == Spec => []IInv
BY InitIInv, NextIInv, PTL DEF Spec

-----------------------------------------------------------------------------
\* No more frames wait than the ring has slots.
LEMMA WaitingBound == IInv => Waiting \in 0 .. RingSize
BY Basics

\* The same in the next state.
LEMMA WaitingBoundNext == IInv' => (Waiting \in 0 .. RingSize)'
BY WaitingBound, PTL

\* Every enqueue call implements an Accept of the queue or leaves it alone.
LEMMA CallerAccepts ==
  ASSUME IInv, IInv', NEW api \in Apis, NEW asked \in Nat, NEW busy \in Int,
         Begin(api, asked, busy)
  PROVE  [Fifo!Next]_Fifo!vars
<1>1. UNCHANGED <<executed, got>>
  BY DEF Begin, hw
<1>2. CASE Refuse(api, asked, busy)
  BY <1>1, <1>2 DEF Refuse, Fifo!vars
<1>3. CASE Claim(api, asked)
  <2>1. PICK num \in Int : accepted' = accepted + num /\ accepted + num <= MaxFrames
                           /\ num >= 0
    <3>1. RefreshedAvailable \in Nat
      BY RoomTypes DEF RefreshedAvailable
    <3> QED
      BY <1>3, <3>1 DEF Claim
  <2>2. Waiting' \in 0 .. RingSize
    BY WaitingBoundNext
  <2>3. accepted + num - executed <= RingSize /\ num <= RingSize
    BY <1>1, <2>1, <2>2, Basics, EqcrAssumption DEF Waiting
  <2>4. CASE num = 0
    BY <1>1, <2>1, <2>4, Basics DEF Fifo!vars
  <2>5. CASE num # 0
    <3>1. num \in 1 .. RingSize
      BY <2>1, <2>3, <2>5, EqcrAssumption
    <3>2. Fifo!Accept(num)
      BY <1>1, <2>1, <2>3 DEF Fifo!Accept
    <3> QED
      BY <3>1, <3>2 DEF Fifo!Next
  <2> QED
    BY <2>4, <2>5
<1> QED
  BY <1>2, <1>3 DEF Begin

\* A command that QMan executes is the oldest waiting frame of the queue.
LEMMA ExecuteExecutes ==
  ASSUME IInv, IInv', Execute
  PROVE  Fifo!Next
<1>1. executed < accepted
  BY PendingIsHanded, Basics DEF Execute, Waiting
<1>2. got'.frame = executed + 1
  BY DEF IInv, Bodied, Execute
<1> QED
  BY <1>1, <1>2 DEF Execute, Fifo!Execute, Fifo!Next

\* Every step of the ring is a step of the queue or leaves it alone.
LEMMA StepRefines == IInv /\ IInv' /\ [Next]_vars => [Fifo!Next]_Fifo!vars
<1> SUFFICES ASSUME IInv, IInv', [Next]_vars PROVE [Fifo!Next]_Fifo!vars
  OBVIOUS
<1>1. CASE Caller
  <2>1. /\ 1 \in Nat /\ 0 \in Int /\ -EBUSY \in Int
        /\ \A n \in 0 .. MaxBatch : n \in Nat
        /\ {"enqueue", "multiple", "multiple_desc"} \subseteq Apis
    BY DEF EBUSY, Apis
  <2> QED
    BY <1>1, <2>1, CallerAccepts
    DEF Caller, Enqueue, EnqueueMultiple, EnqueueMultipleDesc
<1>2. CASE Execute
  BY <1>2, ExecuteExecutes
<1>3. CASE Driver
  <2>1. CASE FillBody \/ Lwsync \/ WriteVerb
    BY <2>1 DEF FillBody, Lwsync, WriteVerb, hw, Fifo!vars
  <2>2. CASE WriteDca \/ Flush
    BY <2>2 DEF WriteDca, Flush, hw, Fifo!vars
  <2>3. CASE ReturnDirect \/ ReturnMemBack
    BY <2>3 DEF ReturnDirect, ReturnMemBack, Return, hw, Fifo!vars
  <2> QED
    BY <1>3, <2>1, <2>2, <2>3 DEF Driver
<1>4. CASE Memory
  BY <1>4 DEF Memory, Drain, hw, Fifo!vars
<1>5. CASE PublishCi
  BY <1>5 DEF PublishCi, Fifo!vars
<1>6. CASE UNCHANGED vars
  BY <1>6 DEF vars, hw, Fifo!vars
<1> QED
  BY <1>1, <1>2, <1>3, <1>4, <1>5, <1>6 DEF Next, QMan

-----------------------------------------------------------------------------
\* The type invariant of the portal's ring state and of QMan's side holds in
\* every state, whatever the ring size and the mode.
THEOREM TypeCorrect == Spec => []TypeOK
<1>1. IInv => TypeOK
  <2> SUFFICES ASSUME IInv PROVE TypeOK
    OBVIOUS
  <2>1. available <= RingSize
    BY Basics, RoomTypes, EqcrAssumption DEF IInv, Room
  <2> QED
    BY <2>1, RoomTypes, EqcrAssumption DEF IInv, Types, TypeOK
<1> QED
  BY <1>1, Inductive, PTL

\* The n-th command QMan executes carries the n-th accepted frame: the barriers
\* and the valid bit (direct mode) or EQCR_PI (memory-backed mode) never let it
\* read a slot torn, stale, twice or not at all.
THEOREM ExecutesInOrder == Spec => []InOrder
<1>1. IInv => InOrder
  BY DEF IInv, Bodied, InOrder
<1> QED
  BY <1>1, Inductive, PTL

\* An enqueue function refuses a frame only when the ring is full as far as the
\* published consumer index tells.
THEOREM RefusalIsJustified == Spec => []RefusesOnlyWhenFull
<1>1. IInv => RefusesOnlyWhenFull
  <2> SUFFICES ASSUME IInv, call.pc = "idle", RefreshedAvailable = 0
               PROVE  accepted - executed + qm_cyc_diff(RingSize, ci_reg, hw_ci)
                        = RingSize
    BY DEF RefusesOnlyWhenFull
  <2>1. available = 0 /\ qm_cyc_diff(RingSize, ci, ci_reg) = 0
    BY RoomTypes DEF RefreshedAvailable
  <2> QED
    BY <2>1, RoomTypes, Basics, EqcrAssumption DEF IInv, Room, Waiting
<1> QED
  BY <1>1, Inductive, PTL

\* The ring implements the bounded queue BoundedFifo (its safety part).
THEOREM ImplementsFifo == Spec => Fifo!Spec
<1>1. Init => Fifo!Init
  BY DEF Init, Fifo!Init
<1> QED
  BY <1>1, Inductive, StepRefines, PTL DEF Spec, Fifo!Spec

-----------------------------------------------------------------------------
(* DCA in memory-backed mode: the index written to EQCR_PI hands over slots  *)
(* whose word 0 was final before, and visible.                               *)

\* Of the waiting frames, those whose word 0 will not be stored to again.
Marked == Waiting - call.num + VbPlace

Dca ==
  /\ executed > 0 => (got.dca <=> executed \in DcaFrames)
  /\ call.pc = "dca" => AtFrame \in DcaFrames
  /\ \A s \in Slots : "word0" \notin stores[s] => ring[s].dca = cpu[s].dca
  /\ \A d \in 0 .. RingSize - 1 :
       /\ d < Marked => (cpu[AheadSlot(d)].dca <=> executed + 1 + d \in DcaFrames)
       /\ d < Handed => "word0" \notin stores[AheadSlot(d)]

\* A slot handed over has its word 0 written.
LEMMA HandedIsMarked ==
  ASSUME MemBack, IInv
  PROVE  /\ Handed = Waiting - call.num /\ Marked \in 0 .. RingSize
         /\ Handed \in 0 .. RingSize /\ Handed <= Marked /\ Marked <= Waiting
<1>1. VbPlace \in 0 .. call.num
  BY Basics DEF VbPlace
<1> QED
  BY <1>1, Basics, EqcrAssumption DEF Handed, Marked

\* A step that changes neither the slots nor the frames handed over or marked.
LEMMA DcaKept ==
  ASSUME IInv, Dca, UNCHANGED <<executed, got, ring, hw_ci>>,
         Marked' = Marked, Handed' = Handed, call'.pc # "dca",
         \A s \in Slots : /\ cpu'[s].dca = cpu[s].dca
                          /\ "word0" \notin stores'[s] <=> "word0" \notin stores[s]
  PROVE  Dca'
<1>1. \A d : AheadSlot(d)' = AheadSlot(d)
  BY DEF AheadSlot, Ahead
<1> QED
  BY <1>1, AheadType, EqcrAssumption DEF Dca

\* The start of a call.
LEMMA DcaBegin ==
  ASSUME MemBack, IInv, Dca, NEW api \in Apis, NEW asked \in Nat, NEW busy \in Int,
         Begin(api, asked, busy)
  PROVE  Dca'
<1>1. /\ call.pc = "idle" /\ call.num = 0
      /\ UNCHANGED <<pi, cpu, stores, ring, pi_reg, executed, got, hw_ci>>
  BY DEF IInv, CallOK, Begin, hw
<1>2. VbPlace = 0 /\ Handed = Waiting /\ Marked = Waiting
  BY <1>1, Basics DEF VbPlace, Handed, Marked
<1>3. CASE Refuse(api, asked, busy)
  <2>1. UNCHANGED <<call, accepted>>
    BY <1>3 DEF Refuse
  <2>2. Marked' = Marked /\ Handed' = Handed /\ call'.pc # "dca"
    BY <1>1, <2>1 DEF Marked, Handed, Waiting, VbPlace, Verbs
  <2> QED
    BY <1>1, <2>2, DcaKept
<1>4. CASE Claim(api, asked)
  <2>1. PICK num \in Int : /\ accepted' = accepted + num
                           /\ call'.num = num /\ call'.pc = "fill"
    <3>1. available \in Int /\ qm_cyc_diff(RingSize, ci, ci_reg) \in Nat
      BY RoomTypes
    <3> DEFINE num == IF RefreshedAvailable < asked THEN RefreshedAvailable ELSE asked
    <3>2. num \in Int
      BY <3>1 DEF RefreshedAvailable
    <3>3. accepted' = accepted + num /\ call'.num = num /\ call'.pc = "fill"
      BY <1>4 DEF Claim
    <3> HIDE DEF num
    <3> QED
      BY <3>2, <3>3
  <2>2. Marked' = Marked /\ Handed' = Handed /\ call'.pc # "dca"
    BY <1>1, <1>2, <2>1, Basics DEF Marked, Handed, Waiting, VbPlace
  <2> QED
    BY <1>1, <2>2, DcaKept
<1> QED
  BY <1>3, <1>4 DEF Begin

\* Bodies do not hold DCA.
LEMMA DcaFill ==
  ASSUME MemBack, IInv, Dca, FillBody
  PROVE  Dca'
<1>1. /\ call.pc = "fill" /\ call' = [call EXCEPT !.i = @ + 1]
      /\ cpu' = [cpu EXCEPT ![AtSlot] = [cpu[AtSlot] EXCEPT !.frame = AtFrame]]
      /\ stores' = [stores EXCEPT ![AtSlot] = @ \cup {"body"}]
      /\ UNCHANGED <<ring, executed, got, hw_ci, accepted>>
  BY DEF FillBody, Store, hw
<1>2. call'.pc = "fill" /\ call'.num = call.num
  BY <1>1 DEF IInv, Types
<1>3. Marked' = Marked /\ Handed' = Handed
  BY <1>1, <1>2 DEF Marked, Handed, Waiting, VbPlace
<1>4. cpu[AtSlot] \in SlotState /\ cpu \in [Slots -> SlotState]
      /\ stores \in [Slots -> SUBSET {"body", "word0"}] /\ AtSlot \in Slots
  BY AtType DEF IInv, Types
<1>5. [cpu[AtSlot] EXCEPT !.frame = AtFrame].dca = cpu[AtSlot].dca
  BY <1>4 DEF SlotState
<1>6. \A s \in Slots : /\ cpu'[s].dca = cpu[s].dca
                       /\ "word0" \notin stores'[s] <=> "word0" \notin stores[s]
  BY <1>1, <1>4, <1>5
<1> QED
  BY <1>1, <1>2, <1>3, <1>6, DcaKept

\* The place of word 0 of the frame at hand: after all slots handed over.
LEMMA MarkedPlace ==
  ASSUME MemBack, IInv, call.pc \in {"verb", "dca"}, call.i < call.num
  PROVE  /\ Marked \in 0 .. RingSize - 1 /\ Handed <= Marked
         /\ AtSlot = AheadSlot(Marked) /\ AtFrame = executed + 1 + Marked
<1>1. Marked = Waiting - call.num + call.i
  BY DEF Marked, VbPlace
<1>2. Marked \in 0 .. RingSize - 1 /\ Handed <= Marked
  BY <1>1, HandedIsMarked, Basics, EqcrAssumption
<1>3. At = Ahead(Marked)
  BY <1>1, <1>2, Basics, Place DEF At
<1>4. AtFrame = executed + 1 + Marked
  BY <1>1, Basics DEF AtFrame, Waiting
<1> QED
  BY <1>2, <1>3, <1>4 DEF AtSlot, AheadSlot

\* A store to word 0 of the frame at hand leaves the slots before it alone, and
\* marks the frame if what it stores is final.
LEMMA DcaStoreWord ==
  ASSUME MemBack, IInv, Dca, call.pc \in {"verb", "dca"}, call.i < call.num,
         NEW slot \in SlotState,
         cpu' = [cpu EXCEPT ![AtSlot] = slot],
         stores' = [stores EXCEPT ![AtSlot] = @ \cup {"word0"}],
         UNCHANGED <<ring, executed, got, hw_ci>>,
         Handed' = Handed,
         call'.pc = "dca" => AtFrame' \in DcaFrames,
         \/ Marked' = Marked
         \/ Marked' = Marked + 1 /\ (slot.dca <=> AtFrame \in DcaFrames)
  PROVE  Dca'
<1>1. /\ Marked \in 0 .. RingSize - 1 /\ Handed <= Marked
      /\ AtSlot = AheadSlot(Marked) /\ AtFrame = executed + 1 + Marked /\ AtSlot \in Slots
  BY MarkedPlace, AtType
<1>2. /\ cpu \in [Slots -> SlotState] /\ Handed \in Int
      /\ stores \in [Slots -> SUBSET {"body", "word0"}]
  BY HandedIsMarked DEF IInv, Types
<1>3. \A d : AheadSlot(d)' = AheadSlot(d)
  BY DEF AheadSlot, Ahead
<1>4. ASSUME NEW s \in Slots, "word0" \notin stores'[s] PROVE ring'[s].dca = cpu'[s].dca
  <2>1. s # AtSlot /\ "word0" \notin stores[s] /\ cpu'[s] = cpu[s]
    BY <1>1, <1>2, <1>4
  <2> QED
    BY <2>1, <1>4 DEF Dca
<1>5. ASSUME NEW d \in 0 .. RingSize - 1
      PROVE  /\ d < Marked' => (cpu'[AheadSlot(d)].dca <=> executed + 1 + d \in DcaFrames)
             /\ d < Handed => "word0" \notin stores'[AheadSlot(d)]
  <2>1. CASE d = Marked
    <3>1. cpu'[AheadSlot(d)] = slot /\ ~(d < Handed)
      BY <1>1, <1>2, <2>1
    <3> QED
      BY <1>1, <2>1, <3>1
  <2>2. CASE d # Marked
    <3>1. AheadSlot(d) # AtSlot /\ AheadSlot(d) \in Slots
      BY <1>1, <2>2, Distinct, AheadType, EqcrAssumption
    <3>2. cpu'[AheadSlot(d)] = cpu[AheadSlot(d)] /\ stores'[AheadSlot(d)] = stores[AheadSlot(d)]
      BY <1>2, <3>1
    <3>3. d < Marked' => d < Marked
      BY <1>1, <2>2
    <3> QED
      BY <3>2, <3>3 DEF Dca
  <2> QED
    BY <2>1, <2>2
<1> QED
  BY <1>3, <1>4, <1>5 DEF Dca

\* Word 0 is stored with the DCA bit of the descriptor; a frame that asks for DCA
\* by its flag is not marked yet.
LEMMA DcaWriteVerb ==
  ASSUME MemBack, IInv, Dca, WriteVerb
  PROVE  Dca'
<1> DEFINE slot == [cpu[AtSlot] EXCEPT !.vb = pi_vb,
                                       !.dca = AtFrame \in DcaFrames /\ ~ByFlag]
<1>1. /\ call.pc = "verb" /\ call.i < call.num
      /\ cpu' = [cpu EXCEPT ![AtSlot] = slot]
      /\ stores' = [stores EXCEPT ![AtSlot] = @ \cup {"word0"}]
      /\ UNCHANGED <<pi, ring, executed, got, hw_ci, accepted>>
  BY DEF WriteVerb, Store, hw
<1>2. slot \in SlotState /\ (slot.dca <=> AtFrame \in DcaFrames /\ ~ByFlag)
  <2>1. cpu[AtSlot] \in SlotState /\ pi_vb \in {0, 1}
    BY AtType DEF IInv, Types
  <2>2. (AtFrame \in DcaFrames /\ ~ByFlag) \in BOOLEAN
    OBVIOUS
  <2> QED
    BY <2>1, <2>2 DEF SlotState
<1> HIDE DEF slot
<1>3. CASE ByFlag
  <2>1. call' = [call EXCEPT !.pc = "dca"]
    BY <1>3 DEF WriteVerb
  <2>2. call'.pc = "dca" /\ call'.num = call.num /\ call'.i = call.i
    BY <2>1 DEF IInv, Types
  <2>3. Marked' = Marked /\ Handed' = Handed /\ AtFrame' = AtFrame
    BY <1>1, <2>2 DEF Marked, Handed, Waiting, VbPlace, AtFrame
  <2>4. AtFrame' \in DcaFrames
    BY <1>3, <2>3 DEF ByFlag
  <2> QED
    BY <1>1, <1>2, <2>3, <2>4, DcaStoreWord
<1>4. CASE ~ByFlag
  <2>1. NextFrame
    BY <1>4 DEF WriteVerb
  <2>2. call'.pc = "verb" /\ Waiting' = Waiting /\ Handed' = Handed
        /\ VbPlace' = call.i + 1 /\ call'.num = call.num
    BY <1>1, <2>1, NextFrameStep
  <2>3. Marked' = Marked + 1
    BY <1>1, <2>2, Basics DEF Marked, VbPlace
  <2> QED
    BY <1>1, <1>2, <1>4, <2>2, <2>3, DcaStoreWord
<1> QED
  BY <1>3, <1>4

\* The flag's store to word 0 marks the frame.
LEMMA DcaWriteDca ==
  ASSUME MemBack, IInv, Dca, WriteDca
  PROVE  Dca'
<1> DEFINE slot == [cpu[AtSlot] EXCEPT !.dca = TRUE]
<1>1. /\ call.pc = "dca" /\ NextFrame /\ call.i < call.num
      /\ cpu' = [cpu EXCEPT ![AtSlot] = slot]
      /\ stores' = [stores EXCEPT ![AtSlot] = @ \cup {"word0"}]
      /\ UNCHANGED <<pi, ring, executed, got, hw_ci, accepted>>
  BY DEF WriteDca, Store, hw, IInv, CallOK
<1>2. slot \in SlotState /\ slot.dca
  <2>1. cpu[AtSlot] \in SlotState
    BY AtType DEF IInv, Types
  <2> QED
    BY <2>1 DEF SlotState
<1> HIDE DEF slot
<1>3. call'.pc = "verb" /\ Waiting' = Waiting /\ Handed' = Handed
      /\ VbPlace' = call.i + 1 /\ call'.num = call.num
  BY <1>1, NextFrameStep
<1>4. Marked' = Marked + 1
  BY <1>1, <1>3, Basics DEF Marked, VbPlace
<1>5. AtFrame \in DcaFrames
  BY <1>1 DEF Dca
<1> QED
  BY <1>1, <1>2, <1>3, <1>4, <1>5, DcaStoreWord

\* The barrier before EQCR_PI is written leaves no word 0 on its way.
LEMMA DcaReturn ==
  ASSUME MemBack, IInv, Dca, ReturnMemBack
  PROVE  Dca'
<1>1. /\ call.pc = "verb" /\ call.i = call.num
      /\ \A s \in Slots : stores[s] = {}
      /\ call' = Idle
      /\ UNCHANGED <<cpu, stores, ring, executed, got, hw_ci, accepted>>
  BY DEF ReturnMemBack, Return, hw
<1>2. Marked' = Marked
  BY <1>1, Basics DEF Marked, VbPlace, Waiting, Idle
<1>3. \A d : AheadSlot(d)' = AheadSlot(d)
  BY <1>1 DEF AheadSlot, Ahead
<1>4. call'.pc # "dca"
  BY <1>1 DEF Idle
<1>5. \A d \in 0 .. RingSize - 1 : "word0" \notin stores[AheadSlot(d)]
  BY <1>1, AheadType, EqcrAssumption
<1> QED
  BY <1>1, <1>2, <1>3, <1>4, <1>5 DEF Dca

\* A store that becomes visible shows QMan what software stored last.
LEMMA DcaDrain ==
  ASSUME MemBack, IInv, Dca, NEW s \in Slots, NEW part \in {"body", "word0"},
         Drain(s, part)
  PROVE  Dca'
<1> DEFINE new == IF part = "body" THEN [ring[s] EXCEPT !.frame = cpu[s].frame]
                  ELSE [ring[s] EXCEPT !.vb = cpu[s].vb, !.dca = cpu[s].dca]
<1>1. /\ part \in stores[s]
      /\ ring' = [ring EXCEPT ![s] = new]
      /\ stores' = [stores EXCEPT ![s] = @ \ {part}]
      /\ UNCHANGED <<pi, call, cpu, executed, got, hw_ci, accepted>>
  BY DEF Drain, eqcr, hw
<1>2. /\ ring \in [Slots -> SlotState] /\ cpu \in [Slots -> SlotState]
      /\ stores \in [Slots -> SUBSET {"body", "word0"}]
  BY DEF IInv, Types
<1>3. new.dca = IF part = "body" THEN ring[s].dca ELSE cpu[s].dca
  BY <1>2 DEF SlotState
<1> HIDE DEF new
<1>4. /\ Marked' = Marked /\ Handed' = Handed /\ AtFrame' = AtFrame
      /\ \A d : AheadSlot(d)' = AheadSlot(d)
  BY <1>1 DEF Marked, Handed, Waiting, VbPlace, Verbs, AtFrame, AheadSlot, Ahead
<1>5. ASSUME NEW r \in Slots, "word0" \notin stores'[r] PROVE ring'[r].dca = cpu'[r].dca
  <2>1. CASE r = s
    BY <1>1, <1>2, <1>3, <1>5, <2>1 DEF Dca
  <2>2. CASE r # s
    BY <1>1, <1>2, <1>5, <2>2 DEF Dca
  <2> QED
    BY <2>1, <2>2
<1>6. \A d \in 0 .. RingSize - 1 :
        d < Handed => "word0" \notin stores'[AheadSlot(d)]
  BY <1>1, <1>2, AheadType DEF Dca
<1> QED
  BY <1>1, <1>4, <1>5, <1>6 DEF Dca

\* QMan executes a slot handed over, and reads its DCA bit as marked.
LEMMA DcaExecute ==
  ASSUME MemBack, IInv, Dca, Execute
  PROVE  Dca'
<1>1. /\ Pending
      /\ got' = [frame |-> ring[Slot(hw_ci)].frame, dca |-> ring[Slot(hw_ci)].dca]
      /\ executed' = executed + 1
      /\ hw_ci' = Full(hw_ci + 1)
      /\ UNCHANGED <<pi, call, cpu, stores, ring, accepted>>
  BY DEF Execute, eqcr
<1>2. /\ Handed > 0 /\ AheadSlot(0) = Slot(hw_ci) /\ 0 \in 0 .. RingSize - 1
      /\ AheadSlot(0) \in Slots /\ executed \in Nat
  BY <1>1, PendingIsHanded, AheadType, Basics, EqcrAssumption
<1>3. /\ Marked \in 0 .. RingSize /\ Handed \in 0 .. RingSize /\ Handed <= Marked
      /\ Waiting \in Int /\ call.num \in Int
  BY HandedIsMarked, Basics
<1>4. /\ Marked' = Marked - 1 /\ Handed' = Handed - 1 /\ AtFrame' = AtFrame
  <2>1. VbPlace' = VbPlace /\ VbPlace \in Int
    BY <1>1, Basics DEF VbPlace
  <2>2. Waiting' = Waiting - 1
    BY <1>1, Basics DEF Waiting
  <2> QED
    BY <1>1, <1>3, <2>1, <2>2 DEF Marked, Handed, AtFrame
<1>5. \A d \in 0 .. RingSize - 1 :
         d + 1 \in 0 .. RingSize /\ AheadSlot(d)' = AheadSlot(d + 1)
  BY <1>1, Basics, Shift, EqcrAssumption DEF Ahead, AheadSlot
<1>6. got'.dca <=> executed' \in DcaFrames
  <2>1. ring[AheadSlot(0)].dca = cpu[AheadSlot(0)].dca
    BY <1>2 DEF Dca
  <2>2. cpu[AheadSlot(0)].dca <=> executed + 1 + 0 \in DcaFrames
    BY <1>2, <1>3 DEF Dca
  <2>3. executed + 1 + 0 = executed'
    BY <1>1, <1>2
  <2>4. got'.dca = ring[AheadSlot(0)].dca
    BY <1>1, <1>2
  <2> QED
    BY <2>1, <2>2, <2>3, <2>4
<1>7. ASSUME NEW d \in 0 .. RingSize - 1
      PROVE  /\ d < Marked - 1
                  => (cpu[AheadSlot(d + 1)].dca <=> (executed + 1) + 1 + d \in DcaFrames)
             /\ d < Handed - 1 => "word0" \notin stores[AheadSlot(d + 1)]
  <2> SUFFICES ASSUME d < Marked - 1
               PROVE  /\ cpu[AheadSlot(d + 1)].dca <=> (executed + 1) + 1 + d \in DcaFrames
                      /\ d < Handed - 1 => "word0" \notin stores[AheadSlot(d + 1)]
    BY <1>3
  <2>1. d + 1 \in 0 .. RingSize - 1 /\ d + 1 < Marked /\ (d < Handed - 1 => d + 1 < Handed)
    BY <1>3, EqcrAssumption
  <2>2. cpu[AheadSlot(d + 1)].dca <=> executed + 1 + (d + 1) \in DcaFrames
    BY <2>1 DEF Dca
  <2>3. executed + 1 + (d + 1) = (executed + 1) + 1 + d
    BY <1>2
  <2>4. d < Handed - 1 => "word0" \notin stores[AheadSlot(d + 1)]
    BY <2>1 DEF Dca
  <2> QED
    BY <2>2, <2>3, <2>4
<1> QED
  BY <1>1, <1>4, <1>5, <1>6, <1>7 DEF Dca

\* Every step keeps Dca, in a state that satisfies the ring's invariant.
LEMMA NextDca == MemBack /\ IInv /\ Dca /\ [Next]_vars => Dca'
<1> SUFFICES ASSUME MemBack, IInv, Dca, [Next]_vars PROVE Dca'
  OBVIOUS
<1>1. CASE Caller
  <2>1. /\ 1 \in Nat /\ 0 \in Int /\ -EBUSY \in Int
        /\ \A n \in 0 .. MaxBatch : n \in Nat
        /\ {"enqueue", "multiple", "multiple_desc"} \subseteq Apis
    BY DEF EBUSY, Apis
  <2> QED
    BY <1>1, <2>1, DcaBegin DEF Caller, Enqueue, EnqueueMultiple, EnqueueMultipleDesc
<1>2. CASE FillBody
  BY <1>2, DcaFill
<1>3. CASE Lwsync
  <2>1. /\ call.pc = "fill" /\ call' = [call EXCEPT !.pc = "verb", !.i = 0]
        /\ UNCHANGED <<cpu, stores, ring, executed, got, hw_ci, accepted>>
    BY <1>3 DEF Lwsync, hw
  <2>2. call'.pc = "verb" /\ call'.i = 0 /\ call'.num = call.num
    BY <2>1 DEF IInv, Types
  <2>3. Marked' = Marked /\ Handed' = Handed
    BY <2>1, <2>2 DEF Marked, Handed, Waiting, VbPlace
  <2> QED
    BY <2>1, <2>2, <2>3, DcaKept
<1>4. CASE WriteVerb
  BY <1>4, DcaWriteVerb
<1>5. CASE WriteDca
  BY <1>5, DcaWriteDca
<1>6. CASE Flush \/ ReturnDirect
  BY <1>6 DEF Flush, ReturnDirect
<1>7. CASE ReturnMemBack
  BY <1>7, DcaReturn
<1>8. CASE Memory
  BY <1>8, DcaDrain DEF Memory
<1>9. CASE Execute
  BY <1>9, DcaExecute
<1>10. CASE PublishCi \/ UNCHANGED vars
  <2>1. UNCHANGED <<call, cpu, stores, ring, executed, got, hw_ci, accepted>>
    BY <1>10 DEF PublishCi, vars, hw
  <2>2. /\ Marked' = Marked /\ Handed' = Handed
        /\ \A d : AheadSlot(d)' = AheadSlot(d)
        /\ AtFrame' = AtFrame
    BY <2>1 DEF Marked, Handed, Waiting, VbPlace, Verbs, AheadSlot, Ahead, AtFrame
  <2> QED
    BY <2>1, <2>2 DEF Dca
<1> QED
  BY <1>1, <1>2, <1>3, <1>4, <1>5, <1>6, <1>7, <1>8, <1>9, <1>10
  DEF Next, Driver, QMan

\* In memory-backed mode a frame enqueued with the DCA flag reaches QMan with its
\* DCA field set, and only such a frame does: the stores to word 0, both of them,
\* come before the index in EQCR_PI.  (In direct mode this is false, see the run
\* eqcr_dca_race.)
THEOREM MemBackKeepsDca == MemBack => (Spec => []DcaReachesQMan)
<1> SUFFICES ASSUME MemBack PROVE Spec => []DcaReachesQMan
  OBVIOUS
<1>1. Init => Dca
  <2> SUFFICES ASSUME Init PROVE Dca
    OBVIOUS
  <2>1. call.pc = "idle" /\ call.num = 0 /\ executed = 0 /\ Waiting = 0
    BY DEF Init, Idle, Waiting
  <2>2. Marked = 0
    BY <2>1 DEF Marked, VbPlace
  <2>3. Handed = 0
    BY <2>1 DEF Handed
  <2> QED
    BY <2>1, <2>2, <2>3 DEF Init, Dca
<1>2. IInv /\ Dca /\ [Next]_vars => Dca'
  BY NextDca
<1>3. Dca => DcaReachesQMan
  BY DEF Dca, DcaReachesQMan
<1> QED
  BY <1>1, <1>2, <1>3, Inductive, PTL DEF Spec
=============================================================================
