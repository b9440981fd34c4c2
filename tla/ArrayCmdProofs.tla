--------------------------- MODULE ArrayCmdProofs ---------------------------
(***************************************************************************)
(* Proofs about ArrayCmd, for any threads, any number of slots and of      *)
(* commands, and both modes.                                               *)
(*                                                                         *)
(* A thread owns its slot until it has written word 0 (direct mode) or the *)
(* read trigger (memory-backed mode); from then on the slot is handed      *)
(* over, and in direct mode QMan may execute it, and another thread be     *)
(* allotted it, while the first is still about to flush.  The invariant    *)
(* says what a slot holds in each of these states, in the memory as        *)
(* software wrote it (Owned, HandedOver) and as QMan sees it (Views).      *)
(***************************************************************************)
EXTENDS ArrayCmd, FiniteSetTheorems, TLAPS

Owns(t) == th[t].pc \in {"body", "word0", "trigger"}

Modes ==
  /\ trigger \subseteq allotted
  /\ mem_back => \A t \in Threads : th[t].pc # "flush"
  /\ ~mem_back => trigger = {} /\ \A t \in Threads : th[t].pc # "trigger"

\* The command of a thread that owns its slot, as far as it is written.
Owned ==
  \A t \in Threads : Owns(t) =>
    LET s == th[t].slot
    IN /\ s \in allotted /\ s \notin trigger /\ th[t].vb = slot_vb[s]
       /\ th[t].cmd \in 1..cmds /\ runs[th[t].cmd] = 0
       /\ th[t].pc # "body" => cpu[s].body = th[t].cmd
       /\ th[t].pc = "trigger" => cpu[s].word0 = th[t].cmd
       /\ ~mem_back => cpu[s].vb # slot_vb[s] /\ ring[s].vb # slot_vb[s]

\* Owners differ in their slots and in their commands.
Apart ==
  \A t, u \in Threads : Owns(t) /\ Owns(u) /\ t # u =>
    th[t].slot # th[u].slot /\ th[t].cmd # th[u].cmd

Handed(s) == s \in allotted /\ \A t \in Threads : Owns(t) => th[t].slot # s

\* A slot handed over holds a command of its own that was not executed yet.
HandedOver ==
  \A s \in Slots : Handed(s) =>
    /\ cpu[s].word0 = cpu[s].body
    /\ cpu[s].body \in 1..cmds /\ runs[cpu[s].body] = 0
    /\ "body" \notin stores[s]
    /\ mem_back => stores[s] = {}
    /\ ~mem_back => cpu[s].vb = slot_vb[s]
    /\ \A t \in Threads : Owns(t) => th[t].cmd # cpu[s].body
    /\ \A r \in Slots : Handed(r) /\ r # s => cpu[r].body # cpu[s].body

\* What is drained is as written.  In direct mode an undrained word 0 leaves
\* QMan the other valid bit, and a slot out of use shows it the one last used.
Views ==
  \A s \in Slots :
    /\ "body" \notin stores[s] => ring[s].body = cpu[s].body
    /\ "word0" \notin stores[s] => ring[s].word0 = cpu[s].word0 /\ ring[s].vb = cpu[s].vb
    /\ ~mem_back /\ "word0" \in stores[s] => ring[s].vb # cpu[s].vb
    /\ ~mem_back /\ s \notin allotted => cpu[s].vb = slot_vb[s] /\ ring[s].vb = slot_vb[s]

Once == ~torn /\ \A c \in 1..MaxCmds : runs[c] <= 1 /\ (c > cmds => runs[c] = 0)

Executed == {c \in 1..MaxCmds : runs[c] > 0}

\* Accepted commands are executed or have a slot.
Accounted == cmds = Cardinality(Executed) + Cardinality(allotted)

Memories == Owned /\ Apart /\ HandedOver /\ Views

IInv == TypeOK /\ Modes /\ Memories /\ Once /\ Accounted

-----------------------------------------------------------------------------
\* The slots are finitely many, those allotted and the executed commands too.
LEMMA Finite ==
  ASSUME TypeOK
  PROVE  /\ IsFiniteSet(Slots) /\ Cardinality(Slots) = NumSlots
         /\ IsFiniteSet(allotted) /\ Cardinality(allotted) \in Nat
         /\ IsFiniteSet(Executed) /\ Cardinality(Executed) \in Nat
<1>1. IsFiniteSet(Slots) /\ Cardinality(Slots) = NumSlots
  BY FS_Interval, ArrayAssumption DEF Slots
<1>2. allotted \in SUBSET Slots /\ Executed \in SUBSET (1..MaxCmds)
  BY DEF TypeOK, Executed
<1>3. IsFiniteSet(1..MaxCmds)
  BY FS_Interval, ArrayAssumption
<1> QED
  BY <1>1, <1>2, <1>3, FS_Subset, FS_CardinalityType

\* The parts of the type invariant that the steps look at.
LEMMA Types ==
  ASSUME TypeOK
  PROVE  /\ \A t \in Threads :
              /\ th[t] \in [pc : {"idle", "body", "word0", "flush", "trigger"},
                            slot : Slots, vb : Bits, cmd : Cmds]
              /\ th[t].slot \in Slots /\ th[t].vb \in Bits /\ th[t].cmd \in Cmds
              /\ th[t].pc \in {"idle", "body", "word0", "flush", "trigger"}
         /\ \A s \in Slots :
              /\ cpu[s] \in SlotState /\ ring[s] \in SlotState
              /\ cpu[s].body \in Cmds /\ cpu[s].word0 \in Cmds /\ cpu[s].vb \in Bits
              /\ ring[s].body \in Cmds /\ ring[s].word0 \in Cmds /\ ring[s].vb \in Bits
              /\ slot_vb[s] \in Bits
         /\ mem_back \in BOOLEAN /\ cmds \in Nat /\ cmds <= MaxCmds /\ MaxCmds \in Nat
BY ArrayAssumption DEF TypeOK, SlotState, Cmds

\* A slot has at most one owner; an owned slot is not handed over.
LEMMA OwnerApart ==
  ASSUME IInv, NEW t \in Threads, Owns(t)
  PROVE  /\ ~Handed(th[t].slot)
         /\ \A u \in Threads : Owns(u) /\ u # t => th[u].slot # th[t].slot
BY DEF IInv, Memories, Apart, Handed

-----------------------------------------------------------------------------
\* The invariant holds at the start.
LEMMA InitIInv == Init => IInv
<1> SUFFICES ASSUME Init PROVE IInv
  OBVIOUS
<1>1. 0 \in Slots /\ 0 \in Cmds
  BY ArrayAssumption DEF Slots, Cmds
<1>2. TypeOK
  BY <1>1, ArrayAssumption DEF Init, TypeOK, Idle, Bits, SlotState
<1>3. Modes /\ Once
  BY ArrayAssumption DEF Init, Modes, Once, Idle
<1>4. Executed = {} /\ allotted = {} /\ cmds = 0
  BY DEF Init, Executed
<1>5. Accounted
  BY <1>4, FS_EmptySet DEF Accounted
<1>6. \A t \in Threads : ~Owns(t)
  BY DEF Init, Owns, Idle
<1>7. Owned /\ Apart /\ HandedOver
  BY <1>4, <1>6 DEF Owned, Apart, HandedOver, Handed
<1>8. Views
  BY DEF Init, Views
<1> QED
  BY <1>2, <1>3, <1>5, <1>7, <1>8 DEF IInv, Memories

\* A call reads the allocation register: a free slot, its valid bit turned.
LEMMA ReadAllocationIInv ==
  ASSUME IInv, NEW t \in Threads, ReadAllocation(t)
  PROVE  IInv'
<1>1. PICK s \in Slots \ allotted :
        /\ allotted' = allotted \cup {s}
        /\ slot_vb' = [slot_vb EXCEPT ![s] = 1 - @]
        /\ th' = [th EXCEPT ![t] = [pc |-> "body", slot |-> s, vb |-> 1 - slot_vb[s],
                                    cmd |-> cmds + 1]]
  BY DEF ReadAllocation
<1>2. /\ th[t].pc = "idle" /\ cmds < MaxCmds /\ cmds' = cmds + 1
      /\ UNCHANGED <<mem_back, cpu, stores, ring, trigger, torn, runs>>
  BY DEF ReadAllocation, memory
<1>3. TypeOK
  BY DEF IInv
<1>4. /\ \A u \in Threads \ {t} : th'[u] = th[u]
      /\ th'[t] = [pc |-> "body", slot |-> s, vb |-> 1 - slot_vb[s], cmd |-> cmds + 1]
      /\ \A r \in Slots \ {s} : slot_vb'[r] = slot_vb[r]
      /\ slot_vb'[s] = 1 - slot_vb[s] /\ slot_vb'[s] \in Bits
      /\ slot_vb'[s] # slot_vb[s]
  BY <1>1, <1>3, Types DEF TypeOK, Bits
<1>5. cmds \in Nat /\ cmds + 1 \in 1..MaxCmds /\ cmds + 1 \in Cmds
  BY <1>2, <1>3, Types DEF Cmds
<1>6. TypeOK'
  BY <1>1, <1>2, <1>3, <1>4, <1>5 DEF TypeOK, Cmds
<1>7. /\ \A u \in Threads \ {t} : Owns(u)' <=> Owns(u)
      /\ Owns(t)' /\ ~Owns(t)
  BY <1>2, <1>4 DEF Owns
<1>8. \A u \in Threads : Owns(u) => th[u].slot # s /\ th[u].cmd \in 1..cmds
  BY <1>1 DEF IInv, Memories, Owned
<1>9. \A r \in Slots : Handed(r)' <=> Handed(r)
  BY <1>1, <1>4, <1>7 DEF Handed
<1>10. Modes'
  BY <1>1, <1>2, <1>4 DEF IInv, Modes
<1>11. Owned'
  <2>1. ASSUME NEW u \in Threads, Owns(u), u # t
        PROVE  /\ slot_vb'[th[u].slot] = slot_vb[th[u].slot]
               /\ th[u].cmd \in 1..cmds'
    BY <1>2, <1>3, <1>4, <1>5, <1>8, <2>1, Types
  <2>2. s \notin trigger /\ runs[cmds + 1] = 0
    BY <1>1, <1>5 DEF IInv, Modes, Once
  <2>3. ~mem_back => cpu[s].vb # slot_vb'[s] /\ ring[s].vb # slot_vb'[s]
    BY <1>1, <1>4 DEF IInv, Memories, Views
  <2>4. ASSUME NEW u \in Threads, Owns(u)', u # t
        PROVE  Owned!(u)'
    BY <1>1, <1>2, <1>4, <1>7, <2>1, <2>4 DEF IInv, Memories, Owned
  <2>5. Owned!(t)'
    BY <1>1, <1>2, <1>4, <1>5, <2>2, <2>3
  <2> QED
    BY <2>4, <2>5 DEF Owned
<1>12. Apart'
  BY <1>4, <1>5, <1>7, <1>8 DEF IInv, Memories, Apart
<1>13. HandedOver'
  <2>1. \A r \in Slots : Handed(r) => r # s /\ cpu[r].body \in 1..cmds
    BY <1>1 DEF IInv, Memories, HandedOver, Handed
  <2>2. ASSUME NEW r \in Slots, Handed(r)
        PROVE  HandedOver!(r)'
    <3>1. cpu[r].body \in 1..cmds' /\ cpu[r].body # cmds + 1
      BY <1>2, <1>5, <2>1, <2>2
    <3>2. slot_vb'[r] = slot_vb[r]
      BY <1>4, <2>1, <2>2
    <3>3. \A u \in Threads : Owns(u)' => th'[u].cmd # cpu[r].body
      BY <1>4, <1>7, <2>2, <3>1 DEF IInv, Memories, HandedOver
    <3> QED
      BY <1>2, <1>9, <2>2, <3>1, <3>2, <3>3 DEF IInv, Memories, HandedOver
  <2> QED
    BY <1>9, <2>2 DEF HandedOver
<1>14. Views'
  BY <1>1, <1>2, <1>4 DEF IInv, Memories, Views
<1>15. Once'
  BY <1>2, <1>5 DEF IInv, Once
<1>16. Accounted'
  <2>1. Cardinality(allotted') = Cardinality(allotted) + 1
    BY <1>1, <1>3, Finite, FS_AddElement
  <2>2. Executed' = Executed
    BY <1>2 DEF Executed
  <2> QED
    BY <1>2, <1>3, <2>1, <2>2, Finite DEF IInv, Accounted
<1> QED
  BY <1>6, <1>10, <1>11, <1>12, <1>13, <1>14, <1>15, <1>16 DEF IInv, Memories

-----------------------------------------------------------------------------
\* An owner writes its slot or goes on: what a step of thread t in its slot s
\* leaves alone if it stays the owner.
LEMMA OwnerSteps ==
  ASSUME NEW t \in Threads, Owns(t), Owns(t)',
         \A u \in Threads \ {t} : th'[u] = th[u],
         th'[t].slot = th[t].slot, th'[t].cmd = th[t].cmd,
         allotted' = allotted
  PROVE  /\ \A u \in Threads : /\ Owns(u)' <=> Owns(u)
                               /\ th'[u].slot = th[u].slot /\ th'[u].cmd = th[u].cmd
         /\ \A r \in Slots : Handed(r)' <=> Handed(r)
<1>1. \A u \in Threads : /\ Owns(u)' <=> Owns(u)
                         /\ th'[u].slot = th[u].slot /\ th'[u].cmd = th[u].cmd
  BY DEF Owns
<1> QED
  BY <1>1 DEF Handed

\* Word 0 and the valid bit with it keep a slot of its type.
LEMMA Word0Type ==
  ASSUME NEW x \in SlotState, NEW c \in Cmds, NEW v \in Bits
  PROVE  [x EXCEPT !.word0 = c, !.vb = v] \in SlotState
<1> DEFINE y == [x EXCEPT !.word0 = c]
<1>1. y \in SlotState
  BY DEF SlotState
<1>2. [x EXCEPT !.word0 = c, !.vb = v] = [y EXCEPT !.vb = v]
  OBVIOUS
<1> HIDE DEF y
<1>3. [y EXCEPT !.vb = v] \in SlotState
  BY <1>1 DEF SlotState
<1> QED
  BY <1>2, <1>3

\* The body of a command is stored.
LEMMA WriteBodyIInv ==
  ASSUME IInv, NEW t \in Threads, WriteBody(t)
  PROVE  IInv'
<1>0. PICK s : s = th[t].slot
  OBVIOUS
<1>1. /\ th[t].pc = "body"
      /\ cpu' = [cpu EXCEPT ![s] = [cpu[s] EXCEPT !.body = th[t].cmd]]
      /\ stores' = [stores EXCEPT ![s] = @ \cup {"body"}]
      /\ th' = [th EXCEPT ![t].pc = "word0"]
      /\ UNCHANGED <<mem_back, ring, trigger, slot_vb, allotted, cmds, torn, runs>>
  BY <1>0 DEF WriteBody, Store, Goto
<1>2. TypeOK /\ s \in Slots /\ th[t].cmd \in Cmds
  BY <1>0, Types DEF IInv
<1>3. /\ \A u \in Threads \ {t} : th'[u] = th[u]
      /\ th'[t].pc = "word0" /\ th'[t].slot = th[t].slot
      /\ th'[t].vb = th[t].vb /\ th'[t].cmd = th[t].cmd
  BY <1>1, <1>2 DEF TypeOK
<1>4. /\ \A r \in Slots \ {s} : cpu'[r] = cpu[r] /\ stores'[r] = stores[r]
      /\ cpu'[s].body = th[t].cmd /\ cpu'[s].word0 = cpu[s].word0
      /\ cpu'[s].vb = cpu[s].vb
      /\ stores'[s] = stores[s] \cup {"body"}
  BY <1>1, <1>2 DEF TypeOK, SlotState
<1>5. TypeOK'
  BY <1>1, <1>2, ZenonT(60) DEF TypeOK, SlotState
<1>6. Owns(t) /\ Owns(t)'
  BY <1>1, <1>3 DEF Owns
<1>7. /\ \A u \in Threads : /\ Owns(u)' <=> Owns(u)
                            /\ th'[u].slot = th[u].slot /\ th'[u].cmd = th[u].cmd
      /\ \A r \in Slots : Handed(r)' <=> Handed(r)
  BY <1>1, <1>3, <1>6, OwnerSteps
<1>8. ~Handed(s) /\ \A u \in Threads : Owns(u) /\ u # t => th[u].slot # s
  BY <1>0, <1>6, OwnerApart
<1>9. Modes'
  BY <1>1, <1>3 DEF IInv, Modes
<1>10. Owned'
  <2>1. ASSUME NEW u \in Threads, Owns(u), u # t
        PROVE  Owned!(u)'
    <3>1. th[u].slot \in Slots \ {s}
      BY <1>2, <1>8, <2>1, Types
    <3> QED
      BY <1>1, <1>3, <1>4, <1>7, <2>1, <3>1 DEF IInv, Memories, Owned
  <2>2. Owned!(t)'
    BY <1>0, <1>1, <1>3, <1>4, <1>6 DEF IInv, Memories, Owned
  <2> QED
    BY <1>7, <2>1, <2>2 DEF Owned
<1>11. Apart'
  BY <1>7 DEF IInv, Memories, Apart
<1>12. HandedOver'
  <2>1. ASSUME NEW r \in Slots, Handed(r)
        PROVE  cpu'[r] = cpu[r] /\ stores'[r] = stores[r]
    BY <1>4, <1>8, <2>1
  <2>2. ASSUME NEW r \in Slots, Handed(r)
        PROVE  HandedOver!(r)'
    <3>1. \A q \in Slots : Handed(q)' /\ q # r => cpu'[q].body # cpu'[r].body
      BY <1>7, <2>1, <2>2 DEF IInv, Memories, HandedOver
    <3>2. \A u \in Threads : Owns(u)' => th'[u].cmd # cpu'[r].body
      BY <1>7, <2>1, <2>2 DEF IInv, Memories, HandedOver
    <3> QED
      BY <1>1, <2>1, <2>2, <3>1, <3>2, ZenonT(60) DEF IInv, Memories, HandedOver
  <2> QED
    BY <1>7, <2>2 DEF HandedOver
<1>13. Views'
  BY <1>1, <1>4 DEF IInv, Memories, Views
<1>14. Once' /\ Accounted'
  BY <1>1 DEF IInv, Once, Accounted, Executed
<1> QED
  BY <1>5, <1>9, <1>10, <1>11, <1>12, <1>13, <1>14 DEF IInv, Memories

\* Word 0 is stored: in direct mode, behind the body, it hands the slot over.
LEMMA WriteWord0IInv ==
  ASSUME IInv, NEW t \in Threads, WriteWord0(t)
  PROVE  IInv'
<1>0. PICK s : s = th[t].slot
  OBVIOUS
<1> DEFINE next == IF mem_back THEN "trigger" ELSE "flush"
<1>1. /\ th[t].pc = "word0" /\ (mem_back \/ stores[s] = {})
      /\ cpu' = [cpu EXCEPT ![s] = [cpu[s] EXCEPT !.word0 = th[t].cmd,
                                                  !.vb = th[t].vb]]
      /\ stores' = [stores EXCEPT ![s] = @ \cup {"word0"}]
      /\ th' = [th EXCEPT ![t].pc = next]
      /\ UNCHANGED <<mem_back, ring, trigger, slot_vb, allotted, cmds, torn, runs>>
  BY <1>0 DEF WriteWord0, Store, Goto
<1>2. /\ TypeOK /\ s \in Slots /\ th[t].cmd \in Cmds /\ th[t].vb \in Bits
      /\ mem_back \in BOOLEAN
  BY <1>0, Types DEF IInv
<1>3. next \in {"trigger", "flush"}
  OBVIOUS
<1>4. (mem_back => next = "trigger") /\ (~mem_back => next = "flush")
  OBVIOUS
<1> HIDE DEF next
<1>5. /\ \A u \in Threads \ {t} : th'[u] = th[u]
      /\ th'[t].pc = next /\ th'[t].slot = th[t].slot
      /\ th'[t].vb = th[t].vb /\ th'[t].cmd = th[t].cmd
  BY <1>1, <1>2 DEF TypeOK
<1>6. /\ \A r \in Slots \ {s} : cpu'[r] = cpu[r] /\ stores'[r] = stores[r]
      /\ cpu'[s].body = cpu[s].body /\ cpu'[s].word0 = th[t].cmd
      /\ cpu'[s].vb = th[t].vb
      /\ stores'[s] = stores[s] \cup {"word0"}
  BY <1>1, <1>2 DEF TypeOK, SlotState
<1>7. TypeOK'
  <2>1. [cpu[s] EXCEPT !.word0 = th[t].cmd, !.vb = th[t].vb] \in SlotState
    BY <1>2, Types, Word0Type
  <2>2. cpu' \in [Slots -> SlotState] /\ stores' \in [Slots -> SUBSET {"body", "word0"}]
    BY <1>1, <1>2, <2>1 DEF TypeOK
  <2>3. th' \in [Threads -> [pc : {"idle", "body", "word0", "flush", "trigger"},
                             slot : Slots, vb : Bits, cmd : Cmds]]
    BY <1>1, <1>2, <1>3 DEF TypeOK
  <2> QED
    BY <1>1, <1>2, <2>2, <2>3 DEF TypeOK
<1>8. /\ Owns(t) /\ cpu[s].body = th[t].cmd
      /\ s \in allotted /\ s \notin trigger /\ th[t].vb = slot_vb[s]
      /\ th[t].cmd \in 1..cmds /\ runs[th[t].cmd] = 0
      /\ ~mem_back => ring[s].vb # slot_vb[s]
  BY <1>0, <1>1 DEF Owns, IInv, Memories, Owned
<1>9. ~Handed(s) /\ \A u \in Threads : Owns(u) /\ u # t => th[u].slot # s
  BY <1>0, <1>8, OwnerApart
<1>10. Modes'
  BY <1>1, <1>4, <1>5 DEF IInv, Modes
<1>11. /\ \A u \in Threads \ {t} : Owns(u)' <=> Owns(u)
       /\ mem_back => Owns(t)'
       /\ ~mem_back => ~Owns(t)'
  BY <1>4, <1>5 DEF Owns
<1>12. Owned'
  <2>1. ASSUME NEW u \in Threads, Owns(u), u # t
        PROVE  Owned!(u)'
    <3>1. th[u].slot \in Slots \ {s}
      BY <1>2, <1>9, <2>1, Types
    <3> QED
      BY <1>1, <1>5, <1>6, <2>1, <3>1 DEF IInv, Memories, Owned
  <2>2. mem_back => Owned!(t)'
    BY <1>0, <1>1, <1>5, <1>6, <1>8
  <2> QED
    BY <1>11, <2>1, <2>2, <1>2 DEF Owned
<1>13. Apart'
  <2>1. \A u \in Threads : /\ Owns(u)' => Owns(u)
                           /\ th'[u].slot = th[u].slot /\ th'[u].cmd = th[u].cmd
    BY <1>5, <1>8, <1>11
  <2> QED
    BY <2>1 DEF IInv, Memories, Apart
<1>14. /\ \A r \in Slots \ {s} : Handed(r)' <=> Handed(r)
       /\ mem_back => ~Handed(s)'
  BY <1>0, <1>1, <1>5, <1>8, <1>11 DEF Handed
<1>15. HandedOver'
  <2>1. ASSUME NEW r \in Slots, Handed(r)
        PROVE  /\ HandedOver!(r)' /\ r # s
    <3>1. r # s /\ cpu'[r] = cpu[r] /\ stores'[r] = stores[r]
      BY <1>6, <1>9, <2>1
    <3>2. \A u \in Threads : Owns(u)' => th'[u].cmd # cpu[r].body
      BY <1>5, <1>8, <1>11, <2>1 DEF IInv, Memories, HandedOver
    <3>3. cpu[r].body # cpu[s].body
      BY <1>8, <2>1 DEF IInv, Memories, HandedOver
    <3>4. \A q \in Slots : Handed(q)' /\ q # r => cpu'[q].body # cpu'[r].body
      <4>1. ASSUME NEW q \in Slots \ {s}, Handed(q)', q # r
            PROVE  cpu'[q].body # cpu'[r].body
        BY <1>6, <1>14, <2>1, <3>1, <4>1 DEF IInv, Memories, HandedOver
      <4> QED
        BY <1>6, <3>1, <3>3, <4>1
    <3> QED
      BY <1>1, <2>1, <3>1, <3>2, <3>4 DEF IInv, Memories, HandedOver
  <2>2. ASSUME Handed(s)'
        PROVE  HandedOver!(s)'
    <3>1. ~mem_back /\ stores[s] = {}
      BY <1>1, <1>14, <2>2
    <3>2. \A u \in Threads : Owns(u)' => th'[u].cmd # cpu[s].body
      BY <1>5, <1>8, <1>11, <3>1 DEF IInv, Memories, Apart
    <3>3. \A r \in Slots : Handed(r)' /\ r # s => cpu'[r].body # cpu'[s].body
      BY <1>6, <1>8, <1>14 DEF IInv, Memories, HandedOver
    <3> QED
      BY <1>1, <1>6, <1>8, <3>1, <3>2, <3>3
  <2> QED
    BY <1>14, <2>1, <2>2 DEF HandedOver
<1>16. Views'
  <2>1. ASSUME NEW r \in Slots, r # s
        PROVE  Views!(r)'
    BY <1>1, <1>6, <2>1 DEF IInv, Memories, Views
  <2>2. Views!(s)'
    BY <1>1, <1>2, <1>6, <1>8 DEF IInv, Memories, Views
  <2> QED
    BY <2>1, <2>2 DEF Views
<1>17. Once' /\ Accounted'
  BY <1>1 DEF IInv, Once, Accounted, Executed
<1> QED
  BY <1>7, <1>10, <1>12, <1>13, <1>15, <1>16, <1>17 DEF IInv, Memories

-----------------------------------------------------------------------------
\* Direct mode: the slot is flushed, whoever has it by now, and the call ends.
LEMMA FlushIInv ==
  ASSUME IInv, NEW t \in Threads, Flush(t)
  PROVE  IInv'
<1>0. PICK s : s = th[t].slot
  OBVIOUS
<1>1. /\ th[t].pc = "flush"
      /\ ring' = [ring EXCEPT ![s] = cpu[s]]
      /\ stores' = [stores EXCEPT ![s] = {}]
      /\ th' = [th EXCEPT ![t] = Idle]
      /\ UNCHANGED <<mem_back, cpu, trigger, slot_vb, allotted, cmds, torn, runs>>
  BY <1>0 DEF Flush
<1>2. TypeOK /\ s \in Slots /\ mem_back \in BOOLEAN /\ 0 \in Slots /\ 0 \in Cmds
  BY <1>0, Types, ArrayAssumption DEF IInv, Slots, Cmds
<1>3. ~mem_back
  BY <1>1 DEF IInv, Modes
<1>4. /\ \A u \in Threads \ {t} : th'[u] = th[u]
      /\ th'[t].pc = "idle"
  BY <1>1, <1>2 DEF TypeOK, Idle
<1>5. /\ \A r \in Slots \ {s} : ring'[r] = ring[r] /\ stores'[r] = stores[r]
      /\ ring'[s] = cpu[s] /\ stores'[s] = {}
  BY <1>1, <1>2 DEF TypeOK
<1>6. TypeOK'
  BY <1>1, <1>2 DEF TypeOK, Idle, Bits
<1>7. \A u \in Threads : /\ Owns(u)' <=> Owns(u)
                         /\ Owns(u) => th'[u] = th[u]
  BY <1>1, <1>4 DEF Owns
<1>8. \A r \in Slots : Handed(r)' <=> Handed(r)
  BY <1>1, <1>7 DEF Handed
<1>9. Modes'
  BY <1>1, <1>3, <1>4 DEF IInv, Modes
<1>10. Owned'
  <2>1. ASSUME NEW u \in Threads, Owns(u)
        PROVE  Owned!(u)'
    <3>1. ~mem_back => ring'[th[u].slot].vb # slot_vb[th[u].slot]
      BY <1>2, <1>5, <2>1, Types DEF IInv, Memories, Owned
    <3> QED
      BY <1>1, <1>7, <2>1, <3>1 DEF IInv, Memories, Owned
  <2> QED
    BY <1>7, <2>1 DEF Owned
<1>11. Apart'
  BY <1>7 DEF IInv, Memories, Apart
<1>12. HandedOver'
  <2>1. ASSUME NEW r \in Slots, Handed(r)
        PROVE  HandedOver!(r)'
    <3>1. \A q \in Slots : Handed(q)' /\ q # r => cpu'[q].body # cpu'[r].body
      BY <1>1, <1>8, <2>1 DEF IInv, Memories, HandedOver
    <3>2. \A u \in Threads : Owns(u)' => th'[u].cmd # cpu'[r].body
      BY <1>1, <1>7, <2>1 DEF IInv, Memories, HandedOver
    <3>3. "body" \notin stores'[r]
      BY <1>5, <2>1 DEF IInv, Memories, HandedOver
    <3> QED
      BY <1>1, <1>3, <2>1, <3>1, <3>2, <3>3 DEF IInv, Memories, HandedOver
  <2> QED
    BY <1>8, <2>1 DEF HandedOver
<1>13. Views'
  BY <1>1, <1>5 DEF IInv, Memories, Views
<1>14. Once' /\ Accounted'
  BY <1>1 DEF IInv, Once, Accounted, Executed
<1> QED
  BY <1>6, <1>9, <1>10, <1>11, <1>12, <1>13, <1>14 DEF IInv, Memories

\* Memory-backed mode: the read trigger, behind all stores, hands the slot over.
LEMMA WriteTriggerIInv ==
  ASSUME IInv, NEW t \in Threads, WriteTrigger(t)
  PROVE  IInv'
<1>0. PICK s : s = th[t].slot
  OBVIOUS
<1>1. /\ th[t].pc = "trigger" /\ stores[s] = {}
      /\ trigger' = trigger \cup {s}
      /\ th' = [th EXCEPT ![t] = Idle]
      /\ UNCHANGED <<mem_back, cpu, stores, ring, slot_vb, allotted, cmds, torn, runs>>
  BY <1>0 DEF WriteTrigger, memory
<1>2. TypeOK /\ s \in Slots /\ mem_back \in BOOLEAN /\ 0 \in Slots /\ 0 \in Cmds
  BY <1>0, Types, ArrayAssumption DEF IInv, Slots, Cmds
<1>3. mem_back
  BY <1>1 DEF IInv, Modes
<1>4. /\ \A u \in Threads \ {t} : th'[u] = th[u]
      /\ th'[t].pc = "idle"
  BY <1>1, <1>2 DEF TypeOK, Idle
<1>5. TypeOK'
  BY <1>1, <1>2 DEF TypeOK, Idle, Bits
<1>6. /\ Owns(t) /\ ~Owns(t)'
      /\ \A u \in Threads \ {t} : Owns(u)' <=> Owns(u)
  BY <1>1, <1>4 DEF Owns
<1>7. /\ s \in allotted /\ cpu[s].body = th[t].cmd /\ cpu[s].word0 = th[t].cmd
      /\ th[t].cmd \in 1..cmds /\ runs[th[t].cmd] = 0
  BY <1>0, <1>1, <1>6 DEF IInv, Memories, Owned
<1>8. ~Handed(s) /\ \A u \in Threads : Owns(u) /\ u # t => th[u].slot # s
  BY <1>0, <1>6, OwnerApart
<1>9. \A r \in Slots \ {s} : Handed(r)' <=> Handed(r)
  BY <1>0, <1>1, <1>4, <1>6 DEF Handed
<1>10. Modes'
  BY <1>1, <1>3, <1>4, <1>7 DEF IInv, Modes
<1>11. Owned'
  <2>1. ASSUME NEW u \in Threads, Owns(u), u # t
        PROVE  Owned!(u)'
    BY <1>1, <1>3, <1>4, <1>8, <2>1 DEF IInv, Memories, Owned
  <2> QED
    BY <1>6, <2>1 DEF Owned
<1>12. Apart'
  <2>1. \A u \in Threads : Owns(u)' => Owns(u) /\ u # t /\ th'[u] = th[u]
    BY <1>4, <1>6
  <2> QED
    BY <2>1 DEF IInv, Memories, Apart
<1>13. HandedOver'
  <2>1. ASSUME NEW r \in Slots, Handed(r)
        PROVE  HandedOver!(r)'
    <3>1. r # s /\ cpu[r].body # cpu[s].body
      BY <1>6, <1>7, <1>8, <2>1 DEF IInv, Memories, HandedOver
    <3>2. \A q \in Slots : Handed(q)' /\ q # r => cpu'[q].body # cpu'[r].body
      <4>1. ASSUME NEW q \in Slots \ {s}, Handed(q)', q # r
            PROVE  cpu'[q].body # cpu'[r].body
        BY <1>1, <1>9, <2>1, <4>1 DEF IInv, Memories, HandedOver
      <4> QED
        BY <1>1, <3>1, <4>1
    <3>3. \A u \in Threads : Owns(u)' => th'[u].cmd # cpu'[r].body
      BY <1>1, <1>4, <1>6, <2>1 DEF IInv, Memories, HandedOver
    <3> QED
      BY <1>1, <1>3, <2>1, <3>2, <3>3 DEF IInv, Memories, HandedOver
  <2>2. HandedOver!(s)'
    <3>1. \A u \in Threads : Owns(u)' => th'[u].cmd # cpu'[s].body
      BY <1>1, <1>4, <1>6, <1>7 DEF IInv, Memories, Apart
    <3>2. \A r \in Slots : Handed(r)' /\ r # s => cpu'[r].body # cpu'[s].body
      BY <1>1, <1>6, <1>7, <1>9 DEF IInv, Memories, HandedOver
    <3> QED
      BY <1>1, <1>3, <1>7, <3>1, <3>2
  <2> QED
    BY <1>9, <2>1, <2>2 DEF HandedOver
<1>14. Views'
  BY <1>1, <1>3 DEF IInv, Memories, Views
<1>15. Once' /\ Accounted'
  BY <1>1 DEF IInv, Once, Accounted, Executed
<1> QED
  BY <1>5, <1>10, <1>11, <1>12, <1>13, <1>14, <1>15 DEF IInv, Memories

-----------------------------------------------------------------------------
\* A store becomes visible to QMan.
LEMMA DrainIInv ==
  ASSUME IInv, NEW s \in Slots, NEW part \in {"body", "word0"}, Drain(s, part)
  PROVE  IInv'
<1>1. /\ part \in stores[s]
      /\ ring' = [ring EXCEPT ![s] =
                    IF part = "body" THEN [@ EXCEPT !.body = cpu[s].body]
                    ELSE [@ EXCEPT !.word0 = cpu[s].word0, !.vb = cpu[s].vb]]
      /\ stores' = [stores EXCEPT ![s] = @ \ {part}]
      /\ UNCHANGED <<mem_back, th, cpu, trigger, slot_vb, allotted, cmds, torn, runs>>
  BY DEF Drain
<1>2. TypeOK /\ mem_back \in BOOLEAN
  BY Types DEF IInv
<1>3. /\ \A r \in Slots \ {s} : ring'[r] = ring[r] /\ stores'[r] = stores[r]
      /\ stores'[s] = stores[s] \ {part}
  BY <1>1, <1>2 DEF TypeOK
<1>4. /\ part = "body" => ring'[s] = [ring[s] EXCEPT !.body = cpu[s].body]
      /\ part = "word0" => ring'[s] = [ring[s] EXCEPT !.word0 = cpu[s].word0,
                                                      !.vb = cpu[s].vb]
  BY <1>1, <1>2 DEF TypeOK
<1>5. /\ part = "body" => /\ ring'[s].body = cpu[s].body
                          /\ ring'[s].word0 = ring[s].word0 /\ ring'[s].vb = ring[s].vb
      /\ part = "word0" => /\ ring'[s].body = ring[s].body
                           /\ ring'[s].word0 = cpu[s].word0 /\ ring'[s].vb = cpu[s].vb
  BY <1>2, <1>4, Types DEF SlotState
<1>6. TypeOK'
  <2>1. ring'[s] \in SlotState
    <3>1. CASE part = "body"
      BY <1>2, <1>4, <3>1, Types DEF SlotState
    <3>2. CASE part = "word0"
      <4>1. [ring[s] EXCEPT !.word0 = cpu[s].word0, !.vb = cpu[s].vb] \in SlotState
        BY <1>2, Types, Word0Type
      <4>2. ring'[s] = [ring[s] EXCEPT !.word0 = cpu[s].word0, !.vb = cpu[s].vb]
        BY <1>4, <3>2
      <4> QED
        BY <4>1, <4>2, Zenon
    <3> QED
      BY <3>1, <3>2
  <2>2. ring' \in [Slots -> SlotState]
    BY <1>1, <1>2, <1>3, <2>1 DEF TypeOK
  <2>3. stores' \in [Slots -> SUBSET {"body", "word0"}]
    BY <1>1, <1>2 DEF TypeOK
  <2> QED
    BY <1>1, <1>2, <2>2, <2>3 DEF TypeOK
<1>7. /\ \A u \in Threads : Owns(u)' <=> Owns(u)
      /\ \A r \in Slots : Handed(r)' <=> Handed(r)
  BY <1>1 DEF Owns, Handed
<1>8. Modes' /\ Apart'
  BY <1>1, <1>7 DEF IInv, Modes, Memories, Apart
\* In direct mode no store of a valid bit is under way in a slot that has an
\* owner or is not allotted.
<1>9. ~mem_back /\ part = "word0" => Handed(s)
  <2> SUFFICES ASSUME ~mem_back, part = "word0", ~Handed(s)
               PROVE  FALSE
    OBVIOUS
  <2>1. /\ ring[s].vb # cpu[s].vb
        /\ ring[s].vb \in Bits /\ cpu[s].vb \in Bits /\ slot_vb[s] \in Bits
    BY <1>1, <1>2, Types DEF IInv, Memories, Views
  <2>2. CASE s \notin allotted
    BY <2>1, <2>2 DEF IInv, Memories, Views
  <2>3. CASE \E t \in Threads : Owns(t) /\ th[t].slot = s
    BY <2>1, <2>3 DEF IInv, Memories, Owned, Bits
  <2> QED
    BY <2>2, <2>3 DEF Handed
<1>10. Owned'
  <2>1. ASSUME NEW u \in Threads, Owns(u)
        PROVE  Owned!(u)'
    <3>1. ~mem_back => ring'[th[u].slot].vb # slot_vb[th[u].slot]
      <4>1. th[u].slot \in Slots
        BY <1>2, Types
      <4>2. ~mem_back /\ th[u].slot = s => part = "body"
        BY <1>9, <2>1 DEF Handed
      <4> QED
        BY <1>3, <1>5, <2>1, <4>1, <4>2 DEF IInv, Memories, Owned
    <3> QED
      BY <1>1, <2>1, <3>1 DEF IInv, Memories, Owned
  <2> QED
    BY <1>7, <2>1 DEF Owned
<1>11. HandedOver'
  <2>1. ASSUME NEW r \in Slots, Handed(r)
        PROVE  HandedOver!(r)'
    <3>1. \A q \in Slots : Handed(q)' /\ q # r => cpu'[q].body # cpu'[r].body
      BY <1>1, <1>7, <2>1 DEF IInv, Memories, HandedOver
    <3>2. \A u \in Threads : Owns(u)' => th'[u].cmd # cpu'[r].body
      BY <1>1, <1>7, <2>1 DEF IInv, Memories, HandedOver
    <3>3. "body" \notin stores'[r] /\ (mem_back => stores'[r] = {})
      BY <1>3, <2>1 DEF IInv, Memories, HandedOver
    <3> QED
      BY <1>1, <2>1, <3>1, <3>2, <3>3 DEF IInv, Memories, HandedOver
  <2> QED
    BY <1>7, <2>1 DEF HandedOver
<1>12. Views'
  <2>1. ASSUME NEW r \in Slots \ {s}
        PROVE  Views!(r)'
    BY <1>1, <1>3, <2>1 DEF IInv, Memories, Views
  <2>2. CASE part = "body"
    BY <1>1, <1>3, <1>5, <2>1, <2>2 DEF IInv, Memories, Views
  <2>3. CASE part = "word0"
    <3>1. ~mem_back => s \in allotted
      BY <1>9, <2>3 DEF Handed
    <3>2. Views!(s)'
      BY <1>1, <1>3, <1>5, <2>3, <3>1 DEF IInv, Memories, Views
    <3> QED
      BY <2>1, <3>2 DEF Views
  <2> QED
    BY <2>2, <2>3
<1>13. Once' /\ Accounted'
  BY <1>1 DEF IInv, Once, Accounted, Executed
<1> QED
  BY <1>6, <1>8, <1>10, <1>11, <1>12, <1>13 DEF IInv, Memories

-----------------------------------------------------------------------------
\* QMan executes slots that were handed over only, and sees them whole.
LEMMA ExecutesWhole ==
  ASSUME IInv, NEW s \in Slots, Execute(s)
  PROVE  /\ Handed(s) /\ ring[s].body = cpu[s].body
         /\ ring[s].body = ring[s].word0 /\ ring[s].body \in 1..cmds
         /\ runs[ring[s].body] = 0
<1>1. /\ s \in allotted
      /\ mem_back => s \in trigger
      /\ ~mem_back => ring[s].vb = slot_vb[s]
  BY DEF Execute
<1>2. Handed(s)
  BY <1>1 DEF Handed, IInv, Memories, Owned
<1>3. cpu[s].word0 = cpu[s].body /\ "body" \notin stores[s]
  BY <1>2 DEF IInv, Memories, HandedOver
<1>4. "word0" \notin stores[s]
  <2>1. CASE mem_back
    BY <1>2, <2>1 DEF IInv, Memories, HandedOver
  <2>2. CASE ~mem_back
    <3>1. cpu[s].vb = slot_vb[s]
      BY <1>2, <2>2 DEF IInv, Memories, HandedOver
    <3> QED
      BY <1>1, <2>2, <3>1 DEF IInv, Memories, Views
  <2> QED
    BY <2>1, <2>2
<1>5. ring[s].body = cpu[s].body /\ ring[s].word0 = cpu[s].word0
  BY <1>3, <1>4 DEF IInv, Memories, Views
<1> QED
  BY <1>2, <1>3, <1>5 DEF IInv, Memories, HandedOver

\* QMan executes a slot: its command has run once, the slot is free again.
LEMMA ExecuteIInv ==
  ASSUME IInv, NEW s \in Slots, Execute(s)
  PROVE  IInv' /\ \E c \in 1..cmds : c \notin Executed /\ Executed' = Executed \cup {c}
<1>0. PICK c : c = ring[s].body
  OBVIOUS
<1>1. /\ Handed(s) /\ cpu[s].body = c /\ c = ring[s].word0
      /\ c \in 1..cmds /\ runs[c] = 0
  BY <1>0, ExecutesWhole
<1>2. TypeOK /\ c \in 1..MaxCmds /\ mem_back \in BOOLEAN
  BY <1>1, Types DEF IInv
<1>3. /\ allotted' = allotted \ {s} /\ trigger' = trigger \ {s}
      /\ runs' = [runs EXCEPT ![c] = @ + 1]
      /\ UNCHANGED <<mem_back, th, cpu, stores, ring, slot_vb, cmds, torn>>
  BY <1>0, <1>1, <1>2 DEF Execute, memory
<1>4. ~mem_back => ring[s].vb = slot_vb[s]
  BY DEF Execute
<1>5. runs'[c] = 1 /\ \A d \in (1..MaxCmds) \ {c} : runs'[d] = runs[d]
  BY <1>1, <1>2, <1>3 DEF TypeOK
<1>6. TypeOK'
  BY <1>2, <1>3 DEF TypeOK
<1>7. Modes'
  BY <1>3 DEF IInv, Modes
<1>8. /\ \A u \in Threads : Owns(u)' <=> Owns(u)
      /\ \A u \in Threads : Owns(u) => th[u].slot # s /\ th[u].cmd # c
  BY <1>1, <1>3 DEF Owns, Handed, IInv, Memories, HandedOver
<1>9. /\ ~Handed(s)'
      /\ \A r \in Slots \ {s} : Handed(r)' <=> Handed(r)
  BY <1>3, <1>8 DEF Handed
<1>10. Owned'
  <2>1. ASSUME NEW u \in Threads, Owns(u)
        PROVE  Owned!(u)'
    <3>1. th[u].cmd \in 1..cmds /\ runs[th[u].cmd] = 0
      BY <2>1 DEF IInv, Memories, Owned
    <3>2. th[u].cmd \in (1..MaxCmds) \ {c}
      BY <1>2, <1>8, <2>1, <3>1, Types
    <3>3. runs'[th[u].cmd] = 0
      BY <1>5, <3>1, <3>2
    <3> QED
      BY <1>3, <1>8, <2>1, <3>3 DEF IInv, Memories, Owned
  <2> QED
    BY <1>8, <2>1 DEF Owned
<1>11. Apart'
  BY <1>3, <1>8 DEF IInv, Memories, Apart
<1>12. HandedOver'
  <2>1. ASSUME NEW r \in Slots \ {s}, Handed(r)
        PROVE  HandedOver!(r)'
    <3>1. cpu[r].body # c /\ cpu[r].body \in 1..cmds /\ runs[cpu[r].body] = 0
      BY <1>1, <2>1 DEF IInv, Memories, HandedOver
    <3>2. runs'[cpu[r].body] = 0
      BY <1>2, <1>5, <3>1, Types
    <3>3. \A q \in Slots : Handed(q)' /\ q # r => cpu'[q].body # cpu'[r].body
      BY <1>3, <1>9, <2>1 DEF IInv, Memories, HandedOver
    <3>4. \A u \in Threads : Owns(u)' => th'[u].cmd # cpu'[r].body
      BY <1>3, <1>8, <2>1 DEF IInv, Memories, HandedOver
    <3> QED
      BY <1>3, <2>1, <3>2, <3>3, <3>4 DEF IInv, Memories, HandedOver
  <2> QED
    BY <1>9, <2>1 DEF HandedOver
<1>13. Views'
  <2>1. ~mem_back => cpu[s].vb = slot_vb[s]
    BY <1>1 DEF IInv, Memories, HandedOver
  <2> QED
    BY <1>3, <1>4, <2>1 DEF IInv, Memories, Views
<1>14. Once'
  <2>1. \A d \in 1..MaxCmds : runs'[d] <= 1 /\ (d > cmds => runs'[d] = 0)
    BY <1>1, <1>2, <1>5, Types DEF IInv, Once
  <2> QED
    BY <1>3, <2>1 DEF IInv, Once
<1>15. c \notin Executed /\ Executed' = Executed \cup {c}
  BY <1>1, <1>2, <1>5 DEF Executed
<1>16. Accounted'
  <2>1. Cardinality(Executed') = Cardinality(Executed) + 1
    BY <1>2, <1>15, Finite, FS_AddElement
  <2>2. Cardinality(allotted') = Cardinality(allotted) - 1
    BY <1>1, <1>2, <1>3, Finite, FS_RemoveElement DEF Handed
  <2> QED
    BY <1>2, <1>3, <2>1, <2>2, Finite DEF IInv, Accounted
<1> QED
  BY <1>1, <1>6, <1>7, <1>10, <1>11, <1>12, <1>13, <1>14, <1>15, <1>16
     DEF IInv, Memories

-----------------------------------------------------------------------------
\* The invariant holds in every state.
LEMMA Inductive == Spec => []IInv
<1>1. IInv /\ [Next]_vars => IInv'
  <2> SUFFICES ASSUME IInv, [Next]_vars PROVE IInv'
    OBVIOUS
  <2>1. CASE Memory
    BY <2>1, DrainIInv DEF Memory
  <2>2. CASE QMan
    BY <2>2, ExecuteIInv DEF QMan
  <2>3. CASE \E t \in Threads : Call(t) \/ Step(t)
    BY <2>3, ReadAllocationIInv, WriteBodyIInv, WriteWord0IInv, FlushIInv,
       WriteTriggerIInv DEF Call, Step, release, enqueue_array_mode
  <2>4. CASE UNCHANGED vars
    BY <2>4, SMTT(30) DEF vars, memory, IInv, TypeOK, Modes, Memories, Owned, Owns, Apart,
                HandedOver, Handed, Views, Once, Accounted, Executed
  <2> QED
    BY <2>1, <2>2, <2>3, <2>4 DEF Next
<1> QED
  BY <1>1, InitIInv, PTL DEF Spec

\* Tickets counts with the same operator.
LEMMA SameCardinality == \A S : Abstract!Cardinality(S) = Cardinality(S)
BY DEF Abstract!Cardinality, Cardinality

\* Every step is a step of the tickets or leaves their state alone: the read of
\* the allocation register accepts a command, for which there is room.
LEMMA StepRefines ==
  ASSUME IInv, [Next]_vars
  PROVE  [Abstract!Next]_(Abstract!vars)
<1>0. UNCHANGED <<cmds, runs>> => UNCHANGED Abstract!vars
  BY DEF Abstract!vars
<1>1. ASSUME NEW t \in Threads, ReadAllocation(t)
      PROVE  Abstract!Next
  <2>1. /\ Slots \ allotted # {} /\ cmds < MaxCmds
        /\ cmds' = cmds + 1 /\ runs' = runs
    BY <1>1 DEF ReadAllocation
  <2>2. TypeOK /\ allotted \in SUBSET Slots
    BY DEF IInv, TypeOK
  <2>3. Cardinality(allotted) < NumSlots
    BY <2>1, <2>2, Finite, FS_Subset, ArrayAssumption
  <2>4. cmds - Cardinality(Executed) < NumSlots
    BY <2>2, <2>3, Finite DEF IInv, Accounted
  <2> QED
    <3>1. Executed' = Executed
      BY <2>1 DEF Executed
    <3>2. Abstract!Accept <=> /\ cmds - Cardinality(Executed) < NumSlots
                              /\ cmds < MaxCmds /\ cmds' = cmds + 1
                              /\ Executed' = Executed
      BY SameCardinality DEF Abstract!Accept, Executed
    <3>3. Abstract!Accept
      BY <2>1, <2>4, <3>1, <3>2
    <3> QED
      BY <3>3 DEF Abstract!Next
<1>2. ASSUME NEW s \in Slots, Execute(s)
      PROVE  Abstract!Next
  <2>1. PICK c \in 1..cmds : c \notin Executed /\ Executed' = Executed \cup {c}
    BY <1>2, ExecuteIInv
  <2>2. c \in 1..MaxCmds /\ cmds' = cmds
    BY <1>2, Types DEF IInv, Execute
  <2> QED
    BY <2>1, <2>2 DEF Abstract!Next, Abstract!Execute, Executed
<1>3. CASE Memory
  BY <1>0, <1>3 DEF Memory, Drain
<1>4. ASSUME NEW t \in Threads, Step(t)
      PROVE  UNCHANGED <<cmds, runs>>
  BY <1>4 DEF Step, WriteBody, WriteWord0, Flush, WriteTrigger
<1>5. CASE UNCHANGED vars
  BY <1>0, <1>5 DEF vars
<1> QED
  BY <1>0, <1>1, <1>2, <1>3, <1>4, <1>5
     DEF Next, QMan, Call, release, enqueue_array_mode

-----------------------------------------------------------------------------
\* The type invariant, for both modes and any number of slots and threads.
THEOREM TypeCorrect == Spec => []TypeOK
<1>1. IInv => TypeOK
  BY DEF IInv
<1> QED
  BY <1>1, Inductive, PTL

\* However many threads release or enqueue at once, no command is executed twice
\* or put together of two: the valid bit or the read trigger hands over a slot
\* that is complete, and the allocation gives it out again only afterwards.
THEOREM ExecutesIntactAndOnce == Spec => []IntactAndOnce
<1>1. IInv => IntactAndOnce
  BY DEF IInv, Once, IntactAndOnce
<1> QED
  BY <1>1, Inductive, PTL

\* The ring in array mode implements the tickets (their safety part): never more
\* commands wait than there are slots, each is executed at most once.
THEOREM ImplementsTickets == Spec => Abstract!Spec
<1>1. Init => Abstract!Init
  BY DEF Init, Abstract!Init
<1> QED
  BY <1>1, Inductive, StepRefines, PTL DEF Spec, Abstract!Spec
=============================================================================
