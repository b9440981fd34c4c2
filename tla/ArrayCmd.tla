------------------------------ MODULE ArrayCmd ------------------------------
(***************************************************************************)
(* Commands in array mode: qbman_swp_release (the release ring, RCR) and   *)
(* qbman_swp_enqueue with qman_eqcr_vb_array (the enqueue ring, EQCR).     *)
(*                                                                         *)
(* A read of the allocation register (RAR, EQAR) allots a slot of the ring *)
(* and the valid bit to use there, or reports that there is none.  The     *)
(* driver keeps no state of its own: the calls of several threads          *)
(* interleave freely, each in its own slot.  In direct mode QMan takes a   *)
(* slot when it sees the valid bit in word 0, in memory-backed mode when   *)
(* the slot's read trigger register is written.                            *)
(*                                                                         *)
(* The module stands for either ring.  A command is known by its number;   *)
(* it consists of word 0 (for a release: bpid and number of buffers) and   *)
(* the rest (the buffers).                                                 *)
(***************************************************************************)
EXTENDS Integers

CONSTANTS
  Threads,
  NumSlots,   \* slots of the ring: 8, for EQCR in memory-backed mode 32
  MaxCmds     \* commands in all; bounds the model

ASSUME ArrayAssumption == NumSlots \in Nat \ {0} /\ MaxCmds \in Nat

VARIABLES
  mem_back,  \* memory-backed mode?
  th,        \* thread -> the call it is in
  cpu,       \* the ring as software wrote it
  stores,    \* slot -> parts of it written but not yet visible to QMan
  ring,      \* the ring as QMan sees it
  trigger,   \* slots whose read trigger register was written
  slot_vb,   \* the valid bit last allotted for each slot
  allotted,  \* slots allotted and not yet executed
  cmds,      \* commands accepted so far
  torn,      \* has QMan executed a command put together of two? (history)
  runs       \* command -> how often QMan has executed it intact (history)

memory == <<cpu, stores, ring>>
vars == <<mem_back, th, memory, trigger, slot_vb, allotted, cmds, torn, runs>>

-----------------------------------------------------------------------------
(* Broken variants of definitions (names with an underscore) stand before them. *)

Slots == 0 .. NumSlots - 1
Bits  == {0, 1}
Idle  == [pc |-> "idle", slot |-> 0, vb |-> 0, cmd |-> 0]

Init ==
  /\ mem_back \in BOOLEAN
  /\ th = [t \in Threads |-> Idle]
  /\ stores = [s \in Slots |-> {}]
  /\ cpu = [s \in Slots |-> [body |-> 0, word0 |-> 0, vb |-> 0]]
  /\ ring = cpu
  /\ trigger = {} /\ slot_vb = [s \in Slots |-> 0] /\ allotted = {}
  /\ cmds = 0 /\ torn = FALSE
  /\ runs = [c \in 1..MaxCmds |-> 0]

Goto(t, pc) == th' = [th EXCEPT ![t].pc = pc]

ReadAllocation_IgnoresSuccess(t) ==
  /\ th[t].pc = "idle" /\ cmds < MaxCmds
  /\ cmds' = cmds + 1
  /\ \E s \in 0..NumSlots :
       /\ th' = [th EXCEPT ![t] = [pc |-> "body", slot |-> s, vb |-> 1,
                                   cmd |-> cmds + 1]]
       /\ s \notin allotted
       /\ IF s \in Slots THEN /\ allotted' = allotted \cup {s}
                              /\ slot_vb' = [slot_vb EXCEPT ![s] = 1 - @]
          ELSE allotted = Slots /\ UNCHANGED <<allotted, slot_vb>>
  /\ UNCHANGED <<mem_back, memory, trigger, torn, runs>>

\* The read of RAR or EQAR that succeeds; one that does not makes the call
\* return -EBUSY, without effect.
ReadAllocation(t) ==
  /\ th[t].pc = "idle" /\ cmds < MaxCmds
  /\ cmds' = cmds + 1
  /\ \E s \in Slots \ allotted :
       /\ allotted' = allotted \cup {s}
       /\ slot_vb' = [slot_vb EXCEPT ![s] = 1 - @]
       /\ th' = [th EXCEPT ![t] = [pc |-> "body", slot |-> s, vb |-> 1 - slot_vb[s],
                                   cmd |-> cmds + 1]]
  /\ UNCHANGED <<mem_back, memory, trigger, torn, runs>>

release(t)            == ReadAllocation(t)
enqueue_array_mode(t) == ReadAllocation(t)

-----------------------------------------------------------------------------
(* A store to a part of a slot: "body" is everything but word 0. *)
Store(s, part, slot) ==
  /\ cpu' = [cpu EXCEPT ![s] = slot]
  /\ stores' = [stores EXCEPT ![s] = @ \cup {part}]

WriteBody(t) ==
  LET s == th[t].slot
  IN /\ th[t].pc = "body"
     /\ Store(s, "body", [cpu[s] EXCEPT !.body = th[t].cmd])
     /\ Goto(t, "word0")
     /\ UNCHANGED <<mem_back, ring, trigger, slot_vb, allotted, cmds, torn, runs>>

WriteWord0_NoBarrier(t) ==
  LET s == th[t].slot
  IN /\ th[t].pc = "word0"
     /\ Store(s, "word0", [cpu[s] EXCEPT !.word0 = th[t].cmd, !.vb = th[t].vb])
     /\ Goto(t, IF mem_back THEN "trigger" ELSE "flush")
     /\ UNCHANGED <<mem_back, ring, trigger, slot_vb, allotted, cmds, torn, runs>>

WriteWord0_OldBit(t) ==
  LET s == th[t].slot
  IN /\ th[t].pc = "word0"
     /\ mem_back \/ stores[s] = {}
     /\ Store(s, "word0", [cpu[s] EXCEPT !.word0 = th[t].cmd, !.vb = 1])
     /\ Goto(t, IF mem_back THEN "trigger" ELSE "flush")
     /\ UNCHANGED <<mem_back, ring, trigger, slot_vb, allotted, cmds, torn, runs>>

\* In direct mode behind a barrier, which the thread's own stores do not pass.
WriteWord0(t) ==
  LET s == th[t].slot
  IN /\ th[t].pc = "word0"
     /\ mem_back \/ stores[s] = {}
     /\ Store(s, "word0", [cpu[s] EXCEPT !.word0 = th[t].cmd, !.vb = th[t].vb])
     /\ Goto(t, IF mem_back THEN "trigger" ELSE "flush")
     /\ UNCHANGED <<mem_back, ring, trigger, slot_vb, allotted, cmds, torn, runs>>

\* Direct mode: dcbf of the slot, and the call returns 0.
Flush(t) ==
  LET s == th[t].slot
  IN /\ th[t].pc = "flush"
     /\ ring' = [ring EXCEPT ![s] = cpu[s]]
     /\ stores' = [stores EXCEPT ![s] = {}]
     /\ th' = [th EXCEPT ![t] = Idle]
     /\ UNCHANGED <<mem_back, cpu, trigger, slot_vb, allotted, cmds, torn, runs>>

\* Memory-backed mode: a barrier, the slot's read trigger register, return 0.
WriteTrigger(t) ==
  LET s == th[t].slot
  IN /\ th[t].pc = "trigger"
     /\ stores[s] = {}
     /\ trigger' = trigger \cup {s}
     /\ th' = [th EXCEPT ![t] = Idle]
     /\ UNCHANGED <<mem_back, memory, slot_vb, allotted, cmds, torn, runs>>

-----------------------------------------------------------------------------
(* Memory: an issued store becomes visible to QMan. *)

Drain(s, part) ==
  /\ part \in stores[s]
  /\ ring' = [ring EXCEPT ![s] =
                IF part = "body" THEN [@ EXCEPT !.body = cpu[s].body]
                ELSE [@ EXCEPT !.word0 = cpu[s].word0, !.vb = cpu[s].vb]]
  /\ stores' = [stores EXCEPT ![s] = @ \ {part}]
  /\ UNCHANGED <<mem_back, th, cpu, trigger, slot_vb, allotted, cmds, torn, runs>>

(* QMan executes an allotted slot that was handed over, in any order. *)

Execute(s) ==
  /\ s \in allotted
  /\ IF mem_back THEN s \in trigger ELSE ring[s].vb = slot_vb[s]
  /\ allotted' = allotted \ {s}
  /\ trigger' = trigger \ {s}
  /\ IF ring[s].body = ring[s].word0 /\ ring[s].body > 0
       THEN runs' = [runs EXCEPT ![ring[s].body] = @ + 1] /\ UNCHANGED torn
       ELSE torn' = TRUE /\ UNCHANGED runs
  /\ UNCHANGED <<mem_back, th, memory, slot_vb, cmds>>

-----------------------------------------------------------------------------
Call(t) == release(t) \/ enqueue_array_mode(t)

Step(t) == WriteBody(t) \/ WriteWord0(t) \/ Flush(t) \/ WriteTrigger(t)

Memory == \E s \in Slots, part \in {"body", "word0"} : Drain(s, part)

QMan == \E s \in Slots : Execute(s)

Next == Memory \/ QMan \/ \E t \in Threads : Call(t) \/ Step(t)

Spec == Init /\ [][Next]_vars

\* A call once begun runs to its end, stores reach memory, QMan executes.
FairSpec == /\ Spec
            /\ \A t \in Threads : WF_vars(Step(t))
            /\ WF_vars(Memory) /\ WF_vars(QMan)

-----------------------------------------------------------------------------
(* Properties. *)

Cmds == 0..MaxCmds
SlotState == [body : Cmds, word0 : Cmds, vb : Bits]

\* The type invariant.
TypeOK ==
  /\ mem_back \in BOOLEAN
  /\ th \in [Threads -> [pc : {"idle", "body", "word0", "flush", "trigger"},
                         slot : Slots, vb : Bits, cmd : Cmds]]
  /\ cpu \in [Slots -> SlotState] /\ ring \in [Slots -> SlotState]
  /\ stores \in [Slots -> SUBSET {"body", "word0"}]
  /\ trigger \subseteq Slots /\ slot_vb \in [Slots -> Bits] /\ allotted \subseteq Slots
  /\ cmds \in Cmds /\ torn \in BOOLEAN /\ runs \in [1..MaxCmds -> Nat]

\* Whatever the interleaving of the threads with QMan, no command is executed
\* twice and none is put together of two: buffers are released once, and those
\* that were in the call.
IntactAndOnce == ~torn /\ \A c \in 1..MaxCmds : runs[c] <= 1

\* The slots keep the promise of the tickets: no more commands wait than there
\* are slots, and one that was accepted is executed, in any order, and never left
\* behind, however often the slots have been used before.
Abstract == INSTANCE Tickets WITH
  Capacity <- NumSlots, accepted <- cmds,
  executed <- {c \in 1..MaxCmds : runs[c] > 0}
TicketSpec == Abstract!FairSpec
=============================================================================
