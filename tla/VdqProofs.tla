------------------------------ MODULE VdqProofs -----------------------------
(***************************************************************************)
(* Proofs about Vdq, for every number of threads, buffers, frames and      *)
(* commands.                                                               *)
(*                                                                         *)
(* Whoever is to give vdq.busy back has the right to do so: the thread     *)
(* that submits, the command that storage points to and of which no result *)
(* was compared yet (Armed), the thread that has compared it, or a command *)
(* into DQRR whose last result was not returned.  The inductive invariant  *)
(* IInv says that at most one has the right, that vdq.busy counts it, and  *)
(* that it is missing only once a late store of NULL to vdq.storage has    *)
(* taken it away (lost): then nobody gets it again.                        *)
(*                                                                         *)
(* Vdq also implements Pulls.  That needs, in InFlight, which command has  *)
(* the right (the one issued last) and the results that are still to be    *)
(* fetched, in buffers and in DQRR.                                        *)
(***************************************************************************)
EXTENDS Vdq, FiniteSetTheorems, TLAPS

CallType == [pc : {"idle", "won", "undo", "write", "clear", "compare", "null", "inc"},
             dest : Dests,
             api : {"none", "pull", "has_new", "complete", "check_new"}]

\* TypeOK without the bounds of busy, which follow from the invariant.
Types ==
  /\ busy \in Int /\ valid_bit \in {0, 1} /\ storage \in Dests
  /\ unseen \in [Threads -> Dests] /\ th \in [Threads -> CallType]
  /\ cells \in [Buffers -> [1..MaxNumf -> [tok : {0, Token}, cmd : 0..MaxCmds,
                                          last : BOOLEAN]]]
  /\ user \in [Buffers -> [cmd : 0..MaxCmds, next : 1..MaxNumf, released : BOOLEAN]]
  /\ dqrr \in Seq([cmd : 1..MaxCmds, n : 1..MaxNumf, expired : BOOLEAN])
  /\ vdqcr \in [vb : {0, 1}, cmd : Commands \cup {None}]
  /\ hw \in [vb : {0, 1}, cmd : Commands \cup {None}, written : 0 .. MaxNumf - 1]
  /\ cmds \in 0..MaxCmds /\ lost \in BOOLEAN
  /\ body \in Commands \cup {None}

Submitting(t) == th[t].pc \in {"won", "undo", "write"}
Polling(t) == th[t].pc \in {"clear", "compare", "null", "inc"}

\* The right to give vdq back, and how vdq.busy counts it.
OneRight ==
  /\ \A t, u \in Threads : ByThread(t) /\ ByThread(u) => t = u
  /\ \A t \in Threads : ByThread(t) => ~DqrrOpen /\ \A b \in Buffers : ~Armed(b)
  /\ \A b \in Buffers : Armed(b) => ~DqrrOpen

\* Once the right is lost, nobody gets it again, but for a thread that submits and
\* whose pointer was wiped out.  Before that, the pointer is there.
LostAlone ==
  lost => /\ \A t \in Threads :
               ByThread(t) => th[t].pc = "write" /\ storage = NULL /\ th[t].dest # NULL
          /\ ~DqrrOpen /\ \A b \in Buffers : ~Armed(b)
Kept == ~lost => \A t \in Threads : th[t].pc = "write" => storage = th[t].dest

\* If qbman_check_command_complete has returned without having released vdq, its
\* thread has seen its own NULL for another buffer, which is not yet visible.
Overlooked ==
  \A b \in Buffers : Armed(b) /\ user[b].released
    => \E t \in Threads : unseen[t] \notin {NULL, b}

PendingHeld == \A b \in Buffers : PendingOn(b) => Armed(b) \/ lost

Rights == OneRight /\ BusyAccounted /\ LostAlone /\ Kept /\ Overlooked /\ PendingHeld

\* The body of the command, which QMan sees before word 0.
NextCmd(t) == [id |-> cmds + 1, dest |-> th[t].dest]
Bodies ==
  /\ body # None => \E t \in Threads : th[t].pc = "write"
  /\ \A t \in Threads : th[t].pc = "write" =>
       IF body = None THEN vdqcr.cmd = NextCmd(t) ELSE body = NextCmd(t)

\* What a thread in a call knows.
CallOk(t) ==
  /\ th[t].pc = "idle" => th[t].dest = NULL
  /\ Submitting(t) /\ th[t].dest # NULL => user[th[t].dest] = Free
  /\ th[t].pc \in {"won", "write"} => cmds < MaxCmds /\ ~Pending
  /\ Polling(t) => /\ th[t].dest \in Buffers /\ user[th[t].dest].cmd # 0
                   /\ ~PendingOn(th[t].dest)
                   /\ (th[t].pc = "clear" => th[t].api \in {"has_new", "check_new"})
                   /\ (th[t].pc # "clear" => th[t].api \in {"has_new", "complete"})
                   /\ (th[t].api = "check_new" =>
                        user[th[t].dest].released \/ user[th[t].dest].next > 1)
  /\ th[t].pc \in {"null", "inc"} => user[th[t].dest].next = 1
  /\ unseen[t] # NULL => th[t].pc \in {"idle", "clear", "compare", "inc"}
  /\ th[t].pc = "inc" /\ unseen[t] # NULL => unseen[t] = th[t].dest
  /\ th[t].pc = "inc" /\ unseen[t] = NULL => storage # th[t].dest
Calls == \A t \in Threads : CallOk(t)

\* The entry that a thread looks at.
LookOk(t, b) ==
  /\ Entry(b).cmd = user[b].cmd
  /\ th[t].pc # "clear" /\ th[t].api = "has_new" => Entry(b).tok = 0
  /\ ~Entry(b).last => user[b].next < MaxNumf
  /\ Entry(b).last => \A j \in 1..MaxNumf : j > user[b].next => cells[b][j].tok = 0
  /\ HwOn(b) => user[b].next <= hw.written /\ ~Entry(b).last
Looks == \A t \in Threads : Polling(t) => LookOk(t, th[t].dest)

\* A buffer is in use by one thread at a time.
Apart ==
  \A t, u \in Threads : \A b \in Buffers :
    t # u /\ (th[t].dest = b \/ unseen[t] = b) => th[u].dest # b /\ unseen[u] # b

\* Results that wait in a buffer are of its command, the last one behind the others.
WaitOk(b, j) ==
  cells[b][j].tok # 0 =>
    /\ j >= user[b].next /\ user[b].cmd # 0 /\ cells[b][j].cmd = user[b].cmd
    /\ ~cells[b][j].last => j < MaxNumf
    /\ cells[b][j].last => \A i \in 1..MaxNumf : i > j => cells[b][i].tok = 0
    /\ ~PendingOn(b)
    /\ HwOn(b) => j <= hw.written /\ ~cells[b][j].last
Waiting == \A b \in Buffers : \A j \in 1..MaxNumf : WaitOk(b, j)

\* The commands in the register and in QMan.
FlowOk(b) ==
  /\ user[b].cmd = 0 => user[b] = Free
  /\ HwOn(b) => user[b].cmd = hw.cmd.id /\ user[b].next <= hw.written + 1
  /\ PendingOn(b) => user[b].cmd = vdqcr.cmd.id /\ user[b].next = 1 /\ ~HwOn(b)
Flow ==
  /\ vdqcr.vb = 1 - valid_bit
  /\ Pending => vdqcr.cmd # None
  /\ \A b \in Buffers : FlowOk(b)
  /\ ~(PendingOn(NULL) /\ HwOn(NULL))
  /\ Expired => ~PendingOn(NULL) /\ ~HwOn(NULL)
  /\ \A k \in 1..Len(dqrr) : dqrr[k].expired => k = Len(dqrr)

IInv == Types /\ Rights /\ Bodies /\ Calls /\ Looks /\ Apart /\ Waiting /\ Flow

-----------------------------------------------------------------------------
\* Commands and where they go.
LEMMA CmdFacts ==
  ASSUME Types
  PROVE  /\ vdqcr.cmd.dest \in Dests /\ hw.cmd.dest \in Dests /\ NULL \in Dests
         /\ None \notin Commands /\ None.dest = NULL
         /\ hw.cmd # None => hw.cmd \in Commands
         /\ \A b \in Buffers : b \in Dests /\ b # NULL
         /\ MaxNumf \in Nat /\ 1 \in 1..MaxNumf /\ MaxCmds \in Nat
         /\ hw.vb \in {0, 1} /\ vdqcr.vb \in {0, 1} /\ hw.written \in 0 .. MaxNumf - 1
<1>1. None \notin Commands /\ None.dest = NULL
  BY DEF None, Commands
<1>2. vdqcr.cmd \in Commands \cup {None} /\ hw.cmd \in Commands \cup {None}
      /\ hw.vb \in {0, 1} /\ vdqcr.vb \in {0, 1} /\ hw.written \in 0 .. MaxNumf - 1
  BY DEF Types
<1>3. \A c \in Commands : c.dest \in Dests
  BY DEF Commands
<1>4. NULL \in Dests /\ (\A b \in Buffers : b \in Dests /\ b # NULL)
      /\ MaxNumf \in Nat /\ 1 \in 1..MaxNumf /\ MaxCmds \in Nat
  BY VdqAssumption DEF Dests
<1> QED
  BY <1>1, <1>2, <1>3, <1>4

\* Threads that undo their decrement: finitely many.
LEMMA UndoFacts ==
  /\ IsFiniteSet(Undo) /\ Cardinality(Undo) \in Nat
  /\ Cardinality(Undo) <= Cardinality(Threads) /\ Cardinality(Threads) \in Nat
BY VdqAssumption, FS_Subset, FS_CardinalityType DEF Undo

\* A thread goes on in its call, or its call ends.
LEMMA GotoIs ==
  ASSUME Types, NEW t \in Threads,
         NEW pc \in {"idle", "won", "undo", "write", "clear", "compare", "null", "inc"},
         Goto(t, pc)
  PROVE  /\ th' \in [Threads -> CallType]
         /\ th'[t].pc = pc /\ th'[t].dest = th[t].dest /\ th'[t].api = th[t].api
         /\ \A u \in Threads \ {t} : th'[u] = th[u]
BY ZenonT(60) DEF Goto, Types, CallType

LEMMA DoneIs ==
  ASSUME Types, NEW t \in Threads, Done(t)
  PROVE  /\ th' \in [Threads -> CallType]
         /\ th'[t].pc = "idle" /\ th'[t].dest = NULL /\ th'[t].api = "none"
         /\ \A u \in Threads \ {t} : th'[u] = th[u]
BY DEF Done, Idle, Types, CallType, Dests

\* The user has an entry, or knows that its command executes.
LEMMA ReturnIs ==
  ASSUME Types, NEW t \in Threads, PollReturn(t), th[t].dest \in Buffers,
         ~Entry(th[t].dest).last => user[th[t].dest].next < MaxNumf
  PROVE  LET b == th[t].dest IN
         /\ th' \in [Threads -> CallType]
         /\ th'[t].pc = "idle" /\ th'[t].dest = NULL /\ th'[t].api = "none"
         /\ \A u \in Threads \ {t} : th'[u] = th[u]
         /\ user' \in [Buffers -> [cmd : 0..MaxCmds, next : 1..MaxNumf, released : BOOLEAN]]
         /\ \A c \in Buffers \ {b} : user'[c] = user[c]
         /\ IF th[t].api = "complete"
              THEN user'[b].cmd = user[b].cmd /\ user'[b].next = user[b].next
                   /\ lost' = lost
              ELSE /\ IF Entry(b).last THEN user'[b] = Free
                      ELSE user'[b].cmd = user[b].cmd /\ user'[b].next = user[b].next + 1
                   /\ lost' = (lost \/ Armed(b))
<1> DEFINE b == th[t].dest
           U == [cmd : 0..MaxCmds, next : 1..MaxNumf, released : BOOLEAN]
<1>1. Done(t) /\ user \in [Buffers -> U] /\ user[b] \in U
  BY DEF PollReturn, Types
<1>2. CASE th[t].api = "complete"
  <2> DEFINE y == [user[b] EXCEPT !.released = (user[b].next = 1)]
  <2>1. user' = [user EXCEPT ![b] = y] /\ lost' = lost
    BY <1>2 DEF PollReturn
  <2>2. y \in U /\ y.cmd = user[b].cmd /\ y.next = user[b].next
    BY <1>1
  <2> HIDE DEF y
  <2> QED
    BY <1>1, <1>2, <2>1, <2>2, DoneIs
<1>3. CASE th[t].api # "complete" /\ Entry(b).last
  <2>1. user' = [user EXCEPT ![b] = Free] /\ lost' = (lost \/ Armed(b))
    BY <1>3 DEF PollReturn, Advance
  <2>2. Free \in U
    BY CmdFacts DEF Free
  <2> QED
    BY <1>1, <1>3, <2>1, <2>2, DoneIs
<1>4. CASE th[t].api # "complete" /\ ~Entry(b).last
  <2> DEFINE y == [cmd |-> user[b].cmd, next |-> user[b].next + 1, released |-> FALSE]
  <2>1. user' = [user EXCEPT ![b] = y] /\ lost' = (lost \/ Armed(b))
    BY <1>4 DEF PollReturn, Advance
  <2>2. user[b].next + 1 \in 1..MaxNumf
    BY <1>1, <1>4, CmdFacts
  <2>3. y \in U /\ y.cmd = user[b].cmd /\ y.next = user[b].next + 1
    BY <1>1, <2>2
  <2> HIDE DEF y
  <2> QED
    BY <1>1, <1>4, <2>1, <2>3, DoneIs
<1> QED
  BY <1>2, <1>3, <1>4

-----------------------------------------------------------------------------
\* A thread that submits is left alone.
SameWriter == \A u \in Threads :
  th'[u] = th[u] \/ (th[u].pc # "write" /\ th'[u].pc # "write")

LEMMA SameBodies ==
  ASSUME IInv, UNCHANGED <<vdqcr, body, cmds>>, SameWriter PROVE Bodies'
<1>1. \A t \in Threads : (th'[t].pc = "write") <=> (th[t].pc = "write")
  BY DEF SameWriter
<1>2. \A t \in Threads : th[t].pc = "write" => NextCmd(t)' = NextCmd(t)
  BY DEF SameWriter, NextCmd
<1> QED
  BY <1>1, <1>2 DEF IInv, Bodies

\* The steps that give no right to anybody, and take one away at most by a late NULL.
LEMMA FewerRights ==
  ASSUME IInv, busy \in Int, busy' \in Int,
         \A t \in Threads : ByThread(t)' <=> ByThread(t),
         \A b \in Buffers : Armed(b)' => Armed(b),
         DqrrOpen' <=> DqrrOpen,
         busy' + Cardinality(Undo)' = busy + Cardinality(Undo),
         Cardinality(Undo)' \in Nat,
         \A b \in Buffers : PendingOn(b)' => PendingOn(b),
         lost => lost', lost' => lost \/ Right,
         \A b \in Buffers : Armed(b) => Armed(b)' \/ lost',
         LostAlone', Kept', Overlooked'
  PROVE  Rights'
<1>1. OneRight'
  BY DEF IInv, Rights, OneRight
<1>2. (Right' \/ lost') <=> (Right \/ lost)
  BY DEF Right
<1>3. Cardinality(Undo) \in Nat
  BY UndoFacts
<1>4. BusyAccounted'
  BY <1>2, <1>3 DEF IInv, Rights, BusyAccounted
<1>5. PendingHeld'
  BY DEF IInv, Rights, PendingHeld
<1> QED
  BY <1>1, <1>4, <1>5 DEF Rights

\* ... and those that leave vdq.storage and who is to compare with it alone.
LEMMA SameRights ==
  ASSUME IInv, busy \in Int, busy' \in Int,
         UNCHANGED <<storage, unseen, lost>>, SameWriter,
         \A t \in Threads : ByThread(t)' <=> ByThread(t),
         \A b \in Buffers : Armed(b)' <=> Armed(b),
         \A b \in Buffers : Armed(b) /\ user'[b].released => user[b].released,
         DqrrOpen' <=> DqrrOpen,
         busy' + Cardinality(Undo)' = busy + Cardinality(Undo),
         Cardinality(Undo)' \in Nat,
         \A b \in Buffers : PendingOn(b)' => PendingOn(b)
  PROVE  Rights'
<1>1. \A t \in Threads : (th'[t].pc = "write") <=> (th[t].pc = "write")
  BY DEF SameWriter
<1>2. \A t \in Threads : th[t].pc = "write" => th'[t] = th[t]
  BY DEF SameWriter
<1>3. LostAlone'
  BY <1>2 DEF IInv, Rights, LostAlone
<1>4. Kept'
  BY <1>1, <1>2 DEF IInv, Rights, Kept
<1>5. Overlooked'
  BY DEF IInv, Rights, Overlooked
<1> QED
  BY <1>3, <1>4, <1>5, FewerRights

\* The right is used: vdq.busy is given back.
LEMMA Released ==
  ASSUME IInv, Right, ~Right', busy' = busy + 1, Undo' = Undo, ~lost, ~lost',
         \A b \in Buffers : PendingOn(b)' => PendingOn(b) /\ ~Armed(b)
  PROVE  Rights'
<1>1. busy = 1 - 1 - Cardinality(Undo) /\ Cardinality(Undo) \in Nat /\ busy \in Int
  BY UndoFacts DEF IInv, Types, Rights, BusyAccounted
<1>2. busy' = 1 - 0 - Cardinality(Undo)
  BY <1>1
<1>3. BusyAccounted'
  BY <1>2 DEF BusyAccounted
<1>4. OneRight' /\ LostAlone' /\ Overlooked'
  BY DEF OneRight, Right, LostAlone, Overlooked
<1>5. Kept'
  BY DEF Right, Kept, ByThread
<1>6. \A b \in Buffers : ~PendingOn(b)'
  BY DEF IInv, Rights, PendingHeld
<1> QED
  BY <1>3, <1>4, <1>5, <1>6 DEF Rights, PendingHeld

-----------------------------------------------------------------------------
LEMMA InitIInv == Init => IInv
<1> SUFFICES ASSUME Init PROVE IInv
  OBVIOUS
<1> USE CmdFacts
<1>1. Types
  <2>1. dqrr \in Seq([cmd : 1..MaxCmds, n : 1..MaxNumf, expired : BOOLEAN])
    BY DEF Init
  <2>2. 0 \in 0..MaxCmds /\ 0 \in 0 .. MaxNumf - 1 /\ 1 \in 1..MaxNumf /\ NULL \in Dests
    BY VdqAssumption DEF Dests
  <2> QED
    <3> HIDE DEF None
    <3>1. /\ busy \in Int /\ valid_bit \in {0, 1} /\ storage \in Dests
          /\ cmds \in 0..MaxCmds /\ lost \in BOOLEAN /\ body \in Commands \cup {None}
      <4>1. busy = 1 /\ valid_bit = 1 /\ storage = NULL /\ cmds = 0
        BY DEF Init
      <4>2. lost = FALSE /\ body = None
        BY DEF Init
      <4>3. lost \in BOOLEAN /\ body \in Commands \cup {None}
        BY <4>2
      <4> QED
        BY <2>2, <4>1, <4>3
    <3>7. unseen \in [Threads -> Dests]
      BY <2>2 DEF Init
    <3>6. th \in [Threads -> CallType]
      <4>1. Idle \in CallType
        BY <2>2 DEF CallType, Idle
      <4> QED
        BY <4>1 DEF Init
    <3>2. vdqcr \in [vb : {0, 1}, cmd : Commands \cup {None}]
      BY DEF Init
    <3>3. hw \in [vb : {0, 1}, cmd : Commands \cup {None}, written : 0 .. MaxNumf - 1]
      BY <2>2 DEF Init
    <3>4. cells \in [Buffers -> [1..MaxNumf -> [tok : {0, Token}, cmd : 0..MaxCmds,
                                                last : BOOLEAN]]]
      BY <2>2 DEF Init
    <3>5. user \in [Buffers -> [cmd : 0..MaxCmds, next : 1..MaxNumf, released : BOOLEAN]]
      BY <2>2 DEF Init, Free
    <3> QED
      BY <2>1, <3>1, <3>2, <3>3, <3>4, <3>5, <3>6, <3>7 DEF Types
<1>2. /\ \A t \in Threads : th[t].pc = "idle" /\ th[t].dest = NULL /\ unseen[t] = NULL
      /\ \A b \in Buffers : user[b] = Free /\ user[b].cmd = 0 /\ b # NULL
      /\ \A b \in Buffers : \A j \in 1..MaxNumf : cells[b][j].tok = 0
      /\ ~Pending /\ hw.cmd = None /\ dqrr = <<>>
  BY VdqAssumption DEF Init, Idle, Free, Pending
<1>3. Undo = {} /\ Cardinality(Undo) = 0
  <2>1. Undo = {}
    BY <1>2 DEF Undo
  <2> QED
    BY <2>1, FS_EmptySet
<1>4. ~Right /\ OneRight
  BY <1>2 DEF Right, OneRight, ByThread, Armed, DqrrOpen, PendingOn, HwOn, Expired
<1>5. Rights
  BY <1>2, <1>3, <1>4 DEF Rights, BusyAccounted, PendingHeld, PendingOn, Init, LostAlone,
                          Kept, Overlooked, Right
<1>6. Calls /\ Looks
  BY <1>2 DEF Calls, CallOk, Looks, Submitting, Polling
<1>7. Apart /\ Waiting
  BY <1>2 DEF Apart, Waiting, WaitOk
<1>8. Flow
  BY <1>2 DEF Flow, FlowOk, PendingOn, HwOn, Expired, Init
<1>9. Bodies
  BY <1>2 DEF Bodies, Init
<1> QED
  BY <1>1, <1>5, <1>6, <1>7, <1>8, <1>9 DEF IInv

\* Steps that leave the data of the commands alone.
LEMMA SameData ==
  ASSUME IInv, UNCHANGED <<valid_bit, cells, user, dqrr, vdqcr, hw, cmds>>
  PROVE  /\ Waiting' /\ Flow' /\ (Pending' <=> Pending)
         /\ \A d \in Dests : (PendingOn(d)' <=> PendingOn(d)) /\ (HwOn(d)' <=> HwOn(d))
         /\ \A b \in Buffers : Entry(b)' = Entry(b)
         /\ DqrrOpen' <=> DqrrOpen
BY DEF IInv, Waiting, WaitOk, Flow, FlowOk, Pending, PendingOn, HwOn, Expired, Entry,
       DqrrOpen

\* What a thread in a call knows stays true as long as nothing it is about changes.
LEMMA CallStays ==
  ASSUME NEW t \in Threads, CallOk(t), th'[t] = th[t], unseen'[t] = unseen[t],
         th[t].dest # NULL => user'[th[t].dest] = user[th[t].dest],
         th[t].pc \in {"won", "write"} => cmds' = cmds /\ (Pending' => Pending),
         th[t].dest # NULL /\ Polling(t) =>
           \A d \in Dests : d = th[t].dest => (PendingOn(d)' => PendingOn(d)),
         th[t].pc = "inc" => storage' = storage \/ storage' # th[t].dest,
         NULL \notin Buffers, Buffers \subseteq Dests
  PROVE  CallOk(t)'
<1>1. (Submitting(t)' <=> Submitting(t)) /\ (Polling(t)' <=> Polling(t))
  BY DEF Submitting, Polling
<1>2. Polling(t) => ~PendingOn(th[t].dest)'
  BY DEF CallOk, PendingOn, Pending
<1>3. Polling(t) => th[t].dest \in Buffers /\ th[t].dest # NULL
  BY DEF CallOk
<1>4. Pending' => Pending \/ th[t].pc \notin {"won", "write"}
  OBVIOUS
<1>5. th[t].pc \in {"null", "inc"} => Polling(t)
  BY DEF Polling
<1> HIDE DEF Polling, Submitting, Pending, PendingOn
<1> QED
  BY <1>1, <1>2, <1>3, <1>4, <1>5 DEF CallOk, Free

LEMMA LookStays ==
  ASSUME NEW t \in Threads, NEW b \in Buffers, LookOk(t, b),
         user'[b] = user[b], cells'[b] = cells[b], th'[t].api = th[t].api,
         th[t].pc = "clear" => th'[t].pc = "clear" \/ th[t].api # "has_new",
         HwOn(b)' => HwOn(b) /\ hw'.written = hw.written
  PROVE  LookOk(t, b)'
BY DEF LookOk, Entry

LEMMA StutterIInv == IInv /\ UNCHANGED vars => IInv'
<1> SUFFICES ASSUME IInv, UNCHANGED vars PROVE IInv'
  OBVIOUS
<1> USE DEF vars
<1>1. Types'
  BY DEF IInv, Types
<1>2. Undo' = Undo
  BY DEF Undo
<1>3. /\ Waiting' /\ Flow' /\ (Pending' <=> Pending)
      /\ \A d \in Dests : (PendingOn(d)' <=> PendingOn(d)) /\ (HwOn(d)' <=> HwOn(d))
      /\ \A b \in Buffers : Entry(b)' = Entry(b)
      /\ DqrrOpen' <=> DqrrOpen
  BY SameData
<1>4. /\ \A t \in Threads : ByThread(t)' <=> ByThread(t)
      /\ \A b \in Buffers : Armed(b)' <=> Armed(b)
  BY DEF ByThread, Armed
<1>5. Rights'
  BY <1>2, <1>3, <1>4, SameRights, UndoFacts, CmdFacts DEF IInv, Types, SameWriter
<1>6. Calls'
  BY <1>3, CmdFacts DEF IInv, Calls, CallOk, Submitting, Polling, Types, CallType
<1>7. Looks'
  <2> SUFFICES ASSUME NEW t \in Threads, Polling(t)'
               PROVE  LookOk(t, th[t].dest)'
    BY DEF Looks
  <2>1. Polling(t) /\ LookOk(t, th[t].dest) /\ th[t].dest \in Buffers
    BY DEF IInv, Looks, Calls, CallOk, Polling
  <2>2. LookOk(t, th[t].dest)'
    BY <2>1, LookStays DEF HwOn
  <2> QED
    BY <2>2
<1>8. Apart' /\ Bodies'
  BY SameBodies DEF IInv, Apart, SameWriter
<1> QED
  BY <1>1, <1>3, <1>5, <1>6, <1>7, <1>8 DEF IInv

-----------------------------------------------------------------------------
\* What a step of one thread leaves to the others.
LEMMA OthersKeep ==
  ASSUME IInv, NEW t \in Threads, UNCHANGED <<vdqcr, hw, cmds>>,
         \A u \in Threads \ {t} : th'[u] = th[u] /\ unseen'[u] = unseen[u],
         \A u \in Threads \ {t} : \A b \in Buffers :
           th[u].dest = b => user'[b] = user[b] /\ cells'[b] = cells[b],
         \A u \in Threads \ {t} :
           th[u].pc = "inc" => storage' = storage \/ storage' # th[u].dest
  PROVE  \A u \in Threads \ {t} :
           CallOk(u)' /\ (Polling(u)' => LookOk(u, th[u].dest)')
<1> SUFFICES ASSUME NEW u \in Threads \ {t}
             PROVE  CallOk(u)' /\ (Polling(u)' => LookOk(u, th[u].dest)')
  OBVIOUS
<1>1. /\ CallOk(u) /\ (Polling(u) => LookOk(u, th[u].dest))
      /\ (Polling(u) => th[u].dest \in Buffers) /\ (Polling(u)' <=> Polling(u))
      /\ th[u].dest \in Dests
  BY DEF IInv, Calls, Looks, CallOk, Polling, Types, CallType
<1>2. NULL \notin Buffers /\ Buffers \subseteq Dests
  BY VdqAssumption DEF Dests
<1>3. /\ Pending' <=> Pending /\ \A d \in Dests : PendingOn(d)' <=> PendingOn(d)
      /\ \A b \in Buffers : HwOn(b)' <=> HwOn(b)
  BY DEF Pending, PendingOn, HwOn
<1>4. th[u].dest # NULL => user'[th[u].dest] = user[th[u].dest]
  BY <1>1 DEF Dests
<1>5. CallOk(u)'
  <2>1. th[u].pc \in {"won", "write"} => cmds' = cmds /\ (Pending' => Pending)
    BY <1>3
  <2>2. th[u].dest # NULL /\ Polling(u) =>
          \A d \in Dests : d = th[u].dest => (PendingOn(d)' => PendingOn(d))
    BY DEF PendingOn, Pending
  <2>3. th[u].pc = "inc" => storage' = storage \/ storage' # th[u].dest
    OBVIOUS
  <2>4. u \in Threads /\ th'[u] = th[u] /\ unseen'[u] = unseen[u]
    OBVIOUS
  <2> QED
    BY <1>1, <1>2, <1>4, <2>1, <2>2, <2>3, <2>4, CallStays
<1>6. ASSUME Polling(u) PROVE LookOk(u, th[u].dest)'
  <2> PICK b \in Buffers : b = th[u].dest
    BY <1>1, <1>6
  <2>1. LookOk(u, b)'
    BY <1>1, <1>3, <1>6, LookStays
  <2>2. th'[u].dest = b
    OBVIOUS
  <2> QED
    BY <2>1, <2>2
<1> QED
  BY <1>1, <1>5, <1>6

LEMMA PullUndoStep ==
  ASSUME IInv, NEW t \in Threads, PullUndo(t) PROVE IInv'
<1>1. /\ th' \in [Threads -> CallType]
      /\ th[t].pc = "undo" /\ th'[t].pc = "idle" /\ th'[t].dest = NULL
      /\ \A u \in Threads \ {t} : th'[u] = th[u]
      /\ CallOk(t) /\ unseen[t] = NULL
  BY DoneIs DEF IInv, PullUndo, Calls, CallOk
<1>2. /\ busy' = busy + 1
      /\ UNCHANGED <<valid_bit, storage, unseen, cells, user, dqrr, vdqcr, body, hw,
                     cmds, lost>>
  BY DEF PullUndo
<1>10. SameWriter
  BY <1>1 DEF SameWriter
<1>3. Cardinality(Undo)' = Cardinality(Undo) - 1 /\ Cardinality(Undo)' \in Nat
  <2>1. Undo' = Undo \ {t} /\ t \in Undo
    BY <1>1 DEF Undo
  <2>2. Cardinality(Undo') = Cardinality(Undo) - 1
    BY <2>1, UndoFacts, FS_RemoveElement
  <2>3. IsFiniteSet(Undo')
    BY <2>1, UndoFacts, FS_RemoveElement
  <2>4. Cardinality(Undo') \in Nat
    BY <2>3, FS_CardinalityType
  <2> QED
    BY <2>2, <2>4
<1>4. /\ \A u \in Threads : ByThread(u)' <=> ByThread(u)
      /\ \A b \in Buffers : Armed(b)' <=> Armed(b)
  BY <1>1, <1>2 DEF ByThread, Armed
<1>5. Types'
  BY <1>1, <1>2 DEF IInv, Types
<1>6. /\ Waiting' /\ Flow' /\ (DqrrOpen' <=> DqrrOpen)
      /\ \A b \in Buffers : (PendingOn(b)' <=> PendingOn(b))
  BY <1>2, SameData DEF Dests
<1>7. Rights'
  <2>1. busy' + Cardinality(Undo)' = busy + Cardinality(Undo)
    BY <1>2, <1>3, UndoFacts DEF IInv, Types
  <2>2. busy \in Int /\ busy' \in Int
    BY <1>2 DEF IInv, Types
  <2> QED
    BY <1>2, <1>3, <1>4, <1>6, <1>10, <2>1, <2>2, SameRights
<1>8. Calls' /\ Looks'
  <2>1. CallOk(t)' /\ ~Polling(t)'
    BY <1>1, <1>2 DEF CallOk, Submitting, Polling
  <2> QED
    BY <1>1, <1>2, <2>1, OthersKeep DEF Calls, Looks
<1>9. Apart' /\ Bodies'
  BY <1>1, <1>2, <1>10, SameBodies, VdqAssumption DEF IInv, Apart
<1> QED
  BY <1>5, <1>6, <1>7, <1>8, <1>9 DEF IInv

\* A NULL becomes visible: late, it may hit the storage of another command.
LEMMA StoreIsSeen ==
  ASSUME IInv, NEW t \in Threads, StoreSeen(t)
  PROVE  /\ storage' = IF unseen[t] # NULL THEN NULL ELSE storage
         /\ unseen' \in [Threads -> Dests] /\ unseen'[t] = NULL
         /\ \A u \in Threads \ {t} : unseen'[u] = unseen[u]
         /\ storage' \in Dests /\ lost' \in BOOLEAN
         /\ lost => lost'
         /\ unseen[t] = NULL => lost' = lost
         /\ lost' => lost \/ \E b \in Buffers : Armed(b) \/ Arming(b)
         /\ unseen[t] # NULL /\ (\E b \in Buffers : Armed(b) \/ Arming(b)) => lost'
<1>1. storage \in Dests /\ unseen \in [Threads -> Dests] /\ lost \in BOOLEAN /\ NULL \in Dests
  BY CmdFacts DEF IInv, Types
<1> QED
  BY <1>1 DEF StoreSeen, SeenStorage

\* If this does not change who submits or polls, the right is as before, or lost.
LEMMA SeenRights ==
  ASSUME IInv, busy \in Int, busy' \in Int, NEW t \in Threads, StoreSeen(t), SameWriter,
         user' = user, DqrrOpen' <=> DqrrOpen,
         \A u \in Threads : ByThread(u)' <=> ByThread(u),
         \A u \in Threads : /\ th'[u].pc \in {"null", "inc"} <=> th[u].pc \in {"null", "inc"}
                            /\ th[u].pc \in {"null", "inc"} => th'[u].dest = th[u].dest,
         busy' + Cardinality(Undo)' = busy + Cardinality(Undo),
         Cardinality(Undo)' \in Nat,
         \A b \in Buffers : PendingOn(b)' => PendingOn(b)
  PROVE  Rights'
<1>1. \A u \in Threads : (th'[u].pc = "write" <=> th[u].pc = "write")
                         /\ (th[u].pc = "write" => th'[u] = th[u])
  BY DEF SameWriter
<1>2. CASE unseen[t] = NULL
  <2>1. unseen' = unseen /\ storage' = storage /\ lost' = lost
    BY <1>2, StoreIsSeen DEF IInv, Types, StoreSeen, SeenStorage
  <2>2. \A b \in Buffers : Armed(b)' <=> Armed(b)
    BY <2>1 DEF Armed
  <2> QED
    BY <2>1, <2>2, SameRights
<1>3. CASE unseen[t] # NULL
  <2>1. storage' = NULL /\ (lost => lost')
        /\ (lost' <=> lost \/ \E b \in Buffers : Armed(b) \/ Arming(b))
    BY <1>3, StoreIsSeen
  <2>2. \A b \in Buffers : ~Armed(b)' /\ b # NULL
    BY <2>1, VdqAssumption DEF Armed
  <2>3. lost' => lost \/ Right
    BY <2>1 DEF Right, Arming, ByThread
  <2>4. LostAlone'
    <3> SUFFICES ASSUME lost' PROVE LostAlone'
      BY DEF LostAlone
    <3>1. CASE lost
      BY <1>1, <2>1, <2>2, <3>1 DEF IInv, Rights, LostAlone
    <3>2. ASSUME NEW b \in Buffers, Armed(b) PROVE LostAlone'
      <4>1. ~DqrrOpen /\ \A u \in Threads : ~ByThread(u)
        BY <3>2 DEF IInv, Rights, OneRight
      <4> QED
        BY <2>2, <4>1 DEF LostAlone
    <3>3. ASSUME NEW b \in Buffers, Arming(b) PROVE LostAlone'
      <4>1. PICK w \in Threads : th[w].pc = "write" /\ th[w].dest = b
        BY <3>3 DEF Arming
      <4>2. ~DqrrOpen /\ \A u \in Threads : ByThread(u) => u = w
        BY <4>1 DEF IInv, Rights, OneRight, ByThread
      <4>3. th'[w].pc = "write" /\ th'[w].dest = b /\ storage' = NULL /\ b # NULL
        BY <1>1, <2>1, <2>2, <4>1
      <4> QED
        BY <2>2, <4>2, <4>3 DEF LostAlone
    <3> QED
      BY <2>1, <3>1, <3>2, <3>3
  <2>5. Kept'
    <3> SUFFICES ASSUME ~lost', NEW w \in Threads, th'[w].pc = "write"
                 PROVE  storage' = th'[w].dest
      BY DEF Kept
    <3>1. ~lost /\ th[w].pc = "write" /\ th'[w] = th[w] /\ storage = th[w].dest
      BY <1>1, <2>1 DEF IInv, Rights, Kept
    <3>2. storage \notin Buffers
      BY <2>1, <3>1 DEF Arming
    <3>3. storage = NULL
      BY <3>2 DEF IInv, Types, Dests
    <3> QED
      BY <2>1, <3>1, <3>3
  <2>6. Overlooked'
    BY <2>2 DEF Overlooked
  <2> QED
    BY <2>1, <2>2, <2>3, <2>4, <2>5, <2>6, FewerRights
<1> QED
  BY <1>2, <1>3

\* The decrement of a pull, whose barrier makes its thread's NULL visible.
LEMMA PullDecStep ==
  ASSUME IInv, NEW t \in Threads, NEW dest \in Dests, PullDec(t, dest) PROVE IInv'
<1>0. Types
  BY DEF IInv
<1> USE <1>0, CmdFacts
<1>1. /\ th' = [th EXCEPT ![t] = IF busy = 1
                  THEN [pc |-> "won", dest |-> dest, api |-> "pull"]
                  ELSE [Idle EXCEPT !.pc = "undo"]]
      /\ StoreSeen(t) /\ busy' = busy - 1
      /\ th[t].pc = "idle" /\ cmds < MaxCmds
      /\ dest # NULL => user[dest] = Free /\ OnlyFor(t, dest)
      /\ UNCHANGED <<valid_bit, cells, user, dqrr, vdqcr, body, hw, cmds>>
  BY DEF PullDec
<1>2. /\ th' \in [Threads -> CallType] /\ unseen' \in [Threads -> Dests]
      /\ storage' \in Dests /\ busy' \in Int /\ busy \in Int /\ lost' \in BOOLEAN
      /\ th'[t].pc = (IF busy = 1 THEN "won" ELSE "undo")
      /\ th'[t].dest = (IF busy = 1 THEN dest ELSE NULL) /\ unseen'[t] = NULL
      /\ \A u \in Threads \ {t} : th'[u] = th[u] /\ unseen'[u] = unseen[u]
  <2> DEFINE y == IF busy = 1 THEN [pc |-> "won", dest |-> dest, api |-> "pull"]
                              ELSE [Idle EXCEPT !.pc = "undo"]
  <2>1. y \in CallType /\ y.pc = (IF busy = 1 THEN "won" ELSE "undo")
        /\ y.dest = (IF busy = 1 THEN dest ELSE NULL)
    BY DEF CallType, Idle
  <2>2. th' = [th EXCEPT ![t] = y] /\ th \in [Threads -> CallType] /\ busy \in Int
    BY <1>1 DEF Types
  <2> HIDE DEF y
  <2>3. /\ th' \in [Threads -> CallType] /\ th'[t] = y
        /\ \A u \in Threads \ {t} : th'[u] = th[u]
    BY <2>1, <2>2
  <2>4. /\ unseen' \in [Threads -> Dests] /\ unseen'[t] = NULL
        /\ storage' \in Dests /\ lost' \in BOOLEAN
        /\ \A u \in Threads \ {t} : unseen'[u] = unseen[u]
    BY <1>1, StoreIsSeen
  <2> QED
    <3>1. busy \in Int /\ busy' \in Int
      BY <1>1, <2>2
    <3>2. th'[t].pc = y.pc /\ th'[t].dest = y.dest
      BY <2>3
    <3> QED
      BY <2>1, <2>3, <2>4, <3>1, <3>2, Zenon
<1>3. Types'
  BY <1>1, <1>2 DEF IInv, Types
<1>4. /\ Waiting' /\ Flow' /\ (DqrrOpen' <=> DqrrOpen) /\ (Pending' <=> Pending)
      /\ \A b \in Buffers : PendingOn(b)' <=> PendingOn(b)
  BY <1>1, SameData DEF Dests
<1>5. SameWriter
  BY <1>1, <1>2 DEF SameWriter
<1>6. Rights' /\ (th'[t].pc = "won" => ~Pending)
  <2>1. CASE busy = 1
    <3>1. ~Right /\ ~lost /\ Undo = {}
      <4>1. Cardinality(Undo) = 0 /\ ~Right /\ ~lost
        BY <2>1, UndoFacts DEF IInv, Rights, BusyAccounted
      <4> QED
        BY <4>1, UndoFacts, FS_EmptySet
    <3>2. Undo' = {} /\ Cardinality(Undo)' = 0
      <4>1. Undo' = {}
        BY <1>2, <2>1, <3>1 DEF Undo
      <4> QED
        BY <4>1, FS_EmptySet
    <3>3. ~Pending
      <4>1. \A b \in Buffers : ~PendingOn(b)
        BY <3>1 DEF IInv, Rights, PendingHeld, Right
      <4>2. ~PendingOn(NULL)
        BY <3>1 DEF Right, DqrrOpen
      <4> QED
        BY <4>1, <4>2 DEF PendingOn, Dests, IInv
    <3>4. \A b \in Buffers : ~Armed(b) /\ ~Arming(b)
      BY <3>1 DEF Right, Arming, ByThread
    <3>5. ~lost'
      BY <1>1, <3>1, <3>4, StoreIsSeen
    <3>6. \A b \in Buffers : ~Armed(b)'
      <4> SUFFICES ASSUME NEW b \in Buffers, Armed(b)' PROVE FALSE
        OBVIOUS
      <4>1. storage = b /\ unseen[t] = NULL /\ user'[b] = user[b]
        BY <1>1, StoreIsSeen, VdqAssumption DEF Armed
      <4>2. \A u \in Threads : unseen'[u] = unseen[u]
        BY <1>2, <4>1
      <4>3. \A u \in Threads : th[u].pc \notin {"null", "inc"}
        BY <3>1 DEF Right, ByThread
      <4> QED
        BY <3>4, <4>1, <4>2, <4>3 DEF Armed
    <3>7. /\ ByThread(t)' /\ \A u \in Threads \ {t} : ~ByThread(u)' /\ ~ByThread(u)
          /\ ~DqrrOpen'
      BY <1>2, <1>4, <2>1, <3>1 DEF Right, ByThread
    <3>8. OneRight' /\ Right' /\ LostAlone' /\ Overlooked'
      BY <3>5, <3>6, <3>7 DEF OneRight, Right, LostAlone, Overlooked
    <3>9. Kept'
      BY <1>2, <2>1, <3>7 DEF Kept, ByThread
    <3>10. BusyAccounted' /\ PendingHeld'
      BY <1>1, <1>4, <2>1, <3>2, <3>3, <3>8 DEF BusyAccounted, PendingHeld, PendingOn
    <3> QED
      BY <3>3, <3>8, <3>9, <3>10 DEF Rights
  <2>2. CASE busy # 1
    <3>1. Undo' = Undo \cup {t} /\ t \notin Undo
      BY <1>1, <1>2, <2>2 DEF Undo
    <3>2. Cardinality(Undo') = Cardinality(Undo) + 1
      BY <3>1, UndoFacts, FS_AddElement
    <3>3. busy' + Cardinality(Undo)' = busy + Cardinality(Undo) /\ Cardinality(Undo)' \in Nat
      BY <1>1, <1>2, <3>2, UndoFacts
    <3>4. \A u \in Threads : ByThread(u)' <=> ByThread(u)
      BY <1>1, <1>2, <2>2 DEF ByThread
    <3>5. \A u \in Threads :
            /\ th'[u].pc \in {"null", "inc"} <=> th[u].pc \in {"null", "inc"}
            /\ th[u].pc \in {"null", "inc"} => th'[u].dest = th[u].dest
      BY <1>1, <1>2, <2>2
    <3> QED
      BY <1>1, <1>2, <1>4, <1>5, <2>2, <3>3, <3>4, <3>5, SeenRights
  <2> QED
    BY <2>1, <2>2
<1>7. Calls' /\ Looks'
  <2>1. CallOk(t)' /\ ~Polling(t)'
    BY <1>1, <1>2, <1>4, <1>6 DEF CallOk, Submitting, Polling
  <2>2. \A u \in Threads \ {t} :
          th[u].pc = "inc" => storage' = storage \/ storage' # th[u].dest
    BY <1>1, StoreIsSeen DEF IInv, Calls, CallOk, Polling
  <2> QED
    BY <1>1, <1>2, <2>1, <2>2, OthersKeep DEF Calls, Looks
<1>8. Apart'
  <2>1. busy # 1 => th'[t].dest = NULL
    BY <1>2
  <2> QED
    BY <1>1, <1>2, <2>1, VdqAssumption DEF IInv, Apart, OnlyFor
<1>9. Bodies'
  BY <1>1, <1>5, SameBodies
<1> QED
  BY <1>3, <1>4, <1>6, <1>7, <1>8, <1>9 DEF IInv

LEMMA PullSetStorageStep ==
  ASSUME IInv, NEW t \in Threads, PullSetStorage(t) PROVE IInv'
<1>0. Types
  BY DEF IInv
<1> USE <1>0, CmdFacts
<1>1. /\ th[t].pc = "won" /\ storage' = th[t].dest /\ th[t].dest \in Dests
      /\ Goto(t, "write")
      /\ body' = NextCmd(t)
      /\ UNCHANGED <<busy, valid_bit, unseen, cells, user, dqrr, vdqcr, hw, cmds, lost>>
  BY DEF PullSetStorage, NextCmd, IInv, Types, CallType
<1>2. /\ th' \in [Threads -> CallType] /\ th'[t].pc = "write" /\ th'[t].dest = th[t].dest
      /\ \A u \in Threads \ {t} : th'[u] = th[u]
  BY <1>1, GotoIs DEF IInv
<1>10. NextCmd(t) \in Commands
  <2>1. cmds \in 0..MaxCmds /\ cmds < MaxCmds
    BY <1>1 DEF Types, IInv, Calls, CallOk
  <2>2. cmds + 1 \in 1..MaxCmds
    BY <2>1
  <2> QED
    BY <1>1, <2>2 DEF NextCmd, Commands
<1>3. Types'
  BY <1>1, <1>2, <1>10 DEF IInv, Types
<1>4. /\ Waiting' /\ Flow' /\ (DqrrOpen' <=> DqrrOpen) /\ (Pending' <=> Pending)
      /\ \A b \in Buffers : (PendingOn(b)' <=> PendingOn(b))
  BY <1>1, SameData DEF Dests
<1>5. /\ ByThread(t) /\ \A u \in Threads \ {t} : ~ByThread(u)
      /\ \A b \in Buffers : ~Armed(b)
      /\ CallOk(t)
      /\ th[t].dest # NULL => user[th[t].dest] = Free
  BY <1>1 DEF IInv, Rights, OneRight, Calls, CallOk, Submitting, ByThread
<1>6. \A b \in Buffers : ~Armed(b)'
  BY <1>1, <1>5 DEF Armed, Free
<1>7. Rights'
  <2>1. Undo' = Undo
    BY <1>1, <1>2 DEF Undo
  <2>2. \A u \in Threads : ByThread(u)' <=> ByThread(u)
    BY <1>1, <1>2 DEF ByThread
  <2>3. busy \in Int /\ busy' = busy
    BY <1>1 DEF IInv, Types
  <2>4. ~lost /\ LostAlone' /\ Overlooked'
    BY <1>1, <1>5, <1>6 DEF IInv, Rights, LostAlone, Overlooked
  <2>5. Kept'
    BY <1>1, <1>2, <1>5 DEF Kept, ByThread
  <2> QED
    BY <1>1, <1>4, <1>5, <1>6, <2>1, <2>2, <2>3, <2>4, <2>5, FewerRights, UndoFacts
<1>8. Calls' /\ Looks'
  <2>1. CallOk(t)' /\ ~Polling(t)'
    BY <1>1, <1>2, <1>4, <1>5 DEF CallOk, Submitting, Polling
  <2>2. \A u \in Threads \ {t} : th[u].pc # "inc"
    BY <1>5 DEF ByThread
  <2> QED
    BY <1>1, <1>2, <2>1, <2>2, OthersKeep DEF Calls, Looks
<1>9. Apart' /\ Bodies'
  <2>1. NextCmd(t)' = NextCmd(t) /\ NextCmd(t) # None
    BY <1>1, <1>2, <1>10 DEF NextCmd
  <2>2. \A u \in Threads : th'[u].pc = "write" => u = t
    BY <1>2, <1>5 DEF ByThread
  <2>3. Bodies'
    BY <1>1, <1>2, <2>1, <2>2 DEF Bodies
  <2> QED
    BY <1>1, <1>2, <2>3 DEF IInv, Apart
<1> QED
  BY <1>3, <1>4, <1>7, <1>8, <1>9 DEF IInv

\* QMan sees the body: word 0 does not yet tell it to look.
LEMMA BodySeenStep ==
  ASSUME IInv, BodySeen PROVE IInv'
<1>0. Types
  BY DEF IInv
<1> USE <1>0, CmdFacts
<1>1. /\ body # None /\ body' = None /\ body \in Commands
      /\ vdqcr' = [vdqcr EXCEPT !.cmd = body]
      /\ UNCHANGED <<busy, valid_bit, storage, unseen, th, cells, user, dqrr, hw,
                     cmds, lost>>
  BY DEF BodySeen, Types
<1>2. PICK w \in Threads : th[w].pc = "write"
  BY <1>1 DEF IInv, Bodies
<1>3. /\ vdqcr' \in [vb : {0, 1}, cmd : Commands \cup {None}]
      /\ vdqcr'.vb = vdqcr.vb /\ vdqcr'.cmd = body
  BY <1>1 DEF Types
<1>4. Types'
  BY <1>1, <1>3 DEF Types
<1>5. /\ ~Pending /\ ~Pending'
      /\ \A d \in Dests : ~PendingOn(d) /\ ~PendingOn(d)' /\ (HwOn(d)' <=> HwOn(d))
  BY <1>1, <1>2, <1>3 DEF IInv, Calls, CallOk, Pending, PendingOn, HwOn
<1>6. /\ DqrrOpen' <=> DqrrOpen
      /\ \A u \in Threads : ByThread(u)' <=> ByThread(u)
      /\ \A b \in Buffers : Armed(b)' <=> Armed(b)
  BY <1>1, <1>5 DEF DqrrOpen, Expired, ByThread, Armed
<1>7. Rights'
  <2>1. Undo' = Undo /\ busy \in Int /\ busy' = busy
    BY <1>1 DEF Undo, Types
  <2> QED
    BY <1>1, <1>5, <1>6, <2>1, SameRights, UndoFacts DEF Dests, SameWriter
<1>8. Bodies'
  <2>1. \A u \in Threads : NextCmd(u)' = NextCmd(u)
    BY <1>1 DEF NextCmd
  <2> QED
    BY <1>1, <1>3, <2>1 DEF IInv, Bodies
<1>9. Calls' /\ Looks'
  <2> SUFFICES ASSUME NEW t \in Threads
               PROVE  CallOk(t)' /\ (Polling(t)' => LookOk(t, th[t].dest)')
    BY DEF Calls, Looks
  <2>1. CallOk(t) /\ (Polling(t) => LookOk(t, th[t].dest)) /\ (Polling(t)' <=> Polling(t))
        /\ (Submitting(t)' <=> Submitting(t))
    BY <1>1 DEF IInv, Calls, Looks, Polling, Submitting
  <2>2. ~PendingOn(th[t].dest)'
    BY <1>5 DEF PendingOn
  <2>3. CallOk(t)'
    BY <1>1, <1>5, <2>1, <2>2 DEF CallOk
  <2>4. ASSUME Polling(t) PROVE LookOk(t, th[t].dest)'
    <3> PICK b \in Buffers : b = th[t].dest
      BY <2>1, <2>4 DEF CallOk
    <3>1. LookOk(t, b)'
      BY <1>1, <1>5, <2>1, <2>4, LookStays
    <3> QED
      BY <1>1, <3>1
  <2> QED
    BY <2>1, <2>3, <2>4
<1>10. Apart'
  BY <1>1 DEF IInv, Apart
<1>11. Waiting'
  <2> SUFFICES ASSUME NEW b \in Buffers, NEW j \in 1..MaxNumf PROVE WaitOk(b, j)'
    BY DEF Waiting
  <2>1. WaitOk(b, j)
    BY DEF IInv, Waiting
  <2> QED
    BY <1>1, <1>5, <2>1 DEF WaitOk
<1>12. Flow'
  <2>1. \A b \in Buffers : FlowOk(b)'
    <3> SUFFICES ASSUME NEW b \in Buffers PROVE FlowOk(b)'
      OBVIOUS
    <3>1. FlowOk(b)
      BY DEF IInv, Flow
    <3> QED
      BY <1>1, <1>5, <3>1 DEF FlowOk
  <2>2. Expired' <=> Expired
    BY <1>1 DEF Expired
  <2> QED
    BY <1>1, <1>3, <1>5, <2>1, <2>2 DEF IInv, Flow
<1> QED
  BY <1>4, <1>7, <1>8, <1>9, <1>10, <1>11, <1>12 DEF IInv

\* The command is in the register.  The right passes from the thread to the
\* command: to its buffer, if storage still points to it, or to DQRR.
LEMMA PullWriteStep ==
  ASSUME IInv, NEW t \in Threads, PullWrite(t) PROVE IInv'
<1> DEFINE d == th[t].dest
           cmd == [id |-> cmds + 1, dest |-> d]
<1>0. Types
  BY DEF IInv
<1> USE <1>0, CmdFacts
<1>1. /\ th[t].pc = "write" /\ d \in Dests
      /\ vdqcr' = [vb |-> valid_bit, cmd |-> cmd] /\ valid_bit' = 1 - valid_bit
      /\ body = None
      /\ cmds' = cmds + 1
      /\ d = NULL => user' = user
      /\ d # NULL => d \in Buffers
                     /\ user' = [user EXCEPT ![d] = [Free EXCEPT !.cmd = cmds + 1]]
      /\ UNCHANGED <<busy, storage, unseen, cells, dqrr, body, hw, lost>>
  <2>1. th[t].pc = "write" /\ body = None /\ d \in Dests
    BY DEF PullWrite, Types, CallType
  <2>2. vdqcr.cmd = cmd
    BY <2>1 DEF IInv, Bodies, NextCmd
  <2>3. vdqcr' = [vb |-> valid_bit, cmd |-> cmd]
    <3>1. vdqcr' = [vdqcr EXCEPT !.vb = valid_bit]
          /\ vdqcr \in [vb : {0, 1}, cmd : Commands \cup {None}]
      BY DEF PullWrite, Types
    <3> HIDE DEF cmd
    <3> QED
      BY <2>2, <3>1
  <2> QED
    BY <2>1, <2>3 DEF PullWrite, Submitted, Dests
<1>2. /\ th' \in [Threads -> CallType]
      /\ th'[t].pc = "idle" /\ th'[t].dest = NULL
      /\ \A u \in Threads \ {t} : th'[u] = th[u]
  BY DoneIs DEF PullWrite, Submitted
<1>3. /\ ByThread(t) /\ \A u \in Threads \ {t} : ~ByThread(u)
      /\ ~DqrrOpen /\ \A b \in Buffers : ~Armed(b)
      /\ CallOk(t) /\ ~Pending /\ cmds < MaxCmds /\ unseen[t] = NULL
      /\ (d # NULL => user[d] = Free)
  BY <1>1 DEF IInv, Rights, OneRight, Calls, CallOk, Submitting, ByThread
<1>4. /\ cmd \in Commands /\ cmd # None /\ cmds' \in 0..MaxCmds /\ cmds' # 0
      /\ vdqcr' \in [vb : {0, 1}, cmd : Commands \cup {None}]
  <2>1. cmds \in 0..MaxCmds /\ valid_bit \in {0, 1}
    BY DEF Types
  <2>2. cmds + 1 \in 1..MaxCmds
    BY <1>3, <2>1
  <2>3. cmd \in Commands
    BY <1>1, <2>2 DEF Commands
  <2> HIDE DEF cmd
  <2> QED
    BY <1>1, <2>1, <2>2, <2>3
<1>5. /\ d # NULL => /\ user'[d].cmd = cmds + 1 /\ user'[d].next = 1
                     /\ user'[d].released = FALSE
      /\ \A b \in Buffers : b # d => user'[b] = user[b]
      /\ user' \in [Buffers -> [cmd : 0..MaxCmds, next : 1..MaxNumf, released : BOOLEAN]]
  <2> DEFINE y == [Free EXCEPT !.cmd = cmds + 1]
         U == [cmd : 0..MaxCmds, next : 1..MaxNumf, released : BOOLEAN]
  <2>1. y.cmd = cmds + 1 /\ y.next = 1 /\ y.released = FALSE /\ y \in U
    <3>1. y.cmd = cmds + 1 /\ y.next = 1 /\ y.released = FALSE
      BY DEF Free
    <3>2. 0 \in 0..MaxCmds /\ cmds + 1 \in 0..MaxCmds
      BY <1>4, <1>1
    <3>3. Free \in U
      BY <3>2 DEF Free
    <3> HIDE DEF Free
    <3>4. y \in U
      BY <3>2, <3>3
    <3> QED
      BY <3>1, <3>4
  <2>2. d # NULL => user' = [user EXCEPT ![d] = y]
    BY <1>1
  <2> HIDE DEF y, d
  <2>3. d # NULL => user'[d] = y /\ \A b \in Buffers : b # d => user'[b] = user[b]
    BY <1>1, <2>2 DEF Types
  <2>4. user' \in [Buffers -> U]
    BY <1>1, <2>1, <2>2 DEF Types
  <2> QED
    BY <1>1, <2>1, <2>3, <2>4
<1>6. Types'
  BY <1>1, <1>2, <1>4, <1>5, SMTT(30) DEF Types
<1>7. Pending' /\ \A e \in Dests : PendingOn(e)' <=> e = d
  BY <1>1, <1>3 DEF IInv, Flow, Pending, PendingOn, Types
<1>8. \A e \in Dests : HwOn(e)' <=> HwOn(e)
  BY <1>1 DEF HwOn
<1>9. \A u \in Threads : ~ByThread(u)'
  BY <1>2, <1>3 DEF ByThread
<1>10. \A b \in Buffers : Armed(b)' <=> b = d /\ storage = b
  <2> SUFFICES ASSUME NEW b \in Buffers PROVE Armed(b)' <=> b = d /\ storage = b
    OBVIOUS
  <2>1. CASE b # d
    BY <1>1, <1>2, <1>3, <1>5, <1>9, <2>1 DEF Armed, ByThread
  <2>2. CASE b = d
    <3>1. user'[b].cmd # 0 /\ user'[b].next = 1
      BY <1>1, <1>4, <1>5, <2>2
    <3>2. \A u \in Threads : unseen'[u] # b
      BY <1>1, <1>3, <2>2 DEF IInv, Apart
    <3>3. \A u \in Threads : th'[u].pc \notin {"null", "inc"}
      BY <1>9 DEF ByThread
    <3> QED
      BY <1>1, <2>2, <3>1, <3>2, <3>3 DEF Armed
  <2> QED
    BY <2>1, <2>2
<1>11. DqrrOpen' <=> d = NULL
  BY <1>1, <1>3, <1>7, <1>8 DEF DqrrOpen, Expired
<1>12. Rights'
  <2>1. Undo' = Undo
    BY <1>1, <1>2 DEF Undo
  <2>2. OneRight' /\ ~DqrrOpen /\ (Right' <=> d = NULL \/ storage = d)
    BY <1>1, <1>3, <1>9, <1>10, <1>11 DEF OneRight, Right
  <2>3. ~lost => Right'
    BY <1>1, <2>2 DEF IInv, Rights, Kept
  <2>4. lost => ~Right' /\ storage = NULL
    BY <1>1, <1>3, <2>2 DEF IInv, Rights, LostAlone
  <2>5. Right
    BY <1>3 DEF Right
  <2>6. BusyAccounted'
    BY <1>1, <2>1, <2>3, <2>4, <2>5, UndoFacts DEF BusyAccounted, IInv, Rights
  <2>7. LostAlone'
    BY <1>1, <1>9, <2>4 DEF LostAlone, Right
  <2>8. Kept'
    BY <1>9 DEF Kept, ByThread
  <2>9. Overlooked'
    BY <1>5, <1>10 DEF Overlooked
  <2>10. PendingHeld'
    <3> SUFFICES ASSUME NEW b \in Buffers, PendingOn(b)', ~lost' PROVE Armed(b)'
      BY DEF PendingHeld
    <3>1. b = d /\ Right'
      BY <1>1, <1>7, <2>3
    <3> QED
      BY <1>10, <2>2, <3>1
  <2> QED
    BY <2>2, <2>6, <2>7, <2>8, <2>9, <2>10 DEF Rights
<1>13. Calls' /\ Looks'
  <2>1. CallOk(t)' /\ ~Polling(t)'
    BY <1>1, <1>2, <1>3 DEF CallOk, Submitting, Polling
  <2>2. ASSUME NEW u \in Threads \ {t} PROVE CallOk(u)' /\ (Polling(u)' => LookOk(u, th[u].dest)')
    <3>1. /\ CallOk(u) /\ (Polling(u) => LookOk(u, th[u].dest))
          /\ (Polling(u) => th[u].dest \in Buffers) /\ (Polling(u)' <=> Polling(u))
          /\ th[u].dest \in Dests /\ th'[u] = th[u] /\ unseen'[u] = unseen[u]
      BY <1>1, <1>2 DEF IInv, Calls, Looks, CallOk, Polling, Types, CallType
    <3>2. th[u].dest \in Buffers => th[u].dest # d
      BY <1>1, <3>1 DEF IInv, Apart, Dests
    <3>3. th[u].dest # NULL => user'[th[u].dest] = user[th[u].dest]
      BY <1>5, <3>1, <3>2 DEF Dests
    <3>4. th[u].dest # NULL /\ Polling(u) =>
            \A e \in Dests : e = th[u].dest => (PendingOn(e)' => PendingOn(e))
      BY <1>7, <3>1, <3>2
    <3>5. th[u].pc \in {"won", "write"} => cmds' = cmds /\ (Pending' => Pending)
      BY <1>3 DEF ByThread
    <3>6. NULL \notin Buffers /\ Buffers \subseteq Dests /\ storage' = storage
      BY <1>1, VdqAssumption DEF Dests
    <3>7. CallOk(u)'
      BY <3>1, <3>3, <3>4, <3>5, <3>6, CallStays
    <3>8. ASSUME Polling(u) PROVE LookOk(u, th[u].dest)'
      <4> PICK b \in Buffers : b = th[u].dest
        BY <3>1, <3>8
      <4>1. LookOk(u, b) /\ user'[b] = user[b] /\ (HwOn(b)' => HwOn(b))
        BY <1>8, <3>1, <3>3, <3>8
      <4>2. LookOk(u, b)'
        BY <1>1, <3>1, <4>1, LookStays
      <4> QED
        BY <3>1, <4>2
    <3> QED
      BY <3>1, <3>7, <3>8
  <2> QED
    BY <2>1, <2>2 DEF Calls, Looks
<1>14. Apart'
  BY <1>1, <1>2 DEF IInv, Apart
<1>15. Waiting'
  <2> SUFFICES ASSUME NEW b \in Buffers, NEW j \in 1..MaxNumf PROVE WaitOk(b, j)'
    BY DEF Waiting
  <2>1. WaitOk(b, j)
    BY DEF IInv, Waiting
  <2>2. CASE b = d
    BY <1>1, <1>3, <2>1, <2>2 DEF WaitOk, Free
  <2>3. CASE b # d
    BY <1>1, <1>5, <1>7, <1>8, <2>1, <2>3 DEF WaitOk
  <2> QED
    BY <2>2, <2>3
<1>16. Flow'
  <2>1. \A b \in Buffers : FlowOk(b)'
    <3> SUFFICES ASSUME NEW b \in Buffers PROVE FlowOk(b)'
      OBVIOUS
    <3>1. FlowOk(b)
      BY DEF IInv, Flow
    <3>2. CASE b = d
      <4>1. ~HwOn(b)
        BY <1>3, <3>1, <3>2 DEF FlowOk, HwOn, Commands, Free
      <4> QED
        BY <1>1, <1>4, <1>5, <1>8, <3>2, <4>1 DEF FlowOk
    <3>3. CASE b # d
      BY <1>1, <1>5, <1>7, <1>8, <3>1, <3>3 DEF FlowOk
    <3> QED
      BY <3>2, <3>3
  <2>2. vdqcr'.vb = 1 - valid_bit' /\ vdqcr'.cmd # None
    BY <1>1, <1>4 DEF Types
  <2>3. ~HwOn(NULL)' /\ ~Expired' /\ ~Expired
    BY <1>1, <1>3, <1>8 DEF DqrrOpen, Expired
  <2>4. \A k \in 1..Len(dqrr') : ~dqrr'[k].expired
    BY <2>3 DEF Expired
  <2> QED
    BY <1>1, <2>1, <2>2, <2>3, <2>4 DEF IInv, Flow
<1>17. Bodies'
  BY <1>1, <1>9 DEF Bodies, ByThread
<1> QED
  BY <1>6, <1>12, <1>13, <1>14, <1>15, <1>16, <1>17 DEF IInv

-----------------------------------------------------------------------------
\* An entry with a token is looked at: it is of the buffer's command (Waiting).
LEMMA PollTokenStep ==
  ASSUME IInv, NEW t \in Threads, NEW b \in Buffers, NEW api \in PollApis,
         PollToken(t, b, api)
  PROVE  IInv'
<1>0. Types
  BY DEF IInv
<1> USE <1>0, CmdFacts
<1>1. /\ th[t].pc = "idle" /\ user[b].cmd # 0 /\ Entry(b).tok # 0 /\ OnlyFor(t, b)
      /\ api = "check_new" => user[b].released \/ user[b].next > 1
      /\ th' = [th EXCEPT ![t] = [pc |-> IF api = "complete" THEN "compare" ELSE "clear",
                                  dest |-> b, api |-> api]]
      /\ UNCHANGED <<busy, valid_bit, storage, unseen, cells, user, dqrr, vdqcr, body,
                     hw, cmds, lost>>
  BY DEF PollToken
<1>2. /\ th' \in [Threads -> CallType]
      /\ th'[t].pc = (IF api = "complete" THEN "compare" ELSE "clear")
      /\ th'[t].dest = b /\ th'[t].api = api
      /\ \A u \in Threads \ {t} : th'[u] = th[u]
  BY <1>1 DEF Types, CallType, PollApis
<1>3. Types'
  BY <1>1, <1>2 DEF Types
<1>4. /\ Waiting' /\ Flow' /\ (DqrrOpen' <=> DqrrOpen)
      /\ \A c \in Buffers : /\ (PendingOn(c)' <=> PendingOn(c)) /\ (HwOn(c)' <=> HwOn(c))
  BY <1>1, SameData DEF Dests
<1>5. /\ \A u \in Threads : ByThread(u)' <=> ByThread(u)
      /\ \A c \in Buffers : Armed(c)' <=> Armed(c)
  BY <1>1, <1>2 DEF ByThread, Armed
<1>11. SameWriter
  BY <1>1, <1>2 DEF SameWriter
<1>6. Rights'
  <2>1. Undo' = Undo
    BY <1>1, <1>2 DEF Undo
  <2>2. busy \in Int /\ busy' = busy
    BY <1>1 DEF Types
  <2> QED
    BY <1>1, <1>4, <1>5, <1>11, <2>1, <2>2, SameRights, UndoFacts
<1>7. LookOk(t, b)' /\ ~PendingOn(b)
  <2>1. user[b].next \in 1..MaxNumf
    BY DEF Types
  <2>2. WaitOk(b, user[b].next) /\ FlowOk(b)
    BY <2>1 DEF IInv, Waiting, Flow
  <2>3. cells[b][user[b].next].tok # 0
    BY <1>1 DEF Entry
  <2>4. /\ Entry(b).cmd = user[b].cmd
        /\ ~Entry(b).last => user[b].next < MaxNumf
        /\ Entry(b).last => \A j \in 1..MaxNumf : j > user[b].next => cells[b][j].tok = 0
        /\ HwOn(b) => user[b].next <= hw.written /\ ~Entry(b).last
        /\ ~PendingOn(b)
    BY <2>2, <2>3 DEF WaitOk, Entry
  <2>5. Entry(b)' = Entry(b) /\ user'[b] = user[b] /\ cells' = cells /\ hw' = hw
    BY <1>1 DEF Entry
  <2>6. th'[t].pc # "clear" => th'[t].api # "has_new"
    BY <1>2
  <2> QED
    BY <1>4, <2>4, <2>5, <2>6 DEF LookOk, HwOn
<1>8. Calls' /\ Looks'
  <2>1. CallOk(t)'
    <3>1. Polling(t)' /\ ~Submitting(t)'
      BY <1>2 DEF Submitting, Polling
    <3>2. ~PendingOn(th[t].dest)'
      BY <1>1, <1>2, <1>7 DEF PendingOn, Pending
    <3>3. unseen'[t] # NULL => th'[t].pc \in {"idle", "clear", "compare", "inc"}
      BY <1>2
    <3>4. user'[b] = user[b]
      BY <1>1
    <3> QED
      BY <1>1, <1>2, <3>1, <3>2, <3>3, <3>4 DEF CallOk, PollApis
  <2>2. Polling(t)' => LookOk(t, th[t].dest)'
    BY <1>2, <1>7
  <2> QED
    BY <1>1, <1>2, <2>1, <2>2, OthersKeep DEF Calls, Looks
<1>9. Apart'
  BY <1>1, <1>2 DEF IInv, Apart, OnlyFor
<1>10. Bodies'
  BY <1>1, <1>11, SameBodies
<1> QED
  BY <1>3, <1>4, <1>6, <1>8, <1>9, <1>10 DEF IInv

\* The store of NULL is made; the thread may see it before the others do.
LEMMA PollNullStep ==
  ASSUME IInv, NEW t \in Threads, PollNull(t) PROVE IInv'
<1>0. Types
  BY DEF IInv
<1> USE <1>0, CmdFacts
<1>1. /\ th[t].pc = "null" /\ unseen' = [unseen EXCEPT ![t] = th[t].dest]
      /\ Goto(t, "inc")
      /\ UNCHANGED <<busy, valid_bit, storage, cells, user, dqrr, vdqcr, body, hw, cmds,
                     lost>>
  BY DEF PollNull
<1>2. /\ CallOk(t) /\ Polling(t) /\ LookOk(t, th[t].dest)
      /\ th[t].dest \in Buffers /\ unseen[t] = NULL /\ ByThread(t)
  BY <1>1 DEF IInv, Calls, CallOk, Looks, Polling, ByThread
<1> PICK b \in Buffers : b = th[t].dest
  BY <1>2
<1>3. /\ th' \in [Threads -> CallType]
      /\ th'[t].pc = "inc" /\ th'[t].dest = b /\ th'[t].api = th[t].api
      /\ \A u \in Threads \ {t} : th'[u] = th[u] /\ unseen'[u] = unseen[u]
      /\ unseen'[t] = b /\ unseen' \in [Threads -> Dests]
  BY <1>1, GotoIs DEF Types
<1>4. Types'
  BY <1>1, <1>3 DEF Types
<1>5. /\ Waiting' /\ Flow' /\ (DqrrOpen' <=> DqrrOpen)
      /\ \A c \in Buffers : /\ (PendingOn(c)' <=> PendingOn(c)) /\ (HwOn(c)' <=> HwOn(c))
  BY <1>1, SameData DEF Dests
<1>6. \A u \in Threads : ByThread(u)' <=> ByThread(u)
  BY <1>1, <1>3 DEF ByThread
<1>7. \A c \in Buffers : Armed(c)' <=> Armed(c)
  BY <1>1, <1>2, <1>3 DEF Armed
<1>8. Rights'
  <2>1. Undo' = Undo
    BY <1>1, <1>3 DEF Undo
  <2>2. busy \in Int /\ busy' = busy
    BY <1>1 DEF Types
  <2>3. ~lost /\ LostAlone' /\ Overlooked'
    BY <1>1, <1>2, <1>7 DEF IInv, Rights, OneRight, LostAlone, Overlooked
  <2>4. Kept'
    BY <1>1, <1>2, <1>3 DEF IInv, Rights, OneRight, Kept, ByThread
  <2> QED
    BY <1>1, <1>5, <1>6, <1>7, <2>1, <2>2, <2>3, <2>4, FewerRights, UndoFacts
<1>9. Calls' /\ Looks'
  <2>1. CallOk(t)'
    <3>1. ~PendingOn(th[t].dest)'
      BY <1>1, <1>2, <1>3 DEF CallOk, PendingOn, Pending
    <3>2. th'[t].dest = th[t].dest /\ user' = user
      BY <1>1, <1>3
    <3> QED
      BY <1>1, <1>2, <1>3, <3>1, <3>2 DEF CallOk, Submitting, Polling
  <2>2. LookOk(t, b)'
    BY <1>1, <1>2, <1>3, <1>5, LookStays
  <2> QED
    BY <1>1, <1>3, <2>1, <2>2, OthersKeep DEF Calls, Looks
<1>10. Apart'
  BY <1>1, <1>3 DEF IInv, Apart
<1>11. Bodies'
  BY <1>1, <1>3, SameBodies DEF SameWriter
<1> QED
  BY <1>4, <1>5, <1>8, <1>9, <1>10, <1>11 DEF IInv

\* A store of NULL reaches memory: late, it may hit the storage of another command.
LEMMA DrainStep ==
  ASSUME IInv, NEW t \in Threads, Drain(t) PROVE IInv'
<1>0. Types
  BY DEF IInv
<1> USE <1>0, CmdFacts
<1>1. /\ unseen[t] # NULL /\ storage' = NULL /\ StoreSeen(t)
      /\ UNCHANGED <<busy, valid_bit, th, cells, user, dqrr, vdqcr, body, hw, cmds>>
  BY StoreIsSeen DEF Drain
<1>2. /\ CallOk(t) /\ (Polling(t) => LookOk(t, th[t].dest) /\ th[t].dest \in Buffers)
      /\ unseen'[t] = NULL /\ unseen' \in [Threads -> Dests]
      /\ \A u \in Threads \ {t} : unseen'[u] = unseen[u]
  BY <1>1, StoreIsSeen DEF IInv, Calls, Looks, CallOk
<1>3. Types'
  BY <1>1, <1>2, StoreIsSeen DEF Types
<1>4. /\ Waiting' /\ Flow' /\ (DqrrOpen' <=> DqrrOpen)
      /\ \A c \in Buffers : /\ (PendingOn(c)' <=> PendingOn(c)) /\ (HwOn(c)' <=> HwOn(c))
  BY <1>1, SameData DEF Dests
<1>5. SameWriter
  BY <1>1 DEF SameWriter
<1>7. Rights'
  <2>1. Undo' = Undo
    BY <1>1 DEF Undo
  <2>2. busy \in Int /\ busy' = busy
    BY <1>1 DEF Types
  <2>3. \A u \in Threads : ByThread(u)' <=> ByThread(u)
    BY <1>1 DEF ByThread
  <2> QED
    BY <1>1, <1>4, <1>5, <2>1, <2>2, <2>3, SeenRights, UndoFacts
<1>8. Calls' /\ Looks'
  <2>1. CallOk(t)'
    <3>1. Polling(t) => ~PendingOn(th[t].dest)'
      BY <1>1, <1>2 DEF CallOk, PendingOn, Pending
    <3> QED
      BY <1>1, <1>2, <3>1 DEF CallOk, Submitting, Polling
  <2>2. Polling(t)' => LookOk(t, th[t].dest)'
    <3> SUFFICES ASSUME Polling(t) PROVE LookOk(t, th[t].dest)'
      BY <1>1 DEF Polling
    <3> PICK b \in Buffers : b = th[t].dest
      BY <1>2
    <3>1. LookOk(t, b)'
      BY <1>1, <1>2, <1>4, LookStays
    <3> QED
      BY <1>1, <3>1
  <2>3. \A u \in Threads \ {t} : th[u].pc = "inc" => storage' # th[u].dest
    BY <1>1 DEF IInv, Calls, CallOk, Polling
  <2> QED
    BY <1>1, <1>2, <2>1, <2>2, <2>3, OthersKeep DEF Calls, Looks
<1>9. Apart'
  BY <1>1, <1>2 DEF IInv, Apart
<1>10. Bodies'
  BY <1>1, <1>5, SameBodies
<1> QED
  BY <1>3, <1>4, <1>7, <1>8, <1>9, <1>10 DEF IInv

-----------------------------------------------------------------------------
\* The token of one entry may be cleared; all other entries stay.
Cleared(e) == [e EXCEPT !.tok = 0]
CellsButTok(b, n) ==
  /\ \A c \in Buffers : c # b => cells'[c] = cells[c]
  /\ \A j \in 1..MaxNumf : j # n => cells'[b][j] = cells[b][j]
  /\ cells'[b][n].cmd = cells[b][n].cmd
  /\ cells'[b][n].last = cells[b][n].last
  /\ cells'[b][n].tok = cells[b][n].tok \/ cells'[b][n].tok = 0

LEMMA ClearedIs ==
  ASSUME NEW e \in [tok : {0, Token}, cmd : 0..MaxCmds, last : BOOLEAN]
  PROVE  /\ Cleared(e) \in [tok : {0, Token}, cmd : 0..MaxCmds, last : BOOLEAN]
         /\ Cleared(e).tok = 0 /\ Cleared(e).cmd = e.cmd /\ Cleared(e).last = e.last
BY DEF Cleared

LEMMA ClearIs ==
  ASSUME Types, NEW b \in Buffers, NEW n \in 1..MaxNumf,
         cells' = [cells EXCEPT ![b] = [cells[b] EXCEPT ![n] = Cleared(cells[b][n])]]
  PROVE  /\ cells' \in [Buffers -> [1..MaxNumf -> [tok : {0, Token}, cmd : 0..MaxCmds,
                                                   last : BOOLEAN]]]
         /\ CellsButTok(b, n) /\ cells'[b][n].tok = 0
<1> DEFINE C == [tok : {0, Token}, cmd : 0..MaxCmds, last : BOOLEAN]
           x == Cleared(cells[b][n])
           row == [cells[b] EXCEPT ![n] = x]
<1>1. cells \in [Buffers -> [1..MaxNumf -> C]] /\ cells[b] \in [1..MaxNumf -> C]
      /\ cells[b][n] \in C
  <2>1. cells \in [Buffers -> [1..MaxNumf -> C]]
    BY Zenon DEF Types
  <2> HIDE DEF C
  <2> QED
    BY <2>1
<1>2. x \in C /\ x.tok = 0 /\ x.cmd = cells[b][n].cmd /\ x.last = cells[b][n].last
  BY <1>1, ClearedIs
<1>3. cells' = [cells EXCEPT ![b] = row]
  OBVIOUS
<1> HIDE DEF x
<1>4. /\ row \in [1..MaxNumf -> C] /\ row[n] = x
      /\ \A j \in 1..MaxNumf : j # n => row[j] = cells[b][j]
  BY <1>1, <1>2
<1> HIDE DEF row
<1>5. /\ cells' \in [Buffers -> [1..MaxNumf -> C]] /\ cells'[b] = row
      /\ \A c \in Buffers : c # b => cells'[c] = cells[c]
  BY <1>1, <1>3, <1>4
<1> QED
  BY <1>2, <1>4, <1>5 DEF CellsButTok

\* A poll returns: its caller goes on to the next entry, or has the last one, or
\* knows that the command executes.
LEMMA ReturnKeeps ==
  ASSUME IInv, NEW t \in Threads, NEW b \in Buffers, NEW n \in 1..MaxNumf,
         b = th[t].dest, n = user[b].next, Polling(t), PollReturn(t),
         UNCHANGED <<valid_bit, storage, unseen, dqrr, vdqcr, body, hw, cmds>>,
         CellsButTok(b, n), th[t].api # "complete" => cells'[b][n].tok = 0
  PROVE  /\ Calls' /\ Looks' /\ Apart' /\ Waiting' /\ Flow' /\ Bodies' /\ SameWriter
         /\ lost' = (lost \/ (th[t].api # "complete" /\ Armed(b)))
         /\ th' \in [Threads -> CallType] /\ th'[t].pc = "idle"
         /\ user' \in [Buffers -> [cmd : 0..MaxCmds, next : 1..MaxNumf, released : BOOLEAN]]
         /\ \A u \in Threads \ {t} : th'[u] = th[u]
         /\ \A c \in Buffers : c # b => user'[c] = user[c]
         /\ DqrrOpen' <=> DqrrOpen
         /\ \A c \in Buffers : /\ PendingOn(c)' <=> PendingOn(c)
                               /\ c # b => (Armed(c)' <=> Armed(c))
         /\ ~PendingOn(b)
         /\ Armed(b)' => /\ th[t].api = "complete" /\ storage = b /\ n = 1
                         /\ unseen[t] # b
                         /\ th[t].pc \in {"clear", "compare"} => Armed(b)
         /\ th[t].api = "complete" /\ Armed(b) => Armed(b)'
<1>0. Types
  BY DEF IInv
<1> USE <1>0
<1>1. /\ CallOk(t) /\ LookOk(t, b) /\ ~PendingOn(b) /\ user[b].cmd # 0
      /\ Entry(b) = cells[b][n] /\ FlowOk(b) /\ n \in Nat
  <2>1. ~PendingOn(th[t].dest) /\ user[th[t].dest].cmd # 0 /\ CallOk(t) /\ FlowOk(b)
    BY DEF IInv, Calls, CallOk, Flow
  <2>2. LookOk(t, th[t].dest)
    BY DEF IInv, Looks
  <2> QED
    BY <2>1, <2>2 DEF Entry
<1>2. /\ th' \in [Threads -> CallType]
      /\ th'[t].pc = "idle" /\ th'[t].dest = NULL /\ th'[t].api = "none"
      /\ \A u \in Threads \ {t} : th'[u] = th[u]
      /\ user' \in [Buffers -> [cmd : 0..MaxCmds, next : 1..MaxNumf, released : BOOLEAN]]
      /\ \A c \in Buffers : c # b => user'[c] = user[c]
      /\ \/ /\ th[t].api = "complete" /\ user'[b].cmd = user[b].cmd
            /\ user'[b].next = n
         \/ th[t].api # "complete" /\ cells[b][n].last /\ user'[b] = Free
         \/ /\ th[t].api # "complete" /\ ~cells[b][n].last /\ n < MaxNumf
            /\ user'[b].cmd = user[b].cmd /\ user'[b].next = n + 1
      /\ lost' = (lost \/ (th[t].api # "complete" /\ Armed(b)))
  <2>1. LookOk(t, th[t].dest) /\ th[t].dest \in Buffers
    BY DEF IInv, Looks
  <2>2. ~Entry(th[t].dest).last => user[th[t].dest].next < MaxNumf
    BY <2>1 DEF LookOk
  <2> HIDE DEF Entry
  <2>3. lost' = IF th[t].api = "complete" THEN lost ELSE lost \/ Armed(b)
    BY <2>1, <2>2, ReturnIs
  <2>4. lost' = (lost \/ (th[t].api # "complete" /\ Armed(b)))
    BY <2>3 DEF Types
  <2> QED
    BY <1>1, <2>1, <2>2, <2>4, ReturnIs, ZenonT(60)
<1>10. /\ \/ th[t].api = "complete" /\ user'[b].cmd = user[b].cmd /\ user'[b].next = n
          \/ th[t].api # "complete" /\ cells[b][n].last /\ user'[b] = Free
          \/ /\ th[t].api # "complete" /\ ~cells[b][n].last
             /\ user'[b].cmd = user[b].cmd /\ user'[b].next = n + 1
  BY <1>2
<1>11. /\ Free.cmd = 0 /\ MaxNumf \in Nat /\ hw.written \in Int /\ n \in Int /\ n > 0
       /\ \A j \in 1..MaxNumf : j \in Int
  BY CmdFacts DEF Free
<1>3. /\ Pending' <=> Pending
      /\ \A c \in Buffers : (PendingOn(c)' <=> PendingOn(c)) /\ (HwOn(c)' <=> HwOn(c))
      /\ (PendingOn(NULL)' <=> PendingOn(NULL)) /\ (HwOn(NULL)' <=> HwOn(NULL))
      /\ (Expired' <=> Expired) /\ (DqrrOpen' <=> DqrrOpen)
  BY DEF Pending, PendingOn, HwOn, Expired, DqrrOpen
<1>4. /\ \A c \in Buffers : c # b => (Armed(c)' <=> Armed(c))
      /\ Armed(b)' => /\ th[t].api = "complete" /\ storage = b /\ n = 1
                      /\ unseen[t] # b
                      /\ th[t].pc \in {"clear", "compare"} => Armed(b)
      /\ th[t].api = "complete" /\ Armed(b) => Armed(b)'
  <2>1. \A c \in Buffers : c # b => (Armed(c)' <=> Armed(c))
    BY <1>2, ZenonT(60) DEF Armed
  <2>2. Armed(b)' => th[t].api = "complete" /\ storage = b /\ n = 1
    <3>1. CASE th[t].api = "complete"
      <4>1. user'[b].next = n
        BY <1>2, <3>1
      <4> QED
        BY <3>1, <4>1 DEF Armed
    <3>2. CASE th[t].api # "complete"
      <4>1. user'[b].cmd = 0 \/ user'[b].next # 1
        <5>1. user'[b] = Free \/ user'[b].next = n + 1
          BY <1>10, <3>2
        <5> QED
          BY <1>11, <5>1
      <4> QED
        BY <4>1 DEF Armed
    <3> QED
      BY <3>1, <3>2
  <2>3. Armed(b)' => unseen[t] # b /\ (th[t].pc \in {"clear", "compare"} => Armed(b))
    <3> SUFFICES ASSUME Armed(b)'
                 PROVE  unseen[t] # b /\ (th[t].pc \in {"clear", "compare"} => Armed(b))
      OBVIOUS
    <3>1. th[t].api = "complete" /\ storage = b /\ n = 1
      BY <2>2
    <3>2. user'[b].cmd = user[b].cmd
      BY <1>2, <3>1
    <3>3. \A u \in Threads : unseen[u] # b
      BY DEF Armed
    <3>4. \A u \in Threads \ {t} : ~(th[u].pc \in {"null", "inc"} /\ th[u].dest = b)
      BY <1>2 DEF Armed
    <3> QED
      BY <1>1, <3>1, <3>2, <3>3, <3>4 DEF Armed
  <2>4. ASSUME th[t].api = "complete", Armed(b) PROVE Armed(b)'
    <3>1. user'[b].cmd = user[b].cmd /\ user'[b].next = n
      BY <1>2, <2>4
    <3>2. \A u \in Threads : ~(th'[u].pc \in {"null", "inc"} /\ th'[u].dest = b)
      BY <1>2, <2>4 DEF Armed
    <3> QED
      BY <2>4, <3>1, <3>2 DEF Armed
  <2> QED
    BY <2>1, <2>2, <2>3, <2>4
<1>5. Apart'
  <2> SUFFICES ASSUME NEW v \in Threads, NEW u \in Threads, NEW c \in Buffers, v # u,
                      th'[v].dest = c \/ unseen[v] = c
               PROVE  th'[u].dest # c /\ unseen[u] # c
    BY DEF Apart
  <2>1. /\ th'[v].dest = c => th[v].dest = c
        /\ th'[u].dest = c => th[u].dest = c
    BY <1>2, CmdFacts
  <2>2. th[u].dest # c /\ unseen[u] # c
    BY <2>1 DEF IInv, Apart
  <2> QED
    BY <2>1, <2>2
<1>6. Calls' /\ Looks'
  <2>1. CallOk(t)' /\ ~Polling(t)'
    BY <1>1, <1>2 DEF CallOk, Submitting, Polling
  <2>2. \A u \in Threads \ {t} : \A c \in Buffers :
          th[u].dest = c => user'[c] = user[c] /\ cells'[c] = cells[c]
    BY <1>2, ZenonT(60) DEF IInv, Apart, CellsButTok
  <2> QED
    BY <1>2, <2>1, <2>2, OthersKeep DEF Calls, Looks
<1>7. Waiting'
  <2> SUFFICES ASSUME NEW c \in Buffers, NEW j \in 1..MaxNumf, cells'[c][j].tok # 0
               PROVE  WaitOk(c, j)'
    BY DEF Waiting, WaitOk
  <2>1. WaitOk(c, j) /\ cells[c][j].tok # 0
    BY ZenonT(60) DEF IInv, Waiting, CellsButTok
  <2>2. CASE c # b
    <3>1. user'[c] = user[c] /\ cells'[c] = cells[c] /\ hw' = hw
      BY <1>2, <2>2 DEF CellsButTok
    <3> QED
      BY <1>3, <2>1, <3>1 DEF WaitOk
  <2>3. CASE c = b
    <3>1. \A i \in 1..MaxNumf : cells[b][i].tok = 0 => cells'[b][i].tok = 0
      BY DEF CellsButTok
    <3>2. /\ j >= n /\ cells[b][j].cmd = user[b].cmd /\ ~PendingOn(b)
          /\ ~cells[b][j].last => j < MaxNumf
          /\ cells[b][j].last => \A i \in 1..MaxNumf : i > j => cells[b][i].tok = 0
          /\ HwOn(b) => j <= hw.written /\ ~cells[b][j].last
      BY <2>1, <2>3 DEF WaitOk
    <3>3. cells'[b][j].cmd = cells[b][j].cmd /\ cells'[b][j].last = cells[b][j].last
      BY DEF CellsButTok
    <3>4. j >= user'[b].next /\ user'[b].cmd = user[b].cmd
      <4>1. CASE th[t].api = "complete"
        BY <1>2, <3>2, <4>1
      <4>2. CASE th[t].api # "complete"
        <5>1. j # n /\ j > n
          <6>1. j # n
            BY <2>3, <4>2
          <6> QED
            BY <1>11, <3>2, <6>1
        <5>2. ~cells[b][n].last
          BY <1>1, <2>1, <2>3, <5>1 DEF LookOk
        <5> QED
          <6>1. user'[b].next = n + 1 /\ user'[b].cmd = user[b].cmd
            BY <1>10, <4>2, <5>2
          <6>2. n + 1 <= j
            BY <1>11, <5>1
          <6> QED
            BY <6>1, <6>2
      <4> QED
        BY <4>1, <4>2
    <3> QED
      BY <1>1, <1>3, <2>3, <3>1, <3>2, <3>3, <3>4 DEF WaitOk
  <2> QED
    BY <2>2, <2>3
<1>8. Flow'
  <2>1. \A c \in Buffers : c # b => FlowOk(c)'
    BY <1>2, <1>3, ZenonT(60) DEF IInv, Flow, FlowOk
  <2>2. FlowOk(b)'
    <3>1. CASE user'[b] = Free
      <4>1. user'[b].cmd = 0 /\ cells[b][n].last
        BY <1>1, <1>10, <1>11, <3>1
      <4>2. ~HwOn(b)
        BY <1>1, <4>1 DEF LookOk
      <4> QED
        BY <1>1, <1>3, <3>1, <4>2 DEF FlowOk
    <3>2. CASE user'[b] # Free
      <4>1. user'[b].cmd = user[b].cmd /\ user'[b].next \in {n, n + 1}
        BY <1>2, <3>2
      <4>2. HwOn(b) => user[b].cmd = hw.cmd.id /\ n <= hw.written
        BY <1>1 DEF FlowOk, LookOk
      <4> QED
        <5>1. n <= hw.written => user'[b].next <= hw.written + 1
          BY <1>11, <4>1
        <5>2. /\ user'[b].cmd # 0
              /\ HwOn(b)' => user'[b].cmd = hw.cmd.id /\ user'[b].next <= hw.written + 1
          BY <1>1, <1>3, <4>1, <4>2, <5>1
        <5> QED
          BY <1>1, <1>3, <5>2 DEF FlowOk
    <3> QED
      BY <3>1, <3>2
  <2> QED
    BY <1>3, <2>1, <2>2 DEF IInv, Flow
<1>9. SameWriter /\ Bodies'
  <2>1. SameWriter
    BY <1>2 DEF SameWriter, Polling
  <2> QED
    BY <2>1, SameBodies
<1> QED
  BY <1>1, <1>2, <1>3, <1>4, <1>5, <1>6, <1>7, <1>8, <1>9

\* ... without giving vdq back.
LEMMA ReturnStep ==
  ASSUME IInv, NEW t \in Threads, NEW b \in Buffers, NEW n \in 1..MaxNumf,
         b = th[t].dest, n = user[b].next, th[t].pc \in {"clear", "compare"},
         PollReturn(t), CellsButTok(b, n),
         UNCHANGED <<busy, valid_bit, storage, unseen, dqrr, vdqcr, body, hw, cmds>>,
         cells' \in [Buffers -> [1..MaxNumf -> [tok : {0, Token}, cmd : 0..MaxCmds,
                                               last : BOOLEAN]]],
         th[t].api # "complete" => cells'[b][n].tok = 0,
         th[t].api = "complete" /\ Armed(b) => unseen[t] \notin {NULL, b}
  PROVE  IInv'
<1>0. Types
  BY DEF IInv
<1> USE <1>0, CmdFacts
<1>1. Polling(t)
  BY DEF Polling
<1>2. /\ Calls' /\ Looks' /\ Apart' /\ Waiting' /\ Flow' /\ Bodies' /\ SameWriter
      /\ lost' = (lost \/ (th[t].api # "complete" /\ Armed(b)))
      /\ th' \in [Threads -> CallType] /\ th'[t].pc = "idle"
      /\ user' \in [Buffers -> [cmd : 0..MaxCmds, next : 1..MaxNumf, released : BOOLEAN]]
      /\ \A u \in Threads \ {t} : th'[u] = th[u]
      /\ \A c \in Buffers : c # b => user'[c] = user[c]
      /\ (DqrrOpen' <=> DqrrOpen)
      /\ \A c \in Buffers : /\ (PendingOn(c)' <=> PendingOn(c))
                            /\ c # b => (Armed(c)' <=> Armed(c))
      /\ Armed(b)' => Armed(b) /\ th[t].api = "complete"
      /\ th[t].api = "complete" /\ Armed(b) => Armed(b)'
  BY <1>1, ReturnKeeps, SMTT(30)
<1>3. Types'
  <2>1. /\ busy' \in Int /\ valid_bit' \in {0, 1} /\ storage' \in Dests
        /\ unseen' \in [Threads -> Dests]
        /\ dqrr' \in Seq([cmd : 1..MaxCmds, n : 1..MaxNumf, expired : BOOLEAN])
    BY DEF Types
  <2>2. /\ vdqcr' \in [vb : {0, 1}, cmd : Commands \cup {None}]
        /\ hw' \in [vb : {0, 1}, cmd : Commands \cup {None}, written : 0 .. MaxNumf - 1]
        /\ cmds' \in 0..MaxCmds /\ body' \in Commands \cup {None}
    BY DEF Types
  <2>3. lost' \in BOOLEAN
    BY <1>2 DEF Types
  <2> QED
    BY <1>2, <2>1, <2>2, <2>3 DEF Types
<1>4. Rights'
  <2>1. Undo' = Undo
    BY <1>2 DEF Undo
  <2>2. \A u \in Threads : ByThread(u)' <=> ByThread(u)
    BY <1>2 DEF ByThread
  <2>3. busy \in Int /\ busy' = busy
    BY DEF Types
  <2>4. \A c \in Buffers : Armed(c)' => Armed(c)
    BY <1>2
  <2>5. /\ lost => lost'
        /\ lost' => lost \/ Right
        /\ \A c \in Buffers : Armed(c) => Armed(c)' \/ lost'
    BY <1>2 DEF Right
  <2>6. \A u \in Threads : th'[u].pc = "write" => th[u].pc = "write" /\ th'[u] = th[u]
    BY <1>2 DEF SameWriter
  <2>7. LostAlone'
    <3>1. CASE lost
      BY <1>2, <2>2, <2>4, <2>6, <3>1 DEF IInv, Rights, LostAlone, ByThread
    <3>2. CASE Armed(b) /\ th[t].api # "complete"
      <4>1. ~DqrrOpen /\ (\A u \in Threads : ~ByThread(u)) /\ \A c \in Buffers : Armed(c) => c = b
        BY <3>2 DEF IInv, Rights, OneRight, Armed
      <4> QED
        BY <1>2, <2>2, <2>4, <3>2, <4>1 DEF LostAlone
    <3> QED
      BY <1>2, <3>1, <3>2 DEF LostAlone
  <2>8. Kept'
    BY <1>2, <2>6 DEF IInv, Rights, Kept
  <2>9. Overlooked'
    <3> SUFFICES ASSUME NEW c \in Buffers, Armed(c)', user'[c].released
                 PROVE  \E u \in Threads : unseen[u] \notin {NULL, c}
      BY DEF Overlooked
    <3>1. CASE c = b
      BY <1>2, <3>1
    <3>2. CASE c # b
      <4>1. Armed(c) /\ user[c].released
        BY <1>2, <3>2
      <4> QED
        BY <4>1 DEF IInv, Rights, Overlooked
    <3> QED
      BY <3>1, <3>2
  <2> QED
    BY <1>2, <2>1, <2>2, <2>3, <2>4, <2>5, <2>7, <2>8, <2>9, FewerRights, UndoFacts
<1> QED
  BY <1>2, <1>3, <1>4 DEF IInv

LEMMA PollClearStep ==
  ASSUME IInv, NEW t \in Threads, PollClear(t) PROVE IInv'
<1>0. Types
  BY DEF IInv
<1> USE <1>0, CmdFacts
<1>1. /\ th[t].pc = "clear" /\ Polling(t) /\ th[t].dest \in Buffers
      /\ IF th[t].api = "check_new" THEN PollReturn(t)
         ELSE Goto(t, "compare") /\ user' = user /\ lost' = lost
      /\ UNCHANGED <<busy, valid_bit, storage, unseen, dqrr, vdqcr, body, hw, cmds>>
      /\ th[t].api \in {"has_new", "check_new"}
      /\ CallOk(t) /\ LookOk(t, th[t].dest)
  BY DEF PollClear, Polling, IInv, Calls, CallOk, Looks
<1> PICK b \in Buffers : b = th[t].dest
  BY <1>1
<1> PICK n \in 1..MaxNumf : n = user[b].next
  BY DEF Types
<1>2. cells' = [cells EXCEPT ![b] = [cells[b] EXCEPT ![n] = Cleared(cells[b][n])]]
  BY DEF PollClear, Cleared
<1>3. /\ cells' \in [Buffers -> [1..MaxNumf -> [tok : {0, Token}, cmd : 0..MaxCmds,
                                                 last : BOOLEAN]]]
      /\ CellsButTok(b, n) /\ cells'[b][n].tok = 0
  BY <1>2, ClearIs, ZenonT(60)
<1>5. CASE th[t].api = "check_new"
  <2>1. th[t].api # "complete" /\ th[t].pc \in {"clear", "compare"} /\ PollReturn(t)
    BY <1>1, <1>5
  <2> QED
    BY <1>1, <1>3, <2>1, ReturnStep
<1>6. CASE th[t].api = "has_new"
  <2>1. /\ th' \in [Threads -> CallType]
        /\ th'[t].pc = "compare" /\ th'[t].dest = b /\ th'[t].api = "has_new"
        /\ \A u \in Threads \ {t} : th'[u] = th[u]
        /\ user' = user /\ lost' = lost
    BY <1>1, <1>6, GotoIs
  <2>11. SameWriter
    BY <1>1, <2>1 DEF SameWriter
  <2>2. Types'
    BY <1>1, <1>3, <2>1 DEF Types
  <2>3. /\ Pending' <=> Pending
        /\ \A c \in Buffers : /\ (PendingOn(c)' <=> PendingOn(c)) /\ (HwOn(c)' <=> HwOn(c))
                             
        /\ (DqrrOpen' <=> DqrrOpen)
    BY <1>1, <2>1 DEF Pending, PendingOn, HwOn, DqrrOpen, Expired
  <2>4. /\ \A u \in Threads : ByThread(u)' <=> ByThread(u)
        /\ \A c \in Buffers : Armed(c)' <=> Armed(c)
    BY <1>1, <2>1 DEF ByThread, Armed
  <2>5. Rights'
    <3>1. Undo' = Undo
      BY <1>1, <2>1 DEF Undo
    <3>2. busy \in Int /\ busy' = busy
      BY <1>1 DEF Types
    <3> QED
      BY <1>1, <2>1, <2>3, <2>4, <2>11, <3>1, <3>2, SameRights, UndoFacts
  <2>6. Calls' /\ Looks'
    <3>1. CallOk(t)'
      <4>1. ~PendingOn(th[t].dest)'
        BY <1>1, <2>1 DEF CallOk, PendingOn, Pending
      <4>2. /\ user'[b] = user[b] /\ user[b].cmd # 0
            /\ unseen'[t] # NULL => unseen[t] # NULL
        BY <1>1, <2>1 DEF CallOk
      <4> QED
        BY <1>1, <2>1, <4>1, <4>2 DEF CallOk, Submitting, Polling
    <3>2. LookOk(t, b)'
      <4>1. /\ LookOk(t, b) /\ Entry(b) = cells[b][n] /\ Entry(b)' = cells'[b][n]
            /\ user'[b].next = n /\ user'[b].cmd = user[b].cmd
        BY <1>1, <2>1 DEF Entry
      <4>2. cells[b][n].last <=> cells'[b][n].last
        BY <1>3 DEF CellsButTok
      <4>3. \A j \in 1..MaxNumf : cells[b][j].tok = 0 => cells'[b][j].tok = 0
        BY <1>3 DEF CellsButTok
      <4>4. cells'[b][n].cmd = cells[b][n].cmd /\ cells'[b][n].tok = 0
        BY <1>3 DEF CellsButTok
      <4> QED
        BY <1>1, <2>1, <2>3, <4>1, <4>2, <4>3, <4>4 DEF LookOk
    <3>3. \A u \in Threads \ {t} : \A c \in Buffers :
            th[u].dest = c => user'[c] = user[c] /\ cells'[c] = cells[c]
      <4> SUFFICES ASSUME NEW u \in Threads \ {t}, NEW c \in Buffers, th[u].dest = c
                   PROVE  user'[c] = user[c] /\ cells'[c] = cells[c]
        OBVIOUS
      <4>1. c # b
        BY <1>1 DEF IInv, Apart
      <4> QED
        BY <1>3, <2>1, <4>1 DEF CellsButTok
    <3> QED
      BY <1>1, <2>1, <3>1, <3>2, <3>3, OthersKeep DEF Calls, Looks
  <2>7. Apart'
    BY <1>1, <2>1 DEF IInv, Apart
  <2>8. Waiting'
    <3> SUFFICES ASSUME NEW c \in Buffers, NEW j \in 1..MaxNumf, cells'[c][j].tok # 0
                 PROVE  WaitOk(c, j)'
      BY DEF Waiting, WaitOk
    <3>1. WaitOk(c, j) /\ cells[c][j].tok # 0 /\ cells'[c][j] = cells[c][j]
      BY <1>3, ZenonT(60) DEF IInv, Waiting, CellsButTok
    <3>2. \A i \in 1..MaxNumf : cells[c][i].tok = 0 => cells'[c][i].tok = 0
      <4>1. CASE c # b
        BY <1>3, <4>1 DEF CellsButTok
      <4>2. CASE c = b
        BY <1>3, <4>2 DEF CellsButTok
      <4> QED
        BY <4>1, <4>2
    <3> QED
      BY <1>1, <2>1, <2>3, <3>1, <3>2 DEF WaitOk
  <2>9. Flow'
    BY <1>1, <2>1 DEF IInv, Flow, FlowOk, Pending, PendingOn, HwOn, Expired
  <2>10. Bodies'
    BY <1>1, <2>11, SameBodies
  <2> QED
    BY <2>2, <2>5, <2>6, <2>7, <2>8, <2>9, <2>10 DEF IInv
<1> QED
  BY <1>1, <1>5, <1>6

\* The first entry of the storage in vdq.storage: the right passes from the
\* command to the thread, which no other can have compared.
LEMMA PollCompareStep ==
  ASSUME IInv, NEW t \in Threads, PollCompare(t) PROVE IInv'
<1>0. Types
  BY DEF IInv
<1> USE <1>0, CmdFacts
<1>1. /\ th[t].pc = "compare" /\ Polling(t) /\ th[t].dest \in Buffers
      /\ UNCHANGED <<busy, valid_bit, storage, unseen, cells, dqrr, vdqcr, body, hw, cmds>>
      /\ th[t].api \in {"has_new", "complete"}
      /\ CallOk(t) /\ LookOk(t, th[t].dest) /\ Calls
  BY DEF PollCompare, Polling, IInv, Calls, CallOk, Looks
<1> PICK b \in Buffers : b = th[t].dest
  BY <1>1
<1> PICK n \in 1..MaxNumf : n = user[b].next
  BY DEF Types
<1>2. CASE ~(SeenStorage(t) = b /\ n = 1)
  <2>1. PollReturn(t)
    BY <1>2 DEF PollCompare
  <2>2. CellsButTok(b, n)
    BY <1>1 DEF CellsButTok
  <2>3. th[t].api # "complete" => cells'[b][n].tok = 0
    BY <1>1 DEF LookOk, Entry
  <2>5. Armed(b) => unseen[t] \notin {NULL, b}
    BY <1>1, <1>2 DEF Armed, SeenStorage
  <2>6. cells' \in [Buffers -> [1..MaxNumf -> [tok : {0, Token}, cmd : 0..MaxCmds,
                                               last : BOOLEAN]]]
    BY <1>1, Zenon DEF Types
  <2> QED
    BY <1>1, <2>1, <2>2, <2>3, <2>5, <2>6, ReturnStep
<1>3. CASE SeenStorage(t) = b /\ n = 1
  <2>1. Goto(t, "null") /\ user' = user /\ lost' = lost
    BY <1>3 DEF PollCompare
  <2>2. /\ th' \in [Threads -> CallType]
        /\ th'[t].pc = "null" /\ th'[t].dest = b /\ th'[t].api = th[t].api
        /\ \A u \in Threads \ {t} : th'[u] = th[u]
    BY <2>1, GotoIs
  <2>3. unseen[t] = NULL /\ storage = b
    BY <1>3, VdqAssumption DEF SeenStorage
  <2>4. Armed(b)
    BY <1>1, <1>3, <2>3, VdqAssumption DEF Armed, IInv, Apart, CallOk
  <2>5. Types'
    BY <1>1, <2>1, <2>2 DEF Types
  <2>6. /\ Waiting' /\ Flow' /\ (DqrrOpen' <=> DqrrOpen)
        /\ \A c \in Buffers : /\ (PendingOn(c)' <=> PendingOn(c)) /\ (HwOn(c)' <=> HwOn(c))
                             
    BY <1>1, <2>1, SameData DEF Dests
  <2>7. /\ \A u \in Threads : ~ByThread(u)
        /\ ~DqrrOpen /\ ~lost /\ \A c \in Buffers : Armed(c) => c = b
    BY <2>4 DEF IInv, Rights, OneRight, LostAlone, Armed
  <2>8. /\ ByThread(t)' /\ \A u \in Threads \ {t} : ~ByThread(u)'
        /\ \A c \in Buffers : ~Armed(c)'
    <3>1. ByThread(t)' /\ \A u \in Threads \ {t} : ~ByThread(u)'
      BY <2>2, <2>7 DEF ByThread
    <3>2. \A c \in Buffers : ~Armed(c)'
      BY <1>1, <2>2, <2>3 DEF Armed
    <3> QED
      BY <3>1, <3>2
  <2>9. Rights'
    <3>1. Undo' = Undo
      BY <1>1, <2>2 DEF Undo
    <3>2. OneRight' /\ Right' /\ Right
      BY <2>4, <2>6, <2>7, <2>8 DEF OneRight, Right
    <3>3. BusyAccounted'
      BY <1>1, <2>1, <3>1, <3>2 DEF BusyAccounted, IInv, Rights
    <3>5. LostAlone' /\ Overlooked'
      BY <2>1, <2>7, <2>8 DEF LostAlone, Overlooked
    <3>6. Kept'
      BY <2>2, <2>8 DEF Kept, ByThread
    <3>4. \A c \in Buffers : ~PendingOn(c)
      <4>1. ~PendingOn(th[t].dest)
        BY <1>1 DEF CallOk
      <4> QED
        BY <2>7, <4>1 DEF IInv, Rights, PendingHeld
    <3> QED
      BY <2>6, <3>2, <3>3, <3>4, <3>5, <3>6 DEF Rights, PendingHeld
  <2>10. Calls' /\ Looks'
    <3>1. CallOk(t)'
      <4>1. ~PendingOn(th[t].dest)'
        BY <1>1, <2>2 DEF CallOk, PendingOn, Pending
      <4>2. user'[b] = user[b] /\ user[b].cmd # 0 /\ unseen'[t] = NULL
        BY <1>1, <2>1, <2>3 DEF CallOk
      <4> QED
        BY <1>1, <1>3, <2>2, <4>1, <4>2 DEF CallOk, Submitting, Polling
    <3>2. LookOk(t, b)'
      BY <1>1, <2>1, <2>2, <2>6, LookStays
    <3> QED
      BY <1>1, <2>1, <2>2, <3>1, <3>2, OthersKeep DEF Calls, Looks
  <2>11. Apart'
    BY <1>1, <2>2 DEF IInv, Apart
  <2>12. Bodies'
    BY <1>1, <2>2, SameBodies DEF SameWriter
  <2> QED
    BY <2>5, <2>6, <2>9, <2>10, <2>11, <2>12 DEF IInv
<1> QED
  BY <1>2, <1>3

\* vdq is given back: the thread has had the right alone, and nobody has it now.
LEMMA PollIncStep ==
  ASSUME IInv, NEW t \in Threads, PollInc(t) PROVE IInv'
<1>0. Types
  BY DEF IInv
<1> USE <1>0, CmdFacts
<1>1. /\ th[t].pc = "inc" /\ Polling(t) /\ th[t].dest \in Buffers /\ busy' = busy + 1
      /\ UNCHANGED <<valid_bit, storage, unseen, cells, dqrr, vdqcr, body, hw, cmds>>
      /\ PollReturn(t)
      /\ CallOk(t) /\ LookOk(t, th[t].dest) /\ ByThread(t)
  BY DEF PollInc, Polling, ByThread, IInv, Calls, CallOk, Looks
<1> PICK b \in Buffers : b = th[t].dest
  BY <1>1
<1> PICK n \in 1..MaxNumf : n = user[b].next
  BY DEF Types
<1>2. /\ unseen[t] # NULL => unseen[t] = b
      /\ unseen[t] = NULL => storage # b
      /\ th[t].api \in {"has_new", "complete"}
  BY <1>1 DEF CallOk
<1>3. CellsButTok(b, n) /\ (th[t].api # "complete" => cells'[b][n].tok = 0)
  BY <1>1, <1>2 DEF CellsButTok, LookOk, Entry
<1>5. /\ Calls' /\ Looks' /\ Apart' /\ Waiting' /\ Flow' /\ Bodies'
      /\ lost' = (lost \/ (th[t].api # "complete" /\ Armed(b)))
      /\ th' \in [Threads -> CallType] /\ th'[t].pc = "idle"
      /\ user' \in [Buffers -> [cmd : 0..MaxCmds, next : 1..MaxNumf, released : BOOLEAN]]
      /\ \A u \in Threads \ {t} : th'[u] = th[u]
      /\ (DqrrOpen' <=> DqrrOpen)
      /\ \A c \in Buffers : /\ (PendingOn(c)' <=> PendingOn(c))
                            /\ c # b => (Armed(c)' <=> Armed(c))
      /\ Armed(b)' => storage = b /\ unseen[t] # b
  BY <1>1, <1>3, ReturnKeeps
<1>6. Types'
  BY <1>1, <1>5, SMTT(30) DEF Types
<1>7. /\ \A u \in Threads \ {t} : ~ByThread(u)
      /\ ~DqrrOpen /\ ~lost /\ \A c \in Buffers : ~Armed(c)
  BY <1>1 DEF IInv, Rights, OneRight, LostAlone
<1>8. Rights'
  <2>1. Undo' = Undo
    BY <1>1, <1>5 DEF Undo
  <2>2. \A u \in Threads : ~ByThread(u)'
    BY <1>5, <1>7 DEF ByThread
  <2>3. \A c \in Buffers : ~Armed(c)'
    BY <1>2, <1>5, <1>7
  <2>4. Right /\ ~Right'
    BY <1>1, <1>5, <1>7, <2>2, <2>3 DEF Right
  <2>5. ~lost'
    BY <1>5, <1>7
  <2> QED
    BY <1>1, <1>5, <1>7, <2>1, <2>4, <2>5, Released
<1> QED
  BY <1>5, <1>6, <1>8 DEF IInv

-----------------------------------------------------------------------------
\* A result in DQRR: the last one of its command gives vdq back, and is the only
\* one in DQRR, since no other command into DQRR was issued meanwhile.
LEMMA DqrrNextStep ==
  ASSUME IInv, NEW t \in Threads, DqrrNext(t) PROVE IInv'
<1>0. Types
  BY DEF IInv
<1> USE <1>0, CmdFacts
<1>1. /\ dqrr # <<>> /\ dqrr' = Tail(dqrr)
      /\ busy' = IF dqrr[1].expired THEN busy + 1 ELSE busy
      /\ UNCHANGED <<valid_bit, storage, unseen, th, cells, user, vdqcr, body, hw, cmds,
                     lost>>
  BY DEF DqrrNext
<1>2. /\ dqrr \in Seq([cmd : 1..MaxCmds, n : 1..MaxNumf, expired : BOOLEAN])
      /\ dqrr' \in Seq([cmd : 1..MaxCmds, n : 1..MaxNumf, expired : BOOLEAN])
      /\ Len(dqrr) \in Nat /\ Len(dqrr) > 0 /\ Len(dqrr') = Len(dqrr) - 1
      /\ \A k \in 1..Len(dqrr') : k + 1 \in 1..Len(dqrr) /\ dqrr'[k] = dqrr[k + 1]
  BY <1>1 DEF Types
<1>3. Types'
  BY <1>1, <1>2 DEF Types
<1>4. /\ (Pending' <=> Pending)
      /\ \A d \in Dests : (PendingOn(d)' <=> PendingOn(d)) /\ (HwOn(d)' <=> HwOn(d))
      /\ \A u \in Threads : ByThread(u)' <=> ByThread(u)
      /\ \A b \in Buffers : Armed(b)' <=> Armed(b)
  BY <1>1 DEF Pending, PendingOn, HwOn, ByThread, Armed
<1>5. \A k \in 1..Len(dqrr) : dqrr[k].expired => k = Len(dqrr)
  BY DEF IInv, Flow
<1>6. Undo' = Undo /\ busy \in Int
  BY <1>1 DEF Undo, Types
<1>7. Rights'
  <2>1. CASE dqrr[1].expired
    <3>1. Len(dqrr) = 1
      <4>1. 1 \in 1..Len(dqrr)
        BY <1>2
      <4> QED
        BY <1>5, <2>1, <4>1
    <3>2. Expired /\ ~Expired'
      BY <1>2, <2>1, <3>1 DEF Expired
    <3>3. DqrrOpen /\ ~DqrrOpen'
      BY <1>4, <3>2 DEF DqrrOpen, IInv, Flow
    <3>4. /\ \A u \in Threads : ~ByThread(u)
          /\ ~lost /\ \A b \in Buffers : ~Armed(b)
      BY <3>3 DEF IInv, Rights, OneRight, LostAlone
    <3>5. Right /\ ~Right'
      BY <1>4, <3>3, <3>4 DEF Right
    <3> QED
      BY <1>1, <1>4, <1>6, <2>1, <3>4, <3>5, Released DEF Dests
  <2>2. CASE ~dqrr[1].expired
    <3>1. Expired' => Expired
      BY <1>2 DEF Expired
    <3>2. Expired => Expired'
      <4> SUFFICES ASSUME NEW k \in 1..Len(dqrr), dqrr[k].expired PROVE Expired'
        BY DEF Expired
      <4>1. k # 1
        BY <2>2
      <4>2. k - 1 \in 1..Len(dqrr') /\ dqrr'[k - 1] = dqrr[k]
        BY <1>2, <4>1, SMTT(30)
      <4> QED
        BY <4>2 DEF Expired
    <3>3. DqrrOpen' <=> DqrrOpen
      BY <1>4, <3>1, <3>2 DEF DqrrOpen
    <3>4. busy' = busy
      BY <1>1, <2>2
    <3> QED
      BY <1>1, <1>4, <1>6, <3>3, <3>4, SameRights, UndoFacts DEF Dests, SameWriter
  <2> QED
    BY <2>1, <2>2
<1>8. Calls' /\ Looks'
  <2>1. CallOk(t)' /\ (Polling(t)' => LookOk(t, th[t].dest)')
    <3>1. th[t].pc = "idle" /\ CallOk(t)
      BY DEF DqrrNext, IInv, Calls
    <3> QED
      BY <1>1, <3>1 DEF CallOk, Submitting, Polling
  <2> QED
    BY <1>1, <2>1, OthersKeep DEF Calls, Looks
<1>9. Apart' /\ Waiting'
  BY <1>1 DEF IInv, Apart, Waiting, WaitOk, PendingOn, Pending, HwOn
<1>10. Flow'
  <2>1. \A b \in Buffers : FlowOk(b)'
    BY <1>1 DEF IInv, Flow, FlowOk, PendingOn, Pending, HwOn
  <2>2. ASSUME NEW k \in 1..Len(dqrr'), dqrr'[k].expired PROVE k = Len(dqrr')
    <3>1. k + 1 \in 1..Len(dqrr) /\ dqrr[k + 1].expired
      BY <1>2, <2>2
    <3>2. k + 1 = Len(dqrr)
      BY <1>5, <3>1
    <3> QED
      BY <1>2, <3>2
  <2>3. Expired' => Expired
    BY <1>2 DEF Expired
  <2> QED
    BY <1>1, <1>4, <2>1, <2>2, <2>3 DEF IInv, Flow
<1>11. Bodies'
  BY <1>1, SameBodies DEF SameWriter
<1> QED
  BY <1>3, <1>7, <1>8, <1>9, <1>10, <1>11 DEF IInv

\* QMan takes the command from the register.
LEMMA StartStep ==
  ASSUME IInv, Start PROVE IInv'
<1>0. Types
  BY DEF IInv
<1> USE <1>0, CmdFacts
<1>1. /\ Pending /\ hw.cmd = None
      /\ hw' = [vb |-> 1 - hw.vb, cmd |-> vdqcr.cmd, written |-> 0]
      /\ UNCHANGED <<busy, valid_bit, storage, unseen, th, cells, user, dqrr, vdqcr,
                     body, cmds, lost>>
  BY DEF Start, Pending
<1>2. vdqcr.cmd # None /\ vdqcr.cmd \in Commands /\ ~Pending'
  BY <1>1 DEF IInv, Flow, Types, Pending
<1>3. Types'
  <2>1. hw' \in [vb : {0, 1}, cmd : Commands \cup {None}, written : 0 .. MaxNumf - 1]
    BY <1>1, <1>2
  <2> QED
    BY <1>1, <2>1 DEF Types
<1>4. /\ \A d \in Dests : ~PendingOn(d)' /\ ~HwOn(d) /\ (HwOn(d)' <=> PendingOn(d))
      /\ \A u \in Threads : ByThread(u)' <=> ByThread(u)
      /\ \A b \in Buffers : Armed(b)' <=> Armed(b)
  BY <1>1, <1>2 DEF PendingOn, HwOn, ByThread, Armed
<1>5. DqrrOpen' <=> DqrrOpen
  BY <1>1, <1>4 DEF DqrrOpen, Expired
<1>6. Rights'
  <2>1. Undo' = Undo /\ busy \in Int /\ busy' = busy
    BY <1>1 DEF Undo, Types
  <2> QED
    BY <1>1, <1>4, <1>5, <2>1, SameRights, UndoFacts DEF Dests, SameWriter
<1>7. Calls' /\ Looks'
  <2> SUFFICES ASSUME NEW t \in Threads
               PROVE  CallOk(t)' /\ (Polling(t)' => LookOk(t, th[t].dest)')
    BY DEF Calls, Looks
  <2>1. CallOk(t) /\ (Polling(t) => LookOk(t, th[t].dest)) /\ (Polling(t)' <=> Polling(t))
        /\ (Submitting(t)' <=> Submitting(t))
    BY <1>1 DEF IInv, Calls, Looks, Polling, Submitting
  <2>2. ~PendingOn(th[t].dest)'
    BY <1>2 DEF PendingOn
  <2>3. CallOk(t)'
    BY <1>1, <1>2, <2>1, <2>2 DEF CallOk
  <2>4. ASSUME Polling(t) PROVE LookOk(t, th[t].dest)'
    <3>1. th[t].dest \in Buffers /\ ~PendingOn(th[t].dest)
      BY <2>1, <2>4 DEF CallOk
    <3> PICK b \in Buffers : b = th[t].dest
      BY <3>1
    <3>2. ~HwOn(b)' /\ LookOk(t, b)
      BY <1>4, <2>1, <2>4, <3>1
    <3>3. LookOk(t, b)'
      BY <1>1, <3>2, LookStays
    <3> QED
      BY <1>1, <3>3
  <2> QED
    BY <2>1, <2>3, <2>4
<1>8. Apart'
  BY <1>1 DEF IInv, Apart
<1>9. Waiting'
  <2> SUFFICES ASSUME NEW b \in Buffers, NEW j \in 1..MaxNumf PROVE WaitOk(b, j)'
    BY DEF Waiting
  <2>1. WaitOk(b, j)
    BY DEF IInv, Waiting
  <2> QED
    BY <1>1, <1>4, <2>1 DEF WaitOk
<1>10. Flow'
  <2>1. \A b \in Buffers : FlowOk(b)'
    <3> SUFFICES ASSUME NEW b \in Buffers PROVE FlowOk(b)'
      OBVIOUS
    <3>1. FlowOk(b)
      BY DEF IInv, Flow
    <3> QED
      BY <1>1, <1>4, <3>1 DEF FlowOk
  <2>3. Expired' => Expired
    BY <1>1 DEF Expired
  <2> QED
    BY <1>1, <1>2, <1>4, <2>1, <2>3 DEF IInv, Flow
<1>11. Bodies'
  <2>1. \A t \in Threads : NextCmd(t)' = NextCmd(t)
    BY <1>1 DEF NextCmd
  <2> QED
    BY <1>1, <2>1 DEF IInv, Bodies
<1> QED
  BY <1>3, <1>6, <1>7, <1>8, <1>9, <1>10, <1>11 DEF IInv

\* QMan's state after a result.
LEMMA HwIs ==
  ASSUME Types, NEW last \in BOOLEAN, hw.cmd # None, hw.written + 1 = MaxNumf => last,
         hw' = IF last THEN [hw EXCEPT !.cmd = None, !.written = 0]
                       ELSE [hw EXCEPT !.written = hw.written + 1]
  PROVE  /\ hw' \in [vb : {0, 1}, cmd : Commands \cup {None}, written : 0 .. MaxNumf - 1]
         /\ hw'.vb = hw.vb
         /\ last => hw'.cmd = None
         /\ ~last => hw'.cmd = hw.cmd /\ hw'.written = hw.written + 1
                     /\ hw.written + 1 < MaxNumf
<1> USE CmdFacts
<1> DEFINE T == [vb : {0, 1}, cmd : Commands \cup {None}, written : 0 .. MaxNumf - 1]
<1>1. hw \in T /\ hw.cmd \in Commands
  BY DEF Types
<1>2. CASE last
  <2> DEFINE y == [hw EXCEPT !.cmd = None]
  <2>1. y \in T /\ y.cmd = None /\ y.vb = hw.vb
    BY <1>1
  <2>2. hw' = [y EXCEPT !.written = 0]
    BY <1>2
  <2> HIDE DEF y
  <2>3. 0 \in 0 .. MaxNumf - 1
    BY VdqAssumption
  <2> QED
    BY <1>2, <2>1, <2>2, <2>3
<1>3. CASE ~last
  <2>1. hw.written + 1 < MaxNumf /\ hw.written + 1 \in 0 .. MaxNumf - 1
    BY <1>1, <1>3
  <2>2. hw' = [hw EXCEPT !.written = hw.written + 1]
    BY <1>3
  <2> QED
    BY <1>1, <1>3, <2>1, <2>2
<1> QED
  BY <1>2, <1>3

\* The result that QMan writes, and what is left as it was.
LEMMA ResultIs ==
  ASSUME IInv, NEW last \in BOOLEAN, Result(last)
  PROVE  LET d == hw.cmd.dest
             m == hw.written + 1
             res == [tok |-> Token, cmd |-> hw.cmd.id, last |-> last]
             R == [cmd : 1..MaxCmds, n : 1..MaxNumf, expired : BOOLEAN]
             r == [cmd |-> hw.cmd.id, n |-> m, expired |-> last]
             C == [tok : {0, Token}, cmd : 0..MaxCmds, last : BOOLEAN]
         IN
         /\ hw.cmd # None /\ hw.cmd \in Commands
         /\ hw.written + 1 = MaxNumf => last
         /\ d = NULL => cells' = cells
         /\ d # NULL => dqrr' = dqrr
         /\ UNCHANGED <<busy, valid_bit, storage, unseen, th, user, vdqcr, body, cmds, lost>>
         /\ hw' \in [vb : {0, 1}, cmd : Commands \cup {None}, written : 0 .. MaxNumf - 1]
         /\ hw'.vb = hw.vb
         /\ last => hw'.cmd = None /\ hw'.written = 0
         /\ ~last => hw'.cmd = hw.cmd /\ hw'.written = m /\ m < MaxNumf
         /\ d \in Dests /\ m \in 1..MaxNumf /\ hw.cmd.id \in 1..MaxCmds
         /\ d # NULL =>
              /\ cells' \in [Buffers -> [1..MaxNumf -> C]]
              /\ cells'[d][m] = res
              /\ \A j \in 1..MaxNumf : j # m => cells'[d][j] = cells[d][j]
              /\ \A b \in Buffers : b # d => cells'[b] = cells[b]
         /\ d = NULL => /\ dqrr' \in Seq(R) /\ Len(dqrr') = Len(dqrr) + 1
                        /\ dqrr'[Len(dqrr) + 1] = r
                        /\ \A k \in 1..Len(dqrr) : dqrr'[k] = dqrr[k]
<1> DEFINE d == hw.cmd.dest
           m == hw.written + 1
           res == [tok |-> Token, cmd |-> hw.cmd.id, last |-> last]
           R == [cmd : 1..MaxCmds, n : 1..MaxNumf, expired : BOOLEAN]
           r == [cmd |-> hw.cmd.id, n |-> m, expired |-> last]
           C == [tok : {0, Token}, cmd : 0..MaxCmds, last : BOOLEAN]
<1>0. Types
  BY DEF IInv
<1> USE <1>0, CmdFacts
<1>1. /\ hw.cmd # None /\ hw.cmd \in Commands
      /\ hw.written + 1 = MaxNumf => last
      /\ hw' = IF last THEN [hw EXCEPT !.cmd = None, !.written = 0]
                       ELSE [hw EXCEPT !.written = hw.written + 1]
      /\ d = NULL => dqrr' = Append(dqrr, r) /\ cells' = cells
      /\ d # NULL => dqrr' = dqrr
      /\ UNCHANGED <<busy, valid_bit, storage, unseen, th, user, vdqcr, body, cmds, lost>>
  BY DEF Result
<1>2. d # NULL => cells' = [cells EXCEPT ![d] = [cells[d] EXCEPT ![m] = res]]
  BY DEF Result
<1>3. /\ hw' \in [vb : {0, 1}, cmd : Commands \cup {None}, written : 0 .. MaxNumf - 1]
      /\ hw'.vb = hw.vb
      /\ last => hw'.cmd = None /\ hw'.written = 0
      /\ ~last => hw'.cmd = hw.cmd /\ hw'.written = m /\ m < MaxNumf
  BY <1>1, HwIs
<1>4. d \in Dests /\ m \in 1..MaxNumf /\ hw.cmd.id \in 1..MaxCmds
  <2>1. hw.cmd \in Commands
    BY <1>1
  <2>2. hw.written \in 0 .. MaxNumf - 1
    BY HwIs
  <2> QED
    BY <2>1, <2>2, VdqAssumption DEF Commands
<1>5. res \in C /\ res.tok = Token /\ res.tok # 0 /\ res.cmd = hw.cmd.id /\ res.last = last
      /\ r \in R /\ r.expired = last
  BY <1>4 DEF Token
<1> HIDE DEF res, r
<1>6. d # NULL =>
        /\ cells' \in [Buffers -> [1..MaxNumf -> C]]
        /\ cells'[d][m] = res
        /\ \A j \in 1..MaxNumf : j # m => cells'[d][j] = cells[d][j]
        /\ \A b \in Buffers : b # d => cells'[b] = cells[b]
  <2> SUFFICES ASSUME d # NULL
               PROVE  /\ cells' \in [Buffers -> [1..MaxNumf -> C]]
                      /\ cells'[d][m] = res
                      /\ \A j \in 1..MaxNumf : j # m => cells'[d][j] = cells[d][j]
                      /\ \A b \in Buffers : b # d => cells'[b] = cells[b]
    OBVIOUS
  <2> DEFINE row == [cells[d] EXCEPT ![m] = res]
  <2>1. d \in Buffers /\ cells' = [cells EXCEPT ![d] = row]
    BY <1>2, <1>4 DEF Dests
  <2>2. cells \in [Buffers -> [1..MaxNumf -> C]]
    BY Zenon DEF Types
  <2> HIDE DEF C, d, m
  <2>3. cells[d] \in [1..MaxNumf -> C]
    BY <2>1, <2>2
  <2>4. /\ row \in [1..MaxNumf -> C] /\ row[m] = res
        /\ \A j \in 1..MaxNumf : j # m => row[j] = cells[d][j]
    BY <1>4, <1>5, <2>3
  <2> HIDE DEF row
  <2> QED
    BY <2>1, <2>2, <2>4
<1>7. d = NULL => /\ dqrr' \in Seq(R) /\ Len(dqrr') = Len(dqrr) + 1
                  /\ dqrr'[Len(dqrr) + 1] = r
                  /\ \A k \in 1..Len(dqrr) : dqrr'[k] = dqrr[k]
  <2>1. dqrr \in Seq(R)
    BY Zenon DEF Types
  <2>2. r \in R /\ (d = NULL => dqrr' = Append(dqrr, r))
    BY <1>1, <1>5
  <2> HIDE DEF R, d
  <2> QED
    BY <2>1, <2>2
<1> QED
  BY <1>1, <1>3, <1>4, <1>6, <1>7 DEF res, r

\* QMan writes a result: behind those that wait in the storage, or behind those in
\* DQRR, of which none was the last one of its command.
LEMMA ResultStep ==
  ASSUME IInv, NEW last \in BOOLEAN, Result(last) PROVE IInv'
<1> DEFINE d == hw.cmd.dest
           m == hw.written + 1
           res == [tok |-> Token, cmd |-> hw.cmd.id, last |-> last]
           R == [cmd : 1..MaxCmds, n : 1..MaxNumf, expired : BOOLEAN]
           r == [cmd |-> hw.cmd.id, n |-> m, expired |-> last]
           C == [tok : {0, Token}, cmd : 0..MaxCmds, last : BOOLEAN]
<1>0. Types
  BY DEF IInv
<1> USE <1>0, CmdFacts
<1>1. /\ hw.cmd # None /\ hw.cmd \in Commands
      /\ d = NULL => cells' = cells
      /\ d # NULL => dqrr' = dqrr
      /\ UNCHANGED <<busy, valid_bit, storage, unseen, th, user, vdqcr, body, cmds, lost>>
  BY ResultIs
<1>3. /\ hw' \in [vb : {0, 1}, cmd : Commands \cup {None}, written : 0 .. MaxNumf - 1]
      /\ hw'.vb = hw.vb
      /\ last => hw'.cmd = None
      /\ ~last => hw'.cmd = hw.cmd /\ hw'.written = m /\ m < MaxNumf
  BY ResultIs
<1>4. d \in Dests /\ m \in 1..MaxNumf /\ hw.cmd.id \in 1..MaxCmds
  BY ResultIs
<1>6. d # NULL =>
        /\ cells' \in [Buffers -> [1..MaxNumf -> C]]
        /\ cells'[d][m] = res
        /\ \A j \in 1..MaxNumf : j # m => cells'[d][j] = cells[d][j]
        /\ \A b \in Buffers : b # d => cells'[b] = cells[b]
  BY ResultIs
<1>7. d = NULL => /\ dqrr' \in Seq(R) /\ Len(dqrr') = Len(dqrr) + 1
                  /\ dqrr'[Len(dqrr) + 1] = r
                  /\ \A k \in 1..Len(dqrr) : dqrr'[k] = dqrr[k]
  BY ResultIs
<1>5. /\ res.tok = Token /\ res.tok # 0 /\ res.cmd = hw.cmd.id /\ res.last = last
      /\ r.expired = last
  BY DEF Token
<1> HIDE DEF res, r
<1>8. Types'
  <2>1. dqrr' \in Seq(R)
    BY <1>1, <1>7 DEF Types
  <2>2. cells' \in [Buffers -> [1..MaxNumf -> C]]
    <3>1. cells \in [Buffers -> [1..MaxNumf -> C]]
      BY Zenon DEF Types
    <3> HIDE DEF C
    <3> QED
      BY <1>1, <1>6, <3>1
  <2> QED
    BY <1>1, <1>3, <2>1, <2>2 DEF Types
<1>9. /\ (Pending' <=> Pending)
      /\ \A e \in Dests : /\ (PendingOn(e)' <=> PendingOn(e))
                          /\ (HwOn(e) <=> e = d) /\ (HwOn(e)' <=> e = d /\ ~last)
      /\ \A u \in Threads : ByThread(u)' <=> ByThread(u)
      /\ \A b \in Buffers : Armed(b)' <=> Armed(b)
  BY <1>1, <1>3 DEF Pending, PendingOn, HwOn, ByThread, Armed
<1>10. /\ d # NULL => (Expired' <=> Expired)
       /\ d = NULL => ~Expired /\ (Expired' <=> last)
                      /\ \A k \in 1..Len(dqrr') : dqrr'[k].expired => k = Len(dqrr')
  <2>1. d # NULL => (Expired' <=> Expired)
    BY <1>1 DEF Expired
  <2>2. ASSUME d = NULL PROVE ~Expired
    BY <1>9, <2>2 DEF IInv, Flow
  <2>3. ASSUME d = NULL, NEW k \in 1..Len(dqrr') PROVE dqrr'[k].expired <=> last /\ k = Len(dqrr')
    <3>0. Len(dqrr) \in Nat /\ Len(dqrr') = Len(dqrr) + 1
      BY <1>7, <2>3 DEF Types
    <3>1. CASE k = Len(dqrr) + 1
      BY <1>5, <1>7, <2>3, <3>0, <3>1
    <3>2. CASE k # Len(dqrr) + 1
      <4>1. k \in 1..Len(dqrr) /\ Len(dqrr') = Len(dqrr) + 1
        BY <2>3, <3>0, <3>2
      <4>2. ~dqrr'[k].expired
        BY <1>7, <2>2, <2>3, <4>1 DEF Expired
      <4> QED
        BY <3>2, <4>1, <4>2
    <3> QED
      BY <3>1, <3>2
  <2>4. d = NULL => Len(dqrr') \in 1..Len(dqrr')
    BY <1>7 DEF Types
  <2> QED
    BY <2>1, <2>2, <2>3, <2>4 DEF Expired
<1>11. DqrrOpen' <=> DqrrOpen
  BY <1>9, <1>10 DEF DqrrOpen
<1>12. Rights'
  <2>1. Undo' = Undo /\ busy \in Int /\ busy' = busy
    BY <1>1 DEF Undo, Types
  <2> QED
    BY <1>1, <1>9, <1>11, <2>1, SameRights, UndoFacts DEF Dests, SameWriter
<1>13. Calls'
  <2> SUFFICES ASSUME NEW t \in Threads PROVE CallOk(t)'
    BY DEF Calls
  <2>1. CallOk(t) /\ (Polling(t)' <=> Polling(t)) /\ (Submitting(t)' <=> Submitting(t))
    BY <1>1 DEF IInv, Calls, Polling, Submitting
  <2>2. PendingOn(th[t].dest)' <=> PendingOn(th[t].dest)
    BY <1>1, <1>9 DEF PendingOn
  <2> QED
    BY <1>1, <1>9, <2>1, <2>2 DEF CallOk
<1>14. Looks'
  <2> SUFFICES ASSUME NEW t \in Threads, Polling(t)' PROVE LookOk(t, th[t].dest)'
    BY DEF Looks
  <2>1. Polling(t) /\ LookOk(t, th[t].dest) /\ CallOk(t) /\ th'[t] = th[t]
    BY <1>1 DEF IInv, Looks, Calls, Polling
  <2> PICK b \in Buffers : b = th[t].dest
    BY <2>1 DEF CallOk
  <2>2. user'[b] = user[b] /\ user[b].next \in 1..MaxNumf
    BY <1>1 DEF Types
  <2>3. LookOk(t, b)'
    <3>1. CASE b # d
      <4>1. cells'[b] = cells[b]
        BY <1>1, <1>6, <3>1
      <4>2. ~HwOn(b)' /\ LookOk(t, b)
        BY <1>9, <2>1, <3>1 DEF Dests
      <4> QED
        BY <2>1, <2>2, <4>1, <4>2, LookStays
    <3>2. CASE b = d
      <4>1. LookOk(t, b) /\ user[b].next <= hw.written /\ ~Entry(b).last
        BY <1>9, <2>1, <3>2 DEF LookOk
      <4>2. d # NULL /\ user[b].next # m /\ hw.written \in Nat
        BY <3>2, <4>1, <2>2, VdqAssumption
      <4>3. Entry(b)' = Entry(b)
        BY <1>6, <2>2, <3>2, <4>2 DEF Entry
      <4>4. HwOn(b)' => user[b].next <= hw'.written
        BY <1>3, <1>9, <2>2, <4>1, <4>2
      <4> QED
        BY <2>1, <2>2, <4>1, <4>3, <4>4 DEF LookOk
    <3> QED
      BY <3>1, <3>2
  <2> QED
    BY <2>1, <2>3
<1>15. Apart'
  BY <1>1 DEF IInv, Apart
<1>16. Waiting'
  <2> SUFFICES ASSUME NEW b \in Buffers, NEW j \in 1..MaxNumf PROVE WaitOk(b, j)'
    BY DEF Waiting
  <2>1. WaitOk(b, j) /\ FlowOk(b) /\ user' = user
    BY <1>1 DEF IInv, Waiting, Flow
  <2>2. CASE b # d
    <3>1. cells'[b] = cells[b]
      BY <1>1, <1>6, <2>2
    <3>2. ~HwOn(b)' /\ (PendingOn(b)' <=> PendingOn(b))
      BY <1>9, <2>2
    <3> QED
      BY <2>1, <3>1, <3>2 DEF WaitOk
  <2>3. CASE b = d
    <3>1. /\ d # NULL /\ HwOn(b) /\ ~PendingOn(b)' /\ hw.written \in Nat
          /\ user[b].cmd = hw.cmd.id /\ user[b].next <= m /\ user[b].cmd # 0
      BY <1>1, <1>4, <1>9, <2>1, <2>3, VdqAssumption DEF FlowOk
    <3>2. \A i \in 1..MaxNumf : i > m => cells[b][i].tok = 0
      <4> SUFFICES ASSUME NEW i \in 1..MaxNumf, i > m PROVE cells[b][i].tok = 0
        OBVIOUS
      <4>1. WaitOk(b, i)
        BY DEF IInv, Waiting
      <4> QED
        BY <3>1, <4>1 DEF WaitOk
    <3>3. CASE j = m
      <4>1. cells'[b][j] = res
        BY <1>6, <2>3, <3>1, <3>3
      <4>2. \A i \in 1..MaxNumf : i > j => cells'[b][i].tok = 0
        BY <1>6, <2>3, <3>1, <3>2, <3>3, SMTT(30)
      <4>3. ~last => j < MaxNumf /\ j <= hw'.written
        BY <1>3, <1>4, <3>3
      <4>4. HwOn(b)' => ~last
        BY <1>9, <2>3
      <4> QED
        BY <1>5, <2>1, <3>1, <3>3, <4>1, <4>2, <4>3, <4>4 DEF WaitOk
    <3>4. CASE j # m
      <4>1. cells'[b][j] = cells[b][j]
        BY <1>6, <2>3, <3>1, <3>4
      <4> SUFFICES ASSUME cells[b][j].tok # 0 PROVE WaitOk(b, j)'
        BY <4>1 DEF WaitOk
      <4>2. /\ j >= user[b].next /\ cells[b][j].cmd = user[b].cmd /\ j <= hw.written
            /\ ~cells[b][j].last /\ j < MaxNumf
        BY <2>1, <3>1 DEF WaitOk
      <4>3. HwOn(b)' => j <= hw'.written
        BY <1>3, <1>9, <2>3, <3>1, <4>2
      <4> QED
        BY <2>1, <3>1, <4>1, <4>2, <4>3 DEF WaitOk
    <3> QED
      BY <3>3, <3>4
  <2> QED
    BY <2>2, <2>3
<1>17. Flow'
  <2>1. ASSUME NEW b \in Buffers PROVE FlowOk(b)'
    <3>1. FlowOk(b) /\ user' = user /\ vdqcr' = vdqcr
      BY <1>1 DEF IInv, Flow
    <3>2. user[b].next \in 1..MaxNumf /\ hw.written \in Nat
      BY DEF Types
    <3>3. HwOn(b)' => /\ HwOn(b) /\ hw'.cmd = hw.cmd /\ hw'.written = m
      BY <1>3, <1>9
    <3> QED
      BY <1>9, <3>1, <3>2, <3>3 DEF FlowOk
  <2>3. \A k \in 1..Len(dqrr') : dqrr'[k].expired => k = Len(dqrr')
    BY <1>1, <1>10 DEF IInv, Flow
  <2>4. ~(PendingOn(NULL)' /\ HwOn(NULL)')
    BY <1>9 DEF IInv, Flow
  <2>5. Expired' => ~PendingOn(NULL)' /\ ~HwOn(NULL)'
    BY <1>9, <1>10 DEF IInv, Flow
  <2> QED
    BY <1>1, <1>9, <2>1, <2>3, <2>4, <2>5 DEF IInv, Flow
<1>18. Bodies'
  BY <1>1, SameBodies DEF SameWriter
<1> QED
  BY <1>8, <1>12, <1>13, <1>14, <1>15, <1>16, <1>17, <1>18 DEF IInv

-----------------------------------------------------------------------------
LEMMA InductiveIInv == IInv /\ [Next]_vars => IInv'
<1> SUFFICES ASSUME IInv, [Next]_vars PROVE IInv'
  OBVIOUS
<1>1. CASE UNCHANGED vars
  BY <1>1, StutterIInv
<1>2. CASE QMan
  BY <1>2, StartStep, ResultStep DEF QMan
<1>3. ASSUME NEW t \in Threads, Call(t) PROVE IInv'
  BY <1>3, PullDecStep, PollTokenStep, DqrrNextStep DEF Call
<1>4. ASSUME NEW t \in Threads, Continue(t) PROVE IInv'
  BY <1>4, PullUndoStep, PullSetStorageStep, PullWriteStep, PollClearStep,
     PollCompareStep, PollNullStep, PollIncStep DEF Continue
<1>6. CASE BodySeen
  BY <1>6, BodySeenStep
<1>5. ASSUME NEW t \in Threads, Drain(t) PROVE IInv'
  BY <1>5, DrainStep
<1> QED
  BY <1>1, <1>2, <1>3, <1>4, <1>5, <1>6 DEF Next

THEOREM Inductive == Spec => []IInv
  BY InitIInv, InductiveIInv, PTL DEF Spec

\* Types, and vdq.busy within its bounds: never above 1, so no release too many
\* (qbman_swp_pull, qbman_swp_dqrr_next and the polling functions).
THEOREM TypeCorrect == Spec => []TypeOK
<1>1. IInv => TypeOK
  <2> SUFFICES ASSUME IInv PROVE TypeOK
    OBVIOUS
  <2>1. busy \in (-Cardinality(Threads)) .. 1
    BY UndoFacts DEF IInv, Types, Rights, BusyAccounted
  <2>2. \A k \in 1..Len(dqrr) : dqrr[k] \in [cmd : 1..MaxCmds, n : 1..MaxNumf, expired : BOOLEAN]
    <3> DEFINE R == [cmd : 1..MaxCmds, n : 1..MaxNumf, expired : BOOLEAN]
    <3>1. dqrr \in Seq(R)
      BY DEF IInv, Types
    <3> HIDE DEF R
    <3>2. \A k \in 1..Len(dqrr) : dqrr[k] \in R
      BY <3>1
    <3> QED
      BY <3>2 DEF R
  <2>3. /\ vdqcr.vb \in {0, 1} /\ vdqcr.cmd \in Commands \cup {None}
        /\ hw.vb \in {0, 1} /\ hw.cmd \in Commands \cup {None}
        /\ hw.written \in 0 .. MaxNumf - 1
    BY DEF IInv, Types
  <2> QED
    BY <2>1, <2>2, <2>3 DEF IInv, Types, TypeOK, CallType
<1> QED
  BY <1>1, Inductive, PTL

\* portal.h's "busy": one thread at a time submits, and no command is overwritten in
\* VDQCR before QMan has started it, even if a store to vdq.storage is late.
THEOREM RegisterIsOneDeep == Spec => []OneDeepPipeline
<1>1. IInv => OneDeepPipeline
  BY DEF IInv, OneDeepPipeline, Calls, CallOk, Rights, OneRight, ByThread, Pending
<1> QED
  BY <1>1, Inductive, PTL

\* What a poll returns is a result of the buffer's present command, never one left
\* from an old one (qbman_result_has_new_result and the other two).
THEOREM ResultsAreFresh == Spec => []FreshResults
<1>1. IInv => FreshResults
  <2> SUFFICES ASSUME IInv, NEW b \in Buffers, user[b].cmd # 0,
                      Entry(b).tok # 0 \/ \E t \in Threads : th[t].dest = b
               PROVE  Entry(b).cmd = user[b].cmd
    BY DEF FreshResults
  <2>1. CASE Entry(b).tok # 0
    <3>1. user[b].next \in 1..MaxNumf
      BY DEF IInv, Types
    <3>2. WaitOk(b, user[b].next)
      BY <3>1 DEF IInv, Waiting
    <3> QED
      BY <2>1, <3>2 DEF WaitOk, Entry
  <2>2. ASSUME NEW t \in Threads, th[t].dest = b PROVE Entry(b).cmd = user[b].cmd
    <3>1. CallOk(t) /\ b # NULL /\ th[t].pc \in
            {"idle", "won", "undo", "write", "clear", "compare", "null", "inc"}
      BY <2>2, VdqAssumption DEF IInv, Calls, Types, CallType
    <3>2. Polling(t)
      BY <2>2, <3>1 DEF CallOk, Submitting, Polling, Free
    <3>3. LookOk(t, th[t].dest)
      BY <3>2 DEF IInv, Looks
    <3> QED
      BY <2>2, <3>3 DEF LookOk
  <2> QED
    BY <2>1, <2>2
<1> QED
  BY <1>1, Inductive, PTL

\* vdq.busy is 1, less one while somebody has the right to give it back or has lost
\* it to a late NULL, less one for each pull that has yet to undo its decrement.
THEOREM BusyIsAccounted == Spec => []BusyAccounted
<1>1. IInv => BusyAccounted
  BY DEF IInv, Rights
<1> QED
  BY <1>1, Inductive, PTL

\* When all results have been seen, vdq was given back, once for each command, unless
\* a late NULL has taken it away: by whichever functions the users poll.
THEOREM BusyComesBack == Spec => []ReleasedUnlessLost
<1>1. IInv => ReleasedUnlessLost
  <2> SUFFICES ASSUME IInv, ~lost, Quiet PROVE busy = 1
    BY DEF ReleasedUnlessLost, ReleasedOnce
  <2>1. ~Right
    BY DEF Quiet, Right, ByThread, Armed, DqrrOpen, PendingOn, HwOn, Expired, Free
  <2>2. Undo = {}
    BY DEF Quiet, Undo
  <2>3. Cardinality(Undo) = 0
    BY <2>2, FS_EmptySet
  <2> QED
    BY <2>1, <2>3 DEF IInv, Rights, BusyAccounted
<1> QED
  BY <1>1, Inductive, PTL

\* If a step loses the right, some thread's NULL for another command's storage is not
\* yet visible: in a program where stores to vdq.storage are seen in order with
\* vdq.busy, vdq always comes back.
LEMMA NullIsLate ==
  ASSUME IInv, [Next]_vars, lost' # lost PROVE LateNull
<1> USE CmdFacts DEF IInv
<1>0. lost \in BOOLEAN
  BY DEF Types
<1>1. ASSUME NEW t \in Threads, StoreSeen(t) PROVE LateNull
  <2>1. unseen[t] # NULL /\ \E b \in Buffers : Armed(b) \/ Arming(b)
    <3>1. lost' = (lost \/ (unseen[t] # NULL /\ \E b \in Buffers : Armed(b) \/ Arming(b)))
      BY <1>1 DEF StoreSeen
    <3> QED
      BY <1>0, <3>1, Zenon
  <2> PICK b \in Buffers : Armed(b) \/ Arming(b)
    BY <2>1
  <2>2. CASE Armed(b)
    BY <2>1, <2>2 DEF Armed, LateNull
  <2>3. CASE Arming(b)
    <3> PICK u \in Threads : th[u].pc = "write" /\ th[u].dest = b
      BY <2>3 DEF Arming
    <3>1. storage = b /\ b # NULL /\ unseen[u] = NULL
      BY <2>3 DEF Arming, Calls, CallOk
    <3>2. unseen[t] # b
      BY <2>1, <3>1 DEF Apart
    <3> QED
      BY <2>1, <3>1, <3>2 DEF LateNull
  <2> QED
    BY <2>2, <2>3
<1>2. ASSUME NEW t \in Threads, Polling(t), PollReturn(t),
             th[t].pc = "clear" => th[t].api = "check_new",
             th[t].pc = "compare" => ~(SeenStorage(t) = th[t].dest
                                       /\ user[th[t].dest].next = 1),
             th[t].pc # "null"
      PROVE  LateNull
  <2> PICK b \in Buffers : b = th[t].dest
    BY <1>2 DEF Calls, CallOk
  <2>1. Armed(b) /\ th[t].api # "complete"
    <3>1. th[t].api # "complete" /\ lost' = (lost \/ Armed(b))
      BY <1>2 DEF PollReturn, Advance
    <3> QED
      BY <1>0, <3>1, Zenon
  <2>2. user[b].next = 1 /\ storage = b /\ CallOk(t)
    BY <2>1 DEF Armed, Calls
  <2>3. CASE th[t].pc = "clear"
    <3>1. user[b].released
      BY <1>2, <2>2, <2>3 DEF CallOk
    <3>2. \E u \in Threads : unseen[u] \notin {NULL, b}
      BY <2>1, <3>1 DEF Rights, Overlooked
    <3> QED
      BY <2>2, <3>2 DEF LateNull
  <2>4. CASE th[t].pc = "compare"
    <3>1. unseen[t] # NULL /\ unseen[t] # b
      BY <1>2, <2>1, <2>2, <2>4 DEF SeenStorage, Armed
    <3> QED
      BY <2>2, <3>1 DEF LateNull
  <2>5. CASE th[t].pc = "inc"
    BY <2>1, <2>5 DEF Armed
  <2> QED
    BY <1>2, <2>3, <2>4, <2>5 DEF Polling
<1>3. ASSUME NEW t \in Threads, Call(t) PROVE LateNull
  BY <1>1, <1>3 DEF Call, PullDec, PollToken, DqrrNext
<1>4. ASSUME NEW t \in Threads, Continue(t) PROVE LateNull
  <2>1. PollClear(t) \/ PollCompare(t) \/ PollInc(t)
    BY <1>4 DEF Continue, PullUndo, PullSetStorage, PullWrite, PollNull
  <2>2. CASE PollClear(t)
    BY <1>2, <2>2 DEF PollClear, Polling
  <2>3. CASE PollCompare(t)
    BY <1>2, <2>3 DEF PollCompare, Polling
  <2>4. CASE PollInc(t)
    BY <1>2, <2>4 DEF PollInc, Polling
  <2> QED
    BY <2>1, <2>2, <2>3, <2>4
<1>5. ASSUME NEW t \in Threads, Drain(t) PROVE LateNull
  BY <1>1, <1>5 DEF Drain
<1>6. ~QMan /\ ~BodySeen /\ ~UNCHANGED vars
  BY DEF QMan, Start, Result, BodySeen, vars
<1> QED
  BY <1>3, <1>4, <1>5, <1>6 DEF Next

\* The right to give vdq back is lost in one way only: to a store of NULL that is
\* overtaken by the atomic_inc behind it (qbman_result_has_new_result,
\* qbman_check_command_complete).
THEOREM LostOnlyByLateNull == Spec => LostByLateNull
<1>1. IInv /\ [Next]_vars => [lost' # lost => LateNull]_vars
  BY NullIsLate
<1> QED
  BY <1>1, Inductive, PTL DEF Spec, LostByLateNull

-----------------------------------------------------------------------------
(* Vdq implements Pulls.  What that needs beside IInv: which command has   *)
(* the right, and the order of results.                                    *)

\* Commands are numbered as they are issued, and buffers by the command they have.
Numbers ==
  /\ Pending => vdqcr.cmd.id = cmds
  /\ hw.cmd = None => hw.written = 0
  /\ \A b \in Buffers : user[b].cmd <= cmds
  /\ \A b \in Buffers : \A j \in 1..MaxNumf : cells[b][j].cmd <= cmds
  /\ \A b, c \in Buffers : user[b].cmd # 0 /\ user[b].cmd = user[c].cmd => b = c

\* A command with the right to give vdq back is the one issued last.
Owed(b) == user[b].cmd # 0 /\ (Armed(b) \/ \E t \in Threads :
                                 th[t].pc \in {"null", "inc"} /\ th[t].dest = b)
Newest ==
  /\ \A b \in Buffers : Owed(b) => user[b].cmd = cmds
  /\ DqrrOpen => \A b \in Buffers : user[b].cmd < cmds
  /\ HwOn(NULL) => hw.cmd.id = cmds

\* Results in DQRR are those of one command, in their order.
InOrder ==
  /\ dqrr # <<>> => HwOn(NULL) \/ Expired
  /\ \A k \in 1..Len(dqrr) : dqrr[k].cmd = cmds /\ (HwOn(NULL) => dqrr[k].n <= hw.written)
  /\ \A k, l \in 1..Len(dqrr) : k < l => dqrr[k].n < dqrr[l].n

\* Entries of a buffer that are of its command were written since it was issued;
\* the last one is written, or will be.
CellOk(b, j) ==
  user[b].cmd # 0 /\ cells[b][j].cmd = user[b].cmd =>
    /\ ~PendingOn(b)
    /\ HwOn(b) => j <= hw.written /\ ~cells[b][j].last
    /\ cells[b][j].last => \A i \in 1..MaxNumf : i > j => cells[b][i].cmd # user[b].cmd
LastComes(b) ==
  user[b].cmd # 0 =>
    \/ PendingOn(b) \/ HwOn(b)
    \/ \E j \in 1..MaxNumf : /\ j >= user[b].next /\ cells[b][j].cmd = user[b].cmd
                             /\ cells[b][j].last
InBuffers == \A b \in Buffers : LastComes(b) /\ \A j \in 1..MaxNumf : CellOk(b, j)

InFlight == Numbers /\ Newest /\ InOrder /\ InBuffers

LEMMA InitInFlight == Init => InFlight
<1> SUFFICES ASSUME Init PROVE InFlight
  OBVIOUS
<1>1. /\ \A b \in Buffers : user[b].cmd = 0 /\ \A j \in 1..MaxNumf : cells[b][j].cmd = 0
      /\ ~Pending /\ hw.cmd = None /\ hw.written = 0 /\ dqrr = <<>>
      /\ cmds = 0
  BY DEF Init, Free, Pending, None
<1>2. ~HwOn(NULL) /\ ~DqrrOpen
  BY <1>1 DEF HwOn, DqrrOpen, PendingOn, Expired
<1>3. Numbers
  BY <1>1 DEF Numbers
<1>4. Newest /\ InBuffers
  BY <1>1, <1>2 DEF Newest, Owed, InBuffers, CellOk, LastComes
<1>5. InOrder
  BY <1>1, <1>2 DEF InOrder
<1> QED
  BY <1>3, <1>4, <1>5 DEF InFlight

\* Only steps on commands and results matter.
OwedStays == \A b \in Buffers : Owed(b)' => Owed(b)
SameCommand == vdqcr' = vdqcr \/ (~Pending /\ ~Pending')

LEMMA SameInFlight ==
  ASSUME InFlight, UNCHANGED <<cells, user, dqrr, hw, cmds>>, SameCommand, OwedStays
  PROVE  InFlight'
<1>1. /\ \A d : (PendingOn(d)' <=> PendingOn(d)) /\ (HwOn(d)' <=> HwOn(d))
      /\ (Pending' <=> Pending) /\ (Pending => vdqcr' = vdqcr) /\ (Expired' <=> Expired)
  BY DEF SameCommand, Pending, PendingOn, HwOn, Expired
<1>2. DqrrOpen' <=> DqrrOpen
  BY <1>1 DEF DqrrOpen
<1>3. Numbers'
  BY <1>1 DEF InFlight, Numbers
<1>4. Newest'
  BY <1>1, <1>2 DEF InFlight, Newest, OwedStays
<1>5. InOrder'
  BY <1>1 DEF InFlight, InOrder
<1>6. InBuffers'
  BY <1>1 DEF InFlight, InBuffers, CellOk, LastComes
<1> QED
  BY <1>3, <1>4, <1>5, <1>6 DEF InFlight

\* A command gets the right to give vdq back by PullWrite alone.
LEMMA OthersOwed ==
  ASSUME IInv, [Next]_vars, ~ \E t \in Threads : PullWrite(t) PROVE OwedStays
<1> SUFFICES ASSUME NEW b \in Buffers, Owed(b)' PROVE Owed(b)
  BY DEF OwedStays
<1>0. Types /\ b # NULL
  BY VdqAssumption DEF IInv
<1>1. CASE UNCHANGED <<storage, unseen, th, user>>
  BY <1>1 DEF Owed, Armed
<1>2. ASSUME NEW t \in Threads, \A u \in Threads \ {t} : th'[u] = th[u],
             th'[t].pc \notin {"null", "inc"}, th[t].pc \notin {"null", "inc"},
             StoreSeen(t) \/ UNCHANGED <<storage, unseen>>,
             user'[b] = user[b]
      PROVE  Owed(b)
  <2>1. CASE Armed(b)'
    <3>1. storage = b /\ unseen' = unseen
      BY <1>0, <1>2, <2>1 DEF Armed, StoreSeen, SeenStorage, Types
    <3>2. Armed(b)
      BY <1>2, <2>1, <3>1 DEF Armed
    <3> QED
      BY <1>2, <3>2 DEF Owed
  <2>2. CASE ~Armed(b)'
    <3> PICK u \in Threads : th'[u].pc \in {"null", "inc"} /\ th'[u].dest = b
      BY <2>2 DEF Owed
    <3> QED
      BY <1>2 DEF Owed
  <2> QED
    BY <2>1, <2>2
<1>3. ASSUME NEW t \in Threads, Polling(t), PollReturn(t), UNCHANGED <<storage, unseen>>
      PROVE  Owed(b)
  <2>1. /\ th[t].dest \in Buffers /\ CallOk(t) /\ LookOk(t, th[t].dest)
    BY <1>3 DEF IInv, Calls, CallOk, Looks
  <2>2. /\ th'[t].pc = "idle" /\ \A u \in Threads \ {t} : th'[u] = th[u]
        /\ \A c \in Buffers \ {th[t].dest} : user'[c] = user[c]
        /\ IF th[t].api = "complete"
             THEN /\ user'[th[t].dest].cmd = user[th[t].dest].cmd
                  /\ user'[th[t].dest].next = user[th[t].dest].next
             ELSE user'[th[t].dest] = Free
                  \/ user'[th[t].dest].next = user[th[t].dest].next + 1
    BY <1>0, <1>3, <2>1, ReturnIs DEF LookOk
  <2>3. ASSUME NEW u \in Threads, th'[u].pc \in {"null", "inc"}, th'[u].dest = b
        PROVE  Owed(b)
    <3>1. u # t /\ th[u] = th'[u]
      BY <2>2, <2>3
    <3>2. user[b].cmd # 0
      BY <2>3, <3>1 DEF IInv, Calls, CallOk, Polling
    <3> QED
      BY <2>3, <3>1, <3>2 DEF Owed
  <2>4. CASE Armed(b)'
    <3>1. storage = b /\ unseen' = unseen /\ user'[b].cmd # 0 /\ user'[b].next = 1
      BY <1>3, <2>4 DEF Armed
    <3>2. user[b].cmd # 0 /\ user[b].next = 1
      <4>1. user[th[t].dest].next \in 1..MaxNumf
        BY <1>0, <2>1 DEF Types
      <4> QED
        BY <2>2, <3>1, <4>1 DEF Free
    <3>3. CASE th[t].dest = b /\ th[t].pc \in {"null", "inc"}
      BY <3>2, <3>3 DEF Owed
    <3>4. CASE ~(th[t].dest = b /\ th[t].pc \in {"null", "inc"})
      BY <2>2, <2>4, <3>1, <3>2, <3>4 DEF Armed, Owed
    <3> QED
      BY <3>3, <3>4
  <2> QED
    BY <2>3, <2>4 DEF Owed
<1>4. ASSUME NEW t \in Threads, PullDec(t, NULL) \/ \E c \in Buffers : PullDec(t, c)
      PROVE  Owed(b)
  <2>1. /\ th[t].pc = "idle" /\ StoreSeen(t) /\ user' = user
        /\ th' = [th EXCEPT ![t] = th'[t]] /\ th'[t].pc \in {"won", "undo"}
    BY <1>0, <1>4 DEF PullDec, Types, Idle
  <2> QED
    BY <1>0, <1>2, <2>1 DEF Types
<1>5. ASSUME NEW t \in Threads, Call(t) PROVE Owed(b)
  <2>1. CASE \E dest \in Dests : PullDec(t, dest)
    BY <1>4, <2>1 DEF Dests
  <2>2. ASSUME NEW c \in Buffers, NEW api \in PollApis, PollToken(t, c, api) PROVE Owed(b)
    BY <1>0, <1>2, <2>2 DEF PollToken, Types
  <2>3. CASE DqrrNext(t)
    BY <1>1, <2>3 DEF DqrrNext
  <2> QED
    BY <1>5, <2>1, <2>2, <2>3 DEF Call
<1>6. ASSUME NEW t \in Threads, Continue(t) PROVE Owed(b)
  <2>1. CASE PullUndo(t)
    BY <1>0, <1>2, <2>1, DoneIs DEF PullUndo
  <2>2. CASE PullSetStorage(t)
    <3>1. th[t].pc = "won" /\ storage' = th[t].dest /\ UNCHANGED <<unseen, user>>
          /\ th'[t].pc = "write" /\ \A u \in Threads \ {t} : th'[u] = th[u]
      BY <1>0, <2>2, GotoIs DEF PullSetStorage
    <3>2. user[b].cmd # 0 /\ CallOk(t)
      BY <3>1 DEF Owed, IInv, Calls
    <3>3. th[t].dest # b
      BY <1>0, <3>1, <3>2 DEF CallOk, Submitting, Free
    <3>4. ~Armed(b)'
      BY <3>1, <3>3 DEF Armed
    <3> PICK u \in Threads : th'[u].pc \in {"null", "inc"} /\ th'[u].dest = b
      BY <3>4 DEF Owed
    <3> QED
      BY <3>1, <3>2 DEF Owed
  <2>3. CASE PollClear(t)
    <3>1. th[t].pc = "clear" /\ UNCHANGED <<storage, unseen>>
      BY <2>3 DEF PollClear
    <3>2. CASE PollReturn(t)
      BY <1>3, <3>1, <3>2 DEF Polling
    <3>3. CASE Goto(t, "compare") /\ user' = user
      BY <1>0, <1>2, <3>1, <3>3, GotoIs
    <3> QED
      BY <2>3, <3>2, <3>3 DEF PollClear
  <2>4. CASE PollCompare(t)
    <3>1. th[t].pc = "compare" /\ UNCHANGED <<storage, unseen>>
      BY <2>4 DEF PollCompare
    <3>2. CASE PollReturn(t)
      BY <1>3, <3>1, <3>2 DEF Polling
    <3>3. CASE /\ SeenStorage(t) = th[t].dest /\ user[th[t].dest].next = 1
               /\ Goto(t, "null") /\ user' = user
      <4>1. /\ th'[t].pc = "null" /\ th'[t].dest = th[t].dest
            /\ \A u \in Threads \ {t} : th'[u] = th[u]
        BY <1>0, <3>3, GotoIs
      <4>2. CASE th[t].dest # b
        BY <3>1, <3>3, <4>1, <4>2 DEF Owed, Armed
      <4>3. CASE th[t].dest = b
        <5>1. storage = b /\ unseen[t] = NULL /\ user[b].cmd # 0 /\ user[b].next = 1
          BY <1>0, <3>1, <3>3, <4>3 DEF SeenStorage, IInv, Calls, CallOk, Polling
        <5>2. \A u \in Threads \ {t} : unseen[u] # b /\ th[u].dest # b
          BY <4>3 DEF IInv, Apart
        <5>3. Armed(b)
          BY <1>0, <3>1, <5>1, <5>2 DEF Armed
        <5> QED
          BY <5>1, <5>3 DEF Owed
      <4> QED
        BY <4>2, <4>3
    <3> QED
      BY <2>4, <3>2, <3>3 DEF PollCompare
  <2>5. CASE PollNull(t)
    <3>1. /\ th[t].pc = "null" /\ th'[t].pc = "inc" /\ th'[t].dest = th[t].dest
          /\ \A u \in Threads \ {t} : th'[u] = th[u]
          /\ unseen' = [unseen EXCEPT ![t] = th[t].dest] /\ storage' = storage /\ user' = user
      BY <1>0, <2>5, GotoIs DEF PollNull
    <3>2. \A u \in Threads \ {t} : unseen'[u] = unseen[u]
      BY <1>0, <3>1 DEF Types
    <3>3. unseen[t] = NULL
      BY <3>1 DEF IInv, Calls, CallOk
    <3> QED
      BY <1>0, <3>1, <3>2, <3>3 DEF Owed, Armed
  <2>6. CASE PollInc(t)
    BY <1>3, <2>6 DEF PollInc, Polling
  <2> QED
    BY <1>6, <2>1, <2>2, <2>3, <2>4, <2>5, <2>6 DEF Continue
<1>7. ASSUME NEW t \in Threads, Drain(t) PROVE Owed(b)
  <2>1. StoreSeen(t) /\ th' = th /\ user' = user
    BY <1>7 DEF Drain
  <2>2. CASE Armed(b)'
    <3>1. storage = b /\ unseen' = unseen
      BY <1>0, <2>1, <2>2 DEF Armed, StoreSeen, SeenStorage, Types
    <3> QED
      BY <2>1, <2>2, <3>1 DEF Armed, Owed
  <2> QED
    BY <2>1, <2>2 DEF Owed
<1>8. CASE QMan \/ BodySeen
  BY <1>1, <1>8 DEF QMan, Start, Result, BodySeen
<1> QED
  BY <1>1, <1>5, <1>6, <1>7, <1>8 DEF Next, vars

\* The types that the steps need.
LEMMA DataTypes ==
  ASSUME Types
  PROVE  /\ cmds \in Nat /\ MaxNumf \in Nat /\ hw.written \in Nat /\ Len(dqrr) \in Nat
         /\ \A b \in Buffers : /\ user[b].cmd \in 0..MaxCmds /\ user[b].next \in 1..MaxNumf
                               /\ user[b].released \in BOOLEAN
         /\ \A b \in Buffers : \A j \in 1..MaxNumf :
              cells[b][j].cmd \in 0..MaxCmds /\ cells[b][j].last \in BOOLEAN
         /\ \A k \in 1..Len(dqrr) : /\ dqrr[k].cmd \in 1..MaxCmds /\ dqrr[k].n \in 1..MaxNumf
                                    /\ dqrr[k].expired \in BOOLEAN
<1>1. cmds \in Nat /\ MaxNumf \in Nat /\ hw.written \in Nat /\ Len(dqrr) \in Nat
  BY VdqAssumption DEF Types
<1>2. \A b \in Buffers : /\ user[b].cmd \in 0..MaxCmds /\ user[b].next \in 1..MaxNumf
                         /\ user[b].released \in BOOLEAN
  BY DEF Types
<1>3. \A b \in Buffers : \A j \in 1..MaxNumf :
        cells[b][j].cmd \in 0..MaxCmds /\ cells[b][j].last \in BOOLEAN
  <2> DEFINE C == [tok : {0, Token}, cmd : 0..MaxCmds, last : BOOLEAN]
  <2>1. cells \in [Buffers -> [1..MaxNumf -> C]]
    BY Zenon DEF Types
  <2>2. \A x \in C : x.cmd \in 0..MaxCmds /\ x.last \in BOOLEAN
    OBVIOUS
  <2> HIDE DEF C
  <2>3. \A b \in Buffers : \A j \in 1..MaxNumf : cells[b][j] \in C
    BY <2>1
  <2> QED
    BY <2>2, <2>3
<1>4. \A k \in 1..Len(dqrr) : /\ dqrr[k].cmd \in 1..MaxCmds /\ dqrr[k].n \in 1..MaxNumf
                              /\ dqrr[k].expired \in BOOLEAN
  <2> DEFINE R == [cmd : 1..MaxCmds, n : 1..MaxNumf, expired : BOOLEAN]
  <2>1. dqrr \in Seq(R)
    BY Zenon DEF Types
  <2>2. \A x \in R : x.cmd \in 1..MaxCmds /\ x.n \in 1..MaxNumf /\ x.expired \in BOOLEAN
    OBVIOUS
  <2> HIDE DEF R
  <2>3. \A k \in 1..Len(dqrr) : dqrr[k] \in R
    BY <2>1
  <2> QED
    BY <2>2, <2>3
<1> QED
  BY <1>1, <1>2, <1>3, <1>4

\* The caller learns that the command of its buffer executes; or it gets the next
\* result. Tokens may change, what they stand for does not.
ProvenIs(b) == user'[b].cmd = user[b].cmd /\ user'[b].next = user[b].next
FetchedIs(b) == IF Entry(b).last THEN user'[b] = Free
                ELSE user'[b].cmd = user[b].cmd /\ user'[b].next = user[b].next + 1
SameEntries == \A c \in Buffers : \A j \in 1..MaxNumf :
  cells'[c][j].cmd = cells[c][j].cmd /\ cells'[c][j].last = cells[c][j].last
OnlyUser(b) ==
  /\ \A c \in Buffers \ {b} : user'[c] = user[c]
  /\ SameEntries
  /\ UNCHANGED <<dqrr, vdqcr, hw, cmds>>

LEMMA SameFlow ==
  ASSUME UNCHANGED <<dqrr, vdqcr, hw, cmds>>
  PROVE  /\ \A d : (PendingOn(d)' <=> PendingOn(d)) /\ (HwOn(d)' <=> HwOn(d))
         /\ (DqrrOpen' <=> DqrrOpen) /\ (Expired' <=> Expired) /\ (Pending' <=> Pending)
BY DEF PendingOn, HwOn, Pending, DqrrOpen, Expired

LEMMA ReturnInFlight ==
  ASSUME InFlight, Types, NEW b \in Buffers, OnlyUser(b), ProvenIs(b) \/ FetchedIs(b),
         OwedStays
  PROVE  InFlight'
<1>1. /\ \A c \in Buffers : c # b => user'[c] = user[c]
      /\ user'[b].cmd = user[b].cmd \/ user'[b].cmd = 0
      /\ user'[b].next >= user[b].next \/ user'[b].cmd = 0
      /\ UNCHANGED <<dqrr, vdqcr, hw, cmds>>
  BY DataTypes DEF OnlyUser, ProvenIs, FetchedIs, Free
<1>2. \A c \in Buffers : \A j \in 1..MaxNumf :
        cells'[c][j].cmd = cells[c][j].cmd /\ cells'[c][j].last = cells[c][j].last
  BY DEF OnlyUser, SameEntries
<1>3. /\ \A d : (PendingOn(d)' <=> PendingOn(d)) /\ (HwOn(d)' <=> HwOn(d))
      /\ (DqrrOpen' <=> DqrrOpen) /\ (Expired' <=> Expired) /\ (Pending' <=> Pending)
  BY <1>1, SameFlow
<1>4. Numbers'
  <2>1. \A c \in Buffers : user'[c].cmd = user[c].cmd \/ user'[c].cmd = 0
    BY <1>1
  <2>2. cmds \in Nat /\ \A c \in Buffers : user[c].cmd <= cmds
    BY DataTypes DEF InFlight, Numbers
  <2> QED
    BY <1>1, <1>2, <1>3, <2>1, <2>2 DEF InFlight, Numbers
<1>5. Newest'
  <2>1. \A c \in Buffers : Owed(c)' => Owed(c) /\ user'[c].cmd = user[c].cmd
    BY <1>1 DEF Owed, OwedStays
  <2>2. ASSUME DqrrOpen, NEW c \in Buffers PROVE user'[c].cmd < cmds
    <3>1. user[c].cmd < cmds /\ user[c].cmd \in Nat /\ cmds \in Nat
      BY <2>2, DataTypes DEF InFlight, Newest
    <3>2. user'[c].cmd = user[c].cmd \/ user'[c].cmd = 0
      BY <1>1
    <3> QED
      BY <3>1, <3>2
  <2> QED
    BY <1>1, <1>3, <2>1, <2>2 DEF InFlight, Newest
<1>6. InOrder'
  BY <1>1, <1>3 DEF InFlight, InOrder
<1>7. InBuffers'
  <2> SUFFICES ASSUME NEW c \in Buffers
               PROVE  LastComes(c)' /\ \A j \in 1..MaxNumf : CellOk(c, j)'
    BY DEF InBuffers
  <2>1. LastComes(c) /\ \A j \in 1..MaxNumf : CellOk(c, j)
    BY DEF InFlight, InBuffers
  <2>2. ASSUME NEW j \in 1..MaxNumf PROVE CellOk(c, j)'
    BY <1>1, <1>2, <1>3, <2>1 DEF CellOk
  <2>3. LastComes(c)'
    <3> SUFFICES ASSUME user'[c].cmd # 0, ~PendingOn(c), ~HwOn(c) PROVE LastComes(c)'
      BY <1>3 DEF LastComes
    <3>1. user'[c].cmd = user[c].cmd
      BY <1>1
    <3> PICK j \in 1..MaxNumf : /\ j >= user[c].next /\ cells[c][j].cmd = user[c].cmd
                                /\ cells[c][j].last
      BY <2>1, <3>1 DEF LastComes
    <3>2. j >= user'[c].next
      <4>1. c = b /\ FetchedIs(b) => ~Entry(b).last /\ j # user[b].next
        BY <3>1 DEF FetchedIs, Entry, Free
      <4> QED
        BY <1>1, <4>1, DataTypes DEF FetchedIs, ProvenIs
    <3> QED
      BY <1>2, <3>1, <3>2 DEF LastComes
  <2> QED
    BY <2>2, <2>3
<1> QED
  BY <1>4, <1>5, <1>6, <1>7 DEF InFlight

-----------------------------------------------------------------------------
(* The results to be fetched. *)

LEMMA OutstandingIs ==
  ASSUME NEW c, NEW n
  PROVE  <<c, n>> \in Outstanding <=>
           c \in 1..MaxCmds /\ n \in 1..MaxNumf /\ (InBuffer(c, n) \/ InDqrr(c, n))
BY DEF Outstanding

\* Of a command in a buffer, all results are in that buffer.
LEMMA OfBuffer ==
  ASSUME InFlight, Types, NEW b \in Buffers, user[b].cmd # 0, NEW n \in 1..MaxNumf
  PROVE  <<user[b].cmd, n>> \in Outstanding <=>
           n >= user[b].next /\ cells[b][n].cmd = user[b].cmd
<1>1. ~InDqrr(user[b].cmd, n)
  <2> SUFFICES ASSUME NEW k \in 1..Len(dqrr), dqrr[k].cmd = user[b].cmd PROVE FALSE
    BY DEF InDqrr
  <2>1. DqrrOpen /\ dqrr[k].cmd = cmds
    BY DEF InFlight, InOrder, DqrrOpen
  <2>2. user[b].cmd < cmds
    BY <2>1 DEF InFlight, Newest
  <2> QED
    BY <2>1, <2>2, DataTypes
<1>2. InBuffer(user[b].cmd, n) <=> n >= user[b].next /\ cells[b][n].cmd = user[b].cmd
  BY DEF InBuffer, InFlight, Numbers
<1>3. user[b].cmd \in 1..MaxCmds
  BY DataTypes
<1> QED
  BY <1>1, <1>2, <1>3, OutstandingIs

\* The entry a buffer is at is the next of its results; the caller that gets it
\* takes this one away and no other.
LEMMA FetchIs ==
  ASSUME InFlight, Types, NEW b \in Buffers, user[b].cmd # 0, Entry(b).cmd = user[b].cmd,
         OnlyUser(b), FetchedIs(b)
  PROVE  LET r == <<user[b].cmd, user[b].next>> IN
         /\ r \in Outstanding /\ Outstanding' = Outstanding \ {r}
         /\ \A q \in Outstanding : q[1] = r[1] => q[2] >= r[2]
<1> DEFINE r == <<user[b].cmd, user[b].next>>
<1>1. user[b].next \in 1..MaxNumf /\ user[b].cmd \in 1..MaxCmds
  BY DataTypes
<1>2. r \in Outstanding
  BY <1>1, OfBuffer, DataTypes DEF Entry
<1>3. ASSUME NEW q \in Outstanding, q[1] = r[1] PROVE q[2] >= r[2]
  <2>1. q = <<user[b].cmd, q[2]>> /\ q[2] \in 1..MaxNumf
    BY <1>3 DEF Outstanding
  <2> QED
    BY <2>1, OfBuffer
<1>4. ASSUME NEW c \in 1..MaxCmds, NEW n \in 1..MaxNumf
      PROVE  InBuffer(c, n)' <=> InBuffer(c, n) /\ <<c, n>> # r
  <2>1. /\ \A e \in Buffers : e # b => user'[e] = user[e]
        /\ \A e \in Buffers : cells'[e][n].cmd = cells[e][n].cmd
    BY DEF OnlyUser, SameEntries
  <2>2. CASE c # user[b].cmd
    <3>1. ~ (user[b].cmd = c) /\ ~ (user'[b].cmd = c)
      BY <2>2 DEF FetchedIs, Free
    <3> QED
      BY <2>1, <2>2, <3>1 DEF InBuffer
  <2>3. CASE c = user[b].cmd
    <3>1. \A e \in Buffers : user[e].cmd = c => e = b
      BY <2>3 DEF InFlight, Numbers
    <3>2. InBuffer(c, n) <=> n >= user[b].next /\ cells[b][n].cmd = c
      BY <2>3, <3>1 DEF InBuffer
    <3>3. InBuffer(c, n)' <=> /\ user'[b].cmd = c /\ n >= user'[b].next /\ cells[b][n].cmd = c
      BY <2>1, <2>3, <3>1 DEF InBuffer
    <3>4. CASE Entry(b).last
      <4>1. user'[b].cmd = 0
        BY <3>4 DEF FetchedIs, Free
      <4>2. CellOk(b, user[b].next)
        BY <1>1 DEF InFlight, InBuffers
      <4>3. n > user[b].next => cells[b][n].cmd # user[b].cmd
        BY <3>4, <4>2 DEF CellOk, Entry
      <4> QED
        BY <1>1, <2>3, <3>2, <3>3, <4>1, <4>3
    <3>5. CASE ~Entry(b).last
      <4>1. user'[b].cmd = c /\ user'[b].next = user[b].next + 1
        BY <2>3, <3>5 DEF FetchedIs
      <4> QED
        BY <1>1, <2>3, <3>2, <3>3, <4>1
    <3> QED
      BY <3>4, <3>5
  <2> QED
    BY <2>2, <2>3
<1>5. ASSUME NEW c \in 1..MaxCmds, NEW n \in 1..MaxNumf
      PROVE  InDqrr(c, n)' <=> InDqrr(c, n)
  BY DEF InDqrr, OnlyUser
<1>6. ASSUME NEW c \in 1..MaxCmds, NEW n \in 1..MaxNumf, InDqrr(c, n)
      PROVE  <<c, n>> # r
  <2>1. PICK k \in 1..Len(dqrr) : dqrr[k].cmd = c
    BY <1>6 DEF InDqrr
  <2>2. DqrrOpen /\ c = cmds
    BY <2>1 DEF InFlight, InOrder, DqrrOpen
  <2>3. user[b].cmd < cmds
    BY <2>2 DEF InFlight, Newest
  <2> QED
    BY <2>2, <2>3, DataTypes
<1>7. Outstanding' = Outstanding \ {r}
  <2>1. Outstanding' = {x \in (1..MaxCmds) \X (1..MaxNumf) :
                          InBuffer(x[1], x[2])' \/ InDqrr(x[1], x[2])'}
    BY DEF Outstanding
  <2>2. \A x \in (1..MaxCmds) \X (1..MaxNumf) :
          InBuffer(x[1], x[2])' \/ InDqrr(x[1], x[2])'
            <=> (InBuffer(x[1], x[2]) \/ InDqrr(x[1], x[2])) /\ x # r
    BY <1>4, <1>5, <1>6
  <2> HIDE DEF r
  <2> QED
    BY <2>1, <2>2 DEF Outstanding
<1> QED
  BY <1>2, <1>3, <1>7

-----------------------------------------------------------------------------
(* The state of Pulls. *)

Queued == IF Pending THEN vdqcr.cmd.id ELSE 0
Running == [cmd |-> hw.cmd.id, done |-> hw.written]
Caller == \E t \in Threads : th[t].pc \in {"won", "write"}

LEMMA QueuedIs ==
  ASSUME IInv
  PROVE  /\ Queued = 0 <=> ~Pending
         /\ Pending => Queued = vdqcr.cmd.id
<1>1. Pending => vdqcr.cmd \in Commands
  BY DEF IInv, Types, Flow
<1>2. Pending => vdqcr.cmd.id \in 1..MaxCmds
  BY <1>1 DEF Commands
<1> QED
  BY <1>2, VdqAssumption DEF Queued

LEMMA RunningIs ==
  ASSUME IInv, InFlight
  PROVE  Running = Abstract!NoRun <=> hw.cmd = None
<1>1. hw.cmd # None => hw.cmd \in Commands
  BY DEF IInv, Types
<1>2. hw.cmd = None => hw.written = 0
  BY DEF InFlight, Numbers
<1>3. hw.cmd # None => hw.cmd.id \in 1..MaxCmds
  BY <1>1 DEF Commands
<1> QED
  BY <1>2, <1>3, VdqAssumption DEF Running, Abstract!NoRun, None

\* The right of Pulls is the right to give vdq back.
HolderOk == Holder = IF Caller THEN "caller" ELSE IF lost THEN "lost"
                     ELSE IF Right THEN "command" ELSE "nobody"

LEMMA HolderIs == IInv => HolderOk
<1> SUFFICES ASSUME IInv PROVE HolderOk
  OBVIOUS
<1>1. busy = 1 - (IF Right \/ lost THEN 1 ELSE 0) - Cardinality(Undo)
  BY DEF IInv, Rights, BusyAccounted
<1>2. ~lost => (busy + Cardinality(Undo) = 1 <=> ~Right)
  BY <1>1, UndoFacts
<1> QED
  BY <1>2 DEF HolderOk, Holder, Caller

LEMMA HolderIsThen == IInv' => HolderOk'
  BY HolderIs, PTL

LEMMA HolderStays ==
  ASSUME UNCHANGED <<busy, lost>>, Undo' = Undo, Caller' <=> Caller
  PROVE  Holder' = Holder
BY DEF Holder, Caller

\* While a right is out, the register is either with who submits, or something of the
\* command issued last is still to be fetched.
RightRemains ==
  Holder = "command" => Pending \/ hw.cmd.id = cmds \/ \E r \in Outstanding : r[1] = cmds

LEMMA RightHasReason == IInv /\ InFlight => RightRemains
<1> SUFFICES ASSUME IInv, InFlight, Holder = "command", ~Pending
             PROVE  hw.cmd.id = cmds \/ \E r \in Outstanding : r[1] = cmds
  BY DEF RightRemains
<1>0. Types
  BY DEF IInv
<1>1. Right /\ ~Caller
  BY HolderIs DEF HolderOk
<1>2. ASSUME NEW b \in Buffers, Owed(b)
      PROVE  hw.cmd.id = cmds \/ \E r \in Outstanding : r[1] = cmds
  <2>1. user[b].cmd = cmds /\ user[b].cmd # 0
    BY <1>2 DEF InFlight, Newest, Owed
  <2>2. CASE HwOn(b)
    BY <2>1, <2>2 DEF IInv, Flow, FlowOk
  <2>3. CASE ~HwOn(b)
    <3>1. LastComes(b) /\ ~PendingOn(b)
      BY DEF InFlight, InBuffers, PendingOn
    <3> PICK j \in 1..MaxNumf : j >= user[b].next /\ cells[b][j].cmd = user[b].cmd
      BY <2>1, <2>3, <3>1 DEF LastComes
    <3>2. <<user[b].cmd, j>> \in Outstanding
      BY <1>0, <2>1, OfBuffer
    <3> QED
      BY <2>1, <3>2
  <2> QED
    BY <2>2, <2>3
<1>3. CASE \E b \in Buffers : Armed(b)
  BY <1>2, <1>3 DEF Owed, Armed
<1>4. ASSUME NEW t \in Threads, ByThread(t)
      PROVE  hw.cmd.id = cmds \/ \E r \in Outstanding : r[1] = cmds
  <2>1. /\ th[t].pc \in {"null", "inc"} /\ th[t].dest \in Buffers
        /\ user[th[t].dest].cmd # 0
    BY <1>1, <1>4 DEF Caller, ByThread, IInv, Calls, CallOk, Polling
  <2> QED
    BY <1>2, <2>1 DEF Owed
<1>5. CASE HwOn(NULL)
  BY <1>5 DEF InFlight, Newest
<1>6. CASE Expired
  <2> PICK k \in 1..Len(dqrr) : dqrr[k].expired
    BY <1>6 DEF Expired
  <2>1. dqrr[k].cmd = cmds /\ dqrr[k].cmd \in 1..MaxCmds /\ dqrr[k].n \in 1..MaxNumf
    BY <1>0, DataTypes DEF InFlight, InOrder
  <2>2. <<dqrr[k].cmd, dqrr[k].n>> \in Outstanding
    BY <2>1, OutstandingIs DEF InDqrr
  <2> QED
    BY <2>1, <2>2
<1> QED
  BY <1>1, <1>3, <1>4, <1>5, <1>6 DEF Right, DqrrOpen, PendingOn

\* The same after a step.
LEMMA RightHasReasonThen == IInv' /\ InFlight' => RightRemains'
  BY RightHasReason, PTL

-----------------------------------------------------------------------------
(* The steps. *)

\* A command that is issued is the newest; nothing of an older one is unproven.
LEMMA WriteRefines ==
  ASSUME IInv, InFlight, IInv', NEW t \in Threads, PullWrite(t)
  PROVE  InFlight' /\ Abstract!Issue
<1> DEFINE d == th[t].dest
<1>0. Types /\ Types'
  BY DEF IInv
<1> USE <1>0
<1>1. /\ th[t].pc = "write" /\ d \in Dests
      /\ vdqcr' = [vdqcr EXCEPT !.vb = valid_bit] /\ vdqcr.cmd = NextCmd(t)
      /\ cmds' = cmds + 1
      /\ d = NULL => user' = user
      /\ d # NULL => d \in Buffers
                     /\ user' = [user EXCEPT ![d] = [Free EXCEPT !.cmd = cmds + 1]]
      /\ UNCHANGED <<busy, storage, unseen, cells, dqrr, hw, lost>>
  BY DEF PullWrite, Submitted, Types, CallType, Dests, IInv, Bodies
<1>2. th'[t].pc = "idle" /\ \A u \in Threads \ {t} : th'[u] = th[u]
  BY DoneIs DEF PullWrite, Submitted
<1>3. /\ \A u \in Threads \ {t} : ~ByThread(u)
      /\ ~DqrrOpen /\ \A b \in Buffers : ~Armed(b)
      /\ ~Pending /\ (d # NULL => user[d] = Free)
  BY <1>1 DEF IInv, Rights, OneRight, Calls, CallOk, Submitting, ByThread
<1>4. vdqcr'.cmd.id = cmds + 1 /\ vdqcr'.cmd.dest = d /\ vdqcr'.vb = valid_bit
  BY <1>1 DEF NextCmd, Types
<1>5. Pending' /\ \A e \in Dests : PendingOn(e)' <=> e = d
  <2>1. vdqcr.vb = 1 - valid_bit /\ valid_bit \in {0, 1} /\ hw.vb \in {0, 1}
    BY CmdFacts DEF IInv, Flow, Types
  <2>2. hw.vb = valid_bit
    BY <1>3, <2>1 DEF Pending
  <2>3. hw'.vb = valid_bit /\ vdqcr'.vb = valid_bit /\ vdqcr'.cmd.dest = d
    BY <1>1, <1>4, <2>2
  <2>4. Pending'
    BY <2>3 DEF Pending
  <2>5. ASSUME NEW e \in Dests PROVE PendingOn(e)' <=> e = d
    <3>1. PendingOn(e)' <=> Pending' /\ vdqcr'.cmd.dest = e
      BY Zenon DEF PendingOn
    <3> HIDE <1>0
    <3> QED
      BY <2>3, <2>4, <3>1
  <2> QED
    BY <2>4, <2>5, Zenon
<1>6. /\ \A b \in Buffers : b # d => user'[b] = user[b]
      /\ d # NULL => user'[d].cmd = cmds + 1
  <2> DEFINE y == [Free EXCEPT !.cmd = cmds + 1]
             U == [cmd : 0..MaxCmds, next : 1..MaxNumf, released : BOOLEAN]
  <2>1. y.cmd = cmds + 1
    BY DEF Free
  <2>2. user \in [Buffers -> U] /\ NULL \notin Buffers
        /\ (d = NULL => user' = user)
        /\ (d # NULL => d \in Buffers /\ user' = [user EXCEPT ![d] = y])
    BY <1>1, VdqAssumption DEF Types
  <2> HIDE <1>0
  <2> HIDE DEF y, U, d
  <2> QED
    BY <2>1, <2>2
<1>7. /\ cmds \in Nat /\ \A b \in Buffers : user[b].cmd <= cmds /\ user[b].cmd \in Nat
      /\ \A b \in Buffers : \A j \in 1..MaxNumf :
           cells[b][j].cmd <= cmds /\ cells[b][j].cmd \in Nat
      /\ cells' = cells /\ hw' = hw
  BY <1>1, DataTypes DEF InFlight, Numbers
<1>8. /\ \A e : HwOn(e)' <=> HwOn(e)
      /\ ~HwOn(NULL) /\ dqrr = <<>> /\ dqrr' = <<>> /\ ~Expired'
  BY <1>1, <1>3 DEF HwOn, DqrrOpen, InFlight, InOrder, Expired
<1>9. \A b \in Buffers : b # d => ~Owed(b)'
  <2> SUFFICES ASSUME NEW b \in Buffers, b # d, Owed(b)' PROVE FALSE
    OBVIOUS
  <2>1. \A u \in Threads : th'[u].pc \notin {"null", "inc"} /\ th[u].pc \notin {"null", "inc"}
    BY <1>1, <1>2, <1>3 DEF ByThread
  <2>2. Armed(b)' /\ user'[b] = user[b]
    BY <1>6, <2>1 DEF Owed
  <2>3. Armed(b)
    BY <1>1, <2>1, <2>2 DEF Armed
  <2> QED
    BY <1>3, <2>3
<1>10. Numbers'
  <2>1. \A b \in Buffers : user'[b].cmd <= cmds'
    BY <1>1, <1>6, <1>7 DEF Dests
  <2>2. \A b \in Buffers : \A j \in 1..MaxNumf : cells'[b][j].cmd <= cmds'
    BY <1>1, <1>7
  <2>3. ASSUME NEW b \in Buffers, NEW c \in Buffers,
               user'[b].cmd # 0, user'[b].cmd = user'[c].cmd
        PROVE  b = c
    <3>1. NULL \notin Buffers
      BY VdqAssumption
    <3>2. user[b].cmd # cmds + 1 /\ user[c].cmd # cmds + 1
      BY <1>7
    <3>3. b = d <=> c = d
      BY <1>6, <2>3, <3>1, <3>2
    <3>4. b # d /\ c # d => b = c
      BY <1>6, <2>3 DEF InFlight, Numbers
    <3> QED
      BY <3>3, <3>4
  <2> QED
    BY <1>1, <1>4, <2>1, <2>2, <2>3 DEF InFlight, Numbers
<1>11. Newest'
  <2>1. ASSUME NEW b \in Buffers, Owed(b)' PROVE user'[b].cmd = cmds'
    <3>1. b = d
      BY <1>9, <2>1
    <3> QED
      BY <1>1, <1>6, <3>1, VdqAssumption
  <2>2. ASSUME DqrrOpen', NEW b \in Buffers PROVE user'[b].cmd < cmds'
    <3>1. d = NULL
      BY <1>5, <1>8, <2>2 DEF DqrrOpen, Dests
    <3> QED
      BY <1>1, <1>7, <3>1
  <2> QED
    BY <1>8, <2>1, <2>2 DEF Newest
<1>12. InOrder'
  BY <1>8 DEF InOrder
<1>13. InBuffers'
  <2> SUFFICES ASSUME NEW b \in Buffers
               PROVE  LastComes(b)' /\ \A j \in 1..MaxNumf : CellOk(b, j)'
    BY DEF InBuffers
  <2>1. LastComes(b) /\ ~PendingOn(b) /\ \A j \in 1..MaxNumf : CellOk(b, j)
    BY <1>3 DEF InFlight, InBuffers, PendingOn
  <2>2. CASE b = d
    <3>1. user'[b].cmd = cmds + 1 /\ PendingOn(b)'
      BY <1>1, <1>5, <1>6, <2>2, VdqAssumption
    <3>2. \A j \in 1..MaxNumf : cells'[b][j].cmd # user'[b].cmd
      BY <1>7, <3>1
    <3> QED
      BY <3>1, <3>2 DEF LastComes, CellOk
  <2>3. CASE b # d
    <3>1. user'[b] = user[b] /\ ~PendingOn(b)' /\ (HwOn(b)' <=> HwOn(b)) /\ cells' = cells
      BY <1>5, <1>6, <1>7, <1>8, <2>3 DEF Dests
    <3>2. LastComes(b)'
      BY <2>1, <3>1 DEF LastComes
    <3>3. \A j \in 1..MaxNumf : CellOk(b, j)'
      BY <1>7, <2>1, <3>1 DEF CellOk
    <3> QED
      BY <3>2, <3>3
  <2> QED
    BY <2>2, <2>3
<1>14. Outstanding' = Outstanding
  <2>1. \A c \in 1..MaxCmds : \A n \in 1..MaxNumf : InDqrr(c, n)' <=> InDqrr(c, n)
    BY <1>1 DEF InDqrr
  <2>2. ASSUME NEW c \in 1..MaxCmds, NEW n \in 1..MaxNumf
        PROVE  InBuffer(c, n)' <=> InBuffer(c, n)
    <3>1. ASSUME d # NULL
          PROVE  /\ user[d].cmd # c
                 /\ ~(user'[d].cmd = c /\ cells[d][n].cmd = c)
      <4>1. user[d].cmd = 0 /\ user'[d].cmd = cmds + 1 /\ d \in Buffers
        BY <1>1, <1>3, <1>6, <3>1 DEF Free
      <4> QED
        BY <1>7, <4>1
    <3>2. d = NULL => \A b \in Buffers : b # d
      BY VdqAssumption
    <3> QED
      BY <1>6, <1>7, <3>1, <3>2 DEF InBuffer
  <2> QED
    BY <2>1, <2>2 DEF Outstanding
<1>15. Holder = "caller" /\ Holder' \in {"command", "lost"}
  <2>1. Caller /\ ~Caller' /\ lost' = lost
    BY <1>1, <1>2, <1>3 DEF Caller, ByThread
  <2>2. Right /\ Undo' = Undo
    BY <1>1, <1>2 DEF Right, ByThread, Undo
  <2>3. busy = 1 - 1 - Cardinality(Undo)
    BY <2>2 DEF IInv, Rights, BusyAccounted
  <2>4. busy' + Cardinality(Undo') # 1
    BY <1>1, <2>2, <2>3, UndoFacts
  <2> QED
    BY <2>1, <2>4 DEF Holder, Caller
<1>16. Abstract!Issue
  <2>1. Abstract!Issue <=>
          /\ Holder = "caller" /\ Queued = 0
          /\ Queued' = cmds + 1
          /\ cmds' = cmds + 1
          /\ Holder' \in {"command", "lost"}
          /\ UNCHANGED <<Running, Outstanding>>
    BY DEF Abstract!Issue, Queued, Running, Pending
  <2>2. Queued' = cmds + 1
    BY <1>4, <1>5 DEF Queued
  <2>3. Queued = 0
    BY <1>3, QueuedIs
  <2>4. Running' = Running
    BY <1>1 DEF Running
  <2> QED
    BY <1>1, <1>14, <1>15, <2>1, <2>2, <2>3, <2>4
<1> QED
  BY <1>10, <1>11, <1>12, <1>13, <1>16 DEF InFlight

\* The command in the register starts.
LEMMA StartRefines ==
  ASSUME IInv, InFlight, IInv', OwedStays, Start
  PROVE  InFlight' /\ Abstract!Start
<1>0. Types
  BY DEF IInv
<1>1. /\ Pending /\ hw.cmd = None
      /\ hw' = [vb |-> 1 - hw.vb, cmd |-> vdqcr.cmd, written |-> 0]
      /\ UNCHANGED <<busy, valid_bit, storage, unseen, th, cells, user, dqrr, vdqcr, cmds,
                     lost>>
  BY DEF Start
<1>2. hw'.cmd = vdqcr.cmd /\ hw'.written = 0 /\ hw'.vb = 1 - hw.vb /\ vdqcr.cmd # None
  BY <1>1 DEF IInv, Flow
<1>3. ~Pending' /\ \A e : ~PendingOn(e)' /\ ~HwOn(e) /\ (HwOn(e)' <=> PendingOn(e))
  <2>1. hw.vb \in {0, 1}
    BY <1>0, CmdFacts
  <2> QED
    BY <1>1, <1>2, <2>1 DEF Pending, PendingOn, HwOn
<1>4. Expired' <=> Expired
  BY <1>1 DEF Expired
<1>5. Numbers'
  BY <1>1, <1>2, <1>3 DEF InFlight, Numbers
<1>6. Newest'
  <2>1. DqrrOpen' => DqrrOpen
    BY <1>3, <1>4 DEF DqrrOpen
  <2>2. hw'.cmd.id = cmds
    BY <1>1, <1>2 DEF InFlight, Numbers
  <2> QED
    BY <1>1, <2>1, <2>2 DEF InFlight, Newest, OwedStays
<1>7. InOrder'
  <2>1. dqrr # <<>> => Expired
    BY <1>3 DEF InFlight, InOrder
  <2>2. HwOn(NULL)' => dqrr = <<>>
    BY <1>3, <2>1 DEF IInv, Flow
  <2> QED
    BY <1>1, <1>4, <2>1, <2>2 DEF InFlight, InOrder
<1>8. InBuffers'
  <2> SUFFICES ASSUME NEW b \in Buffers
               PROVE  LastComes(b)' /\ \A j \in 1..MaxNumf : CellOk(b, j)'
    BY DEF InBuffers
  <2>1. LastComes(b) /\ \A j \in 1..MaxNumf : CellOk(b, j)
    BY DEF InFlight, InBuffers
  <2>2. LastComes(b)'
    BY <1>1, <1>3, <2>1 DEF LastComes
  <2>3. \A j \in 1..MaxNumf : CellOk(b, j)'
    BY <1>1, <1>3, <2>1 DEF CellOk
  <2> QED
    BY <2>2, <2>3
<1>9. Outstanding' = Outstanding
  BY <1>1 DEF Outstanding, InBuffer, InDqrr
<1>10. Holder' = Holder
  BY <1>1, HolderStays DEF Undo, Caller
<1>11. Abstract!Start
  <2>1. Abstract!Start <=>
          /\ Queued # 0 /\ Running = Abstract!NoRun
          /\ Running' = [cmd |-> Queued, done |-> 0]
          /\ Queued' = 0
          /\ UNCHANGED <<Holder, cmds, Outstanding>>
    BY DEF Abstract!Start, Queued, Running, Pending
  <2>2. Queued # 0 /\ Queued = vdqcr.cmd.id
    BY <1>1, QueuedIs
  <2>3. Running = Abstract!NoRun
    BY <1>1, RunningIs
  <2>4. Running' = [cmd |-> vdqcr.cmd.id, done |-> 0]
    BY <1>2 DEF Running
  <2>5. Queued' = 0
    BY <1>3 DEF Queued
  <2> QED
    BY <1>1, <1>9, <1>10, <2>1, <2>2, <2>3, <2>4, <2>5
<1> QED
  BY <1>5, <1>6, <1>7, <1>8, <1>11 DEF InFlight

\* QMan writes a result: it is to be fetched now, and was not before.
LEMMA ResultRefines ==
  ASSUME IInv, InFlight, IInv', OwedStays, NEW last \in BOOLEAN, Result(last)
  PROVE  InFlight' /\ Abstract!Produce(last)
<1> DEFINE d == hw.cmd.dest
           id == hw.cmd.id
           m == hw.written + 1
<1>0. Types /\ hw.written \in Nat
  BY DataTypes DEF IInv
<1>1. /\ hw.cmd # None /\ (m = MaxNumf => last)
      /\ d = NULL => cells' = cells
      /\ d # NULL => dqrr' = dqrr
      /\ UNCHANGED <<busy, valid_bit, storage, unseen, th, user, vdqcr, body, cmds, lost>>
      /\ hw'.vb = hw.vb
      /\ last => hw'.cmd = None /\ hw'.written = 0
      /\ ~last => hw'.cmd = hw.cmd /\ hw'.written = m
      /\ d \in Dests /\ m \in 1..MaxNumf /\ id \in 1..MaxCmds
  BY ResultIs
<1>2. d # NULL =>
        /\ cells'[d][m].cmd = id /\ cells'[d][m].last = last
        /\ \A j \in 1..MaxNumf : j # m => cells'[d][j] = cells[d][j]
        /\ \A b \in Buffers : b # d => cells'[b] = cells[b]
  <2>1. d # NULL =>
          /\ cells'[d][m] = [tok |-> Token, cmd |-> id, last |-> last]
          /\ \A j \in 1..MaxNumf : j # m => cells'[d][j] = cells[d][j]
          /\ \A b \in Buffers : b # d => cells'[b] = cells[b]
    BY ResultIs
  <2> HIDE DEF d, m, id
  <2> QED
    BY <2>1
<1>3. d = NULL =>
        /\ Len(dqrr') = Len(dqrr) + 1
        /\ dqrr'[Len(dqrr) + 1].cmd = id /\ dqrr'[Len(dqrr) + 1].n = m
        /\ dqrr'[Len(dqrr) + 1].expired = last
        /\ \A k \in 1..Len(dqrr) : dqrr'[k] = dqrr[k]
  <2>1. d = NULL =>
          /\ Len(dqrr') = Len(dqrr) + 1
          /\ dqrr'[Len(dqrr) + 1] = [cmd |-> id, n |-> m, expired |-> last]
          /\ \A k \in 1..Len(dqrr) : dqrr'[k] = dqrr[k]
    BY ResultIs
  <2> HIDE DEF d, m, id
  <2> QED
    BY <2>1
<1>4. /\ Len(dqrr) \in Nat /\ cmds \in Nat /\ MaxNumf \in Nat
      /\ \A b \in Buffers : user[b].cmd \in Nat /\ user[b].next \in Nat
  BY <1>0, DataTypes
<1>5. /\ \A e : /\ (PendingOn(e)' <=> PendingOn(e)) /\ (HwOn(e) <=> e = d)
                /\ (HwOn(e)' <=> e = d /\ ~last)
      /\ (Pending' <=> Pending)
  BY <1>1 DEF Pending, PendingOn, HwOn
<1>6. /\ d # NULL => (Expired' <=> Expired)
      /\ d = NULL => DqrrOpen /\ id = cmds /\ (last => Expired')
  <2>1. d # NULL => (Expired' <=> Expired)
    BY <1>1 DEF Expired
  <2>2. d = NULL => DqrrOpen /\ id = cmds
    BY <1>5 DEF DqrrOpen, InFlight, Newest
  <2>3. ASSUME d = NULL, last PROVE Expired'
    <3>1. Len(dqrr') = Len(dqrr) + 1 /\ dqrr'[Len(dqrr) + 1].expired
      BY <1>3, <2>3
    <3>2. Len(dqrr) + 1 \in 1..Len(dqrr')
      BY <1>4, <3>1
    <3> QED
      BY <3>1, <3>2 DEF Expired
  <2> QED
    BY <2>1, <2>2, <2>3
<1>7. d # NULL =>
        /\ d \in Buffers /\ user[d].cmd = id /\ user[d].next <= m /\ id <= cmds
        /\ \A j \in 1..MaxNumf : cells[d][j].cmd = id => j < m /\ ~cells[d][j].last
  <2> SUFFICES ASSUME d # NULL
               PROVE  /\ d \in Buffers /\ user[d].cmd = id /\ user[d].next <= m /\ id <= cmds
                      /\ \A j \in 1..MaxNumf :
                           cells[d][j].cmd = id => j < m /\ ~cells[d][j].last
    OBVIOUS
  <2>1. d \in Buffers /\ HwOn(d) /\ user[d].cmd # 0
    BY <1>1, <1>5 DEF Dests, IInv, Flow, FlowOk
  <2>2. user[d].cmd = id /\ user[d].next <= m /\ id <= cmds
    BY <2>1 DEF IInv, Flow, FlowOk, InFlight, Numbers
  <2>3. ASSUME NEW j \in 1..MaxNumf, cells[d][j].cmd = id
        PROVE  j < m /\ ~cells[d][j].last
    <3>1. CellOk(d, j)
      BY <2>1 DEF InFlight, InBuffers
    <3>2. j <= hw.written /\ ~cells[d][j].last
      BY <2>1, <2>2, <2>3, <3>1 DEF CellOk
    <3> QED
      BY <1>0, <3>2
  <2> QED
    BY <2>1, <2>2, <2>3
<1>8. Numbers'
  <2>1. \A b \in Buffers : \A j \in 1..MaxNumf : cells'[b][j].cmd <= cmds
    <3> SUFFICES ASSUME NEW b \in Buffers, NEW j \in 1..MaxNumf
                 PROVE  cells'[b][j].cmd <= cmds
      OBVIOUS
    <3>1. cells[b][j].cmd <= cmds
      BY DEF InFlight, Numbers
    <3> QED
      BY <1>1, <1>2, <1>7, <3>1
  <2>2. hw'.cmd = None => hw'.written = 0
    BY <1>1
  <2> QED
    BY <1>1, <1>5, <2>1, <2>2 DEF InFlight, Numbers
<1>9. Newest'
  <2>1. DqrrOpen' => DqrrOpen
    BY <1>5, <1>6 DEF DqrrOpen
  <2>2. HwOn(NULL)' => hw'.cmd.id = cmds
    BY <1>1, <1>5, <1>6
  <2> QED
    BY <1>1, <1>5, <2>1, <2>2 DEF InFlight, Newest, OwedStays
<1>10. InOrder'
  <2>1. CASE d # NULL
    <3>1. ~HwOn(NULL) /\ ~HwOn(NULL)' /\ dqrr' = dqrr /\ cmds' = cmds
      BY <1>1, <1>5, <2>1
    <3> QED
      BY <1>6, <2>1, <3>1 DEF InFlight, InOrder
  <2>2. CASE d = NULL
    <3>1. \A k \in 1..Len(dqrr) : dqrr[k].cmd = cmds /\ dqrr[k].n <= hw.written
      BY <1>5, <2>2 DEF InFlight, InOrder
    <3>2. \A k \in 1..Len(dqrr') : k \in 1..Len(dqrr) \/ k = Len(dqrr) + 1
      BY <1>3, <1>4, <2>2
    <3>3. ASSUME NEW k \in 1..Len(dqrr')
          PROVE  dqrr'[k].cmd = cmds /\ (HwOn(NULL)' => dqrr'[k].n <= hw'.written)
      <4>1. CASE k \in 1..Len(dqrr)
        <5>1. dqrr'[k] = dqrr[k] /\ dqrr[k].cmd = cmds /\ dqrr[k].n <= hw.written
          BY <1>3, <2>2, <3>1, <4>1
        <5>2. dqrr[k].n \in Nat
          BY <1>0, <4>1, DataTypes
        <5> QED
          BY <1>0, <1>1, <1>5, <5>1, <5>2
      <4>2. CASE k = Len(dqrr) + 1
        BY <1>0, <1>1, <1>3, <1>5, <1>6, <2>2, <4>2
      <4> QED
        BY <3>2, <4>1, <4>2
    <3>4. ASSUME NEW k \in 1..Len(dqrr'), NEW l \in 1..Len(dqrr'), k < l
          PROVE  dqrr'[k].n < dqrr'[l].n
      <4>1. k \in 1..Len(dqrr)
        BY <1>4, <3>2, <3>4
      <4>2. CASE l \in 1..Len(dqrr)
        BY <1>3, <2>2, <3>4, <4>1, <4>2 DEF InFlight, InOrder
      <4>3. CASE l = Len(dqrr) + 1
        <5>1. dqrr'[k] = dqrr[k] /\ dqrr[k].n <= hw.written /\ dqrr[k].n \in Nat
          BY <1>0, <1>3, <2>2, <3>1, <4>1, DataTypes
        <5>2. dqrr'[l].n = m
          BY <1>3, <2>2, <4>3
        <5> QED
          BY <1>0, <5>1, <5>2
      <4> QED
        BY <3>2, <4>2, <4>3
    <3>5. HwOn(NULL)' \/ Expired'
      BY <1>5, <1>6, <2>2
    <3> QED
      BY <1>1, <3>3, <3>4, <3>5 DEF InOrder
  <2> QED
    BY <2>1, <2>2
<1>11. InBuffers'
  <2> SUFFICES ASSUME NEW b \in Buffers
               PROVE  LastComes(b)' /\ \A j \in 1..MaxNumf : CellOk(b, j)'
    BY DEF InBuffers
  <2>1. LastComes(b) /\ (\A j \in 1..MaxNumf : CellOk(b, j)) /\ user'[b] = user[b]
    BY <1>1 DEF InFlight, InBuffers
  <2>2. CASE b # d
    <3>1. cells'[b] = cells[b] /\ ~HwOn(b) /\ ~HwOn(b)' /\ (PendingOn(b)' <=> PendingOn(b))
      BY <1>1, <1>2, <1>5, <2>2
    <3>2. LastComes(b)'
      BY <2>1, <3>1 DEF LastComes
    <3>3. \A j \in 1..MaxNumf : CellOk(b, j)'
      BY <2>1, <3>1 DEF CellOk
    <3> QED
      BY <3>2, <3>3
  <2>3. CASE b = d
    <3>1. /\ d # NULL /\ HwOn(b) /\ user'[b].cmd = id /\ user'[b].next <= m
          /\ ~PendingOn(b)' /\ (HwOn(b)' <=> ~last)
      BY <1>5, <1>7, <2>1, <2>3, VdqAssumption DEF IInv, Flow, FlowOk
    <3>2. /\ cells'[b][m].cmd = id /\ cells'[b][m].last = last
          /\ \A j \in 1..MaxNumf : j # m => cells'[b][j] = cells[b][j]
      BY <1>2, <2>3, <3>1
    <3>3. LastComes(b)'
      <4>1. last => /\ m \in 1..MaxNumf /\ m >= user'[b].next
                    /\ cells'[b][m].cmd = user'[b].cmd /\ cells'[b][m].last
        BY <1>0, <1>1, <1>4, <2>1, <3>1, <3>2
      <4> HIDE DEF m
      <4> QED
        BY <3>1, <4>1 DEF LastComes
    <3>4. \A j \in 1..MaxNumf : cells'[b][j].cmd = id => j <= m /\ (cells'[b][j].last => j = m)
      BY <1>0, <1>7, <2>3, <3>1, <3>2
    <3>5. ASSUME NEW j \in 1..MaxNumf, cells'[b][j].cmd = user'[b].cmd
          PROVE  /\ ~PendingOn(b)'
                 /\ HwOn(b)' => j <= hw'.written /\ ~cells'[b][j].last
                 /\ cells'[b][j].last =>
                      \A i \in 1..MaxNumf : i > j => cells'[b][i].cmd # user'[b].cmd
      <4>1. j <= m /\ (cells'[b][j].last => j = m)
        BY <3>1, <3>4, <3>5
      <4>2. HwOn(b)' => hw'.written = m /\ ~cells'[b][m].last
        BY <1>1, <3>1, <3>2
      <4>3. \A i \in 1..MaxNumf : i > m => cells'[b][i].cmd # id
        BY <1>0, <3>4
      <4> HIDE DEF m, id
      <4> QED
        BY <3>1, <4>1, <4>2, <4>3
    <3>6. \A j \in 1..MaxNumf : CellOk(b, j)'
      BY <3>5 DEF CellOk
    <3> QED
      BY <3>3, <3>6
  <2> QED
    BY <2>2, <2>3
<1>12. Outstanding' = Outstanding \cup {<<id, m>>}
  <2>1. ASSUME NEW c \in 1..MaxCmds, NEW n \in 1..MaxNumf
        PROVE  InDqrr(c, n)' <=> InDqrr(c, n) \/ (d = NULL /\ c = id /\ n = m)
    <3>1. CASE d # NULL
      BY <1>1, <3>1 DEF InDqrr
    <3>2. CASE d = NULL
      <4>1. \A k : k \in 1..Len(dqrr') <=> k \in 1..Len(dqrr) \/ k = Len(dqrr) + 1
        BY <1>3, <1>4, <3>2
      <4> HIDE DEF d, m, id
      <4> QED
        BY <1>3, <3>2, <4>1 DEF InDqrr
    <3> QED
      BY <3>1, <3>2
  <2>2. ASSUME NEW c \in 1..MaxCmds, NEW n \in 1..MaxNumf
        PROVE  InBuffer(c, n)' <=> InBuffer(c, n) \/ (d # NULL /\ c = id /\ n = m)
    <3>1. CASE d = NULL
      BY <1>1, <3>1 DEF InBuffer
    <3>2. CASE d # NULL
      <4>1. d \in Buffers /\ user' = user /\ user[d].cmd = id /\ m >= user[d].next
        BY <1>1, <1>4, <1>7, <3>2
      <4>2. \A b \in Buffers : b # d => cells'[b] = cells[b]
        BY <1>2, <3>2
      <4>3. n # m => cells'[d][n] = cells[d][n]
        BY <1>2, <3>2
      <4>4. cells'[d][m].cmd = id
        BY <1>2, <3>2
      <4> HIDE DEF d, m, id
      <4> QED
        BY <3>2, <4>1, <4>2, <4>3, <4>4 DEF InBuffer
    <3> QED
      BY <3>1, <3>2
  <2>3. Outstanding' = {x \in (1..MaxCmds) \X (1..MaxNumf) :
                          InBuffer(x[1], x[2])' \/ InDqrr(x[1], x[2])'}
    BY DEF Outstanding
  <2>4. \A x \in (1..MaxCmds) \X (1..MaxNumf) :
          InBuffer(x[1], x[2])' \/ InDqrr(x[1], x[2])'
            <=> InBuffer(x[1], x[2]) \/ InDqrr(x[1], x[2]) \/ x = <<id, m>>
    BY <2>1, <2>2
  <2>5. <<id, m>> \in (1..MaxCmds) \X (1..MaxNumf)
    BY <1>1
  <2> HIDE DEF m, id
  <2> QED
    BY <2>3, <2>4, <2>5 DEF Outstanding
<1>13. Holder' = Holder /\ Queued' = Queued
  BY <1>1, HolderStays DEF Undo, Caller, Queued, Pending
<1>14. Abstract!Produce(last)
  <2>1. Abstract!Produce(last) <=>
          /\ Running # Abstract!NoRun
          /\ Running.done + 1 = MaxNumf => last
          /\ Outstanding' = Outstanding \cup {<<Running.cmd, Running.done + 1>>}
          /\ Running' = IF last THEN Abstract!NoRun ELSE [Running EXCEPT !.done = @ + 1]
          /\ UNCHANGED <<Holder, cmds, Queued>>
    BY DEF Abstract!Produce, Queued, Running, Pending
  <2>2. Running # Abstract!NoRun /\ Running.done = hw.written /\ Running.cmd = id
    BY <1>1, RunningIs DEF Running
  <2>3. last => Running' = Abstract!NoRun
    BY <1>1 DEF Running, None, Abstract!NoRun
  <2>4. ~last => Running' = [Running EXCEPT !.done = @ + 1]
    BY <1>1 DEF Running
  <2> QED
    BY <1>1, <1>12, <1>13, <2>1, <2>2, <2>3, <2>4
<1> QED
  BY <1>8, <1>9, <1>10, <1>11, <1>14 DEF InFlight

\* A result is fetched.
LEMMA FetchMeans ==
  ASSUME NEW r
  PROVE  Abstract!Fetch(r) <=>
            /\ r \in Outstanding /\ \A q \in Outstanding : q[1] = r[1] => q[2] >= r[2]
            /\ Outstanding' = Outstanding \ {r}
            /\ \/ /\ r[1] = cmds
                  /\ Holder = "command" /\ Queued = 0
                  /\ \E q \in Outstanding : q[1] = cmds
                  /\ Holder' = "nobody"
               \/ Holder = "command" /\ Holder' = "lost"
               \/ /\ Holder = "command" =>
                       \/ Queued # 0 \/ Running.cmd = cmds
                       \/ \E q \in Outstanding \ {r} : q[1] = cmds
                  /\ UNCHANGED Holder
            /\ UNCHANGED <<cmds, Queued, Running>>
BY DEF Abstract!Fetch, Abstract!Proof, Abstract!Remains, Queued, Running, Pending

\* With it the right comes back: a result of the newest command proves its start.
LEMMA FetchLast ==
  ASSUME IInv, NEW r \in Outstanding, r[1] = cmds,
         \A q \in Outstanding : q[1] = r[1] => q[2] >= r[2],
         Outstanding' = Outstanding \ {r}, Holder = "command", Holder' = "nobody", ~Pending,
         UNCHANGED <<cmds, vdqcr, hw>>
  PROVE  Abstract!Fetch(r)
<1>1. Queued = 0
  BY QueuedIs
<1>2. UNCHANGED <<Queued, Running>>
  BY DEF Queued, Running, Pending
<1> QED
  BY <1>1, <1>2, FetchMeans

\* Or the right stays where it is, and still has its reason; or it is lost.
LEMMA FetchMore ==
  ASSUME IInv, IInv', InFlight', NEW r \in Outstanding,
         \A q \in Outstanding : q[1] = r[1] => q[2] >= r[2],
         Outstanding' = Outstanding \ {r},
         Holder' = Holder \/ (Holder = "command" /\ Holder' = "lost"),
         UNCHANGED <<cmds, vdqcr, hw>>
  PROVE  Abstract!Fetch(r)
<1>1. UNCHANGED <<Queued, Running>> /\ (Pending' <=> Pending)
  BY DEF Queued, Running, Pending
<1>2. CASE Holder' = Holder
  <2>1. RightRemains'
    BY RightHasReasonThen
  <2>2. Holder = "command" =>
          \/ Pending \/ hw.cmd.id = cmds
          \/ \E q \in Outstanding \ {r} : q[1] = cmds
    BY <1>1, <1>2, <2>1 DEF RightRemains
  <2>3. (Pending => Queued # 0) /\ Running.cmd = hw.cmd.id
    BY QueuedIs DEF Running
  <2> QED
    BY <1>1, <1>2, <2>2, <2>3, FetchMeans
<1>3. CASE Holder = "command" /\ Holder' = "lost"
  BY <1>1, <1>3, FetchMeans
<1> QED
  BY <1>2, <1>3

\* The oldest result in DQRR is fetched: the last one of its command proves that the
\* command was executed, and others are followed by it.
LEMMA DqrrNextRefines ==
  ASSUME IInv, InFlight, IInv', OwedStays, NEW t \in Threads, DqrrNext(t)
  PROVE  InFlight' /\ \E c \in 1..MaxCmds : Abstract!FetchOf(c)
<1> DEFINE r == <<dqrr[1].cmd, dqrr[1].n>>
<1>0. Types
  BY DEF IInv
<1>1. /\ dqrr # <<>> /\ dqrr' = Tail(dqrr)
      /\ busy' = IF dqrr[1].expired THEN busy + 1 ELSE busy
      /\ UNCHANGED <<valid_bit, storage, unseen, th, cells, user, vdqcr, hw, cmds, lost>>
  BY DEF DqrrNext
<1>2. /\ Len(dqrr) \in Nat /\ Len(dqrr) > 0 /\ Len(dqrr') = Len(dqrr) - 1
      /\ \A k \in 1..Len(dqrr') : k + 1 \in 1..Len(dqrr) /\ dqrr'[k] = dqrr[k + 1]
      /\ 1 \in 1..Len(dqrr) /\ (Len(dqrr') = 0 => dqrr' = <<>>)
      /\ dqrr[1].cmd \in 1..MaxCmds /\ dqrr[1].n \in 1..MaxNumf /\ dqrr[1].cmd = cmds
  <2> DEFINE T == [cmd : 1..MaxCmds, n : 1..MaxNumf, expired : BOOLEAN]
  <2>1. dqrr \in Seq(T)
    BY <1>0 DEF Types
  <2> HIDE DEF T
  <2>2. /\ Len(dqrr) \in Nat /\ Len(dqrr) > 0 /\ Len(dqrr') = Len(dqrr) - 1
        /\ \A k \in 1..Len(dqrr') : k + 1 \in 1..Len(dqrr) /\ dqrr'[k] = dqrr[k + 1]
        /\ 1 \in 1..Len(dqrr) /\ (Len(dqrr') = 0 => dqrr' = <<>>)
    BY <1>1, <2>1
  <2> QED
    BY <1>0, <2>2, DataTypes DEF InFlight, InOrder
<1>3. /\ \A e : (PendingOn(e)' <=> PendingOn(e)) /\ (HwOn(e)' <=> HwOn(e))
      /\ (Pending' <=> Pending)
  BY <1>1 DEF Pending, PendingOn, HwOn
<1>4. /\ Expired' => Expired
      /\ DqrrOpen
      /\ Expired => Expired' \/ dqrr' = <<>>
  <2>1. Expired' => Expired
    BY <1>2 DEF Expired
  <2>2. DqrrOpen
    BY <1>1 DEF InFlight, InOrder, DqrrOpen
  <2>3. ASSUME NEW k \in 1..Len(dqrr), dqrr[k].expired PROVE Expired' \/ dqrr' = <<>>
    <3>1. k = Len(dqrr)
      BY <2>3 DEF IInv, Flow
    <3>2. CASE k = 1
      BY <1>2, <3>1, <3>2
    <3>3. CASE k # 1
      <4>1. k - 1 \in 1..Len(dqrr') /\ (k - 1) + 1 = k
        BY <1>2, <3>3
      <4>2. dqrr'[k - 1] = dqrr[k]
        BY <1>2, <4>1
      <4> QED
        BY <2>3, <4>1, <4>2 DEF Expired
    <3> QED
      BY <3>2, <3>3
  <2> QED
    BY <2>1, <2>2, <2>3 DEF Expired
<1>5. Numbers'
  BY <1>1, <1>3 DEF InFlight, Numbers
<1>6. Newest'
  <2>1. DqrrOpen' => DqrrOpen
    BY <1>3, <1>4 DEF DqrrOpen
  <2> QED
    BY <1>1, <1>3, <2>1 DEF InFlight, Newest, OwedStays
<1>7. InOrder'
  <2>1. dqrr' # <<>> => HwOn(NULL)' \/ Expired'
    BY <1>1, <1>3, <1>4 DEF InFlight, InOrder
  <2>2. \A k \in 1..Len(dqrr') :
          dqrr'[k].cmd = cmds' /\ (HwOn(NULL)' => dqrr'[k].n <= hw'.written)
    BY <1>1, <1>2, <1>3 DEF InFlight, InOrder
  <2>3. ASSUME NEW k \in 1..Len(dqrr'), NEW l \in 1..Len(dqrr'), k < l
        PROVE  dqrr'[k].n < dqrr'[l].n
    <3>1. k + 1 < l + 1
      BY <2>3
    <3> QED
      BY <1>2, <3>1 DEF InFlight, InOrder
  <2> QED
    BY <2>1, <2>2, <2>3 DEF InOrder
<1>8. InBuffers'
  BY <1>1, <1>3 DEF InFlight, InBuffers, LastComes, CellOk
<1>9. InFlight'
  BY <1>5, <1>6, <1>7, <1>8 DEF InFlight
<1>10. ASSUME NEW n \in 1..MaxNumf
       PROVE  <<cmds, n>> \in Outstanding <=> InDqrr(cmds, n)
  <2>1. \A b \in Buffers : user[b].cmd < cmds
    BY <1>4 DEF InFlight, Newest
  <2>2. ~InBuffer(cmds, n)
    BY <1>0, <2>1, DataTypes DEF InBuffer
  <2> QED
    BY <1>2, <2>2, OutstandingIs
<1>11. r \in Outstanding /\ r = <<cmds, dqrr[1].n>>
  BY <1>2, <1>10 DEF InDqrr
<1>12. ASSUME NEW k \in 1..Len(dqrr), k # 1 PROVE dqrr[k].n > dqrr[1].n
  <2>1. 1 < k
    BY <1>2, <1>12
  <2>2. dqrr[1].n < dqrr[k].n
    BY <1>2, <2>1 DEF InFlight, InOrder
  <2> QED
    BY <1>0, <1>2, <2>2, DataTypes
<1>13. ASSUME NEW q \in Outstanding, q[1] = r[1] PROVE q[2] >= r[2]
  <2>1. q = <<cmds, q[2]>> /\ q[2] \in 1..MaxNumf
    BY <1>2, <1>13 DEF Outstanding
  <2> PICK k \in 1..Len(dqrr) : dqrr[k].n = q[2]
    BY <1>10, <2>1 DEF InDqrr
  <2> QED
    BY <1>0, <1>2, <1>12, DataTypes
<1>14. Outstanding' = Outstanding \ {r}
  <2>1. ASSUME NEW c \in 1..MaxCmds, NEW n \in 1..MaxNumf
        PROVE  InDqrr(c, n)' <=> InDqrr(c, n) /\ <<c, n>> # r
    <3>1. ASSUME InDqrr(c, n)' PROVE InDqrr(c, n) /\ n # dqrr[1].n
      <4>1. PICK k \in 1..Len(dqrr') : dqrr'[k].cmd = c /\ dqrr'[k].n = n
        BY <3>1 DEF InDqrr
      <4>2. k + 1 \in 1..Len(dqrr) /\ dqrr[k + 1].cmd = c /\ dqrr[k + 1].n = n
        BY <1>2, <4>1
      <4>3. k + 1 # 1
        BY <1>2
      <4>4. dqrr[k + 1].n > dqrr[1].n
        BY <1>12, <4>2, <4>3
      <4> QED
        BY <1>2, <4>2, <4>4 DEF InDqrr
    <3>2. ASSUME InDqrr(c, n), <<c, n>> # r PROVE InDqrr(c, n)'
      <4>1. PICK k \in 1..Len(dqrr) : dqrr[k].cmd = c /\ dqrr[k].n = n
        BY <3>2 DEF InDqrr
      <4>2. k # 1
        BY <3>2, <4>1
      <4>3. k - 1 \in 1..Len(dqrr') /\ (k - 1) + 1 = k
        BY <1>2, <4>2
      <4>4. dqrr'[k - 1] = dqrr[k]
        BY <1>2, <4>3
      <4> QED
        BY <4>1, <4>3, <4>4 DEF InDqrr
    <3> QED
      BY <3>1, <3>2
  <2>2. ASSUME NEW c \in 1..MaxCmds, NEW n \in 1..MaxNumf
        PROVE  /\ InBuffer(c, n)' <=> InBuffer(c, n)
               /\ InBuffer(c, n) => <<c, n>> # r
    <3>1. InBuffer(c, n) => c # cmds
      <4>1. \A b \in Buffers : user[b].cmd < cmds
        BY <1>4 DEF InFlight, Newest
      <4> QED
        BY <1>0, <4>1, DataTypes DEF InBuffer
    <3> QED
      BY <1>1, <1>2, <3>1 DEF InBuffer
  <2>3. Outstanding' = {x \in (1..MaxCmds) \X (1..MaxNumf) :
                          InBuffer(x[1], x[2])' \/ InDqrr(x[1], x[2])'}
    BY DEF Outstanding
  <2>4. \A x \in (1..MaxCmds) \X (1..MaxNumf) :
          InBuffer(x[1], x[2])' \/ InDqrr(x[1], x[2])'
            <=> (InBuffer(x[1], x[2]) \/ InDqrr(x[1], x[2])) /\ x # r
    BY <2>1, <2>2
  <2> HIDE DEF r
  <2> QED
    BY <2>3, <2>4 DEF Outstanding
<1>15. /\ Holder = "command" /\ ~Caller /\ (Caller' <=> Caller) /\ Undo' = Undo
       /\ ~Pending /\ ~lost
  <2>7. ~lost
    BY <1>4 DEF IInv, Rights, LostAlone
  <2>1. /\ \A u \in Threads : ~ByThread(u)
        /\ \A b \in Buffers : ~Armed(b)
    BY <1>4 DEF IInv, Rights, OneRight
  <2>2. Right /\ ~Caller
    BY <1>4, <2>1 DEF Right, Caller, ByThread
  <2>3. Holder = "command"
    BY <2>2, <2>7, HolderIs DEF HolderOk
  <2>4. ~PendingOn(NULL)
    BY <1>1 DEF InFlight, InOrder, IInv, Flow
  <2>5. \A b \in Buffers : ~PendingOn(b)
    BY <2>1, <2>7 DEF IInv, Rights, PendingHeld
  <2>6. ~Pending
    BY <1>0, <2>4, <2>5, CmdFacts DEF PendingOn, Dests
  <2> QED
    BY <1>1, <2>2, <2>3, <2>6, <2>7 DEF Caller, Undo
<1>16. Abstract!Fetch(r)
  <2>1. CASE dqrr[1].expired
    <3>1. busy = 1 - 1 - Cardinality(Undo)
      BY <1>4 DEF IInv, Rights, BusyAccounted, Right
    <3>2. busy' + Cardinality(Undo') = 1
      BY <1>1, <1>15, <2>1, <3>1, UndoFacts
    <3>3. Holder' = "nobody"
      BY <1>1, <1>15, <3>2 DEF Holder, Caller
    <3> HIDE DEF r
    <3> QED
      BY <1>1, <1>11, <1>13, <1>14, <1>15, <3>3, FetchLast
  <2>2. CASE ~dqrr[1].expired
    <3>1. Holder' = Holder
      BY <1>1, <1>15, <2>2, HolderStays
    <3> HIDE DEF r
    <3> QED
      BY <1>1, <1>9, <1>11, <1>13, <1>14, <3>1, FetchMore
  <2> QED
    BY <2>1, <2>2
<1>17. Abstract!FetchOf(cmds)
  BY <1>2, <1>11, <1>16 DEF Abstract!FetchOf
<1> QED
  BY <1>2, <1>9, <1>17

\* Steps that Pulls does not see.
LEMMA NothingFetched ==
  ASSUME UNCHANGED <<cells, user, dqrr, hw, cmds>>, SameCommand, Holder' = Holder
  PROVE  UNCHANGED Abstract!vars
<1>1. Queued' = Queued /\ Running' = Running
  BY DEF SameCommand, Queued, Running, Pending
<1>2. Outstanding' = Outstanding
  BY DEF Outstanding, InBuffer, InDqrr
<1> QED
  BY <1>1, <1>2 DEF Abstract!vars, Queued, Running

\* The right is lost without anything being fetched.
LEMMA LostRefines ==
  ASSUME UNCHANGED <<cells, user, dqrr, vdqcr, hw, cmds>>, Holder = "command", Holder' = "lost"
  PROVE  Abstract!Release
<1>1. Queued' = Queued /\ Running' = Running
  BY DEF Queued, Running, Pending
<1>2. Outstanding' = Outstanding
  BY DEF Outstanding, InBuffer, InDqrr
<1>3. Abstract!Release <=>
        /\ \/ Abstract!Proof /\ Holder' = "nobody"
           \/ Holder = "command" /\ Holder' = "lost"
        /\ UNCHANGED <<cmds, Queued, Running, Outstanding>>
  BY DEF Abstract!Release, Queued, Running
<1> QED
  BY <1>1, <1>2, <1>3

\* A NULL that becomes visible may take the right away, and does nothing else to it.
LEMMA SeenHolder ==
  ASSUME IInv, IInv', NEW t \in Threads, StoreSeen(t), Caller' <=> Caller,
         DqrrOpen' <=> DqrrOpen, user' = user,
         \A u \in Threads : /\ th'[u].pc \in {"null", "inc"} <=> th[u].pc \in {"null", "inc"}
                            /\ th[u].pc \in {"null", "inc"} => th'[u].dest = th[u].dest
  PROVE  Holder' = Holder \/ (Holder = "command" /\ Holder' = "lost")
<1>1. HolderOk /\ HolderOk'
  BY HolderIs, HolderIsThen
<1>2. CASE Caller
  BY <1>1, <1>2 DEF HolderOk
<1>3. CASE ~Caller /\ lost
  <2>1. lost'
    BY <1>3, StoreIsSeen
  <2> QED
    BY <1>1, <1>3, <2>1 DEF HolderOk
<1>4. CASE ~Caller /\ ~lost /\ lost'
  <2>1. PICK b \in Buffers : Armed(b) \/ Arming(b)
    BY <1>4, StoreIsSeen
  <2>2. Right
    BY <1>4, <2>1 DEF Arming, Caller, Right
  <2> QED
    BY <1>1, <1>4, <2>2 DEF HolderOk
<1>5. CASE ~Caller /\ ~lost /\ ~lost'
  <2>1. \A u \in Threads : ByThread(u)' <=> ByThread(u)
    BY <1>5 DEF Caller, ByThread
  <2>2. \A b \in Buffers : Armed(b)' <=> Armed(b)
    <3> SUFFICES ASSUME NEW b \in Buffers PROVE Armed(b)' <=> Armed(b)
      OBVIOUS
    <3>1. CASE unseen[t] = NULL
      <4>1. storage' = storage /\ unseen' = unseen
        BY <3>1 DEF StoreSeen, SeenStorage, IInv, Types
      <4> QED
        BY <4>1 DEF Armed
    <3>2. CASE unseen[t] # NULL
      <4>1. storage' = NULL /\ ~Armed(b)
        BY <1>5, <3>2, StoreIsSeen
      <4> QED
        BY <4>1, VdqAssumption DEF Armed
    <3> QED
      BY <3>1, <3>2
  <2>3. Right' <=> Right
    BY <2>1, <2>2 DEF Right
  <2> QED
    BY <1>1, <1>5, <2>3 DEF HolderOk
<1> QED
  BY <1>2, <1>3, <1>4, <1>5

\* A pull that is granted, and one that is not.
LEMMA PullDecRefines ==
  ASSUME IInv, InFlight, IInv', OwedStays, NEW t \in Threads, NEW dest \in Dests,
         PullDec(t, dest)
  PROVE  InFlight' /\ (Abstract!Grant \/ Abstract!Release \/ UNCHANGED Abstract!vars)
<1>1. /\ th[t].pc = "idle" /\ cmds < MaxCmds /\ busy' = busy - 1 /\ StoreSeen(t)
      /\ UNCHANGED <<valid_bit, cells, user, dqrr, vdqcr, hw, cmds>>
  BY DEF PullDec
<1>2. /\ th'[t].pc = (IF busy = 1 THEN "won" ELSE "undo")
      /\ \A u \in Threads \ {t} : th'[u] = th[u]
  BY DEF PullDec, IInv, Types, Idle
<1>3. InFlight'
  BY <1>1, SameInFlight DEF SameCommand
<1>4. busy = 1 - (IF Right \/ lost THEN 1 ELSE 0) - Cardinality(Undo) /\ busy \in Int
  BY DEF IInv, Types, Rights, BusyAccounted
<1>5. CASE busy = 1
  <2>1. ~Right /\ ~lost
    BY <1>4, <1>5, UndoFacts
  <2>2. Holder = "nobody"
    BY <2>1, HolderIs DEF HolderOk, Caller, Right, ByThread
  <2>3. Holder' = "caller"
    BY <1>2, <1>5 DEF Holder
  <2>4. Abstract!Grant <=>
          /\ Holder = "nobody" /\ cmds < MaxCmds /\ Holder' = "caller"
          /\ UNCHANGED <<cmds, Queued, Running, Outstanding>>
    BY DEF Abstract!Grant, Queued, Running, Pending
  <2>5. UNCHANGED <<Queued, Running, Outstanding>>
    BY <1>1 DEF Queued, Running, Pending, Outstanding, InBuffer, InDqrr
  <2> QED
    BY <1>1, <1>3, <2>2, <2>3, <2>4, <2>5
<1>6. CASE busy # 1
  <2>1. Caller' <=> Caller
    BY <1>1, <1>2, <1>6 DEF Caller
  <2>2. DqrrOpen' <=> DqrrOpen
    BY <1>1, SameFlow
  <2>3. Holder' = Holder \/ (Holder = "command" /\ Holder' = "lost")
    BY <1>1, <1>2, <1>6, <2>1, <2>2, SeenHolder
  <2> QED
    BY <1>1, <1>3, <2>3, NothingFetched, LostRefines DEF SameCommand
<1> QED
  BY <1>5, <1>6

\* The thread's NULL becomes visible.
LEMMA DrainRefines ==
  ASSUME IInv, InFlight, IInv', OwedStays, NEW t \in Threads, Drain(t)
  PROVE  InFlight' /\ (Abstract!Release \/ UNCHANGED Abstract!vars)
<1>1. StoreSeen(t) /\ UNCHANGED <<th, cells, user, dqrr, vdqcr, hw, cmds>>
  BY DEF Drain
<1>2. InFlight'
  BY <1>1, SameInFlight DEF SameCommand
<1>3. (Caller' <=> Caller) /\ (DqrrOpen' <=> DqrrOpen)
  BY <1>1, SameFlow DEF Caller
<1>4. Holder' = Holder \/ (Holder = "command" /\ Holder' = "lost")
  BY <1>1, <1>3, SeenHolder
<1> QED
  BY <1>1, <1>2, <1>4, NothingFetched, LostRefines DEF SameCommand

LEMMA PullUndoRefines ==
  ASSUME IInv, InFlight, OwedStays, NEW t \in Threads, PullUndo(t)
  PROVE  InFlight' /\ UNCHANGED Abstract!vars
<1>1. /\ th[t].pc = "undo" /\ th'[t].pc = "idle"
      /\ \A u \in Threads \ {t} : th'[u] = th[u]
      /\ busy' = busy + 1 /\ busy \in Int
      /\ UNCHANGED <<cells, user, dqrr, vdqcr, hw, cmds, lost>>
  BY DoneIs DEF IInv, PullUndo, Types
<1>2. Undo' = Undo \ {t} /\ t \in Undo /\ (Caller' <=> Caller)
  BY <1>1 DEF Undo, Caller
<1>3. Cardinality(Undo') = Cardinality(Undo) - 1
  BY <1>2, UndoFacts, FS_RemoveElement
<1>4. busy' + Cardinality(Undo') = busy + Cardinality(Undo)
  BY <1>1, <1>3, UndoFacts
<1>5. Holder' = Holder
  BY <1>1, <1>2, <1>4 DEF Holder, Caller
<1> QED
  BY <1>1, <1>5, SameInFlight, NothingFetched DEF SameCommand

\* Steps within a call.
LEMMA InnerRefines ==
  ASSUME IInv, InFlight, OwedStays, NEW t \in Threads,
         \/ PullSetStorage(t) \/ PollNull(t)
         \/ \E b \in Buffers, api \in PollApis : PollToken(t, b, api)
  PROVE  InFlight' /\ UNCHANGED Abstract!vars
<1>1. UNCHANGED <<busy, cells, user, dqrr, vdqcr, hw, cmds, lost>>
  BY DEF PullSetStorage, PollNull, PollToken
<1>2. /\ \A u \in Threads \ {t} : th'[u] = th[u]
      /\ th[t].pc \in {"won", "write"} <=> th'[t].pc \in {"won", "write"}
      /\ th[t].pc = "undo" <=> th'[t].pc = "undo"
  <2>1. CASE PullSetStorage(t)
    BY <2>1, GotoIs DEF PullSetStorage, IInv
  <2>2. CASE PollNull(t)
    BY <2>2, GotoIs DEF PollNull, IInv
  <2>3. ASSUME NEW b \in Buffers, NEW api \in PollApis, PollToken(t, b, api)
        PROVE  /\ \A u \in Threads \ {t} : th'[u] = th[u]
               /\ th[t].pc \notin {"won", "write", "undo"}
               /\ th'[t].pc \notin {"won", "write", "undo"}
    BY <2>3 DEF PollToken, IInv, Types
  <2> QED
    BY <2>1, <2>2, <2>3
<1>3. Undo' = Undo /\ (Caller' <=> Caller)
  BY <1>2 DEF Undo, Caller
<1> QED
  BY <1>1, <1>3, HolderStays, SameInFlight, NothingFetched DEF SameCommand

LEMMA BodySeenRefines ==
  ASSUME IInv, InFlight, OwedStays, BodySeen
  PROVE  InFlight' /\ UNCHANGED Abstract!vars
<1>1. /\ body # None /\ vdqcr' = [vdqcr EXCEPT !.cmd = body]
      /\ UNCHANGED <<busy, th, cells, user, dqrr, hw, cmds, lost>>
  BY DEF BodySeen
<1>2. ~Pending
  BY <1>1 DEF IInv, Bodies, Calls, CallOk
<1>3. ~Pending'
  BY <1>1, <1>2 DEF Pending, IInv, Types
<1>4. Undo' = Undo /\ (Caller' <=> Caller)
  BY <1>1 DEF Undo, Caller
<1> QED
  BY <1>1, <1>2, <1>3, <1>4, HolderStays, SameInFlight, NothingFetched DEF SameCommand

\* A poll: the entry that its thread looks at, and what its return makes of it.
LEMMA LooksAt ==
  ASSUME IInv, NEW t \in Threads, Polling(t)
  PROVE  LET b == th[t].dest IN
         /\ b \in Buffers /\ user[b].cmd # 0 /\ Entry(b).cmd = user[b].cmd
         /\ ~Entry(b).last => user[b].next < MaxNumf
BY DEF IInv, Calls, CallOk, Looks, LookOk

LEMMA PollReturnIs ==
  ASSUME IInv, NEW t \in Threads, Polling(t), PollReturn(t), SameEntries,
         UNCHANGED <<dqrr, vdqcr, hw, cmds>>
  PROVE  LET b == th[t].dest IN
         /\ OnlyUser(b)
         /\ IF th[t].api = "complete" THEN ProvenIs(b) /\ lost' = lost
            ELSE FetchedIs(b) /\ lost' = (lost \/ Armed(b))
         /\ Undo' = Undo /\ th'[t].pc = "idle"
         /\ (Caller' <=> Caller)
<1> DEFINE b == th[t].dest
<1>0. Types /\ b \in Buffers /\ (~Entry(b).last => user[b].next < MaxNumf)
  BY LooksAt DEF IInv
<1>1. /\ th'[t].pc = "idle" /\ \A u \in Threads \ {t} : th'[u] = th[u]
      /\ \A c \in Buffers \ {b} : user'[c] = user[c]
      /\ IF th[t].api = "complete"
           THEN user'[b].cmd = user[b].cmd /\ user'[b].next = user[b].next
                /\ lost' = lost
           ELSE /\ IF Entry(b).last THEN user'[b] = Free
                   ELSE user'[b].cmd = user[b].cmd /\ user'[b].next = user[b].next + 1
                /\ lost' = (lost \/ Armed(b))
  BY <1>0, ReturnIs
<1>2. Undo' = Undo /\ (Caller' <=> Caller)
  BY <1>1 DEF Undo, Caller, Polling
<1> QED
  BY <1>1, <1>2 DEF OnlyUser, ProvenIs, FetchedIs

\* A caller fetches the next result of its buffer without giving vdq back.
LEMMA ReturnFetches ==
  ASSUME IInv, InFlight, IInv', OwedStays, NEW t \in Threads, Polling(t),
         PollReturn(t), SameEntries, th[t].api # "complete",
         UNCHANGED <<busy, dqrr, vdqcr, hw, cmds>>
  PROVE  InFlight' /\ \E c \in 1..MaxCmds : Abstract!FetchOf(c)
<1> DEFINE b == th[t].dest
           r == <<user[b].cmd, user[b].next>>
<1>0. Types
  BY DEF IInv
<1>1. /\ OnlyUser(b) /\ FetchedIs(b) /\ Undo' = Undo /\ (Caller' <=> Caller)
      /\ b \in Buffers /\ user[b].cmd # 0 /\ Entry(b).cmd = user[b].cmd
      /\ lost' = (lost \/ Armed(b))
  BY PollReturnIs, LooksAt
<1>2. InFlight'
  BY <1>0, <1>1, ReturnInFlight
<1>3. /\ r \in Outstanding /\ Outstanding' = Outstanding \ {r}
      /\ \A q \in Outstanding : q[1] = r[1] => q[2] >= r[2]
  BY <1>0, <1>1, FetchIs
<1>4. Holder' = Holder \/ (Holder = "command" /\ Holder' = "lost")
  <2>1. CASE lost' = lost
    BY <1>1, <2>1, HolderStays
  <2>2. CASE lost' # lost
    <3>1. lost \in BOOLEAN
      BY <1>0 DEF Types
    <3>2. Armed(b) /\ ~lost /\ lost'
      BY <1>1, <2>2, <3>1, Zenon
    <3>3. ~Caller
      BY <1>1, <3>2 DEF IInv, Rights, OneRight, Caller, ByThread
    <3>4. Right
      BY <1>1, <3>2 DEF Right
    <3>5. HolderOk /\ HolderOk'
      BY HolderIs, HolderIsThen
    <3> QED
      BY <1>1, <3>2, <3>3, <3>4, <3>5 DEF HolderOk
  <2> QED
    BY <2>1, <2>2
<1>5. Abstract!Fetch(r)
  <2> HIDE DEF r
  <2> QED
    BY <1>2, <1>3, <1>4, FetchMore
<1>6. user[b].cmd \in 1..MaxCmds /\ user[b].next \in 1..MaxNumf
  BY <1>0, <1>1, DataTypes
<1> QED
  BY <1>2, <1>5, <1>6 DEF Abstract!FetchOf

\* qbman_check_command_complete fetches nothing.
LEMMA ProvenOutstanding ==
  ASSUME NEW b \in Buffers, OnlyUser(b), ProvenIs(b)
  PROVE  Outstanding' = Outstanding
<1>1. \A c \in Buffers : user'[c].cmd = user[c].cmd /\ user'[c].next = user[c].next
  BY DEF OnlyUser, ProvenIs
<1>2. \A c \in 1..MaxCmds : \A n \in 1..MaxNumf :
        (InBuffer(c, n)' <=> InBuffer(c, n)) /\ (InDqrr(c, n)' <=> InDqrr(c, n))
  BY <1>1 DEF InBuffer, InDqrr, OnlyUser, SameEntries
<1> QED
  BY <1>2 DEF Outstanding

LEMMA PollClearRefines ==
  ASSUME IInv, InFlight, IInv', OwedStays, NEW t \in Threads, PollClear(t)
  PROVE  /\ InFlight'
         /\ (\E c \in 1..MaxCmds : Abstract!FetchOf(c)) \/ UNCHANGED Abstract!vars
<1>0. Types
  BY DEF IInv
<1>1. /\ th[t].pc = "clear" /\ Polling(t) /\ th[t].dest \in Buffers
      /\ UNCHANGED <<busy, dqrr, vdqcr, hw, cmds>>
  BY LooksAt DEF PollClear, Polling
<1> PICK b \in Buffers : b = th[t].dest
  BY <1>1
<1> PICK n \in 1..MaxNumf : n = user[b].next
  BY <1>0 DEF Types
<1>2. SameEntries
  <2>1. cells' = [cells EXCEPT ![b] = [cells[b] EXCEPT ![n] = Cleared(cells[b][n])]]
    BY DEF PollClear, Cleared
  <2>2. CellsButTok(b, n)
    BY <1>0, <2>1, ClearIs
  <2> QED
    BY <2>2 DEF CellsButTok, SameEntries
<1>3. CASE th[t].api = "check_new"
  <2>1. PollReturn(t)
    BY <1>3 DEF PollClear
  <2> QED
    BY <1>1, <1>2, <1>3, <2>1, ReturnFetches
<1>4. CASE th[t].api # "check_new"
  <2>1. Goto(t, "compare") /\ user' = user /\ lost' = lost
    BY <1>4 DEF PollClear
  <2>2. Undo' = Undo /\ (Caller' <=> Caller)
    BY <1>0, <1>1, <2>1, GotoIs DEF Undo, Caller
  <2>3. Holder' = Holder
    BY <1>1, <2>1, <2>2, HolderStays
  <2>4. OnlyUser(b)
    BY <1>1, <1>2, <2>1 DEF OnlyUser
  <2>5. InFlight'
    <3>1. ProvenIs(b)
      BY <2>1 DEF ProvenIs
    <3> QED
      BY <1>0, <2>4, <3>1, ReturnInFlight
  <2>6. Outstanding' = Outstanding
    <3>1. \A c \in 1..MaxCmds : \A i \in 1..MaxNumf :
            (InBuffer(c, i)' <=> InBuffer(c, i)) /\ (InDqrr(c, i)' <=> InDqrr(c, i))
      BY <1>1, <1>2, <2>1 DEF InBuffer, InDqrr, SameEntries
    <3> QED
      BY <3>1 DEF Outstanding
  <2>7. UNCHANGED Abstract!vars
    BY <1>1, <2>3, <2>6 DEF Abstract!vars, Pending
  <2> QED
    BY <2>5, <2>7
<1> QED
  BY <1>3, <1>4

\* The comparison with vdq.storage: the caller goes on to release vdq, or returns.
LEMMA PollCompareRefines ==
  ASSUME IInv, InFlight, IInv', OwedStays, NEW t \in Threads, PollCompare(t)
  PROVE  /\ InFlight'
         /\ (\E c \in 1..MaxCmds : Abstract!FetchOf(c)) \/ UNCHANGED Abstract!vars
<1>0. Types
  BY DEF IInv
<1>1. /\ th[t].pc = "compare" /\ Polling(t) /\ th[t].dest \in Buffers
      /\ UNCHANGED <<busy, cells, dqrr, vdqcr, hw, cmds>>
  BY LooksAt DEF PollCompare, Polling
<1>2. SameEntries
  BY <1>1 DEF SameEntries
<1>3. CASE PollReturn(t) /\ th[t].api # "complete"
  BY <1>1, <1>2, <1>3, ReturnFetches
<1>4. CASE PollReturn(t) /\ th[t].api = "complete"
  <2> PICK b \in Buffers : b = th[t].dest
    BY <1>1
  <2>1. /\ OnlyUser(b) /\ ProvenIs(b) /\ Undo' = Undo /\ (Caller' <=> Caller)
        /\ lost' = lost
    BY <1>1, <1>2, <1>4, PollReturnIs
  <2>2. Holder' = Holder /\ Outstanding' = Outstanding
    BY <1>1, <2>1, HolderStays, ProvenOutstanding
  <2>3. UNCHANGED Abstract!vars
    BY <1>1, <2>2 DEF Abstract!vars, Pending
  <2> QED
    BY <1>0, <2>1, <2>3, ReturnInFlight
<1>5. CASE Goto(t, "null") /\ UNCHANGED <<user, lost>>
  <2>1. Undo' = Undo /\ (Caller' <=> Caller)
    BY <1>0, <1>1, <1>5, GotoIs DEF Undo, Caller
  <2> QED
    BY <1>1, <1>5, <2>1, HolderStays, SameInFlight, NothingFetched DEF SameCommand
<1> QED
  BY <1>3, <1>4, <1>5 DEF PollCompare

\* The first result of a buffer's command gives vdq back: it is the newest command,
\* which has left the register.
LEMMA PollIncRefines ==
  ASSUME IInv, InFlight, IInv', OwedStays, NEW t \in Threads, PollInc(t)
  PROVE  /\ InFlight'
         /\ Abstract!Release \/ \E c \in 1..MaxCmds : Abstract!FetchOf(c)
<1>0. Types
  BY DEF IInv
<1>1. /\ th[t].pc = "inc" /\ Polling(t) /\ th[t].dest \in Buffers /\ PollReturn(t)
      /\ busy' = busy + 1 /\ UNCHANGED <<cells, dqrr, vdqcr, hw, cmds>>
  BY LooksAt DEF PollInc, Polling
<1> PICK b \in Buffers : b = th[t].dest
  BY <1>1
<1> PICK n \in 1..MaxNumf : n = user[b].next
  BY <1>0 DEF Types
<1> DEFINE r == <<user[b].cmd, user[b].next>>
<1>2. /\ OnlyUser(b) /\ (IF th[t].api = "complete" THEN ProvenIs(b) ELSE FetchedIs(b))
      /\ lost' = lost \/ lost' = (lost \/ Armed(b))
      /\ Undo' = Undo /\ (Caller' <=> Caller)
      /\ user[b].cmd # 0 /\ Entry(b).cmd = user[b].cmd
  BY <1>1, PollReturnIs, LooksAt DEF SameEntries
<1>3. user[b].cmd = cmds
  BY <1>1, <1>2 DEF InFlight, Newest, Owed
<1>4. Holder = "command" /\ ~Pending /\ Holder' = "nobody"
  <2>1. /\ \A u \in Threads \ {t} : ~ByThread(u)
        /\ ~DqrrOpen /\ \A c \in Buffers : ~Armed(c)
        /\ ByThread(t)
    BY <1>1 DEF IInv, Rights, OneRight, ByThread
  <2>2. Right /\ ~Caller
    BY <1>1, <2>1 DEF Right, Caller, ByThread
  <2>9. ~lost
    BY <1>1, <2>1 DEF IInv, Rights, LostAlone
  <2>10. ~lost'
    BY <1>2, <2>1, <2>9
  <2>3. Holder = "command"
    BY <2>2, <2>9, HolderIs DEF HolderOk
  <2>4. \A c \in Buffers : ~PendingOn(c)
    BY <2>1, <2>9 DEF IInv, Rights, PendingHeld
  <2>5. ~Pending
    BY <1>0, <2>1, <2>4, CmdFacts DEF PendingOn, Dests, DqrrOpen
  <2>6. busy = 1 - 1 - Cardinality(Undo)
    BY <2>2 DEF IInv, Rights, BusyAccounted
  <2>7. busy' + Cardinality(Undo') = 1
    BY <1>1, <1>2, <2>6, UndoFacts
  <2>8. Holder' = "nobody"
    BY <1>2, <2>2, <2>7, <2>10 DEF Holder, Caller
  <2> QED
    BY <2>3, <2>5, <2>8
<1>5. InFlight'
  BY <1>0, <1>2, ReturnInFlight
<1>6. r \in Outstanding
  BY <1>0, <1>2, OfBuffer DEF Entry
<1>7. CASE th[t].api = "complete"
  <2>1. Outstanding' = Outstanding
    BY <1>2, <1>7, ProvenOutstanding
  <2>2. Abstract!Release <=>
          /\ \/ /\ Holder = "command" /\ Queued = 0
                /\ \E q \in Outstanding : q[1] = cmds
                /\ Holder' = "nobody"
             \/ Holder = "command" /\ Holder' = "lost"
          /\ UNCHANGED <<cmds, Queued, Running, Outstanding>>
    BY DEF Abstract!Release, Abstract!Proof, Queued, Running, Pending
  <2>3. UNCHANGED <<Queued, Running>> /\ Queued = 0
    BY <1>1, <1>4, QueuedIs DEF Queued, Running, Pending
  <2>4. Abstract!Release
    BY <1>1, <1>3, <1>4, <1>6, <2>1, <2>2, <2>3
  <2> QED
    BY <1>5, <2>4
<1>8. CASE th[t].api # "complete"
  <2>1. /\ Outstanding' = Outstanding \ {r}
        /\ \A q \in Outstanding : q[1] = r[1] => q[2] >= r[2]
    BY <1>0, <1>2, <1>8, FetchIs
  <2>2. r[1] = cmds
    BY <1>3
  <2>3. Abstract!Fetch(r)
    <3> HIDE DEF r
    <3> QED
      BY <1>1, <1>4, <1>6, <2>1, <2>2, FetchLast
  <2>4. user[b].cmd \in 1..MaxCmds
    BY <1>0, <1>2, DataTypes
  <2> QED
    BY <1>5, <2>3, <2>4 DEF Abstract!FetchOf
<1> QED
  BY <1>7, <1>8

-----------------------------------------------------------------------------
\* Every step of Vdq is a step of Pulls, or none.
LEMMA StepRefines ==
  ASSUME IInv, InFlight, IInv', [Next]_vars
  PROVE  InFlight' /\ [Abstract!Next]_(Abstract!vars)
<1> DEFINE Refines == InFlight' /\ [Abstract!Next]_(Abstract!vars)
<1>1. CASE \E t \in Threads : PullWrite(t)
  BY <1>1, WriteRefines DEF Abstract!Next
<1>2. CASE ~ \E t \in Threads : PullWrite(t)
  <2>0. OwedStays
    BY <1>2, OthersOwed
  <2>1. CASE UNCHANGED vars
    <3>1. Holder' = Holder
      BY <2>1, HolderStays DEF vars, Undo, Caller
    <3> QED
      BY <2>0, <2>1, <3>1, SameInFlight, NothingFetched DEF vars, SameCommand
  <2>2. CASE QMan
    BY <2>0, <2>2, StartRefines, ResultRefines DEF QMan, Abstract!Next
  <2>3. ASSUME NEW t \in Threads, Call(t) PROVE Refines
    <3>1. CASE \E dest \in Dests : PullDec(t, dest)
      BY <2>0, <3>1, PullDecRefines DEF Abstract!Next
    <3>2. CASE \E b \in Buffers, api \in PollApis : PollToken(t, b, api)
      BY <2>0, <3>2, InnerRefines
    <3>3. CASE DqrrNext(t)
      BY <2>0, <3>3, DqrrNextRefines DEF Abstract!Next
    <3> QED
      BY <2>3, <3>1, <3>2, <3>3 DEF Call
  <2>4. ASSUME NEW t \in Threads, Continue(t) PROVE Refines
    <3>1. CASE PullUndo(t) \/ PullSetStorage(t) \/ PollNull(t)
      BY <2>0, <3>1, PullUndoRefines, InnerRefines
    <3>2. CASE PollClear(t)
      BY <2>0, <3>2, PollClearRefines DEF Abstract!Next
    <3>3. CASE PollCompare(t)
      BY <2>0, <3>3, PollCompareRefines DEF Abstract!Next
    <3>4. CASE PollInc(t)
      BY <2>0, <3>4, PollIncRefines DEF Abstract!Next
    <3> QED
      BY <1>2, <2>4, <3>1, <3>2, <3>3, <3>4 DEF Continue
  <2>5. ASSUME NEW t \in Threads, Drain(t) PROVE Refines
    BY <2>0, <2>5, DrainRefines DEF Abstract!Next
  <2>6. CASE BodySeen
    BY <2>0, <2>6, BodySeenRefines
  <2> QED
    BY <2>1, <2>2, <2>3, <2>4, <2>5, <2>6 DEF Next
<1> QED
  BY <1>1, <1>2

LEMMA InitRefines == Init => Abstract!Init
<1> SUFFICES ASSUME Init PROVE Abstract!Init
  OBVIOUS
<1>1. /\ busy = 1 /\ cmds = 0 /\ hw.cmd = None /\ hw.written = 0 /\ dqrr = <<>> /\ ~Pending
      /\ \A t \in Threads : th[t].pc = "idle"
      /\ \A b \in Buffers : user[b].cmd = 0
  BY DEF Init, Idle, Free, Pending
<1>5. ~lost
  BY DEF Init
<1>2. Undo = {} /\ Cardinality(Undo) = 0
  <2>1. Undo = {}
    BY <1>1 DEF Undo
  <2> QED
    BY <2>1, FS_EmptySet
<1>3. Holder = "nobody"
  BY <1>1, <1>2, <1>5 DEF Holder
<1>4. Outstanding = {}
  <2>1. \A c \in 1..MaxCmds : c # 0
    BY VdqAssumption
  <2> QED
    BY <1>1, <2>1 DEF Outstanding, InBuffer, InDqrr
<1> QED
  BY <1>1, <1>3, <1>4 DEF Abstract!Init, Abstract!NoRun, Pending, None

\* portal.h's "1-deep pipeline": pulls and polls keep the promise that Pulls states.
\* The right to issue goes to one pull at a time, from there to its command, and comes
\* back with proof that it was started, or is lost for good; the results of a command
\* are fetched once and in order.  The safety part of PullsSpec.
THEOREM ImplementsPulls == Spec => Abstract!Spec
<1>1. IInv /\ InFlight /\ IInv' /\ [Next]_vars
        => InFlight' /\ [Abstract!Next]_(Abstract!vars)
  BY StepRefines
<1> QED
  BY <1>1, InitRefines, InitInFlight, Inductive, PTL DEF Spec, Abstract!Spec
=============================================================================
