-------------------------------- MODULE Vdq --------------------------------
(***************************************************************************)
(* Volatile (pull) dequeues of a software portal: qbman_swp_pull, the      *)
(* functions that poll for its results, and QMan's side of VDQCR.          *)
(*                                                                         *)
(* VDQCR is a one-deep pipeline: one command executes while one more may   *)
(* sit in the register.  vdq.busy guards the register.  It is taken by     *)
(* qbman_swp_pull and given back by whoever first sees a result of the     *)
(* command: the first result in user storage, or the last one in DQRR.     *)
(*                                                                         *)
(* Several threads pull on the portal and poll storage; a result entry is  *)
(* polled by one thread at a time, and DQRR by one thread at a time.  A    *)
(* buffer is given to a new command only after the last result of the old  *)
(* one was read from it.                                                   *)
(*                                                                         *)
(* vdq.busy is given back behind a store of NULL to vdq.storage that may   *)
(* become visible later (unseen).  If another thread has pulled meanwhile, *)
(* NULL wipes out its pointer, and nobody will give vdq back for it: lost. *)
(***************************************************************************)
EXTENDS Integers, Sequences, FiniteSets

CONSTANTS
  Threads,
  Buffers,       \* result storage areas
  NULL,          \* storage pointer of commands that target DQRR
  MaxNumf,       \* frames asked of a command: results per command, at most
  MaxCmds        \* commands in all; bounds the model

ASSUME VdqAssumption ==
  /\ IsFiniteSet(Threads) /\ NULL \notin Buffers
  /\ MaxNumf \in Nat \ {0} /\ MaxCmds \in Nat

VARIABLES
  busy, valid_bit, storage,  \* struct qbman_swp, member vdq
  unseen,  \* thread -> buffer (or NULL: none) for which its store of NULL to
           \* vdq.storage is not yet visible to the others
  th,      \* thread -> the call it is in
  cells,   \* buffer -> result entries: token, and the command they are of
  user,    \* buffer -> what its user knows: command, next entry, released?
  dqrr,    \* volatile results in DQRR, oldest first
  vdqcr,   \* the VDQCR register, or its copy in memory, as QMan sees it
  body,    \* the command stored to its body that QMan does not see yet, or None
  hw,      \* QMan: valid bit it expects, command it executes, results so far
  cmds,    \* commands issued so far (history)
  lost     \* has a late NULL kept vdq from being given back? (history)

vars == <<busy, valid_bit, storage, unseen, th, cells, user, dqrr, vdqcr, body, hw,
          cmds, lost>>

-----------------------------------------------------------------------------
(* Broken variants of definitions (names with an underscore) stand before them. *)

Dests == Buffers \cup {NULL}
Token == 1                      \* sys.idx + 1, of this portal
None  == [id |-> 0, dest |-> NULL]
Commands == [id : 1..MaxCmds, dest : Dests]

Idle == [pc |-> "idle", dest |-> NULL, api |-> "none"]
Free == [cmd |-> 0, next |-> 1, released |-> FALSE]

Init ==
  /\ busy = 1 /\ valid_bit = 1 /\ storage = NULL
  /\ unseen = [t \in Threads |-> NULL]
  /\ th = [t \in Threads |-> Idle]
  /\ cells = [b \in Buffers |->
                [j \in 1..MaxNumf |-> [tok |-> 0, cmd |-> 0, last |-> FALSE]]]
  /\ user = [b \in Buffers |-> Free]
  /\ dqrr = <<>>
  /\ vdqcr = [vb |-> 0, cmd |-> None]
  /\ hw = [vb |-> 1, cmd |-> None, written |-> 0]
  /\ body = None /\ cmds = 0 /\ lost = FALSE

Goto(t, pc) == th' = [th EXCEPT ![t].pc = pc]
Done(t) == th' = [th EXCEPT ![t] = Idle]

\* vdq.storage as the thread sees it: its own store counts at once.
SeenStorage(t) == IF unseen[t] # NULL THEN NULL ELSE storage

\* A buffer is in use by one thread at a time, and goes from one to the other
\* by synchronisation of the caller's, which makes earlier stores visible.
OnlyFor(t, b) == \A u \in Threads \ {t} : th[u].dest # b /\ unseen[u] # b

\* Who is to give vdq back is told by vdq.storage alone: it points to the first
\* entry of the command, which nobody has compared with it yet.
Armed(b) ==
  /\ storage = b /\ user[b].cmd # 0 /\ user[b].next = 1
  /\ \A t \in Threads :
       unseen[t] # b /\ ~(th[t].pc \in {"null", "inc"} /\ th[t].dest = b)
Arming(b) ==
  storage = b /\ \E t \in Threads : th[t].pc = "write" /\ th[t].dest = b

\* QMan is to take the command in VDQCR.
Pending == vdqcr.vb = hw.vb

\* The NULL that the thread has stored, if any, becomes visible.  It may wipe out a
\* newer pointer.
StoreSeen(t) ==
  /\ storage' = SeenStorage(t)
  /\ unseen' = [unseen EXCEPT ![t] = NULL]
  /\ lost' = (lost \/ (unseen[t] # NULL /\ \E b \in Buffers : Armed(b) \/ Arming(b)))

-----------------------------------------------------------------------------
(* qbman_swp_pull, with storage dest or (NULL) into DQRR. *)

\* atomic_dec_and_test; its barrier makes the thread's earlier stores visible.  A
\* refused call does not touch the storage.
PullDec(t, dest) ==
  /\ th[t].pc = "idle" /\ cmds < MaxCmds
  /\ dest # NULL => user[dest] = Free /\ OnlyFor(t, dest)
  /\ busy' = busy - 1
  /\ th' = [th EXCEPT ![t] = IF busy = 1 THEN [pc |-> "won", dest |-> dest, api |-> "pull"]
                                         ELSE [Idle EXCEPT !.pc = "undo"]]
  /\ StoreSeen(t)
  /\ UNCHANGED <<valid_bit, cells, user, dqrr, vdqcr, body, hw, cmds>>

PullUndo_NoInc(t) ==
  /\ th[t].pc = "undo"
  /\ Done(t)
  /\ UNCHANGED <<busy, valid_bit, storage, unseen, cells, user, dqrr, vdqcr, body,
                 hw, cmds, lost>>

\* atomic_inc, and the call returns -EBUSY.
PullUndo(t) ==
  /\ th[t].pc = "undo"
  /\ busy' = busy + 1
  /\ Done(t)
  /\ UNCHANGED <<valid_bit, storage, unseen, cells, user, dqrr, vdqcr, body, hw,
                 cmds, lost>>

\* vdq.storage, and memcpy to the words of the body, which tell QMan where the
\* results go.
PullSetStorage(t) ==
  /\ th[t].pc = "won"
  /\ storage' = th[t].dest
  /\ body' = [id |-> cmds + 1, dest |-> th[t].dest]
  /\ Goto(t, "write")
  /\ UNCHANGED <<busy, valid_bit, unseen, cells, user, dqrr, vdqcr, hw, cmds, lost>>

\* QMan sees the body.
BodySeen ==
  /\ body # None
  /\ vdqcr' = [vdqcr EXCEPT !.cmd = body]
  /\ body' = None
  /\ UNCHANGED <<busy, valid_bit, storage, unseen, th, cells, user, dqrr, hw, cmds,
                 lost>>

\* The command is the user's: its buffer is in use.
Submitted(t) ==
  /\ cmds' = cmds + 1
  /\ user' = IF th[t].dest = NULL THEN user
             ELSE [user EXCEPT ![th[t].dest] = [Free EXCEPT !.cmd = cmds + 1]]
  /\ Done(t)

PullWrite_SameBit(t) ==
  /\ th[t].pc = "write" /\ body = None
  /\ vdqcr' = [vdqcr EXCEPT !.vb = valid_bit]
  /\ Submitted(t)
  /\ UNCHANGED <<busy, valid_bit, storage, unseen, cells, dqrr, body, hw, lost>>

PullWrite_NoBarrier(t) ==
  /\ th[t].pc = "write"
  /\ vdqcr' = [vdqcr EXCEPT !.vb = valid_bit]
  /\ valid_bit' = 1 - valid_bit
  /\ Submitted(t)
  /\ UNCHANGED <<busy, storage, unseen, cells, dqrr, body, hw, lost>>

\* Word 0 with the valid bit, behind the body by lwsync; in
\* memory-backed mode QMan looks when VDQCR_RT is written, behind both by dma_wmb.
PullWrite(t) ==
  /\ th[t].pc = "write" /\ body = None
  /\ vdqcr' = [vdqcr EXCEPT !.vb = valid_bit]
  /\ valid_bit' = 1 - valid_bit
  /\ Submitted(t)
  /\ UNCHANGED <<busy, storage, unseen, cells, dqrr, body, hw, lost>>

-----------------------------------------------------------------------------
(* The functions that poll storage for the next result of its command.     *)
(* qbman_result_has_new_result clears the token and may release vdq;       *)
(* qbman_check_command_complete may release vdq and leaves the token, so   *)
(* that it can be called on an entry again and again;                      *)
(* qbman_check_new_result clears the token only, so its caller has called  *)
(* one of the others on the first entry.                                   *)

PollApis == {"has_new", "complete", "check_new"}
Entry(b) == cells[b][user[b].next]

\* A token of zero makes the function return 0, without effect.
PollToken(t, b, api) ==
  /\ th[t].pc = "idle"
  /\ user[b].cmd # 0
  /\ OnlyFor(t, b)
  /\ Entry(b).tok # 0
  /\ api = "check_new" => user[b].released \/ user[b].next > 1
  /\ th' = [th EXCEPT ![t] =
              [pc |-> IF api = "complete" THEN "compare" ELSE "clear",
               dest |-> b, api |-> api]]
  /\ UNCHANGED <<busy, valid_bit, storage, unseen, cells, user, dqrr, vdqcr, body,
                 hw, cmds, lost>>

\* The caller has the entry and goes on to the next one; after the last one the
\* buffer is free.  A first entry that vdq.storage still points to, compared by
\* nobody, will not be looked at again.
Advance(b) ==
  /\ user' = [user EXCEPT ![b] =
                IF Entry(b).last THEN Free
                ELSE [cmd |-> user[b].cmd, next |-> user[b].next + 1, released |-> FALSE]]
  /\ lost' = (lost \/ Armed(b))

PollReturn(t) ==
  LET b == th[t].dest
  IN /\ IF th[t].api # "complete" THEN Advance(b)
        ELSE user' = [user EXCEPT ![b].released = (user[b].next = 1)] /\ UNCHANGED lost
     /\ Done(t)

PollClear_KeepsToken(t) ==
  /\ th[t].pc = "clear"
  /\ IF th[t].api = "check_new" THEN PollReturn(t)
     ELSE Goto(t, "compare") /\ UNCHANGED <<user, lost>>
  /\ UNCHANGED <<busy, valid_bit, storage, unseen, cells, dqrr, vdqcr, body, hw,
                 cmds>>

PollClear(t) ==
  /\ th[t].pc = "clear"
  /\ cells' = [cells EXCEPT ![th[t].dest][user[th[t].dest].next].tok = 0]
  /\ IF th[t].api = "check_new" THEN PollReturn(t)
     ELSE Goto(t, "compare") /\ UNCHANGED <<user, lost>>
  /\ UNCHANGED <<busy, valid_bit, storage, unseen, dqrr, vdqcr, body, hw, cmds>>

PollCompare_AnyEntry(t) ==
  /\ th[t].pc = "compare"
  /\ Goto(t, "null")
  /\ UNCHANGED <<busy, valid_bit, storage, unseen, cells, user, dqrr, vdqcr, body,
                 hw, cmds, lost>>

PollCompare_NextEntry(t) ==
  /\ th[t].pc = "compare"
  /\ IF SeenStorage(t) = th[t].dest /\ user[th[t].dest].next = 2
       THEN Goto(t, "null") /\ UNCHANGED <<user, lost>>
       ELSE PollReturn(t)
  /\ UNCHANGED <<busy, valid_bit, storage, unseen, cells, dqrr, vdqcr, body, hw,
                 cmds>>

\* s->vdq.storage == dq: dq is the first entry of the storage of the command.
PollCompare(t) ==
  /\ th[t].pc = "compare"
  /\ IF SeenStorage(t) = th[t].dest /\ user[th[t].dest].next = 1
       THEN Goto(t, "null") /\ UNCHANGED <<user, lost>>
       ELSE PollReturn(t)
  /\ UNCHANGED <<busy, valid_bit, storage, unseen, cells, dqrr, vdqcr, body, hw,
                 cmds>>

PollNull(t) ==
  /\ th[t].pc = "null"
  /\ unseen' = [unseen EXCEPT ![t] = th[t].dest]
  /\ Goto(t, "inc")
  /\ UNCHANGED <<busy, valid_bit, storage, cells, user, dqrr, vdqcr, body, hw,
                 cmds, lost>>

\* atomic_inc is no barrier: not to the compiler (no "memory" clobber), and not
\* to the machine (ldxr and stxr).  It does not wait until NULL is visible.
PollInc(t) ==
  /\ th[t].pc = "inc"
  /\ busy' = busy + 1
  /\ PollReturn(t)
  /\ UNCHANGED <<valid_bit, storage, unseen, cells, dqrr, vdqcr, body, hw, cmds>>

\* The store of a thread reaches memory.
Drain(t) ==
  /\ unseen[t] # NULL
  /\ StoreSeen(t)
  /\ UNCHANGED <<busy, valid_bit, th, cells, user, dqrr, vdqcr, body, hw, cmds>>

-----------------------------------------------------------------------------
(* qbman_swp_dqrr_next on an entry of a volatile dequeue. *)

DqrrNext_AnyVolatile(t) ==
  /\ th[t].pc = "idle" /\ dqrr # <<>>
  /\ dqrr' = Tail(dqrr)
  /\ busy' = busy + 1
  /\ UNCHANGED <<valid_bit, storage, unseen, th, cells, user, vdqcr, body, hw,
                 cmds, lost>>

DqrrNext(t) ==
  /\ th[t].pc = "idle" /\ dqrr # <<>>
  /\ dqrr' = Tail(dqrr)
  /\ busy' = IF Head(dqrr).expired THEN busy + 1 ELSE busy
  /\ UNCHANGED <<valid_bit, storage, unseen, th, cells, user, vdqcr, body, hw,
                 cmds, lost>>

-----------------------------------------------------------------------------
(* QMan. *)

\* The command in VDQCR starts when the one before it has ended.
Start ==
  /\ Pending /\ hw.cmd = None
  /\ hw' = [vb |-> 1 - hw.vb, cmd |-> vdqcr.cmd, written |-> 0]
  /\ UNCHANGED <<busy, valid_bit, storage, unseen, th, cells, user, dqrr, vdqcr,
                 body, cmds, lost>>

\* A result of the command that executes; it is the last one when the frames
\* asked for, or those there are, have come.
Result(last) ==
  /\ hw.cmd # None
  /\ hw.written + 1 = MaxNumf => last
  /\ hw' = IF last THEN [hw EXCEPT !.cmd = None, !.written = 0]
                   ELSE [hw EXCEPT !.written = @ + 1]
  /\ IF hw.cmd.dest = NULL
       THEN /\ dqrr' = Append(dqrr, [cmd |-> hw.cmd.id, n |-> hw.written + 1,
                                  expired |-> last])
            /\ UNCHANGED cells
       ELSE /\ cells' = [cells EXCEPT ![hw.cmd.dest][hw.written + 1] =
                           [tok |-> Token, cmd |-> hw.cmd.id, last |-> last]]
            /\ UNCHANGED dqrr
  /\ UNCHANGED <<busy, valid_bit, storage, unseen, th, user, vdqcr, body, cmds,
                 lost>>

-----------------------------------------------------------------------------
Call(t) == \/ \E dest \in Dests : PullDec(t, dest)
           \/ \E b \in Buffers, api \in PollApis : PollToken(t, b, api)
           \/ DqrrNext(t)

\* The rest of a call that has begun.
Continue(t) == \/ PullUndo(t) \/ PullSetStorage(t) \/ PullWrite(t)
               \/ PollClear(t) \/ PollCompare(t) \/ PollNull(t) \/ PollInc(t)

QMan == Start \/ \E last \in BOOLEAN : Result(last)

Next == QMan \/ BodySeen \/ \E t \in Threads : Call(t) \/ Continue(t) \/ Drain(t)

Spec == Init /\ [][Next]_vars

\* A call once begun runs to its end, QMan executes, and stores reach it.  The user
\* polls for the next result of every buffer and for DQRR again and again, even if
\* pulls that are refused (-EBUSY) keep all threads busy now and then: hence strong
\* fairness.
FairSpec ==
  /\ Spec
  /\ WF_vars(QMan) /\ WF_vars(BodySeen)
  /\ \A b \in Buffers :
       SF_vars(\E t \in Threads, api \in PollApis \ {"complete"} : PollToken(t, b, api))
  /\ SF_vars(\E t \in Threads : DqrrNext(t))
  /\ \A t \in Threads : WF_vars(Continue(t)) /\ WF_vars(Drain(t))

-----------------------------------------------------------------------------
(* Properties. *)

\* The type invariant; vdq.busy is at most 1 (a release too many would never be
\* taken back: a pull is granted only on the step from 1 to 0).
TypeOK ==
  /\ busy \in (-Cardinality(Threads)) .. 1 /\ valid_bit \in {0, 1} /\ storage \in Dests
  /\ unseen \in [Threads -> Dests]
  /\ th \in [Threads -> [pc : {"idle", "won", "undo", "write", "clear",
                               "compare", "null", "inc"},
                         dest : Dests,
                         api : {"none", "pull", "has_new", "complete", "check_new"}]]
  /\ cells \in [Buffers -> [1..MaxNumf -> [tok : {0, Token}, cmd : 0..MaxCmds,
                                          last : BOOLEAN]]]
  /\ user \in [Buffers -> [cmd : 0..MaxCmds, next : 1..MaxNumf, released : BOOLEAN]]
  /\ \A k \in 1..Len(dqrr) :
       dqrr[k] \in [cmd : 1..MaxCmds, n : 1..MaxNumf, expired : BOOLEAN]
  /\ vdqcr \in [vb : {0, 1}, cmd : Commands \cup {None}]
  /\ body \in Commands \cup {None} /\ lost \in BOOLEAN
  /\ hw.vb \in {0, 1} /\ hw.cmd \in Commands \cup {None}
  /\ hw.written \in 0 .. MaxNumf - 1 /\ cmds \in 0..MaxCmds

\* portal.h: "busy" is "whether or not a command can be submitted".  So one
\* thread at a time submits, and then the command before has left the register:
\* no command is overwritten before QMan has started it.
OneDeepPipeline ==
  \A t \in Threads : th[t].pc \in {"won", "write"}
    => /\ ~Pending
       /\ \A u \in Threads \ {t} : th[u].pc \notin {"won", "write"}

\* A command into DQRR whose last result was not returned.
PendingOn(dest) == Pending /\ vdqcr.cmd.dest = dest
HwOn(dest) == hw.cmd # None /\ hw.cmd.dest = dest
Expired == \E k \in 1..Len(dqrr) : dqrr[k].expired
DqrrOpen == PendingOn(NULL) \/ HwOn(NULL) \/ Expired

\* The right to give vdq back is with the thread that submits, the command whose
\* first result is not yet compared, the thread that has compared it, or with DQRR.
ByThread(t) == th[t].pc \in {"won", "write", "null", "inc"}
Right == (\E t \in Threads : ByThread(t)) \/ (\E b \in Buffers : Armed(b)) \/ DqrrOpen

Undo == {t \in Threads : th[t].pc = "undo"}

\* vdq.busy is what the interleaving of pulls, polls and QMan leaves of it: 1,
\* less one while somebody has the right to give it back, or if that was lost, less
\* one for each pull that has lost the race and not yet undone its decrement.  So a
\* pull is refused, and -EBUSY returned, only in these cases; in the last one,
\* nobody may hold vdq.
BusyAccounted == busy = 1 - (IF Right \/ lost THEN 1 ELSE 0) - Cardinality(Undo)

\* The right to give vdq back is lost in one way only: while the NULL that a thread
\* has stored to vdq.storage, before the atomic_inc by which another thread could
\* pull, is not yet visible (compat.h: no barrier in atomic_inc).
LateNull == \E t \in Threads : unseen[t] \notin {NULL, storage}
LostByLateNull == [][lost' # lost => LateNull]_vars

Quiet ==
  /\ \A t \in Threads : th[t].pc = "idle"
  /\ \A t \in Threads : unseen[t] = NULL
  /\ ~Pending /\ hw.cmd = None
  /\ dqrr = <<>> /\ \A b \in Buffers : user[b] = Free

\* portal.h: "once proof is seen that the previously-submitted command is
\* executing, "vdq" is no longer "busy"": when all results have been seen, vdq
\* was given back, once for each command, and the next pull will be granted.
ReleasedOnce == Quiet => busy = 1

\* This holds until a late NULL has done harm: vdq is never given back twice, and is
\* not kept for any other reason, whichever functions the users poll with.
ReleasedUnlessLost == ~lost => ReleasedOnce

\* The entry that is about to be returned, and any the caller may look at next,
\* is a result of the buffer's present command and none left from an old one.
FreshResults ==
  \A b \in Buffers :
    user[b].cmd # 0 /\ (Entry(b).tok # 0 \/ \E t \in Threads : th[t].dest = b)
      => Entry(b).cmd = user[b].cmd

\* The right to pull as vdq.busy has it, the command in the register, the one that
\* QMan executes, and the results its callers have still to fetch.
Holder == IF \E t \in Threads : th[t].pc \in {"won", "write"} THEN "caller"
          ELSE IF lost THEN "lost"
          ELSE IF busy + Cardinality(Undo) = 1 THEN "nobody"
          ELSE "command"
InBuffer(c, n) == \E b \in Buffers :
  user[b].cmd = c /\ n >= user[b].next /\ cells[b][n].cmd = c
InDqrr(c, n) == \E k \in 1..Len(dqrr) : dqrr[k].cmd = c /\ dqrr[k].n = n
Outstanding ==
  {r \in (1..MaxCmds) \X (1..MaxNumf) : InBuffer(r[1], r[2]) \/ InDqrr(r[1], r[2])}

Abstract ==
  INSTANCE Pulls WITH
    holder <- Holder, issued <- cmds,
    queued <- IF Pending THEN vdqcr.cmd.id ELSE 0,
    running <- [cmd |-> hw.cmd.id, done |-> hw.written],
    waiting <- Outstanding

\* portal.h: "VDQCR is a 1-deep pipeline" whose submitter has to wait for proof
\* that the command before executes.  Pulls and polls implement this promise.
PullsSpec == Abstract!FairSpec

\* The results of a command are all delivered: its buffer becomes free, again and again.
AllDelivered == \A b \in Buffers : []<>(user[b] = Free)
=============================================================================
