------------------------------- MODULE MgmtCmd ------------------------------
(***************************************************************************)
(* Management commands of a software portal: qbman_swp_mc_start, _submit,  *)
(* _result and _complete, under the functions that use them (buffer        *)
(* acquire, frame queue state, channel notifications, debug queries), and  *)
(* QMan, which executes the commands.                                      *)
(*                                                                         *)
(* The caller writes a command to the command register CR and polls for    *)
(* the response.  In direct mode a valid bit in word 0 of CR says that the *)
(* command is new and selects one of two response registers; in memory-    *)
(* backed mode a write to CR_RT says so, and the response echoes the bit.  *)
(* Polling gives up after a fixed number of reads.  One thread at a time   *)
(* uses the interface.                                                     *)
(***************************************************************************)
EXTENDS Integers, FiniteSets

CONSTANTS
  MaxPolls,     \* loopvar of qbman_swp_mc_complete, 1000 in the code
  MaxCmds,      \* commands issued in all; bounds the model
  MaxTimeouts   \* commands that QMan may answer too late; bounds the model

ASSUME MgmtAssumption ==
  MaxPolls \in Nat /\ MaxCmds \in Nat /\ MaxTimeouts \in Nat

VARIABLES
  mem_back,  \* QMan 5.0 and qman_cena_fastest_access?
  mc_vb, mr_vb, check,  \* struct qbman_swp: mc.valid_bit, mr.valid_bit, mc.check
  call,      \* the call in progress
  last,      \* the last finished call: its command, what came back
  cmds,      \* commands started so far; a command is known by its number
  timedOut,  \* commands whose caller gave up (history)
  taken,     \* commands whose response was handed to a call (history)
  stores,    \* parts of a command on their way to CR
  cr,        \* the command register (or memory) as QMan sees it
  rt,        \* CR_RT: QMan has been told of a command (memory-backed mode)
  rr,        \* the response registers RR0 and RR1 (direct mode)
  rr_mem,    \* the response memory (memory-backed mode)
  hw_vb,     \* the valid bit QMan takes for a new command (direct mode)
  exec,      \* the command QMan executes
  runs       \* command -> how often QMan has executed it intact (history)

driver == <<mc_vb, mr_vb, check>>
hw     == <<rr, rr_mem, hw_vb, exec, runs>>
history == <<timedOut, taken>>
vars   == <<mem_back, driver, call, last, cmds, history, stores, cr, rt, hw>>

-----------------------------------------------------------------------------
(* Broken variants of definitions (names with an underscore) stand before them. *)

Bits == {0, 1}
NoCmd  == [verb |-> 0, body |-> 0, vb |-> 0]
NoResp == [verb |-> 0, body |-> 0, vb |-> 0, ok |-> FALSE]
Idle   == [pc |-> "idle", loopvar |-> 0, copies |-> FALSE]
EIO == 5

Init ==
  /\ mem_back \in BOOLEAN
  /\ mc_vb = 1 /\ mr_vb = (IF mem_back THEN 1 ELSE 0) /\ check = "can_start"
  /\ call = Idle
  /\ last = [cmd |-> 0, ret |-> 0, verb |-> 0, body |-> 0]
  /\ cmds = 0 /\ timedOut = {} /\ taken = {}
  /\ stores = {} /\ cr = NoCmd /\ rt = FALSE
  /\ rr = [vb \in Bits |-> NoResp] /\ rr_mem = NoResp
  /\ hw_vb = 1 /\ exec = NoCmd
  /\ runs = [c \in 1..MaxCmds |-> 0]

ValidBit_OfMc == mc_vb
ValidBit == IF mem_back THEN mr_vb ELSE mc_vb

-----------------------------------------------------------------------------
(* The functions that issue commands.  Each fills in a cleared buffer from     *)
(* qbman_swp_mc_start, submits it and polls; without a response it is to return *)
(* -EIO.  "copies" are those that copy the response before they look if there  *)
(* is one.  The check "if (!ret)" in qbman_swp_mc_start never holds, so         *)
(* mc.check stays as it is.                                                     *)

mc_start(copies) ==
  /\ call.pc = "idle" /\ cmds < MaxCmds
  /\ call' = [Idle EXCEPT !.pc = "body", !.copies = copies]
  /\ cmds' = cmds + 1
  /\ UNCHANGED <<mem_back, driver, last, history, stores, cr, rt, hw>>

acquire              == mc_start(FALSE)
alt_fq_state         == mc_start(FALSE)
CDAN_set             == mc_start(FALSE)
cgr_statistics_query == mc_start(FALSE)
bp_query             == mc_start(TRUE)
fq_query             == mc_start(TRUE)
fq_query_state       == mc_start(TRUE)
cgr_query            == mc_start(TRUE)
cgr_wred_query       == mc_start(TRUE)
wqchan_query         == mc_start(TRUE)

Users == \/ acquire \/ alt_fq_state \/ CDAN_set \/ cgr_statistics_query
         \/ bp_query \/ fq_query \/ fq_query_state \/ cgr_query \/ cgr_wred_query
         \/ wqchan_query

(* qbman_swp_mc_submit: words 15..1, lwsync, word 0. *)

WriteBody ==
  /\ call.pc = "body"
  /\ mem_back \/ stores = {}            \* dma_wmb() in direct mode
  /\ stores' = {s \in stores : s.part # "body"}
                 \cup {[part |-> "body", cmd |-> cmds, vb |-> 0]}
  /\ call' = [call EXCEPT !.pc = "verb"]
  /\ UNCHANGED <<mem_back, driver, last, cmds, history, cr, rt, hw>>

Submitted_CheckStays ==
  call' = [call EXCEPT !.pc = "poll", !.loopvar = MaxPolls] /\ UNCHANGED check

Submitted == call' = [call EXCEPT !.pc = "poll", !.loopvar = MaxPolls] /\ check' = "can_poll"

WriteVerb_NoLwsync ==
  /\ call.pc = "verb"
  /\ stores' = {s \in stores : s.part = "body"}
                 \cup {[part |-> "word0", cmd |-> cmds, vb |-> ValidBit]}
  /\ IF mem_back THEN call' = [call EXCEPT !.pc = "trigger"] /\ UNCHANGED check
     ELSE Submitted
  /\ UNCHANGED <<mem_back, mc_vb, mr_vb, last, cmds, history, cr, rt, hw>>

WriteVerb ==
  /\ call.pc = "verb"
  /\ stores = {}
  /\ stores' = {[part |-> "word0", cmd |-> cmds, vb |-> ValidBit]}
  /\ IF mem_back THEN call' = [call EXCEPT !.pc = "trigger"] /\ UNCHANGED check
     ELSE Submitted
  /\ UNCHANGED <<mem_back, mc_vb, mr_vb, last, cmds, history, cr, rt, hw>>

\* dma_wmb() and the write to CR_RT.
Trigger ==
  /\ call.pc = "trigger"
  /\ stores = {}
  /\ rt' = TRUE
  /\ Submitted
  /\ UNCHANGED <<mem_back, mc_vb, mr_vb, last, cmds, history, stores, cr, hw>>

(* qbman_swp_mc_result, called at most MaxPolls + 1 times. *)

Response == IF mem_back THEN rr_mem ELSE rr[mc_vb]

Completed == Response.verb # 0 /\ (mem_back => Response.vb = mr_vb)

ToggleValidBit_Never == UNCHANGED <<mc_vb, mr_vb>>

ToggleValidBit ==
  IF mem_back THEN mr_vb' = 1 - mr_vb /\ UNCHANGED mc_vb
              ELSE mc_vb' = 1 - mc_vb /\ UNCHANGED mr_vb

\* A response is there; its user returns -EIO if QMan reports a failure.
Answer ==
  /\ call.pc = "poll" /\ Completed
  /\ ToggleValidBit
  /\ check' = "can_start"
  /\ last' = [cmd |-> cmds, ret |-> IF Response.ok THEN 0 ELSE -EIO,
              verb |-> Response.verb, body |-> Response.body]
  /\ taken' = taken \cup {Response.body}
  /\ call' = Idle
  /\ UNCHANGED <<mem_back, cmds, timedOut, stores, cr, rt, hw>>

PollAgain_Forever ==
  /\ call.pc = "poll" /\ ~Completed
  /\ call' = [call EXCEPT !.loopvar = @ - 1]
  /\ UNCHANGED <<mem_back, driver, last, cmds, history, stores, cr, rt, hw>>

PollAgain ==
  /\ call.pc = "poll" /\ ~Completed
  /\ call.loopvar > 0
  /\ call' = [call EXCEPT !.loopvar = @ - 1]
  /\ UNCHANGED <<mem_back, driver, last, cmds, history, stores, cr, rt, hw>>

\* NULL: the user returns -EIO, or has dereferenced it.  The valid bit stays,
\* and so does mc.check.
TimeOut ==
  /\ call.pc = "poll" /\ ~Completed
  /\ call.loopvar = 0
  /\ Cardinality(timedOut) < MaxTimeouts
  /\ timedOut' = timedOut \cup {cmds}
  /\ IF call.copies THEN call' = [call EXCEPT !.pc = "fault"] /\ UNCHANGED last
     ELSE /\ call' = Idle
          /\ last' = [cmd |-> cmds, ret |-> -EIO, verb |-> 0, body |-> 0]
  /\ UNCHANGED <<mem_back, driver, cmds, taken, stores, cr, rt, hw>>

-----------------------------------------------------------------------------
(* Memory and QMan. *)

Drain(s) ==
  /\ s \in stores
  /\ stores' = stores \ {s}
  /\ cr' = IF s.part = "body" THEN [cr EXCEPT !.body = s.cmd]
           ELSE [cr EXCEPT !.verb = s.cmd, !.vb = s.vb]
  /\ UNCHANGED <<mem_back, driver, call, last, cmds, history, rt, hw>>

\* QMan takes the command that is in CR.
Take ==
  /\ exec = NoCmd
  /\ IF mem_back THEN rt /\ rt' = FALSE /\ UNCHANGED hw_vb
     ELSE cr.verb # 0 /\ cr.vb = hw_vb /\ hw_vb' = 1 - hw_vb /\ UNCHANGED rt
  /\ exec' = cr
  /\ UNCHANGED <<mem_back, driver, call, last, cmds, history, stores, cr,
                 rr, rr_mem, runs>>

\* The response comes with the valid bit of its command.  RR0 and RR1: filling
\* the one clears the other.
Respond(ok) ==
  LET resp == [verb |-> exec.verb, body |-> exec.body, vb |-> exec.vb, ok |-> ok]
  IN /\ exec # NoCmd
     /\ IF mem_back THEN rr_mem' = resp /\ UNCHANGED rr
        ELSE /\ rr' = [vb \in Bits |-> IF vb = exec.vb THEN resp ELSE NoResp]
             /\ UNCHANGED rr_mem
     /\ runs' = IF exec.verb = exec.body THEN [runs EXCEPT ![exec.body] = @ + 1]
                ELSE runs
     /\ exec' = NoCmd
     /\ UNCHANGED <<mem_back, driver, call, last, cmds, history, stores, cr,
                    rt, hw_vb>>

-----------------------------------------------------------------------------
Caller == \/ WriteBody \/ WriteVerb \/ Trigger
          \/ Answer \/ PollAgain \/ TimeOut

Memory == \E s \in stores : Drain(s)

QMan == Take \/ \E ok \in BOOLEAN : Respond(ok)

Next == Users \/ Caller \/ Memory \/ QMan

Spec == Init /\ [][Next]_vars

\* A call once begun runs on, stores reach CR, QMan executes and answers.
FairSpec == Spec /\ WF_vars(Caller) /\ WF_vars(Memory) /\ WF_vars(QMan)

-----------------------------------------------------------------------------
(* Properties. *)

Cmds == 0..MaxCmds

\* The type invariant.
TypeOK ==
  /\ mem_back \in BOOLEAN /\ mc_vb \in Bits /\ mr_vb \in Bits
  /\ check \in {"can_start", "can_submit", "can_poll"}
  /\ call \in [pc : {"idle", "body", "verb", "trigger", "poll", "fault"},
               loopvar : 0..MaxPolls, copies : BOOLEAN]
  /\ last \in [cmd : Cmds, ret : {0, -EIO}, verb : Cmds, body : Cmds]
  /\ cmds \in Cmds /\ timedOut \subseteq Cmds /\ taken \subseteq Cmds
  /\ stores \subseteq [part : {"body", "word0"}, cmd : Cmds, vb : Bits]
  /\ cr \in [verb : Cmds, body : Cmds, vb : Bits] /\ rt \in BOOLEAN
  /\ rr \in [Bits -> [verb : Cmds, body : Cmds, vb : Bits, ok : BOOLEAN]]
  /\ rr_mem \in [verb : Cmds, body : Cmds, vb : Bits, ok : BOOLEAN]
  /\ hw_vb \in Bits /\ exec \in [verb : Cmds, body : Cmds, vb : Bits]
  /\ runs \in [1..MaxCmds -> Nat]

\* As long as no call times out, QMan executes every command once, never one
\* put together of two, and the caller gets the response to its own command.
ExactlyOnce ==
  timedOut = {} =>
    /\ last.verb = last.cmd /\ last.body = last.cmd
    /\ \A c \in 1..MaxCmds : runs[c] \in IF c <= last.cmd THEN {1}
                                         ELSE IF c = cmds THEN {0, 1} ELSE {0}

\* A caller is handed the response to another command only if the caller of
\* that one gave up on it: an old response is not taken for a new one.
StaleOnlyAfterTimeout == last.verb \in {0, last.cmd} \cup timedOut

\* Also when calls time out, no response is handed to two calls: the buffers of an
\* acquire have one owner, and statistics that were read and cleared count once.
HandedOnce == [][last' # last /\ last'.body # 0 => last'.body \notin taken]_vars

\* As long as no call times out, the registers, memory and valid bits keep the
\* promise of the mailbox: a step is one of the mailbox, or changes nothing of it.
Abstract == INSTANCE Mailbox WITH
  sent <- cmds, answered <- last.cmd,
  executed <- Cardinality({c \in 1..MaxCmds : runs[c] > 0})
MailboxSpec ==
  /\ Abstract!Init
  /\ [][Abstract!Next \/ timedOut' # {}]_<<cmds, last.cmd, runs>>

\* The assertions of QBMAN_CHECKING do not fire on correct callers, as long as
\* no call times out.
ChecksPass ==
  timedOut = {} =>
    /\ call.pc = "idle" => check = "can_start"
    /\ call.pc \in {"body", "verb"} => check # "can_submit"
    /\ call.pc = "poll" => check = "can_poll"

\* The valid bits of the driver and of QMan find each other again after late
\* answers: a later command is always answered in the end.
Answered == call.pc \notin {"idle", "fault"} ~> call.pc \in {"idle", "fault"}

\* fsl_qbman_portal.h: the functions "Return 0 for success", so QMan has
\* executed the command of a call that returned 0.
SuccessMeansDone == last.cmd > 0 /\ last.ret = 0 => runs[last.cmd] > 0
=============================================================================
