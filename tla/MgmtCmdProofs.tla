---------------------------- MODULE MgmtCmdProofs ---------------------------
(***************************************************************************)
(* Proofs about MgmtCmd, for every number of polls, commands and late      *)
(* answers, in both modes.                                                 *)
(*                                                                         *)
(* The inductive invariant IInv says who may still be answered by what is  *)
(* under way.  A command, an execution or a response that carries the      *)
(* valid bit which the driver waits for is of the present command or of    *)
(* one whose caller gave up, and was never handed to a call (Outstanding). *)
(* When the driver takes a response and flips its bit, nothing under way   *)
(* carries the new bit: in direct mode because QMan's bit follows the      *)
(* driver's (Synced), in memory-backed mode because QMan executes one      *)
(* command at a time.  As long as no call timed out, one command at a time *)
(* goes through its stages (Alone).                                        *)
(***************************************************************************)
EXTENDS MgmtCmd, FiniteSetTheorems, TLAPS

Active == call.pc \in {"body", "verb", "trigger", "poll"}

\* The commands whose response a caller may be handed.
Ours == timedOut \cup (IF Active THEN {cmds} ELSE {})

\* A command or an execution with the valid bit that the driver waits for.
New(x) == x.verb # 0 /\ x.vb = ValidBit

\* QMan may take what is in CR.
Takeable == IF mem_back THEN rt ELSE cr.verb # 0 /\ cr.vb = hw_vb

\* At most one part of a command is on its way, and the body comes first.
Stores ==
  /\ \A s, t \in stores : s = t
  /\ \A s \in stores : IF s.part = "body" THEN call.pc = "verb" /\ s.cmd = cmds
                       ELSE call.pc # "verb" /\ s.cmd # 0
  /\ call.pc = "verb" /\ stores = {} => cr.body = cmds
  /\ call.pc \in {"trigger", "poll"} => cr.body = cmds
  /\ call.pc = "trigger" =>
       /\ mem_back
       /\ \A s \in stores : s.cmd = cmds /\ s.vb = ValidBit
       /\ stores = {} => cr.verb = cmds /\ cr.vb = ValidBit
  /\ mem_back /\ call.pc \in {"idle", "body", "poll", "fault"} => stores = {}

Counted ==
  /\ \A c \in taken : c <= cmds
  /\ Active => cmds > 0 /\ cmds \notin taken
  /\ check # "can_submit" /\ (call.pc = "poll" => check = "can_poll")
  /\ rt => cr.verb # 0
  /\ exec # NoCmd => exec.verb # 0
  /\ \A x \in {cr, exec, rr_mem, rr[0], rr[1]} : x.body <= cmds

Outstanding ==
  /\ New(cr) => cr.verb \in Ours /\ cr.body \notin taken
  /\ New(exec) => exec.verb \in Ours /\ exec.body \notin taken /\ cr.vb = ValidBit
  /\ Completed => /\ Response.verb \in Ours /\ Response.body \notin taken
                  /\ cr.vb = ValidBit /\ (exec = NoCmd \/ exec.vb = ValidBit)
  /\ \A s \in stores : s.part = "word0" =>
       IF s.vb = ValidBit THEN s.cmd \in Ours /\ cr.body \notin taken
       ELSE cr.vb # ValidBit

\* Direct mode: QMan's bit differs from the driver's from the command that QMan
\* takes to the response that the driver takes.
Synced ==
  ~mem_back =>
    /\ rr[0] = NoResp \/ rr[1] = NoResp
    /\ hw_vb = mc_vb => exec = NoCmd /\ rr[mc_vb] = NoResp
    /\ hw_vb # mc_vb =>
         /\ cr.vb = mc_vb
         /\ IF exec = NoCmd THEN rr[mc_vb].verb # 0
            ELSE exec.vb = mc_vb /\ rr[mc_vb] = NoResp

\* The stages of a command: before QMan can take it, in CR, executing, answered.
Quiet     == ~Takeable /\ exec = NoCmd /\ ~Completed
Sent      == Quiet /\ \A s \in stores : s.cmd = cmds /\ s.vb = ValidBit
                   /\ stores # {}
Ready     == /\ stores = {} /\ cr.verb = cmds /\ cr.vb = ValidBit
             /\ Takeable /\ exec = NoCmd /\ ~Completed
Executing == /\ stores = {} /\ exec.verb = cmds /\ exec.body = cmds
             /\ exec.vb = ValidBit /\ ~Takeable /\ ~Completed
Responded == /\ stores = {} /\ Response.verb = cmds /\ Response.body = cmds
             /\ Completed /\ exec = NoCmd /\ ~Takeable

Alone ==
  timedOut = {} =>
    /\ call.pc # "fault"
    /\ last.cmd = (IF Active THEN cmds - 1 ELSE cmds)
    /\ last.verb = last.cmd /\ last.body = last.cmd
    /\ \A c \in 1..MaxCmds :
         runs[c] = IF c <= last.cmd \/ (c = cmds /\ Completed) THEN 1 ELSE 0
    /\ call.pc \in {"idle", "body"} => stores = {}
    /\ call.pc # "poll" => Quiet
    /\ call.pc = "poll" => Sent \/ Ready \/ Executing \/ Responded
    /\ call.pc = "idle" => check = "can_start"

IInv == /\ TypeOK /\ Stores /\ Counted /\ Outstanding /\ Synced /\ Alone
        /\ StaleOnlyAfterTimeout

-----------------------------------------------------------------------------
\* Types of what the definitions look at.
LEMMA Basics ==
  ASSUME TypeOK
  PROVE  /\ ValidBit \in Bits /\ mc_vb \in Bits /\ mr_vb \in Bits /\ hw_vb \in Bits
         /\ mem_back \in BOOLEAN /\ rt \in BOOLEAN /\ cmds \in Nat /\ MaxCmds \in Nat
         /\ Response \in [verb : Cmds, body : Cmds, vb : Bits, ok : BOOLEAN]
         /\ rr[0] \in [verb : Cmds, body : Cmds, vb : Bits, ok : BOOLEAN]
         /\ rr[1] \in [verb : Cmds, body : Cmds, vb : Bits, ok : BOOLEAN]
         /\ cr \in [verb : Cmds, body : Cmds, vb : Bits]
         /\ exec \in [verb : Cmds, body : Cmds, vb : Bits]
         /\ \A c \in Cmds : c \in Nat
BY MgmtAssumption, SMTT(30) DEF TypeOK, ValidBit, Response, Bits, Cmds

\* A submitted call goes on to poll, and its fields keep their types.
LEMMA SubmittedType ==
  ASSUME TypeOK, Submitted
  PROVE  call' \in [pc : {"idle", "body", "verb", "trigger", "poll", "fault"},
                    loopvar : 0..MaxPolls, copies : BOOLEAN]
<1> DEFINE T == [pc : {"idle", "body", "verb", "trigger", "poll", "fault"},
                 loopvar : 0..MaxPolls, copies : BOOLEAN]
           y == [call EXCEPT !.pc = "poll"]
<1>1. y \in T
  BY DEF TypeOK
<1>2. MaxPolls \in 0..MaxPolls
  BY MgmtAssumption
<1>3. call' = [y EXCEPT !.loopvar = MaxPolls]
  BY DEF Submitted
<1> HIDE DEF y
<1> QED
  BY <1>1, <1>2, <1>3

LEMMA IdleType ==
  Idle \in [pc : {"idle", "body", "verb", "trigger", "poll", "fault"},
            loopvar : 0..MaxPolls, copies : BOOLEAN]
BY MgmtAssumption DEF Idle

\* Nothing changes: the definitions are about the variables alone.
LEMMA StutterIInv ==
  ASSUME IInv, UNCHANGED vars
  PROVE  IInv'
<1>1. TypeOK' /\ StaleOnlyAfterTimeout'
  BY DEF IInv, vars, driver, hw, history, TypeOK, StaleOnlyAfterTimeout
<1>2. /\ ValidBit' = ValidBit /\ Response' = Response /\ Ours' = Ours
      /\ Completed' = Completed /\ Takeable' = Takeable
  BY DEF vars, driver, hw, history, ValidBit, Response, Ours, Active, Completed, Takeable
<1>3. Stores' /\ Counted' /\ Outstanding' /\ Synced'
  BY <1>2 DEF IInv, vars, driver, hw, history, Stores, Counted, Active, Outstanding,
              New, Synced
<1>4. Alone'
  BY <1>2 DEF IInv, vars, driver, hw, history, Alone, Active, Quiet, Sent, Ready,
              Executing, Responded
<1> QED
  BY <1>1, <1>3, <1>4 DEF IInv

LEMMA InitIInv == Init => IInv
<1> SUFFICES ASSUME Init PROVE IInv
  OBVIOUS
<1> USE DEF Init, NoCmd, NoResp, Idle, Bits
<1>1. TypeOK
  <2>1. last \in [cmd : Cmds, ret : {0, -EIO}, verb : Cmds, body : Cmds]
    BY MgmtAssumption DEF Cmds
  <2>2. call \in [pc : {"idle", "body", "verb", "trigger", "poll", "fault"},
                  loopvar : 0..MaxPolls, copies : BOOLEAN]
    BY MgmtAssumption
  <2>3. /\ cr \in [verb : Cmds, body : Cmds, vb : Bits]
        /\ exec \in [verb : Cmds, body : Cmds, vb : Bits]
        /\ rr \in [Bits -> [verb : Cmds, body : Cmds, vb : Bits, ok : BOOLEAN]]
        /\ rr_mem \in [verb : Cmds, body : Cmds, vb : Bits, ok : BOOLEAN]
    BY MgmtAssumption DEF Cmds
  <2>4. cmds \in Cmds /\ runs \in [1..MaxCmds -> Nat]
    BY MgmtAssumption DEF Cmds
  <2> QED
    BY <2>1, <2>2, <2>3, <2>4 DEF TypeOK
<1>2. ValidBit = 1 /\ ~Completed /\ ~Takeable
  BY DEF ValidBit, Completed, Response, Takeable
<1>3. Stores /\ Counted /\ Synced /\ StaleOnlyAfterTimeout
  BY <1>2, MgmtAssumption DEF Stores, Counted, Active, Synced, StaleOnlyAfterTimeout
<1>4. Outstanding
  BY <1>2 DEF Outstanding, New
<1>5. Alone
  BY <1>2, MgmtAssumption DEF Alone, Active, Quiet
<1> QED
  BY <1>1, <1>3, <1>4, <1>5 DEF IInv

-----------------------------------------------------------------------------
\* A call begins.
LEMMA StartIInv ==
  ASSUME IInv, NEW copies \in BOOLEAN, mc_start(copies)
  PROVE  IInv'
<1>1. /\ call.pc = "idle" /\ cmds < MaxCmds /\ cmds' = cmds + 1
      /\ call' = [pc |-> "body", loopvar |-> 0, copies |-> copies]
      /\ UNCHANGED <<mem_back, mc_vb, mr_vb, check, last, timedOut, taken, stores, cr,
                     rt, rr, rr_mem, hw_vb, exec, runs>>
  BY DEF mc_start, Idle, driver, hw, history
<1>2. call'.pc = "body" /\ Active' /\ ~Active
  BY <1>1 DEF Active
<1>3. /\ ValidBit' = ValidBit /\ Response' = Response /\ Completed' = Completed
      /\ Takeable' = Takeable
  BY <1>1 DEF ValidBit, Response, Completed, Takeable
<1>4. TypeOK'
  <2>1. cmds' \in Cmds /\ call' \in [pc : {"idle", "body", "verb", "trigger", "poll", "fault"},
                                    loopvar : 0..MaxPolls, copies : BOOLEAN]
    BY <1>1, MgmtAssumption DEF IInv, TypeOK, Cmds
  <2> QED
    BY <1>1, <2>1 DEF IInv, TypeOK
<1>5. Stores'
  BY <1>1, <1>2, <1>3 DEF IInv, Stores
<1>6. Counted'
  <2>1. \A c \in taken : c <= cmds /\ c \in Nat
    BY Basics DEF IInv, Counted, TypeOK
  <2>2. \A x \in {cr, exec, rr_mem, rr[0], rr[1]} : x.body <= cmds /\ x.body \in Nat
    BY Basics DEF IInv, Counted, TypeOK
  <2>3. \A n \in Nat : n <= cmds => n <= cmds + 1 /\ n # cmds + 1
    BY Basics DEF IInv
  <2> QED
    BY <1>1, <1>2, <2>1, <2>2, <2>3, Basics DEF IInv, Counted
<1>7. Outstanding'
  BY <1>1, <1>2, <1>3 DEF IInv, Outstanding, New, Ours
<1>8. Synced' /\ StaleOnlyAfterTimeout'
  BY <1>1 DEF IInv, Synced, StaleOnlyAfterTimeout
<1>9. Alone'
  <2> SUFFICES ASSUME timedOut = {} PROVE Alone!2'
    BY <1>1 DEF Alone
  <2>1. /\ last.cmd = cmds /\ last.verb = last.cmd /\ last.body = last.cmd
        /\ stores = {} /\ Quiet
        /\ \A c \in 1..MaxCmds : runs[c] = IF c <= last.cmd \/ (c = cmds /\ Completed)
                                           THEN 1 ELSE 0
    BY <1>1, <1>2 DEF IInv, Alone
  <2>2. Quiet' /\ ~Completed
    BY <1>1, <1>3, <2>1 DEF Quiet
  <2> QED
    BY <1>1, <1>2, <1>3, <2>1, <2>2, Basics DEF IInv
<1> QED
  BY <1>4, <1>5, <1>6, <1>7, <1>8, <1>9 DEF IInv

LEMMA UsersIInv ==
  ASSUME IInv, Users
  PROVE  IInv'
<1>1. \E copies \in BOOLEAN : mc_start(copies)
  BY DEF Users, acquire, alt_fq_state, CDAN_set, cgr_statistics_query, bp_query,
         fq_query, fq_query_state, cgr_query, cgr_wred_query, wqchan_query
<1> QED
  BY <1>1, StartIInv

\* Words 15 to 1 of the command.
LEMMA WriteBodyIInv ==
  ASSUME IInv, WriteBody
  PROVE  IInv'
<1> DEFINE s0 == [part |-> "body", cmd |-> cmds, vb |-> 0]
<1>1. /\ call.pc = "body" /\ stores = {} /\ stores' = {s0}
      /\ call' = [call EXCEPT !.pc = "verb"]
      /\ UNCHANGED <<mem_back, mc_vb, mr_vb, check, last, cmds, timedOut, taken, cr,
                     rt, rr, rr_mem, hw_vb, exec, runs>>
  <2>1. stores = {}
    BY DEF WriteBody, IInv, Stores
  <2> QED
    BY <2>1 DEF WriteBody, driver, hw, history
<1>2. call'.pc = "verb" /\ Active' /\ Active
  BY <1>1 DEF Active, IInv, TypeOK
<1>3. /\ ValidBit' = ValidBit /\ Response' = Response /\ Completed' = Completed
      /\ Takeable' = Takeable /\ Ours' = Ours
  BY <1>1, <1>2 DEF ValidBit, Response, Completed, Takeable, Ours
<1>4. s0.part = "body" /\ s0.cmd = cmds
  OBVIOUS
<1>5. TypeOK'
  <2>1. s0 \in [part : {"body", "word0"}, cmd : Cmds, vb : Bits]
    BY DEF IInv, TypeOK, Bits
  <2> QED
    BY <1>1, <2>1 DEF IInv, TypeOK
<1> HIDE DEF s0
<1>6. Stores'
  BY <1>1, <1>2, <1>4 DEF Stores
<1>7. Counted'
  BY <1>1, <1>2 DEF IInv, Counted
<1>8. Outstanding' /\ Synced' /\ StaleOnlyAfterTimeout'
  BY <1>1, <1>3, <1>4 DEF IInv, Outstanding, New, Synced, StaleOnlyAfterTimeout
<1>9. Alone'
  <2>1. Quiet' <=> Quiet
    BY <1>1, <1>3 DEF Quiet
  <2> QED
    BY <1>1, <1>2, <1>3, <2>1 DEF IInv, Alone
<1> QED
  BY <1>5, <1>6, <1>7, <1>8, <1>9 DEF IInv

\* Word 0 with the valid bit, when the other words are in CR.
LEMMA WriteVerbIInv ==
  ASSUME IInv, WriteVerb
  PROVE  IInv'
<1> DEFINE s0 == [part |-> "word0", cmd |-> cmds, vb |-> ValidBit]
<1>1. /\ call.pc = "verb" /\ stores = {} /\ stores' = {s0}
      /\ IF mem_back THEN call'.pc = "trigger" /\ check' = check
                     ELSE call'.pc = "poll" /\ check' = "can_poll"
      /\ UNCHANGED <<mem_back, mc_vb, mr_vb, last, cmds, timedOut, taken, cr,
                     rt, rr, rr_mem, hw_vb, exec, runs>>
  BY DEF WriteVerb, Submitted, hw, history, IInv, TypeOK
<1>2. Active' /\ Active /\ cmds > 0 /\ cmds \notin taken /\ cr.body = cmds
  BY <1>1, Basics DEF Active, IInv, Counted, Stores
<1>3. /\ ValidBit' = ValidBit /\ Response' = Response /\ Completed' = Completed
      /\ Takeable' = Takeable /\ Ours' = Ours /\ cmds \in Ours
  BY <1>1, <1>2 DEF ValidBit, Response, Completed, Takeable, Ours
<1>4. s0.part = "word0" /\ s0.cmd = cmds /\ s0.vb = ValidBit
  OBVIOUS
<1>5. TypeOK'
  <2>1. s0 \in [part : {"body", "word0"}, cmd : Cmds, vb : Bits]
    BY Basics DEF IInv, TypeOK
  <2>2. call' \in [pc : {"idle", "body", "verb", "trigger", "poll", "fault"},
                   loopvar : 0..MaxPolls, copies : BOOLEAN]
    <3>1. CASE mem_back
      BY <3>1 DEF WriteVerb, IInv, TypeOK
    <3>2. CASE ~mem_back
      BY <3>2, SubmittedType DEF WriteVerb, IInv
    <3> QED
      BY <3>1, <3>2
  <2>3. check' \in {"can_start", "can_submit", "can_poll"}
    BY <1>1 DEF IInv, TypeOK
  <2> QED
    BY <1>1, <2>1, <2>2, <2>3 DEF IInv, TypeOK
<1> HIDE DEF s0
<1>6. Stores'
  BY <1>1, <1>2, <1>3, <1>4, Basics, SMTT(30) DEF Stores, IInv, TypeOK
<1>7. Counted'
  BY <1>1, <1>2, Basics DEF IInv, Counted
<1>8. Outstanding'
  BY <1>1, <1>2, <1>3, <1>4 DEF IInv, Outstanding, New
<1>9. Synced' /\ StaleOnlyAfterTimeout'
  BY <1>1 DEF IInv, Synced, StaleOnlyAfterTimeout
<1>10. Alone'
  <2>1. Quiet' <=> Quiet
    BY <1>1, <1>3 DEF Quiet
  <2>2. Quiet => Sent'
    BY <1>1, <1>3, <1>4, <2>1 DEF Sent
  <2> QED
    BY <1>1, <1>2, <1>3, <2>1, <2>2 DEF IInv, Alone
<1> QED
  BY <1>5, <1>6, <1>7, <1>8, <1>9, <1>10 DEF IInv

\* CR_RT is written when the command is in memory.
LEMMA TriggerIInv ==
  ASSUME IInv, Trigger
  PROVE  IInv'
<1>1. /\ call.pc = "trigger" /\ stores = {} /\ rt' = TRUE /\ mem_back
      /\ call'.pc = "poll" /\ check' = "can_poll"
      /\ cr.verb = cmds /\ cr.body = cmds /\ cr.vb = ValidBit
      /\ UNCHANGED <<mem_back, mc_vb, mr_vb, last, cmds, timedOut, taken, stores, cr,
                     rr, rr_mem, hw_vb, exec, runs>>
  <2>1. /\ call.pc = "trigger" /\ stores = {} /\ rt' = TRUE
        /\ call'.pc = "poll" /\ check' = "can_poll"
        /\ UNCHANGED <<mem_back, mc_vb, mr_vb, last, cmds, timedOut, taken, stores, cr,
                       rr, rr_mem, hw_vb, exec, runs>>
    BY DEF Trigger, Submitted, hw, history, IInv, TypeOK
  <2> QED
    BY <2>1 DEF IInv, Stores
<1>2. Active' /\ Active /\ cmds > 0 /\ cmds \notin taken
  BY <1>1 DEF Active, IInv, Counted
<1>3. /\ ValidBit' = ValidBit /\ Response' = Response /\ Completed' = Completed
      /\ Takeable' /\ Ours' = Ours
  BY <1>1, <1>2 DEF ValidBit, Response, Completed, Takeable, Ours
<1>4. TypeOK'
  <2>1. call' \in [pc : {"idle", "body", "verb", "trigger", "poll", "fault"},
                   loopvar : 0..MaxPolls, copies : BOOLEAN]
    BY SubmittedType DEF Trigger, IInv
  <2> QED
    BY <1>1, <2>1 DEF IInv, TypeOK
<1>5. Stores'
  BY <1>1 DEF IInv, Stores
<1>6. Counted'
  BY <1>1, <1>2, Basics DEF IInv, Counted
<1>7. Outstanding'
  BY <1>1, <1>3 DEF IInv, Outstanding, New
<1>8. Synced' /\ StaleOnlyAfterTimeout'
  BY <1>1 DEF IInv, Synced, StaleOnlyAfterTimeout
<1>9. Alone'
  <2>1. Quiet => Ready'
    BY <1>1, <1>3 DEF Quiet, Ready
  <2> QED
    BY <1>1, <1>2, <1>3, <2>1 DEF IInv, Alone
<1> QED
  BY <1>4, <1>5, <1>6, <1>7, <1>8, <1>9 DEF IInv

\* A response that the driver takes: it is one that a caller may be handed, and
\* after it nothing that is under way carries the valid bit waited for next.
LEMMA AnswerFacts ==
  ASSUME IInv, Answer
  PROVE  /\ call.pc = "poll" /\ Completed
         /\ call' = Idle /\ check' = "can_start" /\ taken' = taken \cup {Response.body}
         /\ last'.cmd = cmds /\ last'.verb = Response.verb /\ last'.body = Response.body
         /\ UNCHANGED <<mem_back, cmds, timedOut, stores, cr, rt, rr, rr_mem, hw_vb,
                        exec, runs>>
         /\ Response.verb \in Ours /\ Response.body \notin taken
         /\ Response.body <= cmds
         /\ ValidBit' = 1 - ValidBit
         /\ cr.vb # ValidBit' /\ (exec = NoCmd \/ exec.vb # ValidBit')
         /\ \A s \in stores : s.part = "word0" => s.vb # ValidBit'
         /\ ~mem_back => exec = NoCmd /\ hw_vb = mc_vb' /\ rr[mc_vb'] = NoResp
         /\ ~Completed'
<1>1. /\ call.pc = "poll" /\ Completed /\ ToggleValidBit
      /\ call' = Idle /\ check' = "can_start" /\ taken' = taken \cup {Response.body}
      /\ last'.cmd = cmds /\ last'.verb = Response.verb /\ last'.body = Response.body
      /\ UNCHANGED <<mem_back, cmds, timedOut, stores, cr, rt, rr, rr_mem, hw_vb,
                     exec, runs>>
  BY DEF Answer, hw
<1>2. /\ Response.verb \in Ours /\ Response.body \notin taken
      /\ cr.vb = ValidBit /\ (exec = NoCmd \/ exec.vb = ValidBit)
      /\ \A s \in stores : s.part = "word0" => s.vb = ValidBit
  BY <1>1 DEF IInv, Outstanding
<1>3. ValidBit' = 1 - ValidBit /\ ValidBit' # ValidBit /\ ValidBit \in {0, 1}
  BY <1>1, Basics DEF IInv, ToggleValidBit, ValidBit, Bits
<1>4. Response.body <= cmds
  BY DEF IInv, Counted, Response, TypeOK, Bits
<1>5. ASSUME ~mem_back
      PROVE  exec = NoCmd /\ hw_vb = mc_vb' /\ rr[mc_vb'] = NoResp
  <2>1. rr[mc_vb].verb # 0 /\ mc_vb' = 1 - mc_vb /\ mc_vb \in {0, 1} /\ hw_vb \in {0, 1}
    BY <1>1, <1>5, Basics DEF IInv, Completed, Response, ToggleValidBit, Bits
  <2>2. rr[mc_vb] # NoResp
    BY <2>1 DEF NoResp
  <2>3. hw_vb # mc_vb /\ exec = NoCmd /\ (rr[0] = NoResp \/ rr[1] = NoResp)
    BY <1>5, <2>2 DEF IInv, Synced
  <2> QED
    BY <2>1, <2>2, <2>3
<1>6. ~Completed'
  <2>1. CASE mem_back
    BY <1>1, <1>3, <2>1 DEF Completed, Response, ValidBit
  <2>2. CASE ~mem_back
    BY <1>1, <1>5, <2>2 DEF Completed, Response, NoResp
  <2> QED
    BY <2>1, <2>2
<1> QED
  BY <1>1, <1>2, <1>3, <1>4, <1>5, <1>6

LEMMA AnswerIInv ==
  ASSUME IInv, Answer
  PROVE  IInv'
<1>1. call'.pc = "idle" /\ ~Active' /\ Active
  BY AnswerFacts DEF Active, Idle
<1>2. TypeOK'
  <2>1. call' \in [pc : {"idle", "body", "verb", "trigger", "poll", "fault"},
                   loopvar : 0..MaxPolls, copies : BOOLEAN]
    BY IdleType, AnswerFacts
  <2>2. last' \in [cmd : Cmds, ret : {0, -EIO}, verb : Cmds, body : Cmds]
    <3>1. /\ cmds \in Cmds /\ Response.verb \in Cmds /\ Response.body \in Cmds
          /\ (IF Response.ok THEN 0 ELSE -EIO) \in {0, -EIO}
      BY Basics DEF IInv, TypeOK
    <3> QED
      BY <3>1 DEF Answer
  <2>3. mc_vb' \in Bits /\ mr_vb' \in Bits
    BY Basics DEF IInv, Answer, ToggleValidBit, Bits
  <2>4. taken' \subseteq Cmds
    BY AnswerFacts, Basics, SMTT(30) DEF IInv, TypeOK
  <2> QED
    BY AnswerFacts, <2>1, <2>2, <2>3, <2>4 DEF IInv, TypeOK
<1>3. Stores'
  BY AnswerFacts, <1>1 DEF IInv, Stores
<1>4. Counted'
  BY AnswerFacts, <1>1 DEF IInv, Counted
<1>5. Outstanding'
  <2>1. exec = NoCmd => exec.verb = 0
    BY DEF NoCmd
  <2>2. ~New(cr)' /\ ~New(exec)' /\ ~Completed'
    BY AnswerFacts, <2>1 DEF New
  <2>3. \A s \in stores' : s.part = "word0" => s.vb # ValidBit' /\ cr'.vb # ValidBit'
    BY AnswerFacts
  <2> QED
    BY <2>2, <2>3 DEF Outstanding
<1>6. Synced'
  BY AnswerFacts DEF IInv, Synced
<1>7. StaleOnlyAfterTimeout'
  BY AnswerFacts, <1>1 DEF StaleOnlyAfterTimeout, Ours
<1>8. Alone'
  <2> SUFFICES ASSUME timedOut = {} PROVE Alone!2'
    BY AnswerFacts DEF Alone
  <2>1. Responded /\ last.cmd = cmds - 1
    BY AnswerFacts, <1>1 DEF IInv, Alone, Sent, Quiet, Ready, Executing
  <2>2. /\ last'.cmd = cmds /\ last'.verb = cmds /\ last'.body = cmds
        /\ stores' = {} /\ exec' = NoCmd /\ ~Completed'
    BY AnswerFacts, <2>1 DEF Responded
  <2>3. ~Takeable'
    <3>1. CASE mem_back
      BY AnswerFacts, <2>1, <3>1 DEF Responded, Takeable
    <3>2. CASE ~mem_back
      BY AnswerFacts, <3>2 DEF Takeable, ValidBit
    <3> QED
      BY <3>1, <3>2
  <2>4. \A c \in 1..MaxCmds : runs'[c] = IF c <= last'.cmd THEN 1 ELSE 0
    <3>1. \A c \in 1..MaxCmds : runs[c] = IF c <= cmds - 1 \/ c = cmds THEN 1 ELSE 0
      BY AnswerFacts, <2>1 DEF IInv, Alone
    <3>2. \A c \in 1..MaxCmds : c <= cmds - 1 \/ c = cmds <=> c <= cmds
      BY Basics DEF IInv
    <3> QED
      BY AnswerFacts, <3>1, <3>2
  <2> QED
    BY AnswerFacts, <1>1, <2>2, <2>3, <2>4 DEF Quiet
<1> QED
  BY <1>2, <1>3, <1>4, <1>5, <1>6, <1>7, <1>8 DEF IInv

\* One more look for the response.
LEMMA PollAgainIInv ==
  ASSUME IInv, PollAgain
  PROVE  IInv'
<1>1. /\ call.pc = "poll" /\ call'.pc = "poll"
      /\ call.loopvar > 0 /\ call' = [call EXCEPT !.loopvar = @ - 1]
      /\ UNCHANGED <<mem_back, mc_vb, mr_vb, check, last, cmds, timedOut, taken, stores,
                     cr, rt, rr, rr_mem, hw_vb, exec, runs>>
  BY DEF PollAgain, driver, hw, history, IInv, TypeOK
<1>2. /\ ValidBit' = ValidBit /\ Response' = Response /\ Completed' = Completed
      /\ Takeable' = Takeable /\ Active' = Active /\ Ours' = Ours
  BY <1>1 DEF ValidBit, Response, Completed, Takeable, Active, Ours
<1>3. TypeOK'
  <2>1. call.loopvar - 1 \in 0..MaxPolls
    BY <1>1, MgmtAssumption DEF IInv, TypeOK
  <2> QED
    BY <1>1, <2>1 DEF IInv, TypeOK
<1>4. Stores' /\ Counted' /\ Outstanding' /\ Synced' /\ StaleOnlyAfterTimeout'
  BY <1>1, <1>2 DEF IInv, Stores, Counted, Outstanding, New, Synced,
                    StaleOnlyAfterTimeout
<1>5. Alone'
  BY <1>1, <1>2 DEF IInv, Alone, Quiet, Sent, Ready, Executing, Responded
<1> QED
  BY <1>3, <1>4, <1>5 DEF IInv

\* The caller gives up: its command is one of those answered too late.
LEMMA TimeOutIInv ==
  ASSUME IInv, TimeOut
  PROVE  IInv' /\ timedOut' # {}
<1>1. /\ call.pc = "poll" /\ ~Completed /\ call'.pc \in {"idle", "fault"}
      /\ timedOut' = timedOut \cup {cmds}
      /\ UNCHANGED <<mem_back, mc_vb, mr_vb, check, cmds, taken, stores,
                     cr, rt, rr, rr_mem, hw_vb, exec, runs>>
      /\ \/ last' = last
         \/ last' = [cmd |-> cmds, ret |-> -EIO, verb |-> 0, body |-> 0]
  BY DEF TimeOut, driver, hw, Idle, IInv, TypeOK
<1>2. Active /\ ~Active'
  BY <1>1 DEF Active
<1>3. /\ ValidBit' = ValidBit /\ Response' = Response /\ Completed' = Completed
      /\ Takeable' = Takeable /\ Ours' = Ours
  BY <1>1, <1>2 DEF ValidBit, Response, Completed, Takeable, Ours
<1>4. TypeOK'
  <2>1. call' \in [pc : {"idle", "body", "verb", "trigger", "poll", "fault"},
                   loopvar : 0..MaxPolls, copies : BOOLEAN]
    BY IdleType DEF TimeOut, IInv, TypeOK
  <2>2. last' \in [cmd : Cmds, ret : {0, -EIO}, verb : Cmds, body : Cmds]
    <3>1. 0 \in Cmds /\ cmds \in Cmds
      BY MgmtAssumption DEF IInv, TypeOK, Cmds
    <3> QED
      BY <1>1, <3>1 DEF IInv, TypeOK
  <2> QED
    BY <1>1, <2>1, <2>2 DEF IInv, TypeOK
<1>5. Stores' /\ Counted' /\ Outstanding' /\ Synced'
  BY <1>1, <1>2, <1>3 DEF IInv, Stores, Counted, Outstanding, New, Synced
<1>6. StaleOnlyAfterTimeout'
  BY <1>1 DEF IInv, StaleOnlyAfterTimeout
<1>7. timedOut' # {} /\ Alone'
  BY <1>1 DEF Alone
<1> QED
  BY <1>4, <1>5, <1>6, <1>7 DEF IInv

-----------------------------------------------------------------------------
\* A part of a command reaches CR.
LEMMA DrainIInv ==
  ASSUME IInv, NEW s \in stores, Drain(s)
  PROVE  IInv'
<1>1. /\ stores' = {} /\ stores = {s}
      /\ cr' = IF s.part = "body" THEN [cr EXCEPT !.body = s.cmd]
               ELSE [cr EXCEPT !.verb = s.cmd, !.vb = s.vb]
      /\ UNCHANGED <<mem_back, mc_vb, mr_vb, check, call, last, cmds, timedOut, taken,
                     rt, rr, rr_mem, hw_vb, exec, runs>>
  <2>1. stores = {s}
    BY DEF IInv, Stores
  <2> QED
    BY <2>1 DEF Drain, driver, hw, history
<1>2. /\ s \in [part : {"body", "word0"}, cmd : Cmds, vb : Bits]
      /\ cr \in [verb : Cmds, body : Cmds, vb : Bits]
  BY DEF IInv, TypeOK
<1>3. /\ ValidBit' = ValidBit /\ Response' = Response /\ Completed' = Completed
      /\ Active' = Active /\ Ours' = Ours
  BY <1>1 DEF ValidBit, Response, Completed, Active, Ours
<1>4. CASE s.part = "body"
  <2>1. /\ call.pc = "verb" /\ s.cmd = cmds
        /\ cr'.body = cmds /\ cr'.verb = cr.verb /\ cr'.vb = cr.vb
        /\ cmds > 0 /\ cmds \notin taken /\ Active
        /\ cr' \in [verb : Cmds, body : Cmds, vb : Bits]
    BY <1>1, <1>2, <1>4 DEF IInv, Stores, Counted, Active
  <2>2. Takeable' = Takeable
    BY <1>1, <2>1 DEF Takeable
  <2>3. TypeOK'
    BY <1>1, <2>1 DEF IInv, TypeOK
  <2>4. Stores' /\ Counted' /\ Synced' /\ StaleOnlyAfterTimeout'
    BY <1>1, <1>3, <2>1, Basics DEF IInv, Stores, Counted, Synced, StaleOnlyAfterTimeout
  <2>5. Outstanding'
    BY <1>1, <1>3, <2>1 DEF IInv, Outstanding, New
  <2>6. Alone'
    <3>1. Quiet' <=> Quiet
      BY <1>1, <1>3, <2>2 DEF Quiet
    <3> QED
      BY <1>1, <1>3, <2>1, <3>1 DEF IInv, Alone
  <2> QED
    BY <2>3, <2>4, <2>5, <2>6 DEF IInv
<1>5. CASE s.part = "word0"
  <2>1. /\ call.pc # "verb" /\ s.cmd # 0
        /\ cr'.body = cr.body /\ cr'.verb = s.cmd /\ cr'.vb = s.vb
    BY <1>1, <1>2, <1>5 DEF IInv, Stores
  <2>2. TypeOK'
    <3>1. cr' \in [verb : Cmds, body : Cmds, vb : Bits]
      BY <1>1, <1>2, <1>5
    <3> QED
      BY <1>1, <3>1 DEF IInv, TypeOK
  <2>3. Stores' /\ Counted' /\ StaleOnlyAfterTimeout'
    BY <1>1, <1>3, <2>1, Basics DEF IInv, Stores, Counted, StaleOnlyAfterTimeout
  <2>4. /\ s.vb = ValidBit => s.cmd \in Ours /\ cr.body \notin taken
        /\ s.vb # ValidBit => cr.vb # ValidBit
    BY <1>5 DEF IInv, Outstanding
  <2>5. Outstanding'
    BY <1>1, <1>3, <2>1, <2>4 DEF IInv, Outstanding, New
  <2>6. Synced'
    BY <1>1, <2>1, <2>4 DEF IInv, Synced, ValidBit
  <2>7. Alone'
    <3> SUFFICES ASSUME timedOut = {} PROVE Alone!2'
      BY <1>1 DEF Alone
    <3>1. call.pc \notin {"idle", "body", "fault"} /\ stores # {}
      BY <1>1 DEF IInv, Alone
    <3>2. CASE call.pc = "trigger"
      <4>1. mem_back /\ Quiet /\ Takeable' = Takeable
        BY <1>1, <3>2 DEF IInv, Alone, Stores, Takeable
      <4>2. Quiet'
        BY <1>1, <1>3, <4>1 DEF Quiet
      <4> QED
        BY <1>1, <1>3, <3>2, <4>2 DEF IInv, Alone
    <3>3. CASE call.pc = "poll"
      <4>1. ~mem_back /\ Sent
        BY <1>1, <3>3 DEF IInv, Alone, Stores, Ready, Executing, Responded
      <4>2. rr[mc_vb].verb = 0 /\ exec = NoCmd /\ ~Completed
        BY <4>1 DEF Sent, Quiet, Completed, Response
      <4>3. hw_vb = mc_vb
        BY <4>1, <4>2 DEF IInv, Synced
      <4>4. Ready'
        BY <1>1, <1>3, <2>1, <4>1, <4>2, <4>3, Basics
           DEF Ready, Sent, Takeable, ValidBit, IInv, NoCmd
      <4> QED
        BY <1>1, <1>3, <3>3, <4>4 DEF IInv, Alone
    <3> QED
      BY <2>1, <3>1, <3>2, <3>3 DEF IInv, TypeOK
  <2> QED
    BY <2>2, <2>3, <2>5, <2>6, <2>7 DEF IInv
<1> QED
  BY <1>2, <1>4, <1>5

\* QMan takes what is in CR.
LEMMA TakeIInv ==
  ASSUME IInv, Take
  PROVE  IInv'
<1>1. /\ exec = NoCmd /\ exec' = cr /\ Takeable
      /\ UNCHANGED <<mem_back, mc_vb, mr_vb, check, call, last, cmds, timedOut, taken,
                     stores, cr, rr, rr_mem, runs>>
  BY DEF Take, driver, history, Takeable
<1>2. /\ mem_back => rt' = FALSE /\ hw_vb' = hw_vb
      /\ ~mem_back => hw_vb' = 1 - hw_vb /\ rt' = rt /\ cr.vb = hw_vb /\ hw_vb \in {0, 1}
  BY Basics DEF Take, IInv, Bits
<1>3. cr.verb # 0
  BY <1>1 DEF Takeable, IInv, Counted
<1>4. /\ ValidBit' = ValidBit /\ Response' = Response /\ Completed' = Completed
      /\ Active' = Active /\ Ours' = Ours /\ ~Takeable'
  BY <1>1, <1>2 DEF ValidBit, Response, Completed, Active, Ours, Takeable
<1>5. TypeOK'
  <2>1. rt' \in BOOLEAN
    <3>1. rt \in BOOLEAN /\ (rt' = FALSE \/ rt' = rt)
      BY <1>2, Basics DEF IInv
    <3> QED
      BY <3>1, Zenon
  <2>2. hw_vb' \in Bits
    BY <1>1, <1>2, Basics DEF IInv, Bits
  <2> QED
    BY <1>1, <2>1, <2>2 DEF IInv, TypeOK
<1>6. Stores' /\ Counted' /\ StaleOnlyAfterTimeout'
  BY <1>1, <1>2, <1>3, <1>4 DEF IInv, Stores, Counted, StaleOnlyAfterTimeout
<1>7. Outstanding'
  BY <1>1, <1>4 DEF IInv, Outstanding, New
<1>8. Synced'
  <2> SUFFICES ASSUME ~mem_back PROVE Synced!2'
    BY <1>1 DEF Synced
  <2>1. hw_vb = mc_vb /\ rr[mc_vb] = NoResp
    BY <1>2 DEF IInv, Synced
  <2>2. hw_vb' # mc_vb /\ exec'.vb = mc_vb /\ exec' # NoCmd
    BY <1>1, <1>2, <1>3, <2>1 DEF NoCmd
  <2> QED
    BY <1>1, <2>1, <2>2 DEF IInv, Synced
<1>9. Alone'
  <2> SUFFICES ASSUME timedOut = {} PROVE Alone!2'
    BY <1>1 DEF Alone
  <2>1. call.pc = "poll" /\ Ready /\ ~Completed
    <3>1. ~Quiet /\ ~Sent /\ ~Executing /\ ~Responded
      BY <1>1 DEF Quiet, Sent, Executing, Responded
    <3>2. call.pc = "poll" /\ Ready
      BY <3>1 DEF IInv, Alone
    <3> QED
      BY <3>2 DEF Ready
  <2>2. cr.body = cmds
    BY <2>1 DEF IInv, Stores
  <2>3. Executing'
    BY <1>1, <1>4, <2>1, <2>2 DEF Ready, Executing
  <2> QED
    BY <1>1, <1>4, <2>1, <2>3 DEF IInv, Alone
<1> QED
  BY <1>5, <1>6, <1>7, <1>8, <1>9 DEF IInv

\* QMan has executed a command and writes the response.
LEMMA RespondFacts ==
  ASSUME IInv, NEW ok \in BOOLEAN, Respond(ok)
  PROVE  /\ exec # NoCmd /\ exec.verb # 0 /\ exec' = NoCmd
         /\ UNCHANGED <<mem_back, mc_vb, mr_vb, check, call, last, cmds, timedOut, taken,
                        stores, cr, rt, hw_vb>>
         /\ ValidBit' = ValidBit /\ Takeable' = Takeable /\ Ours' = Ours
         /\ Active' = Active
         /\ Completed' <=> exec.vb = ValidBit
         /\ Completed' => Response'.verb = exec.verb /\ Response'.body = exec.body
         /\ ~mem_back => exec.vb = ValidBit /\ hw_vb # mc_vb
<1> DEFINE resp == [verb |-> exec.verb, body |-> exec.body, vb |-> exec.vb, ok |-> ok]
<1>1. /\ exec # NoCmd /\ exec' = NoCmd
      /\ IF mem_back THEN rr_mem' = resp /\ UNCHANGED rr
         ELSE /\ rr' = [vb \in Bits |-> IF vb = exec.vb THEN resp ELSE NoResp]
              /\ UNCHANGED rr_mem
      /\ UNCHANGED <<mem_back, mc_vb, mr_vb, check, call, last, cmds, timedOut, taken,
                     stores, cr, rt, hw_vb>>
  BY DEF Respond, driver, history
<1>2. exec.verb # 0
  BY <1>1 DEF IInv, Counted
<1>3. /\ ValidBit' = ValidBit /\ Takeable' = Takeable /\ Active' = Active /\ Ours' = Ours
  BY <1>1 DEF ValidBit, Takeable, Active, Ours
<1>4. ~mem_back => exec.vb = mc_vb /\ hw_vb # mc_vb
  BY <1>1 DEF IInv, Synced
<1>5. resp.verb = exec.verb /\ resp.body = exec.body /\ resp.vb = exec.vb
  OBVIOUS
<1> HIDE DEF resp
<1>6. CASE mem_back
  BY <1>1, <1>2, <1>3, <1>5, <1>6 DEF Completed, Response, ValidBit
<1>7. CASE ~mem_back
  <2>1. mc_vb \in Bits
    BY DEF IInv, TypeOK
  <2>2. rr'[mc_vb] = resp /\ Response' = resp /\ exec.vb = ValidBit
    BY <1>1, <1>4, <1>7, <2>1 DEF Response, ValidBit
  <2> QED
    BY <1>1, <1>2, <1>3, <1>4, <1>5, <1>7, <2>2 DEF Completed
<1> QED
  BY <1>6, <1>7

LEMMA RespondIInv ==
  ASSUME IInv, NEW ok \in BOOLEAN, Respond(ok)
  PROVE  IInv'
<1> DEFINE resp == [verb |-> exec.verb, body |-> exec.body, vb |-> exec.vb, ok |-> ok]
<1>1. /\ IF mem_back THEN rr_mem' = resp /\ UNCHANGED rr
         ELSE /\ rr' = [vb \in Bits |-> IF vb = exec.vb THEN resp ELSE NoResp]
              /\ UNCHANGED rr_mem
      /\ runs' = IF exec.verb = exec.body THEN [runs EXCEPT ![exec.body] = @ + 1]
                 ELSE runs
  BY DEF Respond
<1>2. /\ resp \in [verb : Cmds, body : Cmds, vb : Bits, ok : BOOLEAN]
      /\ NoResp \in [verb : Cmds, body : Cmds, vb : Bits, ok : BOOLEAN]
      /\ NoCmd \in [verb : Cmds, body : Cmds, vb : Bits]
      /\ NoResp.body = 0 /\ NoCmd.body = 0 /\ resp.body = exec.body
      /\ resp.verb = exec.verb
  <2>1. 0 \in Cmds /\ exec.verb \in Cmds /\ exec.body \in Cmds /\ exec.vb \in Bits
    BY MgmtAssumption, Basics DEF IInv, Cmds
  <2> QED
    BY <2>1 DEF NoResp, NoCmd, Bits
<1> HIDE DEF resp
<1>3. TypeOK'
  <2>1. rr' \in [Bits -> [verb : Cmds, body : Cmds, vb : Bits, ok : BOOLEAN]]
    BY <1>1, <1>2 DEF IInv, TypeOK
  <2>2. runs' \in [1..MaxCmds -> Nat]
    <3>1. runs \in [1..MaxCmds -> Nat]
      BY DEF IInv, TypeOK
    <3>2. CASE exec.verb = exec.body
      <4>1. runs' = [runs EXCEPT ![exec.body] = runs[exec.body] + 1]
        BY <1>1, <3>2
      <4>2. exec.body \in 1..MaxCmds => runs[exec.body] + 1 \in Nat
        BY <3>1
      <4> QED
        BY <3>1, <4>1, <4>2
    <3>3. CASE exec.verb # exec.body
      BY <1>1, <3>1, <3>3
    <3> QED
      BY <3>2, <3>3
  <2> QED
    BY RespondFacts, <1>1, <1>2, <2>1, <2>2 DEF IInv, TypeOK
<1>4. Stores' /\ StaleOnlyAfterTimeout'
  BY RespondFacts DEF IInv, Stores, StaleOnlyAfterTimeout
<1>5. Counted'
  <2>1. rr_mem'.body <= cmds /\ rr'[0].body <= cmds /\ rr'[1].body <= cmds
    BY <1>1, <1>2, Basics DEF IInv, Counted, Bits
  <2>2. NoCmd.body <= cmds
    BY <1>2, Basics DEF IInv
  <2> QED
    BY RespondFacts, <2>1, <2>2 DEF IInv, Counted
<1>6. Outstanding'
  <2>1. exec' = NoCmd /\ ~New(exec)'
    BY RespondFacts DEF New, NoCmd
  <2> QED
    BY RespondFacts, <2>1 DEF IInv, Outstanding, New
<1>7. Synced'
  <2> SUFFICES ASSUME ~mem_back PROVE Synced!2'
    BY RespondFacts DEF Synced
  <2>1. /\ exec.vb = mc_vb /\ hw_vb # mc_vb /\ mc_vb \in {0, 1} /\ cr.vb = mc_vb
    BY RespondFacts, Basics DEF IInv, ValidBit, Bits, Synced
  <2>2. rr'[mc_vb] = resp /\ rr'[1 - mc_vb] = NoResp
    BY <1>1, <2>1 DEF Bits
  <2> QED
    BY RespondFacts, <1>2, <2>1, <2>2
<1>8. Alone'
  <2> SUFFICES ASSUME timedOut = {} PROVE Alone!2'
    BY RespondFacts DEF Alone
  <2>1. call.pc = "poll" /\ Executing
    BY RespondFacts DEF IInv, Alone, Quiet, Sent, Ready, Responded
  <2>2. Responded'
    BY RespondFacts, <2>1 DEF Executing, Responded
  <2>3. /\ Completed' /\ ~Completed /\ last.cmd = cmds - 1 /\ cmds \in 1..MaxCmds
        /\ exec.verb = cmds /\ exec.body = cmds
    BY RespondFacts, <2>1, <2>2, Basics
       DEF Executing, Responded, IInv, Alone, Active, Counted, TypeOK, Cmds
  <2>4. \A c \in 1..MaxCmds : runs'[c] = IF c <= last.cmd \/ c = cmds THEN 1 ELSE 0
    <3>1. \A c \in 1..MaxCmds : runs[c] = IF c <= last.cmd THEN 1 ELSE 0
      BY <2>3 DEF IInv, Alone
    <3>2. runs' = [runs EXCEPT ![cmds] = @ + 1] /\ runs \in [1..MaxCmds -> Nat]
      BY <1>1, <2>3 DEF IInv, TypeOK
    <3>3. runs[cmds] = 0
      BY <2>3, <3>1
    <3> QED
      BY <2>3, <3>1, <3>2, <3>3
  <2> QED
    BY RespondFacts, <2>1, <2>2, <2>3, <2>4 DEF IInv, Alone
<1> QED
  BY <1>3, <1>4, <1>5, <1>6, <1>7, <1>8 DEF IInv

\* The invariant holds in every state.
LEMMA Inductive == Spec => []IInv
<1>1. IInv /\ [Next]_vars => IInv'
  BY UsersIInv, WriteBodyIInv, WriteVerbIInv, TriggerIInv, AnswerIInv, PollAgainIInv,
     TimeOutIInv, DrainIInv, TakeIInv, RespondIInv, StutterIInv
     DEF Next, Caller, Memory, QMan
<1> QED
  BY <1>1, InitIInv, PTL DEF Spec

-----------------------------------------------------------------------------
\* The type invariant of the portal's command state and of QMan's side holds in
\* every state, in both modes, also when calls time out.
THEOREM TypeCorrect == Spec => []TypeOK
<1>1. IInv => TypeOK
  BY DEF IInv
<1> QED
  BY <1>1, Inductive, PTL

\* As long as no call times out, QMan executes each command once and intact, and
\* the caller of qbman_swp_mc_complete gets the response to its own command.
THEOREM ExecutesExactlyOnce == Spec => []ExactlyOnce
<1>1. IInv => ExactlyOnce
  <2> SUFFICES ASSUME IInv, timedOut = {}
               PROVE  ExactlyOnce!2
    BY DEF ExactlyOnce
  <2>1. \A c \in 1..MaxCmds :
          runs[c] = IF c <= last.cmd \/ (c = cmds /\ Completed) THEN 1 ELSE 0
    BY DEF IInv, Alone
  <2> QED
    BY <2>1 DEF IInv, Alone
<1> QED
  BY <1>1, Inductive, PTL

\* The response to another command is handed to a caller only if the caller of
\* that one gave up on it: valid bits tell an old response from a new one.
THEOREM StaleOnlyOfTimedOut == Spec => []StaleOnlyAfterTimeout
<1>1. IInv => StaleOnlyAfterTimeout
  BY DEF IInv
<1> QED
  BY <1>1, Inductive, PTL

\* The assertions of QBMAN_CHECKING on mc.check do not fire on a caller that
\* calls the functions in order, as long as no call times out.
THEOREM AssertionsHold == Spec => []ChecksPass
<1>1. IInv => ChecksPass
  BY DEF IInv, Counted, Alone, ChecksPass
<1> QED
  BY <1>1, Inductive, PTL

\* No response is handed to two calls, also when calls time out.
THEOREM ResponsesHandedOnce == Spec => HandedOnce
<1>1. IInv /\ [Next]_vars
        => [last' # last /\ last'.body # 0 => last'.body \notin taken]_vars
  <2> SUFFICES ASSUME IInv, Next, last' # last, last'.body # 0
               PROVE  last'.body \notin taken
    OBVIOUS
  <2>1. CASE Answer
    BY <2>1, AnswerFacts
  <2>2. CASE TimeOut
    BY <2>2 DEF TimeOut
  <2>3. CASE Users
    BY <2>3 DEF Users, mc_start, acquire, alt_fq_state, CDAN_set, cgr_statistics_query,
                bp_query, fq_query, fq_query_state, cgr_query, cgr_wred_query,
                wqchan_query
  <2>4. CASE WriteBody \/ WriteVerb \/ Trigger \/ PollAgain
    BY <2>4 DEF WriteBody, WriteVerb, Trigger, PollAgain
  <2>5. CASE Memory \/ QMan
    BY <2>5 DEF Memory, Drain, QMan, Take, Respond
  <2> QED
    BY <2>1, <2>2, <2>3, <2>4, <2>5 DEF Next, Caller
<1> QED
  BY <1>1, Inductive, PTL DEF Spec, HandedOnce

-----------------------------------------------------------------------------
\* The number of commands executed, when the first n have been.
LEMMA ExecutedIs ==
  ASSUME NEW n \in 0..MaxCmds, NEW r,
         \A c \in 1..MaxCmds : r[c] = IF c <= n THEN 1 ELSE 0
  PROVE  Cardinality({c \in 1..MaxCmds : r[c] > 0}) = n
<1>1. {c \in 1..MaxCmds : r[c] > 0} = 1..n
  BY MgmtAssumption
<1>2. Cardinality(1..n) = n
  BY FS_Interval
<1> QED
  BY <1>1, <1>2

\* As long as no call times out, each step is one of the mailbox or leaves it alone.
LEMMA StepRefines ==
  IInv /\ [Next]_vars
    => [Abstract!Next \/ timedOut' # {}]_<<cmds, last.cmd, runs>>
<1> SUFFICES ASSUME IInv, Next, timedOut' = {}
             PROVE  Abstract!Next \/ UNCHANGED <<cmds, last.cmd, runs>>
  BY DEF vars, hw
<1> DEFINE executed == Cardinality({c \in 1..MaxCmds : runs[c] > 0})
<1>1. cmds \in 0..MaxCmds /\ MaxCmds \in Nat
  BY MgmtAssumption DEF IInv, TypeOK, Cmds
<1>2. CASE Users
  <2>1. PICK copies \in BOOLEAN : mc_start(copies)
    BY <1>2 DEF Users, acquire, alt_fq_state, CDAN_set, cgr_statistics_query, bp_query,
           fq_query, fq_query_state, cgr_query, cgr_wred_query, wqchan_query
  <2>2. /\ cmds < MaxCmds /\ cmds' = cmds + 1 /\ call.pc = "idle" /\ timedOut = {}
        /\ UNCHANGED <<last, runs>>
    BY <2>1 DEF mc_start, hw, history
  <2>3. last.cmd = cmds
    BY <2>2 DEF IInv, Alone, Active
  <2> QED
    BY <2>2, <2>3 DEF Abstract!Next, Abstract!Send
<1>3. CASE WriteBody \/ WriteVerb \/ Trigger \/ PollAgain
  BY <1>3 DEF WriteBody, WriteVerb, Trigger, PollAgain, hw
<1>4. CASE Answer
  <2>1. /\ call.pc = "poll" /\ Completed /\ timedOut = {} /\ last'.cmd = cmds
        /\ cmds' = cmds /\ runs' = runs
    BY <1>4, AnswerFacts
  <2>2. /\ last.cmd = cmds - 1
        /\ \A c \in 1..MaxCmds : runs[c] = IF c <= last.cmd \/ c = cmds THEN 1 ELSE 0
    BY <2>1 DEF IInv, Alone, Active
  <2>3. \A c \in 1..MaxCmds : runs[c] = IF c <= cmds THEN 1 ELSE 0
    BY <1>1, <2>2
  <2>4. executed = cmds
    BY <1>1, <2>3, ExecutedIs
  <2> QED
    BY <1>1, <2>1, <2>2, <2>4 DEF Abstract!Next, Abstract!Answer
<1>5. CASE TimeOut
  BY <1>5, TimeOutIInv
<1>6. CASE Memory \/ Take
  BY <1>6 DEF Memory, Drain, Take, hw
<1>7. CASE \E ok \in BOOLEAN : Respond(ok)
  <2>1. PICK ok \in BOOLEAN : Respond(ok)
    BY <1>7
  <2>2. timedOut = {} /\ exec # NoCmd /\ cmds' = cmds /\ last' = last /\ call' = call
    BY <2>1, RespondFacts
  <2>3. call.pc = "poll" /\ Executing
    BY <2>2 DEF IInv, Alone, Quiet, Sent, Ready, Responded
  <2>4. /\ last.cmd = cmds - 1 /\ cmds \in 1..MaxCmds
        /\ \A c \in 1..MaxCmds : runs[c] = IF c <= cmds - 1 THEN 1 ELSE 0
    BY <1>1, <2>2, <2>3 DEF IInv, Alone, Active, Executing, Counted
  <2>5. Alone' /\ Completed' /\ call'.pc = "poll"
    BY <2>1, <2>2, <2>3, RespondIInv, RespondFacts DEF IInv, Executing
  <2>6. \A c \in 1..MaxCmds : runs'[c] = IF c <= cmds - 1 \/ c = cmds THEN 1 ELSE 0
    BY <2>2, <2>4, <2>5 DEF Alone
  <2>7. \A c \in 1..MaxCmds : runs'[c] = IF c <= cmds THEN 1 ELSE 0
    BY <2>4, <2>6
  <2>8. executed = cmds - 1
    <3>1. cmds - 1 \in 0..MaxCmds
      BY <2>4, <1>1
    <3> QED
      BY <2>4, <3>1, ExecutedIs
  <2>9. executed' = cmds
    BY <1>1, <2>7, ExecutedIs
  <2> QED
    BY <1>1, <2>2, <2>8, <2>9 DEF Abstract!Next, Abstract!Execute
<1> QED
  BY <1>2, <1>3, <1>4, <1>5, <1>6, <1>7 DEF Next, Caller, QMan

\* As long as no call times out, the registers, memory and valid bits keep the
\* promise of the mailbox: one command at a time is sent, executed, answered.
THEOREM ImplementsMailbox == Spec => MailboxSpec
<1>1. Init => Abstract!Init
  <2> SUFFICES ASSUME Init PROVE Abstract!Init
    OBVIOUS
  <2>1. \A c \in 1..MaxCmds : runs[c] = IF c <= 0 THEN 1 ELSE 0
    BY MgmtAssumption DEF Init
  <2>2. Cardinality({c \in 1..MaxCmds : runs[c] > 0}) = 0
    BY <2>1, ExecutedIs, MgmtAssumption
  <2> QED
    BY <2>2 DEF Init, Abstract!Init
<1> QED
  BY <1>1, Inductive, StepRefines, PTL DEF Spec, MailboxSpec
=============================================================================
