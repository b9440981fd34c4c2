---------------------------- MODULE Descriptors ----------------------------
(***************************************************************************)
(* The descriptors of enqueue, pull and release commands: a caller clears  *)
(* one and calls setters, in any order and as often as it likes, and QMan  *)
(* reads what it means out of the bits that the setters leave behind.      *)
(*                                                                         *)
(* Verbs and flag fields are sets of bit positions.  Next to the           *)
(* descriptor the model keeps what the caller has asked for (meant), group *)
(* of settings by group.                                                   *)
(***************************************************************************)
EXTENDS Integers, FiniteSets

CONSTANTS
  Ids,        \* ids of queues, order points and buffer pools
  Storages,   \* addresses of result storage
  NULL        \* no storage

ASSUME DescriptorsAssumption == NULL \notin Storages /\ 0 \notin Ids

VARIABLES
  d,      \* the descriptor; d.kind tells which
  meant,  \* group of settings -> what the caller asked for last (history)
  asked   \* what the actions called since the last clear put into the verb,
          \* as far as they only add bits (history)

vars == <<d, meant, asked>>

-----------------------------------------------------------------------------
(* Broken variants of definitions (names with an underscore) stand before them. *)

\* n << shift, for n of two bits.
Shl(n, shift) ==
  {shift + k : k \in {j \in {0, 1} : (IF j = 0 THEN n ELSE n \div 2) % 2 = 1}}
With(bits, k, enable) == IF enable THEN bits \cup {k} ELSE bits \ {k}

response_always == 1
rejects_to_fq   == 2
ORP_ENABLE == 2
IRQ_ON_DISPATCH == 3
TARGET_TYPE == 4
DCA_PK == 6
DCA_EN == 7
NLIS == 14
IS_NESN == 15

DT == 2
RLS == 4
WAE == 5
RAD == 6
dt_channel == 0
dt_workqueue == 1
dt_framequeue == 2
PullTypes == 1..3   \* enum qbman_pull_type_e

RC_VALID == 5
RCDI == 6

eq_clear == [kind |-> "eq", verb |-> {}, dca |-> {}, dqrr_idx |-> 0, seqnum |-> {},
             orpid |-> 0, tgtid |-> 0, qd |-> 0, rsp_addr |-> NULL, wae |-> FALSE,
             rspid |-> 0]
pull_clear == [kind |-> "pull", verb |-> {}, numf |-> 0, tok |-> 0, dq_src |-> 0,
               rsp_addr_virt |-> NULL]
release_clear == [kind |-> "release", verb |-> {RC_VALID}, bpid |-> 0]

-----------------------------------------------------------------------------
(* What QMan reads. *)

Response(verb) ==
  CASE verb \cap {0, 1} = {0} -> "always" [] verb \cap {0, 1} = {1} -> "rejects"
    [] verb \cap {0, 1} = {}  -> "none"   [] OTHER -> "reserved"

EqAction(e) ==
  IF ORP_ENABLE \notin e.verb THEN [act |-> "no_orp", response |-> Response(e.verb)]
  ELSE IF Response(e.verb) # "none"
    THEN [act |-> "orp", response |-> Response(e.verb), orpid |-> e.orpid,
          incomplete |-> NLIS \in e.seqnum]
    ELSE [act |-> IF IS_NESN \in e.seqnum THEN "nesn" ELSE "hole", orpid |-> e.orpid,
          incomplete |-> NLIS \in e.seqnum]

EqMeaning(e) ==
  [action |-> EqAction(e),
   target |-> IF TARGET_TYPE \in e.verb THEN <<"qd", e.tgtid, e.qd>> ELSE <<"fq", e.tgtid>>,
   eqdi |-> IRQ_ON_DISPATCH \in e.verb,
   dca |-> IF DCA_EN \in e.dca THEN <<e.dqrr_idx, DCA_PK \in e.dca>> ELSE <<>>,
   response |-> <<e.rsp_addr, e.wae>>,
   token |-> e.rspid]

BitsValue(verb, shift) ==
  (IF shift \in verb THEN 1 ELSE 0) + (IF shift + 1 \in verb THEN 2 ELSE 0)

PullMeaning(p) ==
  [action |-> [dt |-> BitsValue(p.verb, DT), dct |-> BitsValue(p.verb, 0), src |-> p.dq_src],
   storage |-> IF RLS \in p.verb THEN <<p.rsp_addr_virt, WAE \in p.verb>> ELSE <<>>,
   rad |-> RAD \in p.verb,
   numframes |-> p.numf + 1,
   token |-> p.tok]

ReleaseMeaning(r) == [bpid |-> r.bpid, rcdi |-> RCDI \in r.verb, valid |-> RC_VALID \in r.verb]

Meaning(x) == CASE x.kind = "eq" -> EqMeaning(x) [] x.kind = "pull" -> PullMeaning(x)
                [] OTHER -> ReleaseMeaning(x)

Init ==
  /\ d \in {eq_clear, pull_clear, release_clear}
  /\ meant = Meaning(d) /\ asked = {}

\* qbman_{eq,pull,release}_desc_clear
clear ==
  /\ d' = CASE d.kind = "eq" -> eq_clear [] d.kind = "pull" -> pull_clear
            [] OTHER -> release_clear
  /\ meant' = Meaning(d')
  /\ asked' = {}

Means(group, value) == meant' = [meant EXCEPT ![group] = value]

-----------------------------------------------------------------------------
(* Setters of the enqueue descriptor. *)

ResponseOf(respond_success) == IF respond_success THEN "always" ELSE "rejects"
Option(respond_success) ==
  Shl(IF respond_success THEN response_always ELSE rejects_to_fq, 0)

eq_set_no_orp(respond_success) ==
  /\ d' = [d EXCEPT !.verb = (@ \ {ORP_ENABLE}) \cup Option(respond_success)]
  /\ Means("action", [act |-> "no_orp", response |-> ResponseOf(respond_success)])
  /\ asked' = asked \cup {respond_success}

\* The sequence number itself, in the 14 bits below NLIS, is left out.
eq_set_orp(respond_success, opr_id, incomplete) ==
  /\ d' = [d EXCEPT !.verb = @ \cup {ORP_ENABLE} \cup Option(respond_success),
                    !.orpid = opr_id,
                    !.seqnum = IF incomplete THEN {NLIS} ELSE {}]
  /\ Means("action", [act |-> "orp", response |-> ResponseOf(respond_success),
                      orpid |-> opr_id, incomplete |-> incomplete])
  /\ asked' = asked \cup {respond_success}

HoleVerb_KeepsOption(verb) == verb \cup {ORP_ENABLE}
HoleVerb(verb) == (verb \cup {ORP_ENABLE}) \ {0, 1}

eq_set_orp_hole(opr_id) ==
  /\ d' = [d EXCEPT !.verb = HoleVerb(@), !.orpid = opr_id, !.seqnum = {}]
  /\ Means("action", [act |-> "hole", orpid |-> opr_id, incomplete |-> FALSE])
  /\ asked' = {}

eq_set_orp_nesn(opr_id) ==
  /\ d' = [d EXCEPT !.verb = HoleVerb(@), !.orpid = opr_id, !.seqnum = {IS_NESN}]
  /\ Means("action", [act |-> "nesn", orpid |-> opr_id, incomplete |-> FALSE])
  /\ asked' = {}

eq_set_fq(fqid) ==
  /\ d' = [d EXCEPT !.verb = @ \ {TARGET_TYPE}, !.tgtid = fqid]
  /\ Means("target", <<"fq", fqid>>)
  /\ UNCHANGED asked

eq_set_qd(qdid, bin) ==
  /\ d' = [d EXCEPT !.verb = @ \cup {TARGET_TYPE}, !.tgtid = qdid, !.qd = bin]
  /\ Means("target", <<"qd", qdid, bin>>)
  /\ UNCHANGED asked

eq_set_eqdi(enable) ==
  /\ d' = [d EXCEPT !.verb = With(@, IRQ_ON_DISPATCH, enable)]
  /\ Means("eqdi", enable)
  /\ UNCHANGED asked

eq_set_dca(enable, dqrr_idx, park) ==
  /\ d' = IF enable THEN [d EXCEPT !.dqrr_idx = dqrr_idx,
                                   !.dca = With({DCA_EN}, DCA_PK, park)]
          ELSE [d EXCEPT !.dca = @ \ {DCA_EN}]
  /\ Means("dca", IF enable THEN <<dqrr_idx, park>> ELSE <<>>)
  /\ UNCHANGED asked

eq_set_response(storage, stash) ==
  /\ d' = [d EXCEPT !.rsp_addr = storage, !.wae = stash]
  /\ Means("response", <<storage, stash>>)
  /\ UNCHANGED asked

eq_set_token(token) ==
  /\ d' = [d EXCEPT !.rspid = token]
  /\ Means("token", token)
  /\ UNCHANGED asked

EqSetter ==
  \/ \E b \in BOOLEAN : eq_set_no_orp(b)
  \/ \E b, incomplete \in BOOLEAN, id \in Ids : eq_set_orp(b, id, incomplete)
  \/ \E id \in Ids : eq_set_orp_hole(id) \/ eq_set_orp_nesn(id) \/ eq_set_fq(id)
  \/ \E id, bin \in Ids : eq_set_qd(id, bin)
  \/ \E b \in BOOLEAN : eq_set_eqdi(b)
  \/ \E b, park \in BOOLEAN, i \in {0, 7} : eq_set_dca(b, i, park)
  \/ \E storage \in Storages, stash \in BOOLEAN : eq_set_response(storage, stash)
  \/ eq_set_token(1)

-----------------------------------------------------------------------------
(* Setters of the pull descriptor. *)

pull_set_storage(storage, stash) ==
  /\ d' = IF storage = NULL
            THEN [d EXCEPT !.rsp_addr_virt = storage, !.verb = @ \ {RLS}]
            ELSE [d EXCEPT !.rsp_addr_virt = storage,
                           !.verb = With(@ \cup {RLS}, WAE, stash)]
  /\ Means("storage", IF storage = NULL THEN <<>> ELSE <<storage, stash>>)
  /\ UNCHANGED asked

Numf_NotLess(numframes) == numframes % 256
Numf(numframes) == (numframes - 1) % 256

pull_set_numframes(numframes) ==
  /\ d' = [d EXCEPT !.numf = Numf(numframes)]
  /\ Means("numframes", numframes)
  /\ UNCHANGED asked

\* The part of set_fq, set_wq and set_channel that is the same.
SetSource(dt, dct, src) ==
  /\ d' = [d EXCEPT !.verb = @ \cup Shl(dct, 0) \cup Shl(dt, DT), !.dq_src = src]
  /\ Means("action", [dt |-> dt, dct |-> dct, src |-> src])
  /\ asked' = asked \cup {<<dt, dct>>}

pull_set_fq(fqid)           == SetSource(dt_framequeue, 1, fqid)
pull_set_wq(wqid, dct)      == SetSource(dt_workqueue, dct, wqid)
pull_set_channel(chid, dct) == SetSource(dt_channel, dct, chid)

\* "The RAD feature is not valid when RLS = 0": without storage, no effect.
pull_set_rad(rad) ==
  /\ RLS \in d.verb
  /\ d' = [d EXCEPT !.verb = With(@, RAD, rad)]
  /\ Means("rad", rad)
  /\ UNCHANGED asked

pull_set_token(token) ==
  /\ d' = [d EXCEPT !.tok = token]
  /\ Means("token", token)
  /\ UNCHANGED asked

PullSetter ==
  \/ \E s \in Storages \cup {NULL}, stash \in BOOLEAN : pull_set_storage(s, stash)
  \/ \E n \in {1, 16} : pull_set_numframes(n)
  \/ \E id \in Ids : pull_set_fq(id)
  \/ \E id \in Ids, dct \in PullTypes : pull_set_wq(id, dct) \/ pull_set_channel(id, dct)
  \/ \E rad \in BOOLEAN : pull_set_rad(rad)
  \/ pull_set_token(1)

-----------------------------------------------------------------------------
(* Setters of the release descriptor. *)

release_set_bpid(bpid) ==
  /\ d' = [d EXCEPT !.bpid = bpid]
  /\ Means("bpid", bpid)
  /\ UNCHANGED asked

release_set_rcdi(enable) ==
  /\ d' = [d EXCEPT !.verb = With(@, RCDI, enable)]
  /\ Means("rcdi", enable)
  /\ UNCHANGED asked

ReleaseSetter == \/ \E id \in Ids : release_set_bpid(id)
                 \/ \E b \in BOOLEAN : release_set_rcdi(b)

-----------------------------------------------------------------------------
Next == \/ clear
        \/ d.kind = "eq" /\ EqSetter
        \/ d.kind = "pull" /\ PullSetter
        \/ d.kind = "release" /\ ReleaseSetter

Spec == Init /\ [][Next]_vars

-----------------------------------------------------------------------------
(* Properties. *)

\* The type invariant.  No setter touches the bits that the driver fills in when
\* it issues the command: the valid bit, and the number of buffers of a release.
TypeOK ==
  CASE d.kind = "eq" -> d.verb \subseteq 0..4 /\ d.dca \subseteq {DCA_PK, DCA_EN}
                        /\ d.seqnum \subseteq {NLIS, IS_NESN} /\ d.dqrr_idx \in 0..7
    [] d.kind = "pull" -> d.verb \subseteq 0..6 /\ d.numf \in 0..15
    [] OTHER -> d.verb \subseteq {RC_VALID, RCDI}

\* Whatever the order and the number of the calls, QMan reads in each group of
\* settings what the caller set there last, except for actions that only add to
\* the bits of another one: those must be set once per clear.
Faithful ==
  \A group \in DOMAIN meant :
    group # "action" \/ Cardinality(asked) <= 1 => Meaning(d)[group] = meant[group]

\* fsl_qbman_portal.h: "Exactly one of the following descriptor "actions" should
\* be set. (Calling any one of these will replace the effect of any prior call to
\* one of these.)"
LastActionCounts == d.kind # "release" => Meaning(d).action = meant.action
=============================================================================
