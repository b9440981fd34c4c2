-------------------------- MODULE DescriptorsProofs -------------------------
(***************************************************************************)
(* Proofs about Descriptors, for any ids and storages, and any number of   *)
(* setters in any order.                                                   *)
(*                                                                         *)
(* A setter changes the bits of its own group of settings and no others    *)
(* (EqOthers, PullOthers).  The exceptions are the actions, which only add *)
(* to the verb: the invariant Asked says that those bits are the ones of   *)
(* all actions asked for since the last clear.  So if there was one, they  *)
(* are its own.                                                            *)
(***************************************************************************)
EXTENDS Descriptors, FiniteSetTheorems, TLAPS

EqDesc ==
  [kind : {"eq"}, verb : SUBSET (0..4), dca : SUBSET {DCA_PK, DCA_EN}, dqrr_idx : 0..7,
   seqnum : SUBSET {NLIS, IS_NESN}, orpid : Ids \cup {0}, tgtid : Ids \cup {0},
   qd : Ids \cup {0}, rsp_addr : Storages \cup {NULL}, wae : BOOLEAN, rspid : {0, 1}]
PullDesc ==
  [kind : {"pull"}, verb : SUBSET (0..6), numf : 0..15, tok : {0, 1},
   dq_src : Ids \cup {0}, rsp_addr_virt : Storages \cup {NULL}]
ReleaseDesc == [kind : {"release"}, verb : SUBSET {RC_VALID, RCDI}, bpid : Ids \cup {0}]

Types == d \in EqDesc \/ d \in PullDesc \/ d \in ReleaseDesc

Groups == DOMAIN meant = DOMAIN Meaning(d)

SourceBits(verb, dt, dct) ==
  \A k \in 0..3 : k \in verb <=> k \in Shl(dct, 0) \/ k \in Shl(dt, DT)

\* The bits of the verb that actions add.
Asked ==
  /\ IsFiniteSet(asked)
  /\ d \in EqDesc => /\ asked \subseteq BOOLEAN
                     /\ 0 \in d.verb <=> TRUE \in asked
                     /\ 1 \in d.verb <=> FALSE \in asked
  /\ d \in PullDesc =>
       /\ asked = {} => \A k \in 0..3 : k \notin d.verb
       /\ \A dt \in 0..2, dct \in PullTypes :
            asked = {<<dt, dct>>} => SourceBits(d.verb, dt, dct)

IInv == Types /\ Groups /\ Asked /\ Faithful

-----------------------------------------------------------------------------
\* The bits that an action adds.
LEMMA OptionBits ==
  ASSUME NEW b \in BOOLEAN
  PROVE  Option(b) = IF b THEN {0} ELSE {1}
<1>1. Shl(1, 0) = {0} /\ Shl(2, 0) = {1}
  BY DEF Shl
<1>2. CASE b
  BY <1>1, <1>2 DEF Option, response_always
<1>3. CASE ~b
  BY <1>1, <1>3 DEF Option, rejects_to_fq
<1> QED
  BY <1>2, <1>3

LEMMA ShlBits ==
  ASSUME NEW n \in 0..3, NEW shift \in Nat
  PROVE  /\ Shl(n, shift) \subseteq {shift, shift + 1}
         /\ shift \in Shl(n, shift) <=> n \in {1, 3}
         /\ shift + 1 \in Shl(n, shift) <=> n \in {2, 3}
BY DEF Shl

\* One element is all of a set of size one.
LEMMA OnlyOne ==
  ASSUME NEW S, NEW x \in S, IsFiniteSet(S), Cardinality(S) <= 1
  PROVE  S = {x}
<1> SUFFICES ASSUME NEW y \in S, y # x PROVE FALSE
  OBVIOUS
<1>1. IsFiniteSet({x}) /\ Cardinality({x}) = 1
  BY FS_Singleton
<1>2. Cardinality({x} \cup {y}) = 2
  BY <1>1, FS_AddElement
<1>3. {x} \cup {y} \subseteq S
  OBVIOUS
<1>4. Cardinality({x} \cup {y}) <= Cardinality(S)
  BY <1>3, FS_Subset
<1>5. Cardinality(S) \in Nat
  BY FS_CardinalityType
<1> QED
  BY <1>2, <1>4, <1>5

\* What QMan reads, by kind of descriptor and by group.
LEMMA MeaningIs ==
  ASSUME NEW x
  PROVE  /\ x \in EqDesc => Meaning(x) = EqMeaning(x) /\ x.kind = "eq"
         /\ x \in PullDesc => Meaning(x) = PullMeaning(x) /\ x.kind = "pull"
         /\ x \in ReleaseDesc => Meaning(x) = ReleaseMeaning(x) /\ x.kind = "release"
BY DEF EqDesc, PullDesc, ReleaseDesc, Meaning

LEMMA GroupsAre ==
  ASSUME NEW x
  PROVE  /\ DOMAIN EqMeaning(x) = {"action", "target", "eqdi", "dca", "response", "token"}
         /\ DOMAIN PullMeaning(x) = {"action", "storage", "rad", "numframes", "token"}
         /\ DOMAIN ReleaseMeaning(x) = {"bpid", "rcdi", "valid"}
BY DEF EqMeaning, PullMeaning, ReleaseMeaning

\* Each group is read from bits and members of its own.
LEMMA EqActionSame ==
  ASSUME NEW e, NEW f, \A k \in {0, 1, ORP_ENABLE} : k \in e.verb <=> k \in f.verb,
         e.orpid = f.orpid, e.seqnum = f.seqnum
  PROVE  EqMeaning(e)["action"] = EqMeaning(f)["action"]
<1>1. e.verb \cap {0, 1} = f.verb \cap {0, 1}
  OBVIOUS
<1>2. Response(e.verb) = Response(f.verb)
  BY <1>1 DEF Response
<1>3. EqAction(e) = EqAction(f)
  BY <1>2 DEF EqAction
<1> QED
  BY <1>3 DEF EqMeaning

LEMMA EqRestSame ==
  ASSUME NEW e, NEW f
  PROVE  /\ (/\ TARGET_TYPE \in e.verb <=> TARGET_TYPE \in f.verb
             /\ e.tgtid = f.tgtid /\ e.qd = f.qd)
            => EqMeaning(e)["target"] = EqMeaning(f)["target"]
         /\ (IRQ_ON_DISPATCH \in e.verb <=> IRQ_ON_DISPATCH \in f.verb)
            => EqMeaning(e)["eqdi"] = EqMeaning(f)["eqdi"]
         /\ (e.dca = f.dca /\ e.dqrr_idx = f.dqrr_idx)
            => EqMeaning(e)["dca"] = EqMeaning(f)["dca"]
         /\ (e.rsp_addr = f.rsp_addr /\ e.wae = f.wae)
            => EqMeaning(e)["response"] = EqMeaning(f)["response"]
         /\ e.rspid = f.rspid => EqMeaning(e)["token"] = EqMeaning(f)["token"]
BY DEF EqMeaning

\* All groups of an enqueue descriptor but those that are left out.
LEMMA EqOthers ==
  ASSUME NEW e, NEW f, NEW group \in {"action", "target", "eqdi", "dca", "response", "token"},
         group # "action" =>
           /\ \A k \in {0, 1, ORP_ENABLE} : k \in e.verb <=> k \in f.verb
           /\ e.orpid = f.orpid /\ e.seqnum = f.seqnum,
         group # "target" =>
           /\ TARGET_TYPE \in e.verb <=> TARGET_TYPE \in f.verb
           /\ e.tgtid = f.tgtid /\ e.qd = f.qd,
         group # "eqdi" => (IRQ_ON_DISPATCH \in e.verb <=> IRQ_ON_DISPATCH \in f.verb),
         group # "dca" => e.dca = f.dca /\ e.dqrr_idx = f.dqrr_idx,
         group # "response" => e.rsp_addr = f.rsp_addr /\ e.wae = f.wae,
         group # "token" => e.rspid = f.rspid
  PROVE  \A g \in {"action", "target", "eqdi", "dca", "response", "token"} \ {group} :
           EqMeaning(e)[g] = EqMeaning(f)[g]
<1>1. group # "action" => EqMeaning(e)["action"] = EqMeaning(f)["action"]
  BY EqActionSame
<1>2. group # "target" => EqMeaning(e)["target"] = EqMeaning(f)["target"]
  BY EqRestSame
<1>3. group # "eqdi" => EqMeaning(e)["eqdi"] = EqMeaning(f)["eqdi"]
  BY EqRestSame
<1>4. group # "dca" => EqMeaning(e)["dca"] = EqMeaning(f)["dca"]
  BY EqRestSame
<1>5. group # "response" => EqMeaning(e)["response"] = EqMeaning(f)["response"]
  BY EqRestSame
<1>6. group # "token" => EqMeaning(e)["token"] = EqMeaning(f)["token"]
  BY EqRestSame
<1> QED
  BY <1>1, <1>2, <1>3, <1>4, <1>5, <1>6

LEMMA PullActionSame ==
  ASSUME NEW e, NEW f, \A k \in 0..3 : k \in e.verb <=> k \in f.verb, e.dq_src = f.dq_src
  PROVE  PullMeaning(e)["action"] = PullMeaning(f)["action"]
<1>1. BitsValue(e.verb, DT) = BitsValue(f.verb, DT) /\ BitsValue(e.verb, 0) = BitsValue(f.verb, 0)
  BY DEF BitsValue, DT
<1> QED
  BY <1>1 DEF PullMeaning

LEMMA PullRestSame ==
  ASSUME NEW e, NEW f
  PROVE  /\ (/\ \A k \in {RLS, WAE} : k \in e.verb <=> k \in f.verb
             /\ e.rsp_addr_virt = f.rsp_addr_virt)
            => PullMeaning(e)["storage"] = PullMeaning(f)["storage"]
         /\ (RAD \in e.verb <=> RAD \in f.verb)
            => PullMeaning(e)["rad"] = PullMeaning(f)["rad"]
         /\ e.numf = f.numf => PullMeaning(e)["numframes"] = PullMeaning(f)["numframes"]
         /\ e.tok = f.tok => PullMeaning(e)["token"] = PullMeaning(f)["token"]
BY DEF PullMeaning

LEMMA ReleaseSame ==
  ASSUME NEW e, NEW f
  PROVE  /\ e.bpid = f.bpid => ReleaseMeaning(e)["bpid"] = ReleaseMeaning(f)["bpid"]
         /\ (RCDI \in e.verb <=> RCDI \in f.verb)
            => ReleaseMeaning(e)["rcdi"] = ReleaseMeaning(f)["rcdi"]
         /\ (RC_VALID \in e.verb <=> RC_VALID \in f.verb)
            => ReleaseMeaning(e)["valid"] = ReleaseMeaning(f)["valid"]
BY DEF ReleaseMeaning

-----------------------------------------------------------------------------
\* A setter that changes what QMan reads in its group, to what the caller means,
\* and in no other group, keeps the invariant.
LEMMA SetterStep ==
  ASSUME IInv, NEW group \in DOMAIN meant, NEW value, Means(group, value),
         Types', Asked', DOMAIN Meaning(d)' = DOMAIN Meaning(d),
         group # "action" => UNCHANGED asked,
         group # "action" \/ Cardinality(asked') <= 1 => Meaning(d)'[group] = value,
         \A g \in DOMAIN meant \ {group} : Meaning(d)'[g] = Meaning(d)[g]
  PROVE  IInv'
<1>1. /\ DOMAIN meant' = DOMAIN meant /\ meant'[group] = value
      /\ \A g \in DOMAIN meant \ {group} : meant'[g] = meant[g]
  BY DEF Means
<1>2. Groups'
  BY <1>1 DEF IInv, Groups
<1>3. Faithful'
  <2> SUFFICES ASSUME NEW g \in DOMAIN meant, g # "action" \/ Cardinality(asked') <= 1
               PROVE  Meaning(d)'[g] = meant'[g]
    BY <1>1 DEF Faithful
  <2>1. CASE g = group
    BY <1>1, <2>1
  <2>2. CASE g # group
    <3>1. g # "action" \/ Cardinality(asked) <= 1
      BY <2>2
    <3>2. Meaning(d)[g] = meant[g]
      BY <3>1 DEF IInv, Faithful
    <3> QED
      BY <1>1, <2>2, <3>2
  <2> QED
    BY <2>1, <2>2
<1> QED
  BY <1>2, <1>3 DEF IInv

-----------------------------------------------------------------------------
(* Setters of the enqueue descriptor. *)

EqGroups == {"action", "target", "eqdi", "dca", "response", "token"}

\* SetterStep for an enqueue descriptor.
LEMMA EqStep ==
  ASSUME IInv, d \in EqDesc, d' \in EqDesc,
         NEW group \in EqGroups, NEW value, Means(group, value),
         Asked', group # "action" => UNCHANGED asked,
         group # "action" \/ Cardinality(asked') <= 1 => EqMeaning(d')[group] = value,
         \A g \in EqGroups \ {group} : EqMeaning(d')[g] = EqMeaning(d)[g]
  PROVE  IInv'
<1>1. Meaning(d) = EqMeaning(d) /\ Meaning(d)' = EqMeaning(d')
  BY MeaningIs
<1>2. DOMAIN EqMeaning(d) = EqGroups /\ DOMAIN EqMeaning(d') = EqGroups
  BY GroupsAre DEF EqGroups
<1>3. DOMAIN meant = EqGroups /\ Types'
  BY <1>1, <1>2 DEF IInv, Groups, Types
<1> QED
  BY <1>1, <1>2, <1>3, SetterStep

\* Setters that are no actions leave the bits of the actions alone.
LEMMA EqKeepsAsked ==
  ASSUME IInv, d \in EqDesc, d' \in EqDesc, UNCHANGED asked,
         \A k \in {0, 1} : k \in d'.verb <=> k \in d.verb
  PROVE  Asked'
BY DEF IInv, Asked, EqDesc, PullDesc

\* QMan's reading of the response bits.
LEMMA ResponseIs ==
  ASSUME NEW verb
  PROVE  /\ 0 \in verb /\ 1 \notin verb => Response(verb) = "always"
         /\ 0 \notin verb /\ 1 \in verb => Response(verb) = "rejects"
         /\ 0 \notin verb /\ 1 \notin verb => Response(verb) = "none"
<1>1. /\ 0 \in verb /\ 1 \notin verb => verb \cap {0, 1} = {0}
      /\ 0 \notin verb /\ 1 \in verb => verb \cap {0, 1} = {1}
      /\ 0 \notin verb /\ 1 \notin verb => verb \cap {0, 1} = {}
  OBVIOUS
<1> QED
  BY <1>1 DEF Response

\* An action that adds the bit of its response option to those of earlier ones.
LEMMA OptionStep ==
  ASSUME IInv, d \in EqDesc, d' \in EqDesc, NEW b \in BOOLEAN, asked' = asked \cup {b},
         \A k \in {0, 1} : k \in d'.verb <=> k \in d.verb \/ k \in Option(b)
  PROVE  /\ Asked'
         /\ Cardinality(asked') <= 1 => Response(d'.verb) = ResponseOf(b)
<1>1. /\ IsFiniteSet(asked) /\ asked \subseteq BOOLEAN
      /\ 0 \in d.verb <=> TRUE \in asked
      /\ 1 \in d.verb <=> FALSE \in asked
  BY DEF IInv, Asked
<1>2. IsFiniteSet(asked')
  BY <1>1, FS_AddElement
<1>3. /\ b => (0 \in Option(b) /\ 1 \notin Option(b))
      /\ ~b => (0 \notin Option(b) /\ 1 \in Option(b))
  BY OptionBits
<1>4. /\ 0 \in d'.verb <=> TRUE \in asked'
      /\ 1 \in d'.verb <=> FALSE \in asked'
  <2>1. CASE b
    BY <1>1, <1>3, <2>1
  <2>2. CASE ~b
    BY <1>1, <1>3, <2>2
  <2> QED
    BY <2>1, <2>2
<1>5. Asked'
  BY <1>1, <1>2, <1>4 DEF Asked, EqDesc, PullDesc
<1>6. ASSUME Cardinality(asked') <= 1 PROVE Response(d'.verb) = ResponseOf(b)
  <2>1. asked' = {b}
    BY <1>2, <1>6, OnlyOne
  <2>2. CASE b
    <3>1. 0 \in d'.verb /\ 1 \notin d'.verb
      BY <1>4, <2>1, <2>2
    <3> QED
      BY <2>2, <3>1, ResponseIs DEF ResponseOf
  <2>3. CASE ~b
    <3>1. 0 \notin d'.verb /\ 1 \in d'.verb
      BY <1>4, <2>1, <2>3
    <3> QED
      BY <2>3, <3>1, ResponseIs DEF ResponseOf
  <2> QED
    BY <2>2, <2>3
<1> QED
  BY <1>5, <1>6

LEMMA EqSetNoOrp ==
  ASSUME IInv, d \in EqDesc, NEW b \in BOOLEAN, eq_set_no_orp(b)
  PROVE  IInv'
<1> DEFINE v == (d.verb \ {ORP_ENABLE}) \cup Option(b)
<1>0. Option(b) \subseteq {0, 1}
  BY OptionBits
<1>1. v \in SUBSET (0..4) /\ ORP_ENABLE \notin v
  BY <1>0 DEF EqDesc, ORP_ENABLE
<1>2. \A k \in 0..4 : k # ORP_ENABLE => (k \in v <=> k \in d.verb \/ k \in Option(b))
  OBVIOUS
<1>3. d' = [d EXCEPT !.verb = v]
  BY DEF eq_set_no_orp
<1> HIDE DEF v
<1>4. /\ d' \in EqDesc /\ d'.verb = v /\ d'.dca = d.dca /\ d'.dqrr_idx = d.dqrr_idx
      /\ d'.tgtid = d.tgtid /\ d'.qd = d.qd /\ d'.rsp_addr = d.rsp_addr
      /\ d'.wae = d.wae /\ d'.rspid = d.rspid
  BY <1>1, <1>3 DEF EqDesc
<1>5. \A k \in {0, 1} : k \in d'.verb <=> k \in d.verb \/ k \in Option(b)
  BY <1>2, <1>4 DEF ORP_ENABLE
<1>6. /\ Asked'
      /\ Cardinality(asked') <= 1 => Response(d'.verb) = ResponseOf(b)
  BY <1>4, <1>5, OptionStep DEF eq_set_no_orp
<1>7. Cardinality(asked') <= 1 =>
        EqMeaning(d')["action"] = [act |-> "no_orp", response |-> ResponseOf(b)]
  BY <1>1, <1>4, <1>6 DEF EqMeaning, EqAction
<1>8. \A k \in {IRQ_ON_DISPATCH, TARGET_TYPE} : k \in d'.verb <=> k \in d.verb
  BY <1>0, <1>2, <1>4 DEF IRQ_ON_DISPATCH, TARGET_TYPE, ORP_ENABLE
<1>9. \A g \in EqGroups \ {"action"} : EqMeaning(d')[g] = EqMeaning(d)[g]
  BY <1>4, <1>8, EqOthers DEF EqGroups
<1> QED
  BY <1>4, <1>6, <1>7, <1>9, EqStep DEF eq_set_no_orp, EqGroups

LEMMA EqSetOrp ==
  ASSUME IInv, d \in EqDesc, NEW b \in BOOLEAN, NEW id \in Ids, NEW incomplete \in BOOLEAN,
         eq_set_orp(b, id, incomplete)
  PROVE  IInv'
<1> DEFINE v == d.verb \cup {ORP_ENABLE} \cup Option(b)
           q == IF incomplete THEN {NLIS} ELSE {}
<1>0. Option(b) \subseteq {0, 1}
  BY OptionBits
<1>1. v \in SUBSET (0..4) /\ ORP_ENABLE \in v
  BY <1>0 DEF EqDesc, ORP_ENABLE
<1>2. \A k \in 0..4 : k # ORP_ENABLE => (k \in v <=> k \in d.verb \/ k \in Option(b))
  OBVIOUS
<1>3. q \in SUBSET {NLIS, IS_NESN} /\ (NLIS \in q <=> incomplete)
  OBVIOUS
<1>4. d' = [d EXCEPT !.verb = v, !.orpid = id, !.seqnum = q]
  BY DEF eq_set_orp
<1> HIDE DEF v, q
<1>5. /\ d' \in EqDesc /\ d'.verb = v /\ d'.dca = d.dca /\ d'.dqrr_idx = d.dqrr_idx
      /\ d'.tgtid = d.tgtid /\ d'.qd = d.qd /\ d'.rsp_addr = d.rsp_addr
      /\ d'.wae = d.wae /\ d'.rspid = d.rspid /\ d'.orpid = id /\ d'.seqnum = q
  BY <1>1, <1>3, <1>4 DEF EqDesc
<1>6. \A k \in {0, 1} : k \in d'.verb <=> k \in d.verb \/ k \in Option(b)
  BY <1>2, <1>5 DEF ORP_ENABLE
<1>7. /\ Asked'
      /\ Cardinality(asked') <= 1 => Response(d'.verb) = ResponseOf(b)
  BY <1>5, <1>6, OptionStep DEF eq_set_orp
<1>8. Cardinality(asked') <= 1 =>
        EqMeaning(d')["action"] = [act |-> "orp", response |-> ResponseOf(b),
                                   orpid |-> id, incomplete |-> incomplete]
  <2> SUFFICES ASSUME Cardinality(asked') <= 1
               PROVE  EqAction(d') = [act |-> "orp", response |-> ResponseOf(b),
                                      orpid |-> id, incomplete |-> incomplete]
    BY DEF EqMeaning
  <2>1. Response(d'.verb) = ResponseOf(b) /\ ResponseOf(b) # "none"
    BY <1>7 DEF ResponseOf
  <2>2. (NLIS \in d'.seqnum) = incomplete
    BY <1>3, <1>5
  <2> QED
    BY <1>1, <1>5, <2>1, <2>2 DEF EqAction
<1>9. \A k \in {IRQ_ON_DISPATCH, TARGET_TYPE} : k \in d'.verb <=> k \in d.verb
  BY <1>0, <1>2, <1>5 DEF IRQ_ON_DISPATCH, TARGET_TYPE, ORP_ENABLE
<1>10. \A g \in EqGroups \ {"action"} : EqMeaning(d')[g] = EqMeaning(d)[g]
  BY <1>5, <1>9, EqOthers DEF EqGroups
<1> QED
  BY <1>5, <1>7, <1>8, <1>10, EqStep DEF eq_set_orp, EqGroups

\* The two actions that clear the response option first, and the two targets.
HoleSet(id, q) == d' = [d EXCEPT !.verb = HoleVerb(d.verb), !.orpid = id, !.seqnum = q]
TargetSet(v, id, bin) == d' = [d EXCEPT !.verb = v, !.tgtid = id, !.qd = bin]

LEMMA EqSetHole ==
  ASSUME IInv, d \in EqDesc, NEW id \in Ids, NEW q \in {{}, {IS_NESN}},
         NEW act \in {"hole", "nesn"}, act = (IF IS_NESN \in q THEN "nesn" ELSE "hole"),
         HoleSet(id, q),
         Means("action", [act |-> act, orpid |-> id, incomplete |-> FALSE]),
         asked' = {}
  PROVE  IInv'
<1> DEFINE v == HoleVerb(d.verb)
<1>1. /\ v \in SUBSET (0..4) /\ ORP_ENABLE \in v /\ 0 \notin v /\ 1 \notin v
      /\ \A k \in {IRQ_ON_DISPATCH, TARGET_TYPE} : k \in v <=> k \in d.verb
  BY DEF EqDesc, HoleVerb, ORP_ENABLE, IRQ_ON_DISPATCH, TARGET_TYPE
<1>2. d' = [d EXCEPT !.verb = v, !.orpid = id, !.seqnum = q]
  BY DEF HoleSet
<1> HIDE DEF v
<1>q. q \in SUBSET {NLIS, IS_NESN}
  OBVIOUS
<1>3. /\ d' \in EqDesc /\ d'.verb = v /\ d'.dca = d.dca /\ d'.dqrr_idx = d.dqrr_idx
      /\ d'.tgtid = d.tgtid /\ d'.qd = d.qd /\ d'.rsp_addr = d.rsp_addr
      /\ d'.wae = d.wae /\ d'.rspid = d.rspid /\ d'.orpid = id /\ d'.seqnum = q
  BY <1>1, <1>2, <1>q DEF EqDesc
<1>4. Asked'
  BY <1>1, <1>3, FS_EmptySet DEF Asked, EqDesc, PullDesc
<1>5. EqMeaning(d')["action"] = [act |-> act, orpid |-> id, incomplete |-> FALSE]
  <2>1. Response(d'.verb) = "none"
    BY <1>1, <1>3, ResponseIs
  <2>2. (NLIS \in d'.seqnum) = FALSE
    BY <1>3 DEF NLIS, IS_NESN
  <2>3. EqAction(d') = [act |-> act, orpid |-> id, incomplete |-> FALSE]
    BY <1>1, <1>3, <2>1, <2>2 DEF EqAction
  <2> QED
    BY <2>3 DEF EqMeaning
<1>6. /\ IRQ_ON_DISPATCH \in d'.verb <=> IRQ_ON_DISPATCH \in d.verb
      /\ TARGET_TYPE \in d'.verb <=> TARGET_TYPE \in d.verb
  BY <1>1, <1>3
<1>7. \A g \in EqGroups \ {"action"} : EqMeaning(d')[g] = EqMeaning(d)[g]
  BY <1>3, <1>6, EqOthers DEF EqGroups
<1> QED
  BY <1>3, <1>4, <1>5, <1>7, EqStep DEF EqGroups

LEMMA EqSetTarget ==
  ASSUME IInv, d \in EqDesc, NEW v \in SUBSET (0..4), NEW id \in Ids, NEW bin \in Ids \cup {0},
         TargetSet(v, id, bin),
         \A k \in 0..4 : k # TARGET_TYPE => (k \in v <=> k \in d.verb),
         NEW value,
         value = IF TARGET_TYPE \in v THEN <<"qd", id, bin>> ELSE <<"fq", id>>,
         Means("target", value), UNCHANGED asked
  PROVE  IInv'
<1>1. /\ d' \in EqDesc /\ d'.verb = v /\ d'.dca = d.dca /\ d'.dqrr_idx = d.dqrr_idx
      /\ d'.tgtid = id /\ d'.qd = bin /\ d'.rsp_addr = d.rsp_addr /\ d'.wae = d.wae
      /\ d'.rspid = d.rspid /\ d'.orpid = d.orpid /\ d'.seqnum = d.seqnum
  BY DEF EqDesc, TargetSet
<1>2. \A k \in {0, 1, ORP_ENABLE, IRQ_ON_DISPATCH} : k \in d'.verb <=> k \in d.verb
  BY <1>1 DEF ORP_ENABLE, IRQ_ON_DISPATCH, TARGET_TYPE
<1>3. Asked'
  BY <1>1, <1>2, EqKeepsAsked
<1>4. EqMeaning(d')["target"] = value
  BY <1>1 DEF EqMeaning
<1>5. /\ \A k \in {0, 1, ORP_ENABLE} : k \in d'.verb <=> k \in d.verb
      /\ IRQ_ON_DISPATCH \in d'.verb <=> IRQ_ON_DISPATCH \in d.verb
  BY <1>2
<1>6. \A g \in EqGroups \ {"target"} : EqMeaning(d')[g] = EqMeaning(d)[g]
  BY <1>1, <1>5, EqOthers DEF EqGroups
<1> QED
  BY <1>1, <1>3, <1>4, <1>6, EqStep DEF EqGroups

LEMMA EqSetEqdi ==
  ASSUME IInv, d \in EqDesc, NEW b \in BOOLEAN, eq_set_eqdi(b)
  PROVE  IInv'
<1> DEFINE v == With(d.verb, IRQ_ON_DISPATCH, b)
<1>1. /\ v \in SUBSET (0..4) /\ (IRQ_ON_DISPATCH \in v) = b
      /\ \A k \in {0, 1, ORP_ENABLE, TARGET_TYPE} : k \in v <=> k \in d.verb
  BY DEF EqDesc, With, IRQ_ON_DISPATCH, ORP_ENABLE, TARGET_TYPE
<1>2. d' = [d EXCEPT !.verb = v]
  BY DEF eq_set_eqdi
<1> HIDE DEF v
<1>3. /\ d' \in EqDesc /\ d'.verb = v /\ d'.dca = d.dca /\ d'.dqrr_idx = d.dqrr_idx
      /\ d'.tgtid = d.tgtid /\ d'.qd = d.qd /\ d'.rsp_addr = d.rsp_addr /\ d'.wae = d.wae
      /\ d'.rspid = d.rspid /\ d'.orpid = d.orpid /\ d'.seqnum = d.seqnum
  BY <1>1, <1>2 DEF EqDesc
<1>4. Asked'
  BY <1>1, <1>3, EqKeepsAsked DEF eq_set_eqdi
<1>5. EqMeaning(d')["eqdi"] = b
  BY <1>1, <1>3 DEF EqMeaning
<1>6. \A g \in EqGroups \ {"eqdi"} : EqMeaning(d')[g] = EqMeaning(d)[g]
  BY <1>1, <1>3, EqOthers DEF EqGroups
<1> QED
  BY <1>3, <1>4, <1>5, <1>6, EqStep DEF EqGroups, eq_set_eqdi

LEMMA EqSetDca ==
  ASSUME IInv, d \in EqDesc, NEW b \in BOOLEAN, NEW park \in BOOLEAN, NEW i \in {0, 7},
         eq_set_dca(b, i, park)
  PROVE  IInv'
<1> DEFINE bits == IF b THEN With({DCA_EN}, DCA_PK, park) ELSE d.dca \ {DCA_EN}
           idx  == IF b THEN i ELSE d.dqrr_idx
<1>1. /\ bits \in SUBSET {DCA_PK, DCA_EN} /\ (DCA_EN \in bits <=> b)
      /\ b => (DCA_PK \in bits) = park
      /\ idx \in 0..7 /\ (b => idx = i)
  BY DEF EqDesc, With, DCA_PK, DCA_EN
<1>2. d' = [d EXCEPT !.dqrr_idx = idx, !.dca = bits]
  BY DEF eq_set_dca, EqDesc
<1> HIDE DEF bits, idx
<1>3. /\ d' \in EqDesc /\ d'.verb = d.verb /\ d'.dca = bits /\ d'.dqrr_idx = idx
      /\ d'.tgtid = d.tgtid /\ d'.qd = d.qd /\ d'.rsp_addr = d.rsp_addr /\ d'.wae = d.wae
      /\ d'.rspid = d.rspid /\ d'.orpid = d.orpid /\ d'.seqnum = d.seqnum
  BY <1>1, <1>2 DEF EqDesc
<1>4. Asked'
  BY <1>3, EqKeepsAsked DEF eq_set_dca
<1>5. EqMeaning(d')["dca"] = IF b THEN <<i, park>> ELSE <<>>
  BY <1>1, <1>3 DEF EqMeaning
<1>6. \A g \in EqGroups \ {"dca"} : EqMeaning(d')[g] = EqMeaning(d)[g]
  BY <1>3, EqOthers DEF EqGroups
<1> QED
  BY <1>3, <1>4, <1>5, <1>6, EqStep DEF EqGroups, eq_set_dca

LEMMA EqSetResponse ==
  ASSUME IInv, d \in EqDesc, NEW storage \in Storages, NEW stash \in BOOLEAN,
         eq_set_response(storage, stash)
  PROVE  IInv'
<1>1. /\ d' \in EqDesc /\ d'.verb = d.verb /\ d'.dca = d.dca /\ d'.dqrr_idx = d.dqrr_idx
      /\ d'.tgtid = d.tgtid /\ d'.qd = d.qd /\ d'.rsp_addr = storage /\ d'.wae = stash
      /\ d'.rspid = d.rspid /\ d'.orpid = d.orpid /\ d'.seqnum = d.seqnum
  BY DEF EqDesc, eq_set_response
<1>2. Asked'
  BY <1>1, EqKeepsAsked DEF eq_set_response
<1>3. EqMeaning(d')["response"] = <<storage, stash>>
  BY <1>1 DEF EqMeaning
<1>4. \A g \in EqGroups \ {"response"} : EqMeaning(d')[g] = EqMeaning(d)[g]
  BY <1>1, EqOthers DEF EqGroups
<1> QED
  BY <1>1, <1>2, <1>3, <1>4, EqStep DEF EqGroups, eq_set_response

LEMMA EqSetToken ==
  ASSUME IInv, d \in EqDesc, eq_set_token(1)
  PROVE  IInv'
<1>1. /\ d' \in EqDesc /\ d'.verb = d.verb /\ d'.dca = d.dca /\ d'.dqrr_idx = d.dqrr_idx
      /\ d'.tgtid = d.tgtid /\ d'.qd = d.qd /\ d'.rsp_addr = d.rsp_addr /\ d'.wae = d.wae
      /\ d'.rspid = 1 /\ d'.orpid = d.orpid /\ d'.seqnum = d.seqnum
  BY DEF EqDesc, eq_set_token
<1>2. Asked'
  BY <1>1, EqKeepsAsked DEF eq_set_token
<1>3. EqMeaning(d')["token"] = 1
  BY <1>1 DEF EqMeaning
<1>4. \A g \in EqGroups \ {"token"} : EqMeaning(d')[g] = EqMeaning(d)[g]
  BY <1>1, EqOthers DEF EqGroups
<1> QED
  BY <1>1, <1>2, <1>3, <1>4, EqStep DEF EqGroups, eq_set_token

LEMMA EqSetterStep == ASSUME IInv, d \in EqDesc, EqSetter PROVE IInv'
<1>1. ASSUME NEW id \in Ids, eq_set_orp_hole(id) PROVE IInv'
  BY <1>1, EqSetHole DEF eq_set_orp_hole, HoleSet
<1>2. ASSUME NEW id \in Ids, eq_set_orp_nesn(id) PROVE IInv'
  BY <1>2, EqSetHole DEF eq_set_orp_nesn, HoleSet
<1>3. ASSUME NEW id \in Ids, eq_set_fq(id) PROVE IInv'
  <2> DEFINE v == d.verb \ {TARGET_TYPE}
  <2>1. /\ d' = [d EXCEPT !.verb = v, !.tgtid = id, !.qd = d.qd]
        /\ d.qd \in Ids \cup {0}
    BY <1>3 DEF eq_set_fq, EqDesc
  <2>2. v \in SUBSET (0..4) /\ TARGET_TYPE \notin v
    BY DEF EqDesc
  <2>3. \A k \in 0..4 : k # TARGET_TYPE => (k \in v <=> k \in d.verb)
    OBVIOUS
  <2> HIDE DEF v
  <2> QED
    BY <1>3, <2>1, <2>2, <2>3, EqSetTarget DEF eq_set_fq, TargetSet
<1>4. ASSUME NEW id \in Ids, NEW bin \in Ids, eq_set_qd(id, bin) PROVE IInv'
  <2> DEFINE v == d.verb \cup {TARGET_TYPE}
  <2>1. d' = [d EXCEPT !.verb = v, !.tgtid = id, !.qd = bin]
    BY <1>4 DEF eq_set_qd
  <2>2. v \in SUBSET (0..4) /\ TARGET_TYPE \in v
    BY DEF EqDesc, TARGET_TYPE
  <2>3. \A k \in 0..4 : k # TARGET_TYPE => (k \in v <=> k \in d.verb)
    OBVIOUS
  <2> HIDE DEF v
  <2> QED
    BY <1>4, <2>1, <2>2, <2>3, EqSetTarget DEF eq_set_qd, TargetSet
<1> QED
  BY <1>1, <1>2, <1>3, <1>4, EqSetNoOrp, EqSetOrp, EqSetEqdi, EqSetDca, EqSetResponse,
     EqSetToken DEF EqSetter

-----------------------------------------------------------------------------
(* Setters of the pull descriptor. *)

PullGroups == {"action", "storage", "rad", "numframes", "token"}

\* All groups of a pull descriptor but those that are left out.
LEMMA PullOthers ==
  ASSUME NEW e, NEW f, NEW group \in PullGroups,
         group # "action" =>
           /\ \A k \in 0..3 : k \in e.verb <=> k \in f.verb
           /\ e.dq_src = f.dq_src,
         group # "storage" =>
           /\ \A k \in {RLS, WAE} : k \in e.verb <=> k \in f.verb
           /\ e.rsp_addr_virt = f.rsp_addr_virt,
         group # "rad" => (RAD \in e.verb <=> RAD \in f.verb),
         group # "numframes" => e.numf = f.numf,
         group # "token" => e.tok = f.tok
  PROVE  \A g \in PullGroups \ {group} : PullMeaning(e)[g] = PullMeaning(f)[g]
<1>1. group # "action" => PullMeaning(e)["action"] = PullMeaning(f)["action"]
  BY PullActionSame
<1>2. group # "storage" => PullMeaning(e)["storage"] = PullMeaning(f)["storage"]
  BY PullRestSame
<1>3. group # "rad" => PullMeaning(e)["rad"] = PullMeaning(f)["rad"]
  BY PullRestSame
<1>4. group # "numframes" => PullMeaning(e)["numframes"] = PullMeaning(f)["numframes"]
  BY PullRestSame
<1>5. group # "token" => PullMeaning(e)["token"] = PullMeaning(f)["token"]
  BY PullRestSame
<1> QED
  BY <1>1, <1>2, <1>3, <1>4, <1>5 DEF PullGroups

\* SetterStep for a pull descriptor.
LEMMA PullStep ==
  ASSUME IInv, d \in PullDesc, d' \in PullDesc,
         NEW group \in PullGroups, NEW value, Means(group, value),
         Asked', group # "action" => UNCHANGED asked,
         group # "action" \/ Cardinality(asked') <= 1 => PullMeaning(d')[group] = value,
         \A g \in PullGroups \ {group} : PullMeaning(d')[g] = PullMeaning(d)[g]
  PROVE  IInv'
<1>1. Meaning(d) = PullMeaning(d) /\ Meaning(d)' = PullMeaning(d')
  BY MeaningIs
<1>2. DOMAIN PullMeaning(d) = PullGroups /\ DOMAIN PullMeaning(d') = PullGroups
  BY GroupsAre DEF PullGroups
<1>3. DOMAIN meant = PullGroups /\ Types'
  BY <1>1, <1>2 DEF IInv, Groups, Types
<1> QED
  BY <1>1, <1>2, <1>3, SetterStep

LEMMA PullKeepsAsked ==
  ASSUME IInv, d \in PullDesc, d' \in PullDesc, UNCHANGED asked,
         \A k \in 0..3 : k \in d'.verb <=> k \in d.verb
  PROVE  Asked'
BY DEF IInv, Asked, EqDesc, PullDesc, SourceBits

\* A setter of the storage or of rad, which changes bits from 4 on only.
FlagSet(v, addr) == d' = [d EXCEPT !.verb = v, !.rsp_addr_virt = addr]

LEMMA PullSetFlags ==
  ASSUME IInv, d \in PullDesc, NEW v \in SUBSET (0..6), NEW addr \in Storages \cup {NULL},
         FlagSet(v, addr), \A k \in 0..3 : k \in v <=> k \in d.verb,
         NEW group \in {"storage", "rad"}, NEW value, Means(group, value), UNCHANGED asked,
         group = "storage" => /\ RAD \in v <=> RAD \in d.verb
                              /\ value = IF RLS \in v THEN <<addr, WAE \in v>> ELSE <<>>,
         group = "rad" => /\ \A k \in {RLS, WAE} : k \in v <=> k \in d.verb
                          /\ addr = d.rsp_addr_virt
                          /\ value = (RAD \in v)
  PROVE  IInv'
<1>1. /\ d' \in PullDesc /\ d'.verb = v /\ d'.rsp_addr_virt = addr /\ d'.numf = d.numf
      /\ d'.tok = d.tok /\ d'.dq_src = d.dq_src
  BY DEF PullDesc, FlagSet
<1>2. \A k \in 0..3 : k \in d'.verb <=> k \in d.verb
  BY <1>1
<1>3. Asked'
  BY <1>1, <1>2, PullKeepsAsked
<1>4. PullMeaning(d')[group] = value
  <2>1. CASE group = "storage"
    BY <1>1, <2>1 DEF PullMeaning
  <2>2. CASE group = "rad"
    BY <1>1, <2>2 DEF PullMeaning
  <2> QED
    BY <2>1, <2>2
<1>5. /\ group # "storage" => /\ \A k \in {RLS, WAE} : k \in d'.verb <=> k \in d.verb
                              /\ d'.rsp_addr_virt = d.rsp_addr_virt
      /\ group # "rad" => (RAD \in d'.verb <=> RAD \in d.verb)
  BY <1>1
<1>6. group \in PullGroups /\ group # "action"
  BY DEF PullGroups
<1>7. \A g \in PullGroups \ {group} : PullMeaning(d')[g] = PullMeaning(d)[g]
  BY <1>1, <1>2, <1>5, <1>6, PullOthers
<1> QED
  BY <1>1, <1>3, <1>4, <1>6, <1>7, PullStep

LEMMA PullSetStorage ==
  ASSUME IInv, d \in PullDesc, NEW storage \in Storages \cup {NULL}, NEW stash \in BOOLEAN,
         pull_set_storage(storage, stash)
  PROVE  IInv'
<1> DEFINE v == IF storage = NULL THEN d.verb \ {RLS}
                ELSE With(d.verb \cup {RLS}, WAE, stash)
<1>1. /\ v \in SUBSET (0..6)
      /\ \A k \in 0..3 : k \in v <=> k \in d.verb
      /\ RAD \in v <=> RAD \in d.verb
  BY DEF PullDesc, With, RLS, WAE, RAD
<1>2. /\ storage = NULL => RLS \notin v
      /\ storage # NULL => RLS \in v /\ (WAE \in v) = stash
  BY DEF With, RLS, WAE
<1>3. FlagSet(v, storage)
  BY DEF pull_set_storage, FlagSet, PullDesc
<1> HIDE DEF v
<1>4. CASE storage = NULL
  <2>1. Means("storage", <<>>) /\ UNCHANGED asked
    BY <1>4 DEF pull_set_storage
  <2> QED
    BY <1>1, <1>2, <1>3, <1>4, <2>1, PullSetFlags
<1>5. CASE storage # NULL
  <2>1. Means("storage", <<storage, WAE \in v>>) /\ UNCHANGED asked
    BY <1>2, <1>5 DEF pull_set_storage
  <2> QED
    BY <1>1, <1>2, <1>3, <1>5, <2>1, PullSetFlags
<1> QED
  BY <1>4, <1>5

LEMMA PullSetRad ==
  ASSUME IInv, d \in PullDesc, NEW rad \in BOOLEAN, pull_set_rad(rad)
  PROVE  IInv'
<1> DEFINE v == With(d.verb, RAD, rad)
<1>1. /\ v \in SUBSET (0..6) /\ (RAD \in v) = rad
      /\ \A k \in 0..3 : k \in v <=> k \in d.verb
      /\ \A k \in {RLS, WAE} : k \in v <=> k \in d.verb
  BY DEF PullDesc, With, RLS, WAE, RAD
<1>2. FlagSet(v, d.rsp_addr_virt) /\ d.rsp_addr_virt \in Storages \cup {NULL}
  BY DEF pull_set_rad, FlagSet, PullDesc
<1> HIDE DEF v
<1>3. Means("rad", rad) /\ UNCHANGED asked
  BY DEF pull_set_rad
<1> QED
  BY <1>1, <1>2, <1>3, PullSetFlags

LEMMA PullSetNumframes ==
  ASSUME IInv, d \in PullDesc, NEW n \in {1, 16}, pull_set_numframes(n)
  PROVE  IInv'
<1>1. Numf(n) \in 0..15 /\ Numf(n) + 1 = n
  BY DEF Numf
<1>2. /\ d' \in PullDesc /\ d'.verb = d.verb /\ d'.rsp_addr_virt = d.rsp_addr_virt
      /\ d'.numf = Numf(n) /\ d'.tok = d.tok /\ d'.dq_src = d.dq_src
  BY <1>1 DEF PullDesc, pull_set_numframes
<1>3. Asked'
  BY <1>2, PullKeepsAsked DEF pull_set_numframes
<1>4. PullMeaning(d')["numframes"] = n
  BY <1>1, <1>2 DEF PullMeaning
<1>5. "numframes" \in PullGroups
  BY DEF PullGroups
<1>6. \A g \in PullGroups \ {"numframes"} : PullMeaning(d')[g] = PullMeaning(d)[g]
  BY <1>2, <1>5, PullOthers
<1> QED
  BY <1>2, <1>3, <1>4, <1>5, <1>6, PullStep DEF pull_set_numframes

LEMMA PullSetToken ==
  ASSUME IInv, d \in PullDesc, pull_set_token(1)
  PROVE  IInv'
<1>1. /\ d' \in PullDesc /\ d'.verb = d.verb /\ d'.rsp_addr_virt = d.rsp_addr_virt
      /\ d'.numf = d.numf /\ d'.tok = 1 /\ d'.dq_src = d.dq_src
  BY DEF PullDesc, pull_set_token
<1>2. Asked'
  BY <1>1, PullKeepsAsked DEF pull_set_token
<1>3. PullMeaning(d')["token"] = 1
  BY <1>1 DEF PullMeaning
<1>4. "token" \in PullGroups
  BY DEF PullGroups
<1>5. \A g \in PullGroups \ {"token"} : PullMeaning(d')[g] = PullMeaning(d)[g]
  BY <1>1, <1>4, PullOthers
<1> QED
  BY <1>1, <1>2, <1>3, <1>4, <1>5, PullStep DEF pull_set_token

\* The bits that an action adds are the ones of the values it is called with.
LEMMA SourceValues ==
  ASSUME NEW verb, NEW dt \in 0..2, NEW dct \in PullTypes, SourceBits(verb, dt, dct)
  PROVE  BitsValue(verb, DT) = dt /\ BitsValue(verb, 0) = dct
<1>1. /\ 0 \in verb <=> dct \in {1, 3}
      /\ 1 \in verb <=> dct \in {2, 3}
      /\ 2 \in verb <=> dt \in {1, 3}
      /\ 3 \in verb <=> dt \in {2, 3}
  <2>1. /\ Shl(dct, 0) \subseteq {0, 1}
        /\ 0 \in Shl(dct, 0) <=> dct \in {1, 3}
        /\ 1 \in Shl(dct, 0) <=> dct \in {2, 3}
    BY ShlBits DEF PullTypes
  <2>2. /\ Shl(dt, 2) \subseteq {2, 3}
        /\ 2 \in Shl(dt, 2) <=> dt \in {1, 3}
        /\ 3 \in Shl(dt, 2) <=> dt \in {2, 3}
    BY ShlBits
  <2>3. \A k \in 0..3 : k \in verb <=> k \in Shl(dct, 0) \/ k \in Shl(dt, 2)
    BY DEF SourceBits, DT
  <2> QED
    BY <2>1, <2>2, <2>3
<1>2. BitsValue(verb, 0) = dct
  BY <1>1 DEF BitsValue, PullTypes
<1>3. BitsValue(verb, 2) = dt
  BY <1>1 DEF BitsValue
<1> QED
  BY <1>2, <1>3 DEF DT

LEMMA PullSetSource ==
  ASSUME IInv, d \in PullDesc, NEW dt \in 0..2, NEW dct \in PullTypes, NEW src \in Ids,
         SetSource(dt, dct, src)
  PROVE  IInv'
<1> DEFINE v == d.verb \cup Shl(dct, 0) \cup Shl(dt, DT)
<1>1. Shl(dct, 0) \subseteq 0..3 /\ Shl(dt, DT) \subseteq 0..3
  BY ShlBits DEF PullTypes, DT
<1>2. /\ v \in SUBSET (0..6)
      /\ \A k \in {RLS, WAE, RAD} : k \in v <=> k \in d.verb
  BY <1>1 DEF PullDesc, RLS, WAE, RAD
<1>3. \A k \in 0..3 : k \in v <=> k \in d.verb \/ k \in Shl(dct, 0) \/ k \in Shl(dt, DT)
  OBVIOUS
<1>4. d' = [d EXCEPT !.verb = v, !.dq_src = src]
  BY DEF SetSource
<1> HIDE DEF v
<1>5. /\ d' \in PullDesc /\ d'.verb = v /\ d'.rsp_addr_virt = d.rsp_addr_virt
      /\ d'.numf = d.numf /\ d'.tok = d.tok /\ d'.dq_src = src
  BY <1>2, <1>4 DEF PullDesc
<1>6. /\ IsFiniteSet(asked)
      /\ asked = {} => \A k \in 0..3 : k \notin d.verb
      /\ asked = {<<dt, dct>>} => SourceBits(d.verb, dt, dct)
  BY DEF IInv, Asked
<1>7. asked' = asked \cup {<<dt, dct>>}
  BY DEF SetSource
<1>8. IsFiniteSet(asked')
  BY <1>6, <1>7, FS_AddElement
<1>9. asked' = {<<dt, dct>>} => SourceBits(d'.verb, dt, dct)
  <2>1. CASE asked = {}
    BY <1>3, <1>5, <1>6, <2>1 DEF SourceBits
  <2>2. CASE asked = {<<dt, dct>>}
    BY <1>3, <1>5, <1>6, <2>2 DEF SourceBits
  <2> QED
    BY <1>7, <2>1, <2>2
<1>10. Asked'
  <2>1. asked' # {}
    BY <1>7
  <2>2. ASSUME NEW x \in 0..2, NEW y \in PullTypes, asked' = {<<x, y>>}
        PROVE  SourceBits(d'.verb, x, y)
    <3>1. <<x, y>> = <<dt, dct>>
      BY <1>7, <2>2
    <3>2. x = dt /\ y = dct
      BY <3>1
    <3> QED
      BY <1>9, <2>2, <3>2
  <2>3. d' \notin EqDesc
    BY <1>5 DEF EqDesc, PullDesc
  <2> QED
    BY <1>8, <2>1, <2>2, <2>3 DEF Asked
<1>11. Cardinality(asked') <= 1 =>
         PullMeaning(d')["action"] = [dt |-> dt, dct |-> dct, src |-> src]
  <2> SUFFICES ASSUME Cardinality(asked') <= 1
               PROVE  PullMeaning(d')["action"] = [dt |-> dt, dct |-> dct, src |-> src]
    OBVIOUS
  <2>1. asked' = {<<dt, dct>>}
    BY <1>7, <1>8, OnlyOne
  <2>2. BitsValue(d'.verb, DT) = dt /\ BitsValue(d'.verb, 0) = dct
    BY <1>9, <2>1, SourceValues
  <2> QED
    BY <1>5, <2>2 DEF PullMeaning
<1>12. "action" \in PullGroups
  BY DEF PullGroups
<1>13. /\ \A k \in {RLS, WAE} : k \in d'.verb <=> k \in d.verb
       /\ RAD \in d'.verb <=> RAD \in d.verb
  BY <1>2, <1>5
<1>14. \A g \in PullGroups \ {"action"} : PullMeaning(d')[g] = PullMeaning(d)[g]
  BY <1>5, <1>12, <1>13, PullOthers
<1>15. Means("action", [dt |-> dt, dct |-> dct, src |-> src])
  BY DEF SetSource
<1> QED
  BY <1>5, <1>10, <1>11, <1>12, <1>14, <1>15, PullStep

LEMMA PullSetterStep == ASSUME IInv, d \in PullDesc, PullSetter PROVE IInv'
<1>1. ASSUME NEW id \in Ids, pull_set_fq(id) PROVE IInv'
  BY <1>1, PullSetSource DEF pull_set_fq, dt_framequeue, PullTypes
<1>2. ASSUME NEW id \in Ids, NEW dct \in PullTypes, pull_set_wq(id, dct) PROVE IInv'
  BY <1>2, PullSetSource DEF pull_set_wq, dt_workqueue
<1>3. ASSUME NEW id \in Ids, NEW dct \in PullTypes, pull_set_channel(id, dct) PROVE IInv'
  BY <1>3, PullSetSource DEF pull_set_channel, dt_channel
<1> QED
  BY <1>1, <1>2, <1>3, PullSetStorage, PullSetNumframes, PullSetRad, PullSetToken
     DEF PullSetter

-----------------------------------------------------------------------------
(* Setters of the release descriptor. *)

ReleaseGroups == {"bpid", "rcdi", "valid"}

\* SetterStep for a release descriptor, which has no actions.
LEMMA ReleaseStep ==
  ASSUME IInv, d \in ReleaseDesc, d' \in ReleaseDesc,
         NEW group \in ReleaseGroups, NEW value, Means(group, value), UNCHANGED asked,
         ReleaseMeaning(d')[group] = value,
         \A g \in ReleaseGroups \ {group} : ReleaseMeaning(d')[g] = ReleaseMeaning(d)[g]
  PROVE  IInv'
<1>1. Meaning(d) = ReleaseMeaning(d) /\ Meaning(d)' = ReleaseMeaning(d')
  BY MeaningIs
<1>2. DOMAIN ReleaseMeaning(d) = ReleaseGroups /\ DOMAIN ReleaseMeaning(d') = ReleaseGroups
  BY GroupsAre DEF ReleaseGroups
<1>3. DOMAIN meant = ReleaseGroups /\ Types'
  BY <1>1, <1>2 DEF IInv, Groups, Types
<1>4. Asked'
  BY DEF IInv, Asked, EqDesc, PullDesc, ReleaseDesc
<1> QED
  BY <1>1, <1>2, <1>3, <1>4, SetterStep

LEMMA ReleaseSetterStep == ASSUME IInv, d \in ReleaseDesc, ReleaseSetter PROVE IInv'
<1>1. ASSUME NEW id \in Ids, release_set_bpid(id) PROVE IInv'
  <2>1. d' \in ReleaseDesc /\ d'.verb = d.verb /\ d'.bpid = id
    BY <1>1 DEF ReleaseDesc, release_set_bpid
  <2>2. ReleaseMeaning(d')["bpid"] = id
    BY <2>1 DEF ReleaseMeaning
  <2>3. \A g \in ReleaseGroups \ {"bpid"} : ReleaseMeaning(d')[g] = ReleaseMeaning(d)[g]
    BY <2>1 DEF ReleaseMeaning, ReleaseGroups
  <2>4. "bpid" \in ReleaseGroups
    BY DEF ReleaseGroups
  <2> QED
    BY <1>1, <2>1, <2>2, <2>3, <2>4, ReleaseStep DEF release_set_bpid
<1>2. ASSUME NEW b \in BOOLEAN, release_set_rcdi(b) PROVE IInv'
  <2> DEFINE v == With(d.verb, RCDI, b)
  <2>1. /\ v \in SUBSET {RC_VALID, RCDI} /\ (RCDI \in v) = b
        /\ RC_VALID \in v <=> RC_VALID \in d.verb
    BY DEF With, RCDI, RC_VALID, ReleaseDesc
  <2>2. d' = [d EXCEPT !.verb = v]
    BY <1>2 DEF release_set_rcdi
  <2> HIDE DEF v
  <2>3. d' \in ReleaseDesc /\ d'.verb = v /\ d'.bpid = d.bpid
    BY <2>1, <2>2 DEF ReleaseDesc
  <2>4. ReleaseMeaning(d')["rcdi"] = b
    BY <2>1, <2>3 DEF ReleaseMeaning
  <2>5. \A g \in ReleaseGroups \ {"rcdi"} : ReleaseMeaning(d')[g] = ReleaseMeaning(d)[g]
    BY <2>1, <2>3, ReleaseSame DEF ReleaseGroups
  <2>6. "rcdi" \in ReleaseGroups
    BY DEF ReleaseGroups
  <2> QED
    BY <1>2, <2>3, <2>4, <2>5, <2>6, ReleaseStep DEF release_set_rcdi
<1> QED
  BY <1>1, <1>2 DEF ReleaseSetter

-----------------------------------------------------------------------------
(* The invariant. *)

LEMMA Cleared ==
  /\ eq_clear \in EqDesc /\ pull_clear \in PullDesc /\ release_clear \in ReleaseDesc
  /\ eq_clear.verb = {} /\ pull_clear.verb = {}
BY DEF eq_clear, pull_clear, release_clear, EqDesc, PullDesc, ReleaseDesc

\* A descriptor that was just cleared satisfies the invariant.
LEMMA FreshInv ==
  ASSUME d \in {eq_clear, pull_clear, release_clear}, meant = Meaning(d), asked = {}
  PROVE  IInv
<1>1. Types /\ Groups /\ Faithful
  BY Cleared DEF Types, Groups, Faithful
<1>2. /\ d \in EqDesc => d.verb = {}
      /\ d \in PullDesc => d.verb = {}
  BY Cleared DEF EqDesc, PullDesc, ReleaseDesc
<1>3. Asked
  BY <1>2, FS_EmptySet DEF Asked
<1> QED
  BY <1>1, <1>3 DEF IInv

LEMMA InitIInv == Init => IInv
BY FreshInv DEF Init

LEMMA ClearStep == IInv /\ clear => IInv'
<1> SUFFICES ASSUME clear PROVE IInv'
  OBVIOUS
<1>1. d' \in {eq_clear, pull_clear, release_clear} /\ meant' = Meaning(d)' /\ asked' = {}
  BY DEF clear
<1>2. (Types /\ Groups /\ Faithful)'
  BY <1>1, Cleared DEF Types, Groups, Faithful
<1>3. /\ d' \in EqDesc => d'.verb = {}
      /\ d' \in PullDesc => d'.verb = {}
  BY <1>1, Cleared DEF EqDesc, PullDesc, ReleaseDesc
<1>4. Asked'
  BY <1>1, <1>3, FS_EmptySet DEF Asked
<1> QED
  BY <1>2, <1>4 DEF IInv

LEMMA NextIInv == IInv /\ [Next]_vars => IInv'
<1> SUFFICES ASSUME IInv, [Next]_vars PROVE IInv'
  OBVIOUS
<1>1. CASE clear
  BY <1>1, ClearStep
<1>2. CASE d.kind = "eq" /\ EqSetter
  <2>1. d \in EqDesc
    BY <1>2 DEF IInv, Types, PullDesc, ReleaseDesc
  <2> QED
    BY <1>2, <2>1, EqSetterStep
<1>3. CASE d.kind = "pull" /\ PullSetter
  <2>1. d \in PullDesc
    BY <1>3 DEF IInv, Types, EqDesc, ReleaseDesc
  <2> QED
    BY <1>3, <2>1, PullSetterStep
<1>4. CASE d.kind = "release" /\ ReleaseSetter
  <2>1. d \in ReleaseDesc
    BY <1>4 DEF IInv, Types, EqDesc, PullDesc
  <2> QED
    BY <1>4, <2>1, ReleaseSetterStep
<1>5. CASE UNCHANGED vars
  <2>1. d' = d /\ meant' = meant /\ asked' = asked
    BY <1>5 DEF vars
  <2>2. (Types /\ Groups /\ Faithful)'
    BY <2>1 DEF IInv, Types, Groups, Faithful
  <2>3. Asked'
    BY <2>1 DEF IInv, Asked
  <2> QED
    BY <2>2, <2>3 DEF IInv
<1> QED
  BY <1>1, <1>2, <1>3, <1>4, <1>5 DEF Next

LEMMA Inductive == Spec => []IInv
BY InitIInv, NextIInv, PTL DEF Spec

\* The setters of qbman_portal.c leave only bits of their own fields behind, and
\* none of those that the driver fills in when it issues the command.
THEOREM TypeCorrect == Spec => []TypeOK
<1>1. IInv => TypeOK
  BY DEF IInv, Types, TypeOK, EqDesc, PullDesc, ReleaseDesc
<1> QED
  BY <1>1, Inductive, PTL

\* In every group of settings QMan reads what the caller of the setters set there
\* last, in whatever order they were called; in the actions, if the caller asked
\* for one of those that only add bits since the last clear.
THEOREM ReadAsSet == Spec => []Faithful
<1>1. IInv => Faithful
  BY DEF IInv
<1> QED
  BY <1>1, Inductive, PTL
=============================================================================
