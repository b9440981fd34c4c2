-------------------------------- MODULE Dqrr --------------------------------
(***************************************************************************)
(* The dequeue response ring (DQRR) of a software portal: QMan fills it,   *)
(* qbman_swp_dqrr_next hands its entries to the caller in order, and the   *)
(* caller consumes them in any order (qbman_swp_dqrr_consume).             *)
(*                                                                         *)
(* A valid bit that flips at each turn of the ring tells a new entry from  *)
(* an old one.  Before QMan 4.1 a reset does not clear the valid bits, so  *)
(* during the first turn the driver also looks at QMan's producer index.   *)
(*                                                                         *)
(* Frames of channels, frames of a pull command and notifications share    *)
(* the ring.  The last frame of a pull gives vdq.busy back, which lets the *)
(* next qbman_swp_pull through (module Vdq has that in detail).            *)
(***************************************************************************)
EXTENDS Results, FiniteSets

CONSTANTS
  OldSize,     \* ring size before QMan 4.1: 4
  NewSize,     \* ring size since QMan 4.1: 8
  MaxEntries,  \* entries produced in all; bounds the model
  Contents     \* entry number -> code of its verb, and its flags

\* QMan writes results of the kinds that the driver has predicates for.
ASSUME DqrrAssumption ==
  /\ OldSize \in 1..NewSize /\ NewSize \in 1..8
  /\ MaxEntries \in Nat
  /\ Contents \in [1..MaxEntries ->
        [verb : {QBMAN_RESULT[x] : x \in DOMAIN QBMAN_RESULT}, stat : 0..255]]

VARIABLES
  desc,       \* portal descriptor: QMan revision and access mode
  next_idx, valid_bit, reset_bug,  \* struct qbman_swp, member dqrr
  busy,       \* vdq.busy
  pulls,      \* pull commands with DQRR as their target so far (history)
  ring,       \* the entries in memory: verb, flags and number of each
  free,       \* slots that QMan may fill
  hw_pi,      \* QMan's producer index, over twice the ring size
  pi_reg,     \* the DQPI register, at times behind hw_pi
  held,       \* entries the caller has got and not yet consumed
  produced,   \* entries QMan has written so far (history)
  returned,   \* entries dqrr_next has returned so far (history)
  got         \* the entry it returned last, or Blank (history)

driver == <<next_idx, valid_bit, reset_bug, busy, pulls>>
hw     == <<ring, hw_pi, produced>>
vars   == <<desc, driver, hw, free, pi_reg, held, returned, got>>

-----------------------------------------------------------------------------
(* Broken variants of definitions (names with an underscore) stand before them. *)

Descs == {"rev4000", "rev4100", "mem_back"}

\* dqrr.dqrr_size; it is also the fill limit written to SWP_CFG.
dqrr_size == IF desc = "rev4000" THEN OldSize ELSE NewSize
Slots == 0 .. dqrr_size - 1

\* The addresses of slot i in the portal's window, in direct and in memory-
\* backed mode, and the inverse of the former.
SWP_DQRR(i) == 512 + 64 * i
SWP_DQRR_MEM(i) == 2048 + 64 * i
IDX_FROM_DQRR_SmallMask(p) == (p % 256) \div 64
IDX_FROM_DQRR(p) == (p % 512) \div 64
AddressOf(i) == IF desc = "mem_back" THEN SWP_DQRR_MEM(i) ELSE SWP_DQRR(i)

Blank == [verb |-> 0, stat |-> 0, id |-> 0]

\* The entry is the last frame of a pull command.
EndsPull(e) ==
  result_is(e.verb, "DQ") /\ DQ_is_pull(e.stat) /\ DQ_is_pull_complete(e.stat)

\* qbman_swp_init found DQPI at zero.  Valid bits are left over from before the
\* reset where QMan has the reset bug.
Init ==
  /\ desc \in Descs
  /\ next_idx = 0 /\ valid_bit = 1 /\ busy = 1 /\ pulls = 0
  /\ reset_bug = (desc = "rev4000")
  /\ \E old \in [Slots -> IF reset_bug THEN {0, 1} ELSE {0}] :
       ring = [s \in Slots |-> [Blank EXCEPT !.verb = QB_VALID_BIT * old[s]]]
  /\ free = Slots /\ hw_pi = 0 /\ pi_reg = 0
  /\ held = {} /\ produced = 0 /\ returned = 0 /\ got = Blank

-----------------------------------------------------------------------------
(* qbman_swp_dqrr_next. *)

\* What the workaround lets pass: a slot that QMan has filled.
PastResetBug == reset_bug => pi_reg # next_idx

ClearResetBug_ByPi == reset_bug /\ pi_reg # dqrr_size - 1
ClearResetBug == reset_bug /\ next_idx # dqrr_size - 1

AdvanceNextIdx_KeepBit ==
  /\ next_idx' = IF next_idx + 1 = dqrr_size THEN 0 ELSE next_idx + 1
  /\ UNCHANGED valid_bit

AdvanceNextIdx_NoWrap ==
  /\ next_idx' = next_idx + 1
  /\ valid_bit' = IF next_idx' = dqrr_size THEN 1 - valid_bit ELSE valid_bit

AdvanceNextIdx ==
  IF next_idx + 1 = dqrr_size
    THEN next_idx' = 0 /\ valid_bit' = 1 - valid_bit
    ELSE next_idx' = next_idx + 1 /\ UNCHANGED valid_bit

ReleaseVdq_ByFlags(e) ==
  busy' = IF DQ_is_pull(e.stat) /\ DQ_is_pull_complete(e.stat) THEN busy + 1 ELSE busy

\* atomic_inc(&vdq.busy) on the final response to a volatile dequeue.
ReleaseVdq(e) == busy' = IF EndsPull(e) THEN busy + 1 ELSE busy

dqrr_next ==
  LET e == ring[next_idx]
  IN /\ PastResetBug
     /\ reset_bug' = ClearResetBug
     /\ IF Bit(e.verb, 7) # valid_bit
          THEN UNCHANGED <<next_idx, valid_bit, busy, held, returned, got>>
          ELSE /\ AdvanceNextIdx
               /\ ReleaseVdq(e)
               /\ held' = held \cup {[p |-> AddressOf(next_idx), id |-> e.id]}
               /\ returned' = returned + 1
               /\ got' = e
     /\ UNCHANGED <<desc, pulls, hw, free, pi_reg>>

\* qbman_swp_pull into DQRR is granted.
pull ==
  /\ busy = 1
  /\ busy' = 0
  /\ pulls' = pulls + 1
  /\ UNCHANGED <<desc, next_idx, valid_bit, reset_bug, hw, free, pi_reg, held, returned, got>>

\* qbman_swp_dqrr_consume and _idx_consume: QMan may fill the slot again.
dqrr_consume(h) ==
  /\ h \in held
  /\ held' = held \ {h}
  /\ free' = free \cup {IDX_FROM_DQRR(h.p)}
  /\ UNCHANGED <<desc, driver, hw, pi_reg, returned, got>>

\* qbman_get_dqrr_from_idx: the entry that it reads.  It reads the window of the
\* direct mode in both modes; in memory-backed mode that window stays blank.
dqrr_from_idx(i) == IF desc = "mem_back" THEN Blank ELSE ring[i]

-----------------------------------------------------------------------------
(* QMan. *)

\* What QMan writes has its valid bit: 1 in the first turn of the ring, then 0, ...
Entry(id) ==
  [verb |-> Contents[id].verb + (IF hw_pi < dqrr_size THEN QB_VALID_BIT ELSE 0),
   stat |-> Contents[id].stat, id |-> id]

\* Pull commands whose last frame is among the first n entries.
Ended(n) == Cardinality({id \in 1..n : EndsPull(Entry(id))})

\* A frame of a pull comes only when one was issued and has not ended.
Fill ==
  LET slot == hw_pi % dqrr_size
      e    == Entry(produced + 1)
  IN /\ slot \in free /\ produced < MaxEntries
     /\ result_is(e.verb, "DQ") /\ DQ_is_pull(e.stat) => pulls > Ended(produced)
     /\ ring' = [ring EXCEPT ![slot] = e]
     /\ free' = free \ {slot}
     /\ hw_pi' = (hw_pi + 1) % (2 * dqrr_size)
     /\ produced' = produced + 1
     /\ UNCHANGED <<desc, driver, pi_reg, held, returned, got>>

\* The register follows when the entries are in memory.
PublishPi ==
  /\ pi_reg # hw_pi
  /\ pi_reg' = hw_pi
  /\ UNCHANGED <<desc, driver, hw, free, held, returned, got>>

-----------------------------------------------------------------------------
Next == \/ dqrr_next \/ pull
        \/ \E h \in held : dqrr_consume(h)
        \/ Fill \/ PublishPi

Spec == Init /\ [][Next]_vars

\* The caller polls the ring, and the register follows the ring.
FairSpec == Spec /\ WF_vars(dqrr_next) /\ WF_vars(PublishPi)

-----------------------------------------------------------------------------
(* Properties. *)

\* The type invariant.
TypeOK ==
  /\ desc \in Descs
  /\ next_idx \in Slots /\ valid_bit \in {0, 1} /\ reset_bug \in BOOLEAN
  /\ busy \in Int /\ pulls \in Nat
  /\ ring \in [Slots -> [verb : 0..255, stat : 0..255, id : Nat]]
  /\ free \subseteq Slots
  /\ hw_pi \in 0 .. 2 * dqrr_size - 1 /\ pi_reg \in 0 .. 2 * dqrr_size - 1
  /\ held \subseteq [p : {AddressOf(i) : i \in Slots}, id : Nat]
  /\ produced \in Nat /\ returned \in Nat
  /\ got \in [verb : 0..255, stat : 0..255, id : Nat]

\* The n-th entry returned is the n-th that QMan produced: no stale entry is
\* taken for a new one, after a reset or a turn of the ring, and none is
\* returned twice or skipped; and the caller recognises it as what it is.
InOrder ==
  returned > 0 => /\ got.id = returned
                  /\ Recognised(got.verb) = Recognised(Contents[returned].verb)
                  /\ Cardinality(Recognised(got.verb)) = 1

\* portal.h: "busy" is "whether or not a command can be submitted".  It is 1, less
\* one while a pull waits for its last frame to be returned, whatever frames of
\* channels and notifications are in between.
VdqGivenBack == busy = 1 - (pulls - Ended(returned))

\* "without requiring they be consumed immediately or in any particular order":
\* an entry the caller holds stays in its slot until the caller consumes it, and
\* in direct mode qbman_get_dqrr_from_idx finds it there (not in memory-backed
\* mode, where it reads the other window).
HeldIntact ==
  \A h \in held : /\ ring[IDX_FROM_DQRR(h.p)].id = h.id
                  /\ IDX_FROM_DQRR(h.p) \notin free
                  /\ desc # "mem_back" => dqrr_from_idx(IDX_FROM_DQRR(h.p)).id = h.id

\* No slot of the ring is lost: each is free, holds an entry not yet returned,
\* or one that the caller holds.
SlotsAccounted ==
  Cardinality(free) + Cardinality(held) + (produced - returned) = dqrr_size

\* The ring keeps the promise of the bounded queue, and with a caller that
\* polls every entry is returned.
Fifo == INSTANCE BoundedFifo WITH
          Capacity <- NewSize, MaxFrames <- MaxEntries,
          accepted <- produced, executed <- returned, got <- got.id
FifoSpec == Fifo!FairSpec
=============================================================================
