----------------------------- MODULE DqrrProofs -----------------------------
(***************************************************************************)
(* Proofs about Dqrr, for every ring size, with and without the reset bug, *)
(* in both modes, and for any sequence of entries that QMan writes.        *)
(*                                                                         *)
(* The inductive invariant IInv looks at the ring from the driver's index  *)
(* on: the d-th slot ahead of next_idx has the entry returned + 1 + d if   *)
(* QMan has written it, and else, the first turn after a reset with the    *)
(* bug apart, not the valid bit that the driver will look for there        *)
(* (Window).  During that turn the index register lies between the         *)
(* driver's index and the entries written (ResetTurn).                     *)
(***************************************************************************)
EXTENDS Dqrr, FiniteSetTheorems, TLAPS

\* Entries that QMan has written and dqrr_next not yet returned.
Waiting == produced - returned

\* The d-th slot from the driver's index on, and the valid bit of its next entry.
SlotAt(d) == IF next_idx + d < dqrr_size THEN next_idx + d
                                         ELSE next_idx + d - dqrr_size
BitAt(d) == IF next_idx + d < dqrr_size THEN valid_bit ELSE 1 - valid_bit

\* An entry as QMan writes it.
Written(id, bit) ==
  [verb |-> Contents[id].verb + QB_VALID_BIT * bit, stat |-> Contents[id].stat,
   id |-> id]

\* The entries among the first n that end a pull command.
Ends(id) == /\ Contents[id].verb = QBMAN_RESULT["DQ"]
            /\ DQ_is_pull(Contents[id].stat) /\ DQ_is_pull_complete(Contents[id].stat)
EndedIds(n) == {id \in 1..n : Ends(id)}

Place ==
  /\ Waiting \in 0..dqrr_size /\ produced <= MaxEntries
  /\ hw_pi = SlotAt(Waiting) + (IF BitAt(Waiting) = 1 THEN 0 ELSE dqrr_size)

ResetTurn ==
  reset_bug => /\ valid_bit = 1 /\ next_idx = returned
               /\ next_idx <= pi_reg /\ pi_reg <= produced

Window ==
  \A d \in 0..dqrr_size - 1 :
    /\ d < Waiting => /\ ring[SlotAt(d)] = Written(returned + 1 + d, BitAt(d))
                      /\ SlotAt(d) \notin free
    /\ d >= Waiting /\ ~(reset_bug /\ next_idx + d < dqrr_size)
         => Bit(ring[SlotAt(d)].verb, 7) # BitAt(d)

\* Entries held are in slots of their own, and not among those waiting.
HeldApart ==
  /\ IsFiniteSet(held)
  /\ \A h \in held : \A d \in 0..dqrr_size - 1 :
       d < Waiting => IDX_FROM_DQRR(h.p) # SlotAt(d)
  /\ \A g, h \in held : IDX_FROM_DQRR(g.p) = IDX_FROM_DQRR(h.p) => g = h

LastGot ==
  /\ got.id = returned
  /\ returned > 0 => \E bit \in {0, 1} : got = Written(returned, bit)

\* VdqGivenBack without the valid bits.
BusyCounted == busy = 1 - (pulls - Cardinality(EndedIds(returned)))

Ring == Place /\ ResetTurn /\ Window
Held == HeldApart /\ HeldIntact

IInv == TypeOK /\ Ring /\ LastGot /\ Held /\ SlotsAccounted /\ BusyCounted

-----------------------------------------------------------------------------
\* The ring has one to eight slots, and its size does not change.
LEMMA Size ==
  /\ dqrr_size \in 1..8 /\ dqrr_size <= NewSize
  /\ desc' = desc => dqrr_size' = dqrr_size /\ Slots' = Slots
BY DqrrAssumption DEF dqrr_size, Slots

\* The valid bit is bit 7 of the verb and is no part of the code.
LEMMA VerbFacts ==
  ASSUME NEW v \in 0..127
  PROVE  /\ ResponseVerb(v) = v /\ ResponseVerb(v + 128) = v
         /\ Bit(v, 7) = 0 /\ Bit(v + 128, 7) = 1
<1>1. 2^7 = 128
  OBVIOUS
<1> QED
  BY <1>1 DEF ResponseVerb, Bit, QB_VALID_BIT

\* The codes of results are apart and leave the valid bit alone.
LEMMA ContentsType ==
  ASSUME NEW id \in 1..MaxEntries
  PROVE  /\ Contents[id].verb \in 0..127 /\ Contents[id].stat \in 0..255
         /\ \E x \in DOMAIN QBMAN_RESULT : Contents[id].verb = QBMAN_RESULT[x]
<1>1. /\ Contents[id].stat \in 0..255
      /\ \E x \in DOMAIN QBMAN_RESULT : Contents[id].verb = QBMAN_RESULT[x]
  BY DqrrAssumption
<1>2. \A x \in DOMAIN QBMAN_RESULT : QBMAN_RESULT[x] \in 0..127
  BY DEF QBMAN_RESULT
<1> QED
  BY <1>1, <1>2

\* What QMan writes: the entry with the code and the bit, found again in it.
LEMMA WrittenFacts ==
  ASSUME NEW id \in 1..MaxEntries, NEW bit \in {0, 1}
  PROVE  /\ Written(id, bit) \in [verb : 0..255, stat : 0..255, id : Nat]
         /\ Written(id, bit).id = id
         /\ Written(id, bit).stat = Contents[id].stat
         /\ ResponseVerb(Written(id, bit).verb) = Contents[id].verb
         /\ Bit(Written(id, bit).verb, 7) = bit
         /\ EndsPull(Written(id, bit)) <=> Ends(id)
<1>1. Contents[id].verb \in 0..127 /\ Contents[id].stat \in 0..255
  BY ContentsType
<1>2. /\ Written(id, bit).verb = Contents[id].verb + 128 * bit
      /\ Written(id, bit).stat = Contents[id].stat /\ Written(id, bit).id = id
  BY DEF Written, QB_VALID_BIT
<1>3. /\ ResponseVerb(Written(id, bit).verb) = Contents[id].verb
      /\ Bit(Written(id, bit).verb, 7) = bit
  <2>1. CASE bit = 0
    BY <1>1, <1>2, <2>1, VerbFacts
  <2>2. CASE bit = 1
    BY <1>1, <1>2, <2>2, VerbFacts
  <2> QED
    BY <2>1, <2>2
<1>4. Written(id, bit) \in [verb : 0..255, stat : 0..255, id : Nat]
  <2>1. Contents[id].verb + QB_VALID_BIT * bit \in 0..255
    BY <1>1 DEF QB_VALID_BIT
  <2> QED
    BY <1>1, <2>1 DEF Written
<1>5. EndsPull(Written(id, bit)) <=> Ends(id)
  BY <1>2, <1>3 DEF EndsPull, Ends, result_is
<1> QED
  BY <1>2, <1>3, <1>4, <1>5

\* The entry that QMan writes next, and its valid bit.
LEMMA EntryIsWritten ==
  ASSUME NEW id \in 1..MaxEntries
  PROVE  Entry(id) = Written(id, IF hw_pi < dqrr_size THEN 1 ELSE 0)
<1>1. CASE hw_pi < dqrr_size
  BY <1>1 DEF Entry, Written, QB_VALID_BIT
<1>2. CASE ~(hw_pi < dqrr_size)
  BY <1>2 DEF Entry, Written, QB_VALID_BIT
<1> QED
  BY <1>1, <1>2

\* Which entries end a pull does not depend on the turn of the ring.
LEMMA EndedIs ==
  ASSUME NEW n \in 0..MaxEntries
  PROVE  /\ Ended(n) = Cardinality(EndedIds(n))
         /\ IsFiniteSet(EndedIds(n)) /\ Cardinality(EndedIds(n)) \in Nat
<1>1. \A id \in 1..n : id \in 1..MaxEntries
  BY DqrrAssumption
<1>2. \A id \in 1..n : EndsPull(Entry(id)) <=> Ends(id)
  BY <1>1, EntryIsWritten, WrittenFacts
<1>3. {id \in 1..n : EndsPull(Entry(id))} = EndedIds(n)
  BY <1>2 DEF EndedIds
<1>4. IsFiniteSet(EndedIds(n))
  BY FS_Interval, FS_Subset DEF EndedIds
<1> QED
  BY <1>3, <1>4, FS_CardinalityType DEF Ended

\* One more entry ends one more pull, or none.
LEMMA EndedNext ==
  ASSUME NEW n \in 0..MaxEntries - 1
  PROVE  Cardinality(EndedIds(n + 1))
           = Cardinality(EndedIds(n)) + (IF Ends(n + 1) THEN 1 ELSE 0)
<1>1. n \in 0..MaxEntries /\ n + 1 \notin EndedIds(n)
  BY DqrrAssumption DEF EndedIds
<1>2. CASE Ends(n + 1)
  <2>1. EndedIds(n + 1) = EndedIds(n) \cup {n + 1}
    BY <1>2 DEF EndedIds
  <2> QED
    BY <1>1, <1>2, <2>1, EndedIs, FS_AddElement
<1>3. CASE ~Ends(n + 1)
  <2>1. EndedIds(n + 1) = EndedIds(n)
    BY <1>3 DEF EndedIds
  <2> QED
    BY <1>1, <1>3, <2>1, EndedIs
<1> QED
  BY <1>2, <1>3

-----------------------------------------------------------------------------
\* The slots from the driver's index on: all of the ring, each once.
LEMMA SlotFacts ==
  ASSUME next_idx \in Slots, valid_bit \in {0, 1}
  PROVE  /\ \A d \in 0..dqrr_size : SlotAt(d) \in Slots /\ BitAt(d) \in {0, 1}
         /\ \A d, e \in 0..dqrr_size - 1 : SlotAt(d) = SlotAt(e) => d = e
         /\ SlotAt(0) = next_idx /\ BitAt(0) = valid_bit
         /\ SlotAt(dqrr_size) = next_idx /\ BitAt(dqrr_size) = 1 - valid_bit
BY Size DEF SlotAt, BitAt, Slots

\* When the driver advances, each slot ahead is one less ahead.
LEMMA Shift ==
  ASSUME next_idx \in Slots, valid_bit \in {0, 1}, AdvanceNextIdx, desc' = desc
  PROVE  /\ next_idx' \in Slots /\ valid_bit' \in {0, 1}
         /\ \A d \in 0..dqrr_size - 1 : SlotAt(d)' = SlotAt(d + 1)
                                        /\ BitAt(d)' = BitAt(d + 1)
BY Size DEF SlotAt, BitAt, Slots, AdvanceNextIdx

\* The slot of an address in the ring's window, in either mode.
LEMMA IndexOfAddress ==
  ASSUME NEW i \in Slots
  PROVE  IDX_FROM_DQRR(AddressOf(i)) = i
<1>1. i \in 0..7
  BY Size DEF Slots
<1>2. (512 + 64 * i) % 512 = 64 * i /\ (2048 + 64 * i) % 512 = 64 * i
  BY <1>1
<1>3. (64 * i) \div 64 = i
  BY <1>1
<1> QED
  BY <1>2, <1>3 DEF IDX_FROM_DQRR, AddressOf, SWP_DQRR, SWP_DQRR_MEM

-----------------------------------------------------------------------------
\* The parts of the invariant that the steps look at.
LEMMA Basics ==
  ASSUME IInv
  PROVE  /\ next_idx \in Slots /\ valid_bit \in {0, 1} /\ reset_bug \in BOOLEAN
         /\ produced \in Nat /\ returned \in Nat /\ produced <= MaxEntries
         /\ Waiting = produced - returned /\ Waiting \in 0..dqrr_size
         /\ returned \in 0..MaxEntries /\ MaxEntries \in Nat
         /\ IsFiniteSet(free) /\ Cardinality(free) \in Nat
         /\ IsFiniteSet(held) /\ Cardinality(held) \in Nat
         /\ busy \in Int /\ pulls \in Nat
<1>1. IsFiniteSet(Slots)
  BY FS_Interval, Size DEF Slots
<1>2. IsFiniteSet(free) /\ Cardinality(free) \in Nat
  BY <1>1, FS_Subset, FS_CardinalityType DEF IInv, TypeOK
<1>3. IsFiniteSet(held) /\ Cardinality(held) \in Nat
  BY FS_CardinalityType DEF IInv, Held, HeldApart
<1>4. /\ produced \in Nat /\ returned \in Nat /\ produced <= MaxEntries
      /\ Waiting = produced - returned /\ Waiting \in 0..dqrr_size
  BY DEF IInv, TypeOK, Ring, Place, Waiting
<1> QED
  BY <1>2, <1>3, <1>4, Size, DqrrAssumption DEF IInv, TypeOK

\* The caller's entries: slots of the ring, not free, none waiting.
LEMMA HeldFacts ==
  ASSUME IInv, NEW h \in held
  PROVE  /\ h \in [p : {AddressOf(i) : i \in Slots}, id : Nat]
         /\ IDX_FROM_DQRR(h.p) \in Slots /\ IDX_FROM_DQRR(h.p) \notin free
         /\ ring[IDX_FROM_DQRR(h.p)].id = h.id
<1>1. PICK i \in Slots : h.p = AddressOf(i)
  BY DEF IInv, TypeOK
<1>2. IDX_FROM_DQRR(h.p) \in Slots
  BY <1>1, IndexOfAddress
<1> QED
  BY <1>2 DEF IInv, TypeOK, Held, HeldIntact

\* HeldIntact is about the entries' slots alone.
LEMMA HeldIntactIs ==
  HeldIntact <=> \A h \in held : /\ ring[IDX_FROM_DQRR(h.p)].id = h.id
                                 /\ IDX_FROM_DQRR(h.p) \notin free
BY DEF HeldIntact, dqrr_from_idx

-----------------------------------------------------------------------------
\* The invariant is about the variables alone.
LEMMA StutterIInv ==
  ASSUME IInv, UNCHANGED vars
  PROVE  IInv'
<1>1. dqrr_size' = dqrr_size /\ Slots' = Slots
  BY Size DEF vars
<1>2. TypeOK' /\ LastGot'
  BY <1>1 DEF IInv, vars, driver, hw, TypeOK, AddressOf, LastGot
<1>3. Ring'
  BY <1>1 DEF IInv, vars, driver, hw, Ring, Place, ResetTurn, Window, Waiting,
              SlotAt, BitAt
<1>4. Held'
  BY <1>1 DEF IInv, vars, driver, hw, Held, HeldApart, HeldIntact, dqrr_from_idx,
              Waiting, SlotAt
<1>5. SlotsAccounted' /\ BusyCounted'
  BY <1>1 DEF IInv, vars, driver, hw, SlotsAccounted, BusyCounted, EndedIds, Ends
<1> QED
  BY <1>2, <1>3, <1>4, <1>5 DEF IInv

\* The invariant holds at the start.
LEMMA InitIInv == Init => IInv
<1> SUFFICES ASSUME Init PROVE IInv
  OBVIOUS
<1>1. PICK old \in [Slots -> IF reset_bug THEN {0, 1} ELSE {0}] :
        ring = [s \in Slots |-> [Blank EXCEPT !.verb = QB_VALID_BIT * old[s]]]
  BY DEF Init
<1>2. \A s \in Slots : ring[s] = [verb |-> 128 * old[s], stat |-> 0, id |-> 0]
  BY <1>1 DEF Blank, QB_VALID_BIT
<1>3. /\ next_idx = 0 /\ valid_bit = 1 /\ hw_pi = 0 /\ pi_reg = 0
      /\ produced = 0 /\ returned = 0 /\ held = {} /\ free = Slots
      /\ busy = 1 /\ pulls = 0 /\ desc \in Descs /\ got = Blank
      /\ reset_bug \in BOOLEAN
  BY DEF Init
<1>4. dqrr_size \in 1..8 /\ 0 \in Slots /\ MaxEntries \in Nat
  BY Size, DqrrAssumption DEF Slots
<1>5. \A s \in Slots : old[s] \in {0, 1}
  BY <1>1
<1>6. ring \in [Slots -> [verb : 0..255, stat : 0..255, id : Nat]]
  <2>1. \A s \in Slots : ring[s] \in [verb : 0..255, stat : 0..255, id : Nat]
    <3> SUFFICES ASSUME NEW s \in Slots
                 PROVE  ring[s] \in [verb : 0..255, stat : 0..255, id : Nat]
      OBVIOUS
    <3>1. PICK v \in 0..255 : v = 128 * old[s]
      BY <1>5
    <3>2. ring[s] = [verb |-> v, stat |-> 0, id |-> 0]
      BY <1>2, <3>1, Zenon
    <3> QED
      BY <3>2
  <2> QED
    BY <1>1, <2>1, ZenonT(60)
<1>7. TypeOK
  BY <1>3, <1>4, <1>6 DEF TypeOK, Blank
<1>8. Waiting = 0
  BY <1>3 DEF Waiting
<1>9. Place
  BY <1>3, <1>4, <1>8 DEF Place, SlotAt, BitAt
<1>10. ResetTurn
  BY <1>3 DEF ResetTurn
<1>11. Window
  <2> SUFFICES ASSUME NEW d \in 0..dqrr_size - 1, ~reset_bug
               PROVE  Bit(ring[SlotAt(d)].verb, 7) # BitAt(d)
    BY <1>3, <1>4, <1>8 DEF Window
  <2>1. SlotAt(d) = d /\ d \in Slots /\ BitAt(d) = 1
    BY <1>3, <1>4 DEF SlotAt, BitAt, Slots
  <2>2. old[d] = 0
    BY <1>1, <2>1
  <2>3. ring[d].verb = 0
    <3>1. ring[d] = [verb |-> 128 * 0, stat |-> 0, id |-> 0]
      BY <1>2, <2>1, <2>2, Zenon
    <3> QED
      BY <3>1
  <2> QED
    BY <2>1, <2>3, VerbFacts
<1>12. LastGot
  BY <1>3 DEF LastGot, Blank
<1>13. Held
  BY <1>3, FS_EmptySet DEF Held, HeldApart, HeldIntact
<1>14. SlotsAccounted
  <2>1. Cardinality(Slots) = dqrr_size
    BY <1>4, FS_Interval DEF Slots
  <2> QED
    BY <1>3, <1>4, <2>1, FS_EmptySet DEF SlotsAccounted
<1>15. BusyCounted
  <2>1. EndedIds(0) = {}
    BY DEF EndedIds
  <2> QED
    BY <1>3, <2>1, FS_EmptySet DEF BusyCounted
<1> QED
  BY <1>7, <1>9, <1>10, <1>11, <1>12, <1>13, <1>14, <1>15 DEF IInv, Ring

-----------------------------------------------------------------------------
\* Past the workaround for the reset bug, the valid bit at the driver's index
\* tells whether an entry waits, and the entry is the next one.
LEMMA NextFinds ==
  ASSUME IInv, PastResetBug
  PROVE  /\ Bit(ring[next_idx].verb, 7) = valid_bit <=> Waiting > 0
         /\ Waiting > 0 => /\ ring[next_idx] = Written(returned + 1, valid_bit)
                           /\ returned + 1 \in 1..MaxEntries
                           /\ next_idx \notin free
         /\ reset_bug => Waiting > 0
<1>1. SlotAt(0) = next_idx /\ BitAt(0) = valid_bit
  BY Basics, SlotFacts
<1>2. 0 \in 0..dqrr_size - 1
  BY Size
<1>3. ASSUME Waiting > 0
      PROVE  /\ ring[next_idx] = Written(returned + 1, valid_bit)
             /\ next_idx \notin free
             /\ returned + 1 \in 1..MaxEntries
  <2>1. /\ ring[next_idx] = Written(returned + 1 + 0, valid_bit)
        /\ next_idx \notin free
    BY <1>1, <1>2, <1>3 DEF IInv, Ring, Window
  <2> QED
    BY <1>3, <2>1, Basics
<1>4. reset_bug => Waiting > 0
  <2> SUFFICES ASSUME reset_bug PROVE Waiting > 0
    OBVIOUS
  <2>1. pi_reg # next_idx /\ pi_reg \in Int
    BY Size DEF PastResetBug, IInv, TypeOK
  <2>2. next_idx = returned /\ next_idx <= pi_reg /\ pi_reg <= produced
    BY DEF IInv, Ring, ResetTurn
  <2> QED
    BY <2>1, <2>2, Basics
<1>5. Waiting > 0 => Bit(ring[next_idx].verb, 7) = valid_bit
  BY <1>3, WrittenFacts, Basics
<1>6. ~(Waiting > 0) => Bit(ring[next_idx].verb, 7) # valid_bit
  <2> SUFFICES ASSUME ~(Waiting > 0) PROVE Bit(ring[next_idx].verb, 7) # valid_bit
    OBVIOUS
  <2>1. ~reset_bug /\ 0 >= Waiting
    BY <1>4, Basics, Size
  <2> QED
    BY <1>1, <1>2, <2>1 DEF IInv, Ring, Window
<1> QED
  BY <1>3, <1>4, <1>5, <1>6

\* dqrr_next finds no entry: nothing changes.
LEMMA NextFindsNone ==
  ASSUME IInv, dqrr_next, Bit(ring[next_idx].verb, 7) # valid_bit
  PROVE  UNCHANGED vars
<1>1. /\ PastResetBug /\ reset_bug' = ClearResetBug
      /\ UNCHANGED <<next_idx, valid_bit, busy, held, returned, got>>
      /\ UNCHANGED <<desc, pulls, hw, free, pi_reg>>
  BY DEF dqrr_next
<1>2. ~reset_bug
  BY <1>1, NextFinds
<1>3. reset_bug' = reset_bug
  BY <1>1, <1>2, Basics DEF ClearResetBug
<1> QED
  BY <1>1, <1>3 DEF vars, driver

\* dqrr_next finds an entry: the next one, which the caller then holds.
LEMMA NextReturns ==
  ASSUME IInv, dqrr_next, Bit(ring[next_idx].verb, 7) = valid_bit
  PROVE  /\ Waiting > 0 /\ PastResetBug /\ reset_bug' = ClearResetBug
         /\ ring[next_idx] = Written(returned + 1, valid_bit)
         /\ returned + 1 \in 1..MaxEntries /\ next_idx \notin free
         /\ AdvanceNextIdx /\ ReleaseVdq(ring[next_idx])
         /\ held' = held \cup {[p |-> AddressOf(next_idx), id |-> returned + 1]}
         /\ returned' = returned + 1 /\ got' = ring[next_idx]
         /\ UNCHANGED <<desc, pulls, ring, hw_pi, produced, free, pi_reg>>
<1>1. /\ PastResetBug /\ reset_bug' = ClearResetBug
      /\ AdvanceNextIdx /\ ReleaseVdq(ring[next_idx])
      /\ held' = held \cup {[p |-> AddressOf(next_idx), id |-> ring[next_idx].id]}
      /\ returned' = returned + 1 /\ got' = ring[next_idx]
      /\ UNCHANGED <<desc, pulls, ring, hw_pi, produced, free, pi_reg>>
  BY DEF dqrr_next, hw
<1>2. /\ Waiting > 0 /\ ring[next_idx] = Written(returned + 1, valid_bit)
      /\ returned + 1 \in 1..MaxEntries /\ next_idx \notin free
  BY <1>1, NextFinds
<1>3. ring[next_idx].id = returned + 1
  BY <1>2, WrittenFacts, Basics
<1> QED
  BY <1>1, <1>2, <1>3

\* The ring after an entry was returned.
LEMMA NextRing ==
  ASSUME IInv, dqrr_next, Bit(ring[next_idx].verb, 7) = valid_bit
  PROVE  Ring'
<1>1. /\ Waiting > 0 /\ PastResetBug /\ reset_bug' = ClearResetBug
      /\ ring[next_idx] = Written(returned + 1, valid_bit)
      /\ returned + 1 \in 1..MaxEntries
      /\ AdvanceNextIdx /\ returned' = returned + 1
      /\ UNCHANGED <<desc, ring, hw_pi, produced, free, pi_reg>>
  BY NextReturns
<1>2. dqrr_size' = dqrr_size /\ dqrr_size \in 1..8
  BY <1>1, Size
<1>3. /\ next_idx' \in Slots /\ valid_bit' \in {0, 1}
      /\ \A d \in 0..dqrr_size - 1 : SlotAt(d)' = SlotAt(d + 1)
                                     /\ BitAt(d)' = BitAt(d + 1)
  BY <1>1, Basics, Shift
<1>4. Waiting' = Waiting - 1 /\ Waiting \in 1..dqrr_size
  BY <1>1, Basics DEF Waiting
<1>5. Place'
  <2>1. PICK w \in 0..dqrr_size - 1 : w = Waiting' /\ w + 1 = Waiting
    BY <1>4, Size
  <2>2. SlotAt(w)' = SlotAt(Waiting) /\ BitAt(w)' = BitAt(Waiting)
    BY <1>3, <2>1
  <2>3. SlotAt(Waiting)' = SlotAt(w)' /\ BitAt(Waiting)' = BitAt(w)'
    BY <2>1 DEF SlotAt, BitAt
  <2>4. Waiting' \in 0..dqrr_size'
    BY <1>2, <2>1
  <2> QED
    BY <1>1, <1>2, <2>2, <2>3, <2>4 DEF IInv, Ring, Place
<1>6. ResetTurn'
  <2> SUFFICES ASSUME reset_bug' PROVE ResetTurn!2'
    BY DEF ResetTurn
  <2>1. reset_bug /\ next_idx # dqrr_size - 1
    BY <1>1 DEF ClearResetBug
  <2>2. /\ valid_bit = 1 /\ next_idx = returned
        /\ next_idx <= pi_reg /\ pi_reg <= produced /\ pi_reg # next_idx
    BY <1>1, <2>1 DEF IInv, Ring, ResetTurn, PastResetBug
  <2>3. next_idx' = next_idx + 1 /\ valid_bit' = valid_bit
    BY <1>1, <1>2, <2>1, Basics DEF AdvanceNextIdx, Slots
  <2>4. pi_reg \in Int
    BY <1>2 DEF IInv, TypeOK
  <2> QED
    BY <1>1, <2>2, <2>3, <2>4, Basics
<1>7. Window'
  <2> SUFFICES ASSUME NEW d \in 0..dqrr_size - 1
               PROVE  Window!(d)'
    BY <1>2 DEF Window
  <2>1. SlotAt(d)' = SlotAt(d + 1) /\ BitAt(d)' = BitAt(d + 1)
    BY <1>3
  <2>2. CASE d < Waiting'
    <3>1. d + 1 \in 0..dqrr_size - 1 /\ d + 1 < Waiting
      BY <1>2, <1>4, <2>2
    <3>2. /\ ring[SlotAt(d + 1)] = Written(returned + 1 + (d + 1), BitAt(d + 1))
          /\ SlotAt(d + 1) \notin free
      BY <3>1 DEF IInv, Ring, Window
    <3>3. returned + 1 + (d + 1) = returned' + 1 + d
      BY <1>1, Basics
    <3> QED
      BY <1>1, <2>1, <2>2, <3>2, <3>3, <1>4
  <2>3. CASE d >= Waiting' /\ d + 1 < dqrr_size
    <3>1. d + 1 \in 0..dqrr_size - 1 /\ d + 1 >= Waiting
      BY <1>2, <1>4, <2>3
    <3>2. reset_bug /\ next_idx + (d + 1) < dqrr_size
            => reset_bug' /\ next_idx' + d < dqrr_size'
      <4> SUFFICES ASSUME reset_bug, next_idx + (d + 1) < dqrr_size
                   PROVE  reset_bug' /\ next_idx' + d < dqrr_size'
        OBVIOUS
      <4>1. next_idx \in Int /\ next_idx + 1 < dqrr_size
        BY <1>2, Basics DEF Slots
      <4>2. next_idx # dqrr_size - 1 /\ next_idx + 1 # dqrr_size
        BY <1>2, <4>1
      <4>3. next_idx' = next_idx + 1
        BY <1>1, <4>2 DEF AdvanceNextIdx
      <4>4. reset_bug'
        BY <1>1, <4>2 DEF ClearResetBug
      <4> QED
        BY <1>2, <4>1, <4>3, <4>4
    <3>3. ~(reset_bug' /\ next_idx' + d < dqrr_size')
            => Bit(ring[SlotAt(d + 1)].verb, 7) # BitAt(d + 1)
      BY <3>1, <3>2 DEF IInv, Ring, Window
    <3> QED
      BY <1>1, <1>4, <2>1, <2>3, <3>3
  <2>4. CASE d >= Waiting' /\ d + 1 = dqrr_size
    <3>1. SlotAt(d + 1) = next_idx /\ BitAt(d + 1) = 1 - valid_bit
      BY <2>4, Basics, SlotFacts
    <3>2. Bit(ring[next_idx].verb, 7) = valid_bit
      OBVIOUS
    <3>3. Bit(ring[SlotAt(d + 1)].verb, 7) # BitAt(d + 1)
      BY <3>1, <3>2, Basics
    <3> QED
      BY <1>1, <1>4, <2>1, <2>4, <3>3
  <2> QED
    BY <1>2, <1>4, <2>2, <2>3, <2>4
<1> QED
  BY <1>5, <1>6, <1>7 DEF Ring

\* An entry is returned.
LEMMA NextIInv ==
  ASSUME IInv, dqrr_next
  PROVE  IInv'
<1>1. CASE Bit(ring[next_idx].verb, 7) # valid_bit
  BY <1>1, NextFindsNone, StutterIInv
<1>2. CASE Bit(ring[next_idx].verb, 7) = valid_bit
  <2> DEFINE new == [p |-> AddressOf(next_idx), id |-> returned + 1]
  <2>1. /\ Waiting > 0 /\ reset_bug' = ClearResetBug
        /\ ring[next_idx] = Written(returned + 1, valid_bit)
        /\ returned + 1 \in 1..MaxEntries /\ next_idx \notin free
        /\ AdvanceNextIdx /\ ReleaseVdq(ring[next_idx])
        /\ held' = held \cup {new}
        /\ returned' = returned + 1 /\ got' = ring[next_idx]
        /\ UNCHANGED <<desc, pulls, ring, hw_pi, produced, free, pi_reg>>
    BY <1>2, NextReturns
  <2>2. dqrr_size' = dqrr_size /\ Slots' = Slots /\ dqrr_size \in 1..8
    BY <2>1, Size
  <2>3. /\ next_idx' \in Slots /\ valid_bit' \in {0, 1}
        /\ \A d \in 0..dqrr_size - 1 : SlotAt(d)' = SlotAt(d + 1)
                                       /\ BitAt(d)' = BitAt(d + 1)
    BY <2>1, Basics, Shift
  <2>4. /\ Written(returned + 1, valid_bit) \in [verb : 0..255, stat : 0..255, id : Nat]
        /\ Written(returned + 1, valid_bit).id = returned + 1
        /\ EndsPull(Written(returned + 1, valid_bit)) <=> Ends(returned + 1)
    BY <2>1, WrittenFacts, Basics
  <2>5. \A i \in Slots : AddressOf(i)' = AddressOf(i)
    BY <2>1 DEF AddressOf
  <2>6. /\ IDX_FROM_DQRR(new.p) = next_idx
        /\ new \in [p : {AddressOf(i) : i \in Slots}, id : Nat]
    BY IndexOfAddress, Basics
  <2> HIDE DEF new
  <2>7. new.id = returned + 1
    BY DEF new
  <2>8. /\ IF Ends(returned + 1) THEN busy' = busy + 1 ELSE busy' = busy
        /\ busy' \in Int
    BY <2>1, <2>4, Basics DEF ReleaseVdq
  <2>9. {AddressOf(i)' : i \in Slots'} = {AddressOf(i) : i \in Slots}
    BY <2>2, <2>5
  <2>10. TypeOK'
    <3>1. reset_bug' \in BOOLEAN
      BY <2>1 DEF ClearResetBug
    <3>2. held' \subseteq [p : {AddressOf(i)' : i \in Slots'}, id : Nat]
      BY <2>1, <2>6, <2>9, ZenonT(60) DEF IInv, TypeOK
    <3>3. returned' \in Nat /\ got' \in [verb : 0..255, stat : 0..255, id : Nat]
      BY <2>1, <2>4, Basics
    <3> QED
      BY <2>1, <2>2, <2>3, <2>8, <3>1, <3>2, <3>3 DEF IInv, TypeOK
  <2>11. LastGot'
    BY <2>1, <2>4, Basics DEF LastGot
  \* The slot returned waited, so the caller held no other entry in it.
  <2>12. \A h \in held : IDX_FROM_DQRR(h.p) # next_idx
    <3>1. 0 \in 0..dqrr_size - 1 /\ SlotAt(0) = next_idx
      BY <2>2, Basics, SlotFacts
    <3> QED
      BY <2>1, <3>1 DEF IInv, Held, HeldApart
  <2>13. HeldApart'
    <3>1. IsFiniteSet(held')
      BY <2>1, Basics, FS_AddElement
    <3>2. ASSUME NEW h \in held', NEW d \in 0..dqrr_size - 1, d < Waiting'
          PROVE  IDX_FROM_DQRR(h.p) # SlotAt(d)'
      <4>1. Waiting' = Waiting - 1 /\ Waiting \in 0..dqrr_size
        BY <2>1, Basics DEF Waiting
      <4>2. d + 1 \in 1..dqrr_size - 1 /\ d + 1 < Waiting /\ d \in Int
        BY <2>2, <3>2, <4>1
      <4>3. CASE h = new
        <5>1. SlotAt(0) = next_idx /\ SlotAt(d + 1) # SlotAt(0)
          BY <2>2, <4>2, Basics, SlotFacts
        <5> QED
          BY <2>3, <2>6, <4>3, <5>1
      <4>4. CASE h \in held
        BY <2>3, <4>2, <4>4 DEF IInv, Held, HeldApart
      <4> QED
        BY <2>1, <4>3, <4>4
    <3>3. \A g, h \in held' : IDX_FROM_DQRR(g.p) = IDX_FROM_DQRR(h.p) => g = h
      BY <2>1, <2>6, <2>12 DEF IInv, Held, HeldApart
    <3> QED
      BY <2>2, <3>1, <3>2, <3>3 DEF HeldApart
  <2>14. HeldIntact'
    <3>1. ASSUME NEW h \in held'
          PROVE  /\ ring[IDX_FROM_DQRR(h.p)].id = h.id
                 /\ IDX_FROM_DQRR(h.p) \notin free
      <4>1. CASE h = new
        BY <2>1, <2>4, <2>6, <2>7, <4>1
      <4>2. CASE h \in held
        BY <4>2, HeldFacts
      <4> QED
        BY <2>1, <4>1, <4>2
    <3> QED
      BY <2>1, <3>1 DEF HeldIntact, dqrr_from_idx
  <2>15. SlotsAccounted'
    <3>1. new \notin held
      BY <2>6, <2>12
    <3>2. Cardinality(held') = Cardinality(held) + 1
      BY <2>1, <3>1, Basics, FS_AddElement
    <3> QED
      BY <2>1, <2>2, <3>2, Basics DEF IInv, SlotsAccounted
  <2>16. BusyCounted'
    <3>1. returned \in 0..MaxEntries - 1 /\ returned \in 0..MaxEntries
      BY <2>1, Basics
    <3>2. Cardinality(EndedIds(returned + 1))
            = Cardinality(EndedIds(returned)) + (IF Ends(returned + 1) THEN 1 ELSE 0)
      BY <3>1, EndedNext
    <3>3. Cardinality(EndedIds(returned)) \in Nat
      BY <3>1, EndedIs
    <3>4. busy = 1 - (pulls - Cardinality(EndedIds(returned)))
      BY DEF IInv, BusyCounted
    <3>5. BusyCounted' <=>
            busy' = 1 - (pulls - Cardinality(EndedIds(returned + 1)))
      BY <2>1 DEF BusyCounted, EndedIds, Ends
    <3> QED
      BY <2>8, <3>2, <3>3, <3>4, <3>5, Basics
  <2> QED
    BY <1>2, <2>10, <2>11, <2>13, <2>14, <2>15, <2>16, NextRing DEF IInv, Held
<1> QED
  BY <1>1, <1>2, Basics

\* A pull command into the ring is granted.
LEMMA PullIInv ==
  ASSUME IInv, pull
  PROVE  IInv'
<1>1. /\ busy = 1 /\ busy' = 0 /\ pulls' = pulls + 1
      /\ UNCHANGED <<desc, next_idx, valid_bit, reset_bug, ring, hw_pi, produced,
                     free, pi_reg, held, returned, got>>
  BY DEF pull, hw
<1>2. TypeOK'
  BY <1>1 DEF IInv, TypeOK, Slots, dqrr_size, AddressOf
<1>3. BusyCounted'
  <2>1. Cardinality(EndedIds(returned)) \in Nat
    BY Basics, EndedIs
  <2>2. EndedIds(returned)' = EndedIds(returned)
    BY <1>1 DEF EndedIds, Ends
  <2> QED
    BY <1>1, <2>1, <2>2, Basics DEF IInv, BusyCounted
<1>4. Ring' /\ LastGot' /\ Held' /\ SlotsAccounted'
  BY <1>1 DEF IInv, Slots, dqrr_size, Ring, Place, ResetTurn, Window, Waiting, SlotAt,
              BitAt, LastGot, Held, HeldApart, HeldIntact, dqrr_from_idx,
              SlotsAccounted
<1> QED
  BY <1>2, <1>3, <1>4 DEF IInv

\* The caller consumes an entry: its slot, which nobody else has, becomes free.
LEMMA ConsumeIInv ==
  ASSUME IInv, NEW h \in held, dqrr_consume(h)
  PROVE  IInv'
<1> DEFINE i == IDX_FROM_DQRR(h.p)
<1>1. /\ held' = held \ {h} /\ free' = free \cup {i}
      /\ UNCHANGED <<desc, next_idx, valid_bit, reset_bug, busy, pulls, ring, hw_pi,
                     produced, pi_reg, returned, got>>
  BY DEF dqrr_consume, driver, hw
<1>2. i \in Slots /\ i \notin free
  BY HeldFacts
<1>3. dqrr_size' = dqrr_size /\ Slots' = Slots /\ dqrr_size \in 1..8
  BY <1>1, Size
<1>4. \A d \in 0..dqrr_size - 1 : d < Waiting => i # SlotAt(d)
  BY DEF IInv, Held, HeldApart
<1>5. \A g \in held \ {h} : IDX_FROM_DQRR(g.p) # i
  BY DEF IInv, Held, HeldApart
<1> HIDE DEF i
<1>6. TypeOK'
  BY <1>1, <1>2, <1>3 DEF IInv, TypeOK, AddressOf
<1>7. Waiting' = Waiting
      /\ \A d : SlotAt(d)' = SlotAt(d) /\ BitAt(d)' = BitAt(d)
  BY <1>1, <1>3 DEF Waiting, SlotAt, BitAt
<1>8. Place' /\ ResetTurn' /\ LastGot' /\ BusyCounted'
  BY <1>1, <1>3 DEF IInv, Ring, Place, ResetTurn, Waiting, SlotAt, BitAt, LastGot,
                    BusyCounted, EndedIds, Ends
<1>9. Window'
  BY <1>1, <1>3, <1>4, <1>7 DEF IInv, Ring, Window
<1>10. Held'
  <2>1. HeldApart'
    BY <1>1, <1>3, <1>7, FS_RemoveElement DEF IInv, Held, HeldApart
  <2>2. ASSUME NEW g \in held'
        PROVE  /\ ring[IDX_FROM_DQRR(g.p)].id = g.id
               /\ IDX_FROM_DQRR(g.p) \notin free'
    BY <1>1, <1>5, HeldFacts
  <2>3. HeldIntact'
    BY <1>1, <2>2 DEF HeldIntact, dqrr_from_idx
  <2> QED
    BY <2>1, <2>3 DEF Held
<1>11. SlotsAccounted'
  <2>1. Cardinality(held') = Cardinality(held) - 1
    BY <1>1, Basics, FS_RemoveElement
  <2>2. Cardinality(free') = Cardinality(free) + 1
    BY <1>1, <1>2, Basics, FS_AddElement
  <2> QED
    BY <1>1, <1>3, <2>1, <2>2, Basics DEF IInv, SlotsAccounted
<1> QED
  BY <1>6, <1>8, <1>9, <1>10, <1>11 DEF IInv, Ring

-----------------------------------------------------------------------------
\* Slot and successor of an index over twice the ring size, without %.
LEMMA IndexVal ==
  ASSUME NEW n \in 1..8, NEW x \in 0..n - 1
  PROVE  /\ x % n = x /\ (x + n) % n = x
         /\ (x + 1) % (2 * n) = x + 1
         /\ (x + n + 1) % (2 * n) = IF x + 1 = n THEN 0 ELSE x + n + 1
<1>1. x % n = x /\ (x + n) % n = x
  OBVIOUS
<1>2. (x + 1) % (2 * n) = x + 1
  OBVIOUS
<1>3. (x + n + 1) % (2 * n) = IF x + 1 = n THEN 0 ELSE x + n + 1
  OBVIOUS
<1> QED
  BY <1>1, <1>2, <1>3

\* What QMan's index h has to do with its slot x, in the turn with valid bit b.
IsIndex(n, x, b, h) ==
  /\ h % n = x /\ (IF h < n THEN 1 ELSE 0) = b
  /\ (h + 1) % (2 * n) \in 0 .. 2 * n - 1
  /\ (h + 1) % (2 * n)
       = (IF x + 1 = n THEN 0 ELSE x + 1)
         + (IF (IF x + 1 = n THEN 1 - b ELSE b) = 1 THEN 0 ELSE n)

LEMMA TurnVal ==
  ASSUME NEW n \in 1..8, NEW x \in 0..n - 1, NEW b \in {0, 1}, NEW h,
         h = x + (IF b = 1 THEN 0 ELSE n)
  PROVE  IsIndex(n, x, b, h)
<1>1. CASE b = 1
  <2>1. h = x
    BY <1>1
  <2>2. h % n = x /\ (h + 1) % (2 * n) = x + 1
    BY <2>1, IndexVal
  <2> QED
    BY <1>1, <2>1, <2>2 DEF IsIndex
<1>2. CASE b = 0
  <2>1. h = x + n
    BY <1>2
  <2>2. h % n = x /\ (h + 1) % (2 * n) = IF x + 1 = n THEN 0 ELSE x + n + 1
    BY <2>1, IndexVal
  <2> QED
    BY <1>2, <2>1, <2>2 DEF IsIndex
<1> QED
  BY <1>1, <1>2

\* QMan's next slot is the first one that does not wait, and one step on it is the
\* next; its turn gives the valid bit.
LEMMA HwIndex ==
  ASSUME IInv, Waiting < dqrr_size
  PROVE  /\ hw_pi % dqrr_size = SlotAt(Waiting)
         /\ (IF hw_pi < dqrr_size THEN 1 ELSE 0) = BitAt(Waiting)
         /\ (hw_pi + 1) % (2 * dqrr_size) \in 0 .. 2 * dqrr_size - 1
         /\ (hw_pi + 1) % (2 * dqrr_size)
              = SlotAt(Waiting + 1) + (IF BitAt(Waiting + 1) = 1 THEN 0 ELSE dqrr_size)
<1>1. /\ dqrr_size \in 1..8 /\ Waiting \in 0..dqrr_size - 1 /\ next_idx \in Slots
      /\ valid_bit \in {0, 1}
  BY Basics, Size
<1>2. hw_pi = SlotAt(Waiting) + (IF BitAt(Waiting) = 1 THEN 0 ELSE dqrr_size)
  BY DEF IInv, Ring, Place
<1>3. /\ SlotAt(Waiting) \in 0..dqrr_size - 1 /\ BitAt(Waiting) \in {0, 1}
      /\ SlotAt(Waiting + 1) = IF SlotAt(Waiting) + 1 = dqrr_size THEN 0
                               ELSE SlotAt(Waiting) + 1
      /\ BitAt(Waiting + 1) = IF SlotAt(Waiting) + 1 = dqrr_size
                              THEN 1 - BitAt(Waiting) ELSE BitAt(Waiting)
  BY <1>1 DEF SlotAt, BitAt, Slots
<1> DEFINE n == dqrr_size
           x == SlotAt(Waiting)
           b == BitAt(Waiting)
<1>4. n \in 1..8 /\ x \in 0..n - 1 /\ b \in {0, 1}
      /\ hw_pi = x + (IF b = 1 THEN 0 ELSE n)
  BY <1>1, <1>2, <1>3
<1>5. IsIndex(n, x, b, hw_pi)
  <2> HIDE DEF n, x, b
  <2> QED
    BY <1>4, TurnVal
<1>6. /\ SlotAt(Waiting + 1) = (IF x + 1 = n THEN 0 ELSE x + 1)
      /\ BitAt(Waiting + 1) = (IF x + 1 = n THEN 1 - b ELSE b)
  BY <1>3
<1> QED
  BY <1>5, <1>6 DEF IsIndex

\* QMan writes an entry into a free slot.
LEMMA FillIInv ==
  ASSUME IInv, Fill
  PROVE  IInv' /\ produced' = produced + 1 /\ Waiting < dqrr_size
         /\ produced < MaxEntries
<1> DEFINE slot == hw_pi % dqrr_size
           e == Entry(produced + 1)
<1>1. /\ slot \in free /\ produced < MaxEntries
      /\ ring' = [ring EXCEPT ![slot] = e]
      /\ free' = free \ {slot}
      /\ hw_pi' = (hw_pi + 1) % (2 * dqrr_size)
      /\ produced' = produced + 1
      /\ UNCHANGED <<desc, next_idx, valid_bit, reset_bug, busy, pulls, pi_reg,
                     held, returned, got>>
  BY DEF Fill, driver
<1>2. dqrr_size' = dqrr_size /\ Slots' = Slots /\ dqrr_size \in 1..8
  BY <1>1, Size
<1>3. Waiting < dqrr_size
  <2>1. Cardinality(free \ {slot}) = Cardinality(free) - 1
        /\ Cardinality(free \ {slot}) \in Nat
    BY <1>1, Basics, FS_RemoveElement, FS_CardinalityType
  <2> QED
    BY <1>2, <2>1, Basics DEF IInv, SlotsAccounted
<1>4. PICK w \in 0..dqrr_size - 1 : w = Waiting
  BY <1>3, Basics, Size
<1>5. slot = SlotAt(w) /\ slot \in Slots
  BY <1>2, <1>3, <1>4, HwIndex, Basics, SlotFacts
<1>6. /\ e = Written(produced + 1, BitAt(w))
      /\ e \in [verb : 0..255, stat : 0..255, id : Nat]
      /\ e.id = produced + 1 /\ Bit(e.verb, 7) = BitAt(w)
  <2>1. produced + 1 \in 1..MaxEntries /\ BitAt(w) \in {0, 1}
    BY <1>1, <1>2, Basics, SlotFacts
  <2>2. e = Written(produced + 1, BitAt(w))
    BY <1>3, <1>4, <2>1, HwIndex, EntryIsWritten
  <2> QED
    BY <2>1, <2>2, WrittenFacts
<1>7. /\ hw_pi' \in 0 .. 2 * dqrr_size - 1
      /\ hw_pi' = SlotAt(w + 1) + (IF BitAt(w + 1) = 1 THEN 0 ELSE dqrr_size)
  BY <1>1, <1>3, <1>4, HwIndex
<1> HIDE DEF slot, e
<1>8. Waiting' = w + 1 /\ Waiting = w /\ w + 1 \in 1..dqrr_size
  BY <1>1, <1>2, <1>4, Basics DEF Waiting
<1>9. \A d \in 0..dqrr_size : SlotAt(d)' = SlotAt(d) /\ BitAt(d)' = BitAt(d)
  BY <1>1, <1>2 DEF SlotAt, BitAt
<1>10. /\ \A s \in Slots \ {slot} : ring'[s] = ring[s]
       /\ ring'[slot] = e
  BY <1>1, <1>5 DEF IInv, TypeOK
<1>11. TypeOK'
  <2>1. ring' \in [Slots -> [verb : 0..255, stat : 0..255, id : Nat]]
    BY <1>1, <1>6 DEF IInv, TypeOK
  <2> QED
    BY <1>1, <1>2, <1>7, <2>1, Basics DEF IInv, TypeOK, AddressOf
<1>12. Place'
  <2>1. SlotAt(Waiting)' = SlotAt(w + 1) /\ BitAt(Waiting)' = BitAt(w + 1)
    BY <1>1, <1>2, <1>8 DEF SlotAt, BitAt
  <2> QED
    BY <1>1, <1>2, <1>7, <1>8, <2>1, Basics DEF Place
<1>13. ResetTurn'
  BY <1>1, <1>2, Basics DEF IInv, TypeOK, Ring, ResetTurn
<1>14. Window'
  <2> SUFFICES ASSUME NEW d \in 0..dqrr_size - 1
               PROVE  Window!(d)'
    BY <1>2 DEF Window
  <2>1. SlotAt(d)' = SlotAt(d) /\ BitAt(d)' = BitAt(d) /\ SlotAt(d) \in Slots
    BY <1>2, <1>9, Basics, SlotFacts
  <2>2. CASE d = w
    <3>1. produced + 1 = returned + 1 + d
      BY <1>4, <2>2, Basics
    <3> QED
      BY <1>1, <1>5, <1>6, <1>8, <1>10, <2>1, <2>2, <3>1
  <2>3. CASE d # w
    <3>1. SlotAt(d) # slot /\ ring'[SlotAt(d)] = ring[SlotAt(d)]
      BY <1>2, <1>5, <1>10, <2>1, <2>3, Basics, SlotFacts
    <3>2. d < Waiting' <=> d < Waiting
      BY <1>2, <1>8, <2>3
    <3>3. d >= Waiting' <=> d >= Waiting
      BY <1>2, <1>8, <2>3
    <3> QED
      BY <1>1, <1>2, <2>1, <3>1, <3>2, <3>3 DEF IInv, Ring, Window
  <2> QED
    BY <2>2, <2>3
<1>15. LastGot' /\ BusyCounted'
  BY <1>1 DEF IInv, LastGot, BusyCounted, EndedIds, Ends
<1>16. Held'
  <2>1. \A h \in held : IDX_FROM_DQRR(h.p) \in Slots \ {slot}
    BY <1>1, HeldFacts
  <2>2. HeldApart'
    <3>1. ASSUME NEW h \in held, NEW d \in 0..dqrr_size - 1, d < Waiting'
          PROVE  IDX_FROM_DQRR(h.p) # SlotAt(d)'
      <4>1. CASE d = w
        BY <1>2, <1>5, <1>9, <2>1, <4>1
      <4>2. CASE d # w
        <5>1. d < Waiting
          BY <1>2, <1>8, <3>1, <4>2
        <5> QED
          BY <1>2, <1>9, <5>1 DEF IInv, Held, HeldApart
      <4> QED
        BY <4>1, <4>2
    <3> QED
      BY <1>1, <1>2, <3>1 DEF IInv, Held, HeldApart
  <2>3. ASSUME NEW h \in held
        PROVE  /\ ring'[IDX_FROM_DQRR(h.p)].id = h.id
               /\ IDX_FROM_DQRR(h.p) \notin free'
    BY <1>1, <1>10, <2>1, HeldFacts
  <2>4. HeldIntact'
    BY <1>1, <2>3 DEF HeldIntact, dqrr_from_idx
  <2> QED
    BY <2>2, <2>4 DEF Held
<1>17. SlotsAccounted'
  <2>1. Cardinality(free') = Cardinality(free) - 1
    BY <1>1, Basics, FS_RemoveElement
  <2> QED
    BY <1>1, <1>2, <2>1, Basics DEF IInv, SlotsAccounted
<1> QED
  BY <1>1, <1>3, <1>11, <1>12, <1>13, <1>14, <1>15, <1>16, <1>17 DEF IInv, Ring

\* The index register follows.
LEMMA PublishPiIInv ==
  ASSUME IInv, PublishPi
  PROVE  IInv'
<1>1. /\ pi_reg' = hw_pi
      /\ UNCHANGED <<desc, next_idx, valid_bit, reset_bug, busy, pulls, ring, hw_pi,
                     produced, free, held, returned, got>>
  BY DEF PublishPi, driver, hw
<1>2. dqrr_size' = dqrr_size /\ Slots' = Slots /\ dqrr_size \in 1..8
  BY <1>1, Size
<1>3. ResetTurn'
  <2> SUFFICES ASSUME reset_bug
               PROVE  next_idx <= hw_pi /\ hw_pi <= produced
    BY <1>1 DEF IInv, Ring, ResetTurn
  <2>1. /\ valid_bit = 1 /\ next_idx = returned
        /\ next_idx \in 0..dqrr_size - 1 /\ Waiting \in 0..dqrr_size
        /\ hw_pi = SlotAt(Waiting) + (IF BitAt(Waiting) = 1 THEN 0 ELSE dqrr_size)
    BY Basics DEF IInv, Ring, ResetTurn, Place, Slots
  <2>2. hw_pi = next_idx + Waiting
    BY <1>2, <2>1 DEF SlotAt, BitAt
  <2> QED
    BY <1>2, <2>1, <2>2, Basics
<1>4. TypeOK' /\ LastGot' /\ SlotsAccounted' /\ BusyCounted'
  BY <1>1, <1>2 DEF IInv, TypeOK, AddressOf, LastGot, SlotsAccounted, BusyCounted,
                    EndedIds, Ends
<1>5. Place' /\ Window'
  BY <1>1, <1>2 DEF IInv, Ring, Place, Window, Waiting, SlotAt, BitAt
<1>6. Held'
  BY <1>1, <1>2 DEF IInv, Held, HeldApart, HeldIntact, dqrr_from_idx, Waiting, SlotAt
<1> QED
  BY <1>3, <1>4, <1>5, <1>6 DEF IInv, Ring

\* The invariant holds in every state.
LEMMA Inductive == Spec => []IInv
<1>1. IInv /\ [Next]_vars => IInv'
  BY NextIInv, PullIInv, ConsumeIInv, FillIInv, PublishPiIInv, StutterIInv DEF Next
<1> QED
  BY <1>1, InitIInv, PTL DEF Spec

-----------------------------------------------------------------------------
\* The type invariant of the ring, the driver's index and QMan's side holds in
\* every state, whatever the ring size, the mode and the entries.
THEOREM TypeCorrect == Spec => []TypeOK
<1>1. IInv => TypeOK
  BY DEF IInv
<1> QED
  BY <1>1, Inductive, PTL

\* What one verb is recognised as depends on its code alone.
LEMMA RecognisedByCode ==
  ASSUME NEW v, NEW w, ResponseVerb(v) = ResponseVerb(w)
  PROVE  Recognised(v) = Recognised(w)
<1>1. \A x : result_is(v, x) <=> result_is(w, x)
  BY DEF result_is
<1> QED
  BY <1>1 DEF Recognised, is_CSCN

\* The codes of results are told apart: each is of one category.
LEMMA RecognisedOnce ==
  ASSUME NEW x \in DOMAIN QBMAN_RESULT
  PROVE  Cardinality(Recognised(QBMAN_RESULT[x])) = 1
<1> DEFINE v == QBMAN_RESULT[x]
<1>1. /\ DOMAIN QBMAN_RESULT = {"DQ", "FQRN", "FQRNI", "FQPN", "FQDAN", "CDAN", "CSCN_MEM",
                                "CGCU", "BPSCN", "CSCN_WQ"}
      /\ \A y \in DOMAIN QBMAN_RESULT : QBMAN_RESULT[y] \in 0..127
      /\ \A y, z \in DOMAIN QBMAN_RESULT : QBMAN_RESULT[y] = QBMAN_RESULT[z] => y = z
  BY DEF QBMAN_RESULT
<1>2. \A y \in DOMAIN QBMAN_RESULT : result_is(v, y) <=> y = x
  BY <1>1, VerbFacts DEF result_is
<1> HIDE DEF v
<1>3. \E c : Recognised(v) = {c}
  <2>1. CASE x \in {"CSCN_MEM", "CSCN_WQ"}
    <3>1. Recognised(v) = {"CSCN"}
      BY <1>1, <1>2, <2>1 DEF Recognised, is_CSCN
    <3> QED
      BY <3>1
  <2>2. CASE x \notin {"CSCN_MEM", "CSCN_WQ"}
    <3>1. Recognised(v) = {x}
      BY <1>1, <1>2, <2>2 DEF Recognised, is_CSCN
    <3> QED
      BY <3>1
  <2> QED
    BY <2>1, <2>2
<1> QED
  BY <1>3, FS_Singleton DEF v

\* The n-th entry that qbman_swp_dqrr_next returns is the n-th that QMan wrote,
\* in every turn of the ring and after a reset that left the valid bits alone,
\* and exactly one of the predicates on results holds of it.
THEOREM ReturnsInOrder == Spec => []InOrder
<1>1. IInv => InOrder
  <2> SUFFICES ASSUME IInv, returned > 0
               PROVE  /\ got.id = returned
                      /\ Recognised(got.verb) = Recognised(Contents[returned].verb)
                      /\ Cardinality(Recognised(got.verb)) = 1
    BY DEF InOrder
  <2>1. PICK bit \in {0, 1} : got = Written(returned, bit)
    BY DEF IInv, LastGot
  <2>2. returned \in 1..MaxEntries
    BY Basics
  <2>3. PICK x \in DOMAIN QBMAN_RESULT : Contents[returned].verb = QBMAN_RESULT[x]
    BY <2>2, ContentsType
  <2>4. ResponseVerb(Contents[returned].verb) = Contents[returned].verb
    <3>1. Contents[returned].verb \in 0..127
      BY <2>2, ContentsType
    <3> QED
      BY <3>1, VerbFacts
  <2>5. ResponseVerb(got.verb) = ResponseVerb(Contents[returned].verb)
    BY <2>1, <2>2, <2>4, WrittenFacts
  <2>6. Recognised(got.verb) = Recognised(Contents[returned].verb)
    BY <2>5, RecognisedByCode
  <2>7. Cardinality(Recognised(Contents[returned].verb)) = 1
    BY <2>3, RecognisedOnce
  <2> QED
    BY <2>6, <2>7 DEF IInv, LastGot
<1> QED
  BY <1>1, Inductive, PTL

\* vdq.busy is 1 unless a pull command waits for its last frame: it is given back
\* for that frame and for no other entry of the ring.
THEOREM BusyGivenBack == Spec => []VdqGivenBack
<1>1. IInv => VdqGivenBack
  BY Basics, EndedIs DEF IInv, BusyCounted, VdqGivenBack
<1> QED
  BY <1>1, Inductive, PTL

\* An entry that the caller holds stays in its slot until it is consumed,
\* whatever the order in which the caller consumes entries.
THEOREM HeldStaysIntact == Spec => []HeldIntact
<1>1. IInv => HeldIntact
  BY DEF IInv, Held
<1> QED
  BY <1>1, Inductive, PTL

\* Each slot of the ring is free, waiting or held.
THEOREM NoSlotLost == Spec => []SlotsAccounted
<1>1. IInv => SlotsAccounted
  BY DEF IInv
<1> QED
  BY <1>1, Inductive, PTL

-----------------------------------------------------------------------------
\* Each step of the ring is a step of the bounded queue, or leaves it alone.
LEMMA StepRefines == IInv /\ [Next]_vars => [Fifo!Next]_Fifo!vars
<1> SUFFICES ASSUME IInv, [Next]_vars
             PROVE  Fifo!Next \/ UNCHANGED Fifo!vars
  OBVIOUS
<1>1. CASE dqrr_next
  <2>1. CASE Bit(ring[next_idx].verb, 7) # valid_bit
    BY <1>1, <2>1, NextFindsNone DEF vars, hw, Fifo!vars
  <2>2. CASE Bit(ring[next_idx].verb, 7) = valid_bit
    <3>1. /\ Waiting > 0 /\ returned + 1 \in 1..MaxEntries
          /\ ring[next_idx] = Written(returned + 1, valid_bit)
          /\ returned' = returned + 1 /\ got' = ring[next_idx]
          /\ produced' = produced
      BY <1>1, <2>2, NextReturns
    <3>2. got'.id = returned + 1
      BY <3>1, WrittenFacts, Basics
    <3>3. returned < produced
      BY <3>1, Basics
    <3> QED
      BY <3>1, <3>2, <3>3 DEF Fifo!Next, Fifo!Execute
  <2> QED
    BY <2>1, <2>2
<1>2. CASE pull
  BY <1>2 DEF pull, hw, Fifo!vars
<1>3. CASE \E h \in held : dqrr_consume(h)
  BY <1>3 DEF dqrr_consume, hw, Fifo!vars
<1>4. CASE Fill
  <2>1. /\ produced' = produced + 1 /\ Waiting < dqrr_size /\ produced < MaxEntries
        /\ UNCHANGED <<returned, got>>
    BY <1>4, FillIInv DEF Fill
  <2>2. produced + 1 - returned <= NewSize /\ produced + 1 <= MaxEntries
    BY <2>1, Basics, Size, DqrrAssumption
  <2>3. Fifo!Accept(1)
    BY <2>1, <2>2 DEF Fifo!Accept
  <2> QED
    BY <2>3, DqrrAssumption DEF Fifo!Next
<1>5. CASE PublishPi
  BY <1>5 DEF PublishPi, hw, Fifo!vars
<1>6. CASE UNCHANGED vars
  BY <1>6 DEF vars, hw, Fifo!vars
<1> QED
  BY <1>1, <1>2, <1>3, <1>4, <1>5, <1>6 DEF Next

\* The ring implements the bounded queue BoundedFifo (its safety part).
THEOREM ImplementsFifo == Spec => Fifo!Spec
<1>1. Init => Fifo!Init
  BY DEF Init, Blank, Fifo!Init
<1> QED
  BY <1>1, Inductive, StepRefines, PTL DEF Spec, Fifo!Spec
=============================================================================
