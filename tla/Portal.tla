------------------------------- MODULE Portal -------------------------------
(***************************************************************************)
(* The life of software portals: qbman_swp_init with qbman_swp_sys_init,   *)
(* qbman_swp_finish, and static (push) dequeues, whose register QMan must  *)
(* never see enabled without a channel.                                    *)
(*                                                                         *)
(* Several portals share two pieces of state: the map from portal index to *)
(* object, through which qbman_check_command_complete finds the portal of  *)
(* a token, and the function pointers that select the functions for direct *)
(* or memory-backed mode: with portals of both modes they name the ones    *)
(* for memory-backed mode, for the direct portals too.  Outside the        *)
(* driver, the management complex resets portals, and QMan dequeues to     *)
(* those that have channels enabled.                                       *)
(***************************************************************************)
EXTENDS Integers

CONSTANTS
  Portals,
  MemBackPortals,  \* those with QMan 5.0 and qman_cena_fastest_access
  Channels,        \* channel indices of push dequeues, 0..15 in the code
  MaxLeaks         \* failed initialisations that leak; bounds the model

ASSUME PortalAssumption == MemBackPortals \subseteq Portals /\ MaxLeaks \in Nat

VARIABLES
  live,     \* portals whose struct qbman_swp is in use
  shadows,  \* portal -> cena shadow areas allocated and not freed
  leaked,   \* portal -> shadow areas that nothing points to any more (history)
  sdq,      \* portal -> channels set in s->sdq
  portal_idx_map,  \* portals whose index maps to an object
  ptrs,     \* the mode whose functions the function pointers name
  cfg,      \* portal -> mode in SWP_CFG, "off" out of reset
  sdqcr,    \* portal -> SDQCR: is it zero, and the channels it enables
  dirty     \* portals whose DQRR producer index (DQPI & 0xF) is not zero

vars == <<live, shadows, leaked, sdq, portal_idx_map, ptrs, cfg, sdqcr, dirty>>

-----------------------------------------------------------------------------
(* Broken variants of definitions (names with an underscore) stand before them. *)

Mode(p) == IF p \in MemBackPortals THEN "mem_back" ELSE "direct"

\* SDQCR also holds priority, frame count and token, so the value for the empty
\* set of channels is not zero.
Zero == [zero |-> TRUE, src |-> {}]

Init ==
  /\ live = {} /\ portal_idx_map = {} /\ dirty = {}
  /\ shadows = [p \in Portals |-> 0] /\ leaked = [p \in Portals |-> 0]
  /\ sdq = [p \in Portals |-> {}]
  /\ ptrs = "direct"
  /\ cfg = [p \in Portals |-> "off"]
  /\ sdqcr = [p \in Portals |-> Zero]

-----------------------------------------------------------------------------
(* qbman_swp_init.  Without memory, or if the portal cannot be enabled, it has *)
(* no effect.                                                                  *)

InitSdqcr_Stays(p) == UNCHANGED sdqcr
InitSdqcr(p) == sdqcr' = [sdqcr EXCEPT ![p] = Zero]

\* The function pointers are set for memory-backed mode and never set back.
SelectMode(p) == ptrs' = IF Mode(p) = "mem_back" THEN "mem_back" ELSE ptrs

\* qbman_swp_sys_init succeeds: shadow allocated, portal enabled.
SysInit(p) ==
  /\ p \notin live
  /\ shadows' = [shadows EXCEPT ![p] = @ + 1]
  /\ cfg' = [cfg EXCEPT ![p] = Mode(p)]

\* "portal is not clean": the object is freed, what qbman_swp_sys_init did stays.
InitNotClean(p) ==
  /\ SysInit(p)
  /\ p \in dirty /\ leaked[p] < MaxLeaks
  /\ leaked' = [leaked EXCEPT ![p] = @ + 1]
  /\ UNCHANGED <<live, sdq, portal_idx_map, ptrs, sdqcr, dirty>>

InitOk(p) ==
  /\ SysInit(p)
  /\ p \notin dirty
  /\ live' = live \cup {p}
  /\ sdq' = [sdq EXCEPT ![p] = {}]
  /\ InitSdqcr(p)
  /\ SelectMode(p)
  /\ portal_idx_map' = portal_idx_map \cup {p}
  /\ UNCHANGED <<leaked, dirty>>

Finish_KeepsMap(p) ==
  /\ p \in live
  /\ shadows' = [shadows EXCEPT ![p] = @ - 1]
  /\ live' = live \ {p}
  /\ UNCHANGED <<leaked, sdq, portal_idx_map, ptrs, cfg, sdqcr, dirty>>

Finish_FreesTwice(p) ==
  /\ p \in live
  /\ shadows' = [shadows EXCEPT ![p] = @ - 2]
  /\ live' = live \ {p}
  /\ portal_idx_map' = portal_idx_map \ {p}
  /\ UNCHANGED <<leaked, sdq, ptrs, cfg, sdqcr, dirty>>

\* qbman_swp_finish does not touch the portal's registers.
Finish(p) ==
  /\ p \in live
  /\ shadows' = [shadows EXCEPT ![p] = @ - 1]
  /\ live' = live \ {p}
  /\ portal_idx_map' = portal_idx_map \ {p}
  /\ UNCHANGED <<leaked, sdq, ptrs, cfg, sdqcr, dirty>>

-----------------------------------------------------------------------------
(* Push dequeues. *)

Sdqcr(src) == IF src = {} THEN Zero ELSE [zero |-> FALSE, src |-> src]

push_set(p, channel, enable) ==
  LET src == IF enable THEN sdq[p] \cup {channel} ELSE sdq[p] \ {channel}
  IN /\ p \in live
     /\ sdq' = [sdq EXCEPT ![p] = src]
     /\ sdqcr' = [sdqcr EXCEPT ![p] = Sdqcr(src)]
     /\ UNCHANGED <<live, shadows, leaked, portal_idx_map, ptrs, cfg, dirty>>

-----------------------------------------------------------------------------
(* The environment. *)

\* QMan writes a dequeue response to the portal: the producer index leaves zero, or
\* goes on and may come round to zero.
Dequeue(p) ==
  /\ sdqcr[p].src # {} /\ cfg[p] # "off"
  /\ \/ p \notin dirty /\ dirty' = dirty \cup {p}
     \/ p \in dirty /\ dirty' = dirty \ {p}
  /\ UNCHANGED <<live, shadows, leaked, sdq, portal_idx_map, ptrs, cfg, sdqcr>>

\* The management complex resets a portal that is not in use.
Reset(p) ==
  /\ p \notin live /\ cfg[p] # "off"
  /\ cfg' = [cfg EXCEPT ![p] = "off"]
  /\ sdqcr' = [sdqcr EXCEPT ![p] = Zero]
  /\ dirty' = dirty \ {p}
  /\ UNCHANGED <<live, shadows, leaked, sdq, portal_idx_map, ptrs>>

-----------------------------------------------------------------------------
Next == \E p \in Portals :
          \/ InitOk(p) \/ InitNotClean(p) \/ Finish(p)
          \/ \E c \in Channels, enable \in BOOLEAN : push_set(p, c, enable)
          \/ Dequeue(p) \/ Reset(p)

Spec == Init /\ [][Next]_vars

-----------------------------------------------------------------------------
(* Properties. *)

\* The type invariant.
TypeOK ==
  /\ live \subseteq Portals /\ portal_idx_map \subseteq Portals
  /\ dirty \subseteq Portals
  /\ shadows \in [Portals -> Nat] /\ leaked \in [Portals -> 0..MaxLeaks]
  /\ sdq \in [Portals -> SUBSET Channels]
  /\ ptrs \in {"direct", "mem_back"}
  /\ cfg \in [Portals -> {"off", "direct", "mem_back"}]
  /\ sdqcr \in [Portals -> [zero : BOOLEAN, src : SUBSET Channels]]

\* "If no channels are enabled the SDQCR must be 0 or else QMan will assert
\* errors", in every portal and at any time; and a portal in use dequeues from
\* the channels it was asked to, also if it was used before and not reset.
SdqcrMatches ==
  /\ \A p \in Portals : sdqcr[p].src = {} => sdqcr[p].zero
  /\ \A p \in live : sdqcr[p].src = sdq[p]

\* The map that leads from a token to a portal names the portals in use, so a
\* pointer to a freed object is never followed; and a shadow area belongs to a
\* portal in use or was leaked by an initialisation that found the portal not
\* clean: no other path leaks one or frees it twice.
NothingDangles ==
  /\ portal_idx_map = live
  /\ \A p \in Portals : shadows[p] = leaked[p] + (IF p \in live THEN 1 ELSE 0)
=============================================================================
