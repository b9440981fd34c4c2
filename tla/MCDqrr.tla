------------------------------- MODULE MCDqrr -------------------------------
(* Instances of Dqrr for TLC. *)
EXTENDS Dqrr

Push     == [verb |-> QBMAN_RESULT.DQ, stat |-> 16]  \* a valid frame of a channel
Pulled   == [verb |-> QBMAN_RESULT.DQ, stat |-> 18]  \* ... of a pull
PullLast == [verb |-> QBMAN_RESULT.DQ, stat |-> 19]  \* ... and its last
PullNone == [verb |-> QBMAN_RESULT.DQ, stat |-> 3]   \* a pull that found no frame
\* Notifications have no flags; the same byte may hold anything.
Notify(kind) == [verb |-> QBMAN_RESULT[kind], stat |-> 3]

mc_Contents ==
  <<PullLast, Notify("FQDAN"), Push, Pulled, Notify("CDAN"), PullNone,
    Notify("CSCN_WQ"), Push, PullLast, Notify("FQRN"), Pulled, Push, PullLast,
    Notify("FQRNI"), Notify("FQPN"), Push, PullNone, Push>>
=============================================================================
