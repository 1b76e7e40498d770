----------------------------- MODULE MCPiBridge -----------------------------
(***************************************************************************)
(* The instance TLC checks: what a conversation may meet, for one alone, and *)
(* whether it is kept by a neighbour that sends a message of its own.        *)
(***************************************************************************)
EXTENDS PiBridge

CONSTANTS c1, c2

VARIABLE question

Alone == Acts(c1)

\* One message each; the neighbour is not stopped, destroyed or relayed to.
Beside ==
    /\ \E c \in {c1, c2} : Acts(c)
    /\ \A c \in {c1, c2} : prompt'[c][2] = "new"
    /\ \A i \in DOMAIN commandQueue' :
          commandQueue'[i].conv = c2 => commandQueue'[i].do = "send"
    /\ stopping'[c2] = "no" /\ late \subseteq late' /\ requested' = requested

Checked ==
    /\ UNCHANGED question
    /\ \/ question = "alone" /\ Alone
       \/ question = "beside" /\ Beside

BridgeInit == Init /\ question \in {"alone", "beside"}

BridgeSpec == BridgeInit /\ [][Checked]_<<vars, question>> /\ Fairness
=============================================================================
