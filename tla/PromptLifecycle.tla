--------------------------- MODULE PromptLifecycle ---------------------------
(***************************************************************************)
(* What the callers of a sidecar may rely on about the prompts of a         *)
(* conversation: one runs at a time, in the order in which they were        *)
(* accepted, each at most once; one that has not started may be cancelled.  *)
(***************************************************************************)
EXTENDS Naturals

CONSTANTS Conversations, MaxPrompts

VARIABLE phase      \* what has become of each prompt of each conversation

Prompts == 1..MaxPrompts
Phases == {"new", "accepted", "running", "over"}

Init == phase = [c \in Conversations |-> [n \in Prompts |-> "new"]]

To(c, n, p) == phase' = [phase EXCEPT ![c][n] = p]

Accept(c, n) ==
    /\ phase[c][n] = "new"
    /\ \A m \in 1..(n - 1) : phase[c][m] # "new"
    /\ To(c, n, "accepted")

Start(c, n) ==
    /\ phase[c][n] = "accepted"
    /\ \A m \in Prompts : phase[c][m] # "running"
    /\ \A m \in 1..(n - 1) : phase[c][m] = "over"
    /\ To(c, n, "running")

\* Prompts end one by one, or together when their session is closed.
Finish(c) ==
    \E gone \in SUBSET {n \in Prompts : phase[c][n] \in {"accepted", "running"}} :
        phase' = [phase EXCEPT ![c] = [n \in Prompts |-> IF n \in gone THEN "over" ELSE @[n]]]

Next == \E c \in Conversations : Finish(c) \/ \E n \in Prompts : Accept(c, n) \/ Start(c, n)

Spec == Init /\ [][Next]_phase
=============================================================================
