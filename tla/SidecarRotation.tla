-------------------------- MODULE SidecarRotation --------------------------
(***************************************************************************)
(* What internal/engine/supervisor.go promises of its child processes       *)
(* before it says how: one process serves a (kernel, workspace); its         *)
(* replacement never shares it; a process leaves service to be stopped or,   *)
(* when its credentials were replaced, to finish what it had started, and    *)
(* then it never serves again.                                               *)
(***************************************************************************)
EXTENDS Naturals, FiniteSets

CONSTANTS Procs, Keys, None

VARIABLES
    serving,    \* [Keys -> Procs \cup {None}], the process in rotation for a key
    leaving,    \* processes that only finish what they had started
    revoked     \* of both, the ones that hold replaced credentials

vars == <<serving, leaving, revoked>>

Serving == {serving[key] : key \in Keys} \ {None}

Init ==
    /\ serving = [key \in Keys |-> None]
    /\ leaving = {}
    /\ revoked = {}

\* The credentials of everything that runs are replaced.
Revoke ==
    /\ revoked' = Serving \cup leaving
    /\ UNCHANGED <<serving, leaving>>

\* One critical section: some processes end, revoked ones may leave, one may start.
Rotate ==
    \E ended \in SUBSET (Serving \cup leaving) :
    \E left \in SUBSET ((Serving \cap revoked) \ ended) :
    \E key \in Keys, start \in (Procs \ (Serving \cup leaving)) \cup {None} :
        LET stays == [k \in Keys |-> IF serving[k] \in ended \cup left THEN None ELSE serving[k]]
        IN  /\ start # None => stays[key] = None
            /\ serving' = [stays EXCEPT ![key] = IF start = None THEN @ ELSE start]
            /\ leaving' = (leaving \ ended) \cup left
            /\ revoked' = revoked \ ended

Next == Revoke \/ Rotate

Spec == Init /\ [][Next]_vars
=============================================================================
