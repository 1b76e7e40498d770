------------------------------ MODULE MCResearch ------------------------------
(***************************************************************************)
(* The instance TLC checks.  Each execution is about one question: what may  *)
(* be lost, cancelled or stopped in it, and how many runs, tasks and workers  *)
(* there are.                                                               *)
(***************************************************************************)
EXTENDS ResearchWorkers

CONSTANTS p1, MaxPipe     \* MaxPipe: lines that wait to be read

VARIABLE question

\* The agent makes no call that would be refused if it were handled at once.
CallsWhatMayBeDone ==
    LET r == call'.run
        phase == run[r].phase
    IN  call.stage = "none" /\ call'.stage = "asked" =>
            CASE call'.action = "start" -> run[r].status = "none"
              [] call'.action = "resume" -> run[r].status = "interrupted"
              [] call'.action \in {"register", "seal"} -> Active(r) /\ phase \in Collecting
              [] call'.action = "gap_fill" -> Active(r) /\ phase = "synthesizing"
              [] call'.action = "complete" -> Active(r) /\ phase \in {"synthesizing", "finalizing"}
              [] call'.action = "cancel" -> Active(r)

Uses(runs, taskCount, workers) ==
    /\ \A r \in Runs \ runs : UNCHANGED run[r] /\ call'.run # r
    /\ \A r \in Runs, t \in Tasks : t > taskCount => tasks'[r][t] = NoTask
    /\ \A w \in Workers : w > workers => rows'[w] = NoRow

Faults(lost, cancelled, stopped) == losses' <= lost /\ cancels' <= cancelled /\ stops' <= stopped

\* The phases of a run with two workers.
Collects == Uses({1}, 2, 2) /\ Faults(0, 0, 0)
\* One run after another.
Repeats == Uses({1, 2}, 1, 1) /\ Faults(0, 0, 0)
\* The user cancels, and a session or a sidecar is lost.
Cancels == Uses({1}, 1, 1) /\ Faults(1, 1, 0)
\* The user stops the turn, or a session or a sidecar is lost.
Loses == Uses({1}, 1, 2) /\ losses' + stops' <= 1 /\ Faults(1, 0, 1)

Asked ==
    /\ Next /\ UNCHANGED question
    /\ CallsWhatMayBeDone /\ Len(pipe') <= MaxPipe
    /\ \/ question = "collects" /\ Collects
       \/ question = "repeats" /\ Repeats
       \/ question = "cancels" /\ Cancels
       \/ question = "loses" /\ Loses

ResearchInit == Init /\ question \in {"collects", "repeats", "cancels", "loses"}
ResearchSpec == ResearchInit /\ [][Asked]_<<vars, question>> /\ Fairness
=============================================================================
