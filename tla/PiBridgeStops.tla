---------------------------- MODULE PiBridgeStops ----------------------------
(***************************************************************************)
(* PiBridge with a history of what each stop found.                         *)
(***************************************************************************)
EXTENDS PiBridge

VARIABLE stopped     \* prompts that had been sent and were not over when a stop arrived

Alive(c) == {n \in Prompts : prompt[c][n] \in Tasks \cup {"sent"}}

StopArrives(c) == stopping[c] = "no" /\ stopping'[c] # "no"

Remembers ==
    stopped' = [c \in Conversations |->
                  IF StopArrives(c) THEN stopped[c] \cup Alive(c) ELSE stopped[c]]

StopsSpec ==
    /\ Init /\ stopped = [c \in Conversations |-> {}]
    /\ [][Next /\ Remembers]_<<vars, stopped>>

\* A prompt a stop found waiting does not start once the stop has been answered.
StoppedPromptsDoNotStart ==
    [][\A c \in Conversations : \A n \in stopped[c] :
          stopping[c] = "no" /\ prompt[c][n] # "running" => prompt'[c][n] # "running"]_vars
=============================================================================
