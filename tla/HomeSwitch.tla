----------------------------- MODULE HomeSwitch -----------------------------
(***************************************************************************)
(* What restoring a backup promises (src/internal/appdata/restore.go),     *)
(* abstractly.  The home directory holds the data of before or the data of *)
(* the backup, never a mixture; it changes from the one to the other in    *)
(* one step, only while the program is closed, and only if the user asked  *)
(* for it.                                                                 *)
(***************************************************************************)

VARIABLES open,     \* TRUE while the program runs and its stores are open
          asked,    \* TRUE while a confirmed restore has not taken effect
          content   \* whose data the home directory holds

TypeOK == /\ open \in BOOLEAN
          /\ asked \in BOOLEAN
          /\ content \in {"before", "after"}

Init == ~open /\ ~asked /\ content = "before"

\* What the user does from now on is the data of before, for the next restore.
Use == open /\ content' = "before" /\ UNCHANGED <<open, asked>>

Ask == open /\ asked' = TRUE /\ content' = "before" /\ UNCHANGED open

Close == open /\ open' = FALSE /\ UNCHANGED <<asked, content>>

Open == ~open /\ open' = TRUE /\ UNCHANGED <<asked, content>>

Switch == ~open /\ asked /\ asked' = FALSE /\ content' = "after" /\ UNCHANGED open

Next == Use \/ Ask \/ Close \/ Open \/ Switch

Spec == Init /\ [][Next]_<<open, asked, content>>
=============================================================================
