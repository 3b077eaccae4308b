---------------------------- MODULE MessageDesk ----------------------------
(***************************************************************************)
(* What the turn queue of core/engine.go promises to those who write to a  *)
(* chat, with nothing of how it keeps it: no queues, no locks, no states,  *)
(* no agents.  A message is received, may have to wait, is on at most one  *)
(* desk, and comes to one end.                                             *)
(***************************************************************************)
CONSTANTS
    Msgs,      \* the messages
    Workers,   \* goroutines, the ones that handle a message named by it
    Ends,      \* what may become of a message
    NoMsg      \* an empty desk

VARIABLES
    fate,      \* what became of each message
    desk       \* the message each goroutine works on

deskVars == <<fate, desk>>

Waiting == {m \in Msgs : fate[m] = "queued"}

Init ==
    /\ fate = [m \in Msgs |-> "none"]
    /\ desk = [w \in Workers |-> NoMsg]

Receive(m) ==
    /\ fate[m] = "none"
    /\ fate' = [fate EXCEPT ![m] = "handled"]
    /\ desk' = desk

(* Only a message that has just been received is turned away or told to wait. *)
TurnAway(m) ==
    /\ fate[m] = "handled"
    /\ fate' = [fate EXCEPT ![m] = "refused"]
    /\ desk' = desk

Wait(m) ==
    /\ fate[m] = "handled"
    /\ fate' = [fate EXCEPT ![m] = "queued"]
    /\ desk' = desk

(* A received message is worked on by its own goroutine, one that waits by *)
(* any that has its desk free.                                             *)
Take(w, m) ==
    /\ desk[w] = NoMsg
    /\ fate[m] = "queued" \/ (fate[m] = "handled" /\ w = m)
    /\ fate' = [fate EXCEPT ![m] = "running"]
    /\ desk' = [desk EXCEPT ![w] = m]

(* Messages D that wait are given up together, *)
Drop(D) ==
    /\ fate' = [m \in Msgs |-> IF m \in D THEN "dropped" ELSE fate[m]]
    /\ desk' = desk

(* perhaps in the step that ends the work on another one. *)
Finish(w, end, D) ==
    /\ desk[w] # NoMsg
    /\ fate' = [m \in Msgs |-> IF m = desk[w] THEN end ELSE IF m \in D THEN "dropped" ELSE fate[m]]
    /\ desk' = [desk EXCEPT ![w] = NoMsg]

Next ==
    \/ \E m \in Msgs : Receive(m) \/ TurnAway(m) \/ Wait(m)
    \/ \E w \in Workers, m \in Msgs : Take(w, m)
    \/ \E D \in SUBSET Waiting : Drop(D) \/ (\E w \in Workers, end \in Ends : Finish(w, end, D))

Spec == Init /\ [][Next]_deskVars

-----------------------------------------------------------------------------
(* A message is being worked on exactly while it lies on a desk, and then  *)
(* on one desk only: work is neither lost nor done twice.                  *)
OnOneDesk ==
    /\ \A m \in Msgs : fate[m] = "running" <=> \E w \in Workers : desk[w] = m
    /\ \A v, w \in Workers : v # w /\ desk[v] # NoMsg => desk[v] # desk[w]

(* Type invariant. *)
DeskType == fate \in [Msgs -> {"none", "handled", "queued", "running"} \cup Ends]
            /\ desk \in [Workers -> Msgs \cup {NoMsg}]

=============================================================================
