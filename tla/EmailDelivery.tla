--------------------------- MODULE EmailDelivery ----------------------------
(***************************************************************************)
(* What the outbox promises of recovery emails, with no dispatcher, queue  *)
(* state or provider call in sight: an email is asked for, reaches the     *)
(* customer at most once, only if asked for, and is reported as sent only  *)
(* after that.                                                             *)
(***************************************************************************)
EXTENDS Naturals

CONSTANT Messages

VARIABLES
    asked,   \* messages the tools have queued
    inbox,   \* how often each message has reached the customer
    told     \* messages reported as sent

Init ==
    /\ asked = {}
    /\ inbox = [m \in Messages |-> 0]
    /\ told = {}

Ask(m) ==
    /\ asked' = asked \cup {m}
    /\ UNCHANGED << inbox, told >>

Deliver(m) ==
    /\ m \in asked /\ inbox[m] = 0
    /\ inbox' = [inbox EXCEPT ![m] = 1]
    /\ UNCHANGED << asked, told >>

Tell(m) ==
    /\ inbox[m] = 1
    /\ told' = told \cup {m}
    /\ UNCHANGED << asked, inbox >>

Next == \E m \in Messages : Ask(m) \/ Deliver(m) \/ Tell(m)

Spec == Init /\ [][Next]_<< asked, inbox, told >>
=============================================================================
