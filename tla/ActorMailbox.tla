---------------------------- MODULE ActorMailbox ----------------------------
(***************************************************************************)
(* What an actor's mailbox promises: a first-in first-out sequence, from    *)
(* which a receive takes the first message and a selective receive          *)
(* (actors-receive-if) the first one that satisfies its predicate, leaving  *)
(* the others in order.  A message that cannot be rebuilt in the recipient  *)
(* is delivered as an error.                                                *)
(***************************************************************************)
EXTENDS Integers, Sequences

CONSTANTS
    Messages,     \* what may be sent
    Matching,     \* the messages a selective receive asks for
    Undecodable,  \* the messages the recipient's decoder signals on
    Capacity      \* bound of the instance: messages waiting at once

VARIABLES
    box,     \* the messages that wait, oldest first
    result   \* what the last receive returned

\* "nothing": it timed out; "error": the message did not decode.
Results == Messages \cup {"none", "nothing", "error"}

Wanted(selective) ==
    IF selective THEN Matching \cup Undecodable ELSE Messages

\* The receive would return box[i].
FirstOf(s, S, i) ==
    /\ i \in DOMAIN s /\ s[i] \in S
    /\ \A j \in 1 .. (i - 1) : s[j] \notin S

Without(s, i) == SubSeq(s, 1, i - 1) \o SubSeq(s, i + 1, Len(s))

Outcome(m) == IF m \in Undecodable THEN "error" ELSE m

Init == box = <<>> /\ result = "none"

Put(m) ==
    /\ Len(box) < Capacity
    /\ box' = Append(box, m)
    /\ UNCHANGED result

Get(selective) ==
    \E i \in DOMAIN box :
        /\ FirstOf(box, Wanted(selective), i)
        /\ box' = Without(box, i)
        /\ result' = Outcome(box[i])

GetNothing(selective) ==
    /\ \A i \in DOMAIN box : box[i] \notin Wanted(selective)
    /\ result' = "nothing"
    /\ UNCHANGED box

\* The actor ends and its slot is claimed again.
Respawn == box' = <<>> /\ result' = "none"

Next ==
    \/ \E m \in Messages : Put(m)
    \/ \E selective \in BOOLEAN : Get(selective) \/ GetNothing(selective)
    \/ Respawn

Spec == Init /\ [][Next]_<<box, result>>
=============================================================================
