----------------------------- MODULE Campaigns -----------------------------
(***************************************************************************)
(* A marketing campaign: marketing.service's approve and send, beside the  *)
(* consent of the guests that gdpr.service and the inbox change.           *)
(*                                                                         *)
(* send checks the status, reads the segment, queues a message for each    *)
(* guest and only then writes SENT.  A handler that dies or fails in       *)
(* between leaves the campaign APPROVED, and it can be sent again.         *)
(*                                                                         *)
(* Abstracted: the words, the template and the cost; the queue of outgoing *)
(* messages, which is durable and retries by itself.                       *)
(***************************************************************************)
EXTENDS Naturals

CONSTANTS
    Guests,
    Senders,       \* bound: requests to send in flight
    MaxApprovals,  \* bound: approvals
    MaxChanges,    \* bound: changes of consent
    MaxFallen      \* bound: senders that fail or die

VARIABLES
    status,     \* Campaign.status
    consents,   \* the guests with optedInMarketing, not erased
    queued,     \* queued[g]: messages queued for g
    sender,     \* sender[h]: a send in flight and the guests left to it
    approvals,
    changes,
    fallen,
    doubled     \* history: two sends overlapped, or one died under its campaign

vars == <<status, consents, queued, sender, approvals, changes, fallen, doubled>>

Idle == [pc |-> "idle", left |-> {}]

Init ==
    /\ status = "DRAFT"
    /\ consents = Guests
    /\ queued = [g \in Guests |-> 0]
    /\ sender = [h \in Senders |-> Idle]
    /\ approvals = 0 /\ changes = 0 /\ fallen = 0
    /\ doubled = FALSE

\* approve: of a campaign in whatever state.
Approve ==
    /\ approvals < MaxApprovals
    /\ approvals' = approvals + 1
    /\ status' = "APPROVED"
    /\ UNCHANGED <<consents, queued, sender, changes, fallen, doubled>>

\* A guest opts in or out, or is erased.
ChangeConsent(g) ==
    /\ changes < MaxChanges
    /\ changes' = changes + 1
    /\ consents' = IF g \in consents THEN consents \ {g} ELSE consents \cup {g}
    /\ UNCHANGED <<status, queued, sender, approvals, fallen, doubled>>

\* Fault: a sent campaign may be sent.
SendableAny == status # "DRAFT"

Sendable == status = "APPROVED"

\* send reads the campaign ...
SendStart(h) ==
    /\ sender[h] = Idle
    /\ Sendable
    /\ sender' = [sender EXCEPT ![h].pc = "resolve"]
    /\ doubled' = (doubled \/ \E i \in Senders : sender[i] # Idle)
    /\ UNCHANGED <<status, consents, queued, approvals, changes, fallen>>

\* ... and its segment, ...
Resolve(h) ==
    /\ sender[h].pc = "resolve"
    /\ sender' = [sender EXCEPT ![h] = [pc |-> "queue", left |-> consents]]
    /\ UNCHANGED <<status, consents, queued, approvals, changes, fallen, doubled>>

\* ... queues one message after the other ...
Enqueue(h) ==
    /\ sender[h].pc = "queue"
    /\ \E g \in sender[h].left :
        /\ queued' = [queued EXCEPT ![g] = @ + 1]
        /\ sender' = [sender EXCEPT ![h].left = @ \ {g}]
    /\ UNCHANGED <<status, consents, approvals, changes, fallen, doubled>>

\* ... and says so.
SendDone(h) ==
    /\ sender[h].pc = "queue" /\ sender[h].left = {}
    /\ status' = "SENT"
    /\ sender' = [sender EXCEPT ![h] = Idle]
    /\ UNCHANGED <<consents, queued, approvals, changes, fallen, doubled>>

\* A statement or the queue fails, or the process dies.
Die(h) ==
    /\ sender[h] # Idle
    /\ fallen < MaxFallen
    /\ fallen' = fallen + 1
    /\ sender' = [sender EXCEPT ![h] = Idle]
    /\ doubled' = TRUE
    /\ UNCHANGED <<status, consents, queued, approvals, changes>>

Next ==
    \/ Approve
    \/ \E g \in Guests : ChangeConsent(g)
    \/ \E h \in Senders : SendStart(h) \/ Resolve(h) \/ Enqueue(h) \/ SendDone(h) \/ Die(h)

Spec == Init /\ [][Next]_vars

-----------------------------------------------------------------------------
(* Properties                                                              *)

\* The values the campaign and its sends can have.
TypeOK ==
    /\ status \in {"DRAFT", "APPROVED", "SENT"}
    /\ consents \subseteq Guests
    /\ queued \in [Guests -> Nat]
    /\ sender \in [Senders -> [pc : {"idle", "resolve", "queue"}, left : SUBSET Guests]]

\* "Sending is gated behind approval": an approval sends each guest one message, unless
\* two sends overlap or one dies half-way.  An approval in mid-send counts for one.
OnePerApproval == ~ doubled => \A g \in Guests : queued[g] <= approvals

=============================================================================
