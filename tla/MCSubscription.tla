--------------------------- MODULE MCSubscription ---------------------------
(* Model values for the instances of Subscription, and what is left of     *)
(* Next when the operator does no more than approve.                       *)
EXTENDS Subscription

CONSTANTS h1, a1, cron, gateway

ServedStep(s) ==
    \/ ApproveWrite(s) \/ LinkWrite(s)
    \/ IssueRead(s) \/ IssueFree(s) \/ IssueCreate(s) \/ IssueExtend(s)
    \/ PayInvoice(s) \/ PayHotelRead(s) \/ PayHotelWrite(s)

ServedNext ==
    \/ \E s \in Admins : ApproveRead(s) \/ LinkRead(s)
    \/ \E s \in Handlers : ServedStep(s)
    \/ \E n \in Invoices, link \in 1 .. MaxLinks : Charge(n, link)
    \/ WebhookPays \/ WebhookSkips
    \/ SweepMark \/ SweepStep
    \/ Tick \/ Crash

ServedSpec == Init /\ [][ServedNext]_vars /\ Fairness

=============================================================================
