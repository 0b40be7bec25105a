---------------------------- MODULE Distribution ----------------------------
(***************************************************************************)
(* Reservations that arrive from online agencies:                          *)
(* channel-manager.service's ingestReservation, called by the webhook of a *)
(* channel and for every event of an iCal feed.                            *)
(*                                                                         *)
(* A delivery looks for the row of the external id, books (its own         *)
(* transaction, module Booking, which may refuse), and inserts the row,    *)
(* whose key is unique.  A delivery that fails is not answered, so the     *)
(* agency sends it again; a feed is read again as a whole.                 *)
(*                                                                         *)
(* Abstracted: the stay, the guest, the channel, and the text of a feed.   *)
(***************************************************************************)
EXTENDS Naturals, FiniteSets

CONSTANTS
    Externals,   \* reservations of an agency, by their external id
    NoUid,       \* events of a feed without a UID, given a new id at every reading
    Deliveries,  \* bound: deliveries in flight
    MaxSent,     \* bound: deliveries of one reservation
    MaxKilled    \* bound: deliveries that die

VARIABLES
    booked,    \* booked[e]: reservations made for e
    linked,    \* linked[e]: ChannelReservation rows of e
    acked,     \* reservations whose delivery was answered with success
    delivery,  \* delivery[d]: the delivery in flight
    sent,      \* sent[e]: deliveries so far
    killed,    \* deliveries that died
    crossed    \* history: reservations with two deliveries at once, or one that died

vars == <<booked, linked, acked, delivery, sent, killed, crossed>>

Idle == [pc |-> "idle"]

Init ==
    /\ booked = [e \in Externals |-> 0]
    /\ linked = [e \in Externals |-> 0]
    /\ acked = {}
    /\ delivery = [d \in Deliveries |-> Idle]
    /\ sent = [e \in Externals |-> 0]
    /\ killed = 0
    /\ crossed = {}

At(d, pc) == delivery[d].pc = pc

Carrying(e) == {d \in Deliveries : delivery[d] # Idle /\ delivery[d].ext = e}

\* The webhook, or the next event of a feed.
Deliver(d, e) ==
    /\ At(d, "idle") /\ sent[e] < MaxSent
    /\ sent' = [sent EXCEPT ![e] = @ + 1]
    /\ crossed' = IF Carrying(e) = {} THEN crossed ELSE crossed \cup {e}
    /\ delivery' = [delivery EXCEPT ![d] = [pc |-> "find", ext |-> e]]
    /\ UNCHANGED <<booked, linked, acked, killed>>

\* Fault: the lookup misses the row.
KnownNever(e) == FALSE

\* There is a row of e with a reservation.
Known(e) == linked[e] > 0 /\ e \notin NoUid

\* findUnique: a known reservation is answered at once.
Find(d) ==
    /\ At(d, "find")
    /\ LET e == delivery[d].ext IN
        IF Known(e)
          THEN /\ acked' = acked \cup {e}
               /\ delivery' = [delivery EXCEPT ![d] = Idle]
          ELSE /\ delivery' = [delivery EXCEPT ![d].pc = "book"]
               /\ UNCHANGED acked
    /\ UNCHANGED <<booked, linked, sent, killed, crossed>>

\* reservations.create ...
Book(d) ==
    /\ At(d, "book")
    /\ booked' = [booked EXCEPT ![delivery[d].ext] = @ + 1]
    /\ delivery' = [delivery EXCEPT ![d].pc = "link"]
    /\ UNCHANGED <<linked, acked, sent, killed, crossed>>

\* ... or it finds no room.
Refuse(d) ==
    /\ At(d, "book")
    /\ delivery' = [delivery EXCEPT ![d] = Idle]
    /\ UNCHANGED <<booked, linked, acked, sent, killed, crossed>>

\* The row is inserted, unless the key is taken: then the delivery fails, and what
\* it booked stays booked.
Link(d) ==
    /\ At(d, "link")
    /\ LET e == delivery[d].ext IN
        IF e \in NoUid \/ linked[e] = 0
          THEN /\ linked' = [linked EXCEPT ![e] = @ + 1]
               /\ acked' = acked \cup {e}
          ELSE UNCHANGED <<linked, acked>>
    /\ delivery' = [delivery EXCEPT ![d] = Idle]
    /\ UNCHANGED <<booked, sent, killed, crossed>>

Die(d) ==
    /\ ~ At(d, "idle") /\ killed < MaxKilled
    /\ killed' = killed + 1
    /\ crossed' = crossed \cup {delivery[d].ext}
    /\ delivery' = [delivery EXCEPT ![d] = Idle]
    /\ UNCHANGED <<booked, linked, acked, sent>>

Next == \E d \in Deliveries :
    \/ \E e \in Externals : Deliver(d, e)
    \/ Find(d) \/ Book(d) \/ Refuse(d) \/ Link(d) \/ Die(d)

Spec == Init /\ [][Next]_vars

-----------------------------------------------------------------------------
(* Properties                                                              *)

\* The values the rows and the deliveries can have.
TypeOK ==
    /\ \A f \in {booked, linked, sent} : f \in [Externals -> Nat]
    /\ acked \subseteq Externals /\ crossed \subseteq Externals
    /\ delivery \in [Deliveries -> {Idle} \cup [pc : {"find", "book", "link"}, ext : Externals]]
    /\ killed \in Nat

\* "Ingest an OTA reservation (idempotent by externalId)": what the agency was told
\* is booked has a row and a reservation; and however often a reservation is
\* delivered, refused and delivered again it is booked once, unless two deliveries
\* of it overlap, one dies, or the feed gives it no id.
IngestedOnce ==
    /\ \A e \in acked : linked[e] > 0 /\ booked[e] > 0
    /\ \A e \in Externals \ NoUid :
        /\ linked[e] <= 1
        /\ booked[e] >= linked[e]
        /\ e \notin crossed => booked[e] = linked[e] + Cardinality({d \in Carrying(e) : At(d, "link")})

=============================================================================
