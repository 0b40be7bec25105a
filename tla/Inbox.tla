------------------------------- MODULE Inbox -------------------------------
(***************************************************************************)
(* Messages from guests: the webhook of whatsapp.controller, the handling  *)
(* of one message by the orchestrator and messaging.service, and the reply *)
(* put on the queue.                                                       *)
(*                                                                         *)
(* The webhook answers 200 before it handles anything, so the provider     *)
(* sends a batch again only when it did not see the answer.  Every message *)
(* goes through IdempotencyService.run (looked up before, stored after).   *)
(* The sender is found or created, then the conversation: Guest has no key *)
(* on the phone, Conversation has one, so of two first messages at once    *)
(* one may fail.  A failure is logged and ends the batch.                  *)
(*                                                                         *)
(* Abstracted: staff as senders, the words of a reply and the tools called *)
(* for it; the sending of the queued reply, which the queue retries.       *)
(***************************************************************************)
EXTENDS Naturals, FiniteSets, Sequences

CONSTANTS
    Senders,
    Messages,   \* numbered
    From,       \* From[m]: the sender of m
    Says,       \* Says[m]: "stop", "start" or something else
    Batches,    \* batches a webhook may carry: sequences of messages
    Webhooks,   \* bound: webhooks in flight
    MaxGiven,   \* bound: webhooks delivered
    MaxFailed   \* bound: webhooks that die

VARIABLES
    guests,    \* guests[s]: the Guest rows of a phone, as a sequence of optedInMarketing
    convs,     \* senders with a Conversation
    inbound, outbound, queued,  \* per message: rows recorded, replies recorded and queued
    stored,    \* messages whose key has a response
    hook,      \* hook[w]: the webhook in flight
    given, failed,  \* used up
    asked,     \* history: messages delivered
    exposed,   \* history: messages in two webhooks at once, or in one that died
    dropped,   \* history: messages of a batch that a conversation ended
    raced      \* history: senders of whom two messages created at once

vars == <<guests, convs, inbound, outbound, queued, stored, hook, given, failed,
          asked, exposed, dropped, raced>>

Idle  == [pc |-> "idle", todo |-> <<>>]
Zero  == [m \in Messages |-> 0]

Init ==
    /\ guests = [s \in Senders |-> <<>>]
    /\ convs = {}
    /\ inbound = Zero /\ outbound = Zero /\ queued = Zero
    /\ stored = {}
    /\ hook = [w \in Webhooks |-> Idle]
    /\ given = 0 /\ failed = 0
    /\ asked = {} /\ exposed = {} /\ dropped = {} /\ raced = {}

At(w, pc) == hook[w].pc = pc
Msg(w)    == hook[w].todo[1]
Sender(w) == From[Msg(w)]
InBatch(todo) == {todo[k] : k \in DOMAIN todo}

Goto(w, pc) == hook' = [hook EXCEPT ![w].pc = pc]

\* The next message of the batch.
Done(w) ==
    hook' = [hook EXCEPT ![w] = IF Len(@.todo) = 1 THEN Idle ELSE [pc |-> "look", todo |-> Tail(@.todo)]]

\* The batch ends, its message and those after it unhandled.
Abandon(w) == hook' = [hook EXCEPT ![w] = Idle]

Underway == UNION {InBatch(hook[w].todo) : w \in Webhooks}

-----------------------------------------------------------------------------

\* receive: 200, then the batch.
Receive(w, batch) ==
    /\ hook[w] = Idle /\ given < MaxGiven
    /\ given' = given + 1
    /\ hook' = [hook EXCEPT ![w] = [pc |-> "look", todo |-> batch]]
    /\ asked' = asked \cup InBatch(batch)
    /\ exposed' = exposed \cup (InBatch(batch) \cap Underway)
    /\ UNCHANGED <<guests, convs, inbound, outbound, queued, stored, failed, dropped, raced>>

\* Fault: the key is the sender's, not the message's.
KnownBySender(m) == \E n \in stored : From[n] = From[m]

Known(m) == m \in stored

\* IdempotencyService.run looks the message up.
LookUp(w) ==
    /\ At(w, "look")
    /\ IF Known(Msg(w)) THEN Done(w) ELSE Goto(w, "sender")
    /\ UNCHANGED <<guests, convs, inbound, outbound, queued, stored, given, failed, asked, exposed, dropped, raced>>

\* Somebody else is about to create the guest or the conversation of w's sender.
Creating(w, pc) == \E v \in Webhooks \ {w} : At(v, pc) /\ Sender(v) = Sender(w)

\* resolveSender: findFirst of the guest ...
FindGuest(w) ==
    /\ At(w, "sender")
    /\ IF guests[Sender(w)] # <<>>
         THEN Goto(w, "conversation") /\ UNCHANGED raced
         ELSE /\ Goto(w, "newGuest")
              /\ raced' = IF Creating(w, "newGuest") THEN raced \cup {Sender(w)} ELSE raced
    /\ UNCHANGED <<guests, convs, inbound, outbound, queued, stored, given, failed, asked, exposed, dropped>>

\* ... and its creation.
CreateGuest(w) ==
    /\ At(w, "newGuest")
    /\ guests' = [guests EXCEPT ![Sender(w)] = Append(@, TRUE)]
    /\ Goto(w, "conversation")
    /\ UNCHANGED <<convs, inbound, outbound, queued, stored, given, failed, asked, exposed, dropped, raced>>

\* getOrCreateConversation: findUnique (an existing one may get the guest) ...
FindConversation(w) ==
    /\ At(w, "conversation")
    /\ IF Sender(w) \in convs
         THEN Goto(w, "inbound") /\ UNCHANGED raced
         ELSE /\ Goto(w, "newConversation")
              /\ raced' = IF Creating(w, "newConversation") THEN raced \cup {Sender(w)} ELSE raced
    /\ UNCHANGED <<guests, convs, inbound, outbound, queued, stored, given, failed, asked, exposed, dropped>>

\* ... and its creation, which fails if another was first.
CreateConversation(w) ==
    /\ At(w, "newConversation")
    /\ IF Sender(w) \in convs
         THEN /\ Abandon(w)
              /\ dropped' = dropped \cup InBatch(hook[w].todo)
              /\ UNCHANGED convs
         ELSE /\ convs' = convs \cup {Sender(w)}
              /\ Goto(w, "inbound")
              /\ UNCHANGED dropped
    /\ UNCHANGED <<guests, inbound, outbound, queued, stored, given, failed, asked, exposed, raced>>

RecordInbound(w) ==
    /\ At(w, "inbound")
    /\ inbound' = [inbound EXCEPT ![Msg(w)] = @ + 1]
    /\ Goto(w, IF Says[Msg(w)] = "other" THEN "reply" ELSE "consent")
    /\ UNCHANGED <<guests, convs, outbound, queued, stored, given, failed, asked, exposed, dropped, raced>>

\* STOP and START set the consent of the guest that findFirst gave.
SetConsent(w) ==
    /\ At(w, "consent")
    /\ \E k \in DOMAIN guests[Sender(w)] :
         guests' = [guests EXCEPT ![Sender(w)][k] = (Says[Msg(w)] = "start")]
    /\ Goto(w, "reply")
    /\ UNCHANGED <<convs, inbound, outbound, queued, stored, given, failed, asked, exposed, dropped, raced>>

RecordOutbound(w) ==
    /\ At(w, "reply")
    /\ outbound' = [outbound EXCEPT ![Msg(w)] = @ + 1]
    /\ Goto(w, "enqueue")
    /\ UNCHANGED <<guests, convs, inbound, queued, stored, given, failed, asked, exposed, dropped, raced>>

EnqueueText(w) ==
    /\ At(w, "enqueue")
    /\ queued' = [queued EXCEPT ![Msg(w)] = @ + 1]
    /\ Goto(w, "store")
    /\ UNCHANGED <<guests, convs, inbound, outbound, stored, given, failed, asked, exposed, dropped, raced>>

\* The response is stored under the key of the message.
Store(w) ==
    /\ At(w, "store")
    /\ stored' = stored \cup {Msg(w)}
    /\ Done(w)
    /\ UNCHANGED <<guests, convs, inbound, outbound, queued, given, failed, asked, exposed, dropped, raced>>

\* The process dies, or a statement fails: the same, since the answer is out.
Fail(w) ==
    /\ hook[w] # Idle /\ failed < MaxFailed
    /\ failed' = failed + 1
    /\ exposed' = exposed \cup InBatch(hook[w].todo)
    /\ Abandon(w)
    /\ UNCHANGED <<guests, convs, inbound, outbound, queued, stored, given, asked, dropped, raced>>

Next == \E w \in Webhooks :
    \/ \E batch \in Batches : Receive(w, batch)
    \/ LookUp(w) \/ FindGuest(w) \/ CreateGuest(w) \/ FindConversation(w) \/ CreateConversation(w)
    \/ RecordInbound(w) \/ SetConsent(w) \/ RecordOutbound(w) \/ EnqueueText(w) \/ Store(w) \/ Fail(w)

Spec == Init /\ [][Next]_vars

-----------------------------------------------------------------------------
(* Properties                                                              *)

\* The values the rows and the webhooks can have.
TypeOK ==
    /\ \A s \in Senders : \A k \in DOMAIN guests[s] : guests[s][k] \in BOOLEAN
    /\ convs \subseteq Senders /\ stored \subseteq Messages
    /\ \A f \in {inbound, outbound, queued} : f \in [Messages -> Nat]
    /\ \A w \in Webhooks : InBatch(hook[w].todo) \subseteq Messages

\* "Dedupe by provider message id - webhooks can be redelivered": a message in no
\* two webhooks at once and in none that died was recorded once, with one reply,
\* once on the queue, however often it was delivered; one is dropped only after
\* two messages met as the first of their sender; and without such a meeting a
\* sender has one Guest row, opted out once a STOP was answered.
HandledOnce ==
    /\ \A m \in asked \ (exposed \cup dropped \cup Underway) :
         inbound[m] = 1 /\ outbound[m] = 1 /\ queued[m] = 1
    /\ dropped # {} => raced # {}
    /\ \A s \in Senders \ raced :
        /\ Len(guests[s]) <= 1
        /\ \A m \in stored : From[m] = s /\ Says[m] = "stop"
             /\ (\A n \in Messages : From[n] = s => Says[n] # "start") => guests[s] = <<FALSE>>

=============================================================================
