---------------------------- MODULE OfflineSync ----------------------------
(***************************************************************************)
(* A write of the web app from the button to its effect: the offline queue *)
(* of one device (web/src/lib/api.ts, db.ts, hooks.ts), POST /sync of      *)
(* sync.service, and the idempotency keys of idempotency.service.          *)
(*                                                                         *)
(* A write is sent at once when the device is online, and queued when it   *)
(* is offline or its request fails.  The queue is replayed when the        *)
(* browser comes online and when the pending badge is clicked; nothing     *)
(* keeps two replays apart.  A request that lost its client still runs on  *)
(* the server.  A server crash kills every request between two of its      *)
(* awaits; a committed transaction stays.                                  *)
(*                                                                         *)
(* Abstracted: what a write does is the number of times its transaction    *)
(* committed; its own guards and validation are a refusal that may come or *)
(* not.  Left out: a tab closed while a write is being sent, and a session *)
(* that expires (the flush is then refused as a whole).                    *)
(***************************************************************************)
EXTENDS Naturals, Sequences, FiniteSets

CONSTANTS
    Ops,        \* writes of the device, each with the key it was given
    Kind,       \* Kind[o]: the endpoint that o is for
    Requests,   \* bound: requests on the server at once
    MaxApplied, \* bound: no request is sent once a write committed so often
    MaxCrashes  \* bound: crashes of the server

Kinds == {"reservation", "payment", "checkIn", "ticket", "other"}

ASSUME KindAssumption  == Kind \in [Ops -> Kinds]
ASSUME BoundAssumption == MaxApplied \in Nat /\ MaxCrashes \in Nat

VARIABLES
    online,   \* navigator.onLine
    queue,    \* the writes queued so far, in order of enqueuedAt
    outbox,   \* outbox[o]: the row of o in IndexedDB, or what came of its request
    req,      \* req[r]: a request on the server
    applied,  \* applied[o]: commits of o's transaction
    stored,   \* the keys with a stored response
    crashes,  \* crashes so far
    exposed   \* history: writes that ran twice at once, or during a crash

vars == <<online, queue, outbox, req, applied, stored, crashes, exposed>>

\* "sent" is a write whose first request is under way; "settled" one that was
\* answered with success, whose row, if it had one, is deleted.
Rows == {"unused", "sent", "pending", "failed", "settled", "refused"}

Idle == [pc |-> "idle", via |-> "direct", batch |-> <<>>, done |-> <<>>, waiting |-> FALSE]

Init ==
    /\ online \in BOOLEAN
    /\ queue = <<>>
    /\ outbox = [o \in Ops |-> "unused"]
    /\ req = [r \in Requests |-> Idle]
    /\ applied = [o \in Ops |-> 0]
    /\ stored = {}
    /\ crashes = 0
    /\ exposed = {}

In(o, s) == \E n \in DOMAIN s : s[n] = o

Free(r) == req[r].pc = "idle" /\ \A o \in Ops : applied[o] < MaxApplied

\* The writes that a live request is working on, or still will.
Running == {o \in Ops : \E r \in Requests : req[r].pc \notin {"idle", "dead"} /\ In(o, req[r].batch)}

Send(r, via, batch) ==
    /\ Free(r)
    /\ req' = [req EXCEPT ![r] = [pc |-> "next", via |-> via, batch |-> batch,
                                  done |-> <<>>, waiting |-> TRUE]]
    /\ exposed' = exposed \cup {o \in Running : In(o, batch)}

-----------------------------------------------------------------------------
(* The device                                                              *)

\* apiWrite, online: the request goes out with its key.
WriteOnline(r, o) ==
    /\ online
    /\ outbox[o] = "unused"
    /\ Send(r, "direct", <<o>>)
    /\ outbox' = [outbox EXCEPT ![o] = "sent"]
    /\ UNCHANGED <<online, queue, applied, stored, crashes>>

Enqueue(o) ==
    /\ outbox' = [outbox EXCEPT ![o] = "pending"]
    /\ queue' = Append(queue, o)

\* apiWrite, offline.
WriteOffline(o) ==
    /\ ~ online
    /\ outbox[o] = "unused"
    /\ Enqueue(o)
    /\ UNCHANGED <<online, req, applied, stored, crashes, exposed>>

Pending == {o \in Ops : outbox[o] = "pending"}

Before(o, p) == \E m, n \in DOMAIN queue : m < n /\ queue[m] = o /\ queue[n] = p

\* The pending rows in the order they were queued in: there is one such sequence.
Replays == {b \in [1 .. Cardinality(Pending) -> Pending] :
                \A m, n \in DOMAIN b : m < n => Before(b[m], b[n])}

\* flushQueue sends every pending row.
SendPending(r) == \E batch \in Replays : Send(r, "sync", batch)

\* The pending badge is clicked.
Flush(r) ==
    /\ online
    /\ Pending # {}
    /\ SendPending(r)
    /\ UNCHANGED <<online, queue, outbox, applied, stored, crashes>>

\* The browser's 'online' event flushes too.
GoOnline(r) ==
    /\ ~ online
    /\ online' = TRUE
    /\ \/ Pending = {} /\ UNCHANGED <<req, exposed>>
       \/ Pending # {} /\ SendPending(r)
    /\ UNCHANGED <<queue, outbox, applied, stored, crashes>>

GoOffline ==
    /\ online
    /\ online' = FALSE
    /\ UNCHANGED <<queue, outbox, req, applied, stored, crashes, exposed>>

\* The fetch fails with a TypeError: a direct write is queued under the key it
\* was sent with; the rows of a flush stay pending.
ClientFails(r) ==
    IF req[r].via = "direct" THEN Enqueue(req[r].batch[1]) ELSE UNCHANGED <<queue, outbox>>

\* The request never reaches the server.
Lost(r) ==
    /\ req[r].pc = "next" /\ req[r].done = <<>> /\ req[r].waiting
    /\ ClientFails(r)
    /\ req' = [req EXCEPT ![r] = Idle]
    /\ UNCHANGED <<online, applied, stored, crashes, exposed>>

\* The connection breaks; a live request goes on without its client.
Drop(r) ==
    /\ req[r].waiting
    /\ ClientFails(r)
    /\ req' = [req EXCEPT ![r] = IF @.pc = "dead" THEN Idle ELSE [@ EXCEPT !.waiting = FALSE]]
    /\ UNCHANGED <<online, applied, stored, crashes, exposed>>

-----------------------------------------------------------------------------
(* The server                                                              *)

Keyed(o) == Kind[o] \in {"reservation", "payment"}

\* The write a request is at, while there is one.
More(r) == Len(req[r].done) < Len(req[r].batch)
Op(r)   == req[r].batch[Len(req[r].done) + 1]

Result(r, ok) == [req EXCEPT ![r].done = Append(@, ok), ![r].pc = "next"]

\* Fault: stored responses are found for payments only.
KnownPayment(o) == Kind[o] = "payment" /\ o \in stored

\* idempotency.run finds a stored response for the key.
Known(o) == Keyed(o) /\ o \in stored

\* What /sync has no dispatch for.
Unsupported(r) == req[r].via = "sync" /\ Kind[Op(r)] = "other"

\* From one write to its transaction: the key is looked up, the guards are read.
Begin(r) ==
    /\ req[r].pc = "next" /\ More(r)
    /\ \/ /\ Known(Op(r))
          /\ req' = Result(r, TRUE)
       \/ /\ ~ Known(Op(r))
          /\ req' = Result(r, FALSE)
       \/ /\ ~ Known(Op(r)) /\ ~ Unsupported(r)
          /\ ~ (Kind[Op(r)] = "checkIn" /\ applied[Op(r)] > 0)
          /\ req' = [req EXCEPT ![r].pc = "commit"]
    /\ UNCHANGED <<online, queue, outbox, applied, stored, crashes, exposed>>

\* Fault: no unique index on the key of a reservation.
DuplicateNever(o) == FALSE

\* The unique index on Reservation.idempotencyKey; payments leave theirs null.
Duplicate(o) == Kind[o] = "reservation" /\ applied[o] > 0

Commit(r) ==
    LET o == Op(r) IN
    /\ req[r].pc = "commit"
    /\ \/ /\ Duplicate(o)
          /\ req' = Result(r, FALSE)
          /\ UNCHANGED applied
       \/ /\ ~ Duplicate(o)
          /\ applied' = [applied EXCEPT ![o] = @ + 1]
          /\ req' = IF Keyed(o) THEN [req EXCEPT ![r].pc = "store"] ELSE Result(r, TRUE)
    /\ UNCHANGED <<online, queue, outbox, stored, crashes, exposed>>

\* The response is stored under the key once the operation returned.
Store(r) ==
    /\ req[r].pc = "store"
    /\ stored' = stored \cup {Op(r)}
    /\ req' = Result(r, TRUE)
    /\ UNCHANGED <<online, queue, outbox, applied, crashes, exposed>>

\* Fault: the row is deleted whatever the answer.
AnsweredAlways(row, ok) == "settled"

\* A success deletes the row of the outbox; a failure marks it, if it is there.
Answered(row, ok) == IF ok \/ row = "settled" THEN "settled" ELSE "failed"

\* The response reaches the client, if there still is one.
Answer(r) ==
    LET me == req[r] IN
    /\ me.pc = "next" /\ ~ More(r)
    /\ \/ /\ ~ me.waiting
          /\ UNCHANGED outbox
       \/ /\ me.waiting /\ me.via = "direct"
          /\ outbox' = [outbox EXCEPT ![me.batch[1]] = IF me.done[1] THEN "settled" ELSE "refused"]
       \/ /\ me.waiting /\ me.via = "sync"
          /\ outbox' = [o \in Ops |->
                IF \E n \in DOMAIN me.batch : me.batch[n] = o
                THEN Answered(outbox[o], \E n \in DOMAIN me.batch : me.batch[n] = o /\ me.done[n])
                ELSE outbox[o]]
    /\ req' = [req EXCEPT ![r] = Idle]
    /\ UNCHANGED <<online, queue, applied, stored, crashes, exposed>>

\* Every request dies where it is; its client finds out when its fetch fails.
Crash ==
    /\ crashes < MaxCrashes
    /\ \E r \in Requests : req[r].pc \notin {"idle", "dead"}
    /\ crashes' = crashes + 1
    /\ req' = [r \in Requests |-> IF req[r].pc = "idle" THEN Idle
                                  ELSE IF req[r].waiting THEN [req[r] EXCEPT !.pc = "dead"]
                                  ELSE Idle]
    /\ exposed' = exposed \cup Running
    /\ UNCHANGED <<online, queue, outbox, applied, stored>>

-----------------------------------------------------------------------------

Next ==
    \/ \E r \in Requests :
        \/ \E o \in Ops : WriteOnline(r, o)
        \/ Flush(r) \/ GoOnline(r)
        \/ Lost(r) \/ Drop(r)
        \/ Begin(r) \/ Commit(r) \/ Store(r) \/ Answer(r)
    \/ \E o \in Ops : WriteOffline(o)
    \/ GoOffline
    \/ Crash

Spec == Init /\ [][Next]_vars

-----------------------------------------------------------------------------
(* Properties                                                              *)

\* The rows of the device and the requests of the server are well-formed.
TypeOK ==
    /\ online \in BOOLEAN
    /\ queue \in Seq(Ops)
    /\ outbox \in [Ops -> Rows]
    /\ req \in [Requests -> [pc : {"idle", "next", "commit", "store", "dead"},
                             via : {"direct", "sync"}, batch : Seq(Ops),
                             done : Seq(BOOLEAN), waiting : BOOLEAN]]
    /\ applied \in [Ops -> Nat]
    /\ stored \subseteq Ops /\ exposed \subseteq Ops
    /\ crashes \in 0 .. MaxCrashes

\* Nothing is lost: a write leaves the outbox (or is answered with success)
\* only once it took effect, whatever was dropped, replayed or crashed.
SettledWasApplied == \A o \in Ops : outbox[o] = "settled" => applied[o] > 0

\* A reservation is made once per key, however often and however concurrently
\* it is replayed.
BookedOnce == \A o \in Ops : Kind[o] = "reservation" => applied[o] <= 1

\* A payment is recorded, a guest checked in, once as long as no two requests
\* carry the write at once and the server does not crash under it: lost answers
\* and repeated replays do no harm.
OnceUnlessExposed ==
    \A o \in Ops : Kind[o] \in {"payment", "checkIn"} /\ o \notin exposed => applied[o] <= 1

\* Under the same condition a keyed write that is shown as failed, or that was
\* refused, had no effect, and one with a stored response had.
FailureIsTruthful ==
    \A o \in Ops : Keyed(o) /\ o \notin exposed =>
        /\ outbox[o] \in {"failed", "refused"} => applied[o] = 0
        /\ o \in stored <=> (applied[o] > 0 /\ \A r \in Requests : req[r].pc = "store" => Op(r) # o)

\* Whatever was dropped, replayed or crashed, no write takes effect twice but a
\* payment or a check-in that was exposed.
AppliedOnce == BookedOnce /\ OnceUnlessExposed

\* What the device shows of a write is what became of it.
OutcomeIsTruthful == SettledWasApplied /\ FailureIsTruthful

\* "replaying the same queued write twice has exactly one effect".
OneEffect == \A o \in Ops : applied[o] <= 1

=============================================================================
