----------------------------- MODULE SyncProofs -----------------------------
(***************************************************************************)
(* Proofs about OfflineSync for every set of writes and of requests, every *)
(* number of crashes and any bound on repeated effects.                    *)
(*                                                                         *)
(* The invariant has three parts beside the types.  Shape says what the    *)
(* rows of the device and the requests have to do with each other: a write *)
(* is queued once, a batch carries a write once, and a request sent by the *)
(* button is still the row's only one.  Effects says that an answer of     *)
(* success, a stored response and a deleted row stand for a commit.        *)
(* Unexposed says what is known of a write that no two requests ever       *)
(* carried at once and that no crash met: where it is on its way from the  *)
(* look-up of its key to the stored response decides whether it has taken  *)
(* effect.                                                                 *)
(***************************************************************************)
EXTENDS WebApp, FiniteSetTheorems, TLAPS

Live(r) == req[r].pc \notin {"idle", "dead"}

\* Writes that are to take effect once: those with a key, and the check-in.
Single(o) == Keyed(o) \/ Kind[o] = "checkIn"

Distinct(s) == \A m, n \in DOMAIN s : s[m] = s[n] => m = n

\* A row that has been queued, or had its request answered.
Past(row) == row \notin {"unused", "sent"}

WellFormed(q) ==
    /\ q.pc = "idle" => q = Idle
    /\ Len(q.done) <= Len(q.batch)
    /\ Distinct(q.batch)
    /\ q.pc \in {"commit", "store"} => Len(q.done) < Len(q.batch)
    /\ q.via = "direct" /\ q.pc # "idle" => Len(q.batch) = 1
    /\ q.waiting => q.pc # "idle"
    /\ q.via = "direct" /\ q.waiting => outbox[q.batch[1]] = "sent"
    /\ q.via = "sync" => \A n \in DOMAIN q.batch : Past(outbox[q.batch[n]])

\* A request whose answer decides what the button's write becomes.
Asking(r) == req[r].via = "direct" /\ req[r].waiting

Shape ==
    /\ Distinct(queue)
    /\ \A o \in Pending : In(o, queue)
    /\ \A n \in DOMAIN queue : Past(outbox[queue[n]])
    /\ \A r \in Requests : WellFormed(req[r])
    /\ \A r, t \in Requests : Asking(r) /\ Asking(t) /\ req[r].batch[1] = req[t].batch[1] => r = t

\* What a request reports as done, or is about to store the response of, was.
Reported(r) ==
    /\ \A n \in DOMAIN req[r].done : req[r].done[n] => applied[req[r].batch[n]] > 0
    /\ req[r].pc = "store" => Keyed(Op(r)) /\ applied[Op(r)] > 0

Effects ==
    /\ \A r \in Requests : Reported(r)
    /\ \A o \in stored : Keyed(o) /\ applied[o] > 0
    /\ SettledWasApplied
    /\ BookedOnce

\* The request r carries the write o, and may still commit it.
Carries(r, o) == Live(r) /\ In(o, req[r].batch)

\* The request r is at the write o, at the point pc.
At(r, pc, o) == req[r].pc = pc /\ Op(r) = o

Tracked(o) ==
    /\ \A r, t \in Requests : Carries(r, o) /\ Carries(t, o) => r = t
    /\ Keyed(o) /\ applied[o] > 0 => o \in stored \/ \E r \in Requests : At(r, "store", o)
    /\ \A r \in Requests : At(r, "commit", o) /\ Single(o) => applied[o] = 0
    /\ \A r \in Requests : At(r, "store", o) => o \notin stored
    /\ Single(o) => applied[o] <= 1
    /\ \A r \in Requests : \A n \in DOMAIN req[r].done :
          Carries(r, o) /\ req[r].batch[n] = o /\ Keyed(o) /\ ~ req[r].done[n] => applied[o] = 0
    /\ Keyed(o) /\ outbox[o] \in {"failed", "refused"} =>
          applied[o] = 0 /\ \A r \in Requests : ~ Carries(r, o)

Unexposed == \A o \in Ops \ exposed : Tracked(o)

-----------------------------------------------------------------------------
(* The types.                                                              *)

Request == [pc : {"idle", "next", "commit", "store", "dead"}, via : {"direct", "sync"},
            batch : Seq(Ops), done : Seq(BOOLEAN), waiting : BOOLEAN]

\* No request is a request record.
LEMMA IdleIsRequest == Idle \in Request
  BY DEF Idle, Request

\* A flush carries the pending rows, each once.
LEMMA ReplaysAreBatches ==
  ASSUME TypeOK, Shape, NEW b \in Replays
  PROVE  b \in Seq(Ops) /\ Distinct(b) /\ \A n \in DOMAIN b : b[n] \in Pending
<1> DEFINE Queued == {queue[n] : n \in 1 .. Len(queue)}
<1>1. queue \in Seq(Ops) /\ Len(queue) \in Nat /\ DOMAIN queue = 1 .. Len(queue)
  BY DEF TypeOK
<1>2. IsFiniteSet(Queued)
  <2>1. queue \in Surjection(1 .. Len(queue), Queued)
    BY <1>1 DEF Surjection
  <2>2. IsFiniteSet(1 .. Len(queue))
    BY <1>1, FS_Interval
  <2> QED
    BY <2>1, <2>2, FS_Surjection
<1>3. Pending \subseteq Queued
  BY <1>1 DEF Shape, In
<1>4. Cardinality(Pending) \in Nat
  BY <1>2, <1>3, FS_Subset, FS_CardinalityType
<1>5. b \in [1 .. Cardinality(Pending) -> Pending] /\ \A m, n \in DOMAIN b : m < n => Before(b[m], b[n])
  BY DEF Replays
<1>6. DOMAIN b = 1 .. Cardinality(Pending) /\ \A n \in DOMAIN b : b[n] \in Pending
  BY <1>5
<1>7. b \in Seq(Ops)
  BY <1>4, <1>5 DEF Pending
<1>8. Distinct(b)
  <2> SUFFICES ASSUME NEW m \in DOMAIN b, NEW n \in DOMAIN b, b[m] = b[n], m < n PROVE FALSE
    BY <1>4, <1>6 DEF Distinct
  <2>1. Before(b[m], b[n])
    BY <1>5
  <2> QED
    BY <1>1, <2>1 DEF Before, Shape, Distinct
<1> QED
  BY <1>6, <1>7, <1>8

\* A request starts with a batch of writes, the device queues one, a live
\* request moves to its next point: the records stay requests.
LEMMA RequestsStay ==
  ASSUME TypeOK, NEW r \in Requests
  PROVE  /\ \A via \in {"direct", "sync"}, b \in Seq(Ops) :
              [pc |-> "next", via |-> via, batch |-> b, done |-> <<>>, waiting |-> TRUE] \in Request
         /\ \A pc \in {"next", "commit", "store", "dead"} : [req[r] EXCEPT !.pc = pc] \in Request
         /\ \A ok \in BOOLEAN : [req[r] EXCEPT !.done = Append(@, ok), !.pc = "next"] \in Request
         /\ [req[r] EXCEPT !.waiting = FALSE] \in Request
         /\ req[r] \in Request
<1>1. req[r] \in Request
  BY DEF TypeOK, Request
<1>2. \A via \in {"direct", "sync"}, b \in Seq(Ops) :
              [pc |-> "next", via |-> via, batch |-> b, done |-> <<>>, waiting |-> TRUE] \in Request
  BY DEF Request
<1>3. \A pc \in {"next", "commit", "store", "dead"} : [req[r] EXCEPT !.pc = pc] \in Request
  BY <1>1 DEF Request
<1>4. \A ok \in BOOLEAN : [req[r] EXCEPT !.done = Append(@, ok), !.pc = "next"] \in Request
  <2>1. \A ok \in BOOLEAN : Append(req[r].done, ok) \in Seq(BOOLEAN)
    BY <1>1 DEF Request
  <2> QED
    BY <1>1, <2>1 DEF Request
<1>5. [req[r] EXCEPT !.waiting = FALSE] \in Request
  BY <1>1 DEF Request
<1> QED
  BY <1>1, <1>2, <1>3, <1>4, <1>5

\* The write a request is at is a write.
LEMMA OpIsWrite ==
  ASSUME TypeOK, NEW r \in Requests, More(r)
  PROVE  /\ Op(r) \in Ops /\ Len(req[r].done) \in Nat
         /\ Len(req[r].done) + 1 \in DOMAIN req[r].batch
<1>1. req[r] \in Request
  BY RequestsStay
<1>2. /\ Len(req[r].done) \in Nat /\ Len(req[r].batch) \in Nat
      /\ DOMAIN req[r].batch = 1 .. Len(req[r].batch)
      /\ \A n \in 1 .. Len(req[r].batch) : req[r].batch[n] \in Ops
  BY <1>1 DEF Request
<1> QED
  BY <1>2 DEF More, Op

\* The write of a request sent by the button is a write.
LEMMA ButtonIsWrite ==
  ASSUME TypeOK, Shape, NEW r \in Requests, req[r].via = "direct", req[r].pc # "idle"
  PROVE  req[r].batch \in Seq(Ops) /\ Len(req[r].batch) = 1 /\ req[r].batch[1] \in Ops
<1>1. req[r] \in Request
  BY RequestsStay
<1>2. Len(req[r].batch) = 1
  BY DEF Shape, WellFormed
<1> QED
  BY <1>1, <1>2 DEF Request

\* A failed fetch queues a write, or leaves the device's rows alone.
LEMMA FailureKeepsType ==
  ASSUME TypeOK, Shape, NEW r \in Requests, req[r].pc # "idle", ClientFails(r)
  PROVE  queue' \in Seq(Ops) /\ outbox' \in [Ops -> Rows]
<1>1. CASE req[r].via = "direct"
  <2> DEFINE o == req[r].batch[1]
  <2>1. o \in Ops /\ Enqueue(o)
    BY <1>1, ButtonIsWrite DEF ClientFails
  <2> HIDE DEF o
  <2> QED
    BY <2>1 DEF Enqueue, TypeOK, Rows
<1>2. CASE req[r].via # "direct"
  BY <1>2 DEF ClientFails, TypeOK
<1> QED
  BY <1>1, <1>2

\* A flush or the button sends a request.
LEMMA SendKeepsType ==
  ASSUME TypeOK, NEW r \in Requests, NEW via \in {"direct", "sync"}, NEW b \in Seq(Ops), Send(r, via, b)
  PROVE  req' \in [Requests -> Request] /\ exposed' \subseteq Ops
<1>1. [pc |-> "next", via |-> via, batch |-> b, done |-> <<>>, waiting |-> TRUE] \in Request
  BY RequestsStay
<1>2. req \in [Requests -> Request]
  BY DEF TypeOK, Request
<1> QED
  BY <1>1, <1>2 DEF Send, Running, TypeOK

\* The server works on a request.
LEMMA WorkKeepsType ==
  ASSUME TypeOK, Shape, NEW r \in Requests, Begin(r) \/ Commit(r) \/ Store(r)
  PROVE  TypeOK'
<1>1. req \in [Requests -> Request]
  BY DEF TypeOK, Request
<1>2. More(r)
  BY DEF Begin, Commit, Store, Shape, WellFormed, More
<1>3. Op(r) \in Ops
  BY <1>2, OpIsWrite
<1>4. CASE Begin(r)
  <2>1. req' \in [Requests -> Request]
    BY <1>1, <1>4, RequestsStay DEF Begin, Result
  <2> QED
    BY <1>4, <2>1 DEF Begin, TypeOK, Request
<1>5. CASE Commit(r)
  <2>1. req' \in [Requests -> Request]
    BY <1>1, <1>5, RequestsStay DEF Commit, Result
  <2>2. applied' \in [Ops -> Nat]
    <3> DEFINE o == Op(r)
    <3>1. UNCHANGED applied \/ applied' = [applied EXCEPT ![o] = @ + 1]
      BY <1>5 DEF Commit
    <3>2. o \in Ops /\ applied \in [Ops -> Nat] /\ applied[o] + 1 \in Nat
      BY <1>3 DEF TypeOK
    <3> HIDE DEF o
    <3> QED
      BY <3>1, <3>2
  <2> QED
    BY <1>5, <2>1, <2>2 DEF Commit, TypeOK, Request
<1>6. CASE Store(r)
  <2>1. req' \in [Requests -> Request]
    BY <1>1, <1>6, RequestsStay DEF Store, Result
  <2> QED
    BY <1>3, <1>6, <2>1 DEF Store, TypeOK, Request
<1> QED
  BY <1>4, <1>5, <1>6

\* A request is answered, or loses its client.
LEMMA EndKeepsType ==
  ASSUME TypeOK, Shape, NEW r \in Requests, Lost(r) \/ Drop(r) \/ Answer(r)
  PROVE  TypeOK'
<1>1. req \in [Requests -> Request]
  BY DEF TypeOK, Request
<1>2. CASE Lost(r)
  <2>1. req' \in [Requests -> Request]
    BY <1>1, <1>2, IdleIsRequest DEF Lost
  <2>2. queue' \in Seq(Ops) /\ outbox' \in [Ops -> Rows]
    BY <1>2, FailureKeepsType DEF Lost
  <2> QED
    BY <1>2, <2>1, <2>2 DEF Lost, TypeOK, Request
<1>3. CASE Drop(r)
  <2>1. req' \in [Requests -> Request]
    BY <1>1, <1>3, IdleIsRequest, RequestsStay DEF Drop
  <2>2. queue' \in Seq(Ops) /\ outbox' \in [Ops -> Rows]
    BY <1>3, FailureKeepsType DEF Drop, Shape, WellFormed
  <2> QED
    BY <1>3, <2>1, <2>2 DEF Drop, TypeOK, Request
<1>4. CASE Answer(r)
  <2>1. req' \in [Requests -> Request]
    BY <1>1, <1>4, IdleIsRequest DEF Answer
  <2>2. outbox' \in [Ops -> Rows]
    <3>1. CASE UNCHANGED outbox
      BY <3>1 DEF TypeOK
    <3>2. CASE outbox' = [outbox EXCEPT ![req[r].batch[1]] = IF req[r].done[1] THEN "settled" ELSE "refused"]
      BY <3>2 DEF TypeOK, Rows
    <3>3. CASE req[r].via = "sync" /\ req[r].waiting
      BY <1>4, <3>3 DEF Answer, Answered, TypeOK, Rows
    <3> QED
      BY <1>4, <3>1, <3>2, <3>3 DEF Answer
  <2> QED
    BY <1>4, <2>1, <2>2 DEF Answer, TypeOK, Request
<1> QED
  BY <1>2, <1>3, <1>4

\* The rows of the device and the requests keep their types.
THEOREM TypeStep == TypeOK /\ Shape /\ [Next]_vars => TypeOK'
<1> SUFFICES ASSUME TypeOK, Shape, [Next]_vars PROVE TypeOK'
  OBVIOUS
<1>1. ASSUME NEW r \in Requests, NEW o \in Ops, WriteOnline(r, o) PROVE TypeOK'
  <2>1. <<o>> \in Seq(Ops)
    OBVIOUS
  <2>2. req' \in [Requests -> Request] /\ exposed' \subseteq Ops
    BY <1>1, <2>1, SendKeepsType DEF WriteOnline
  <2> QED
    BY <1>1, <2>2 DEF WriteOnline, TypeOK, Request, Rows
<1>2. ASSUME NEW r \in Requests, Flush(r) \/ GoOnline(r) PROVE TypeOK'
  <2>1. req' \in [Requests -> Request] /\ exposed' \subseteq Ops
    <3>1. CASE SendPending(r)
      <4>1. PICK b \in Replays : Send(r, "sync", b)
        BY <3>1 DEF SendPending
      <4> QED
        BY <4>1, ReplaysAreBatches, SendKeepsType
    <3>2. CASE UNCHANGED <<req, exposed>>
      BY <3>2 DEF TypeOK, Request
    <3> QED
      BY <1>2, <3>1, <3>2 DEF Flush, GoOnline
  <2> QED
    BY <1>2, <2>1 DEF Flush, GoOnline, TypeOK, Request
<1>3. ASSUME NEW o \in Ops, WriteOffline(o) PROVE TypeOK'
  BY <1>3 DEF WriteOffline, Enqueue, TypeOK, Rows
<1>4. CASE GoOffline
  BY <1>4 DEF GoOffline, TypeOK
<1>5. CASE Crash
  <2>1. \A r \in Requests : req'[r] \in Request
    BY <1>5, IdleIsRequest, RequestsStay DEF Crash
  <2>2. req' \in [Requests -> Request]
    BY <1>5, <2>1 DEF Crash
  <2>3. crashes' \in 0 .. MaxCrashes
    BY <1>5, BoundAssumption DEF Crash, TypeOK
  <2>4. exposed' \subseteq Ops
    BY <1>5 DEF Crash, Running, TypeOK
  <2> QED
    BY <1>5, <2>2, <2>3, <2>4 DEF Crash, TypeOK, Request
<1>6. CASE UNCHANGED vars
  BY <1>6 DEF vars, TypeOK
<1> QED
  BY <1>1, <1>2, <1>3, <1>4, <1>5, <1>6, WorkKeepsType, EndKeepsType DEF Next

-----------------------------------------------------------------------------
(* The shape of the queue and of the requests.                             *)

QueueShape ==
    /\ Distinct(queue)
    /\ \A o \in Pending : In(o, queue)
    /\ \A n \in DOMAIN queue : Past(outbox[queue[n]])

\* A row that was not queued before is queued.
LEMMA EnqueueKeepsQueue ==
  ASSUME TypeOK, QueueShape, NEW o \in Ops, ~ Past(outbox[o]), Enqueue(o)
  PROVE  QueueShape'
<1>1. /\ queue \in Seq(Ops) /\ outbox \in [Ops -> Rows]
      /\ queue' = Append(queue, o) /\ outbox' = [outbox EXCEPT ![o] = "pending"]
  BY DEF TypeOK, Enqueue
<1>2. /\ DOMAIN queue' = 1 .. (Len(queue) + 1) /\ Len(queue) \in Nat
      /\ DOMAIN queue = 1 .. Len(queue)
      /\ \A n \in 1 .. Len(queue) : queue'[n] = queue[n] /\ queue[n] \in Ops
      /\ queue'[Len(queue) + 1] = o
  BY <1>1
<1>3. \A n \in 1 .. Len(queue) : queue[n] # o
  BY <1>2 DEF QueueShape
<1>4. Distinct(queue')
  BY <1>2, <1>3 DEF QueueShape, Distinct
<1>5. \A p \in Pending' : In(p, queue')
  <2> SUFFICES ASSUME NEW p \in Ops, outbox'[p] = "pending" PROVE \E n \in DOMAIN queue' : queue'[n] = p
    BY DEF Pending, In
  <2>1. CASE p = o
    BY <1>2, <2>1
  <2>2. CASE p # o
    <3>1. \E n \in 1 .. Len(queue) : queue[n] = p
      BY <1>1, <1>2, <2>2 DEF QueueShape, Pending, In
    <3> QED
      BY <1>2, <3>1
  <2> QED
    BY <2>1, <2>2
<1>6. \A n \in DOMAIN queue' : Past(outbox'[queue'[n]])
  BY <1>1, <1>2, <1>3 DEF QueueShape, Past
<1> QED
  BY <1>4, <1>5, <1>6 DEF QueueShape

\* Rows that are not queued anew, with the queue left alone.
LEMMA AnswerKeepsQueue ==
  ASSUME TypeOK, QueueShape, UNCHANGED queue,
         \A o \in Ops : Past(outbox[o]) => Past(outbox'[o]),
         \A o \in Ops : outbox'[o] = "pending" => outbox[o] = "pending"
  PROVE  QueueShape'
<1>1. \A n \in DOMAIN queue : queue[n] \in Ops
  BY DEF TypeOK
<1> QED
  BY <1>1 DEF QueueShape, Pending, In, Distinct

\* A request that is left alone stays well-formed if the row it asks for does
\* not change and none of its batch is taken back.
LEMMA OthersStayWellFormed ==
  ASSUME TypeOK, NEW t \in Requests, WellFormed(req[t]), req'[t] = req[t],
         \A o \in Ops : Past(outbox[o]) => Past(outbox'[o]),
         Asking(t) => outbox'[req[t].batch[1]] = outbox[req[t].batch[1]]
  PROVE  WellFormed(req[t])'
<1>1. req[t].batch \in Seq(Ops)
  BY DEF TypeOK
<1> QED
  BY <1>1 DEF WellFormed, Asking, Distinct

\* The questions that are open: a request that is not asked anew adds none.
LEMMA AskingStaysUnique ==
  ASSUME Shape, 
         \A t \in Requests : Asking(t)' => Asking(t) /\ req'[t].batch = req[t].batch
  PROVE  \A t, u \in Requests : Asking(t)' /\ Asking(u)' /\ req'[t].batch[1] = req'[u].batch[1] => t = u
  BY DEF Shape

\* The server works on a request: what it carries and for whom stays.
LEMMA WorkKeepsRequest ==
  ASSUME TypeOK, Shape, NEW r \in Requests, Begin(r) \/ Commit(r) \/ Store(r)
  PROVE  /\ req' = [req EXCEPT ![r] = req'[r]]
         /\ req'[r].via = req[r].via /\ req'[r].batch = req[r].batch
         /\ req'[r].waiting = req[r].waiting
         /\ More(r)
         /\ \/ req'[r].pc \in {"commit", "store"} /\ req'[r].done = req[r].done
            \/ req'[r].pc = "next" /\ \E ok \in BOOLEAN : req'[r].done = Append(req[r].done, ok)
         /\ UNCHANGED <<outbox, queue, online, crashes, exposed>>
<1>1. req[r] \in Request /\ req \in [Requests -> Request]
  BY RequestsStay DEF TypeOK, Request
<1>2. More(r)
  BY DEF Begin, Commit, Store, Shape, WellFormed, More
<1>3. PICK q \in {[req[r] EXCEPT !.pc = "commit"], [req[r] EXCEPT !.pc = "store"]}
                 \cup {[req[r] EXCEPT !.done = Append(@, ok), !.pc = "next"] : ok \in BOOLEAN} :
         req' = [req EXCEPT ![r] = q]
  BY ZenonT(40) DEF Begin, Commit, Store, Result
<1>4. req'[r] = q
  BY <1>1, <1>3
<1>5. /\ q.via = req[r].via /\ q.batch = req[r].batch /\ q.waiting = req[r].waiting
      /\ \/ q.pc \in {"commit", "store"} /\ q.done = req[r].done
         \/ q.pc = "next" /\ \E ok \in BOOLEAN : q.done = Append(req[r].done, ok)
  BY <1>1, <1>3 DEF Request
<1>6. UNCHANGED <<outbox, queue, online, crashes, exposed>>
  BY DEF Begin, Commit, Store
<1> QED
  BY <1>2, <1>3, <1>4, <1>5, <1>6

LEMMA WorkKeepsShape ==
  ASSUME TypeOK, Shape, NEW r \in Requests, Begin(r) \/ Commit(r) \/ Store(r)
  PROVE  Shape'
<1>1. req[r] \in Request /\ req \in [Requests -> Request]
  BY RequestsStay DEF TypeOK, Request
<1>2. QueueShape'
  BY WorkKeepsRequest DEF Shape, QueueShape, Pending, In
<1>3. \A t \in Requests : Asking(t)' => Asking(t) /\ req'[t].batch = req[t].batch
  BY <1>1, WorkKeepsRequest DEF Asking
<1>4. ASSUME NEW t \in Requests PROVE WellFormed(req[t])'
  <2>1. CASE t # r
    BY <1>1, <2>1, OthersStayWellFormed, WorkKeepsRequest DEF Shape
  <2>2. CASE t = r
    <3>1. /\ Len(req[r].done) \in Nat /\ Len(req[r].batch) \in Nat
          /\ Len(req[r].done) < Len(req[r].batch)
          /\ \A ok \in BOOLEAN : Len(Append(req[r].done, ok)) = Len(req[r].done) + 1
      BY <1>1, WorkKeepsRequest DEF More, Request
    <3>2. WellFormed(req[r]) /\ req[r].pc # "idle"
      BY DEF Shape, Begin, Commit, Store
    <3>3. Len(req'[r].done) <= Len(req'[r].batch)
      BY <3>1, WorkKeepsRequest
    <3>4. req'[r].pc \in {"commit", "store"} => Len(req'[r].done) < Len(req'[r].batch)
      BY <3>1, WorkKeepsRequest
    <3> QED
      BY <2>2, <3>2, <3>3, <3>4, WorkKeepsRequest DEF WellFormed, Distinct
  <2> QED
    BY <2>1, <2>2
<1> QED
  BY <1>2, <1>3, <1>4, AskingStaysUnique DEF Shape, QueueShape

\* A request that ended, or goes on without its client, is well-formed
\* whatever the device made of its rows.
LEMMA EndedIsWellFormed ==
  ASSUME TypeOK, NEW r \in Requests, WellFormed(req[r]), req[r].waiting,
         req'[r] = Idle \/ req'[r] = [req[r] EXCEPT !.waiting = FALSE],
         req[r].via = "sync" => UNCHANGED outbox
  PROVE  WellFormed(req[r])' /\ ~ Asking(r)'
<1>1. req[r] \in Request
  BY RequestsStay
<1>2. CASE req'[r] = Idle
  BY <1>2 DEF WellFormed, Idle, Distinct, Asking
<1>3. CASE req'[r] = [req[r] EXCEPT !.waiting = FALSE]
  <2>1. /\ req'[r].pc = req[r].pc /\ req'[r].via = req[r].via /\ req'[r].batch = req[r].batch
        /\ req'[r].done = req[r].done /\ req'[r].waiting = FALSE
    BY <1>1, <1>3 DEF Request
  <2>2. req[r].pc # "idle" /\ (req[r].via = "direct" \/ req[r].via = "sync")
    BY <1>1 DEF WellFormed, Request
  <2> QED
    BY <2>1, <2>2 DEF WellFormed, Distinct, Asking
<1> QED
  BY <1>2, <1>3

\* A failed fetch queues the row of the button's write, or leaves all alone.
LEMMA FailureKeepsShape ==
  ASSUME TypeOK, Shape, NEW r \in Requests, req[r].waiting, ClientFails(r),
         req' \in [Requests -> Request], \A t \in Requests \ {r} : req'[t] = req[t],
         req'[r] = Idle \/ req'[r] = [req[r] EXCEPT !.waiting = FALSE]
  PROVE  Shape'
<1>1. req[r] \in Request /\ WellFormed(req[r]) /\ QueueShape
  BY RequestsStay DEF Shape, QueueShape
<1>2. req[r].pc # "idle"
  BY <1>1 DEF WellFormed
<1>3. req[r].via = "sync" => UNCHANGED <<outbox, queue>>
  BY DEF ClientFails
<1>4. WellFormed(req[r])' /\ ~ Asking(r)'
  BY <1>1, <1>3, EndedIsWellFormed
<1>5. \A t \in Requests : Asking(t)' => Asking(t) /\ req'[t].batch = req[t].batch
  BY <1>4 DEF Asking
<1>6. CASE UNCHANGED <<outbox, queue>>
  <2>1. QueueShape'
    BY <1>1, <1>6 DEF QueueShape, Pending, In
  <2>2. \A t \in Requests \ {r} : WellFormed(req[t])'
    BY <1>6, OthersStayWellFormed DEF Shape
  <2> QED
    BY <1>4, <1>5, <2>1, <2>2, AskingStaysUnique DEF Shape, QueueShape
<1>7. CASE req[r].via = "direct"
  <2> DEFINE o == req[r].batch[1]
  <2>1. o \in Ops /\ outbox[o] = "sent" /\ Enqueue(o)
    BY <1>1, <1>2, <1>7, ButtonIsWrite DEF ClientFails, WellFormed
  <2>2. Asking(r) /\ \A t \in Requests \ {r} : Asking(t) => req[t].batch[1] # o
    BY <1>7 DEF Asking, Shape
  <2> HIDE DEF o
  <2>3. QueueShape'
    BY <1>1, <2>1, EnqueueKeepsQueue DEF Past
  <2>4. outbox \in [Ops -> Rows] /\ outbox' = [outbox EXCEPT ![o] = "pending"]
    BY <2>1 DEF TypeOK, Enqueue
  <2>5. ASSUME NEW t \in Requests \ {r} PROVE WellFormed(req[t])'
    <3>1. \A p \in Ops : Past(outbox[p]) => Past(outbox'[p])
      BY <2>1, <2>4 DEF Past
    <3>2. Asking(t) => outbox'[req[t].batch[1]] = outbox[req[t].batch[1]]
      <4>1. SUFFICES ASSUME Asking(t) PROVE outbox'[req[t].batch[1]] = outbox[req[t].batch[1]]
        OBVIOUS
      <4>2. req[t].pc # "idle" /\ req[t].via = "direct"
        BY <4>1 DEF Asking, Shape, WellFormed
      <4>3. req[t].batch[1] \in Ops
        BY <4>2, ButtonIsWrite
      <4> QED
        BY <2>2, <2>4, <4>1, <4>3
    <3> QED
      BY <3>1, <3>2, OthersStayWellFormed DEF Shape
  <2> QED
    BY <1>4, <1>5, <2>3, <2>5, AskingStaysUnique DEF Shape, QueueShape
<1> QED
  BY <1>1, <1>3, <1>6, <1>7 DEF Request

\* An answer moves the rows of its batch on: a row the request carried is
\* settled, failed or refused, and no other row changes.
LEMMA AnswerRows ==
  ASSUME TypeOK, Shape, NEW r \in Requests, Answer(r), NEW o \in Ops
  PROVE  \/ outbox'[o] = outbox[o]
         \/ /\ In(o, req[r].batch) /\ req[r].waiting
            /\ outbox'[o] \in {"settled", "failed", "refused"}
            /\ Asking(r) => o = req[r].batch[1]
            /\ ~ Asking(r) => Past(outbox[o])
<1>1. req[r] \in Request /\ WellFormed(req[r]) /\ outbox \in [Ops -> Rows]
  BY RequestsStay DEF Shape, TypeOK
<1>2. CASE ~ req[r].waiting
  BY <1>2 DEF Answer
<1>3. CASE req[r].waiting /\ req[r].via = "direct"
  <2> DEFINE p == req[r].batch[1]
  <2>1. p \in Ops /\ Len(req[r].batch) = 1 /\ req[r].batch \in Seq(Ops)
    BY <1>1, <1>3, ButtonIsWrite DEF WellFormed
  <2>2. In(p, req[r].batch)
    BY <2>1 DEF In
  <2>3. outbox' = [outbox EXCEPT ![p] = IF req[r].done[1] THEN "settled" ELSE "refused"]
    BY <1>3 DEF Answer
  <2> HIDE DEF p
  <2>4. o # p => outbox'[o] = outbox[o]
    BY <1>1, <2>3
  <2>5. outbox'[p] \in {"settled", "failed", "refused"}
    BY <1>1, <2>1, <2>3
  <2>6. CASE o = p
    BY <1>3, <2>2, <2>5, <2>6 DEF Asking, p
  <2> QED
    BY <2>4, <2>6
<1>4. CASE req[r].waiting /\ req[r].via = "sync"
  <2>1. outbox'[o] = IF In(o, req[r].batch)
                     THEN Answered(outbox[o], \E n \in DOMAIN req[r].batch : req[r].batch[n] = o /\ req[r].done[n])
                     ELSE outbox[o]
    BY <1>4 DEF Answer, In
  <2>2. In(o, req[r].batch) => Past(outbox[o])
    BY <1>1, <1>4 DEF In, WellFormed
  <2> QED
    BY <1>4, <2>1, <2>2 DEF Answered, Asking
<1> QED
  BY <1>1, <1>2, <1>3, <1>4 DEF Request

\* The answer leaves the queue and the other requests in shape.
LEMMA AnswerKeepsShape ==
  ASSUME TypeOK, Shape, NEW r \in Requests, Answer(r)
  PROVE  Shape'
<1>1. req' = [req EXCEPT ![r] = Idle] /\ req \in [Requests -> Request] /\ UNCHANGED queue
  BY DEF Answer, TypeOK, Request
<1>2. \A t \in Requests : Asking(t)' => Asking(t) /\ req'[t].batch = req[t].batch
  BY <1>1 DEF Asking, Idle
<1>3. \A o \in Ops : Past(outbox[o]) => Past(outbox'[o])
  BY AnswerRows DEF Past
<1>4. QueueShape'
  <2>1. \A o \in Ops : outbox'[o] = "pending" => outbox[o] = "pending"
    BY AnswerRows
  <2> QED
    BY <1>1, <1>3, <2>1, AnswerKeepsQueue DEF Shape, QueueShape
<1>5. ASSUME NEW t \in Requests PROVE WellFormed(req[t])'
  <2>1. CASE t = r
    BY <1>1, <2>1 DEF WellFormed, Idle, Distinct
  <2>2. CASE t # r
    <3>1. Asking(t) => outbox'[req[t].batch[1]] = outbox[req[t].batch[1]]
      <4>1. SUFFICES ASSUME Asking(t) PROVE outbox'[req[t].batch[1]] = outbox[req[t].batch[1]]
        OBVIOUS
      <4>2. req[t].batch[1] \in Ops /\ outbox[req[t].batch[1]] = "sent"
        BY <4>1, ButtonIsWrite DEF Asking, Shape, WellFormed
      <4>3. Asking(r) => req[t].batch[1] # req[r].batch[1]
        BY <2>2, <4>1 DEF Shape
      <4> QED
        BY <4>2, <4>3, AnswerRows DEF Past
    <3> QED
      BY <1>1, <1>3, <2>2, <3>1, OthersStayWellFormed DEF Shape
  <2> QED
    BY <2>1, <2>2
<1> QED
  BY <1>2, <1>4, <1>5, AskingStaysUnique DEF Shape, QueueShape

\* A new request carries rows that were never sent, or rows that are pending.
LEMMA SendKeepsShape ==
  ASSUME TypeOK, Shape, NEW r \in Requests, NEW via \in {"direct", "sync"}, NEW b \in Seq(Ops),
         Send(r, via, b), Distinct(b), UNCHANGED queue,
         \/ /\ via = "direct" /\ Len(b) = 1 /\ outbox[b[1]] = "unused"
            /\ outbox' = [outbox EXCEPT ![b[1]] = "sent"]
         \/ /\ via = "sync" /\ UNCHANGED outbox
            /\ \A n \in DOMAIN b : b[n] \in Pending
  PROVE  Shape'
<1> DEFINE q == [pc |-> "next", via |-> via, batch |-> b, done |-> <<>>, waiting |-> TRUE]
<1>1. req' = [req EXCEPT ![r] = q] /\ req \in [Requests -> Request] /\ outbox \in [Ops -> Rows]
  BY DEF Send, TypeOK, Request
<1>2. Len(b) \in Nat /\ DOMAIN b = 1 .. Len(b) /\ \A n \in DOMAIN b : b[n] \in Ops
  OBVIOUS
<1>3. \A o \in Ops : Past(outbox[o]) => Past(outbox'[o])
  BY <1>1, <1>2 DEF Past
<1>4. QueueShape'
  <2>1. \A o \in Ops : outbox'[o] = "pending" => outbox[o] = "pending"
    BY <1>1, <1>2
  <2> QED
    BY <1>3, <2>1, AnswerKeepsQueue DEF Shape, QueueShape
<1>5. WellFormed(req[r])'
  <2>1. req'[r] = q
    BY <1>1
  <2>2. via = "direct" => outbox'[b[1]] = "sent"
    BY <1>1, <1>2
  <2>3. via = "sync" => \A n \in DOMAIN b : Past(outbox'[b[n]])
    BY DEF Pending, Past
  <2> QED
    BY <1>2, <2>1, <2>2, <2>3 DEF WellFormed, Distinct
<1>6. ASSUME NEW t \in Requests \ {r}, Asking(t)
      PROVE  /\ outbox'[req[t].batch[1]] = outbox[req[t].batch[1]]
             /\ via = "direct" => req[t].batch[1] # b[1]
  <2>1. req[t].batch[1] \in Ops /\ outbox[req[t].batch[1]] = "sent"
    BY <1>6, ButtonIsWrite DEF Asking, Shape, WellFormed
  <2> QED
    BY <1>1, <1>2, <2>1
<1>7. \A t \in Requests \ {r} : WellFormed(req[t])'
  BY <1>1, <1>3, <1>6, OthersStayWellFormed DEF Shape
<1>8. \A t, u \in Requests : Asking(t)' /\ Asking(u)' /\ req'[t].batch[1] = req'[u].batch[1] => t = u
  <2>1. \A t \in Requests \ {r} : req'[t] = req[t] /\ (Asking(t)' <=> Asking(t))
    BY <1>1 DEF Asking
  <2>2. req'[r].batch = b /\ (Asking(r)' <=> via = "direct")
    BY <1>1 DEF Asking
  <2> QED
    BY <1>6, <2>1, <2>2 DEF Shape
<1> QED
  BY <1>4, <1>5, <1>7, <1>8 DEF Shape, QueueShape

\* A crash stops requests where they are.
LEMMA CrashKeepsShape ==
  ASSUME TypeOK, Shape, Crash
  PROVE  Shape'
<1>1. UNCHANGED <<queue, outbox>> /\ req \in [Requests -> Request]
  BY DEF Crash, TypeOK, Request
<1>2. ASSUME NEW t \in Requests
      PROVE  \/ req'[t] = Idle
             \/ /\ req'[t].pc = "dead" /\ req[t].pc # "idle"
                /\ req'[t].via = req[t].via /\ req'[t].batch = req[t].batch
                /\ req'[t].done = req[t].done /\ req'[t].waiting = req[t].waiting
  BY <1>1 DEF Crash, Request
<1>3. QueueShape'
  BY <1>1 DEF Shape, QueueShape, Pending, In
<1>4. \A t \in Requests : WellFormed(req[t])'
  <2> SUFFICES ASSUME NEW t \in Requests PROVE WellFormed(req[t])'
    OBVIOUS
  <2>1. CASE req'[t] = Idle
    BY <2>1 DEF WellFormed, Idle, Distinct
  <2>2. CASE req'[t] # Idle
    BY <1>1, <1>2, <2>2 DEF WellFormed, Shape, Distinct
  <2> QED
    BY <2>1, <2>2
<1>5. \A t \in Requests : Asking(t)' => Asking(t) /\ req'[t].batch = req[t].batch
  BY <1>2 DEF Asking, Idle
<1> QED
  BY <1>3, <1>4, <1>5, AskingStaysUnique DEF Shape, QueueShape

\* Every step keeps the queue and the requests in shape.
THEOREM ShapeStep == TypeOK /\ Shape /\ [Next]_vars => Shape'
<1> SUFFICES ASSUME TypeOK, Shape, [Next]_vars PROVE Shape'
  OBVIOUS
<1>0. req \in [Requests -> Request]
  BY DEF TypeOK, Request
<1>1. ASSUME NEW r \in Requests, NEW o \in Ops, WriteOnline(r, o) PROVE Shape'
  <2>1. <<o>> \in Seq(Ops) /\ Len(<<o>>) = 1 /\ Distinct(<<o>>) /\ <<o>>[1] = o
    BY DEF Distinct
  <2> QED
    BY <1>1, <2>1, SendKeepsShape DEF WriteOnline
<1>2. CASE UNCHANGED <<req, outbox, queue>>
  BY <1>2 DEF Shape, Pending, In, WellFormed, Asking
<1>3. ASSUME NEW r \in Requests, Flush(r) \/ GoOnline(r) PROVE Shape'
  <2>1. CASE SendPending(r)
    <3>1. PICK b \in Replays : Send(r, "sync", b)
      BY <2>1 DEF SendPending
    <3>2. UNCHANGED <<outbox, queue>>
      BY <1>3 DEF Flush, GoOnline
    <3> QED
      BY <3>1, <3>2, ReplaysAreBatches, SendKeepsShape
  <2> QED
    BY <1>2, <1>3, <2>1 DEF Flush, GoOnline
<1>4. ASSUME NEW r \in Requests, Lost(r) \/ Drop(r) PROVE Shape'
  <2>1. req'[r] = Idle \/ req'[r] = [req[r] EXCEPT !.waiting = FALSE]
    BY <1>0, <1>4 DEF Lost, Drop
  <2>2. req' \in [Requests -> Request] /\ \A t \in Requests \ {r} : req'[t] = req[t]
    BY <1>0, <1>4, EndKeepsType DEF Lost, Drop, TypeOK, Request
  <2> QED
    BY <1>4, <2>1, <2>2, FailureKeepsShape DEF Lost, Drop
<1>5. ASSUME NEW o \in Ops, WriteOffline(o) PROVE Shape'
  <2>1. outbox[o] = "unused" /\ Enqueue(o) /\ UNCHANGED req
    BY <1>5 DEF WriteOffline
  <2>2. QueueShape'
    BY <2>1, EnqueueKeepsQueue DEF Shape, QueueShape, Past
  <2>3. outbox \in [Ops -> Rows] /\ outbox' = [outbox EXCEPT ![o] = "pending"]
    BY <2>1 DEF TypeOK, Enqueue
  <2>4. ASSUME NEW t \in Requests PROVE WellFormed(req[t])'
    <3>1. \A p \in Ops : Past(outbox[p]) => Past(outbox'[p])
      BY <2>1, <2>3 DEF Past
    <3>2. Asking(t) => outbox'[req[t].batch[1]] = outbox[req[t].batch[1]]
      <4>1. SUFFICES ASSUME Asking(t) PROVE outbox'[req[t].batch[1]] = outbox[req[t].batch[1]]
        OBVIOUS
      <4>2. req[t].batch[1] \in Ops /\ outbox[req[t].batch[1]] = "sent"
        BY <4>1, ButtonIsWrite DEF Asking, Shape, WellFormed
      <4> QED
        BY <2>1, <2>3, <4>2
    <3> QED
      BY <2>1, <3>1, <3>2, OthersStayWellFormed DEF Shape
  <2>5. \A t \in Requests : Asking(t)' => Asking(t) /\ req'[t].batch = req[t].batch
    BY <2>1 DEF Asking
  <2> QED
    BY <2>2, <2>4, <2>5, AskingStaysUnique DEF Shape, QueueShape
<1>6. CASE GoOffline
  BY <1>2, <1>6 DEF GoOffline
<1>7. CASE UNCHANGED vars
  BY <1>2, <1>7 DEF vars
<1> QED
  BY <1>1, <1>3, <1>4, <1>5, <1>6, <1>7, WorkKeepsShape, AnswerKeepsShape, CrashKeepsShape DEF Next

-----------------------------------------------------------------------------
(* What answers, stored responses and deleted rows stand for.              *)

\* A request that neither answered a write nor came to store a response, or
\* that is new or over, reports what was done.
LEMMA StaysReported ==
  ASSUME TypeOK, Shape, NEW r \in Requests, Reported(r),
         \A o \in Ops : applied'[o] >= applied[o], applied' \in [Ops -> Nat],
         \/ req'[r].done = <<>> /\ req'[r].pc # "store"
         \/ /\ req'[r].done = req[r].done /\ req'[r].batch = req[r].batch
            /\ req'[r].pc = "store" => req[r].pc = "store"
  PROVE  Reported(r)'
<1>1. CASE req'[r].done = <<>> /\ req'[r].pc # "store"
  BY <1>1 DEF Reported
<1>2. CASE /\ req'[r].done = req[r].done /\ req'[r].batch = req[r].batch
           /\ req'[r].pc = "store" => req[r].pc = "store"
  <2>1. req[r] \in Request /\ WellFormed(req[r]) /\ applied \in [Ops -> Nat]
    BY RequestsStay DEF Shape, TypeOK
  <2>2. \A n \in DOMAIN req[r].done : req[r].batch[n] \in Ops
    <3>1. \A n \in 1 .. Len(req[r].batch) : req[r].batch[n] \in Ops
      BY <2>1 DEF Request
    <3>2. /\ Len(req[r].done) \in Nat /\ Len(req[r].batch) \in Nat
          /\ DOMAIN req[r].done = 1 .. Len(req[r].done)
      BY <2>1 DEF Request
    <3> QED
      BY <2>1, <3>1, <3>2 DEF WellFormed
  <2>3. \A n \in DOMAIN req'[r].done : req'[r].done[n] => applied'[req'[r].batch[n]] > 0
    BY <1>2, <2>1, <2>2 DEF Reported
  <2>4. req'[r].pc = "store" => Keyed(Op(r))' /\ applied'[Op(r)'] > 0
    <3> SUFFICES ASSUME req'[r].pc = "store" PROVE Keyed(Op(r)) /\ applied'[Op(r)] > 0
      BY <1>2 DEF Op, Keyed
    <3>1. More(r)
      BY <1>2, <2>1 DEF WellFormed, More
    <3> QED
      BY <1>2, <2>1, <3>1, OpIsWrite DEF Reported
  <2> QED
    BY <2>3, <2>4 DEF Reported
<1> QED
  BY <1>1, <1>2

\* A result is added to a request: it reports what was done if the result does.
LEMMA ResultIsReported ==
  ASSUME TypeOK, Shape, NEW r \in Requests, Reported(r), More(r), NEW ok \in BOOLEAN,
         req' = Result(r, ok), ok => applied'[Op(r)] > 0,
         \A o \in Ops : applied'[o] >= applied[o], applied' \in [Ops -> Nat]
  PROVE  Reported(r)'
<1> DEFINE q == req[r]
           k == Len(q.done)
<1>1. q \in Request /\ req \in [Requests -> Request] /\ WellFormed(q)
  BY RequestsStay DEF Shape, TypeOK, Request
<1>2. req'[r] = [q EXCEPT !.done = Append(@, ok), !.pc = "next"]
  BY <1>1 DEF Result
<1>3. /\ req'[r].done = Append(q.done, ok) /\ req'[r].pc = "next"
      /\ req'[r].batch = q.batch
  BY <1>1, <1>2 DEF Request
<1>4. /\ k \in Nat /\ DOMAIN q.done = 1 .. k /\ DOMAIN req'[r].done = 1 .. k + 1
      /\ req'[r].done[k + 1] = ok /\ \A n \in 1 .. k : req'[r].done[n] = q.done[n]
      /\ Len(q.batch) \in Nat /\ \A n \in 1 .. Len(q.batch) : q.batch[n] \in Ops
  BY <1>1, <1>3 DEF Request
<1>5. Op(r) = q.batch[k + 1]
  BY DEF Op
<1>6. ASSUME NEW n \in 1 .. k, q.done[n] PROVE applied'[q.batch[n]] > 0
  <2>1. applied[q.batch[n]] > 0
    BY <1>4, <1>6 DEF Reported
  <2>2. q.batch[n] \in Ops
    BY <1>1, <1>4 DEF WellFormed
  <2> QED
    BY <2>1, <2>2 DEF TypeOK
<1> QED
  BY <1>3, <1>4, <1>5, <1>6 DEF Reported

\* Nothing took effect and no response was stored: what is left to see is what
\* the requests report and which rows were settled.
LEMMA EffectsStay ==
  ASSUME TypeOK, Shape, Effects, UNCHANGED <<applied, stored>>,
         \A o \in Ops : outbox'[o] = "settled" => outbox[o] = "settled" \/ applied[o] > 0,
         \A t \in Requests : \/ req'[t].done = <<>> /\ req'[t].pc # "store"
                             \/ /\ req'[t].done = req[t].done /\ req'[t].batch = req[t].batch
                                /\ req'[t].pc = "store" => req[t].pc = "store"
                             \/ Reported(t)'
  PROVE  Effects'
<1>1. applied \in [Ops -> Nat] /\ \A o \in Ops : applied'[o] >= applied[o]
  BY DEF TypeOK
<1>2. \A t \in Requests : Reported(t)'
  BY <1>1, StaysReported DEF Effects
<1>3. SettledWasApplied' /\ BookedOnce'
  BY DEF Effects, SettledWasApplied, BookedOnce
<1> QED
  BY <1>2, <1>3 DEF Effects, Keyed

\* The server's work on a request: the look-up of a key finds what was done, a
\* transaction commits once per booking, and its response is stored after it.
LEMMA WorkKeepsEffects ==
  ASSUME TypeOK, Shape, Effects, NEW r \in Requests, Begin(r) \/ Commit(r) \/ Store(r)
  PROVE  Effects'
<1> DEFINE o == Op(r)
<1>1. /\ More(r) /\ o \in Ops /\ applied \in [Ops -> Nat] /\ req \in [Requests -> Request]
      /\ req[r] \in Request
  BY WorkKeepsRequest, OpIsWrite, RequestsStay DEF TypeOK, Request
<1>2. UNCHANGED outbox /\ \A t \in Requests \ {r} : req'[t] = req[t]
  BY <1>1, WorkKeepsRequest
<1>3. UNCHANGED applied => applied' \in [Ops -> Nat] /\ \A p \in Ops : applied'[p] >= applied[p]
  BY <1>1
<1>4. Reported(r) /\ \A p \in stored : applied[p] > 0
  BY DEF Effects
<1>5. CASE Begin(r)
  <2>0. UNCHANGED applied
    BY <1>5 DEF Begin
  <2>1. Reported(r)'
    <3>1. CASE req' = Result(r, TRUE) /\ Known(o)
      <4>1. applied'[Op(r)] > 0
        BY <1>4, <2>0, <3>1 DEF Known
      <4> QED
        BY <1>1, <1>3, <1>4, <2>0, <3>1, <4>1, ResultIsReported
    <3>2. CASE req' = Result(r, FALSE)
      BY <1>1, <1>3, <1>4, <2>0, <3>2, ResultIsReported
    <3>3. CASE req' = [req EXCEPT ![r].pc = "commit"]
      <4>1. req'[r].done = req[r].done /\ req'[r].batch = req[r].batch /\ req'[r].pc = "commit"
        BY <1>1, <3>3 DEF Request
      <4> QED
        BY <1>3, <1>4, <2>0, <4>1, StaysReported
    <3> QED
      BY <1>5, <3>1, <3>2, <3>3 DEF Begin
  <2> QED
    BY <1>2, <1>5, <2>1, EffectsStay DEF Begin
<1>6. CASE Commit(r) /\ UNCHANGED applied
  <2>1. CASE req' = Result(r, FALSE)
    <3>1. Reported(r)'
      BY <1>1, <1>6, <1>3, <1>4, <2>1, ResultIsReported
    <3> QED
      BY <1>2, <1>6, <3>1, EffectsStay DEF Commit
  <2>2. CASE applied' = [applied EXCEPT ![o] = @ + 1]
    BY <1>1, <1>6, <2>2
  <2> QED
    BY <1>6, <2>1, <2>2 DEF Commit
<1>7. CASE Commit(r) /\ applied' = [applied EXCEPT ![o] = @ + 1] /\ ~ Duplicate(o)
  <2> HIDE DEF o
  <2>1. /\ applied' \in [Ops -> Nat] /\ applied'[o] = applied[o] + 1
        /\ \A p \in Ops : applied'[p] >= applied[p]
        /\ \A p \in Ops \ {o} : applied'[p] = applied[p]
    BY <1>1, <1>7
  <2>2. applied'[o] > 0
    BY <1>1, <2>1
  <2>3. Reported(r)'
    <3>1. CASE Keyed(o) /\ req' = [req EXCEPT ![r].pc = "store"]
      <4>1. req'[r].done = req[r].done /\ req'[r].batch = req[r].batch /\ req'[r].pc = "store"
        BY <1>1, <3>1 DEF Request
      <4>2. Op(r)' = o
        BY <4>1 DEF Op, o
      <4>3. \A n \in DOMAIN req[r].done : req[r].done[n] => applied'[req[r].batch[n]] > 0
        <5>1. \A n \in DOMAIN req[r].done : req[r].batch[n] \in Ops
          BY <1>1 DEF Request, More
        <5> QED
          BY <1>1, <2>1, <5>1 DEF Effects, Reported
      <4> QED
        BY <2>2, <3>1, <4>1, <4>2, <4>3 DEF Reported, Keyed
    <3>2. CASE req' = Result(r, TRUE)
      BY <1>1, <2>1, <2>2, <3>2, ResultIsReported DEF Effects, o
    <3> QED
      BY <1>7, <3>1, <3>2 DEF Commit, o
  <2>4. \A t \in Requests \ {r} : Reported(t)'
    BY <1>1, <1>2, <2>1, StaysReported DEF Effects, Reported
  <2>5. SettledWasApplied'
    BY <1>1, <1>2, <2>1 DEF Effects, SettledWasApplied
  <2>6. BookedOnce'
    BY <1>1, <1>7, <2>1 DEF Effects, BookedOnce, Duplicate
  <2>7. \A p \in stored' : Keyed(p)' /\ applied'[p] > 0
    <3>1. stored' = stored /\ stored \subseteq Ops
      BY <1>7 DEF Commit, TypeOK
    <3> QED
      BY <1>1, <2>1, <3>1 DEF Effects, Keyed
  <2> QED
    BY <2>3, <2>4, <2>5, <2>6, <2>7 DEF Effects
<1>8. CASE Store(r)
  <2>1. Keyed(o) /\ applied[o] > 0
    BY <1>8 DEF Store, Effects, Reported
  <2>2. UNCHANGED applied /\ stored' = stored \cup {o} /\ req' = Result(r, TRUE)
    BY <1>8 DEF Store
  <2>3. Reported(r)'
    BY <1>1, <1>3, <1>4, <2>1, <2>2, ResultIsReported
  <2>4. \A t \in Requests \ {r} : Reported(t)'
    BY <1>2, <1>3, <2>2, StaysReported DEF Effects
  <2>5. SettledWasApplied' /\ BookedOnce'
    BY <1>2, <2>2 DEF Effects, SettledWasApplied, BookedOnce
  <2> QED
    BY <2>1, <2>2, <2>3, <2>4, <2>5 DEF Effects, Keyed
<1> QED
  BY <1>5, <1>6, <1>7, <1>8 DEF Commit

\* A row is settled by an answer that reports its write as done.
LEMMA AnswerKeepsEffects ==
  ASSUME TypeOK, Shape, Effects, NEW r \in Requests, Answer(r)
  PROVE  Effects'
<1>1. /\ req' = [req EXCEPT ![r] = Idle] /\ req \in [Requests -> Request] /\ req[r] \in Request
      /\ UNCHANGED <<applied, stored>> /\ ~ More(r) /\ WellFormed(req[r])
      /\ outbox \in [Ops -> Rows]
  BY RequestsStay DEF Answer, TypeOK, Request, Shape
<1>2. /\ Len(req[r].done) \in Nat /\ DOMAIN req[r].done = 1 .. Len(req[r].done)
      /\ Len(req[r].batch) \in Nat /\ DOMAIN req[r].batch = 1 .. Len(req[r].batch)
      /\ Len(req[r].done) = Len(req[r].batch)
  BY <1>1 DEF Request, WellFormed, More
<1>3. ASSUME NEW o \in Ops, outbox'[o] = "settled", outbox[o] # "settled"
      PROVE  applied[o] > 0
  <2>1. CASE req[r].waiting /\ req[r].via = "direct"
    <3>1. outbox' = [outbox EXCEPT ![req[r].batch[1]] = IF req[r].done[1] THEN "settled" ELSE "refused"]
      BY <2>1 DEF Answer
    <3>2. Len(req[r].batch) = 1
      BY <1>1, <2>1 DEF WellFormed, Answer
    <3>3. o = req[r].batch[1] /\ req[r].done[1]
      BY <1>1, <1>3, <3>1
    <3> QED
      BY <1>2, <3>2, <3>3 DEF Effects, Reported
  <2>2. CASE req[r].waiting /\ req[r].via = "sync"
    <3>1. outbox'[o] = IF In(o, req[r].batch)
                       THEN Answered(outbox[o], \E n \in DOMAIN req[r].batch : req[r].batch[n] = o /\ req[r].done[n])
                       ELSE outbox[o]
      BY <2>2 DEF Answer, In
    <3>2. \E n \in DOMAIN req[r].batch : req[r].batch[n] = o /\ req[r].done[n]
      BY <1>3, <3>1 DEF Answered
    <3> QED
      BY <1>2, <3>2 DEF Effects, Reported
  <2>3. CASE ~ req[r].waiting
    BY <1>3, <2>3 DEF Answer
  <2> QED
    BY <1>1, <2>1, <2>2, <2>3 DEF Request
<1>4. \A t \in Requests : \/ req'[t].done = <<>> /\ req'[t].pc # "store"
                          \/ req'[t] = req[t]
  BY <1>1 DEF Idle
<1> QED
  BY <1>1, <1>3, <1>4, EffectsStay

\* Every step leaves answers, stored responses and deleted rows true.
THEOREM EffectsStep == TypeOK /\ Shape /\ Effects /\ [Next]_vars => Effects'
<1> SUFFICES ASSUME TypeOK, Shape, Effects, [Next]_vars PROVE Effects'
  OBVIOUS
<1>0. req \in [Requests -> Request] /\ outbox \in [Ops -> Rows]
  BY DEF TypeOK, Request
<1>1. ASSUME NEW r \in Requests, NEW o \in Ops, WriteOnline(r, o) PROVE Effects'
  <2>1. req'[r].done = <<>> /\ req'[r].pc = "next" /\ \A t \in Requests \ {r} : req'[t] = req[t]
    BY <1>0, <1>1 DEF WriteOnline, Send
  <2>2. \A p \in Ops : outbox'[p] = "settled" => outbox[p] = "settled"
    BY <1>0, <1>1 DEF WriteOnline
  <2>3. UNCHANGED <<applied, stored>>
    BY <1>1 DEF WriteOnline
  <2> QED
    BY <2>1, <2>2, <2>3, EffectsStay
<1>2. CASE UNCHANGED <<req, outbox, applied, stored>>
  BY <1>2, EffectsStay
<1>3. ASSUME NEW r \in Requests, Flush(r) \/ GoOnline(r) PROVE Effects'
  <2>1. CASE SendPending(r)
    <3>1. req'[r].done = <<>> /\ req'[r].pc = "next" /\ \A t \in Requests \ {r} : req'[t] = req[t]
      BY <1>0, <2>1 DEF SendPending, Send
    <3>2. UNCHANGED <<outbox, applied, stored>>
      BY <1>3 DEF Flush, GoOnline
    <3> QED
      BY <3>1, <3>2, EffectsStay
  <2> QED
    BY <1>2, <1>3, <2>1 DEF Flush, GoOnline
<1>4. ASSUME NEW r \in Requests, Lost(r) \/ Drop(r) PROVE Effects'
  <2>1. \A p \in Ops : outbox'[p] = "settled" => outbox[p] = "settled"
    BY <1>0, <1>4 DEF Lost, Drop, ClientFails, Enqueue
  <2>2. req'[r] = Idle \/ req'[r] = [req[r] EXCEPT !.waiting = FALSE]
    BY <1>0, <1>4 DEF Lost, Drop
  <2>3. \/ req'[r].done = <<>> /\ req'[r].pc # "store"
        \/ /\ req'[r].done = req[r].done /\ req'[r].batch = req[r].batch
           /\ req'[r].pc = req[r].pc
    <3>1. req[r] \in Request
      BY RequestsStay
    <3> QED
      BY <2>2, <3>1 DEF Idle, Request
  <2>4. UNCHANGED <<applied, stored>> /\ \A t \in Requests \ {r} : req'[t] = req[t]
    BY <1>0, <1>4 DEF Lost, Drop
  <2> QED
    BY <2>1, <2>3, <2>4, EffectsStay
<1>5. ASSUME NEW o \in Ops, WriteOffline(o) PROVE Effects'
  <2>1. \A p \in Ops : outbox'[p] = "settled" => outbox[p] = "settled"
    BY <1>0, <1>5 DEF WriteOffline, Enqueue
  <2> QED
    BY <1>5, <2>1, EffectsStay DEF WriteOffline
<1>6. CASE GoOffline
  BY <1>2, <1>6 DEF GoOffline
<1>7. CASE Crash
  <2>1. ASSUME NEW t \in Requests
        PROVE  \/ req'[t].done = <<>> /\ req'[t].pc # "store"
               \/ /\ req'[t].done = req[t].done /\ req'[t].batch = req[t].batch
                  /\ req'[t].pc = "dead"
    BY <1>0, <1>7 DEF Crash, Idle, Request
  <2>2. UNCHANGED <<outbox, applied, stored>>
    BY <1>7 DEF Crash
  <2> QED
    BY <2>1, <2>2, EffectsStay
<1>8. CASE UNCHANGED vars
  BY <1>2, <1>8 DEF vars
<1> QED
  BY <1>1, <1>3, <1>4, <1>5, <1>6, <1>7, <1>8, WorkKeepsEffects, AnswerKeepsEffects DEF Next

-----------------------------------------------------------------------------
(* Writes that no two requests carried at once and no crash met.           *)

\* The request that is at a write carries it.
LEMMA AtCarries ==
  ASSUME TypeOK, Shape, NEW r \in Requests
  PROVE  /\ \A pc \in {"commit", "store"}, o \in Ops : At(r, pc, o) => Carries(r, o)
         /\ More(r) /\ Live(r) => Carries(r, Op(r))
<1>1. \A pc \in {"commit", "store"}, o \in Ops : At(r, pc, o) => More(r) /\ Live(r)
  BY DEF At, Live, More, Shape, WellFormed
<1>2. More(r) => In(Op(r), req[r].batch)
  <2>1. More(r) => Op(r) = req[r].batch[Len(req[r].done) + 1]
    BY DEF Op
  <2> QED
    BY <2>1, OpIsWrite DEF In
<1> QED
  BY <1>1, <1>2 DEF Carries, At

\* The write o takes no effect and stores no response, no request takes it on,
\* and where one fails it or is about to commit it, it had no effect so far.
LEMMA QuietStep ==
  ASSUME NEW o \in Ops, Tracked(o), applied'[o] = applied[o], o \in stored' <=> o \in stored,
         \A r \in Requests : Carries(r, o)' => Carries(r, o),
         \A r \in Requests : At(r, "commit", o)' /\ Single(o) => At(r, "commit", o) \/ applied[o] = 0,
         \A r \in Requests : At(r, "store", o)' <=> At(r, "store", o),
         \A r \in Requests : \A n \in DOMAIN req'[r].done :
            Carries(r, o)' /\ req'[r].batch[n] = o /\ Keyed(o) /\ ~ req'[r].done[n] =>
                \/ applied[o] = 0
                \/ n \in DOMAIN req[r].done /\ req[r].batch[n] = o /\ ~ req[r].done[n],
         \/ outbox'[o] \notin {"failed", "refused"}
         \/ outbox'[o] = outbox[o]
         \/ Keyed(o) => applied[o] = 0 /\ \A r \in Requests : ~ Carries(r, o)'
  PROVE  Tracked(o)'
<1>1. (Keyed(o)' <=> Keyed(o)) /\ (Single(o)' <=> Single(o))
  BY DEF Keyed, Single
<1> QED
  BY <1>1 DEF Tracked

\* Nobody else carries the write that a request is at; if its key was not
\* found, it has had no effect.
LEMMA NotYetApplied ==
  ASSUME TypeOK, Shape, NEW r \in Requests, req[r].pc = "next", More(r),
         Tracked(Op(r)), Keyed(Op(r)), Op(r) \notin stored
  PROVE  applied[Op(r)] = 0
<1> DEFINE o == Op(r)
<1>1. o \in Ops /\ Carries(r, o) /\ applied[o] \in Nat
  BY OpIsWrite, AtCarries DEF Live, TypeOK
<1>2. ASSUME applied[o] > 0 PROVE FALSE
  <2>1. PICK t \in Requests : At(t, "store", o)
    BY <1>2 DEF Tracked
  <2>2. t = r
    BY <1>1, <2>1, AtCarries DEF Tracked
  <2> QED
    BY <2>1, <2>2 DEF At
<1> QED
  BY <1>1, <1>2

\* The server's work leaves every other write as it is.
LEMMA WorkIsQuietForOthers ==
  ASSUME TypeOK, Shape, NEW r \in Requests, Begin(r) \/ Commit(r) \/ Store(r),
         NEW p \in Ops, p # Op(r), Tracked(p)
  PROVE  Tracked(p)'
<1>1. req[r] \in Request /\ req \in [Requests -> Request] /\ More(r) /\ Op(r) \in Ops
  BY WorkKeepsRequest, RequestsStay, OpIsWrite DEF TypeOK, Request
<1>2. /\ \A t \in Requests \ {r} : req'[t] = req[t]
      /\ req'[r].batch = req[r].batch /\ Live(r) /\ outbox' = outbox
  BY <1>1, WorkKeepsRequest DEF Live, Begin, Commit, Store
<1>3. applied'[p] = applied[p] /\ (p \in stored' <=> p \in stored)
  <2>1. CASE Begin(r)
    BY <2>1 DEF Begin
  <2>2. CASE Commit(r)
    BY <1>1, <2>2 DEF Commit, TypeOK
  <2>3. CASE Store(r)
    BY <1>1, <2>3 DEF Store
  <2> QED
    BY <2>1, <2>2, <2>3
<1>4. \A t \in Requests : Carries(t, p)' => Carries(t, p)
  BY <1>2 DEF Carries, Live, In
<1>5. ~ At(r, "commit", p)' /\ ~ At(r, "store", p)' /\ ~ At(r, "store", p)
  BY <1>2, WorkKeepsRequest DEF At, Op
<1>6. \A t \in Requests \ {r} : \A pc \in {"commit", "store"} : At(t, pc, p)' <=> At(t, pc, p)
  BY <1>2 DEF At, Op
<1>7. \A n \in DOMAIN req'[r].done : req'[r].batch[n] = p /\ ~ req'[r].done[n] =>
         n \in DOMAIN req[r].done /\ req[r].batch[n] = p /\ ~ req[r].done[n]
  <2>1. CASE req'[r].done = req[r].done
    BY <1>2, <2>1
  <2>2. CASE \E ok \in BOOLEAN : req'[r].done = Append(req[r].done, ok)
    <3>1. /\ Len(req[r].done) \in Nat /\ DOMAIN req[r].done = 1 .. Len(req[r].done)
          /\ DOMAIN req'[r].done = 1 .. Len(req[r].done) + 1
          /\ \A n \in 1 .. Len(req[r].done) : req'[r].done[n] = req[r].done[n]
      BY <1>1, <2>2 DEF Request
    <3>2. req'[r].batch[Len(req[r].done) + 1] # p
      BY <1>2 DEF Op
    <3> QED
      BY <1>2, <3>1, <3>2
  <2> QED
    BY <2>1, <2>2, WorkKeepsRequest
<1> QED
  BY <1>2, <1>3, <1>4, <1>5, <1>6, <1>7, QuietStep

\* The results of a request after one more: those before it are unchanged.
LEMMA ResultRecord ==
  ASSUME TypeOK, NEW r \in Requests, NEW ok \in BOOLEAN, req' = Result(r, ok)
  PROVE  /\ req'[r].pc = "next" /\ req'[r].batch = req[r].batch
         /\ Len(req[r].done) \in Nat /\ DOMAIN req[r].done = 1 .. Len(req[r].done)
         /\ DOMAIN req'[r].done = 1 .. Len(req[r].done) + 1
         /\ req'[r].done[Len(req[r].done) + 1] = ok
         /\ \A n \in 1 .. Len(req[r].done) : req'[r].done[n] = req[r].done[n]
         /\ \A t \in Requests \ {r} : req'[t] = req[t]
<1>1. req[r] \in Request /\ req \in [Requests -> Request]
  BY RequestsStay DEF TypeOK, Request
<1>2. req'[r] = [req[r] EXCEPT !.done = Append(@, ok), !.pc = "next"]
  BY <1>1 DEF Result
<1>3. /\ req'[r].done = Append(req[r].done, ok) /\ req'[r].pc = "next"
      /\ req'[r].batch = req[r].batch
  BY <1>1, <1>2 DEF Request
<1>4. \A t \in Requests \ {r} : req'[t] = req[t]
  BY <1>1 DEF Result
<1> QED
  BY <1>1, <1>3, <1>4 DEF Request

\* The look-up: a stored key is answered with success, a write that is refused
\* or goes on to its transaction has had no effect.
LEMMA BeginKeepsTracked ==
  ASSUME TypeOK, Shape, NEW r \in Requests, Begin(r), NEW o, o = Op(r), Tracked(o)
  PROVE  Tracked(o)'
<1>0. req[r].pc = "next" /\ More(r)
  BY DEF Begin
<1>1. /\ req[r] \in Request /\ req \in [Requests -> Request]
      /\ o \in Ops /\ Carries(r, o)
  <2>1. req[r] \in Request /\ req \in [Requests -> Request]
    BY RequestsStay DEF TypeOK, Request
  <2> QED
    BY <1>0, <2>1, OpIsWrite, AtCarries DEF Live
<1>2. UNCHANGED <<applied, stored, outbox>>
  BY DEF Begin
<1>3. Keyed(o) /\ o \notin stored => applied[o] = 0
  BY <1>0, NotYetApplied
<1>4. ASSUME NEW ok \in BOOLEAN, req' = Result(r, ok), ok \/ ~ Known(o) PROVE Tracked(o)'
  <2>1. \A t \in Requests : Carries(t, o)' => Carries(t, o)
    BY <1>1, <1>4, ResultRecord DEF Carries, Live
  <2>2. \A t \in Requests \ {r} : \A pc \in {"commit", "store"} : At(t, pc, o)' <=> At(t, pc, o)
    BY <1>4, ResultRecord DEF At, Op
  <2>3. \A pc \in {"commit", "store"} : ~ At(r, pc, o)' /\ ~ At(r, pc, o)
    BY <1>0, <1>4, ResultRecord DEF At
  <2>4. \A n \in DOMAIN req'[r].done : Keyed(o) /\ ~ req'[r].done[n] =>
           applied[o] = 0 \/ (n \in DOMAIN req[r].done /\ ~ req[r].done[n])
    <3> SUFFICES ASSUME NEW n \in DOMAIN req'[r].done, Keyed(o), ~ req'[r].done[n], applied[o] # 0
                 PROVE  n \in DOMAIN req[r].done /\ ~ req[r].done[n]
      OBVIOUS
    <3>1. ok
      BY <1>3, <1>4 DEF Known
    <3>2. n # Len(req[r].done) + 1
      BY <1>4, <3>1, ResultRecord
    <3>3. n \in 1 .. Len(req[r].done)
      BY <1>4, <3>2, ResultRecord
    <3> QED
      BY <1>4, <3>3, ResultRecord
  <2>5. \A t \in Requests \ {r} : req'[t] = req[t]
    BY <1>4, ResultRecord
  <2>6. req'[r].batch = req[r].batch
    BY <1>4, ResultRecord
  <2> QED
    BY <1>1, <1>2, <2>1, <2>2, <2>3, <2>4, <2>5, <2>6, QuietStep
<1>5. CASE /\ req' = [req EXCEPT ![r].pc = "commit"]
           /\ ~ Known(o) /\ ~ (Kind[o] = "checkIn" /\ applied[o] > 0)
  <2>1. /\ req'[r].pc = "commit" /\ req'[r].batch = req[r].batch /\ req'[r].done = req[r].done
        /\ \A t \in Requests \ {r} : req'[t] = req[t]
    BY <1>1, <1>5 DEF Request
  <2>2. Single(o) => applied[o] = 0
    <3>1. applied[o] \in Nat
      BY <1>1 DEF TypeOK
    <3> QED
      BY <1>3, <1>5, <3>1 DEF Single, Known
  <2>3. \A t \in Requests : Carries(t, o)' => Carries(t, o)
    BY <1>1, <2>1 DEF Carries, Live
  <2>4. \A t \in Requests \ {r} : \A pc \in {"commit", "store"} : At(t, pc, o)' <=> At(t, pc, o)
    BY <2>1 DEF At, Op
  <2>5. ~ At(r, "store", o)' /\ ~ At(r, "store", o)
    BY <1>0, <2>1 DEF At
  <2> QED
    BY <1>1, <1>2, <2>1, <2>2, <2>3, <2>4, <2>5, QuietStep
<1> QED
  BY <1>4, <1>5 DEF Begin

\* The transaction: a write that is to take effect once had none before.
LEMMA CommitKeepsTracked ==
  ASSUME TypeOK, Shape, Effects, NEW r \in Requests, Commit(r), NEW o, o = Op(r), Tracked(o)
  PROVE  Tracked(o)'
<1>0. req[r].pc = "commit" /\ More(r)
  BY WorkKeepsRequest DEF Commit
<1>1. /\ req[r] \in Request /\ req \in [Requests -> Request] /\ applied \in [Ops -> Nat]
      /\ o \in Ops /\ Carries(r, o)
  <2>1. req[r] \in Request /\ req \in [Requests -> Request] /\ applied \in [Ops -> Nat]
    BY RequestsStay DEF TypeOK, Request
  <2> QED
    BY <1>0, <2>1, OpIsWrite, AtCarries DEF Live
<1>2. Single(o) => applied[o] = 0
  BY <1>0 DEF Tracked, At
<1>3. UNCHANGED <<outbox, stored>> /\ (Keyed(o)' <=> Keyed(o)) /\ (Single(o)' <=> Single(o))
  BY DEF Commit, Keyed, Single
<1>4. applied' = [applied EXCEPT ![o] = @ + 1] /\ ~ Duplicate(o)
  <2>1. ~ Duplicate(o)
    BY <1>2 DEF Duplicate, Single, Keyed
  <2> QED
    BY <2>1 DEF Commit
<1>5. \/ Keyed(o) /\ req' = [req EXCEPT ![r].pc = "store"]
      \/ ~ Keyed(o) /\ req' = Result(r, TRUE)
  BY <1>4 DEF Commit, Duplicate
<1>6. applied'[o] = applied[o] + 1
  BY <1>1, <1>4
<1>7. /\ \A t \in Requests \ {r} : req'[t] = req[t]
      /\ req'[r].batch = req[r].batch
      /\ Keyed(o) => req'[r].pc = "store" /\ req'[r].done = req[r].done
      /\ ~ Keyed(o) => req'[r].pc = "next"
  <2>1. CASE Keyed(o)
    BY <1>1, <1>5, <2>1 DEF Request
  <2>2. CASE ~ Keyed(o)
    BY <1>5, <2>2, ResultRecord
  <2> QED
    BY <2>1, <2>2
<1>8. \A t \in Requests : (Carries(t, o)' => Carries(t, o)) /\ (Carries(t, o) => t = r)
  BY <1>1, <1>7 DEF Carries, Live, Tracked
<1>9. /\ \A t \in Requests \ {r} : \A pc \in {"commit", "store"} : ~ At(t, pc, o)'
      /\ ~ At(r, "commit", o)'
      /\ Keyed(o) => At(r, "store", o)'
  <2>1. \A t \in Requests \ {r} : \A pc \in {"commit", "store"} : ~ At(t, pc, o)
    BY <1>1, <1>8, AtCarries
  <2> QED
    BY <1>1, <1>7, <2>1 DEF At, Op
<1>10. Keyed(o) => o \notin stored
  BY <1>2 DEF Effects, Single
<1>11. ASSUME Keyed(o), NEW n \in DOMAIN req'[r].done, req'[r].batch[n] = o PROVE FALSE
  <2>1. /\ Len(req[r].done) \in Nat /\ DOMAIN req[r].done = 1 .. Len(req[r].done)
        /\ DOMAIN req[r].batch = 1 .. Len(req[r].batch) /\ Len(req[r].batch) \in Nat
        /\ Len(req[r].done) < Len(req[r].batch)
    BY <1>0, <1>1 DEF Request, More
  <2>2. n \in 1 .. Len(req[r].done) /\ req[r].batch[n] = req[r].batch[Len(req[r].done) + 1]
    BY <1>7, <1>11, <2>1 DEF Op
  <2>3. Distinct(req[r].batch)
    BY DEF Shape, WellFormed
  <2> QED
    BY <2>1, <2>2, <2>3 DEF Distinct
<1>12. Keyed(o) => outbox[o] \notin {"failed", "refused"}
  BY <1>1 DEF Tracked
<1>13. ~ Keyed(o) => \A t \in Requests : ~ At(t, "store", o)'
  BY <1>7, <1>9 DEF At
<1>14. Single(o) => applied'[o] <= 1
  BY <1>2, <1>6
<1>15. Keyed(o) => Single(o)
  BY DEF Single
<1>16. \A t \in Requests : At(t, "store", o)' => o \notin stored'
  BY <1>3, <1>9, <1>10, <1>13
<1>17. \A t \in Requests : \A n \in DOMAIN req'[t].done :
          Carries(t, o)' /\ req'[t].batch[n] = o /\ Keyed(o)' /\ ~ req'[t].done[n] => applied'[o] = 0
  BY <1>3, <1>8, <1>11
<1> QED
  BY <1>3, <1>8, <1>9, <1>12, <1>14, <1>16, <1>17 DEF Tracked

\* The response is stored: from now on the key is found.
LEMMA StoreKeepsTracked ==
  ASSUME TypeOK, Shape, NEW r \in Requests, Store(r), NEW o, o = Op(r), Tracked(o)
  PROVE  Tracked(o)'
<1>0. req[r].pc = "store" /\ More(r)
  BY WorkKeepsRequest DEF Store
<1>1. o \in Ops /\ Carries(r, o)
  BY <1>0, OpIsWrite, AtCarries DEF Live
<1>2. /\ UNCHANGED <<outbox, applied>> /\ o \in stored' /\ req' = Result(r, TRUE)
      /\ (Keyed(o)' <=> Keyed(o)) /\ (Single(o)' <=> Single(o))
  BY DEF Store, Keyed, Single
<1>3. /\ \A t \in Requests \ {r} : req'[t] = req[t]
      /\ req'[r].batch = req[r].batch /\ req'[r].pc = "next"
  BY <1>2, ResultRecord
<1>4. \A t \in Requests : (Carries(t, o)' => Carries(t, o)) /\ (Carries(t, o) => t = r)
  BY <1>1, <1>3 DEF Carries, Live, Tracked
<1>5. \A t \in Requests : \A pc \in {"commit", "store"} : ~ At(t, pc, o)'
  <2>1. \A t \in Requests \ {r} : \A pc \in {"commit", "store"} : ~ At(t, pc, o)
    BY <1>1, <1>4, AtCarries
  <2> QED
    BY <1>3, <2>1 DEF At, Op
<1>6. \A t \in Requests : \A n \in DOMAIN req'[t].done :
          Carries(t, o)' /\ req'[t].batch[n] = o /\ Keyed(o)' /\ ~ req'[t].done[n] => applied'[o] = 0
  <2> SUFFICES ASSUME NEW n \in DOMAIN req'[r].done, req'[r].batch[n] = o, Keyed(o), ~ req'[r].done[n]
               PROVE  applied[o] = 0
    BY <1>2, <1>4
  <2> DEFINE k == Len(req[r].done)
  <2>1. /\ k \in Nat /\ DOMAIN req'[r].done = 1 .. k + 1 /\ req'[r].done[k + 1] = TRUE
        /\ DOMAIN req[r].done = 1 .. k /\ \A m \in 1 .. k : req'[r].done[m] = req[r].done[m]
    BY <1>2, ResultRecord
  <2> HIDE DEF k
  <2>2. n \in 1 .. k
    BY <2>1
  <2>3. n \in DOMAIN req[r].done /\ req'[r].done[n] = req[r].done[n]
    BY <2>1, <2>2
  <2> QED
    BY <1>1, <1>3, <2>3 DEF Tracked
<1> QED
  BY <1>1, <1>2, <1>4, <1>5, <1>6 DEF Tracked

\* A request is sent: a write that another request carries is exposed, any
\* other has this one as its only carrier.
LEMMA SendKeepsUnexposed ==
  ASSUME TypeOK, Shape, Unexposed, NEW r \in Requests, NEW via \in {"direct", "sync"},
         NEW b \in Seq(Ops), Send(r, via, b), UNCHANGED <<applied, stored>>,
         \/ via = "direct" /\ Len(b) = 1 /\ outbox' = [outbox EXCEPT ![b[1]] = "sent"]
         \/ UNCHANGED outbox /\ \A n \in DOMAIN b : b[n] \in Pending
  PROVE  Unexposed'
<1> SUFFICES ASSUME NEW o \in Ops, o \notin exposed' PROVE Tracked(o)'
  BY DEF Unexposed
<1>1. req \in [Requests -> Request] /\ outbox \in [Ops -> Rows]
  BY DEF TypeOK, Request
<1>2. /\ req'[r].pc = "next" /\ req'[r].batch = b /\ req'[r].done = <<>>
      /\ \A t \in Requests \ {r} : req'[t] = req[t]
      /\ req[r].pc = "idle"
  BY <1>1 DEF Send, Free
<1>3. Tracked(o) /\ (In(o, b) => \A t \in Requests : ~ Carries(t, o))
  BY DEF Send, Unexposed, Running, Carries, Live
<1>4. \A t \in Requests \ {r} : /\ Carries(t, o)' <=> Carries(t, o)
                                /\ \A pc \in {"commit", "store"} : At(t, pc, o)' <=> At(t, pc, o)
  BY <1>2 DEF Carries, Live, In, At, Op
<1>5. \A pc \in {"commit", "store"} : ~ At(r, pc, o)' /\ ~ At(r, pc, o)
  BY <1>2 DEF At
<1>6. (Carries(r, o)' <=> In(o, b)) /\ DOMAIN req'[r].done = {}
  BY <1>2 DEF Carries, Live, In
<1>7. DOMAIN b = 1 .. Len(b) /\ \A n \in DOMAIN b : b[n] \in Ops
  OBVIOUS
<1>8. outbox'[o] = outbox[o] \/ outbox'[o] \notin {"failed", "refused"}
  BY <1>1, <1>7
<1>9. CASE ~ In(o, b)
  <2>1. \A t \in Requests : Carries(t, o)' => Carries(t, o)
    BY <1>4, <1>6, <1>9
  <2> QED
    BY <1>2, <1>3, <1>4, <1>5, <1>6, <1>8, <2>1, QuietStep
<1>10. CASE In(o, b)
  <2>1. \A t \in Requests : \A pc \in {"commit", "store"} : ~ At(t, pc, o) /\ ~ At(t, pc, o)'
    BY <1>3, <1>4, <1>5, <1>10, AtCarries
  <2>2. outbox'[o] \notin {"failed", "refused"}
    <3>1. CASE via = "direct" /\ Len(b) = 1 /\ outbox' = [outbox EXCEPT ![b[1]] = "sent"]
      BY <1>1, <1>7, <1>10, <3>1 DEF In
    <3>2. CASE UNCHANGED outbox /\ \A n \in DOMAIN b : b[n] \in Pending
      BY <1>10, <3>2 DEF In, Pending
    <3> QED
      BY <3>1, <3>2
  <2>3. \A t, u \in Requests : Carries(t, o)' /\ Carries(u, o)' => t = u
    BY <1>3, <1>4, <1>10
  <2>4. \A t \in Requests : \A n \in DOMAIN req'[t].done : ~ Carries(t, o)'
    BY <1>3, <1>4, <1>6, <1>10
  <2>5. Keyed(o) /\ applied[o] > 0 => o \in stored
    BY <1>3, <2>1 DEF Tracked
  <2>6. (Keyed(o)' <=> Keyed(o)) /\ (Single(o)' <=> Single(o)) /\ applied' = applied /\ stored' = stored
    BY DEF Keyed, Single
  <2>7. Single(o) => applied[o] <= 1
    BY <1>3 DEF Tracked
  <2> QED
    BY <2>1, <2>2, <2>3, <2>4, <2>5, <2>6, <2>7 DEF Tracked
<1> QED
  BY <1>9, <1>10

\* A row is failed or refused by an answer that reports a failure.
LEMMA FailureIsReported ==
  ASSUME TypeOK, Shape, NEW r \in Requests, Answer(r), NEW o \in Ops,
         outbox'[o] # outbox[o], outbox'[o] \in {"failed", "refused"}
  PROVE  \E n \in DOMAIN req[r].done : req[r].batch[n] = o /\ ~ req[r].done[n]
<1>1. /\ req[r] \in Request /\ ~ More(r) /\ WellFormed(req[r]) /\ outbox \in [Ops -> Rows]
      /\ req[r].waiting
  BY AnswerRows, RequestsStay DEF Answer, TypeOK, Shape
<1>2. /\ Len(req[r].done) \in Nat /\ DOMAIN req[r].done = 1 .. Len(req[r].done)
      /\ Len(req[r].batch) \in Nat /\ DOMAIN req[r].batch = 1 .. Len(req[r].batch)
      /\ Len(req[r].done) = Len(req[r].batch)
      /\ \A n \in 1 .. Len(req[r].done) : req[r].done[n] \in BOOLEAN
  BY <1>1 DEF Request, WellFormed, More
<1>3. CASE req[r].via = "direct"
  <2>1. outbox' = [outbox EXCEPT ![req[r].batch[1]] = IF req[r].done[1] THEN "settled" ELSE "refused"]
    BY <1>1, <1>3 DEF Answer
  <2>2. Len(req[r].batch) = 1
    BY <1>1, <1>3 DEF WellFormed
  <2>3. o = req[r].batch[1] /\ ~ req[r].done[1]
    BY <1>1, <2>1
  <2> QED
    BY <1>2, <2>2, <2>3
<1>4. CASE req[r].via = "sync"
  <2>1. outbox'[o] = IF In(o, req[r].batch)
                     THEN Answered(outbox[o], \E n \in DOMAIN req[r].batch : req[r].batch[n] = o /\ req[r].done[n])
                     ELSE outbox[o]
    BY <1>1, <1>4 DEF Answer, In
  <2>2. In(o, req[r].batch) /\ ~ \E n \in DOMAIN req[r].batch : req[r].batch[n] = o /\ req[r].done[n]
    BY <2>1 DEF Answered
  <2> QED
    BY <1>2, <2>2 DEF In
<1> QED
  BY <1>1, <1>3, <1>4 DEF Request

\* The answer of the only request that carries a write tells what became of it.
LEMMA AnswerKeepsUnexposed ==
  ASSUME TypeOK, Shape, Unexposed, NEW r \in Requests, Answer(r)
  PROVE  Unexposed'
<1> SUFFICES ASSUME NEW o \in Ops, o \notin exposed PROVE Tracked(o)'
  BY DEF Unexposed, Answer
<1>1. /\ req' = [req EXCEPT ![r] = Idle] /\ req \in [Requests -> Request] /\ req[r] \in Request
      /\ UNCHANGED <<applied, stored>> /\ req[r].pc = "next" /\ WellFormed(req[r]) /\ Tracked(o)
  BY RequestsStay DEF Answer, TypeOK, Request, Shape, Unexposed
<1>2. req'[r] = Idle /\ \A t \in Requests \ {r} : req'[t] = req[t]
  BY <1>1
<1>3. /\ ~ Carries(r, o)'
      /\ \A t \in Requests \ {r} : Carries(t, o)' <=> Carries(t, o)
  BY <1>2 DEF Carries, Live, In, Idle
<1>4. /\ \A pc \in {"commit", "store"} : ~ At(r, pc, o)' /\ ~ At(r, pc, o)
      /\ \A t \in Requests \ {r} : \A pc \in {"commit", "store"} : At(t, pc, o)' <=> At(t, pc, o)
  BY <1>1, <1>2 DEF At, Op, Idle
<1>5. ASSUME Keyed(o), outbox'[o] \in {"failed", "refused"}, outbox'[o] # outbox[o]
      PROVE  applied[o] = 0 /\ \A t \in Requests : ~ Carries(t, o)'
  <2>1. PICK n \in DOMAIN req[r].done : req[r].batch[n] = o /\ ~ req[r].done[n]
    BY <1>5, FailureIsReported
  <2>2. Carries(r, o)
    BY <1>1, <1>5, AnswerRows DEF Carries, Live
  <2> QED
    BY <1>1, <1>3, <1>5, <2>1, <2>2 DEF Tracked
<1> QED
  BY <1>1, <1>2, <1>3, <1>4, <1>5, QuietStep

\* Nothing happens to any write: a fetch fails, rows are queued, time passes.
LEMMA DeviceKeepsUnexposed ==
  ASSUME TypeOK, Shape, Unexposed, UNCHANGED <<applied, stored, exposed>>,
         \A o \in Ops : outbox'[o] = outbox[o] \/ outbox'[o] = "pending",
         \A t \in Requests : \/ req'[t] = Idle /\ req[t].pc \notin {"commit", "store"}
                             \/ /\ req'[t].pc = req[t].pc /\ req'[t].batch = req[t].batch
                                /\ req'[t].done = req[t].done
  PROVE  Unexposed'
<1> SUFFICES ASSUME NEW o \in Ops, o \notin exposed PROVE Tracked(o)'
  BY DEF Unexposed
<1>1. Tracked(o)
  BY DEF Unexposed
<1>2. ASSUME NEW t \in Requests
      PROVE  /\ Carries(t, o)' => Carries(t, o)
             /\ \A pc \in {"commit", "store"} : At(t, pc, o)' <=> At(t, pc, o)
             /\ Carries(t, o)' => req'[t].batch = req[t].batch /\ req'[t].done = req[t].done
  <2>1. CASE req'[t] = Idle /\ req[t].pc \notin {"commit", "store"}
    BY <2>1 DEF Carries, Live, At, Idle
  <2>2. CASE req'[t].pc = req[t].pc /\ req'[t].batch = req[t].batch /\ req'[t].done = req[t].done
    BY <2>2 DEF Carries, Live, In, At, Op
  <2> QED
    BY <2>1, <2>2
<1>3. outbox'[o] = outbox[o] \/ outbox'[o] \notin {"failed", "refused"}
  OBVIOUS
<1> QED
  BY <1>1, <1>2, <1>3, QuietStep

\* A crash exposes every write that a request was working on.
LEMMA CrashKeepsUnexposed ==
  ASSUME TypeOK, Shape, Unexposed, Crash
  PROVE  Unexposed'
<1> SUFFICES ASSUME NEW o \in Ops, o \notin exposed' PROVE Tracked(o)'
  BY DEF Unexposed
<1>1. req \in [Requests -> Request] /\ UNCHANGED <<outbox, applied, stored>>
  BY DEF Crash, TypeOK, Request
<1>2. Tracked(o) /\ \A t \in Requests : ~ Carries(t, o)
  BY DEF Crash, Unexposed, Running, Carries, Live
<1>3. \A t \in Requests : req'[t].pc \in {"idle", "dead"}
  BY <1>1 DEF Crash, Idle, Request
<1>4. \A t \in Requests : ~ Carries(t, o)' /\ \A pc \in {"commit", "store"} : ~ At(t, pc, o) /\ ~ At(t, pc, o)'
  BY <1>2, <1>3, AtCarries DEF Carries, Live, At
<1> QED
  BY <1>1, <1>2, <1>4, QuietStep

\* Every step keeps what is known of the writes that were never exposed.
THEOREM UnexposedStep == TypeOK /\ Shape /\ Effects /\ Unexposed /\ [Next]_vars => Unexposed'
<1> SUFFICES ASSUME TypeOK, Shape, Effects, Unexposed, [Next]_vars PROVE Unexposed'
  OBVIOUS
<1>0. req \in [Requests -> Request] /\ outbox \in [Ops -> Rows]
  BY DEF TypeOK, Request
<1>1. ASSUME NEW r \in Requests, NEW o \in Ops, WriteOnline(r, o) PROVE Unexposed'
  <2>1. <<o>> \in Seq(Ops) /\ Len(<<o>>) = 1 /\ <<o>>[1] = o
    OBVIOUS
  <2> QED
    BY <1>1, <2>1, SendKeepsUnexposed DEF WriteOnline
<1>2. CASE UNCHANGED <<req, outbox, applied, stored, exposed>>
  BY <1>2, DeviceKeepsUnexposed
<1>3. ASSUME NEW r \in Requests, Flush(r) \/ GoOnline(r) PROVE Unexposed'
  <2>1. CASE SendPending(r)
    <3>1. PICK b \in Replays : Send(r, "sync", b)
      BY <2>1 DEF SendPending
    <3>2. UNCHANGED <<outbox, applied, stored>>
      BY <1>3 DEF Flush, GoOnline
    <3> QED
      BY <3>1, <3>2, ReplaysAreBatches, SendKeepsUnexposed
  <2> QED
    BY <1>2, <1>3, <2>1 DEF Flush, GoOnline
<1>4. ASSUME NEW r \in Requests, Lost(r) \/ Drop(r) PROVE Unexposed'
  <2>1. \A o \in Ops : outbox'[o] = outbox[o] \/ outbox'[o] = "pending"
    BY <1>0, <1>4 DEF Lost, Drop, ClientFails, Enqueue
  <2>2. \/ req'[r] = Idle /\ req[r].pc \in {"next", "dead"}
        \/ req'[r] = [req[r] EXCEPT !.waiting = FALSE]
    BY <1>0, <1>4 DEF Lost, Drop
  <2>3. \/ req'[r] = Idle /\ req[r].pc \notin {"commit", "store"}
        \/ req'[r].pc = req[r].pc /\ req'[r].batch = req[r].batch /\ req'[r].done = req[r].done
    BY <1>0, <2>2 DEF Request
  <2>4. UNCHANGED <<applied, stored, exposed>> /\ \A t \in Requests \ {r} : req'[t] = req[t]
    BY <1>0, <1>4 DEF Lost, Drop
  <2> QED
    BY <2>1, <2>3, <2>4, DeviceKeepsUnexposed
<1>5. ASSUME NEW r \in Requests, Begin(r) \/ Commit(r) \/ Store(r) PROVE Unexposed'
  <2> SUFFICES ASSUME NEW o \in Ops, o \notin exposed PROVE Tracked(o)'
    BY <1>5, WorkKeepsRequest DEF Unexposed
  <2>1. Tracked(o)
    BY DEF Unexposed
  <2> QED
    BY <1>5, <2>1, WorkIsQuietForOthers, BeginKeepsTracked, CommitKeepsTracked, StoreKeepsTracked
<1>6. ASSUME NEW o \in Ops, WriteOffline(o) PROVE Unexposed'
  <2>1. \A p \in Ops : outbox'[p] = outbox[p] \/ outbox'[p] = "pending"
    BY <1>0, <1>6 DEF WriteOffline, Enqueue
  <2> QED
    BY <1>6, <2>1, DeviceKeepsUnexposed DEF WriteOffline
<1>7. CASE GoOffline
  BY <1>2, <1>7 DEF GoOffline
<1>8. CASE UNCHANGED vars
  BY <1>2, <1>8 DEF vars
<1> QED
  BY <1>1, <1>3, <1>4, <1>5, <1>6, <1>7, <1>8, AnswerKeepsUnexposed, CrashKeepsUnexposed DEF Next

-----------------------------------------------------------------------------

SyncInv == TypeOK /\ Shape /\ Effects /\ Unexposed

\* The invariant holds in every reachable state.
THEOREM SyncInvariant == Spec => []SyncInv
<1>1. Init => SyncInv
  <2> SUFFICES ASSUME Init PROVE SyncInv
    OBVIOUS
  <2>1. TypeOK
    BY IdleIsRequest, BoundAssumption DEF Init, TypeOK, Rows, Request
  <2>2. Shape
    BY DEF Init, Shape, WellFormed, Asking, Distinct, Pending, Idle
  <2>3. Effects
    BY DEF Init, Effects, Reported, SettledWasApplied, BookedOnce, Idle
  <2>4. Unexposed
    BY DEF Init, Unexposed, Tracked, Carries, Live, In, At, Idle
  <2> QED
    BY <2>1, <2>2, <2>3, <2>4 DEF SyncInv
<1>2. SyncInv /\ [Next]_vars => SyncInv'
  BY TypeStep, ShapeStep, EffectsStep, UnexposedStep DEF SyncInv
<1> QED
  BY <1>1, <1>2, PTL DEF Spec

\* Queue, rows and requests keep their types, for any number of each.
THEOREM TypeCorrect == Spec => []TypeOK
<1>1. SyncInv => TypeOK
  BY DEF SyncInv
<1> QED
  BY <1>1, SyncInvariant, PTL

\* A booking is made once per key, and a payment or a check-in that was never
\* carried by two requests nor met by a crash takes effect once.
THEOREM AppliesOnce == Spec => []AppliedOnce
<1>1. SyncInv => AppliedOnce
  BY DEF SyncInv, Effects, Unexposed, Tracked, AppliedOnce, OnceUnlessExposed, Single, Keyed
<1> QED
  BY <1>1, SyncInvariant, PTL

\* A row leaves the outbox only for a write that took effect; and one that was
\* never exposed is shown as failed only if it did not.
THEOREM OutcomesAreTruthful == Spec => []OutcomeIsTruthful
<1>1. SyncInv => OutcomeIsTruthful
  <2> SUFFICES ASSUME SyncInv, NEW o \in Ops, Keyed(o), o \notin exposed
               PROVE  /\ outbox[o] \in {"failed", "refused"} => applied[o] = 0
                      /\ o \in stored <=> (applied[o] > 0 /\ \A r \in Requests : req[r].pc = "store" => Op(r) # o)
    BY DEF SyncInv, Effects, OutcomeIsTruthful, FailureIsTruthful
  <2>1. Tracked(o) /\ (o \in stored => applied[o] > 0)
    BY DEF SyncInv, Unexposed, Effects
  <2> QED
    BY <2>1 DEF Tracked, At
<1> QED
  BY <1>1, SyncInvariant, PTL

-----------------------------------------------------------------------------
(* The other part of the web app.  KioskProofs proves its lemmas of Kiosk by *)
(* its own names; under WebApp's substitution they are about K.              *)

KP == INSTANCE KioskProofs WITH requests <- sent

LEMMA KioskInits == K!Init => KP!Init
  BY DEF K!Init, KP!Init, K!NoBooking, KP!NoBooking, K!Nobody, KP!Nobody,
         K!Unset, KP!Unset, K!Idle, KP!Idle, K!Sessions, KP!Sessions

LEMMA KioskSteps == [K!Next]_(K!vars) => [KP!Next]_(KP!vars)
  BY DEF K!vars, KP!vars, K!Next, KP!Next,
         K!Open, KP!Open, K!ResetToIdle, KP!ResetToIdle,
         K!CapturePhoto, KP!CapturePhoto, K!ToUpsell, KP!ToUpsell,
         K!ToSign, KP!ToSign, K!Sign, KP!Sign,
         K!ServedElsewhere, KP!ServedElsewhere,
         K!SearchBooking, KP!SearchBooking, K!StartCamera, KP!StartCamera,
         K!CompleteCheckIn, KP!CompleteCheckIn, K!BookWalkIn, KP!BookWalkIn,
         K!ServerSearch, KP!ServerSearch, K!ServerCheckIn, KP!ServerCheckIn,
         K!ServerBook, KP!ServerBook, K!CameraAnswers, KP!CameraAnswers,
         K!SearchAnswers, KP!SearchAnswers,
         K!CheckInAnswers, KP!CheckInAnswers,
         K!WalkInAnswers, KP!WalkInAnswers, K!Noted, KP!Noted,
         K!Finished, KP!Finished, K!Passes, KP!Passes, K!ShowKey, KP!ShowKey,
         K!Pending, KP!Pending, K!FormReady, KP!FormReady, K!OnPage, KP!OnPage,
         K!Cleared, KP!Cleared, K!history, KP!history, K!page, KP!page,
         K!NoBooking, KP!NoBooking, K!Nobody, KP!Nobody, K!Unset, KP!Unset,
         K!Idle, KP!Idle, K!Sessions, KP!Sessions, K!Guest, KP!Guest,
         K!WalkIn, KP!WalkIn

LEMMA KioskPromises ==
  KP!TypeOK /\ KP!KioskServesItsGuest => K!TypeOK /\ K!KioskServesItsGuest
  BY DEF K!TypeOK, KP!TypeOK, K!KioskServesItsGuest, KP!KioskServesItsGuest,
         K!KeyIsEarned, KP!KeyIsEarned, K!SignedFor, KP!SignedFor,
         K!OneRoomPerForm, KP!OneRoomPerForm, K!People, KP!People,
         K!Guest, KP!Guest, K!WalkIn, KP!WalkIn, K!Nobody, KP!Nobody,
         K!Unset, KP!Unset, K!Sessions, KP!Sessions

\* The other part of a behaviour leaves the kiosk alone.
KioskPart == part = "kiosk" => KP!KioskInv

\* A key on the page of the kiosk goes to the guest it was made for, who booked it or was
\* checked in, and a walk-in's form books one room: for any number of bookings, guests and
\* answers under way, unless an answer came to a page that had moved on.
THEOREM KioskServesGuests == WebAppSpec => []KioskServesItsGuest
<1>1. WebAppInit => KioskPart
  BY KioskInits, KP!KioskInit, SessionAssumption DEF WebAppInit, KioskPart
<1>2. KioskPart /\ [WebAppNext]_<<part, vars, kiosk>> => KioskPart'
  <2> SUFFICES ASSUME KioskPart, [WebAppNext]_<<part, vars, kiosk>>, part' = "kiosk"
               PROVE  KP!KioskInv'
    BY DEF KioskPart
  <2>1. part = "kiosk" /\ [K!Next]_(K!vars)
    BY DEF WebAppNext, SyncStep, KioskStep, kiosk, K!vars
  <2> QED
    BY <2>1, KioskSteps, KP!KioskStep DEF KioskPart
<1>3. KioskPart => KioskServesItsGuest
  BY KP!KioskServes, KioskPromises DEF KioskPart, KioskServesItsGuest
<1> QED
  BY <1>1, <1>2, <1>3, PTL DEF WebAppSpec

=============================================================================
