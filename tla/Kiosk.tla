------------------------------- MODULE Kiosk -------------------------------
(***************************************************************************)
(* The self-service kiosk of the web app: Kiosk.tsx.  One page serves one  *)
(* guest after the other; resetToIdle, on a button or a timer, clears it   *)
(* for the next.  Its handlers await an answer and then write to the page, *)
(* whoever stands before it by then: nothing cancels a call.               *)
(*                                                                         *)
(* Abstracted: a search finds the booking it is for (the page takes the    *)
(* first of its results); a signature and the box below it are one; which  *)
(* add-ons are chosen, whose request is made and whose outcome is ignored; *)
(* the WhatsApp message; the checkout, which like the guide only shows     *)
(* something and checks nobody out.  The camera is denied or has no        *)
(* effect: its element is only drawn once the stream has found it.         *)
(***************************************************************************)
EXTENDS Naturals

CONSTANTS
    Bookings,      \* reservations made in advance
    Calls,         \* bound: answers awaited at once
    MaxSessions,   \* bound: guests served
    MaxRequests    \* bound: searches and walk-in forms sent

VARIABLES
    status,       \* status[b]: Reservation.status
    screen,
    active,       \* activeBooking: who it is for and the status it was found in
    idCaptured,   \* who was on the page when the document was captured
    signed,       \* hasSignature and agreedToTerms: who was on the page
    upsell,       \* add-ons are selected
    searching,    \* searchLoading
    booking,      \* walkinLoading
    passcode,     \* generatedPasscode: whom it was made for
    call,         \* call[c]: an answer awaited, and what its closure holds
    session,      \* the guest at the kiosk
    asked,        \* history: the booking searched for last in this session
    requests,
    promised,     \* history: bookings whose check-in waits in the offline queue
    rooms,        \* history: rooms[s]: rooms booked by the forms of session s
    lost,         \* history: sessions with a booking whose answer was lost
    late          \* history: in this session an answer came to a page that had moved on

vars == <<status, screen, active, idCaptured, signed, upsell, searching, booking, passcode, call,
          session, asked, requests, promised, rooms, lost, late>>

page    == <<screen, active, idCaptured, signed, upsell, searching, booking, passcode>>
history == <<asked, requests, promised, rooms, lost>>

Sessions == 1 .. MaxSessions

Unset     == <<"unset", 0>>
Nobody    == <<"nobody", 0>>
Guest(b)  == <<"booking", b>>
WalkIn(s) == <<"walkin", s>>
People    == {Guest(b) : b \in Bookings} \cup {WalkIn(s) : s \in Sessions} \cup {Nobody}

NoBooking == [who |-> Nobody, status |-> "none"]

Idle == [kind |-> "idle", stage |-> "none", who |-> Nobody, signed |-> Unset, upsell |-> FALSE,
         session |-> 0, past |-> FALSE]

Init ==
    /\ status = [b \in Bookings |-> "CONFIRMED"]
    /\ screen = "idle" /\ active = NoBooking
    /\ idCaptured = Unset /\ signed = Unset /\ upsell = FALSE
    /\ searching = FALSE /\ booking = FALSE
    /\ passcode = Nobody
    /\ call = [c \in Calls |-> Idle]
    /\ session = 1 /\ asked = Nobody /\ requests = 0
    /\ promised = {} /\ rooms = [s \in Sessions |-> 0] /\ lost = {} /\ late = FALSE

-----------------------------------------------------------------------------
(* The page                                                                *)

\* The four buttons of the idle screen, and those between the two ways to search.
Open(to) ==
    /\ \/ screen = "idle" /\ to \in {"checkin-find", "walkin", "guide"}
       \/ screen = "checkin-find" /\ to = "checkin-qr"
       \/ screen = "checkin-qr" /\ to = "checkin-find"
    /\ screen' = to
    /\ UNCHANGED <<status, active, idCaptured, signed, upsell, searching, booking, passcode,
                   call, session, late, history>>

\* Fault: the document and the signature of the last guest stay.
Kept(flag) == flag

Cleared(flag) == Unset

\* resetToIdle: Home, Done, or the timer that every screen but the first starts, which
\* runs out whatever the guest is doing.  Calls in flight are left to themselves.
ResetToIdle ==
    /\ screen # "idle"
    /\ session < MaxSessions
    /\ session' = session + 1
    /\ screen' = "idle" /\ active' = NoBooking
    /\ idCaptured' = Cleared(idCaptured) /\ signed' = Cleared(signed) /\ upsell' = FALSE
    /\ asked' = Nobody /\ late' = FALSE
    /\ call' = [c \in Calls |-> IF call[c] = Idle THEN Idle ELSE [call[c] EXCEPT !.past = TRUE]]
    /\ UNCHANGED <<status, searching, booking, passcode, requests, promised, rooms, lost>>

OnPage == active # NoBooking

\* capturePhoto, with the camera or without.
CapturePhoto ==
    /\ screen = "checkin-id" /\ OnPage /\ idCaptured = Unset
    /\ idCaptured' = active.who
    /\ UNCHANGED <<status, screen, active, signed, upsell, searching, booking, passcode,
                   call, session, late, history>>

ToUpsell ==
    /\ screen = "checkin-id" /\ OnPage
    /\ idCaptured # Unset
    /\ screen' = "checkin-upsell"
    /\ UNCHANGED <<status, active, idCaptured, signed, upsell, searching, booking, passcode,
                   call, session, late, history>>

\* Skip or Continue.
ToSign ==
    /\ screen = "checkin-upsell" /\ OnPage
    /\ upsell' \in BOOLEAN
    /\ screen' = "checkin-sign"
    /\ UNCHANGED <<status, active, idCaptured, signed, searching, booking, passcode,
                   call, session, late, history>>

\* The signature and the box, given or taken back.
Sign ==
    /\ screen = "checkin-sign" /\ OnPage
    /\ signed' = IF signed = Unset THEN active.who ELSE Unset
    /\ UNCHANGED <<status, screen, active, idCaptured, upsell, searching, booking, passcode,
                   call, session, late, history>>

-----------------------------------------------------------------------------
(* The handlers up to their await                                          *)

Pending(kind, stage, who) ==
    [kind |-> kind, stage |-> stage, who |-> who, signed |-> signed, upsell |-> upsell,
     session |-> session, past |-> FALSE]

\* startCamera asks for the camera, at first or to retake the photo.
StartCamera(c) ==
    /\ screen = "checkin-id" /\ OnPage
    /\ call[c] = Idle
    /\ idCaptured' = Unset
    /\ call' = [call EXCEPT ![c] = Pending("camera", "sent", active.who)]
    /\ UNCHANGED <<status, screen, active, signed, upsell, searching, booking, passcode,
                   session, late, history>>

\* handleSearchBooking: the form waits for an answer, the button of the QR screen does
\* not.  A later search does not cancel an earlier one.
SearchBooking(c, b) ==
    /\ \/ screen = "checkin-find" /\ ~ searching
       \/ screen = "checkin-qr"
    /\ call[c] = Idle
    /\ requests < MaxRequests
    /\ requests' = requests + 1
    /\ searching' = TRUE
    /\ asked' = Guest(b)
    /\ call' = [d \in Calls |->
         IF d = c THEN Pending("search", "sent", Guest(b))
         ELSE IF call[d].kind = "search" THEN [call[d] EXCEPT !.past = TRUE] ELSE call[d]]
    /\ UNCHANGED <<status, screen, active, idCaptured, signed, upsell, booking, passcode,
                   session, promised, rooms, lost, late>>

ShowKey(who) == screen' = "checkin-key" /\ passcode' = who

\* handleCompleteCheckIn: the check-in, unless the booking was found checked in; then the
\* add-ons; then the key.
CompleteCheckIn(c) ==
    /\ screen = "checkin-sign" /\ OnPage
    /\ signed # Unset
    /\ call[c] = Idle
    /\ IF active.status = "CHECKED_IN" /\ ~ upsell
         THEN ShowKey(active.who) /\ UNCHANGED call
         ELSE /\ call' = [call EXCEPT ![c] = Pending("checkin",
                    IF active.status = "CHECKED_IN" THEN "upsell" ELSE "sent", active.who)]
              /\ UNCHANGED <<screen, passcode>>
    /\ UNCHANGED <<status, active, idCaptured, signed, upsell, searching, booking,
                   session, late, history>>

\* Fault: the button of the walk-in form does not wait for the answer.
FormReadyAlways == TRUE

FormReady == ~ booking

\* handleWalkInBooking
BookWalkIn(c) ==
    /\ screen = "walkin" /\ FormReady
    /\ call[c] = Idle
    /\ requests < MaxRequests
    /\ requests' = requests + 1
    /\ booking' = TRUE
    /\ call' = [call EXCEPT ![c] = Pending("walkin", "sent", WalkIn(session))]
    /\ UNCHANGED <<status, screen, active, idCaptured, signed, upsell, searching, passcode,
                   session, asked, promised, rooms, lost, late>>
-----------------------------------------------------------------------------
(* The other side                                                          *)

\* The search reads the booking, or the code is unknown or the call fails.
ServerSearch(c) ==
    /\ call[c].kind = "search" /\ call[c].stage = "sent"
    /\ \E b \in Bookings :
        /\ call[c].who = Guest(b)
        /\ \E answer \in {status[b], "none"} : call' = [call EXCEPT ![c].stage = answer]
    /\ UNCHANGED <<status, session, late, page, history>>

\* The check-in: refused unless CONFIRMED with a room to go to.  The network may fail
\* before or after it, and then apiWrite queues the write.
ServerCheckIn(c) ==
    /\ call[c].kind = "checkin" /\ call[c].stage = "sent"
    /\ \E b \in Bookings, done \in BOOLEAN, answer \in {"yes", "no", "queued"} :
        /\ call[c].who = Guest(b)
        /\ done => status[b] = "CONFIRMED"
        /\ answer = "yes" => done
        /\ answer = "no" => ~ done
        /\ status' = IF done THEN [status EXCEPT ![b] = "CHECKED_IN"] ELSE status
        /\ promised' = IF answer = "queued" THEN promised \cup {b} ELSE promised
        /\ call' = [call EXCEPT ![c].stage = answer]
    /\ UNCHANGED <<session, asked, requests, rooms, lost, late, page>>

\* The booking of a walk-in, refused, failed, or made with its answer lost: the request
\* has no key.
ServerBook(c) ==
    /\ call[c].kind = "walkin" /\ call[c].stage = "sent"
    /\ LET s == call[c].session IN
        \/ /\ call' = [call EXCEPT ![c].stage = "no"]
           /\ UNCHANGED <<rooms, lost>>
        \/ /\ call' = [call EXCEPT ![c].stage = "yes"]
           /\ rooms' = [rooms EXCEPT ![s] = @ + 1]
           /\ UNCHANGED lost
        \/ /\ call' = [call EXCEPT ![c].stage = "no"]
           /\ rooms' = [rooms EXCEPT ![s] = @ + 1]
           /\ lost' = lost \cup {s}
    /\ UNCHANGED <<status, session, asked, requests, promised, late, page>>

\* The desk, or the offline queue, checks a guest in.
ServedElsewhere(b) ==
    /\ status[b] = "CONFIRMED"
    /\ status' = [status EXCEPT ![b] = "CHECKED_IN"]
    /\ UNCHANGED <<session, call, late, page, history>>

-----------------------------------------------------------------------------
(* The handlers after their await                                          *)

Noted(c) == late' = (late \/ call[c].past)

Finished(c) == call' = [call EXCEPT ![c] = Idle]

\* A denied camera counts as a captured document.
CameraAnswers(c) ==
    /\ call[c].kind = "camera"
    /\ \/ /\ idCaptured' = active.who
          /\ Noted(c)
       \/ UNCHANGED <<idCaptured, late>>
    /\ Finished(c)
    /\ UNCHANGED <<status, screen, active, signed, upsell, searching, booking, passcode,
                   session, history>>

\* The booking found is put on the page.
SearchAnswers(c) ==
    /\ call[c].kind = "search" /\ call[c].stage # "sent"
    /\ searching' = FALSE
    /\ IF call[c].stage = "none"
         THEN UNCHANGED <<screen, active, late>>
         ELSE /\ active' = [who |-> call[c].who, status |-> call[c].stage]
              /\ screen' = "checkin-id"
              /\ Noted(c)
    /\ Finished(c)
    /\ UNCHANGED <<status, idCaptured, signed, upsell, booking, passcode, session, history>>

\* Fault: a refused check-in is passed over.
PassesAny(stage) == stage \in {"yes", "no", "queued"}

Passes(stage) == stage \in {"yes", "queued"}

\* A check-in that was made or queued is followed by the add-ons, whose outcome does not
\* matter, or by the key; one that was refused by an alert.
CheckInAnswers(c) ==
    /\ call[c].kind = "checkin" /\ call[c].stage # "sent"
    /\ IF Passes(call[c].stage) /\ call[c].upsell
         THEN /\ call' = [call EXCEPT ![c].stage = "upsell"]
              /\ UNCHANGED <<screen, passcode, late>>
         ELSE /\ Finished(c)
              /\ IF Passes(call[c].stage) \/ call[c].stage = "upsell"
                   THEN ShowKey(call[c].who) /\ Noted(c)
                   ELSE UNCHANGED <<screen, passcode, late>>
    /\ UNCHANGED <<status, active, idCaptured, signed, upsell, searching, booking,
                   session, history>>

\* A booked walk-in gets the key at once.
WalkInAnswers(c) ==
    /\ call[c].kind = "walkin" /\ call[c].stage # "sent"
    /\ booking' = FALSE
    /\ IF call[c].stage = "yes"
         THEN /\ ShowKey(call[c].who) /\ Noted(c)
              /\ active' = [who |-> call[c].who, status |-> "CONFIRMED"]
         ELSE UNCHANGED <<screen, active, passcode, late>>
    /\ Finished(c)
    /\ UNCHANGED <<status, idCaptured, signed, upsell, searching, session, history>>

Next ==
    \/ \E to \in {"checkin-find", "checkin-qr", "walkin", "guide"} : Open(to)
    \/ ResetToIdle \/ CapturePhoto \/ ToUpsell \/ ToSign \/ Sign
    \/ \E b \in Bookings : ServedElsewhere(b)
    \/ \E c \in Calls :
        \/ \E b \in Bookings : SearchBooking(c, b)
        \/ StartCamera(c) \/ CompleteCheckIn(c) \/ BookWalkIn(c)
        \/ ServerSearch(c) \/ ServerCheckIn(c) \/ ServerBook(c)
        \/ CameraAnswers(c) \/ SearchAnswers(c) \/ CheckInAnswers(c) \/ WalkInAnswers(c)

Spec == Init /\ [][Next]_vars

-----------------------------------------------------------------------------
(* Properties                                                              *)

\* The values the page, its calls and the bookings can have.
TypeOK ==
    /\ status \in [Bookings -> {"CONFIRMED", "CHECKED_IN"}]
    /\ screen \in {"idle", "checkin-find", "checkin-qr", "checkin-id", "checkin-upsell",
                   "checkin-sign", "checkin-key", "walkin", "guide"}
    /\ active.who \in People
    /\ idCaptured \in People \cup {Unset} /\ signed \in People \cup {Unset}
    /\ passcode \in People /\ asked \in People
    /\ \A c \in Calls :
        /\ call[c].kind \in {"idle", "camera", "search", "checkin", "walkin"}
        /\ call[c].session \in 0 .. session
    /\ promised \subseteq Bookings /\ lost \subseteq Sessions
    /\ rooms \in [Sessions -> Nat]

\* "Check-In Complete": a key on the page has a code made for the guest who is on it.  A
\* walk-in has booked in this session; any other searched for this booking, showed a
\* document for it, and it was checked in, or its check-in is queued.
KeyIsEarned ==
    screen = "checkin-key" /\ ~ late =>
        /\ passcode = active.who
        /\ \/ active.who = WalkIn(session) /\ rooms[session] > 0
           \/ \E b \in Bookings :
                /\ active.who = Guest(b) /\ asked = Guest(b) /\ idCaptured = Guest(b)
                /\ status[b] # "CONFIRMED" \/ b \in promised

\* A check-in under way was signed for by the guest it is for.
SignedFor ==
    \A c \in Calls :
        call[c].kind = "checkin" /\ ~ late /\ ~ call[c].past => call[c].signed = call[c].who

\* A guest who fills in the walk-in form gets one room, unless an answer is lost.
OneRoomPerForm == \A s \in Sessions : rooms[s] > 1 => s \in lost

\* What the kiosk hands out, unless an answer came to a page that had moved on.
KioskServesItsGuest == KeyIsEarned /\ SignedFor /\ OneRoomPerForm

=============================================================================
