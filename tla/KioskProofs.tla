---------------------------- MODULE KioskProofs ----------------------------
(***************************************************************************)
(* Kiosk, for every set of bookings and calls and any number of guests and *)
(* requests.                                                               *)
(*                                                                         *)
(* Nothing cancels a call, so what is proved is of a page to which no late *)
(* answer came: there a call of this session finds the page as it left it, *)
(* or one screen on.  That a form books one room is true of late answers   *)
(* too: the button of the form waits for its answer, and once it came only *)
(* the next guest can return to the form.                                  *)
(***************************************************************************)
EXTENDS Kiosk, TLAPS

Stages == {"none", "sent", "CONFIRMED", "CHECKED_IN", "yes", "no", "queued", "upsell"}

Call == [kind : {"idle", "camera", "search", "checkin", "walkin"}, stage : Stages,
         who : People, signed : People \cup {Unset}, upsell : BOOLEAN,
         session : 0 .. MaxSessions, past : BOOLEAN]

\* The values of every variable; a call is of this session or of an earlier one.
Typed ==
    /\ MaxSessions \in Nat \ {0}
    /\ TypeOK
    /\ active \in [who : People, status : {"none", "CONFIRMED", "CHECKED_IN"}]
    /\ upsell \in BOOLEAN /\ searching \in BOOLEAN /\ booking \in BOOLEAN /\ late \in BOOLEAN
    /\ session \in Sessions
    /\ call \in [Calls -> Call]
    /\ \A c \in Calls : call[c].kind = "idle" => call[c] = Idle

\* What an answer says: a booking found checked in is, a walk-in has its room.
Told(c) ==
    /\ call[c].kind = "search" =>
         /\ call[c].stage \in {"sent", "none", "CONFIRMED", "CHECKED_IN"}
         /\ \E b \in Bookings : /\ call[c].who = Guest(b)
                                /\ call[c].stage = "CHECKED_IN" => status[b] = "CHECKED_IN"
    /\ call[c].kind = "walkin" =>
         /\ call[c].session \in Sessions
         /\ call[c].who = WalkIn(call[c].session)
         /\ call[c].stage = "yes" => rooms[call[c].session] > 0

\* One walk-in form is sent at a time, and the button waits for its answer.
OneForm ==
    /\ \A c, d \in Calls : call[c].kind = "walkin" /\ call[d].kind = "walkin" => c = d
    /\ \A c \in Calls : call[c].kind = "walkin" =>
         booking /\ (call[c].session = session => screen # "idle")

\* Until its answer is there a form has no room; afterwards only the next guest can
\* return to the form.
RoomOf(s) ==
    /\ s > session => rooms[s] = 0
    /\ s \notin lost => rooms[s] <= 1
    /\ s \notin lost /\ rooms[s] = 1 =>
         /\ \A c \in Calls : call[c].kind = "walkin" /\ call[c].session = s => call[c].stage # "sent"
         /\ s = session =>
              /\ screen # "idle"
              /\ screen = "walkin" =>
                   \E c \in Calls : call[c].kind = "walkin" /\ call[c].stage = "yes"

\* The booking on the page is the one searched for, the document and the signature are
\* its guest's.
Served(b) ==
    /\ active.who = Guest(b) /\ asked = Guest(b)
    /\ active.status = "CHECKED_IN" => status[b] = "CHECKED_IN"
    /\ idCaptured \in {Unset, Guest(b)} /\ signed \in {Unset, Guest(b)}
    /\ screen # "checkin-id" => idCaptured = Guest(b)

PageFits ==
    /\ screen \in {"idle", "checkin-find", "checkin-qr", "walkin", "guide"} =>
         active = NoBooking /\ idCaptured = Unset /\ signed = Unset
    /\ screen \in {"checkin-id", "checkin-upsell", "checkin-sign"} =>
         \E b \in Bookings : Served(b)
    /\ KeyIsEarned

\* A call of this session finds the page as it left it, or one step on.
CallFits(c) ==
    /\ call[c].kind = "camera" =>
         screen \in {"checkin-id", "checkin-upsell", "checkin-sign", "checkin-key"}
    /\ call[c].kind = "search" =>
         screen \in {"checkin-find", "checkin-qr"} /\ call[c].who = asked
    /\ call[c].kind = "walkin" => screen = "walkin" /\ call[c].session = session
    /\ call[c].kind = "checkin" =>
         /\ screen \in {"checkin-sign", "checkin-key"}
         /\ call[c].who = active.who /\ call[c].signed = active.who
         /\ call[c].stage \in {"yes", "queued", "upsell"} =>
              \A b \in Bookings : call[c].who = Guest(b) => status[b] = "CHECKED_IN" \/ b \in promised

OneSearch ==
    \A c, d \in Calls : call[c].kind = "search" /\ call[d].kind = "search" =>
        call[c].past \/ call[d].past \/ c = d

OnTime ==
    /\ PageFits
    /\ \A c \in Calls : call[c].past \/ CallFits(c)
    /\ OneSearch

KioskInv ==
    /\ Typed
    /\ \A c \in Calls : Told(c)
    /\ OneForm
    /\ \A s \in Sessions : RoomOf(s)
    /\ late \/ OnTime

-----------------------------------------------------------------------------
(* People and calls                                                        *)

\* A code is made for one booking, one walk-in or nobody.
LEMMA PeopleDiffer ==
    /\ Unset # Nobody /\ Nobody \in People
    /\ \A b \in Bookings : Guest(b) \in People /\ Guest(b) \notin {Unset, Nobody}
    /\ \A s \in Sessions : WalkIn(s) \in People /\ WalkIn(s) \notin {Unset, Nobody}
    /\ \A b \in Bookings, s \in Sessions : Guest(b) # WalkIn(s)
    /\ \A a, b \in Bookings : Guest(a) = Guest(b) => a = b
    /\ \A s, t \in Sessions : WalkIn(s) = WalkIn(t) => s = t
  BY DEF People, Guest, WalkIn, Unset, Nobody

LEMMA IdleCall ==
    /\ MaxSessions \in Nat => Idle \in Call
    /\ Idle.kind = "idle" /\ Idle.session = 0
    /\ NoBooking \in [who : People, status : {"none", "CONFIRMED", "CHECKED_IN"}]
  BY PeopleDiffer DEF Idle, Call, Stages, NoBooking

\* Call d keeps what it holds; it may have become one of the past.
Carries(d) ==
    /\ call'[d].kind = call[d].kind /\ call'[d].stage = call[d].stage
    /\ call'[d].who = call[d].who /\ call'[d].signed = call[d].signed
    /\ call'[d].session = call[d].session
    /\ call[d].past => call'[d].past

Others(c) == \A d \in Calls : d # c => Carries(d)

\* A handler that awaits an answer.
LEMMA Asks ==
  ASSUME Typed, NEW c \in Calls, NEW kind \in {"camera", "search", "checkin", "walkin"},
         NEW stage \in Stages, NEW who \in People,
         call' = [call EXCEPT ![c] = Pending(kind, stage, who)]
  PROVE  /\ call' \in [Calls -> Call] /\ Others(c)
         /\ call'[c].kind = kind /\ call'[c].stage = stage /\ call'[c].who = who
         /\ call'[c].signed = signed /\ call'[c].session = session /\ ~ call'[c].past
         /\ \A d \in Calls : /\ call'[d].session \in 0 .. session
                             /\ call'[d].kind = "idle" => call'[d] = Idle
<1>1. Pending(kind, stage, who) \in Call
  BY DEF Pending, Call, Typed, TypeOK, Sessions
<1>2. call'[c] = Pending(kind, stage, who) /\ \A d \in Calls : d # c => call'[d] = call[d]
  BY DEF Typed
<1>3. session \in 0 .. session
  BY DEF Typed, Sessions
<1> QED
  BY <1>1, <1>2, <1>3 DEF Pending, Typed, TypeOK, Others, Carries

\* An answer is there: the call is at its next stage.
LEMMA Staged ==
  ASSUME Typed, NEW c \in Calls, NEW stage \in Stages, call[c].kind # "idle",
         call' = [call EXCEPT ![c].stage = stage]
  PROVE  /\ call' \in [Calls -> Call] /\ Others(c)
         /\ call'[c].kind = call[c].kind /\ call'[c].stage = stage /\ call'[c].who = call[c].who
         /\ call'[c].signed = call[c].signed /\ call'[c].session = call[c].session
         /\ call'[c].past = call[c].past
         /\ \A d \in Calls : /\ call'[d].session \in 0 .. session
                             /\ call'[d].kind = "idle" => call'[d] = Idle
<1>1. call[c] \in Call
  BY DEF Typed
<1>2. [call[c] EXCEPT !.stage = stage] \in Call
  BY <1>1 DEF Call
<1>3. call'[c] = [call[c] EXCEPT !.stage = stage] /\ \A d \in Calls : d # c => call'[d] = call[d]
  BY DEF Typed
<1>4. call' \in [Calls -> Call]
  BY <1>2 DEF Typed
<1>5. /\ call'[c].kind = call[c].kind /\ call'[c].stage = stage /\ call'[c].who = call[c].who
      /\ call'[c].signed = call[c].signed /\ call'[c].session = call[c].session
      /\ call'[c].past = call[c].past
  BY <1>1, <1>3 DEF Call
<1> QED
  BY <1>3, <1>4, <1>5 DEF Typed, TypeOK, Others, Carries

\* A handler that is done.
LEMMA Ended ==
  ASSUME Typed, NEW c \in Calls, call' = [call EXCEPT ![c] = Idle]
  PROVE  /\ call' \in [Calls -> Call] /\ Others(c)
         /\ call'[c].kind = "idle"
         /\ \A d \in Calls : /\ call'[d].session \in 0 .. session
                             /\ call'[d].kind = "idle" => call'[d] = Idle
<1>1. call'[c] = Idle /\ \A d \in Calls : d # c => call'[d] = call[d]
  BY DEF Typed
<1>2. 0 \in 0 .. session
  BY DEF Typed, Sessions
<1> QED
  BY <1>1, <1>2, IdleCall DEF Typed, TypeOK, Others, Carries

-----------------------------------------------------------------------------
(* The page                                                                *)

\* The history, the bookings and the calls stay as they are.
PageOnly == UNCHANGED <<status, booking, call, session, late, asked, requests, promised, rooms, lost>>

\* A step of the page alone keeps what is said of calls and rooms, unless it leads to
\* the first screen or to the form.
LEMMA PageStep ==
  ASSUME KioskInv, PageOnly, Typed',
         screen' = screen \/ screen' \notin {"idle", "walkin"}
                          \/ (screen = "idle" /\ screen' = "walkin"),
         ~ late /\ OnTime => OnTime'
  PROVE  KioskInv'
<1>1. \A c \in Calls : Told(c)'
  BY DEF KioskInv, Told, PageOnly
<1>2. OneForm'
  BY DEF KioskInv, OneForm, PageOnly
<1>3. \A s \in Sessions : RoomOf(s)'
  BY DEF KioskInv, RoomOf, PageOnly
<1>4. late' \/ OnTime'
  BY DEF KioskInv, PageOnly
<1> QED
  BY <1>1, <1>2, <1>3, <1>4 DEF KioskInv

\* Nothing is in flight for the first screen, so a button may lead anywhere from it.
LEMMA OpenKeeps ==
  ASSUME KioskInv, NEW to \in {"checkin-find", "checkin-qr", "walkin", "guide"}, Open(to)
  PROVE  KioskInv'
<1>1. PageOnly /\ UNCHANGED <<active, idCaptured, signed, upsell, searching, passcode>>
  BY DEF Open, PageOnly, history
<1>2. Typed'
  BY <1>1 DEF KioskInv, Typed, TypeOK, Open, PageOnly
<1>3. ASSUME OnTime PROVE OnTime'
  <2>1. PageFits'
    BY <1>1, <1>3 DEF OnTime, PageFits, KeyIsEarned, Open, PageOnly
  <2>2. \A c \in Calls : call'[c].past \/ CallFits(c)'
    BY <1>1, <1>3 DEF OnTime, CallFits, Open, PageOnly
  <2>3. OneSearch'
    BY <1>1, <1>3 DEF OnTime, OneSearch, PageOnly
  <2> QED
    BY <2>1, <2>2, <2>3 DEF OnTime
<1> QED
  BY <1>1, <1>2, <1>3, PageStep DEF Open

\* The screens of a check-in are of one booking.
LEMMA PageIsServed ==
  ASSUME KioskInv, ~ late, screen \in {"checkin-id", "checkin-upsell", "checkin-sign"}
  PROVE  \E b \in Bookings : Served(b)
  BY DEF KioskInv, OnTime, PageFits

\* The document, the add-ons and the signature, one after the other.
LEMMA CheckInScreens ==
  ASSUME KioskInv, CapturePhoto \/ ToUpsell \/ ToSign \/ Sign
  PROVE  KioskInv'
<1>1. PageOnly /\ UNCHANGED <<active, searching, passcode>>
  BY DEF CapturePhoto, ToUpsell, ToSign, Sign, PageOnly, history
<1>2. /\ screen \in {"checkin-id", "checkin-upsell", "checkin-sign"}
      /\ screen' \in {"checkin-id", "checkin-upsell", "checkin-sign"}
      /\ screen' = "checkin-id" => screen = "checkin-id"
      /\ screen = "checkin-sign" => screen' = "checkin-sign"
  BY DEF CapturePhoto, ToUpsell, ToSign, Sign
<1>3. Typed'
  <2>1. active.who \in People
    BY DEF KioskInv, Typed, TypeOK
  <2> QED
    BY <1>1, <1>2, <2>1 DEF KioskInv, Typed, TypeOK, CapturePhoto, ToUpsell, ToSign, Sign, PageOnly
<1>4. ASSUME ~ late, OnTime PROVE OnTime'
  <2>1. PICK b \in Bookings : Served(b)
    BY <1>2, <1>4, PageIsServed
  <2>2. Served(b)'
    BY <1>1, <1>2, <2>1 DEF Served, CapturePhoto, ToUpsell, ToSign, Sign, PageOnly
  <2>3. PageFits'
    BY <1>2, <2>2 DEF PageFits, KeyIsEarned
  <2>4. \A c \in Calls : call'[c].past \/ CallFits(c)'
    BY <1>1, <1>2, <1>4 DEF OnTime, CallFits, PageOnly
  <2>5. OneSearch'
    BY <1>1, <1>4 DEF OnTime, OneSearch, PageOnly
  <2> QED
    BY <2>3, <2>4, <2>5 DEF OnTime
<1> QED
  BY <1>1, <1>2, <1>3, <1>4, PageStep

\* The next guest finds a clean page; every call is of the past.
LEMMA ResetKeeps ==
  ASSUME KioskInv, ResetToIdle
  PROVE  KioskInv'
<1> DEFINE past == [c \in Calls |-> IF call[c] = Idle THEN Idle ELSE [call[c] EXCEPT !.past = TRUE]]
<1>1. /\ session \in Nat /\ session' = session + 1 /\ session' \in Sessions
      /\ screen' = "idle" /\ active' = NoBooking /\ idCaptured' = Unset /\ signed' = Unset
      /\ upsell' = FALSE /\ asked' = Nobody /\ late' = FALSE /\ call' = past
      /\ UNCHANGED <<status, searching, booking, passcode, requests, promised, rooms, lost>>
  BY DEF ResetToIdle, Cleared, KioskInv, Typed, Sessions
<1>2. \A c \in Calls : call[c] \in Call /\ call[c].session \in 0 .. session
  BY DEF KioskInv, Typed, TypeOK
<1>3. \A c \in Calls : past[c] \in Call /\ (past[c] = Idle \/ past[c].past)
  BY <1>2, IdleCall DEF Call, KioskInv, Typed
<1>4. \A c \in Calls : Carries(c) /\ (call'[c].kind = "idle" => call'[c] = Idle)
  BY <1>1, <1>2 DEF Carries, Call, KioskInv, Typed
<1>5. call' \in [Calls -> Call]
  BY <1>1, <1>3
<1>6. \A c \in Calls : call'[c].session \in 0 .. session'
  BY <1>1, <1>2, <1>4 DEF Carries
<1>7. Typed'
  BY <1>1, <1>4, <1>5, <1>6, PeopleDiffer, IdleCall
     DEF KioskInv, Typed, TypeOK, Call
<1>8. \A c \in Calls : Told(c)'
  BY <1>1, <1>4 DEF KioskInv, Told, Carries
<1>9. \A c \in Calls : call'[c].session # session'
  BY <1>1, <1>2, <1>4 DEF Carries
<1>10. OneForm'
  BY <1>1, <1>4, <1>9 DEF KioskInv, OneForm, Carries
<1>11. \A s \in Sessions : RoomOf(s)'
  <2> SUFFICES ASSUME NEW s \in Sessions PROVE RoomOf(s)'
    OBVIOUS
  <2>1. s \in Nat /\ RoomOf(s)
    BY DEF Sessions, KioskInv, Typed
  <2> QED
    BY <1>1, <1>4, <2>1 DEF RoomOf, Carries
<1>12. OnTime'
  <2>1. PageFits'
    BY <1>1 DEF PageFits, KeyIsEarned
  <2>2. \A c \in Calls : call'[c].past \/ CallFits(c)'
    BY <1>1, <1>3, IdleCall DEF CallFits
  <2>3. OneSearch'
    BY <1>1, <1>3, IdleCall DEF OneSearch
  <2> QED
    BY <2>1, <2>2, <2>3 DEF OnTime
<1> QED
  BY <1>7, <1>8, <1>10, <1>11, <1>12 DEF KioskInv

\* A guest may be checked in elsewhere: a booking that is checked in stays so.
LEMMA ElsewhereKeeps ==
  ASSUME KioskInv, NEW b \in Bookings, ServedElsewhere(b)
  PROVE  KioskInv'
<1>1. /\ status' \in [Bookings -> {"CONFIRMED", "CHECKED_IN"}]
      /\ \A d \in Bookings : status[d] = "CHECKED_IN" => status'[d] = "CHECKED_IN"
      /\ UNCHANGED <<session, call, late, page, history>>
  BY DEF ServedElsewhere, KioskInv, Typed, TypeOK
<1>2. Typed'
  BY <1>1 DEF KioskInv, Typed, TypeOK, page, history
<1>3. \A c \in Calls : Told(c)'
  BY <1>1 DEF KioskInv, Told, history
<1>4. OneForm' /\ \A s \in Sessions : RoomOf(s)'
  BY <1>1 DEF KioskInv, OneForm, RoomOf, page, history
<1>5. ASSUME ~ late, OnTime PROVE OnTime'
  <2>1. \A d \in Bookings : Served(d) => Served(d)'
    BY <1>1 DEF Served, page, history
  <2>2. KeyIsEarned'
    BY <1>1, <1>5 DEF OnTime, PageFits, KeyIsEarned, page, history, KioskInv, Typed, TypeOK
  <2>3. PageFits'
    BY <1>1, <1>5, <2>1, <2>2 DEF OnTime, PageFits, page, history
  <2>4. \A c \in Calls : call'[c].past \/ CallFits(c)'
    BY <1>1, <1>5 DEF OnTime, CallFits, page, history
  <2>5. OneSearch'
    BY <1>1, <1>5 DEF OnTime, OneSearch
  <2> QED
    BY <2>3, <2>4, <2>5 DEF OnTime
<1> QED
  BY <1>1, <1>2, <1>3, <1>4, <1>5 DEF KioskInv

-----------------------------------------------------------------------------
(* The handlers up to their await                                          *)

\* A call whose answer is not there says nothing yet.
LEMMA ToldKept ==
  ASSUME KioskInv, NEW c \in Calls, Others(c), Told(c)',
         \A b \in Bookings : status[b] = "CHECKED_IN" => status'[b] = "CHECKED_IN",
         \A s \in Sessions : rooms[s] > 0 => rooms'[s] > 0
  PROVE  \A d \in Calls : Told(d)'
<1> SUFFICES ASSUME NEW d \in Calls, d # c PROVE Told(d)'
  OBVIOUS
<1>1. Told(d) /\ Carries(d)
  BY DEF KioskInv, Others
<1> QED
  BY <1>1 DEF Told, Carries

\* The camera is asked for again: the document is to be shown again.
LEMMA CameraKeeps ==
  ASSUME KioskInv, NEW c \in Calls, StartCamera(c)
  PROVE  KioskInv'
<1>1. /\ screen = "checkin-id" /\ idCaptured' = Unset /\ active.who \in People
      /\ call' = [call EXCEPT ![c] = Pending("camera", "sent", active.who)]
      /\ UNCHANGED <<status, screen, active, signed, upsell, searching, booking, passcode,
                     session, late, asked, requests, promised, rooms, lost>>
  BY DEF StartCamera, history, KioskInv, Typed, TypeOK
<1>2. /\ call' \in [Calls -> Call] /\ Others(c)
      /\ call'[c].kind = "camera" /\ ~ call'[c].past
      /\ \A d \in Calls : /\ call'[d].session \in 0 .. session
                          /\ call'[d].kind = "idle" => call'[d] = Idle
  BY <1>1, Asks, ZenonT(40) DEF KioskInv, Stages
<1>0. call[c].kind = "idle"
  BY IdleCall DEF StartCamera
<1>3. Typed'
  BY <1>1, <1>2 DEF KioskInv, Typed, TypeOK, Call
<1>4. \A d \in Calls : Told(d)'
  BY <1>1, <1>2, ToldKept DEF Told
<1>5. OneForm'
  BY <1>1, <1>2 DEF KioskInv, OneForm, Others, Carries
<1>6. \A s \in Sessions : RoomOf(s)'
  BY <1>1, <1>2 DEF KioskInv, RoomOf, Others, Carries
<1>7. ASSUME ~ late, OnTime PROVE OnTime'
  <2>1. PICK b \in Bookings : Served(b)
    BY <1>1, <1>7, PageIsServed
  <2>2. Served(b)'
    BY <1>1, <2>1 DEF Served
  <2>3. PageFits'
    BY <1>1, <2>2 DEF PageFits, KeyIsEarned
  <2>4. \A d \in Calls : call'[d].past \/ CallFits(d)'
    BY <1>1, <1>2, <1>7 DEF OnTime, CallFits, Others, Carries
  <2>5. OneSearch'
    BY <1>2, <1>7 DEF OnTime, OneSearch, Others, Carries
  <2> QED
    BY <2>3, <2>4, <2>5 DEF OnTime
<1> QED
  BY <1>1, <1>3, <1>4, <1>5, <1>6, <1>7 DEF KioskInv

\* A search leaves the earlier ones to the past.
LEMMA SearchKeeps ==
  ASSUME KioskInv, NEW c \in Calls, NEW b \in Bookings, SearchBooking(c, b)
  PROVE  KioskInv'
<1> DEFINE asks == [call EXCEPT ![c] = Pending("search", "sent", Guest(b))]
<1>1. /\ screen \in {"checkin-find", "checkin-qr"} /\ call[c] = Idle
      /\ searching' = TRUE /\ asked' = Guest(b) /\ Guest(b) \in People
      /\ UNCHANGED <<status, screen, active, idCaptured, signed, upsell, booking, passcode,
                     session, late, promised, rooms, lost>>
  BY PeopleDiffer DEF SearchBooking
<1>2. /\ Pending("search", "sent", Guest(b)) \in Call
      /\ Pending("search", "sent", Guest(b)).kind = "search"
      /\ Pending("search", "sent", Guest(b)).stage = "sent"
      /\ Pending("search", "sent", Guest(b)).who = Guest(b)
      /\ Pending("search", "sent", Guest(b)).session = session
      /\ ~ Pending("search", "sent", Guest(b)).past
  BY <1>1 DEF Pending, Call, Stages, KioskInv, Typed, TypeOK, Sessions
<1> HIDE DEF Pending
<1>3. \A d \in Calls : /\ call[d] \in Call /\ call[d].session \in 0 .. session
                       /\ call[d].kind = "idle" => call[d] = Idle
  BY DEF KioskInv, Typed, TypeOK
<1>4. /\ call'[c] = Pending("search", "sent", Guest(b))
      /\ \A d \in Calls : d # c =>
           /\ call'[d] = IF call[d].kind = "search" THEN [call[d] EXCEPT !.past = TRUE] ELSE call[d]
           /\ call'[d] \in Call
      /\ call' \in [Calls -> Call]
  BY <1>2, <1>3 DEF SearchBooking, Call
<1>5. \A d \in Calls : d # c =>
        Carries(d) /\ (call[d].kind = "search" => call'[d].past)
  BY <1>3, <1>4 DEF Carries, Call
<1>6. Others(c)
  BY <1>5 DEF Others
<1>7. \A d \in Calls : /\ call'[d].session \in 0 .. session
                       /\ call'[d].kind = "idle" => call'[d] = Idle
  <2>1. session \in 0 .. session
    BY DEF KioskInv, Typed, Sessions
  <2>2. \A d \in Calls : d # c => (call[d].kind = "idle" => call'[d] = call[d])
    BY <1>4
  <2> QED
    BY <1>2, <1>3, <1>4, <1>5, <2>1, <2>2 DEF Carries
<1>8. Typed'
  BY <1>1, <1>4, <1>7 DEF KioskInv, Typed, TypeOK, Call
<1>9. \A d \in Calls : Told(d)'
  BY <1>1, <1>2, <1>4, <1>6, ToldKept DEF Told
<1>10. OneForm'
  BY <1>1, <1>2, <1>4, <1>5 DEF KioskInv, OneForm, Carries
<1>11. \A s \in Sessions : RoomOf(s)'
  BY <1>1, <1>2, <1>4, <1>5 DEF KioskInv, RoomOf, Carries
<1>12. ASSUME ~ late, OnTime PROVE OnTime'
  <2>1. PageFits'
    BY <1>1, <1>12 DEF OnTime, PageFits, KeyIsEarned
  <2>2. CallFits(c)'
    BY <1>1, <1>2, <1>4 DEF CallFits
  <2>3. \A d \in Calls : call'[d].past \/ CallFits(d)'
    BY <1>1, <1>5, <1>12, <2>2 DEF OnTime, CallFits, Carries
  <2>4. OneSearch'
    BY <1>5 DEF OneSearch, Carries
  <2> QED
    BY <2>1, <2>3, <2>4 DEF OnTime
<1> QED
  BY <1>1, <1>8, <1>9, <1>10, <1>11, <1>12 DEF KioskInv

\* The key of a booking that is checked in, shown to its guest, is earned.
LEMMA KeyFits ==
  ASSUME KioskInv, ~ late, OnTime, NEW who, screen \in {"checkin-sign", "checkin-key"}, who = active.who,
         \A b \in Bookings : who = Guest(b) => status[b] = "CHECKED_IN" \/ b \in promised,
         screen' = "checkin-key", passcode' = who,
         UNCHANGED <<status, active, idCaptured, signed, session, asked, promised, rooms>>
  PROVE  PageFits'
<1>1. CASE screen = "checkin-sign"
  <2>1. PICK b \in Bookings : Served(b)
    BY <1>1, PageIsServed
  <2> QED
    BY <1>1, <2>1 DEF PageFits, KeyIsEarned, Served
<1>2. CASE screen = "checkin-key"
  <2>1. KeyIsEarned
    BY DEF OnTime, PageFits
  <2> QED
    BY <1>2, <2>1 DEF PageFits, KeyIsEarned
<1> QED
  BY <1>1, <1>2

\* A signed check-in is sent, or is passed over for a booking that was found checked in.
LEMMA CompleteKeeps ==
  ASSUME KioskInv, NEW c \in Calls, CompleteCheckIn(c)
  PROVE  KioskInv'
<1>1. /\ screen = "checkin-sign" /\ signed # Unset /\ call[c] = Idle /\ active.who \in People
      /\ UNCHANGED <<status, active, idCaptured, signed, upsell, searching, booking,
                     session, late, asked, requests, promised, rooms, lost>>
  BY DEF CompleteCheckIn, history, KioskInv, Typed, TypeOK
<1>2. ASSUME ~ late
      PROVE  \E b \in Bookings : /\ active.who = Guest(b) /\ signed = Guest(b)
                                 /\ active.status = "CHECKED_IN" => status[b] = "CHECKED_IN"
  BY <1>1, <1>2, PageIsServed DEF Served
<1>3. CASE active.status = "CHECKED_IN" /\ ~ upsell
  <2>1. screen' = "checkin-key" /\ passcode' = active.who /\ UNCHANGED call
    BY <1>3 DEF CompleteCheckIn, ShowKey
  <2>2. Typed'
    BY <1>1, <2>1 DEF KioskInv, Typed, TypeOK
  <2>3. ASSUME ~ late, OnTime PROVE OnTime'
    <3>1. PageFits'
      BY <1>1, <1>2, <1>3, <2>1, <2>3, KeyFits, PeopleDiffer
    <3>2. \A d \in Calls : call'[d].past \/ CallFits(d)'
      BY <1>1, <2>1, <2>3 DEF OnTime, CallFits
    <3>3. OneSearch'
      BY <2>1, <2>3 DEF OnTime, OneSearch
    <3> QED
      BY <3>1, <3>2, <3>3 DEF OnTime
  <2> QED
    BY <1>1, <2>1, <2>2, <2>3, PageStep DEF PageOnly
<1>4. CASE ~ (active.status = "CHECKED_IN" /\ ~ upsell)
  <2>1. PICK stage \in {"upsell", "sent"} :
          /\ stage = "upsell" => active.status = "CHECKED_IN"
          /\ call' = [call EXCEPT ![c] = Pending("checkin", stage, active.who)]
          /\ UNCHANGED <<screen, passcode>>
    BY <1>4 DEF CompleteCheckIn
  <2>2. /\ call' \in [Calls -> Call] /\ Others(c)
        /\ call'[c].kind = "checkin" /\ call'[c].stage = stage /\ call'[c].who = active.who
        /\ call'[c].signed = signed /\ ~ call'[c].past
        /\ \A d \in Calls : /\ call'[d].session \in 0 .. session
                            /\ call'[d].kind = "idle" => call'[d] = Idle
    <3>1. PICK who \in People : who = active.who
      BY <1>1
    <3>2. call' = [call EXCEPT ![c] = Pending("checkin", stage, who)]
      BY <2>1, <3>1
    <3>3. call'[c].stage = stage /\ call'[c].who = who
      BY <3>2, Asks DEF KioskInv, Stages
    <3>4. /\ call' \in [Calls -> Call] /\ Others(c)
          /\ call'[c].kind = "checkin" /\ call'[c].signed = signed /\ ~ call'[c].past
      BY <3>2, Asks DEF KioskInv, Stages
    <3>5. \A d \in Calls : /\ call'[d].session \in 0 .. session
                           /\ call'[d].kind = "idle" => call'[d] = Idle
      BY <3>2, Asks DEF KioskInv, Stages
    <3> QED
      BY <3>1, <3>3, <3>4, <3>5
  <2>3. Typed'
    BY <1>1, <2>1, <2>2 DEF KioskInv, Typed, TypeOK, Call
  <2>4. \A d \in Calls : Told(d)'
    BY <1>1, <2>2, ToldKept DEF Told
  <2>5. OneForm' /\ \A s \in Sessions : RoomOf(s)'
    BY <1>1, <2>1, <2>2, IdleCall DEF KioskInv, OneForm, RoomOf, Others, Carries
  <2>6. ASSUME ~ late, OnTime PROVE OnTime'
    <3>1. PageFits'
      BY <1>1, <2>1, <2>6 DEF OnTime, PageFits, KeyIsEarned, Served
    <3>2. CallFits(c)'
      BY <1>1, <1>2, <2>1, <2>2, <2>6, PeopleDiffer DEF CallFits
    <3>3. \A d \in Calls : call'[d].past \/ CallFits(d)'
      BY <1>1, <2>1, <2>2, <2>6, <3>2 DEF OnTime, CallFits, Others, Carries
    <3>4. OneSearch'
      BY <2>2, <2>6 DEF OnTime, OneSearch, Others, Carries
    <3> QED
      BY <3>1, <3>3, <3>4 DEF OnTime
  <2> QED
    BY <1>1, <2>3, <2>4, <2>5, <2>6 DEF KioskInv
<1> QED
  BY <1>3, <1>4

\* The button was ready, so no form is on its way.
LEMMA BookKeeps ==
  ASSUME KioskInv, NEW c \in Calls, BookWalkIn(c)
  PROVE  KioskInv'
<1>1. /\ screen = "walkin" /\ ~ booking /\ booking' = TRUE /\ call[c] = Idle
      /\ session \in Sessions /\ WalkIn(session) \in People
      /\ call' = [call EXCEPT ![c] = Pending("walkin", "sent", WalkIn(session))]
      /\ UNCHANGED <<status, screen, active, idCaptured, signed, upsell, searching, passcode,
                     session, late, asked, promised, rooms, lost>>
  BY PeopleDiffer DEF BookWalkIn, FormReady, KioskInv, Typed
<1>2. /\ call' \in [Calls -> Call] /\ Others(c)
      /\ call'[c].kind = "walkin" /\ call'[c].stage = "sent" /\ call'[c].who = WalkIn(session)
      /\ call'[c].session = session /\ ~ call'[c].past
      /\ \A d \in Calls : /\ call'[d].session \in 0 .. session
                          /\ call'[d].kind = "idle" => call'[d] = Idle
  BY <1>1, Asks DEF KioskInv, Stages
<1>3. \A d \in Calls : call[d].kind # "walkin"
  BY <1>1 DEF KioskInv, OneForm
<1>4. Typed'
  BY <1>1, <1>2 DEF KioskInv, Typed, TypeOK, Call
<1>5. \A d \in Calls : Told(d)'
  BY <1>1, <1>2, ToldKept DEF Told
<1>6. OneForm'
  BY <1>1, <1>2, <1>3 DEF OneForm, Others, Carries
<1>7. \A s \in Sessions : RoomOf(s)'
  BY <1>1, <1>2, <1>3 DEF KioskInv, RoomOf, Others, Carries
<1>8. ASSUME ~ late, OnTime PROVE OnTime'
  <2>1. PageFits'
    BY <1>1, <1>8 DEF OnTime, PageFits, KeyIsEarned
  <2>2. \A d \in Calls : call'[d].past \/ CallFits(d)'
    BY <1>1, <1>2, <1>8 DEF OnTime, CallFits, Others, Carries
  <2>3. OneSearch'
    BY <1>2, <1>8 DEF OnTime, OneSearch, Others, Carries
  <2> QED
    BY <2>1, <2>2, <2>3 DEF OnTime
<1> QED
  BY <1>1, <1>4, <1>5, <1>6, <1>7, <1>8 DEF KioskInv

-----------------------------------------------------------------------------
(* The other side                                                          *)

\* An answer that is there changes nothing on the page: what it does to one call and to
\* the bookings keeps the rest.
LEMMA ServerStep ==
  ASSUME KioskInv, NEW c \in Calls, Others(c),
         call[c].kind # "idle", call'[c].kind = call[c].kind, call'[c].who = call[c].who,
         call'[c].signed = call[c].signed, call'[c].past = call[c].past,
         UNCHANGED page, UNCHANGED <<session, asked, late>>,
         \A b \in Bookings : status[b] = "CHECKED_IN" => status'[b] = "CHECKED_IN",
         \A b \in Bookings : status[b] = "CONFIRMED" => status'[b] \in {"CONFIRMED", "CHECKED_IN"},
         promised \subseteq promised', \A s \in Sessions : rooms[s] > 0 => rooms'[s] > 0,
         call'[c].session = call[c].session,
         ~ call[c].past /\ CallFits(c) => CallFits(c)'
  PROVE  (late \/ OnTime)'
<1> SUFFICES ASSUME ~ late, OnTime PROVE OnTime'
  BY DEF KioskInv
<1>1. \A b \in Bookings : Served(b) => Served(b)'
  BY DEF Served, page
<1>2. KeyIsEarned'
  <2>1. session \in Sessions /\ \A b \in Bookings : status[b] \in {"CONFIRMED", "CHECKED_IN"}
    BY DEF KioskInv, Typed, TypeOK
  <2>2. KeyIsEarned
    BY DEF OnTime, PageFits
  <2> QED
    BY <2>1, <2>2 DEF KeyIsEarned, page
<1>3. PageFits'
  BY <1>1, <1>2 DEF OnTime, PageFits, page
<1>4. \A d \in Calls : call'[d].past \/ CallFits(d)'
  <2> SUFFICES ASSUME NEW d \in Calls, d # c PROVE call'[d].past \/ CallFits(d)'
    BY DEF OnTime
  <2>1. Carries(d) /\ (call[d].past \/ CallFits(d))
    BY DEF Others, OnTime
  <2> QED
    BY <2>1 DEF Carries, CallFits, page
<1>5. OneSearch'
  BY DEF OnTime, OneSearch, Others, Carries
<1> QED
  BY <1>3, <1>4, <1>5 DEF OnTime

LEMMA ServerSearchKeeps ==
  ASSUME KioskInv, NEW c \in Calls, ServerSearch(c)
  PROVE  KioskInv'
<1>1. PICK b \in Bookings, answer \in {"CONFIRMED", "CHECKED_IN", "none"} :
        /\ call[c].who = Guest(b) /\ answer \in {status[b], "none"}
        /\ call' = [call EXCEPT ![c].stage = answer]
  <2>1. \A b \in Bookings : status[b] \in {"CONFIRMED", "CHECKED_IN"}
    BY DEF KioskInv, Typed, TypeOK
  <2> QED
    BY <2>1 DEF ServerSearch
<1>2. /\ call[c].kind = "search"
      /\ UNCHANGED <<status, session, late>> /\ UNCHANGED page
      /\ UNCHANGED <<asked, requests, promised, rooms, lost>>
  BY DEF ServerSearch, history
<1>3. /\ call' \in [Calls -> Call] /\ Others(c)
      /\ call'[c].kind = call[c].kind /\ call'[c].stage = answer /\ call'[c].who = call[c].who
      /\ call'[c].signed = call[c].signed /\ call'[c].session = call[c].session
      /\ call'[c].past = call[c].past
      /\ \A d \in Calls : /\ call'[d].session \in 0 .. session
                          /\ call'[d].kind = "idle" => call'[d] = Idle
  <2>1. answer \in Stages /\ Typed
    BY DEF Stages, KioskInv
  <2> QED
    BY <1>1, <1>2, <2>1, Staged
<1>4. Typed'
  BY <1>2, <1>3 DEF KioskInv, Typed, TypeOK, Call, page
<1>5. Told(c)'
  BY <1>1, <1>2, <1>3, PeopleDiffer DEF Told
<1>6. \A d \in Calls : Told(d)'
  BY <1>2, <1>3, <1>5, ToldKept
<1>7. OneForm' /\ \A s \in Sessions : RoomOf(s)'
  BY <1>2, <1>3 DEF KioskInv, OneForm, RoomOf, Others, Carries, page
<1>8. CallFits(c) => CallFits(c)'
  BY <1>2, <1>3 DEF CallFits, page
<1>9. (late \/ OnTime)'
  BY <1>2, <1>3, <1>8, ServerStep
<1> QED
  BY <1>4, <1>6, <1>7, <1>9 DEF KioskInv

\* A check-in that was made, or waits in the queue, is what the page says it is.
LEMMA ServerCheckInKeeps ==
  ASSUME KioskInv, NEW c \in Calls, ServerCheckIn(c)
  PROVE  KioskInv'
<1>1. PICK b \in Bookings, done \in BOOLEAN, answer \in {"yes", "no", "queued"} :
        /\ call[c].who = Guest(b)
        /\ answer = "yes" => done
        /\ status' = IF done THEN [status EXCEPT ![b] = "CHECKED_IN"] ELSE status
        /\ promised' = IF answer = "queued" THEN promised \cup {b} ELSE promised
        /\ call' = [call EXCEPT ![c].stage = answer]
  BY DEF ServerCheckIn
<1>2. /\ call[c].kind = "checkin"
      /\ UNCHANGED <<session, asked, requests, rooms, lost, late>> /\ UNCHANGED page
  BY DEF ServerCheckIn
<1>3. /\ call' \in [Calls -> Call] /\ Others(c)
      /\ call'[c].kind = call[c].kind /\ call'[c].stage = answer /\ call'[c].who = call[c].who
      /\ call'[c].signed = call[c].signed /\ call'[c].session = call[c].session
      /\ call'[c].past = call[c].past
      /\ \A d \in Calls : /\ call'[d].session \in 0 .. session
                          /\ call'[d].kind = "idle" => call'[d] = Idle
  <2>1. answer \in Stages /\ Typed
    BY DEF Stages, KioskInv
  <2> QED
    BY <1>1, <1>2, <2>1, Staged
<1>4. /\ status' \in [Bookings -> {"CONFIRMED", "CHECKED_IN"}]
      /\ \A d \in Bookings : status[d] = "CHECKED_IN" => status'[d] = "CHECKED_IN"
      /\ done => status'[b] = "CHECKED_IN"
      /\ promised \subseteq promised' /\ promised' \subseteq Bookings
      /\ answer = "queued" => b \in promised'
  BY <1>1 DEF KioskInv, Typed, TypeOK
<1>5. Typed'
  BY <1>2, <1>3, <1>4 DEF KioskInv, Typed, TypeOK, Call, page
<1>6. \A d \in Calls : Told(d)'
  BY <1>2, <1>3, <1>4, ToldKept DEF Told
<1>7. OneForm' /\ \A s \in Sessions : RoomOf(s)'
  BY <1>2, <1>3 DEF KioskInv, OneForm, RoomOf, Others, Carries, page
<1>8. CallFits(c) => CallFits(c)'
  <2>1. \A d \in Bookings : call[c].who = Guest(d) => d = b
    BY <1>1, PeopleDiffer
  <2> QED
    BY <1>1, <1>2, <1>3, <1>4, <2>1 DEF CallFits, page
<1>9. (late \/ OnTime)'
  BY <1>2, <1>3, <1>4, <1>8, ServerStep
<1> QED
  BY <1>5, <1>6, <1>7, <1>9 DEF KioskInv

\* The room of a form is booked once; a second one is booked only after an answer that
\* was lost.
LEMMA ServerBookKeeps ==
  ASSUME KioskInv, NEW c \in Calls, ServerBook(c)
  PROVE  KioskInv'
<1>0. PICK s \in Sessions : s = call[c].session
  BY DEF ServerBook, KioskInv, Told
<1>1. /\ call[c].kind = "walkin" /\ call[c].stage = "sent"
      /\ UNCHANGED <<status, session, asked, requests, promised, late>> /\ UNCHANGED page
      /\ call[c].session = s
  BY <1>0 DEF ServerBook
<1>2. PICK answer \in {"yes", "no"}, n \in {0, 1} :
        /\ call' = [call EXCEPT ![c].stage = answer]
        /\ rooms' = [rooms EXCEPT ![s] = @ + n]
        /\ \/ answer = "yes" /\ n = 1 /\ lost' = lost
           \/ answer = "no" /\ n = 0 /\ lost' = lost
           \/ answer = "no" /\ lost' = lost \cup {s}
  <2>1. rooms = [rooms EXCEPT ![s] = @ + 0]
    BY <1>1 DEF KioskInv, Typed, TypeOK
  <2> QED
    BY <1>1, <2>1 DEF ServerBook
<1>3. /\ call' \in [Calls -> Call] /\ Others(c)
      /\ call'[c].kind = call[c].kind /\ call'[c].stage = answer /\ call'[c].who = call[c].who
      /\ call'[c].signed = call[c].signed /\ call'[c].session = call[c].session
      /\ call'[c].past = call[c].past
      /\ \A d \in Calls : /\ call'[d].session \in 0 .. session
                          /\ call'[d].kind = "idle" => call'[d] = Idle
  <2>1. answer \in Stages /\ Typed
    BY DEF Stages, KioskInv
  <2> QED
    BY <1>1, <1>2, <2>1, Staged
<1>4. /\ rooms \in [Sessions -> Nat] /\ rooms' \in [Sessions -> Nat]
      /\ rooms'[s] = rooms[s] + n /\ \A t \in Sessions : t # s => rooms'[t] = rooms[t]
      /\ lost \subseteq lost' /\ lost' \subseteq Sessions
  BY <1>1, <1>2 DEF KioskInv, Typed, TypeOK
<1>5. Typed'
  BY <1>1, <1>3, <1>4 DEF KioskInv, Typed, TypeOK, Call, page
<1>6. Told(c)'
  BY <1>1, <1>2, <1>3, <1>4 DEF Told, KioskInv
<1>7. \A d \in Calls : Told(d)'
  BY <1>1, <1>3, <1>4, <1>6, ToldKept
<1>8. OneForm'
  BY <1>1, <1>3 DEF KioskInv, OneForm, Others, Carries, page
<1>9. \A t \in Sessions : RoomOf(t)'
  <2>1. \A d \in Calls : d # c => call'[d].kind # "walkin"
    BY <1>1, <1>3 DEF KioskInv, OneForm, Others, Carries
  <2>2. RoomOf(s)'
    <3>1. session \in Sessions /\ s <= session /\ session \in Nat /\ s \in Nat
      BY <1>1 DEF KioskInv, Typed, TypeOK, Sessions
    <3>2. s \notin lost => rooms[s] = 0
      BY <1>1, <1>4 DEF KioskInv, RoomOf
    <3>3. s = session => screen # "idle"
      BY <1>1 DEF KioskInv, OneForm
    <3>4. s \notin lost' /\ rooms'[s] = 1 => answer = "yes"
      BY <1>2, <1>4, <3>2
    <3>5. s \notin lost' => rooms'[s] <= 1
      BY <1>4, <3>2
    <3> QED
      BY <1>1, <1>3, <2>1, <3>1, <3>3, <3>4, <3>5 DEF RoomOf, page
  <2>3. ASSUME NEW t \in Sessions, t # s PROVE RoomOf(t)'
    <3>1. t \notin lost' => t \notin lost
      BY <1>4
    <3>2. RoomOf(t)
      BY DEF KioskInv
    <3>3. t = session => ~ (\E d \in Calls : call[d].kind = "walkin" /\ call[d].stage = "yes")
      BY <1>1 DEF KioskInv, OneForm
    <3>4. \A d \in Calls : call'[d].kind = "walkin" => call'[d].session = s
      BY <1>1, <1>3, <2>1
    <3> QED
      BY <1>1, <1>4, <2>3, <3>1, <3>2, <3>3, <3>4 DEF RoomOf, page
  <2> QED
    BY <2>2, <2>3
<1>10. CallFits(c) => CallFits(c)'
  BY <1>1, <1>3 DEF CallFits, page
<1>11. (late \/ OnTime)'
  BY <1>1, <1>3, <1>4, <1>10, ServerStep
<1> QED
  BY <1>5, <1>7, <1>8, <1>9, <1>11 DEF KioskInv

-----------------------------------------------------------------------------
(* The handlers after their await                                          *)

\* What is done with an answer of the past is noted as late.
LEMMA TimelyAnswer ==
  ASSUME KioskInv, NEW c \in Calls, Noted(c), ~ late'
  PROVE  ~ late /\ OnTime /\ ~ call[c].past /\ CallFits(c)
  BY DEF Noted, KioskInv, OnTime, Typed, Call

\* An ended call says nothing; the others are as they were.
LEMMA EndedTold ==
  ASSUME KioskInv, NEW c \in Calls, Finished(c), UNCHANGED <<status, rooms>>
  PROVE  \A d \in Calls : Told(d)'
<1>1. Others(c) /\ call'[c].kind = "idle"
  BY Ended DEF KioskInv, Finished
<1> QED
  BY <1>1, ToldKept DEF Told

LEMMA CameraAnswersKeeps ==
  ASSUME KioskInv, NEW c \in Calls, CameraAnswers(c)
  PROVE  KioskInv'
<1>1. /\ call[c].kind = "camera" /\ Finished(c) /\ active.who \in People
      /\ \/ idCaptured' = active.who /\ Noted(c)
         \/ UNCHANGED <<idCaptured, late>>
      /\ UNCHANGED <<status, screen, active, signed, upsell, searching, booking, passcode,
                     session, asked, requests, promised, rooms, lost>>
  BY DEF CameraAnswers, history, KioskInv, Typed, TypeOK
<1>2. /\ call' \in [Calls -> Call] /\ Others(c) /\ call'[c].kind = "idle"
      /\ \A d \in Calls : /\ call'[d].session \in 0 .. session
                          /\ call'[d].kind = "idle" => call'[d] = Idle
  BY <1>1, Ended DEF KioskInv, Finished
<1>3. call[c] \in Call /\ late' \in BOOLEAN
  BY <1>1 DEF KioskInv, Typed, Call, Noted
<1>4. Typed'
  BY <1>1, <1>2, <1>3 DEF KioskInv, Typed, TypeOK, Call
<1>5. \A d \in Calls : Told(d)'
  BY <1>1, EndedTold
<1>6. OneForm' /\ \A s \in Sessions : RoomOf(s)'
  BY <1>1, <1>2 DEF KioskInv, OneForm, RoomOf, Others, Carries
<1>7. ASSUME ~ late' PROVE OnTime'
  <2>1. /\ ~ late /\ OnTime
        /\ \/ UNCHANGED idCaptured
           \/ idCaptured' = active.who /\ CallFits(c)
    BY <1>1, <1>7, TimelyAnswer DEF KioskInv
  <2>2. \/ UNCHANGED idCaptured
        \/ /\ idCaptured' = active.who
           /\ screen \in {"checkin-id", "checkin-upsell", "checkin-sign", "checkin-key"}
    BY <1>1, <2>1 DEF CallFits
  <2>3. PageFits'
    <3>1. CASE UNCHANGED idCaptured
      BY <1>1, <2>1, <3>1 DEF OnTime, PageFits, KeyIsEarned, Served
    <3>2. CASE screen = "checkin-key" /\ idCaptured' = active.who
      BY <1>1, <2>1, <3>2 DEF OnTime, PageFits, KeyIsEarned
    <3>3. CASE /\ screen \in {"checkin-id", "checkin-upsell", "checkin-sign"}
               /\ idCaptured' = active.who
      BY <1>1, <2>1, <3>3, PageIsServed DEF PageFits, KeyIsEarned, Served
    <3> QED
      BY <2>2, <3>1, <3>2, <3>3
  <2>4. \A d \in Calls : call'[d].past \/ CallFits(d)'
    BY <1>1, <1>2, <2>1 DEF OnTime, CallFits, Others, Carries
  <2>5. OneSearch'
    BY <1>2, <2>1 DEF OnTime, OneSearch, Others, Carries
  <2> QED
    BY <2>3, <2>4, <2>5 DEF OnTime
<1> QED
  BY <1>4, <1>5, <1>6, <1>7 DEF KioskInv

\* The answer of the last search is for the booking asked for.
LEMMA SearchAnswersKeeps ==
  ASSUME KioskInv, NEW c \in Calls, SearchAnswers(c)
  PROVE  KioskInv'
<1>1. /\ call[c].kind = "search" /\ Finished(c) /\ searching' = FALSE
      /\ UNCHANGED <<status, idCaptured, signed, upsell, booking, passcode,
                     session, asked, requests, promised, rooms, lost>>
      /\ \/ /\ UNCHANGED <<screen, active, late>>
         \/ /\ call[c].stage \notin {"sent", "none"}
            /\ active' = [who |-> call[c].who, status |-> call[c].stage]
            /\ screen' = "checkin-id" /\ Noted(c)
  BY DEF SearchAnswers, history
<1>2. /\ call' \in [Calls -> Call] /\ Others(c) /\ call'[c].kind = "idle"
      /\ \A d \in Calls : /\ call'[d].session \in 0 .. session
                          /\ call'[d].kind = "idle" => call'[d] = Idle
  BY <1>1, Ended DEF KioskInv, Finished
<1>3. call[c] \in Call /\ late' \in BOOLEAN
  BY <1>1 DEF KioskInv, Typed, Call, Noted
<1>4. PICK b \in Bookings : /\ call[c].who = Guest(b)
                            /\ call[c].stage = "CHECKED_IN" => status[b] = "CHECKED_IN"
  BY <1>1 DEF KioskInv, Told
<1>5. /\ active' \in [who : People, status : {"none", "CONFIRMED", "CHECKED_IN"}]
      /\ active'.who \in People
  BY <1>1, <1>3 DEF KioskInv, Typed, TypeOK, Told, Call
<1>6. Typed'
  BY <1>1, <1>2, <1>3, <1>5 DEF KioskInv, Typed, TypeOK, Call
<1>7. \A d \in Calls : Told(d)'
  BY <1>1, EndedTold
<1>8. OneForm' /\ \A s \in Sessions : RoomOf(s)'
  BY <1>1, <1>2 DEF KioskInv, OneForm, RoomOf, Others, Carries
<1>9. ASSUME ~ late' PROVE OnTime'
  <2>1. CASE UNCHANGED <<screen, active, late>>
    <3>1. ~ late /\ OnTime
      BY <1>9, <2>1 DEF KioskInv
    <3>2. PageFits'
      BY <1>1, <2>1, <3>1 DEF OnTime, PageFits, KeyIsEarned, Served
    <3>3. \A d \in Calls : call'[d].past \/ CallFits(d)'
      BY <1>1, <1>2, <2>1, <3>1 DEF OnTime, CallFits, Others, Carries
    <3>4. OneSearch'
      BY <1>2, <3>1 DEF OnTime, OneSearch, Others, Carries
    <3> QED
      BY <3>2, <3>3, <3>4 DEF OnTime
  <2>2. CASE /\ active' = [who |-> call[c].who, status |-> call[c].stage]
             /\ screen' = "checkin-id" /\ Noted(c)
    <3>1. ~ late /\ OnTime /\ ~ call[c].past /\ CallFits(c)
      BY <1>9, <2>2, TimelyAnswer
    <3>2. screen \in {"checkin-find", "checkin-qr"} /\ asked = Guest(b)
      BY <1>1, <1>4, <3>1 DEF CallFits
    <3>3. idCaptured = Unset /\ signed = Unset
      BY <3>1, <3>2 DEF OnTime, PageFits
    <3>4. Served(b)'
      BY <1>1, <1>4, <2>2, <3>2, <3>3 DEF Served
    <3>5. PageFits'
      BY <2>2, <3>4 DEF PageFits, KeyIsEarned
    <3>6. \A d \in Calls : call'[d].past \/ CallFits(d)'
      <4> SUFFICES ASSUME NEW d \in Calls, d # c PROVE call'[d].past \/ CallFits(d)'
        BY <1>2 DEF CallFits
      <4>1. Carries(d) /\ (call[d].past \/ CallFits(d))
        BY <1>2, <3>1 DEF Others, OnTime
      <4>2. call[d].kind = "search" => call[d].past
        BY <1>1, <3>1 DEF OnTime, OneSearch
      <4> QED
        BY <3>2, <4>1, <4>2 DEF CallFits, Carries
    <3>7. OneSearch'
      BY <1>2, <3>1 DEF OnTime, OneSearch, Others, Carries
    <3> QED
      BY <3>5, <3>6, <3>7 DEF OnTime
  <2> QED
    BY <1>1, <2>1, <2>2
<1> QED
  BY <1>6, <1>7, <1>8, <1>9 DEF KioskInv

\* A check-in that was made or queued leads to the key of the guest who signed for it.
LEMMA CheckInAnswersKeeps ==
  ASSUME KioskInv, NEW c \in Calls, CheckInAnswers(c)
  PROVE  KioskInv'
<1>1. /\ call[c].kind = "checkin" /\ call[c].stage # "sent" /\ call[c] \in Call
      /\ UNCHANGED <<status, active, idCaptured, signed, upsell, searching, booking,
                     session, asked, requests, promised, rooms, lost>>
  BY DEF CheckInAnswers, history, KioskInv, Typed
<1>2. CASE Passes(call[c].stage) /\ call[c].upsell
  <2>1. /\ call' = [call EXCEPT ![c].stage = "upsell"]
        /\ UNCHANGED <<screen, passcode, late>>
    BY <1>2 DEF CheckInAnswers
  <2>2. "upsell" \in Stages /\ Typed
    BY DEF Stages, KioskInv
  <2>3. /\ call' \in [Calls -> Call] /\ Others(c)
        /\ call'[c].kind = call[c].kind /\ call'[c].who = call[c].who
        /\ call'[c].signed = call[c].signed /\ call'[c].session = call[c].session
        /\ call'[c].past = call[c].past
        /\ \A d \in Calls : /\ call'[d].session \in 0 .. session
                            /\ call'[d].kind = "idle" => call'[d] = Idle
    BY <1>1, <2>1, <2>2, Staged
  <2>4. Typed'
    BY <1>1, <2>1, <2>3 DEF KioskInv, Typed, TypeOK, Call
  <2>5. \A d \in Calls : Told(d)'
    BY <1>1, <2>3, ToldKept DEF Told
  <2>6. OneForm' /\ \A s \in Sessions : RoomOf(s)'
    BY <1>1, <2>1, <2>3 DEF KioskInv, OneForm, RoomOf, Others, Carries
  <2>7. CallFits(c) => CallFits(c)'
    BY <1>1, <1>2, <2>1, <2>3 DEF CallFits, Passes
  <2>8. (late \/ OnTime)'
    BY <1>1, <2>1, <2>3, <2>7, ServerStep DEF page
  <2> QED
    BY <2>4, <2>5, <2>6, <2>8 DEF KioskInv
<1>3. CASE ~ (Passes(call[c].stage) /\ call[c].upsell)
  <2>1. /\ Finished(c)
        /\ \/ UNCHANGED <<screen, passcode, late>>
           \/ /\ call[c].stage \in {"yes", "queued", "upsell"}
              /\ screen' = "checkin-key" /\ passcode' = call[c].who /\ Noted(c)
    BY <1>3 DEF CheckInAnswers, Passes, ShowKey
  <2>2. /\ call' \in [Calls -> Call] /\ Others(c) /\ call'[c].kind = "idle"
        /\ \A d \in Calls : /\ call'[d].session \in 0 .. session
                            /\ call'[d].kind = "idle" => call'[d] = Idle
    BY <2>1, Ended DEF KioskInv, Finished
  <2>3. late' \in BOOLEAN /\ call[c].who \in People
    BY <1>1, <2>1 DEF KioskInv, Typed, Call, Noted
  <2>4. Typed'
    BY <1>1, <2>1, <2>2, <2>3 DEF KioskInv, Typed, TypeOK, Call
  <2>5. \A d \in Calls : Told(d)'
    BY <1>1, <2>1, EndedTold
  <2>6. OneForm' /\ \A s \in Sessions : RoomOf(s)'
    BY <1>1, <2>1, <2>2 DEF KioskInv, OneForm, RoomOf, Others, Carries
  <2>7. ASSUME ~ late' PROVE OnTime'
    <3>1. CASE UNCHANGED <<screen, passcode, late>>
      <4>1. ~ late /\ OnTime
        BY <2>7, <3>1 DEF KioskInv
      <4>2. PageFits'
        BY <1>1, <3>1, <4>1 DEF OnTime, PageFits, KeyIsEarned, Served
      <4>3. \A d \in Calls : call'[d].past \/ CallFits(d)'
        BY <1>1, <2>2, <3>1, <4>1 DEF OnTime, CallFits, Others, Carries
      <4>4. OneSearch'
        BY <2>2, <4>1 DEF OnTime, OneSearch, Others, Carries
      <4> QED
        BY <4>2, <4>3, <4>4 DEF OnTime
    <3>2. CASE /\ call[c].stage \in {"yes", "queued", "upsell"}
               /\ screen' = "checkin-key" /\ passcode' = call[c].who /\ Noted(c)
      <4>1. ~ late /\ OnTime /\ ~ call[c].past /\ CallFits(c)
        BY <2>7, <3>2, TimelyAnswer
      <4>2. /\ screen \in {"checkin-sign", "checkin-key"} /\ call[c].who = active.who
            /\ \A b \in Bookings : call[c].who = Guest(b) => status[b] = "CHECKED_IN" \/ b \in promised
        BY <1>1, <3>2, <4>1 DEF CallFits
      <4>3. PageFits'
        BY <1>1, <3>2, <4>1, <4>2, KeyFits
      <4>4. \A d \in Calls : call'[d].past \/ CallFits(d)'
        BY <1>1, <2>2, <3>2, <4>1, <4>2 DEF OnTime, CallFits, Others, Carries
      <4>5. OneSearch'
        BY <2>2, <4>1 DEF OnTime, OneSearch, Others, Carries
      <4> QED
        BY <4>3, <4>4, <4>5 DEF OnTime
    <3> QED
      BY <2>1, <3>1, <3>2
  <2> QED
    BY <2>4, <2>5, <2>6, <2>7 DEF KioskInv
<1> QED
  BY <1>2, <1>3

\* The only form has its answer: the button is ready again, on another screen or for a
\* form that has no room.
LEMMA WalkInAnswersKeeps ==
  ASSUME KioskInv, NEW c \in Calls, WalkInAnswers(c)
  PROVE  KioskInv'
<1> DEFINE s == call[c].session
<1>1. /\ call[c].kind = "walkin" /\ call[c].stage # "sent" /\ call[c] \in Call
      /\ Finished(c) /\ booking' = FALSE
      /\ UNCHANGED <<status, idCaptured, signed, upsell, searching, session,
                     asked, requests, promised, rooms, lost>>
      /\ \/ /\ call[c].stage = "yes"
            /\ screen' = "checkin-key" /\ passcode' = call[c].who /\ Noted(c)
            /\ active' = [who |-> call[c].who, status |-> "CONFIRMED"]
         \/ /\ call[c].stage # "yes"
            /\ UNCHANGED <<screen, active, passcode, late>>
  BY DEF WalkInAnswers, ShowKey, history, KioskInv, Typed
<1>2. /\ call' \in [Calls -> Call] /\ Others(c) /\ call'[c].kind = "idle"
      /\ \A d \in Calls : /\ call'[d].session \in 0 .. session
                          /\ call'[d].kind = "idle" => call'[d] = Idle
  BY <1>1, Ended DEF KioskInv, Finished
<1>3. /\ late' \in BOOLEAN /\ call[c].who \in People
      /\ active' \in [who : People, status : {"none", "CONFIRMED", "CHECKED_IN"}]
      /\ active'.who \in People
  BY <1>1 DEF KioskInv, Typed, TypeOK, Call, Noted
<1>4. Typed'
  BY <1>1, <1>2, <1>3 DEF KioskInv, Typed, TypeOK, Call
<1>5. \A d \in Calls : Told(d)'
  BY <1>1, EndedTold
<1>6. \A d \in Calls : call'[d].kind # "walkin"
  BY <1>1, <1>2 DEF KioskInv, OneForm, Others, Carries
<1>7. OneForm'
  BY <1>6 DEF OneForm
<1>8. \A t \in Sessions : RoomOf(t)'
  <2> SUFFICES ASSUME NEW t \in Sessions PROVE RoomOf(t)'
    OBVIOUS
  <2>1. RoomOf(t)
    BY DEF KioskInv
  <2>2. \A d \in Calls : call[d].kind = "walkin" => d = c
    BY <1>1 DEF KioskInv, OneForm
  <2> QED
    BY <1>1, <1>6, <2>1, <2>2 DEF RoomOf
<1>9. ASSUME ~ late' PROVE OnTime'
  <2>1. CASE call[c].stage # "yes"
    <3>1. ~ late /\ OnTime
      BY <1>1, <1>9, <2>1 DEF KioskInv
    <3>2. PageFits'
      BY <1>1, <2>1, <3>1 DEF OnTime, PageFits, KeyIsEarned, Served
    <3>3. \A d \in Calls : call'[d].past \/ CallFits(d)'
      BY <1>1, <1>2, <2>1, <3>1 DEF OnTime, CallFits, Others, Carries
    <3>4. OneSearch'
      BY <1>2, <3>1 DEF OnTime, OneSearch, Others, Carries
    <3> QED
      BY <3>2, <3>3, <3>4 DEF OnTime
  <2>2. CASE call[c].stage = "yes"
    <3>1. ~ late /\ OnTime /\ ~ call[c].past /\ CallFits(c)
      BY <1>1, <1>9, <2>2, TimelyAnswer
    <3>2. screen = "walkin" /\ s = session
      BY <1>1, <3>1 DEF CallFits
    <3>3. call[c].who = WalkIn(session) /\ rooms[session] > 0
      BY <1>1, <2>2, <3>2 DEF KioskInv, Told
    <3>4. PageFits'
      BY <1>1, <2>2, <3>3 DEF PageFits, KeyIsEarned
    <3>5. \A d \in Calls : call'[d].past \/ CallFits(d)'
      BY <1>1, <1>2, <1>6, <2>2, <3>1, <3>2 DEF OnTime, CallFits, Others, Carries
    <3>6. OneSearch'
      BY <1>2, <3>1 DEF OnTime, OneSearch, Others, Carries
    <3> QED
      BY <3>4, <3>5, <3>6 DEF OnTime
  <2> QED
    BY <2>1, <2>2
<1> QED
  BY <1>4, <1>5, <1>7, <1>8, <1>9 DEF KioskInv

-----------------------------------------------------------------------------

\* The first guest finds a clean page.
LEMMA KioskInit ==
  ASSUME MaxSessions \in Nat \ {0}
  PROVE  Init => KioskInv
<1> SUFFICES ASSUME Init PROVE KioskInv
  OBVIOUS
<1>1. Typed
  <2>1. call \in [Calls -> Call] /\ active.who = Nobody /\ session \in Sessions /\ 0 \in 0 .. session
    BY IdleCall DEF Init, NoBooking, Sessions
  <2> QED
    BY <2>1, PeopleDiffer, IdleCall DEF Init, Typed, TypeOK
<1>2. \A c \in Calls : Told(c)
  BY IdleCall DEF Init, Told
<1>3. OneForm /\ \A s \in Sessions : RoomOf(s)
  BY IdleCall DEF Init, OneForm, RoomOf
<1>4. OnTime
  BY IdleCall DEF Init, OnTime, PageFits, KeyIsEarned, CallFits, OneSearch
<1> QED
  BY <1>1, <1>2, <1>3, <1>4 DEF KioskInv

\* Every step of a guest, of an answer or of the desk keeps the invariant.
LEMMA KioskStep == KioskInv /\ [Next]_vars => KioskInv'
<1> SUFFICES ASSUME KioskInv, [Next]_vars PROVE KioskInv'
  OBVIOUS
<1>1. CASE UNCHANGED vars
  BY <1>1 DEF vars, KioskInv, Typed, TypeOK, Told, OneForm, RoomOf, OnTime, PageFits, KeyIsEarned,
              Served, CallFits, OneSearch
<1>2. CASE \E to \in {"checkin-find", "checkin-qr", "walkin", "guide"} : Open(to)
  BY <1>2, OpenKeeps
<1>3. CASE ResetToIdle \/ CapturePhoto \/ ToUpsell \/ ToSign \/ Sign
  BY <1>3, ResetKeeps, CheckInScreens
<1>4. CASE \E b \in Bookings : ServedElsewhere(b)
  BY <1>4, ElsewhereKeeps
<1>5. ASSUME NEW c \in Calls,
             \/ \E b \in Bookings : SearchBooking(c, b)
             \/ StartCamera(c) \/ CompleteCheckIn(c) \/ BookWalkIn(c)
             \/ ServerSearch(c) \/ ServerCheckIn(c) \/ ServerBook(c)
             \/ CameraAnswers(c) \/ SearchAnswers(c) \/ CheckInAnswers(c) \/ WalkInAnswers(c)
      PROVE  KioskInv'
  BY <1>5, SearchKeeps, CameraKeeps, CompleteKeeps, BookKeeps, ServerSearchKeeps,
     ServerCheckInKeeps, ServerBookKeeps, CameraAnswersKeeps, SearchAnswersKeeps,
     CheckInAnswersKeeps, WalkInAnswersKeeps
<1> QED
  BY <1>1, <1>2, <1>3, <1>4, <1>5 DEF Next

\* What the invariant says of the key, of a check-in under way and of the form.
LEMMA KioskServes == KioskInv => TypeOK /\ KioskServesItsGuest
<1> SUFFICES ASSUME KioskInv PROVE TypeOK /\ KioskServesItsGuest
  OBVIOUS
<1>1. KeyIsEarned
  <2>1. CASE late
    BY <2>1 DEF KeyIsEarned
  <2>2. CASE OnTime
    BY <2>2 DEF OnTime, PageFits
  <2> QED
    BY <2>1, <2>2 DEF KioskInv
<1>2. SignedFor
  BY DEF KioskInv, SignedFor, OnTime, CallFits
<1>3. OneRoomPerForm
  <2>1. \A s \in Sessions : rooms[s] \in Nat
    BY DEF KioskInv, Typed, TypeOK
  <2> QED
    BY <2>1 DEF KioskInv, RoomOf, OneRoomPerForm
<1> QED
  BY <1>1, <1>2, <1>3 DEF KioskInv, Typed, KioskServesItsGuest

\* The kiosk hands its key to the guest who searched, showed a document and signed, or
\* who booked, unless an answer came to a page that had moved on; and a form books one
\* room, whatever answers come when, unless one was lost.
THEOREM KioskIsFaithful ==
  ASSUME MaxSessions \in Nat \ {0}
  PROVE  Spec => [](TypeOK /\ KioskServesItsGuest)
  BY KioskInit, KioskStep, KioskServes, PTL DEF Spec

=============================================================================
