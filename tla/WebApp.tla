------------------------------- MODULE WebApp -------------------------------
(***************************************************************************)
(* The offline queue and the kiosk of the web app side by side.  They      *)
(* share no state: part says which of them moves in a behaviour and never  *)
(* changes, so that a run is one graph of two parts that never meet.       *)
(***************************************************************************)
EXTENDS OfflineSync

CONSTANTS Bookings, Calls, MaxSessions, MaxRequests  \* of Kiosk

ASSUME SessionAssumption == MaxSessions \in Nat \ {0}

VARIABLES
    part,
    status, screen, active, idCaptured, signed, upsell, searching, booking, passcode,
    call, session, asked, sent, promised, rooms, lost, late  \* Kiosk

K == INSTANCE Kiosk WITH requests <- sent

kiosk == <<status, screen, active, idCaptured, signed, upsell, searching, booking, passcode,
           call, session, asked, sent, promised, rooms, lost, late>>

WebAppInit == part \in {"sync", "kiosk"} /\ Init /\ K!Init /\ (part = "kiosk" => online)

\* A step of one part leaves the other as it is.
SyncStep == part = "sync" /\ Next /\ UNCHANGED <<part, kiosk>>

KioskStep == part = "kiosk" /\ K!Next /\ UNCHANGED <<part, vars>>

WebAppNext == SyncStep \/ KioskStep

WebAppSpec == WebAppInit /\ [][WebAppNext]_<<part, vars, kiosk>>

-----------------------------------------------------------------------------

\* The key on the page belongs to the guest before it, whose check-in was made, and
\* every variable of the kiosk has its values.
KioskServesItsGuest == part = "kiosk" => K!TypeOK /\ K!KioskServesItsGuest

=============================================================================
