------------------------------ MODULE Accounts ------------------------------
(***************************************************************************)
(* The logins of a hotel's staff: users.service and the sessions of        *)
(* auth.service.                                                           *)
(*                                                                         *)
(* A login checks the user, and a refresh its session, some awaits before  *)
(* the new session is inserted; whatever revokes the sessions of the user  *)
(* in between does not see it.  Deactivating counts the owners in one      *)
(* statement and writes in the next.                                       *)
(*                                                                         *)
(* Abstracted: passwords, tokens and their expiry; names and rates.        *)
(***************************************************************************)
EXTENDS Naturals, FiniteSets

CONSTANTS
    Users,       \* the staff, in the beginning all owners and active
    Sessions,    \* bound: Session rows, numbered in order of creation
    Handlers,    \* bound: requests in flight
    MaxChanges   \* bound: logouts, resets, deactivations and updates

VARIABLES
    user,      \* user[u]: role and active
    session,   \* session[s]: its user, whether it is live, and history
    desk,      \* desk[h]: the request in flight
    epoch,     \* epoch[u]: how often the sessions of u were revoked (history)
    changes,
    unguarded  \* history: two deactivations overlapped, or update took an owner away

vars == <<user, session, desk, epoch, changes, unguarded>>

Nobody    == 0
NoSession == [of |-> Nobody, live |-> FALSE, epoch |-> 0, late |-> FALSE, root |-> 0, forked |-> FALSE]
Idle      == [pc |-> "idle", of |-> Nobody, from |-> 0, epoch |-> 0, late |-> FALSE, forked |-> FALSE]

Init ==
    /\ user = [u \in Users |-> [owner |-> TRUE, active |-> TRUE]]
    /\ session = [s \in Sessions |-> NoSession]
    /\ desk = [h \in Handlers |-> Idle]
    /\ epoch = [u \in Users |-> 0]
    /\ changes = 0
    /\ unguarded = FALSE

Live   == {s \in Sessions : session[s].live}
Made   == {s \in Sessions : session[s] # NoSession}
Owners == {u \in Users : user[u].owner /\ user[u].active}

-----------------------------------------------------------------------------
(* auth.service                                                            *)

\* login up to issueTokens, ...
LoginStart(h, u) ==
    /\ desk[h] = Idle
    /\ user[u].active
    /\ desk' = [desk EXCEPT ![h] = [Idle EXCEPT !.pc = "issue", !.of = u, !.epoch = epoch[u]]]
    /\ UNCHANGED <<user, session, epoch, changes, unguarded>>

\* Fault: a refresh token is believed without its session.
MatchesAny(s) == TRUE

\* The session is live when the refresh looks for it.
Matches(s) == s \in Live

\* ... refresh up to the session it matched, which another may have matched too, ...
RefreshStart(h, s) ==
    /\ desk[h] = Idle
    /\ Matches(s)
    /\ LET shared(g) == desk[g].pc = "rotate" /\ desk[g].from = s
           forked    == \E g \in Handlers : shared(g) IN
        desk' = [g \in Handlers |->
             IF g = h THEN [Idle EXCEPT !.pc = "rotate", !.of = session[s].of, !.from = s,
                                        !.epoch = session[s].epoch, !.late = session[s].late,
                                        !.forked = forked \/ session[s].forked]
             ELSE IF shared(g) THEN [desk[g] EXCEPT !.forked = TRUE] ELSE desk[g]]
    /\ UNCHANGED <<user, session, epoch, changes, unguarded>>

\* Fault: the rotated session stays live.
AfterRotation(s) == s.live

\* A rotated session is revoked.
Rotated(s) == FALSE

\* ... its revocation ...
RefreshRotate(h) ==
    /\ desk[h].pc = "rotate"
    /\ session' = [session EXCEPT ![desk[h].from].live = Rotated(session[desk[h].from])]
    /\ desk' = [desk EXCEPT ![h].pc = "issue"]
    /\ UNCHANGED <<user, epoch, changes, unguarded>>

\* ... and the new session, of either.
Issue(h) ==
    /\ desk[h].pc = "issue"
    /\ \E s \in Sessions \ Made :
        /\ \A t \in Sessions \ Made : s <= t
        /\ session' = [session EXCEPT ![s] =
             [of |-> desk[h].of, live |-> TRUE, epoch |-> desk[h].epoch,
              late |-> desk[h].late \/ desk[h].epoch # epoch[desk[h].of],
              root |-> IF desk[h].from = 0 THEN s ELSE session[desk[h].from].root,
              forked |-> desk[h].forked]]
    /\ desk' = [desk EXCEPT ![h] = Idle]
    /\ UNCHANGED <<user, epoch, changes, unguarded>>

\* A request fails, or the process dies.
Die(h) ==
    /\ desk[h] # Idle
    /\ desk' = [desk EXCEPT ![h] = Idle]
    /\ UNCHANGED <<user, session, epoch, changes, unguarded>>

\* Fault: only the sessions of one login are revoked.
RevokedFirst(u) == {s \in Live : session[s].of = u /\ session[s].root = s}

\* updateMany: the live sessions of the user.
Revoked(u) == {s \in Live : session[s].of = u}

RevokeAll(u) ==
    /\ session' = [s \in Sessions |->
         IF s \in Revoked(u) THEN [session[s] EXCEPT !.live = FALSE] ELSE session[s]]
    /\ epoch' = [epoch EXCEPT ![u] = @ + 1]

\* logout, and resetPassword's transaction.
Revoke(u) ==
    /\ changes < MaxChanges
    /\ changes' = changes + 1
    /\ RevokeAll(u)
    /\ UNCHANGED <<user, desk, unguarded>>

-----------------------------------------------------------------------------
(* users.service                                                           *)

\* Fault: owners who left are counted.
CountedAny == Cardinality({u \in Users : user[u].owner})

\* The active owners.
Counted == Cardinality(Owners)

\* deactivate reads the user and counts the owners ...
DeactivateStart(h, u) ==
    /\ changes < MaxChanges
    /\ changes' = changes + 1
    /\ desk[h] = Idle
    /\ user[u].owner => Counted > 1
    /\ desk' = [desk EXCEPT ![h] = [Idle EXCEPT !.pc = "deactivate", !.of = u]]
    /\ unguarded' = (unguarded \/ \E g \in Handlers : desk[g].pc = "deactivate")
    /\ UNCHANGED <<user, session, epoch>>

\* ... writes the user ...
DeactivateUser(h) ==
    /\ desk[h].pc = "deactivate"
    /\ user' = [user EXCEPT ![desk[h].of].active = FALSE]
    /\ desk' = [desk EXCEPT ![h].pc = "revoke"]
    /\ UNCHANGED <<session, epoch, changes, unguarded>>

\* ... and revokes the sessions.
DeactivateSessions(h) ==
    /\ desk[h].pc = "revoke"
    /\ RevokeAll(desk[h].of)
    /\ desk' = [desk EXCEPT ![h] = Idle]
    /\ UNCHANGED <<user, changes, unguarded>>

\* update sets the role or the flag, and counts no owners and revokes no sessions.
Update(u) ==
    /\ changes < MaxChanges
    /\ changes' = changes + 1
    /\ \E owner, active \in BOOLEAN :
        /\ user' = [user EXCEPT ![u] = [owner |-> owner, active |-> active]]
        /\ unguarded' = (unguarded \/ ~ owner \/ ~ active)
    /\ UNCHANGED <<session, desk, epoch>>

-----------------------------------------------------------------------------

Next ==
    \/ \E u \in Users : Revoke(u) \/ Update(u)
    \/ \E h \in Handlers :
        \/ \E u \in Users : LoginStart(h, u) \/ DeactivateStart(h, u)
        \/ \E s \in Sessions : RefreshStart(h, s)
        \/ RefreshRotate(h) \/ Issue(h) \/ Die(h)
        \/ DeactivateUser(h) \/ DeactivateSessions(h)

Spec == Init /\ [][Next]_vars

-----------------------------------------------------------------------------
(* Properties                                                              *)

\* The values the rows and the requests can have: a request that is under way has its
\* user, and a session its user and the login it descends from.
TypeOK ==
    /\ user \in [Users -> [owner : BOOLEAN, active : BOOLEAN]]
    /\ \A s \in Made :
        /\ session[s].of \in Users /\ session[s].live \in BOOLEAN
        /\ session[s].root \in Made /\ session[session[s].root].of = session[s].of
    /\ \A h \in Handlers :
        /\ desk[h].pc \in {"idle", "issue", "rotate", "deactivate", "revoke"}
        /\ desk[h] # Idle => desk[h].of \in Users
        /\ desk[h].from \in Sessions \cup {0}

\* "Find a live, matching session and rotate it": a login has one live session however
\* often it is refreshed, unless two refreshes matched one session at once.
RotationKeepsOne ==
    \A s, t \in Live : s # t /\ session[s].root = session[t].root =>
        session[s].forked \/ session[t].forked

\* "Revoke active sessions so the old password's tokens can't refresh": a live session
\* began, through all its rotations, with a login after the last revocation, unless
\* a revocation fell between a request's check and its insert.
RevocationHolds == \A s \in Live : session[s].epoch = epoch[session[s].of] \/ session[s].late

\* "Cannot deactivate the last owner": a hotel keeps an active owner, unless two
\* deactivations overlap or update takes the owner away.
OwnerRemains == ~ unguarded => Owners # {}

=============================================================================
