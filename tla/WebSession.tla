----------------------------- MODULE WebSession -----------------------------
(***************************************************************************)
(* The sign-in session of one browser tab (app/api.ts, app/AuthContext.tsx)*)
(* against the tokens the server keeps (internal/auth).                    *)
(*                                                                         *)
(* The tab keeps one pair of tokens in sessionStorage.  An API call that   *)
(* is answered 401 joins the one refresh under way (or starts it), and is  *)
(* sent once more with the new pair.  The server rotates: the refresh      *)
(* token of a pair serves once.  A fetch is aborted after 10 seconds,      *)
(* whatever became of it at the server, unless it was sent without a       *)
(* timeout, as the calls on positions and memberships of officers are:     *)
(* that one may stay open for ever.                                        *)
(*                                                                         *)
(* Pairs are numbered in the order the server issues them; pair n is the   *)
(* access token n and the refresh token n.  One account with one membership*)
(* signs in here; another device, a password change and a deactivation are *)
(* left out.                                                               *)
(***************************************************************************)
EXTENDS Integers, FiniteSets

CONSTANTS
    Requests,    \* calls the screens may make, each at most once
    Untimed,     \* those sent without AbortSignal.timeout
    MaxEvents    \* bound: how many logins, reloads by hand and expiries there are

ASSUME Bounds == MaxEvents \in Nat /\ "me" \notin Requests /\ Untimed \subseteq Requests

Calls == Requests \cup {"me"}    \* "me" is the apiMe of restore and of login
NoPair == 0

VARIABLES
    issued,   \* pairs the server issued so far
    live,     \* refresh tokens neither used nor revoked
    valid,    \* access tokens that have not expired
    stored,   \* the pair in sessionStorage, or NoPair
    user,     \* AuthContext holds a user
    flow,     \* the step of restore, login or logout under way, and its pair
    call,     \* the API calls
    shared,   \* refreshPromise, the refresh all calls wait for
    direct,   \* the refresh restore sends by itself
    strays,   \* refreshes at the server whose answer nobody awaits any more
    lost,     \* history: an answer was lost, late or a server error
    out,      \* history: how the last logout ended; "no" after a login
    events    \* logins, reloads by hand and expiries so far

server == <<issued, live, valid>>
tab == <<stored, user, flow, call, shared, direct>>
vars == <<server, tab, strays, lost, out, events>>

NoRefresh == [at |-> "none", pair |-> NoPair, new |-> NoPair]
Refresh(p) == [at |-> "sent", pair |-> p, new |-> NoPair]
Idle == [at |-> "idle", pair |-> NoPair, again |-> FALSE, runs |-> 0]
FirstSent(p) == [Idle EXCEPT !.at = "sent", !.pair = p]
Sent(c, p, again) == [at |-> "sent", pair |-> p, again |-> again, runs |-> call[c].runs]
Ended == {"ok", "failed"}
InFlight == {"sent", "run", "unauthorized", "waiting"}
(* How a call ended matters to restore and login only. *)
End(c, how) == [at |-> IF c = "me" THEN how ELSE "ended",
                pair |-> NoPair, again |-> FALSE, runs |-> call[c].runs]
Step(s, p) == [step |-> s, pair |-> p]
NoFlow == Step("none", NoPair)

(* App.tsx renders nothing while AuthContext restores the session. *)
isInitializing == flow.step \in {"restoreMe", "restoreRefresh", "restoreAgain"}
Event == events < MaxEvents /\ events' = events + 1
loggingOut == flow.step \in {"logout", "logoutDone"}

-----------------------------------------------------------------------------
(* The server. *)

(* RequireAuth lets a request through while its access token has not       *)
(* expired; logging out does not end an access token.                      *)
Serve(c) ==
    /\ call[c].at = "sent"
    /\ call' = [call EXCEPT
          ![c] = IF call[c].pair \in valid
                 THEN [call[c] EXCEPT !.at = "run", !.runs = call[c].runs + 1]
                 ELSE [call[c] EXCEPT !.at = "unauthorized"]]
    /\ UNCHANGED <<server, stored, user, flow, shared, direct, strays, lost, out, events>>

(* Refresh reads the token without a lock ... *)
Looked(f) == [f EXCEPT !.at = IF f.pair \in live THEN "checked" ELSE "denied"]

FindRefreshToken ==
    /\ \/ shared.at = "sent" /\ shared' = Looked(shared) /\ UNCHANGED <<direct, strays>>
       \/ direct.at = "sent" /\ direct' = Looked(direct) /\ UNCHANGED <<shared, strays>>
       \/ \E f \in strays : /\ f.at = "sent"
                            /\ strays' = (strays \ {f})
                                  \cup {g \in {Looked(f)} : g.at = "checked"}
                            /\ UNCHANGED <<shared, direct>>
    /\ UNCHANGED <<server, stored, user, flow, call, lost, out, events>>

(* ... then revokes it and issues the pair that replaces it. *)
Issue(old) ==
    /\ issued' = issued + 1
    /\ live' = (live \ {old}) \cup {issued + 1}
    /\ valid' = valid \cup {issued + 1}

Ran(f) == [f EXCEPT !.at = "ran", !.new = issued + 1]

Rotate ==
    /\ \/ shared.at = "checked" /\ shared' = Ran(shared) /\ Issue(shared.pair)
                                /\ UNCHANGED <<direct, strays>>
       \/ direct.at = "checked" /\ direct' = Ran(direct) /\ Issue(direct.pair)
                                /\ UNCHANGED <<shared, strays>>
       \/ \E f \in strays : /\ f.at = "checked" /\ Issue(f.pair)
                            /\ strays' = strays \ {f} /\ UNCHANGED <<shared, direct>>
    /\ UNCHANGED <<stored, user, flow, call, lost, out, events>>

(* handleLogout revokes every live refresh token of the membership, if     *)
(* RequireAuth lets it through.  A refresh that has read its token escapes.*)
Logout ==
    /\ flow.step = "logout"
    /\ flow' = Step("logoutDone", flow.pair)
    /\ IF flow.pair \in valid
       THEN /\ live' = {}
            /\ out' = IF \E f \in {shared, direct} \cup strays : f.at = "checked"
                      THEN "crossed" ELSE "everywhere"
       ELSE UNCHANGED <<live, out>>
    /\ UNCHANGED <<issued, valid, stored, user, call, shared, direct, strays, lost, events>>

(* An access token lives far longer than the call that obtained it: ending *)
(* within that call counts as a fault, like a lost answer.                 *)
Expire(p) ==
    /\ p \in valid
    /\ Event
    /\ valid' = valid \ {p}
    /\ lost' = (lost \/ \E c \in Calls : call[c].pair = p /\ call[c].at = "sent"
                       /\ (call[c].again \/ flow.step \in {"loginMe", "restoreAgain"}))
    /\ UNCHANGED <<issued, live, tab, strays, out>>

-----------------------------------------------------------------------------
(* API calls: authenticatedApiRequest. *)

(* A screen reads the stored pair and calls; without one it does nothing.  *)
Send(r) ==
    /\ flow.step = "none" /\ user /\ stored # NoPair
    /\ call[r].at = "idle"
    /\ call' = [call EXCEPT ![r] = Sent(r, stored, FALSE)]
    /\ UNCHANGED <<server, stored, user, flow, shared, direct, strays, lost, out, events>>

Receive(c) ==
    /\ call[c].at = "run"
    /\ call' = [call EXCEPT ![c] = End(c, "ok")]
    /\ UNCHANGED <<server, stored, user, flow, shared, direct, strays, lost, out, events>>

(* The first 401 of a call starts the refresh unless one is under way;     *)
(* performRefresh without a stored pair ends at once.  The second 401 is   *)
(* an error like any other.                                                *)
\* Mutant of JoinRefresh: every call refreshes for itself.
RefreshAlone == shared' = Refresh(stored) /\ strays' = strays \cup {g \in {shared} : g.at = "sent"}

JoinRefresh ==
    IF shared.at = "none" THEN shared' = Refresh(stored) /\ UNCHANGED strays
                          ELSE UNCHANGED <<shared, strays>>

Unauthorized(c) ==
    /\ call[c].at = "unauthorized"
    /\ \/ /\ ~call[c].again /\ (stored # NoPair \/ shared.at # "none")
          /\ JoinRefresh
          /\ call' = [call EXCEPT ![c].at = "waiting"]
       \/ /\ ~call[c].again /\ stored = NoPair /\ shared.at = "none"
          /\ call' = [call EXCEPT ![c] = End(c, "failed")]
          /\ UNCHANGED <<shared, strays>>
       \/ /\ call[c].again
          /\ call' = [call EXCEPT ![c] = End(c, "failed")]
          /\ UNCHANGED <<shared, strays>>
    /\ UNCHANGED <<server, stored, user, flow, direct, lost, out, events>>

(* The answer of the shared refresh: the new pair is stored and every call *)
(* that waits is sent again; a refusal clears the pair and ends them all.  *)
\* Mutant of Settle: a refused refresh wakes nobody.
SettleOnlyGood(p) ==
    /\ stored' = p
    /\ shared' = NoRefresh
    /\ call' = [c \in Calls |->
          IF call[c].at # "waiting" \/ p = NoPair THEN call[c] ELSE Sent(c, p, TRUE)]

Settle(p) ==
    /\ stored' = p
    /\ shared' = NoRefresh
    /\ call' = [c \in Calls |->
          IF call[c].at # "waiting" THEN call[c]
          ELSE IF p = NoPair THEN End(c, "failed")
          ELSE Sent(c, p, TRUE)]

RefreshAnswered ==
    /\ shared.at \in {"ran", "denied"}
    /\ Settle(shared.new)
    /\ UNCHANGED <<server, user, flow, direct, strays, lost, out, events>>

\* Mutant of Abort: a call that timed out is sent again.
AbortResends(c) ==
    /\ call[c].at \in {"sent", "run", "unauthorized"}
    /\ call' = [call EXCEPT ![c].at = "sent"]
    /\ lost' = TRUE
    /\ UNCHANGED <<server, stored, user, flow, shared, direct, strays, out, events>>

(* TIMEOUT_MS, a network error or a server error: the call fails, and the  *)
(* server may have run it or may still do so.                              *)
Abort(c) ==
    /\ call[c].at \in {"sent", "run", "unauthorized"}
    /\ \E late \in {0} \cup {n \in {1} : call[c].at = "sent" /\ call[c].pair \in valid} :
          call' = [call EXCEPT ![c] = [End(c, "failed") EXCEPT !.runs = @ + late]]
    /\ lost' = TRUE
    /\ UNCHANGED <<server, stored, user, flow, shared, direct, strays, out, events>>

\* Mutant of StillAtServer: an answered refresh is kept, too.
StillThere(f) == {f}

StillAtServer(f) == {g \in {f} : g.at \in {"sent", "checked"}}

RefreshAborted ==
    /\ shared.at # "none"
    /\ Settle(NoPair)
    /\ strays' = strays \cup StillAtServer(shared)
    /\ lost' = TRUE
    /\ UNCHANGED <<server, user, flow, direct, out, events>>

-----------------------------------------------------------------------------
(* AuthContext: restore, login, logout. *)

SendMe(p) == call' = [call EXCEPT !["me"] = FirstSent(p)]
MeIdle == call' = [call EXCEPT !["me"] = Idle]

clearAll == user' = FALSE /\ stored' = NoPair

(* restore: apiMe with the stored pair; if that fails for any reason, a    *)
(* refresh with the pair restore started from, and apiMe again.            *)
RestoreMe ==
    /\ flow.step = "restoreMe" /\ call["me"].at \in Ended
    /\ MeIdle
    /\ IF call["me"].at = "ok"
       THEN user' = TRUE /\ flow' = NoFlow /\ UNCHANGED direct
       ELSE /\ direct' = Refresh(flow.pair)
            /\ flow' = Step("restoreRefresh", flow.pair)
            /\ UNCHANGED user
    /\ UNCHANGED <<server, stored, shared, strays, lost, out, events>>

RestoreRefresh ==
    /\ flow.step = "restoreRefresh" /\ direct.at \in {"ran", "denied"}
    /\ direct' = NoRefresh
    /\ IF direct.at = "ran"
       THEN /\ stored' = direct.new
            /\ SendMe(direct.new)
            /\ flow' = Step("restoreAgain", direct.new)
            /\ UNCHANGED user
       ELSE clearAll /\ flow' = NoFlow /\ UNCHANGED call
    /\ UNCHANGED <<server, shared, strays, lost, out, events>>

\* Mutant of RestoreRefreshAborted: the failure does not end restore.
RestoreRefreshGivenUp ==
    /\ flow.step = "restoreRefresh"
    /\ clearAll
    /\ direct' = NoRefresh
    /\ strays' = strays \cup StillAtServer(direct)
    /\ lost' = TRUE
    /\ UNCHANGED <<server, flow, call, shared, out, events>>

RestoreRefreshAborted ==
    /\ flow.step = "restoreRefresh"
    /\ clearAll
    /\ flow' = NoFlow
    /\ direct' = NoRefresh
    /\ strays' = strays \cup StillAtServer(direct)
    /\ lost' = TRUE
    /\ UNCHANGED <<server, call, shared, out, events>>

RestoreAgain ==
    /\ flow.step = "restoreAgain" /\ call["me"].at \in Ended
    /\ MeIdle
    /\ flow' = NoFlow
    /\ IF call["me"].at = "ok" THEN user' = TRUE /\ UNCHANGED stored ELSE clearAll
    /\ UNCHANGED <<server, shared, direct, strays, lost, out, events>>

(* login: the server opens a session; its answer is stored, and the profile*)
(* that comes with it serves if apiMe fails.  A refused login changes      *)
(* nothing; a lost answer leaves a live token nobody holds.                *)
Login ==
    /\ flow.step = "none" /\ ~user
    /\ Event
    /\ Issue(NoPair)
    /\ \/ /\ stored' = issued + 1
          /\ SendMe(issued + 1)
          /\ flow' = Step("loginMe", issued + 1)
          /\ out' = "no"
          /\ UNCHANGED lost
       \/ lost' = TRUE /\ out' = "no" /\ UNCHANGED <<stored, call, flow>>
    /\ UNCHANGED <<user, shared, direct, strays>>

LoginMe ==
    /\ flow.step = "loginMe" /\ call["me"].at \in Ended
    /\ MeIdle
    /\ user' = TRUE
    /\ flow' = NoFlow
    /\ UNCHANGED <<server, stored, shared, direct, strays, lost, out, events>>

(* logout: apiLogout with the stored access token, never refreshed, if     *)
(* there is one; whatever comes of it, the tab is cleared and leaves.      *)
StartLogout ==
    /\ flow.step = "none" /\ user
    /\ flow' = Step(IF stored = NoPair THEN "logoutDone" ELSE "logout", stored)
    /\ UNCHANGED <<server, stored, user, call, shared, direct, strays, lost, out, events>>

LogoutAborted ==
    /\ flow.step = "logout"
    /\ flow' = Step("logoutDone", flow.pair)
    /\ lost' = TRUE
    /\ UNCHANGED <<server, stored, user, call, shared, direct, strays, out, events>>

\* Mutant of Leave: the pair is left in sessionStorage.
LeavePairBehind ==
    /\ flow.step = "logoutDone"
    /\ user' = FALSE
    /\ flow' = Step("leaving", NoPair)
    /\ out' = IF out = "no" THEN "here" ELSE out
    /\ UNCHANGED <<server, stored, call, shared, direct, strays, lost, events>>

Leave ==
    /\ flow.step = "logoutDone"
    /\ clearAll
    /\ flow' = Step("leaving", NoPair)
    /\ out' = IF shared.at # "none" THEN "crossed"
              ELSE IF out = "no" THEN "here" ELSE out
    /\ UNCHANGED <<server, call, shared, direct, strays, lost, events>>

(* The page loads anew, after logout or by hand: what the tab was waiting  *)
(* for is dropped, and restore starts from what is stored.                 *)
Load ==
    /\ call' = [c \in Calls |->
          IF c = "me" THEN IF stored = NoPair THEN Idle
                           ELSE FirstSent(stored)
          ELSE IF call[c].at \in {"idle", "ended"} THEN call[c]
          ELSE End(c, "failed")]
    /\ user' = FALSE
    /\ flow' = IF stored = NoPair THEN NoFlow ELSE Step("restoreMe", stored)
    /\ shared' = NoRefresh /\ direct' = NoRefresh
    /\ strays' = strays \cup StillAtServer(shared) \cup StillAtServer(direct)
    /\ lost' = (lost \/ shared.at # "none" \/ direct.at # "none")
    /\ UNCHANGED <<server, stored>>

Left == flow.step = "leaving" /\ Load /\ UNCHANGED <<out, events>>

Reload ==
    /\ flow.step # "leaving"
    /\ Event
    /\ Load
    /\ out' = IF loggingOut THEN "crossed" ELSE out

-----------------------------------------------------------------------------
(* A tab that opens on the login page, or finds the pair of an earlier load*)
(* of the page, whose access token may have expired.                       *)
Init ==
    /\ stored \in {NoPair, 1}
    /\ issued = stored /\ live = {stored} \ {NoPair} /\ valid \in SUBSET live
    /\ user = FALSE
    /\ flow = IF stored = NoPair THEN NoFlow ELSE Step("restoreMe", stored)
    /\ call = [c \in Calls |-> IF c = "me" /\ stored # NoPair
                               THEN FirstSent(stored) ELSE Idle]
    /\ shared = NoRefresh /\ direct = NoRefresh /\ strays = {}
    /\ lost = FALSE /\ out = "no"
    /\ events = 0

CallStep(c) == Receive(c) \/ Unauthorized(c) \/ Abort(c)
SharedStep == RefreshAnswered \/ RefreshAborted
FlowStep == \/ RestoreMe \/ RestoreRefresh \/ RestoreRefreshAborted \/ RestoreAgain
            \/ LoginMe \/ LogoutAborted \/ Leave \/ Left

Next ==
    \/ \E c \in Calls : Serve(c) \/ CallStep(c)
    \/ \E r \in Requests : Send(r)
    \/ \E p \in valid : Expire(p)
    \/ FindRefreshToken \/ Rotate \/ Logout
    \/ SharedStep \/ FlowStep
    \/ Login \/ StartLogout \/ Reload

(* A fetch that has a timeout ends with it at the latest, and the browser  *)
(* runs what has settled.  The refresh, login, logout and apiMe have one.  *)
(* Nothing is assumed of the server, of the user, or of the answer to a    *)
(* call without a timeout.                                                 *)
Fairness == /\ \A c \in Calls \ Untimed : WF_vars(CallStep(c))
            /\ WF_vars(SharedStep) /\ WF_vars(FlowStep)

Spec == Init /\ [][Next]_vars /\ Fairness

-----------------------------------------------------------------------------
Pairs == 0 .. issued
Refreshes == [at : {"none", "sent", "checked", "ran", "denied"}, pair : Pairs, new : Pairs]
CallStates == [at : InFlight \cup Ended \cup {"idle", "ended"},
               pair : Pairs, again : BOOLEAN, runs : Nat]

(* Types; a refresh nobody waits for has no answer. *)
TypeOK ==
    /\ issued \in Nat /\ live \subseteq 1 .. issued /\ valid \subseteq 1 .. issued
    /\ stored \in Pairs /\ user \in BOOLEAN
    /\ flow \in [step : {"none", "restoreMe", "restoreRefresh", "restoreAgain",
                         "loginMe", "logout", "logoutDone", "leaving"}, pair : Pairs]
    /\ call \in [Calls -> CallStates]
    /\ shared \in Refreshes /\ direct \in Refreshes
    /\ \A f \in strays : f \in Refreshes /\ f.at \in {"sent", "checked"}
    /\ lost \in BOOLEAN /\ out \in {"no", "here", "everywhere", "crossed"}

(* While no answer is lost and nobody logs out, the tab keeps its session: *)
(* a signed-in tab has a pair, and the pair it holds can still be refreshed*)
(* or is being replaced by one that can.  Rotation makes a second refresh  *)
(* with the same token end the session (performRefresh clears the pair).   *)
SessionKept ==
    ~lost /\ ~loggingOut /\ out = "no" =>
        /\ user => stored # NoPair
        /\ stored # NoPair =>
              \/ stored \in live
              \/ \E f \in {shared, direct} : f.at = "ran" /\ f.pair = stored /\ f.new \in live

(* A request the screens make is run at most once, however often the tab   *)
(* refreshes, whatever is lost and wherever the page is reloaded: only a   *)
(* 401, which runs nothing, is tried again.                                *)
OneRunPerRequest == \A r \in Requests : call[r].runs <= 1

(* Logging out lasts until the next login: the tab has neither user nor    *)
(* pair, and if the server accepted it no refresh token is left.  A refresh*)
(* or a reload that crosses the logout is the exception ("crossed").       *)
LogoutLasts ==
    /\ out \in {"here", "everywhere"} /\ ~loggingOut => ~user /\ stored = NoPair
    /\ out = "everywhere" => live = {}

(* The tab never stays blank: restore ends, signed in or not. *)
RestoreEnds == isInitializing ~> ~isInitializing

(* A call that was sent with a timeout ends, though it waited for a refresh*)
(* that itself was lost: a screen that awaits it does not hang.  A call    *)
(* sent without one may hang at the network, and its screen with it, but   *)
(* never in the queue for the refresh.                                     *)
EveryCallEnds ==
    /\ \A c \in Calls \ Untimed : call[c].at \in InFlight ~> call[c].at \notin InFlight
    /\ \A c \in Untimed : call[c].at = "waiting" ~> call[c].at # "waiting"
=============================================================================
