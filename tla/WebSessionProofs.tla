-------------------------- MODULE WebSessionProofs --------------------------
(***************************************************************************)
(* Theorems about WebSession, for any number of calls a tab makes and any  *)
(* number of logins, expiries and reloads: no request is run twice, a      *)
(* logout lasts, and the tab keeps its session while answers arrive.       *)
(***************************************************************************)
EXTENDS WebSession, TLAPS

-----------------------------------------------------------------------------
(* The invariants. *)

(* Only calls the server has run, or may have, are no longer sent.         *)
RunOnce ==
    \A r \in Requests :
        /\ call[r].runs <= 1
        /\ call[r].at \in {"idle", "sent", "unauthorized", "waiting"} => call[r].runs = 0

(* Who is busy when: the screens call while a user is signed in, apiMe     *)
(* belongs to restore and login, a shared refresh to the calls that wait   *)
(* for it, a direct one to restore, and strays have cost an answer.        *)
OneAtATime ==
    /\ \A r \in Requests : call[r].at \in InFlight => user \/ flow.step = "leaving"
    /\ call["me"].at # "idle" => flow.step \in {"restoreMe", "restoreAgain", "loginMe"}
    /\ shared.at # "none" => \E c \in Calls : call[c].at = "waiting"
    /\ direct.at # "none" => flow.step = "restoreRefresh"
    /\ user => flow.step \in {"none", "logout", "logoutDone"}
    /\ ~lost => strays = {}

(* After a logout nothing brings a pair back: no refresh has read a token  *)
(* that was live, and the tab has none under way once it is cleared.       *)
LoggedOut ==
    /\ out = "everywhere" =>
          live = {} /\ \A f \in {shared, direct} \cup strays : f.at # "checked"
    /\ out \in {"here", "everywhere"} =>
          /\ flow.step \in {"none", "logoutDone", "leaving"}
          /\ flow.step \in {"none", "leaving"} =>
                ~user /\ stored = NoPair /\ shared.at = "none"

Undisturbed == ~lost /\ ~loggingOut /\ out = "no"

(* A refresh under way is for the pair that is stored, which is live until *)
(* the refresh replaces it by another that is.                             *)
Kept ==
    Undisturbed =>
        /\ user \/ flow.step \in {"restoreMe", "restoreRefresh", "restoreAgain", "loginMe"}
              => stored # NoPair
        /\ \/ stored \in {NoPair} \cup live
           \/ \E f \in {shared, direct} : f.at = "ran" /\ f.pair = stored
        /\ shared.at # "none" =>
              stored # NoPair /\ shared.pair = stored /\ shared.at # "denied"
        /\ \A f \in {shared, direct} : f.at = "ran" => f.new \in live

SessionInv == TypeOK /\ RunOnce /\ OneAtATime /\ LoggedOut /\ Kept

-----------------------------------------------------------------------------
(* The values a step builds. *)

\* A call that was not made is well formed and was not run.
LEMMA IdleIsACall ==
    ASSUME TypeOK
    PROVE  Idle \in CallStates /\ Idle.at = "idle" /\ Idle.runs = 0
    BY DEF TypeOK, Idle, CallStates, Pairs, NoPair

\* A call that ended is well formed, and was run as often as before.
LEMMA EndIsACall ==
    ASSUME TypeOK, NEW c \in Calls, NEW how \in Ended
    PROVE  /\ End(c, how) \in CallStates
           /\ End(c, how).at = IF c = "me" THEN how ELSE "ended"
           /\ End(c, how).runs = call[c].runs
<1>1. call[c].runs \in Nat
    BY DEF TypeOK, CallStates
<1>2. NoPair \in Pairs
    BY DEF TypeOK, Pairs, NoPair
<1> QED
    BY <1>1, <1>2 DEF End, CallStates, Ended

\* A call that is sent again is well formed, and was run as often as before.
LEMMA SentIsACall ==
    ASSUME TypeOK, NEW c \in Calls, NEW p, NEW again \in BOOLEAN
    PROVE  /\ p \in Pairs => Sent(c, p, again) \in CallStates
           /\ Sent(c, p, again).at = "sent"
           /\ Sent(c, p, again).runs = call[c].runs
<1>1. call[c].runs \in Nat
    BY DEF TypeOK, CallStates
<1> QED
    BY <1>1 DEF Sent, CallStates, InFlight

\* A call sent for the first time is well formed and was not run.
LEMMA FirstSentIsACall ==
    ASSUME NEW p
    PROVE  /\ FirstSent(p).at = "sent" /\ FirstSent(p).pair = p /\ FirstSent(p).runs = 0
           /\ p \in Pairs => FirstSent(p) \in CallStates
           /\ p \in Pairs' => FirstSent(p) \in CallStates'
    BY DEF FirstSent, Idle, CallStates, InFlight

\* Refreshes are well formed.
LEMMA RefreshTypes ==
    ASSUME TypeOK
    PROVE  /\ NoRefresh \in Refreshes /\ NoRefresh.at = "none"
           /\ \A p \in Pairs : Refresh(p) \in Refreshes
           /\ \A p : Refresh(p).at = "sent" /\ Refresh(p).pair = p
    BY DEF TypeOK, NoRefresh, Refresh, Refreshes, Pairs, NoPair

\* The changes the steps make to a call keep it well formed.
LEMMA CallMoves ==
    ASSUME NEW v \in CallStates
    PROVE  /\ \A at \in InFlight : [v EXCEPT !.at = at] \in CallStates
           /\ [v EXCEPT !.at = "run", !.runs = v.runs + 1] \in CallStates
           /\ \A n \in {0, 1} : [v EXCEPT !.runs = @ + n] \in CallStates
           /\ [v EXCEPT !.runs = 0] \in CallStates
<1>1. ASSUME NEW at \in InFlight
      PROVE  [v EXCEPT !.at = at] \in CallStates
    BY <1>1 DEF CallStates
<1>2. [v EXCEPT !.at = "run", !.runs = v.runs + 1] \in CallStates
  <2>1. v.runs + 1 \in Nat
    BY DEF CallStates
  <2>2. "run" \in InFlight \cup Ended \cup {"idle", "ended"}
    BY DEF InFlight
  <2> QED
    BY <2>1, <2>2 DEF CallStates
<1>3. ASSUME NEW n \in {0, 1}
      PROVE  [v EXCEPT !.runs = @ + n] \in CallStates
    BY <1>3 DEF CallStates
<1>4. [v EXCEPT !.runs = 0] \in CallStates
    BY DEF CallStates
<1> QED
    BY <1>1, <1>2, <1>3, <1>4

\* Issuing a pair takes none away.
LEMMA Grown ==
    ASSUME TypeOK, issued' = issued + 1
    PROVE  /\ issued + 1 \in Pairs' /\ issued + 1 \in 1 .. issued'
           /\ Pairs \subseteq Pairs' /\ 1 .. issued \subseteq 1 .. issued'
           /\ Refreshes \subseteq Refreshes' /\ CallStates \subseteq CallStates'
<1>1. issued + 1 \in Pairs' /\ issued + 1 \in 1 .. issued'
      /\ Pairs \subseteq Pairs' /\ 1 .. issued \subseteq 1 .. issued'
    BY DEF TypeOK, Pairs
<1>2. Refreshes \subseteq Refreshes'
    BY <1>1 DEF Refreshes
<1>3. CallStates \subseteq CallStates'
    BY <1>1 DEF CallStates
<1> QED
    BY <1>1, <1>2, <1>3

\* Clearing the session leaves a well-formed tab.
LEMMA Cleared ==
    ASSUME TypeOK, clearAll
    PROVE  stored' \in Pairs /\ user' \in BOOLEAN
<1>1. NoPair \in Pairs
    BY DEF TypeOK, Pairs, NoPair
<1> QED
    BY <1>1 DEF clearAll

-----------------------------------------------------------------------------
(* Every step keeps the types. *)

\* Every step keeps the state well formed.
LEMMA TypeStep ==
    ASSUME TypeOK, [Next]_vars
    PROVE  TypeOK'
<1>Serve. ASSUME NEW c \in Calls, Serve(c)
      PROVE  TypeOK'
  <2>1. /\ Pairs' = Pairs /\ Refreshes' = Refreshes /\ CallStates' = CallStates
        /\ call \in [Calls -> CallStates]
    BY <1>Serve DEF Serve, server, TypeOK, Pairs, Refreshes, CallStates
  <2>2. /\ [call[c] EXCEPT !.at = "unauthorized"] \in CallStates
        /\ [call[c] EXCEPT !.at = "run", !.runs = call[c].runs + 1] \in CallStates
    BY <2>1, CallMoves DEF InFlight
  <2>call. call' \in [Calls -> CallStates]
    BY <1>Serve, <2>1, <2>2 DEF Serve
  <2> QED
    BY <1>Serve, <2>1, <2>call DEF Serve, TypeOK, server, tab
<1>Receive. ASSUME NEW c \in Calls, Receive(c)
      PROVE  TypeOK'
  <2>1. /\ Pairs' = Pairs /\ Refreshes' = Refreshes /\ CallStates' = CallStates
        /\ call \in [Calls -> CallStates]
    BY <1>Receive DEF Receive, server, TypeOK, Pairs, Refreshes, CallStates
  <2>2. End(c, "ok") \in CallStates
    BY EndIsACall DEF Ended
  <2>call. call' \in [Calls -> CallStates]
    BY <1>Receive, <2>1, <2>2 DEF Receive
  <2> QED
    BY <1>Receive, <2>1, <2>call DEF Receive, TypeOK, server, tab
<1>Unauthorized. ASSUME NEW c \in Calls, Unauthorized(c)
      PROVE  TypeOK'
  <2>1. /\ Pairs' = Pairs /\ Refreshes' = Refreshes /\ CallStates' = CallStates
        /\ call \in [Calls -> CallStates]
    BY <1>Unauthorized
       DEF Unauthorized, server, TypeOK, Pairs, Refreshes, CallStates
  <2>2. End(c, "failed") \in CallStates
    BY EndIsACall DEF Ended
  <2>3. [call[c] EXCEPT !.at = "waiting"] \in CallStates
    BY <2>1, CallMoves DEF InFlight
  <2>4. shared' \in Refreshes /\ strays' = strays
    BY <1>Unauthorized, RefreshTypes DEF Unauthorized, JoinRefresh, TypeOK
  <2>call. call' \in [Calls -> CallStates]
    BY <1>Unauthorized, <2>1, <2>2, <2>3 DEF Unauthorized
  <2> QED
    BY <1>Unauthorized, <2>1, <2>call, <2>4 DEF Unauthorized, TypeOK, server, tab
<1>Abort. ASSUME NEW c \in Calls, Abort(c)
      PROVE  TypeOK'
  <2>1. /\ Pairs' = Pairs /\ Refreshes' = Refreshes /\ CallStates' = CallStates
        /\ call \in [Calls -> CallStates]
    BY <1>Abort DEF Abort, server, TypeOK, Pairs, Refreshes, CallStates
  <2>2. End(c, "failed") \in CallStates
    BY EndIsACall DEF Ended
  <2>3. \A n \in {0, 1} : [End(c, "failed") EXCEPT !.runs = @ + n] \in CallStates
    BY <2>2, CallMoves
  <2>call. call' \in [Calls -> CallStates]
    BY <1>Abort, <2>1, <2>3 DEF Abort
  <2> QED
    BY <1>Abort, <2>1, <2>call DEF Abort, TypeOK, server, tab
<1>Send. ASSUME NEW r \in Requests, Send(r)
      PROVE  TypeOK'
  <2>1. /\ Pairs' = Pairs /\ Refreshes' = Refreshes /\ CallStates' = CallStates
        /\ call \in [Calls -> CallStates]
    BY <1>Send DEF Send, server, TypeOK, Pairs, Refreshes, CallStates
  <2>2. Sent(r, stored, FALSE) \in CallStates
    BY SentIsACall DEF TypeOK, Calls
  <2>call. call' \in [Calls -> CallStates]
    BY <1>Send, <2>1, <2>2 DEF Send, Calls
  <2> QED
    BY <1>Send, <2>1, <2>call DEF Send, TypeOK, server, tab
<1>Expire. ASSUME NEW p \in valid, Expire(p)
      PROVE  TypeOK'
    BY <1>Expire
       DEF Expire, Event, TypeOK, Pairs, Refreshes, CallStates, server, tab
<1>FindRefreshToken. CASE FindRefreshToken
  <2>1. /\ Pairs' = Pairs /\ Refreshes' = Refreshes /\ CallStates' = CallStates
    BY <1>FindRefreshToken
       DEF FindRefreshToken, server, Pairs, Refreshes, CallStates
  <2>2. \A f \in Refreshes : Looked(f) \in Refreshes
    BY DEF Looked, Refreshes
  <2>3. shared' \in Refreshes /\ direct' \in Refreshes
    BY <1>FindRefreshToken, <2>2 DEF FindRefreshToken, TypeOK
  <2>4. \A f \in strays' : f \in Refreshes /\ f.at \in {"sent", "checked"}
    BY <1>FindRefreshToken, <2>2 DEF FindRefreshToken, TypeOK
  <2> QED
    BY <1>FindRefreshToken, <2>1, <2>3, <2>4 DEF FindRefreshToken, TypeOK, server
<1>Rotate. CASE Rotate
  <2>1. issued' = issued + 1
    BY <1>Rotate DEF Rotate, Issue
  <2>2. \A f \in Refreshes : Ran(f) \in Refreshes'
    BY <2>1, Grown DEF Ran, Refreshes
  <2>3. shared' \in Refreshes' /\ direct' \in Refreshes'
    BY <1>Rotate, <2>1, <2>2, Grown DEF Rotate, TypeOK
  <2>4. \A f \in strays' : f \in Refreshes' /\ f.at \in {"sent", "checked"}
    BY <1>Rotate, <2>1, Grown DEF Rotate, TypeOK
  <2>5. live' \subseteq 1 .. issued' /\ valid' \subseteq 1 .. issued'
    BY <1>Rotate, <2>1, Grown DEF Rotate, Issue, TypeOK
  <2>6. call' \in [Calls -> CallStates'] /\ stored' \in Pairs' /\ flow'.pair \in Pairs'
        /\ issued' \in Nat
    BY <1>Rotate, <2>1, Grown DEF Rotate, TypeOK
  <2> QED
    BY <1>Rotate, <2>3, <2>4, <2>5, <2>6 DEF Rotate, TypeOK
<1>Logout. CASE Logout
    BY <1>Logout
       DEF Logout, Step, TypeOK, Pairs, Refreshes, CallStates, server, tab
<1>RefreshAnswered. CASE RefreshAnswered
  <2>1. /\ Pairs' = Pairs /\ Refreshes' = Refreshes /\ CallStates' = CallStates
        /\ call \in [Calls -> CallStates]
    BY <1>RefreshAnswered
       DEF RefreshAnswered, server, TypeOK, Pairs, Refreshes, CallStates
  <2>2. \A c \in Calls : End(c, "failed") \in CallStates
    BY EndIsACall DEF Ended
  <2>3. \A c \in Calls, p \in Pairs : Sent(c, p, TRUE) \in CallStates
    BY SentIsACall
  <2>4. shared'.at = "none" /\ shared' \in Refreshes /\ stored' \in Pairs
    BY <1>RefreshAnswered, RefreshTypes
       DEF RefreshAnswered, Settle, TypeOK, Refreshes, Pairs, NoPair
  <2>call. call' \in [Calls -> CallStates]
    BY <1>RefreshAnswered, <2>1, <2>2, <2>3, <2>4 DEF RefreshAnswered, Settle
  <2> QED
    BY <1>RefreshAnswered, <2>1, <2>call, <2>4
       DEF RefreshAnswered, TypeOK, server, tab
<1>RefreshAborted. CASE RefreshAborted
  <2>1. /\ Pairs' = Pairs /\ Refreshes' = Refreshes /\ CallStates' = CallStates
        /\ call \in [Calls -> CallStates]
    BY <1>RefreshAborted
       DEF RefreshAborted, server, TypeOK, Pairs, Refreshes, CallStates
  <2>2. \A c \in Calls : End(c, "failed") \in CallStates
    BY EndIsACall DEF Ended
  <2>3. \A c \in Calls, p \in Pairs : Sent(c, p, TRUE) \in CallStates
    BY SentIsACall
  <2>4. shared'.at = "none" /\ shared' \in Refreshes /\ stored' \in Pairs
    BY <1>RefreshAborted, RefreshTypes
       DEF RefreshAborted, Settle, TypeOK, Refreshes, Pairs, NoPair
  <2>5. \A f \in StillAtServer(shared) : f \in Refreshes /\ f.at \in {"sent", "checked"}
    BY DEF StillAtServer, TypeOK
  <2>call. call' \in [Calls -> CallStates]
    BY <1>RefreshAborted, <2>1, <2>2, <2>3, <2>4 DEF RefreshAborted, Settle
  <2> QED
    BY <1>RefreshAborted, <2>1, <2>call, <2>4, <2>5
       DEF RefreshAborted, TypeOK, server, tab
<1>RestoreMe. CASE RestoreMe
  <2>1. /\ Pairs' = Pairs /\ Refreshes' = Refreshes /\ CallStates' = CallStates
        /\ call \in [Calls -> CallStates]
    BY <1>RestoreMe DEF RestoreMe, server, TypeOK, Pairs, Refreshes, CallStates
  <2>2. Idle \in CallStates /\ "me" \in Calls
    BY IdleIsACall DEF Calls
  <2>3. direct' \in Refreshes
    BY <1>RestoreMe, RefreshTypes DEF RestoreMe, TypeOK
  <2>4. flow' \in [step : {"none", "restoreRefresh"}, pair : Pairs]
    BY <1>RestoreMe DEF RestoreMe, TypeOK, NoFlow, Step, Pairs, NoPair
  <2>call. call' \in [Calls -> CallStates]
    BY <1>RestoreMe, <2>1, <2>2 DEF RestoreMe, MeIdle
  <2> QED
    BY <1>RestoreMe, <2>1, <2>call, <2>3, <2>4 DEF RestoreMe, TypeOK, server, tab
<1>RestoreRefresh. CASE RestoreRefresh
  <2>1. /\ Pairs' = Pairs /\ Refreshes' = Refreshes /\ CallStates' = CallStates
        /\ call \in [Calls -> CallStates]
    BY <1>RestoreRefresh
       DEF RestoreRefresh, server, TypeOK, Pairs, Refreshes, CallStates
  <2>2. "me" \in Calls /\ direct.new \in Pairs
    BY DEF Calls, TypeOK, Refreshes
  <2>3. FirstSent(direct.new) \in CallStates
    BY <2>2, FirstSentIsACall
  <2>4. direct' \in Refreshes /\ stored' \in Pairs
    BY <1>RestoreRefresh, <2>2, RefreshTypes
       DEF RestoreRefresh, clearAll, TypeOK, Pairs, NoPair
  <2>5. flow' \in [step : {"none", "restoreAgain"}, pair : Pairs]
    BY <1>RestoreRefresh, <2>2
       DEF RestoreRefresh, TypeOK, NoFlow, Step, Pairs, NoPair
  <2>call. call' \in [Calls -> CallStates]
    BY <1>RestoreRefresh, <2>1, <2>2, <2>3 DEF RestoreRefresh, SendMe
  <2> QED
    BY <1>RestoreRefresh, <2>1, <2>call, <2>4, <2>5
       DEF RestoreRefresh, clearAll, TypeOK, server, tab
<1>RestoreRefreshAborted. CASE RestoreRefreshAborted
  <2>1. /\ Pairs' = Pairs /\ Refreshes' = Refreshes /\ CallStates' = CallStates
        /\ call \in [Calls -> CallStates]
    BY <1>RestoreRefreshAborted
       DEF RestoreRefreshAborted, server, TypeOK, Pairs, Refreshes, CallStates
  <2>2. \A f \in StillAtServer(direct) : f \in Refreshes /\ f.at \in {"sent", "checked"}
    BY DEF StillAtServer, TypeOK
  <2>3. flow' \in [step : {"none"}, pair : Pairs]
    BY <1>RestoreRefreshAborted
       DEF RestoreRefreshAborted, NoFlow, Step, TypeOK, Pairs, NoPair
  <2> QED
    BY <1>RestoreRefreshAborted, <2>1, <2>2, <2>3, Cleared, RefreshTypes
       DEF RestoreRefreshAborted, TypeOK, server
<1>RestoreAgain. CASE RestoreAgain
  <2>1. /\ Pairs' = Pairs /\ Refreshes' = Refreshes /\ CallStates' = CallStates
        /\ call \in [Calls -> CallStates]
    BY <1>RestoreAgain
       DEF RestoreAgain, server, TypeOK, Pairs, Refreshes, CallStates
  <2>2. Idle \in CallStates /\ "me" \in Calls
    BY IdleIsACall DEF Calls
  <2>3. flow' \in [step : {"none"}, pair : Pairs]
    BY <1>RestoreAgain DEF RestoreAgain, NoFlow, Step, TypeOK, Pairs, NoPair
  <2>call. call' \in [Calls -> CallStates]
    BY <1>RestoreAgain, <2>1, <2>2 DEF RestoreAgain, MeIdle
  <2> QED
    BY <1>RestoreAgain, <2>1, <2>call, <2>3, Cleared
       DEF RestoreAgain, TypeOK, server, tab
<1>LoginMe. CASE LoginMe
  <2>1. /\ Pairs' = Pairs /\ Refreshes' = Refreshes /\ CallStates' = CallStates
        /\ call \in [Calls -> CallStates]
    BY <1>LoginMe DEF LoginMe, server, TypeOK, Pairs, Refreshes, CallStates
  <2>2. Idle \in CallStates /\ "me" \in Calls
    BY IdleIsACall DEF Calls
  <2>call. call' \in [Calls -> CallStates]
    BY <1>LoginMe, <2>1, <2>2 DEF LoginMe, MeIdle
  <2> QED
    BY <1>LoginMe, <2>1, <2>call
       DEF LoginMe, NoFlow, Step, Pairs, NoPair, TypeOK, server, tab
<1>LogoutAborted. CASE LogoutAborted
    BY <1>LogoutAborted
       DEF LogoutAborted, Step, TypeOK, Pairs, Refreshes, CallStates, server, tab
<1>Leave. CASE Leave
  <2>1. /\ Pairs' = Pairs /\ Refreshes' = Refreshes /\ CallStates' = CallStates
        /\ call \in [Calls -> CallStates]
    BY <1>Leave DEF Leave, server, TypeOK, Pairs, Refreshes, CallStates
  <2>2. flow' \in [step : {"leaving"}, pair : Pairs]
    BY <1>Leave DEF Leave, Step, TypeOK, Pairs, NoPair
  <2> QED
    BY <1>Leave, <2>1, <2>2, Cleared DEF Leave, TypeOK, server
<1>Left. CASE Left
  <2>1. /\ Pairs' = Pairs /\ Refreshes' = Refreshes /\ CallStates' = CallStates
        /\ call \in [Calls -> CallStates]
    BY <1>Left DEF Left, Load, server, TypeOK, Pairs, Refreshes, CallStates
  <2>2. Idle \in CallStates /\ FirstSent(stored) \in CallStates
    BY IdleIsACall, FirstSentIsACall DEF TypeOK
  <2>3. \A c \in Calls : End(c, "failed") \in CallStates
    BY EndIsACall DEF Ended
  <2>4. \A f \in StillAtServer(shared) \cup StillAtServer(direct) :
           f \in Refreshes /\ f.at \in {"sent", "checked"}
    BY DEF StillAtServer, TypeOK
  <2>5. flow' \in [step : {"none", "restoreMe"}, pair : Pairs]
    BY <1>Left DEF Left, Load, TypeOK, NoFlow, Step, Pairs, NoPair
  <2>call. call' \in [Calls -> CallStates]
    BY <1>Left, <2>1, <2>2, <2>3 DEF Left, Load
  <2> QED
    BY <1>Left, <2>1, <2>call, <2>4, <2>5, RefreshTypes
       DEF Left, Load, Event, loggingOut, TypeOK, server, tab
<1>Login. CASE Login
  <2>1. /\ issued' = issued + 1 /\ live' = (live \ {NoPair}) \cup {issued + 1}
        /\ valid' = valid \cup {issued + 1}
    BY <1>Login DEF Login, Issue
  <2>2. live' \subseteq 1 .. issued' /\ valid' \subseteq 1 .. issued' /\ issued' \in Nat
    <3>1. issued' \in Nat
        BY <2>1 DEF TypeOK
    <3>2. live \subseteq 1 .. issued' /\ valid \subseteq 1 .. issued' /\ issued + 1 \in 1 .. issued'
        BY <2>1, Grown DEF TypeOK
    <3> QED
        BY <2>1, <3>1, <3>2
  <2>3. FirstSent(issued + 1) \in CallStates'
    BY <2>1, Grown, FirstSentIsACall
  <2>4. call' \in [Calls -> CallStates']
    BY <1>Login, <2>1, <2>3, Grown DEF Login, SendMe, TypeOK, Calls
  <2>5. /\ stored' \in Pairs'
        /\ flow' \in [step : {flow.step, "loginMe"}, pair : Pairs']
    BY <1>Login, <2>1, Grown DEF Login, Step, TypeOK
  <2>6. /\ shared' \in Refreshes' /\ direct' \in Refreshes'
        /\ \A f \in strays' : f \in Refreshes' /\ f.at \in {"sent", "checked"}
    BY <1>Login, <2>1, Grown DEF Login, TypeOK
  <2>7. user' \in BOOLEAN /\ lost' \in BOOLEAN /\ out' = "no"
    BY <1>Login DEF Login, TypeOK
  <2> QED
    BY <2>2, <2>4, <2>5, <2>6, <2>7 DEF TypeOK
<1>StartLogout. CASE StartLogout
    BY <1>StartLogout
       DEF StartLogout, Step, TypeOK, Pairs, Refreshes, CallStates, server, tab
<1>Reload. CASE Reload
  <2>1. /\ Pairs' = Pairs /\ Refreshes' = Refreshes /\ CallStates' = CallStates
        /\ call \in [Calls -> CallStates]
    BY <1>Reload DEF Reload, Load, server, TypeOK, Pairs, Refreshes, CallStates
  <2>2. Idle \in CallStates /\ FirstSent(stored) \in CallStates
    BY IdleIsACall, FirstSentIsACall DEF TypeOK
  <2>3. \A c \in Calls : End(c, "failed") \in CallStates
    BY EndIsACall DEF Ended
  <2>4. \A f \in StillAtServer(shared) \cup StillAtServer(direct) :
           f \in Refreshes /\ f.at \in {"sent", "checked"}
    BY DEF StillAtServer, TypeOK
  <2>5. flow' \in [step : {"none", "restoreMe"}, pair : Pairs]
    BY <1>Reload DEF Reload, Load, TypeOK, NoFlow, Step, Pairs, NoPair
  <2>call. call' \in [Calls -> CallStates]
    BY <1>Reload, <2>1, <2>2, <2>3 DEF Reload, Load
  <2> QED
    BY <1>Reload, <2>1, <2>call, <2>4, <2>5, RefreshTypes
       DEF Reload, Load, Event, loggingOut, TypeOK, server, tab
<1>Stutter. CASE UNCHANGED vars
    BY <1>Stutter DEF vars, server, tab, TypeOK,
          Pairs, Refreshes, CallStates
<1> QED
    BY <1>Serve, <1>Receive, <1>Unauthorized, <1>Abort, <1>Send,
          <1>Expire, <1>FindRefreshToken, <1>Rotate, <1>Logout,
          <1>RefreshAnswered, <1>RefreshAborted, <1>RestoreMe, <1>RestoreRefresh,
          <1>RestoreRefreshAborted, <1>RestoreAgain, <1>LoginMe, <1>LogoutAborted,
          <1>Leave, <1>Left, <1>Login, <1>StartLogout, <1>Reload, <1>Stutter
       DEF Next, CallStep, SharedStep, FlowStep

-----------------------------------------------------------------------------
(* Each step keeps each invariant: one step of the proof per action. *)

\* Every step keeps each call run once at most.
LEMMA RunStep ==
    ASSUME TypeOK, RunOnce, [Next]_vars
    PROVE  RunOnce'
<1>1. call \in [Calls -> CallStates] /\ "me" \in Calls /\ Requests \subseteq Calls
      /\ "me" \notin Requests
    BY Bounds DEF TypeOK, Calls
<1>2. \A c \in Calls, how \in Ended :
         /\ End(c, how).at = IF c = "me" THEN how ELSE "ended"
         /\ End(c, how).runs = call[c].runs
    BY EndIsACall
<1>3. \A c \in Calls : \A p :
         /\ Sent(c, p, FALSE).at = "sent" /\ Sent(c, p, FALSE).runs = call[c].runs
         /\ Sent(c, p, TRUE).at = "sent" /\ Sent(c, p, TRUE).runs = call[c].runs
    BY SentIsACall
<1>Serve. ASSUME NEW c \in Calls, Serve(c)
      PROVE  RunOnce'
    BY <1>1, <1>Serve DEF RunOnce, Serve, CallStates
<1>Receive. ASSUME NEW c \in Calls, Receive(c)
      PROVE  RunOnce'
    BY <1>1, <1>2, <1>Receive DEF RunOnce, Receive, Ended
<1>Unauthorized. ASSUME NEW c \in Calls, Unauthorized(c)
      PROVE  RunOnce'
  <2>1. /\ call'[c].at \in {"waiting", "failed", "ended"} /\ call'[c].runs = call[c].runs
        /\ \A d \in Calls \ {c} : call'[d] = call[d]
    BY <1>1, <1>2, <1>Unauthorized DEF Unauthorized, Ended, CallStates
  <2> QED
    BY <1>1, <1>Unauthorized, <2>1 DEF RunOnce, Unauthorized
<1>Abort. ASSUME NEW c \in Calls, Abort(c)
      PROVE  RunOnce'
  <2> DEFINE late == {0} \cup {n \in {1} : call[c].at = "sent" /\ call[c].pair \in valid}
  <2>1. PICK n \in late : call' = [call EXCEPT ![c] = [End(c, "failed") EXCEPT !.runs = @ + n]]
    BY <1>Abort DEF Abort
  <2>2. /\ call'[c].at \in {"failed", "ended"} /\ call'[c].runs = call[c].runs + n
        /\ \A d \in Calls \ {c} : call'[d] = call[d]
    BY <1>1, <1>2, <2>1 DEF End, Ended
  <2>3. c \in Requests => call[c].runs + n <= 1
    BY <1>1, <2>1 DEF RunOnce, CallStates
  <2> QED
    BY <1>1, <2>2, <2>3 DEF RunOnce
<1>Send. ASSUME NEW r \in Requests, Send(r)
      PROVE  RunOnce'
  <2>1. call' = [call EXCEPT ![r] = Sent(r, stored, FALSE)] /\ call[r].at = "idle"
    BY <1>Send DEF Send
  <2>2. call'[r].runs = call[r].runs /\ \A d \in Calls \ {r} : call'[d] = call[d]
    BY <1>1, <1>3, <2>1
  <2> QED
    BY <1>1, <2>1, <2>2 DEF RunOnce
<1>Expire. ASSUME NEW p \in valid, Expire(p)
      PROVE  RunOnce'
    BY <1>Expire DEF RunOnce, Expire, tab
<1>FindRefreshToken. CASE FindRefreshToken
    BY <1>FindRefreshToken DEF RunOnce, FindRefreshToken
<1>Rotate. CASE Rotate
    BY <1>Rotate DEF RunOnce, Rotate
<1>Logout. CASE Logout
    BY <1>Logout DEF RunOnce, Logout
<1>RefreshAnswered. CASE RefreshAnswered
  <2>1. \A c \in Calls :
           \/ call'[c] = call[c]
           \/ /\ call[c].at = "waiting" /\ call'[c].runs = call[c].runs
              /\ call'[c].at \in {"sent", "failed", "ended"}
    BY <1>1, <1>2, <1>3, <1>RefreshAnswered DEF RefreshAnswered, Settle, Ended
  <2> QED
    BY <1>1, <2>1 DEF RunOnce
<1>RefreshAborted. CASE RefreshAborted
  <2>1. \A c \in Calls :
           \/ call'[c] = call[c]
           \/ /\ call[c].at = "waiting" /\ call'[c].runs = call[c].runs
              /\ call'[c].at \in {"sent", "failed", "ended"}
    BY <1>1, <1>2, <1>3, <1>RefreshAborted DEF RefreshAborted, Settle, Ended
  <2> QED
    BY <1>1, <2>1 DEF RunOnce
<1>RestoreMe. CASE RestoreMe
    BY <1>1, <1>RestoreMe DEF RunOnce, RestoreMe, MeIdle
<1>RestoreRefresh. CASE RestoreRefresh
    BY <1>1, <1>RestoreRefresh DEF RunOnce, RestoreRefresh, SendMe
<1>RestoreRefreshAborted. CASE RestoreRefreshAborted
    BY <1>RestoreRefreshAborted DEF RunOnce, RestoreRefreshAborted
<1>RestoreAgain. CASE RestoreAgain
    BY <1>1, <1>RestoreAgain DEF RunOnce, RestoreAgain, MeIdle
<1>LoginMe. CASE LoginMe
    BY <1>1, <1>LoginMe DEF RunOnce, LoginMe, MeIdle
<1>LogoutAborted. CASE LogoutAborted
    BY <1>LogoutAborted DEF RunOnce, LogoutAborted
<1>Leave. CASE Leave
    BY <1>Leave DEF RunOnce, Leave
<1>Left. CASE Left
    BY <1>1, <1>2, <1>Left DEF RunOnce, Left, Load, Ended
<1>Login. CASE Login
    BY <1>1, <1>Login DEF RunOnce, Login, SendMe
<1>StartLogout. CASE StartLogout
    BY <1>StartLogout DEF RunOnce, StartLogout
<1>Reload. CASE Reload
    BY <1>1, <1>2, <1>Reload DEF RunOnce, Reload, Load, Ended
<1>Stutter. CASE UNCHANGED vars
    BY <1>1, <1>2, <1>3, <1>Stutter DEF vars, server, tab,
          RunOnce, Ended, InFlight
<1> QED
    BY <1>Serve, <1>Receive, <1>Unauthorized, <1>Abort, <1>Send,
          <1>Expire, <1>FindRefreshToken, <1>Rotate, <1>Logout,
          <1>RefreshAnswered, <1>RefreshAborted, <1>RestoreMe, <1>RestoreRefresh,
          <1>RestoreRefreshAborted, <1>RestoreAgain, <1>LoginMe, <1>LogoutAborted,
          <1>Leave, <1>Left, <1>Login, <1>StartLogout, <1>Reload, <1>Stutter
       DEF Next, CallStep, SharedStep, FlowStep

\* Every step keeps who is busy when.
LEMMA OneStep ==
    ASSUME TypeOK, OneAtATime, [Next]_vars
    PROVE  OneAtATime'
<1>1. call \in [Calls -> CallStates] /\ "me" \in Calls /\ Requests \subseteq Calls
      /\ "me" \notin Requests
    BY Bounds DEF TypeOK, Calls
<1>2. \A c \in Calls, how \in Ended :
         /\ End(c, how).at = IF c = "me" THEN how ELSE "ended"
         /\ End(c, how).runs = call[c].runs
    BY EndIsACall
<1>3. \A c \in Calls : \A p :
         /\ Sent(c, p, FALSE).at = "sent" /\ Sent(c, p, FALSE).runs = call[c].runs
         /\ Sent(c, p, TRUE).at = "sent" /\ Sent(c, p, TRUE).runs = call[c].runs
    BY SentIsACall
<1>4. Idle.at = "idle" /\ Idle.runs = 0
    BY IdleIsACall
<1>Serve. ASSUME NEW c \in Calls, Serve(c)
      PROVE  OneAtATime'
    BY <1>1, <1>Serve DEF OneAtATime, Serve, InFlight
<1>Receive. ASSUME NEW c \in Calls, Receive(c)
      PROVE  OneAtATime'
    BY <1>1, <1>2, <1>Receive DEF OneAtATime, Receive, InFlight, Ended
<1>Unauthorized. ASSUME NEW c \in Calls, Unauthorized(c)
      PROVE  OneAtATime'
  <2>1. call[c].at = "unauthorized" /\ \A d \in Calls \ {c} : call'[d] = call[d]
    BY <1>1, <1>Unauthorized DEF Unauthorized
  <2>2. \/ call'[c].at = "waiting"
        \/ call'[c].at \in {"failed", "ended"} /\ shared' = shared
    BY <1>1, <1>2, <1>Unauthorized DEF Unauthorized, Ended, CallStates
  <2>3. UNCHANGED <<user, flow, lost, direct>> /\ strays' = strays
    BY <1>Unauthorized DEF Unauthorized, JoinRefresh
  <2> QED
    BY <1>1, <2>1, <2>2, <2>3 DEF OneAtATime, InFlight
<1>Abort. ASSUME NEW c \in Calls, Abort(c)
      PROVE  OneAtATime'
  <2>1. \A n : [End(c, "failed") EXCEPT !.runs = @ + n].at \in {"failed", "ended"}
    BY DEF End
  <2>2. /\ call'[c].at \in {"failed", "ended"} /\ call[c].at \in {"sent", "run", "unauthorized"}
        /\ \A d \in Calls \ {c} : call'[d] = call[d]
    BY <1>1, <2>1, <1>Abort DEF Abort
  <2> QED
    BY <1>1, <2>2, <1>Abort DEF OneAtATime, InFlight, Abort
<1>Send. ASSUME NEW r \in Requests, Send(r)
      PROVE  OneAtATime'
    BY <1>1, <1>3, <1>Send DEF OneAtATime, Send, InFlight
<1>Expire. ASSUME NEW p \in valid, Expire(p)
      PROVE  OneAtATime'
    BY <1>Expire DEF OneAtATime, Expire, tab
<1>FindRefreshToken. CASE FindRefreshToken
    BY <1>FindRefreshToken
       DEF OneAtATime, FindRefreshToken, Looked, TypeOK, Refreshes
<1>Rotate. CASE Rotate
    BY <1>Rotate DEF OneAtATime, Rotate, Ran, TypeOK, Refreshes
<1>Logout. CASE Logout
    BY <1>Logout DEF OneAtATime, Logout, Step
<1>RefreshAnswered. CASE RefreshAnswered
  <2>1. \A c \in Calls :
           \/ call'[c] = call[c] /\ call[c].at # "waiting"
           \/ call[c].at = "waiting" /\ call'[c].at \in {"sent", "failed", "ended"}
    BY <1>1, <1>2, <1>3, <1>RefreshAnswered DEF RefreshAnswered, Settle, Ended
  <2> QED
    BY <1>1, <2>1, RefreshTypes, <1>RefreshAnswered
       DEF OneAtATime, RefreshAnswered, Settle, InFlight
<1>RefreshAborted. CASE RefreshAborted
  <2>1. \A c \in Calls :
           \/ call'[c] = call[c] /\ call[c].at # "waiting"
           \/ call[c].at = "waiting" /\ call'[c].at \in {"sent", "failed", "ended"}
    BY <1>1, <1>2, <1>3, <1>RefreshAborted DEF RefreshAborted, Settle, Ended
  <2> QED
    BY <1>1, <2>1, RefreshTypes, <1>RefreshAborted
       DEF OneAtATime, RefreshAborted, Settle, InFlight
<1>RestoreMe. CASE RestoreMe
    BY <1>1, <1>4, <1>RestoreMe
       DEF OneAtATime, RestoreMe, MeIdle, NoFlow, Step, Ended
<1>RestoreRefresh. CASE RestoreRefresh
    BY <1>1, RefreshTypes, <1>RestoreRefresh
       DEF OneAtATime, RestoreRefresh, SendMe, NoFlow, Step, clearAll
<1>RestoreRefreshAborted. CASE RestoreRefreshAborted
    BY RefreshTypes, <1>RestoreRefreshAborted
       DEF OneAtATime, RestoreRefreshAborted, NoFlow, Step, clearAll
<1>RestoreAgain. CASE RestoreAgain
    BY <1>1, <1>4, <1>RestoreAgain
       DEF OneAtATime, RestoreAgain, MeIdle, NoFlow, Step, Ended, clearAll
<1>LoginMe. CASE LoginMe
    BY <1>1, <1>4, <1>LoginMe DEF OneAtATime, LoginMe, MeIdle, NoFlow, Step, Ended
<1>LogoutAborted. CASE LogoutAborted
    BY <1>LogoutAborted DEF OneAtATime, LogoutAborted, Step
<1>Leave. CASE Leave
    BY <1>Leave DEF OneAtATime, Leave, Step, clearAll
<1>Left. CASE Left
  <2>1. \A c \in Calls : c # "me" => call'[c].at \notin InFlight \cup {"waiting"}
    BY <1>1, <1>2, <1>Left DEF Left, Load, InFlight, Ended
  <2>2. stored = NoPair => call'["me"].at = "idle"
    BY <1>1, <1>4, <1>Left DEF Left, Load
  <2>3. /\ shared'.at = "none" /\ direct'.at = "none" /\ user' = FALSE
        /\ stored # NoPair => flow'.step = "restoreMe"
    BY <1>Left, RefreshTypes DEF Left, Load, Step
  <2>4. ~lost' => strays' = {}
    BY <1>Left DEF Left, Load, OneAtATime, StillAtServer
  <2> QED
    BY <1>1, <2>1, <2>2, <2>3, <2>4 DEF OneAtATime
<1>Login. CASE Login
    BY <1>1, <1>Login DEF OneAtATime, Login, SendMe, Step
<1>StartLogout. CASE StartLogout
    BY <1>StartLogout DEF OneAtATime, StartLogout, Step
<1>Reload. CASE Reload
  <2>1. \A c \in Calls : c # "me" => call'[c].at \notin InFlight \cup {"waiting"}
    BY <1>1, <1>2, <1>Reload DEF Reload, Load, InFlight, Ended
  <2>2. stored = NoPair => call'["me"].at = "idle"
    BY <1>1, <1>4, <1>Reload DEF Reload, Load
  <2>3. /\ shared'.at = "none" /\ direct'.at = "none" /\ user' = FALSE
        /\ stored # NoPair => flow'.step = "restoreMe"
    BY <1>Reload, RefreshTypes DEF Reload, Load, Step
  <2>4. ~lost' => strays' = {}
    BY <1>Reload DEF Reload, Load, OneAtATime, StillAtServer
  <2> QED
    BY <1>1, <2>1, <2>2, <2>3, <2>4 DEF OneAtATime
<1>Stutter. CASE UNCHANGED vars
    BY <1>1, <1>2, <1>3, <1>4, RefreshTypes, <1>Stutter DEF vars, server, tab,
          OneAtATime, Ended, InFlight, Step, NoFlow
<1> QED
    BY <1>Serve, <1>Receive, <1>Unauthorized, <1>Abort, <1>Send,
          <1>Expire, <1>FindRefreshToken, <1>Rotate, <1>Logout,
          <1>RefreshAnswered, <1>RefreshAborted, <1>RestoreMe, <1>RestoreRefresh,
          <1>RestoreRefreshAborted, <1>RestoreAgain, <1>LoginMe, <1>LogoutAborted,
          <1>Leave, <1>Left, <1>Login, <1>StartLogout, <1>Reload, <1>Stutter
       DEF Next, CallStep, SharedStep, FlowStep

\* No step brings a session back after a logout.
LEMMA OutStep ==
    ASSUME TypeOK, OneAtATime, LoggedOut, [Next]_vars
    PROVE  LoggedOut'
<1>Serve. ASSUME NEW c \in Calls, Serve(c)
      PROVE  LoggedOut'
    BY <1>Serve DEF LoggedOut, Serve, server, tab
<1>Receive. ASSUME NEW c \in Calls, Receive(c)
      PROVE  LoggedOut'
    BY <1>Receive DEF LoggedOut, Receive, server
<1>Unauthorized. ASSUME NEW c \in Calls, Unauthorized(c)
      PROVE  LoggedOut'
    BY RefreshTypes, <1>Unauthorized DEF LoggedOut, Step, NoFlow, server, tab,
          Unauthorized, JoinRefresh
<1>Abort. ASSUME NEW c \in Calls, Abort(c)
      PROVE  LoggedOut'
    BY <1>Abort DEF LoggedOut, Abort, server
<1>Send. ASSUME NEW r \in Requests, Send(r)
      PROVE  LoggedOut'
    BY <1>Send DEF LoggedOut, Send, server
<1>Expire. ASSUME NEW p \in valid, Expire(p)
      PROVE  LoggedOut'
    BY <1>Expire DEF LoggedOut, Expire, tab
<1>FindRefreshToken. CASE FindRefreshToken
  <2>1. \A f \in Refreshes : live = {} => Looked(f).at = "denied"
    BY DEF Looked, Refreshes
  <2>2. /\ UNCHANGED <<out, flow, live, user, stored>>
        /\ shared.at = "none" => shared' = shared
    BY <1>FindRefreshToken DEF FindRefreshToken, server
  <2>3. live = {} /\ (\A f \in {shared, direct} \cup strays : f.at # "checked")
        => \A f \in {shared', direct'} \cup strays' : f.at # "checked"
    BY <1>FindRefreshToken, <2>1 DEF FindRefreshToken, TypeOK
  <2> QED
    BY <2>2, <2>3 DEF LoggedOut
<1>Rotate. CASE Rotate
    BY <1>Rotate DEF LoggedOut, Rotate
<1>Logout. CASE Logout
    BY <1>Logout DEF LoggedOut, Logout, Step
<1>RefreshAnswered. CASE RefreshAnswered
    BY RefreshTypes, <1>RefreshAnswered DEF LoggedOut, Step, NoFlow, server, tab,
          RefreshAnswered, Settle
<1>RefreshAborted. CASE RefreshAborted
    BY RefreshTypes, <1>RefreshAborted DEF LoggedOut, Step, NoFlow, server, tab,
          RefreshAborted, Settle, StillAtServer
<1>RestoreMe. CASE RestoreMe
    BY RefreshTypes, <1>RestoreMe DEF LoggedOut, Step, NoFlow, server, tab,
          RestoreMe, clearAll
<1>RestoreRefresh. CASE RestoreRefresh
    BY RefreshTypes, <1>RestoreRefresh DEF LoggedOut, Step, NoFlow, server, tab,
          RestoreRefresh, clearAll
<1>RestoreRefreshAborted. CASE RestoreRefreshAborted
    BY RefreshTypes, <1>RestoreRefreshAborted DEF LoggedOut, Step, NoFlow, server,
          tab, RestoreRefreshAborted, clearAll, StillAtServer
<1>RestoreAgain. CASE RestoreAgain
    BY <1>RestoreAgain DEF LoggedOut, RestoreAgain, server, Step, NoFlow, clearAll
<1>LoginMe. CASE LoginMe
    BY <1>LoginMe DEF LoggedOut, LoginMe, server, Step, NoFlow
<1>LogoutAborted. CASE LogoutAborted
    BY <1>LogoutAborted DEF LoggedOut, LogoutAborted, server
<1>Leave. CASE Leave
    BY <1>Leave DEF LoggedOut, Leave, server, Step, clearAll
<1>Left. CASE Left
    BY RefreshTypes, <1>Left DEF LoggedOut, Step, NoFlow, server, tab, Left, Load,
          StillAtServer
<1>Login. CASE Login
    BY <1>Login DEF LoggedOut, Login
<1>StartLogout. CASE StartLogout
    BY <1>StartLogout DEF LoggedOut, StartLogout, Step
<1>Reload. CASE Reload
    BY RefreshTypes, <1>Reload DEF LoggedOut, Step, NoFlow, server, tab, Reload,
          Load, StillAtServer, loggingOut
<1>Stutter. CASE UNCHANGED vars
    BY RefreshTypes, <1>Stutter DEF vars, server, tab,
          LoggedOut, Step, NoFlow, server, tab
<1> QED
    BY <1>Serve, <1>Receive, <1>Unauthorized, <1>Abort, <1>Send,
          <1>Expire, <1>FindRefreshToken, <1>Rotate, <1>Logout,
          <1>RefreshAnswered, <1>RefreshAborted, <1>RestoreMe, <1>RestoreRefresh,
          <1>RestoreRefreshAborted, <1>RestoreAgain, <1>LoginMe, <1>LogoutAborted,
          <1>Leave, <1>Left, <1>Login, <1>StartLogout, <1>Reload, <1>Stutter
       DEF Next, CallStep, SharedStep, FlowStep

\* A shared refresh is waited for by a call, and excludes a direct one.
LEMMA SharedNeedsACall ==
    ASSUME OneAtATime, shared.at # "none"
    PROVE  /\ user \/ flow.step = "leaving" \/ call["me"].at = "waiting"
           /\ direct.at = "none"
    BY DEF OneAtATime, Calls, InFlight

\* Every step keeps the pair refreshable or being replaced.
LEMMA KeptStep ==
    ASSUME TypeOK, OneAtATime, Kept, [Next]_vars
    PROVE  Kept'
<1>Serve. ASSUME NEW c \in Calls, Serve(c)
      PROVE  Kept'
    BY <1>Serve DEF Serve, Kept, Undisturbed, loggingOut, server, tab
<1>Receive. ASSUME NEW c \in Calls, Receive(c)
      PROVE  Kept'
    BY <1>Receive DEF Receive, Kept, Undisturbed, loggingOut, server, tab
<1>Unauthorized. ASSUME NEW c \in Calls, Unauthorized(c)
      PROVE  Kept'
  <2>1. UNCHANGED <<issued, live, stored, user, flow, direct, lost, out>>
    BY <1>Unauthorized DEF Unauthorized, server
  <2>2. \/ shared' = shared
        \/ shared.at = "none" /\ stored # NoPair /\ shared' = Refresh(stored)
    BY <1>Unauthorized DEF Unauthorized, JoinRefresh
  <2>3. shared' # shared => shared'.at = "sent" /\ shared'.pair = stored
    BY <2>2, RefreshTypes
  <2> QED
    BY <2>1, <2>2, <2>3 DEF Kept, Undisturbed, loggingOut
<1>Abort. ASSUME NEW c \in Calls, Abort(c)
      PROVE  Kept'
    BY <1>Abort DEF Abort, Kept, Undisturbed, loggingOut, server, tab
<1>Send. ASSUME NEW r \in Requests, Send(r)
      PROVE  Kept'
    BY <1>Send DEF Send, Kept, Undisturbed, loggingOut, server, tab
<1>Expire. ASSUME NEW p \in valid, Expire(p)
      PROVE  Kept'
    BY <1>Expire DEF Expire, Kept, Undisturbed, loggingOut, server, tab
<1>FindRefreshToken. CASE FindRefreshToken
  <2> SUFFICES ASSUME Undisturbed
               PROVE  Kept'
    BY <1>FindRefreshToken DEF FindRefreshToken, Kept, Undisturbed, loggingOut
  <2>1. \A f \in Refreshes : Looked(f).pair = f.pair
           /\ Looked(f).at = IF f.pair \in live THEN "checked" ELSE "denied"
    BY DEF Looked, Refreshes
  <2>2. UNCHANGED <<issued, live, stored, user, flow, lost, out>>
    BY <1>FindRefreshToken DEF FindRefreshToken, server
  <2>3. CASE shared.at = "sent" /\ shared' = Looked(shared) /\ direct' = direct
    <3>1. direct.at = "none" /\ shared.pair = stored /\ stored \in live
        BY <2>3, SharedNeedsACall DEF Kept
    <3>2. shared'.at = "checked" /\ shared'.pair = stored
        BY <2>1, <2>3, <3>1 DEF TypeOK
    <3> QED
        BY <2>2, <2>3, <3>1, <3>2 DEF Kept, Undisturbed, loggingOut
  <2>4. CASE direct.at = "sent" /\ direct' = Looked(direct) /\ shared' = shared
    <3>1. direct'.at # "ran"
        BY <2>1, <2>4 DEF TypeOK
    <3> QED
        BY <2>2, <2>4, <3>1 DEF Kept, Undisturbed, loggingOut
  <2>5. CASE UNCHANGED <<shared, direct>>
    BY <2>2, <2>5 DEF Kept, Undisturbed, loggingOut
  <2> QED
    BY <1>FindRefreshToken, <2>3, <2>4, <2>5 DEF FindRefreshToken
<1>Rotate. CASE Rotate
  <2> SUFFICES ASSUME Undisturbed
               PROVE  Kept'
    BY <1>Rotate DEF Rotate, Kept, Undisturbed, loggingOut
  <2>1. \A f \in Refreshes :
           Ran(f).at = "ran" /\ Ran(f).pair = f.pair /\ Ran(f).new = issued + 1
    BY DEF Ran, Refreshes
  <2>2. UNCHANGED <<stored, user, flow, lost, out>>
    BY <1>Rotate DEF Rotate
  <2>3. CASE shared.at = "checked" /\ shared' = Ran(shared) /\ Issue(shared.pair) /\ direct' = direct
    <3>1. direct.at = "none" /\ shared.pair = stored
        BY <2>3, SharedNeedsACall DEF Kept
    <3>2. shared'.at = "ran" /\ shared'.pair = stored /\ shared'.new \in live'
        BY <2>1, <2>3, <3>1 DEF TypeOK, Issue
    <3> QED
        BY <2>2, <2>3, <3>1, <3>2 DEF Kept, Undisturbed, loggingOut
  <2>4. CASE direct.at = "checked" /\ direct' = Ran(direct) /\ Issue(direct.pair) /\ shared' = shared
    <3>1. shared.at = "none" /\ stored \in {NoPair} \cup live
        BY <2>4, SharedNeedsACall DEF Kept
    <3>2. direct'.at = "ran" /\ direct'.pair = direct.pair /\ direct'.new \in live'
        BY <2>1, <2>4 DEF TypeOK, Issue
    <3>3. stored = direct.pair \/ stored \in {NoPair} \cup live'
        BY <2>4, <3>1 DEF Issue
    <3> QED
        BY <2>2, <2>4, <3>1, <3>2, <3>3 DEF Kept, Undisturbed, loggingOut
  <2> QED
    BY <1>Rotate, <2>3, <2>4 DEF Rotate, OneAtATime, Undisturbed
<1>Logout. CASE Logout
    BY <1>Logout DEF Logout, Step, Kept, Undisturbed, loggingOut
<1>RefreshAnswered. CASE RefreshAnswered
  <2> SUFFICES ASSUME Undisturbed
               PROVE  Kept'
    BY <1>RefreshAnswered DEF RefreshAnswered, Kept, Undisturbed, loggingOut
  <2>1. direct.at = "none" /\ shared.at = "ran" /\ shared.new \in live
    BY <1>RefreshAnswered, SharedNeedsACall DEF RefreshAnswered, Kept
  <2>2. stored' = shared.new /\ shared'.at = "none"
    BY <1>RefreshAnswered, RefreshTypes DEF RefreshAnswered, Settle
  <2>3. UNCHANGED <<live, user, flow, direct, lost, out>>
    BY <1>RefreshAnswered DEF RefreshAnswered, server
  <2>4. NoPair \notin live
    BY DEF TypeOK, NoPair
  <2> QED
    BY <2>1, <2>2, <2>3, <2>4 DEF Kept, Undisturbed, loggingOut
<1>RefreshAborted. CASE RefreshAborted
    BY <1>RefreshAborted DEF RefreshAborted, Kept, Undisturbed
<1>RestoreMe. CASE RestoreMe
  <2>1. shared.at = "none" /\ direct.at = "none"
    BY <1>RestoreMe, SharedNeedsACall DEF RestoreMe, OneAtATime, Ended
  <2>2. UNCHANGED <<live, stored, shared, lost, out>> /\ flow.step = "restoreMe"
    BY <1>RestoreMe DEF RestoreMe, server
  <2>3. direct'.at \in {"none", "sent"}
    BY <1>RestoreMe, <2>1, RefreshTypes DEF RestoreMe
  <2> QED
    BY <2>1, <2>2, <2>3 DEF Kept, Undisturbed, loggingOut
<1>RestoreRefresh. CASE RestoreRefresh
  <2>1. shared.at = "none" /\ direct.at \in {"ran", "denied"} /\ ~user
    BY <1>RestoreRefresh, SharedNeedsACall DEF RestoreRefresh, OneAtATime
  <2>2. UNCHANGED <<live, shared, lost, out>> /\ direct'.at = "none"
        /\ flow.step = "restoreRefresh"
    BY <1>RestoreRefresh, RefreshTypes DEF RestoreRefresh, server
  <2>3. CASE direct.at = "ran" /\ stored' = direct.new
    <3>1. NoPair \notin live
        BY DEF TypeOK, NoPair
    <3> QED
        BY <2>1, <2>2, <2>3, <3>1 DEF Kept, Undisturbed, loggingOut
  <2>4. CASE clearAll /\ flow' = NoFlow
    BY <2>1, <2>2, <2>4 DEF Kept, Undisturbed, loggingOut, clearAll, NoFlow, Step
  <2> QED
    BY <1>RestoreRefresh, <2>3, <2>4 DEF RestoreRefresh
<1>RestoreRefreshAborted. CASE RestoreRefreshAborted
    BY <1>RestoreRefreshAborted DEF RestoreRefreshAborted, Kept, Undisturbed
<1>RestoreAgain. CASE RestoreAgain
  <2>1. shared.at = "none" /\ direct.at = "none"
    BY <1>RestoreAgain, SharedNeedsACall DEF RestoreAgain, OneAtATime, Ended
  <2>2. UNCHANGED <<live, shared, direct, lost, out>> /\ flow.step = "restoreAgain"
        /\ flow'.step = "none"
    BY <1>RestoreAgain DEF RestoreAgain, server, NoFlow, Step
  <2>3. stored' = stored \/ (stored' = NoPair /\ ~user')
    BY <1>RestoreAgain DEF RestoreAgain, clearAll
  <2> QED
    BY <2>1, <2>2, <2>3 DEF Kept, Undisturbed, loggingOut
<1>LoginMe. CASE LoginMe
    BY <1>LoginMe DEF LoginMe, Kept, Undisturbed, loggingOut, server, NoFlow, Step
<1>LogoutAborted. CASE LogoutAborted
    BY <1>LogoutAborted DEF LogoutAborted, Kept, Undisturbed
<1>Leave. CASE Leave
    BY <1>Leave DEF Leave, Kept, Undisturbed
<1>Left. CASE Left
  <2> SUFFICES ASSUME Undisturbed'
               PROVE  Kept'
    BY DEF Kept
  <2>1. /\ shared.at = "none" /\ direct.at = "none" /\ shared'.at = "none" /\ direct'.at = "none"
        /\ UNCHANGED <<live, stored>> /\ ~user' /\ ~lost
        /\ flow'.step = IF stored = NoPair THEN "none" ELSE "restoreMe"
    BY <1>Left, RefreshTypes DEF Left, Load, Undisturbed, server, NoFlow, Step
  <2>2. Undisturbed
    BY <1>Left, <2>1 DEF Left, Undisturbed, loggingOut
  <2> QED
    BY <2>1, <2>2 DEF Kept
<1>Login. CASE Login
  <2> SUFFICES ASSUME Undisturbed'
               PROVE  Kept'
    BY DEF Kept
  <2>1. shared.at = "none" /\ direct.at = "none" /\ UNCHANGED <<shared, direct>>
    BY <1>Login, SharedNeedsACall DEF Login, OneAtATime
  <2>2. stored' = issued + 1 /\ issued + 1 \in live'
    BY <1>Login DEF Login, Undisturbed, Issue
  <2>3. stored' # NoPair
    BY <2>2 DEF TypeOK, NoPair
  <2> QED
    BY <2>1, <2>2, <2>3 DEF Kept
<1>StartLogout. CASE StartLogout
    BY <1>StartLogout DEF StartLogout, Step, Kept, Undisturbed, loggingOut
<1>Reload. CASE Reload
  <2> SUFFICES ASSUME Undisturbed'
               PROVE  Kept'
    BY DEF Kept
  <2>1. /\ shared.at = "none" /\ direct.at = "none" /\ shared'.at = "none" /\ direct'.at = "none"
        /\ UNCHANGED <<live, stored>> /\ ~user' /\ ~lost
        /\ flow'.step = IF stored = NoPair THEN "none" ELSE "restoreMe"
    BY <1>Reload, RefreshTypes DEF Reload, Load, Undisturbed, server, NoFlow, Step
  <2>2. Undisturbed
    BY <1>Reload, <2>1 DEF Reload, Undisturbed, loggingOut
  <2> QED
    BY <2>1, <2>2 DEF Kept
<1>Stutter. CASE UNCHANGED vars
    BY <1>Stutter DEF vars, server, tab, Kept,
          Undisturbed, loggingOut
<1> QED
    BY <1>Serve, <1>Receive, <1>Unauthorized, <1>Abort, <1>Send,
          <1>Expire, <1>FindRefreshToken, <1>Rotate, <1>Logout,
          <1>RefreshAnswered, <1>RefreshAborted, <1>RestoreMe, <1>RestoreRefresh,
          <1>RestoreRefreshAborted, <1>RestoreAgain, <1>LoginMe, <1>LogoutAborted,
          <1>Leave, <1>Left, <1>Login, <1>StartLogout, <1>Reload, <1>Stutter
       DEF Next, CallStep, SharedStep, FlowStep

-----------------------------------------------------------------------------
(* The theorems. *)

\* The invariant holds at the start.
LEMMA InitInv ==
    ASSUME Init
    PROVE  SessionInv
<1>1. TypeOK
  <2>1. Idle = [at |-> "idle", pair |-> NoPair, again |-> FALSE, runs |-> 0]
    BY DEF Idle
  <2>2. issued \in Nat /\ issued = stored /\ NoPair \in Pairs /\ stored \in Pairs
    BY DEF Init, Pairs, NoPair
  <2>3. Idle \in CallStates /\ FirstSent(stored) \in CallStates
    BY <2>1, <2>2, FirstSentIsACall DEF CallStates
  <2>4. call \in [Calls -> CallStates]
    BY <2>3 DEF Init
  <2>5. NoRefresh \in Refreshes
    BY <2>2 DEF NoRefresh, Refreshes
  <2>6. flow \in [step : {"none", "restoreMe"}, pair : Pairs]
    BY <2>2 DEF Init, NoFlow, Step
  <2>7. live \subseteq 1 .. issued /\ valid \subseteq 1 .. issued
    BY DEF Init, NoPair
  <2> QED
    BY <2>2, <2>4, <2>5, <2>6, <2>7 DEF Init, TypeOK
<1>2. \A r \in Requests : call[r] = Idle
    BY Bounds DEF Init, Calls
<1>3. RunOnce
    BY <1>1, <1>2, IdleIsACall DEF RunOnce
<1>4. OneAtATime
  <2>1. stored = NoPair => call["me"].at = "idle"
    BY <1>1, IdleIsACall DEF Init, Calls
  <2> QED
    BY <1>1, <1>2, <2>1, IdleIsACall, RefreshTypes
       DEF Init, OneAtATime, InFlight, Step
<1>5. LoggedOut
    BY DEF Init, LoggedOut
<1>6. Kept
    BY <1>1, RefreshTypes DEF Init, Kept, NoFlow, Step
<1> QED
    BY <1>1, <1>3, <1>4, <1>5, <1>6 DEF SessionInv

\* The invariant always holds.
LEMMA Always == Spec => []SessionInv
<1>1. SessionInv /\ [Next]_vars => SessionInv'
    BY TypeStep, RunStep, OneStep, OutStep, KeptStep DEF SessionInv
<1> QED
    BY <1>1, InitInv, PTL DEF Spec

\* The tab's state, the tokens of the server and the refreshes between them
\* stay well formed.
THEOREM SessionTypes == Spec => []TypeOK
<1>1. SessionInv => TypeOK
    BY DEF SessionInv
<1> QED
    BY <1>1, Always, PTL

\* The retry after a 401 never makes the server run a request a second time,
\* for any number of calls that share refreshes, time out and are reloaded.
THEOREM RunsOnce == Spec => []OneRunPerRequest
<1>1. SessionInv => OneRunPerRequest
    BY DEF SessionInv, RunOnce, OneRunPerRequest
<1> QED
    BY <1>1, Always, PTL

\* After a logout nothing signs the tab in again but a login, and a logout the
\* server accepted leaves no token that could.
THEOREM LogoutIsFinal == Spec => []LogoutLasts
<1>1. SessionInv => LogoutLasts
    BY DEF SessionInv, LoggedOut, LogoutLasts, loggingOut
<1> QED
    BY <1>1, Always, PTL

\* Rotation never costs a tab its session by itself: its calls share one
\* refresh, and the pair it stores can be refreshed or is being replaced.
THEOREM KeepsSession == Spec => []SessionKept
<1>1. SessionInv => SessionKept
    BY DEF SessionInv, Kept, Undisturbed, SessionKept
<1> QED
    BY <1>1, Always, PTL
=============================================================================
