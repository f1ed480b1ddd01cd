----------------------------- MODULE WebScreens -----------------------------
(***************************************************************************)
(* What every screen of the web client does around its data: a view that   *)
(* reads what the current selection (month, page, filter, record) asks for *)
(* and shows it, and a form that writes and brings the view up to date.    *)
(* The screens differ in a few choices, which their profiles record        *)
(* (WebProfiles); the machine runs any one screen against a server that    *)
(* runs, refuses or loses what it is sent, in any order.                   *)
(***************************************************************************)
EXTENDS WebProfiles, FiniteSets

CONSTANTS
    Screens,     \* the profiles: records with a view and a form
    Keys,        \* selections, and records a dialog can be opened for
    NoKey,
    MaxReads,    \* bound: how many reads are started
    MaxSubmits   \* bound: how many submits are made

(* A view that loads reads once at the start.                              *)
ASSUME Bounds == /\ MaxReads \in Nat \ {0} /\ MaxSubmits \in Nat
                 /\ Keys # {} /\ NoKey \notin Keys

(* The choices of WebProfiles that a step cannot do without.               *)
ASSUME Choices ==
    \A s \in Screens : /\ s.view.onError # {}
                       /\ s.view.onError \subseteq {"keep", "clear", "silent", "empty"}
                       /\ s.view.loads \in BOOLEAN
                       /\ s.form.ends \in {"close", "stay", "reopen"}
                       /\ s.form.calls \in
                            Seq([read : BOOLEAN, timeout : BOOLEAN, optional : BOOLEAN])

VARIABLES
    screen,    \* the screen that runs
    sel,       \* the current selection
    shown,     \* what is shown: of which selection, how new, by which read
    loading, error,  \* the view's spinner and its error message
    reads,     \* reads under way
    latest,    \* the number of the last read that was started
    dialog,    \* the record the form is open for, or NoKey
    busy,      \* the lock: the record whose submit set it, or NoKey
    submits,   \* submits under way
    version,   \* the server's data: how many writes it has run
    wrote,     \* the version of the last write of this screen that succeeded
    submitted, \* submits made so far
    history    \* what happened that some screens are not built for

view == screen.view
form == screen.form
viewVars == <<sel, shown, loading, error, reads, latest>>
formVars == <<dialog, busy, submits, wrote, submitted>>
vars == <<screen, viewVars, formVars, version, history>>

First == CHOOSE k \in Keys : TRUE
Nothing == [of |-> NoKey, ver |-> 0, id |-> 0]

(* history.overtaken: a read ended after a later one;                      *)
(* history.silent: a read failed without a message, and the newest read    *)
(*   has not come through since;                                           *)
(* history.patched: a patch fell between a read and its answer;            *)
(* history.dismissed: a dialog was closed while a submit was under way.    *)
Events == {"overtaken", "silent", "patched", "dismissed"}
Remember(what, when) == history' = [history EXCEPT ![what] = @ \/ when]

Room == latest + Cardinality(submits) < MaxReads

-----------------------------------------------------------------------------
(* The view. *)

Read(k) == [id |-> latest + 1, of |-> k, at |-> "sent", ver |-> 0]

(* Mutant of StartRead: the spinner is not started with the read. *)
StartReadQuietly(k) ==
    /\ reads' = reads \cup {Read(k)}
    /\ latest' = latest + 1
    /\ error' = FALSE
    /\ UNCHANGED loading

(* Mutant of StartRead: the counter is not counted up. *)
StartReadUncounted(k) ==
    /\ reads' = reads \cup {Read(k)}
    /\ loading' = TRUE
    /\ error' = FALSE
    /\ UNCHANGED latest

StartRead(k) ==
    /\ reads' = reads \cup {Read(k)}
    /\ latest' = latest + 1
    /\ loading' = TRUE
    /\ error' = FALSE

Select(k) ==
    /\ view.keyed /\ k # sel /\ dialog = NoKey /\ Room
    /\ sel' = k
    /\ StartRead(k)
    /\ UNCHANGED <<screen, shown, formVars, version, history>>

(* Another load of the screen takes the next number of a shared counter.   *)
OtherLoad ==
    /\ view.guard = "shared" /\ dialog = NoKey /\ Room
    /\ latest' = latest + 1
    /\ UNCHANGED <<screen, sel, shown, loading, error, reads, formVars, version, history>>

ServeRead(r) ==
    /\ r.at = "sent"
    /\ reads' = (reads \ {r}) \cup {[r EXCEPT !.at = "read", !.ver = version]}
    /\ UNCHANGED <<screen, sel, shown, loading, error, latest, formVars, version, history>>

(* Mutant of Taken: no answer is dropped. *)
TakenAlways(r) == TRUE

Taken(r) == view.guard = "none" \/ r.id = latest

(* A submit clears the lock at its end, but a flag that went with the dialog *)
(* it was made in is not that of the dialog that is open now.              *)
Unlock(ended) == busy' = IF \E s \in ended : ~s.gone THEN NoKey ELSE busy

(* The form of an "awaited" reload is free when that read has ended.       *)
AwaitsRead(s, r) == s.at = "reloading" /\ s.read = r.id
ReleaseForm(r) ==
    /\ submits' = {s \in submits : ~AwaitsRead(s, r)}
    /\ Unlock({s \in submits : AwaitsRead(s, r)})
    /\ UNCHANGED <<dialog, wrote, submitted>>

ReadAnswered(r) ==
    /\ r.at = "read"
    /\ reads' = reads \ {r}
    /\ IF Taken(r)
       THEN /\ shown' = [of |-> r.of, ver |-> r.ver, id |-> r.id]
            /\ loading' = FALSE
       ELSE UNCHANGED <<shown, loading>>
    /\ history' = [history EXCEPT !.overtaken = @ \/ (Taken(r) /\ r.id < shown.id),
                                  !.silent = @ /\ ~(Taken(r) /\ r.id = latest)]
    /\ ReleaseForm(r)
    /\ UNCHANGED <<screen, sel, error, latest, version>>

Told == {"keep", "clear"}
Emptied == {"clear", "empty"}

(* Mutant of ReadFailed: the spinner is left on. *)
ReadFailedSpinning(r) ==
    /\ reads' = reads \ {r}
    /\ error' = (error \/ view.onError \subseteq Told)
    /\ ReleaseForm(r)
    /\ UNCHANGED <<screen, sel, shown, loading, latest, version, history>>

(* An error of the server or the network, or the timeout of the fetch.     *)
ReadFailed(r) ==
    /\ reads' = reads \ {r}
    /\ IF Taken(r)
       THEN \E how \in view.onError :
              /\ loading' = FALSE
              /\ error' = (error \/ how \in Told)
              /\ shown' = IF how \in Emptied THEN [Nothing EXCEPT !.id = r.id] ELSE shown
              /\ history' = [history EXCEPT !.silent = @ \/ how \notin Told,
                                            !.overtaken = @ \/ r.id < shown.id]
       ELSE UNCHANGED <<error, loading, shown, history>>
    /\ ReleaseForm(r)
    /\ UNCHANGED <<screen, sel, latest, version>>

-----------------------------------------------------------------------------
(* The form: a dialog over the view, or a page of its own. *)

Open(k) ==
    /\ form.calls # <<>> /\ dialog = NoKey
    /\ Room /\ submitted < MaxSubmits
    /\ dialog' = k
    /\ IF form.lock = "dialog"
       THEN busy' = NoKey /\ submits' = {[s EXCEPT !.gone = TRUE] : s \in submits}
       ELSE UNCHANGED <<busy, submits>>
    /\ UNCHANGED <<screen, viewVars, version, wrote, submitted, history>>

(* Closing may reset the lock with the fields.  A submit that is under way *)
(* then stays in the screen and clears the flag of the next one at its end.*)
ResetLock == busy' = IF form.lock = "reset" THEN NoKey ELSE busy

(* Mutant of Dismiss: onClose does not ask whether a submit is under way. *)
DismissAnyway ==
    /\ dialog # NoKey
    /\ dialog' = NoKey /\ ResetLock
    /\ Remember("dismissed", submits # {})
    /\ UNCHANGED <<screen, viewVars, submits, version, wrote, submitted>>

(* Modal closes on Escape and on a click beside it unless onClose refuses. *)
Dismiss ==
    /\ dialog # NoKey
    /\ ~(form.held /\ busy # NoKey)
    /\ dialog' = NoKey /\ ResetLock
    /\ Remember("dismissed", submits # {})
    /\ UNCHANGED <<screen, viewVars, submits, version, wrote, submitted>>

(* Mutant of MaySubmit: the button is not disabled. *)
MaySubmitAgain == TRUE

MaySubmit ==
    CASE form.lock = "none" -> TRUE
      [] form.lock = "record" -> busy # dialog
      [] OTHER -> busy = NoKey

Submit ==
    /\ dialog # NoKey /\ MaySubmit
    /\ Room /\ submitted < MaxSubmits
    /\ busy' = dialog
    /\ submitted' = submitted + 1
    /\ submits' = submits \cup {[id |-> submitted + 1, of |-> dialog, sel |-> sel,
                                 step |-> 1, ran |-> 0, at |-> "sent", read |-> 0,
                                 gone |-> FALSE]}
    /\ UNCHANGED <<screen, viewVars, dialog, version, wrote, history>>

Becomes(s, t) == submits' = (submits \ {s}) \cup {t}

(* How often a call counts up the version of the data. *)
Writes(s) == IF form.calls[s.step].read THEN 0 ELSE 1

ServeWrite(s) ==
    /\ s.at = "sent"
    /\ \/ Becomes(s, [s EXCEPT !.at = "ran", !.ran = @ + 1]) /\ version' = version + Writes(s)
       \/ Becomes(s, [s EXCEPT !.at = "refused"]) /\ UNCHANGED version
    /\ UNCHANGED <<screen, viewVars, dialog, busy, wrote, submitted, history>>

(* The submit goes on after a call that ran, or whose failure it survives. *)
Survives(s) == form.calls[s.step].optional
GoesOn(s) == s.at = "ran" \/ (s.at = "refused" /\ Survives(s))

(* Mutant of LastStep: the first call decides. *)
FirstStep(s) == s.step = 1

LastStep(s) == s.step = Len(form.calls)

NextStep(s) ==
    /\ GoesOn(s) /\ ~LastStep(s)
    /\ Becomes(s, [s EXCEPT !.at = "sent", !.step = @ + 1])
    /\ UNCHANGED <<screen, viewVars, dialog, busy, version, wrote, submitted, history>>

(* Mutant of BringUpToDate: nothing is read again. *)
BringNothing(s) ==
    /\ submits' = submits \ {s} /\ Unlock({s})
    /\ UNCHANGED <<reads, latest, loading, error, shown>>

(* The reload was captured with the submit: it reads the selection of that *)
(* moment; a refresh is an event to the view, which reads the current one; *)
(* "first" reads the first page, whatever page is selected.                *)
BringUpToDate(s) ==
    \/ /\ form.after \in {"reload", "refresh", "first"}
       /\ StartRead(CASE form.after = "reload" -> s.sel
                      [] form.after = "refresh" -> sel
                      [] form.after = "first" -> First)
       /\ submits' = submits \ {s} /\ Unlock({s})
       /\ UNCHANGED shown
    \/ /\ form.after = "awaited"
       /\ StartRead(s.sel)
       /\ Becomes(s, [s EXCEPT !.at = "reloading", !.read = latest + 1])
       /\ UNCHANGED <<busy, shown>>
    \/ /\ form.after = "patch"
       /\ shown' = [shown EXCEPT !.ver = IF shown.of = s.sel THEN version ELSE @]
       /\ submits' = submits \ {s} /\ Unlock({s})
       /\ UNCHANGED <<reads, latest, loading, error>>
    \/ /\ form.after = "leave"
       /\ submits' = submits \ {s} /\ Unlock({s})
       /\ UNCHANGED <<reads, latest, loading, error, shown>>

(* A success closes whatever is open, leaves it, or opens its record again. *)
Ends(s) ==
    dialog' = CASE form.ends = "close" -> NoKey
                [] form.ends = "stay" -> dialog
                [] form.ends = "reopen" -> s.of

Succeeded(s) ==
    /\ GoesOn(s) /\ LastStep(s)
    /\ Ends(s)
    /\ wrote' = version
    /\ BringUpToDate(s)
    /\ history' = [history EXCEPT !.patched = @ \/ (form.after = "patch" /\ reads # {}),
                                  !.dismissed = @ \/ submits # {s}]
    /\ UNCHANGED <<screen, sel, version, submitted>>

(* An error leaves the dialog open with a message. *)
GiveUp(s) ==
    /\ submits' = submits \ {s}
    /\ Unlock({s})
    /\ UNCHANGED <<screen, viewVars, dialog, wrote, submitted>>

Refused(s) ==
    /\ s.at = "refused" /\ ~Survives(s)
    /\ GiveUp(s)
    /\ UNCHANGED <<version, history>>

(* The answer is lost or comes after the timeout: the server may have run  *)
(* the call, or may run it still.                                          *)
TimedOut(s) ==
    /\ s.at \in {"sent", "ran"}
    /\ \E late \in (IF s.at = "sent" THEN {0, 1} ELSE {0}) :
          /\ IF Survives(s)
             THEN /\ Becomes(s, [s EXCEPT !.at = "refused", !.ran = @ + late])
                  /\ UNCHANGED <<screen, viewVars, dialog, busy, wrote, submitted>>
             ELSE GiveUp(s)
          /\ version' = version + late * Writes(s)
    /\ UNCHANGED history

-----------------------------------------------------------------------------
Init ==
    /\ screen \in Screens
    /\ sel = First
    /\ shown = Nothing
    /\ error = FALSE
    /\ latest = IF view.loads THEN 1 ELSE 0
    /\ reads = {[id |-> i, of |-> sel, at |-> "sent", ver |-> 0] : i \in 1 .. latest}
    /\ loading = view.loads
    /\ dialog = NoKey /\ busy = NoKey /\ submits = {}
    /\ version = 0 /\ wrote = 0 /\ submitted = 0
    /\ history = [e \in Events |-> FALSE]

(* What must end ends: a fetch with a timeout, and what has its answer.    *)
ReadEnds == \E r \in reads : ReadAnswered(r) \/ (view.timed /\ ReadFailed(r))
TimesOut(s) == form.calls[s.step].timeout /\ TimedOut(s)
SubmitAdvances == \E s \in submits : NextStep(s) \/ Succeeded(s) \/ Refused(s) \/ TimesOut(s)

Next ==
    \/ \E k \in Keys : Select(k) \/ Open(k)
    \/ OtherLoad
    \/ \E r \in reads : ServeRead(r) \/ ReadAnswered(r) \/ ReadFailed(r)
    \/ Dismiss \/ Submit
    \/ \E s \in submits : \/ ServeWrite(s) \/ NextStep(s)
                          \/ Succeeded(s) \/ Refused(s) \/ TimedOut(s)

Fairness == WF_vars(ReadEnds) /\ WF_vars(SubmitAdvances)

Spec == Init /\ [][Next]_vars /\ Fairness

-----------------------------------------------------------------------------
(* Types; the numbers of reads and submits are unique. *)
TypeOK ==
    /\ sel \in Keys /\ dialog \in Keys \cup {NoKey} /\ busy \in Keys \cup {NoKey}
    /\ loading \in BOOLEAN /\ error \in BOOLEAN
    /\ shown \in [of : Keys \cup {NoKey}, ver : 0 .. version, id : 0 .. latest]
    /\ latest \in 0 .. MaxReads /\ submitted \in 0 .. MaxSubmits
    /\ version \in Nat /\ wrote \in 0 .. version
    /\ \A r \in reads : r \in [id : 1 .. latest, of : Keys, at : {"sent", "read"}, ver : 0 .. version]
    /\ \A s \in submits : s \in [id : 1 .. submitted, of : Keys, sel : Keys, step : 1 .. Len(form.calls), ran : 0 .. Len(form.calls),
                                 at : {"sent", "ran", "refused", "reloading"}, read : 0 .. latest,
                                 gone : BOOLEAN]
    /\ \A r, q \in reads : r.id = q.id => r = q
    /\ \A s, t \in submits : s.id = t.id => s = t
    /\ history \in [Events -> BOOLEAN]

AtRest == reads = {} /\ ~loading /\ ~error

(* At rest a view shows its current selection, however fast the user       *)
(* changes it and whatever writes fall in between - a view without a guard *)
(* only if no read was overtaken, one that swallows failures only once the *)
(* newest read came through, and none if a dialog was dismissed while its  *)
(* submit was under way, whose reload is of the selection of its day, or   *)
(* if an import reads the first page.                                      *)
ShownFollowsSelection ==
    AtRest /\ shown.of # NoKey /\ ~history.dismissed /\ ~history.silent
    /\ form.after # "first"
    /\ (view.guard = "none" => ~history.overtaken)
        => shown.of = sel

RowsRendered ==
    /\ shown.of # NoKey
    /\ view.rows # "always" => ~loading
    /\ view.rows = "clean" => ~error

(* A view with a guard never renders what another selection has shown as   *)
(* if it were this one's: it is loading then, or has a message.            *)
StaleRowsAreMarked ==
    RowsRendered /\ view.guard # "none" /\ ~history.dismissed /\ ~history.silent
    /\ form.after # "first"
        => shown.of = sel \/ loading \/ error

(* At rest a view shows what its own form has written, or a message that   *)
(* it cannot: the reload is not undone by an older answer, a patch only by *)
(* a read it fell into, and a list is not emptied by a failed reload       *)
(* without a message.  Excepted are the loaders that do swallow a failure, *)
(* until the newest read comes through: they show old rows, or none, as if *)
(* that were all (FundTransfers, RwTransfers, Notices, ProfileUser and     *)
(* IuranPaymentTotals).                                                    *)
OwnWriteShown ==
    AtRest /\ form.after # "leave" /\ ~history.silent
    /\ (view.guard = "none" => ~history.overtaken)
    /\ (form.after = "patch" => ~history.patched /\ shown.of = sel /\ ~history.dismissed)
        => shown.ver >= wrote

(* A form has its lock to itself if the lock outlives the dialog, or if the *)
(* dialog does not end before the submit does.                             *)
Exclusive ==
    \/ form.lock = "screen"
    \/ form.lock = "dialog" /\ form.held /\ form.after # "awaited"

(* Then two submits are never under way together while the screen stays    *)
(* mounted: neither double clicks nor a dialog that is opened again write  *)
(* twice.  A flag that starts anew with its dialog stops the double clicks *)
(* in each of them only: what was sent from a dialog or a page that was    *)
(* left, or under a flag that closing reset, may run beside the next one.  *)
OneSubmitAtATime ==
    /\ Exclusive => Cardinality(submits) <= 1
    /\ form.lock = "dialog" => Cardinality({s \in submits : ~s.gone}) <= 1

(* And if it is held, too, a success closes and opens no dialog but that   *)
(* of its submit: its answer never takes away what the user has opened     *)
(* since.                                                                  *)
ClosesItsOwnDialog ==
    [][\A s \in submits : Succeeded(s) /\ Exclusive /\ form.held => dialog = s.of]_vars

Required == Cardinality({i \in DOMAIN form.calls : ~form.calls[i].optional})

(* What a submit reports is what happened: success means that every step   *)
(* it needs ran, failure that not all did - unless the last answer was     *)
(* lost.  So a form of one call that reports a failure has written nothing *)
(* (a form of several may have: its earlier calls stay).                   *)
ToldTheTruth ==
    [][\A s \in submits : /\ Succeeded(s) => s.ran >= Required
                          /\ Refused(s) => s.ran < Len(form.calls)]_vars

(* Spinners end and forms come free again.  A view that shares its counter *)
(* is the exception, and so are calls without a timeout.                   *)
NothingHangs ==
    /\ (loading /\ view.timed /\ view.guard # "shared") ~> ~loading
    /\ (busy # NoKey /\ Timed(form.calls) /\ view.timed) ~> busy = NoKey
=============================================================================
