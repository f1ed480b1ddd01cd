-------------------------- MODULE WebScreensProofs --------------------------
(***************************************************************************)
(* Theorems about WebScreens, for every set of screens whatever choices    *)
(* their profiles make, any number of selections and any bounds: what a    *)
(* view shows when it is at rest, what a form's lock is worth, and what a  *)
(* form of several calls may report.                                       *)
(***************************************************************************)
EXTENDS WebScreens, FiniteSetTheorems, TLAPS

-----------------------------------------------------------------------------
(* The types the arguments need. *)

ReadRecord == [id : Nat, of : Keys, at : {"sent", "read"}, ver : Nat]
Stages == {"sent", "ran", "refused", "reloading"}
SubmitRecord ==
    [id : Nat, of : Keys, sel : Keys, step : Nat, ran : Nat, at : Stages, read : Nat, gone : BOOLEAN]

Typed ==
    /\ screen \in Screens
    /\ sel \in Keys /\ dialog \in Keys \cup {NoKey}
    /\ shown \in [of : Keys \cup {NoKey}, ver : Nat, id : Nat]
    /\ latest \in Nat /\ submitted \in Nat
    /\ version \in Nat /\ wrote \in Nat /\ wrote <= version
    /\ reads \subseteq ReadRecord /\ submits \subseteq SubmitRecord
    /\ history \in [Events -> BOOLEAN]

-----------------------------------------------------------------------------
(* The lock.  A form that has it to itself has one submit at most, whose   *)
(* lock is set, in the dialog it was made in.                              *)

Alone ==
    /\ \A s, t \in submits : s = t
    /\ \A s \in submits : ~s.gone
    /\ submits # {} => busy # NoKey
    /\ form.lock = "dialog" /\ submits # {} => dialog # NoKey
    /\ form.held => \A s \in submits : s.at # "reloading" => dialog = s.of

(* A lock that starts anew with its dialog has one submit of this dialog.  *)
Live == {s \in submits : ~s.gone}
AloneInDialog ==
    /\ \A s, t \in Live : s = t
    /\ Live # {} => busy # NoKey

LockInv == Exclusive => Alone
DialogInv == form.lock = "dialog" => AloneInDialog

-----------------------------------------------------------------------------
(* The view. *)

(* The numbers of reads are behind the counter.                            *)
Counted == \A r \in reads : r.id <= latest

(* While a submit is under way in its dialog nobody changes the selection. *)
Rides == \A s \in submits : s.at # "reloading" => s.sel = sel /\ dialog # NoKey
Steady == ~history.dismissed => Rides

(* Who has the last word on what is shown: without a guard the read that   *)
(* was started last, if no answer overtakes it; with one, whatever the     *)
(* spinner waits for.  A failure that came last is told or swallowed.      *)
LastWord(good) ==
    \/ error
    \/ history.silent
    \/ IF view.guard = "none"
       THEN (\E r \in reads : r.id = latest) \/ (shown.id = latest /\ good)
       ELSE loading \/ good

InOrder == view.guard = "none" => ~history.overtaken

Right == shown.of \in {sel, NoKey}
Followed == /\ \A r \in reads : r.id = latest => r.of = sel
            /\ LastWord(Right)

Follows == InOrder /\ ~history.dismissed /\ form.after # "first" => Followed

(* A patch counts where it is seen: on the selection it was made for.      *)
Fresh ==
    \/ shown.ver >= wrote
    \/ form.after = "patch" /\ shown.of # sel

Included == /\ \A r \in reads : r.id = latest /\ r.at = "read" => r.ver >= wrote
            /\ LastWord(Fresh)

PatchesInTime == form.after = "patch" => ~history.patched /\ ~history.dismissed
OwnWrites == InOrder /\ PatchesInTime /\ form.after # "leave" => Included

-----------------------------------------------------------------------------
(* The bounds.  A submit under way has room for the read it ends with.     *)

Pending == {s \in submits : s.at # "reloading"}
Reserved ==
    /\ IsFiniteSet(submits)
    /\ latest + Cardinality(Pending) <= MaxReads

OneEach(records) == \A r, q \in records : r.id = q.id => r = q

(* What is read or shown has a number and is not newer than the data.      *)
Numbered ==
    /\ loading \in BOOLEAN /\ error \in BOOLEAN
    /\ shown.id <= latest /\ shown.ver <= version
    /\ \A r \in reads : 1 <= r.id /\ r.ver <= version
    /\ OneEach(reads)

(* How far a submit is: which of the calls it needs have run, and whether  *)
(* the one it is at can have.                                              *)
Needed(s) == {i \in DOMAIN form.calls : /\ ~form.calls[i].optional
                                       /\ (i < s.step \/ (i = s.step /\ s.at = "ran"))}

OnTrack(s) ==
    /\ 1 <= s.id /\ s.id <= submitted
    /\ 1 <= s.step /\ s.step <= Len(form.calls)
    /\ s.ran <= s.step
    /\ (s.at = "sent" \/ (s.at = "refused" /\ ~Survives(s))) => s.ran < s.step
    /\ s.at # "reloading" => Cardinality(Needed(s)) <= s.ran
    /\ s.read <= latest

Advancing ==
    /\ busy \in Keys \cup {NoKey} /\ submitted <= MaxSubmits
    /\ dialog # NoKey => form.calls # <<>>
    /\ \A s \in submits : OnTrack(s)
    /\ OneEach(submits)

-----------------------------------------------------------------------------
(* Every step keeps the types. *)

\* A read is a well-formed record.
LEMMA ReadTyped ==
    ASSUME Typed, NEW k \in Keys
    PROVE  Read(k) \in ReadRecord
BY DEF Typed, Read, ReadRecord

\* Starting a read keeps the set of reads well formed.
LEMMA StartReadTyped ==
    ASSUME Typed, NEW k \in Keys, StartRead(k)
    PROVE  latest' \in Nat /\ reads' \subseteq ReadRecord
BY ReadTyped DEF Typed, StartRead

\* Recording an event keeps the history well formed.
LEMMA RememberTyped ==
    ASSUME Typed, NEW what \in Events, NEW when \in BOOLEAN, Remember(what, when)
    PROVE  history' \in [Events -> BOOLEAN]
BY DEF Typed, Remember

(* A submit that goes on is the same submit at another stage.              *)
Later(s, at) ==
    {t \in SubmitRecord : t.of = s.of /\ t.sel = s.sel /\ t.gone = s.gone /\ t.at = at}

\* A submit that moves on is a later state of itself.
LEMMA MovesOn ==
    ASSUME NEW s \in SubmitRecord, NEW at \in Stages, NEW n \in Nat
    PROVE  /\ [s EXCEPT !.at = at] \in Later(s, at)
           /\ [s EXCEPT !.at = at, !.step = n] \in Later(s, at)
           /\ [s EXCEPT !.at = at, !.ran = n] \in Later(s, at)
           /\ [s EXCEPT !.at = at, !.read = n] \in Later(s, at)
           /\ [s EXCEPT !.gone = TRUE] \in SubmitRecord
<1>1. [s EXCEPT !.at = at] \in Later(s, at)
  BY DEF SubmitRecord, Stages, Later
<1>2. [s EXCEPT !.at = at, !.step = n] \in Later(s, at)
  BY DEF SubmitRecord, Stages, Later
<1>3. [s EXCEPT !.at = at, !.ran = n] \in Later(s, at)
  BY DEF SubmitRecord, Stages, Later
<1>4. [s EXCEPT !.at = at, !.read = n] \in Later(s, at)
  BY DEF SubmitRecord, Stages, Later
<1>5. [s EXCEPT !.gone = TRUE] \in SubmitRecord
  BY DEF SubmitRecord
<1> QED
  BY <1>1, <1>2, <1>3, <1>4, <1>5

(* What the steps of a submit come to, its success apart.                  *)
Moves(s) ==
    /\ s.at # "reloading"
    /\ \E at \in Stages \ {"reloading"} : \E t \in Later(s, at) : Becomes(s, t)
    /\ UNCHANGED <<screen, viewVars, dialog, busy, wrote, submitted>>

\* A step of a submit moves it on or gives it up, and never takes data back.
LEMMA SubmitSteps ==
    ASSUME Typed, NEW s \in submits,
           ServeWrite(s) \/ NextStep(s) \/ Refused(s) \/ TimedOut(s)
    PROVE  /\ Moves(s) \/ GiveUp(s)
           /\ UNCHANGED history /\ version' \in Nat /\ version <= version'
<1>1. s \in SubmitRecord /\ s.ran \in Nat /\ s.step \in Nat /\ Writes(s) \in {0, 1}
  BY DEF Typed, SubmitRecord, Writes
<1>2. CASE ServeWrite(s)
  <2>1. s.ran + 1 \in Nat
    BY <1>1
  <2>2. /\ [s EXCEPT !.at = "ran", !.ran = @ + 1] \in Later(s, "ran")
        /\ [s EXCEPT !.at = "refused"] \in Later(s, "refused")
    BY <1>1, <2>1, MovesOn DEF Stages
  <2>3. version' \in Nat /\ version <= version'
    BY <1>1, <1>2 DEF ServeWrite, Typed
  <2>4. Moves(s)
    BY <1>2, <2>2 DEF ServeWrite, Moves, Stages
  <2> QED
    BY <1>2, <2>3, <2>4 DEF ServeWrite
<1>3. CASE NextStep(s)
  <2>1. s.step + 1 \in Nat
    BY <1>1
  <2>2. [s EXCEPT !.at = "sent", !.step = @ + 1] \in Later(s, "sent")
    BY <1>1, <2>1, MovesOn DEF Stages
  <2>3. Moves(s)
    BY <1>3, <2>2 DEF NextStep, GoesOn, Moves, Stages
  <2> QED
    BY <1>3, <2>3 DEF NextStep, Typed
<1>4. CASE Refused(s)
  BY <1>4 DEF Refused, Typed
<1>5. CASE TimedOut(s)
  <2>1. PICK late \in {0, 1} :
           /\ \/ /\ Becomes(s, [s EXCEPT !.at = "refused", !.ran = @ + late])
                 /\ UNCHANGED <<screen, viewVars, dialog, busy, wrote, submitted>>
              \/ GiveUp(s)
           /\ version' = version + late * Writes(s)
    BY <1>5 DEF TimedOut
  <2>2. s.ran + late \in Nat
    BY <1>1
  <2>3. [s EXCEPT !.at = "refused", !.ran = @ + late] \in Later(s, "refused")
    BY <1>1, <2>2, MovesOn DEF Stages
  <2>4. version' \in Nat /\ version <= version'
    BY <1>1, <2>1 DEF Typed
  <2>5. Moves(s) \/ GiveUp(s)
    BY <1>5, <2>1, <2>3 DEF TimedOut, Moves, Stages
  <2> QED
    BY <1>5, <2>4, <2>5 DEF TimedOut
<1> QED
  BY <1>2, <1>3, <1>4, <1>5

\* Bringing the view up to date keeps it well formed.
LEMMA UpToDateTyped ==
    ASSUME Typed, NEW s \in submits, BringUpToDate(s)
    PROVE  /\ latest' \in Nat /\ reads' \subseteq ReadRecord /\ submits' \subseteq SubmitRecord
           /\ shown' \in [of : Keys \cup {NoKey}, ver : Nat, id : Nat]
<1>1. s \in SubmitRecord /\ s.sel \in Keys /\ sel \in Keys /\ First \in Keys
  BY Bounds DEF Typed, SubmitRecord, First
<1>2. CASE form.after \in {"reload", "refresh", "first"} /\ submits' = submits \ {s} /\ UNCHANGED shown
           /\ \E k \in Keys : StartRead(k)
  BY <1>2, StartReadTyped DEF Typed
<1>3. CASE StartRead(s.sel) /\ Becomes(s, [s EXCEPT !.at = "reloading", !.read = latest + 1])
           /\ UNCHANGED shown
  <2>a. latest + 1 \in Nat
    BY DEF Typed
  <2>1. [s EXCEPT !.at = "reloading", !.read = latest + 1] \in Later(s, "reloading")
    BY <1>1, <2>a, MovesOn DEF Stages
  <2> QED
    BY <1>1, <1>3, <2>1, StartReadTyped DEF Typed, Becomes, Later
<1>4. CASE /\ shown' = [shown EXCEPT !.ver = IF shown.of = s.sel THEN version ELSE @]
           /\ submits' = submits \ {s} /\ UNCHANGED <<reads, latest>>
  BY <1>4 DEF Typed
<1>5. CASE submits' = submits \ {s} /\ UNCHANGED <<reads, latest, shown>>
  BY <1>5 DEF Typed
<1> QED
  BY <1>1, <1>2, <1>3, <1>4, <1>5 DEF BringUpToDate

\* Every step keeps the state well formed.
LEMMA TypedStep == Typed /\ [Next]_vars => Typed'
<1> SUFFICES ASSUME Typed, [Next]_vars PROVE Typed'
  OBVIOUS
<1>1. ASSUME NEW k \in Keys, Select(k) PROVE Typed'
  BY <1>1, StartReadTyped DEF Select, Typed, formVars
<1>2. ASSUME NEW k \in Keys, Open(k) PROVE Typed'
  <2>1. \A s \in submits : [s EXCEPT !.gone = TRUE] \in SubmitRecord
    BY DEF Typed, SubmitRecord
  <2>2. submits' \subseteq SubmitRecord
    BY <1>2, <2>1 DEF Open, Typed
  <2> QED
    BY <1>2, <2>2 DEF Open, Typed, viewVars
<1>3. CASE OtherLoad
  BY <1>3 DEF OtherLoad, Typed, formVars
<1>4. ASSUME NEW r \in reads, ServeRead(r) PROVE Typed'
  <2>1. [r EXCEPT !.at = "read", !.ver = version] \in ReadRecord
    BY DEF Typed, ReadRecord
  <2> QED
    BY <1>4, <2>1 DEF ServeRead, Typed, formVars
<1>5. ASSUME NEW r \in reads, ReadAnswered(r) PROVE Typed'
  <2>1. r \in ReadRecord
    BY DEF Typed
  <2>2. [of |-> r.of, ver |-> r.ver, id |-> r.id] \in [of : Keys \cup {NoKey}, ver : Nat, id : Nat]
    BY <2>1 DEF ReadRecord
  <2>3. history' \in [Events -> BOOLEAN]
    BY <1>5 DEF ReadAnswered, Remember, Typed
  <2> QED
    BY <1>5, <2>2, <2>3 DEF ReadAnswered, ReleaseForm, Typed
<1>6. ASSUME NEW r \in reads, ReadFailed(r) PROVE Typed'
  <2>1. r \in ReadRecord
    BY DEF Typed
  <2>2. [Nothing EXCEPT !.id = r.id] \in [of : Keys \cup {NoKey}, ver : Nat, id : Nat]
    BY <2>1 DEF ReadRecord, Nothing
  <2>3. history' \in [Events -> BOOLEAN]
    BY <1>6 DEF ReadFailed, Typed
  <2>4. shown' \in [of : Keys \cup {NoKey}, ver : Nat, id : Nat]
    BY <1>6, <2>2 DEF ReadFailed, Typed
  <2> QED
    BY <1>6, <2>3, <2>4 DEF ReadFailed, ReleaseForm, Typed
<1>7. CASE Dismiss
  <2>1. history' \in [Events -> BOOLEAN]
    BY <1>7 DEF Dismiss, Remember, Typed
  <2> QED
    BY <1>7, <2>1 DEF Dismiss, Typed, viewVars
<1>8. CASE Submit
  <2>1. [id |-> submitted + 1, of |-> dialog, sel |-> sel, step |-> 1, ran |-> 0,
         at |-> "sent", read |-> 0, gone |-> FALSE] \in SubmitRecord
    BY <1>8 DEF Submit, Typed, SubmitRecord, Stages
  <2>2. submits' \subseteq SubmitRecord
    BY <1>8, <2>1 DEF Submit, Typed
  <2> QED
    BY <1>8, <2>2 DEF Submit, Typed, viewVars
<1>9. ASSUME NEW s \in submits,
             ServeWrite(s) \/ NextStep(s) \/ Refused(s) \/ TimedOut(s)
      PROVE  Typed'
  <2>1. Moves(s) \/ GiveUp(s)
    BY <1>9, SubmitSteps
  <2>2. submits' \subseteq SubmitRecord
    BY <2>1 DEF Moves, GiveUp, Becomes, Later, Typed
  <2>3. UNCHANGED history /\ version' \in Nat /\ version <= version'
    BY <1>9, SubmitSteps
  <2>4. UNCHANGED <<screen, viewVars, dialog, wrote, submitted>>
    BY <2>1 DEF Moves, GiveUp
  <2> QED
    BY <2>2, <2>3, <2>4 DEF Typed, viewVars
<1>10. ASSUME NEW s \in submits, Succeeded(s) PROVE Typed'
  <2>1. history' \in [Events -> BOOLEAN]
    BY <1>10 DEF Succeeded, Typed
  <2>2. wrote' \in Nat /\ wrote' <= version'
    BY <1>10 DEF Succeeded, Typed
  <2>3. dialog' \in Keys \cup {NoKey}
    <3>1. s.of \in Keys
      BY DEF Typed, SubmitRecord
    <3>2. form.ends \in {"close", "stay", "reopen"}
      BY Choices DEF Typed, form
    <3> QED
      BY <1>10, <3>1, <3>2 DEF Succeeded, Ends, Typed
  <2> QED
    BY <1>10, <2>1, <2>2, <2>3, UpToDateTyped DEF Succeeded, Typed
<1>11. CASE UNCHANGED vars
  BY <1>11 DEF Typed, vars, viewVars, formVars
<1> QED
  BY <1>1, <1>2, <1>3, <1>4, <1>5, <1>6, <1>7, <1>8, <1>9, <1>10, <1>11 DEF Next

\* The state starts well formed.
LEMMA InitTyped == Init => Typed
BY Bounds DEF Init, Typed, First, Nothing, ReadRecord, SubmitRecord

-----------------------------------------------------------------------------
(* The lock. *)

\* Releasing the form keeps what is said of the lock.
LEMMA ReleaseKeepsLock ==
    ASSUME Typed, LockInv, NEW r, ReleaseForm(r), UNCHANGED screen
    PROVE  LockInv'
<1> SUFFICES ASSUME Exclusive' PROVE Alone'
  BY DEF LockInv
<1>1. Exclusive /\ Alone /\ form' = form
  BY DEF LockInv, Exclusive, form
<1>2. submits' = {} \/ (submits' = submits /\ busy' = busy)
  BY <1>1 DEF ReleaseForm, Unlock, Alone
<1> QED
  BY <1>1, <1>2 DEF ReleaseForm, Alone

\* Every step keeps what is said of the lock.
LEMMA LockStep == Typed /\ LockInv /\ [Next]_vars => LockInv'
<1> SUFFICES ASSUME Typed, LockInv, [Next]_vars, Exclusive' PROVE Alone'
  BY DEF LockInv
<1>0. screen' = screen
  BY DEF Next, vars, Select, Open, OtherLoad, ServeRead, ReadAnswered, ReadFailed, Dismiss,
         Submit, ServeWrite, NextStep, Succeeded, Refused, TimedOut, GiveUp
<1>a. Exclusive /\ form' = form /\ Alone
  BY <1>0 DEF LockInv, Exclusive, form
<1>b. NoKey \notin Keys
  BY Bounds
<1>1. ASSUME NEW k \in Keys, Select(k) PROVE Alone'
  BY <1>1, <1>a DEF Select, Alone, formVars
<1>2. ASSUME NEW k \in Keys, Open(k) PROVE Alone'
  <2>1. CASE form.lock = "dialog"
    BY <1>2, <1>a, <2>1 DEF Open, Alone
  <2>2. CASE form.lock # "dialog"
    <3>1. \A s \in submits : form.held => s.at = "reloading"
      BY <1>2, <1>a, <1>b DEF Open, Alone, Typed, SubmitRecord
    <3> QED
      BY <1>2, <1>a, <2>2, <3>1 DEF Open, Alone
  <2> QED
    BY <2>1, <2>2
<1>3. CASE OtherLoad
  BY <1>3, <1>a DEF OtherLoad, Alone, formVars
<1>4. ASSUME NEW r \in reads, ServeRead(r) PROVE Alone'
  BY <1>4, <1>a DEF ServeRead, Alone, formVars
<1>5. ASSUME NEW r \in reads, ReadAnswered(r) PROVE Alone'
  BY <1>5, <1>0, ReleaseKeepsLock DEF ReadAnswered, LockInv
<1>6. ASSUME NEW r \in reads, ReadFailed(r) PROVE Alone'
  BY <1>6, <1>0, ReleaseKeepsLock DEF ReadFailed, LockInv
<1>7. CASE Dismiss
  <2>0. busy' = busy
    BY <1>7, <1>a DEF Dismiss, ResetLock, Exclusive
  <2>1. CASE form.held
    BY <1>7, <1>a, <2>0, <2>1 DEF Dismiss, Alone
  <2>2. CASE ~form.held
    BY <1>7, <1>a, <2>0, <2>2 DEF Dismiss, Alone, Exclusive
  <2> QED
    BY <2>1, <2>2
<1>8. CASE Submit
  <2>1. submits = {}
    BY <1>8, <1>a DEF Submit, MaySubmit, Exclusive, Alone
  <2> QED
    BY <1>8, <1>a, <2>1 DEF Submit, Alone
<1>9. ASSUME NEW s \in submits,
             ServeWrite(s) \/ NextStep(s) \/ Refused(s) \/ TimedOut(s)
      PROVE  Alone'
  <2>1. CASE GiveUp(s)
    BY <1>a, <2>1 DEF GiveUp, Alone
  <2>2. CASE Moves(s)
    <3>1. PICK at \in Stages \ {"reloading"} : \E t \in Later(s, at) : Becomes(s, t)
      BY <2>2 DEF Moves
    <3>2. PICK t \in Later(s, at) : Becomes(s, t)
      BY <3>1
    <3> QED
      BY <1>a, <2>2, <3>2 DEF Moves, Becomes, Later, Alone
  <2> QED
    BY <1>9, <2>1, <2>2, SubmitSteps
<1>10. ASSUME NEW s \in submits, Succeeded(s) PROVE Alone'
  <2>1. CASE submits' = {}
    BY <2>1 DEF Alone
  <2>2. CASE /\ Becomes(s, [s EXCEPT !.at = "reloading", !.read = latest + 1])
             /\ UNCHANGED busy /\ form.after = "awaited"
    <3>1. s \in SubmitRecord /\ latest + 1 \in Nat
      BY DEF Typed
    <3>2. PICK t \in Later(s, "reloading") : submits' = {t}
      BY <1>a, <2>2, <3>1, MovesOn DEF Becomes, Alone, Stages
    <3> QED
      BY <1>a, <2>2, <3>2 DEF Later, Alone, Exclusive
  <2> QED
    BY <1>10, <1>a, <2>1, <2>2 DEF Succeeded, BringUpToDate, Alone
<1>11. CASE UNCHANGED vars
  BY <1>11, <1>a DEF Alone, vars, viewVars, formVars
<1> QED
  BY <1>1, <1>2, <1>3, <1>4, <1>5, <1>6, <1>7, <1>8, <1>9, <1>10, <1>11 DEF Next

\* What is said of the lock holds at the start.
LEMMA InitLocked == Init => LockInv /\ DialogInv
BY DEF Init, LockInv, Alone, DialogInv, AloneInDialog, Live

\* Ending submits keeps a dialog's lock: the flag is cleared with the one submit
\* that it stands for, and with no other.
LEMMA UnlockKeepsDialog ==
    ASSUME DialogInv, NEW ended, ended \subseteq submits, submits' = submits \ ended,
           Unlock(ended), UNCHANGED screen
    PROVE  DialogInv'
<1> SUFFICES ASSUME form.lock = "dialog" PROVE AloneInDialog'
  BY DEF DialogInv, form
<1>1. AloneInDialog
  BY DEF DialogInv
<1>2. Live' \subseteq Live
  BY DEF Live
<1>3. CASE \E s \in ended : ~s.gone
  <2>1. Live' = {}
    BY <1>1, <1>3 DEF AloneInDialog, Live
  <2> QED
    BY <2>1 DEF AloneInDialog
<1>4. CASE ~\E s \in ended : ~s.gone
  BY <1>1, <1>2, <1>4 DEF Unlock, AloneInDialog
<1> QED
  BY <1>3, <1>4

\* A submit that moves on is as much of its dialog as it was.
LEMMA MovingKeepsDialog ==
    ASSUME DialogInv, NEW s \in submits, NEW t, t.gone = s.gone, Becomes(s, t),
           UNCHANGED <<screen, busy>>
    PROVE  DialogInv'
<1> SUFFICES ASSUME form.lock = "dialog" PROVE AloneInDialog'
  BY DEF DialogInv, form
<1>1. AloneInDialog
  BY DEF DialogInv
<1>2. CASE s.gone
  <2>1. Live' = Live
    BY <1>2 DEF Live, Becomes
  <2> QED
    BY <1>1, <2>1 DEF AloneInDialog
<1>3. CASE ~s.gone
  <2>1. Live = {s} /\ busy # NoKey
    BY <1>1, <1>3 DEF AloneInDialog, Live
  <2>2. Live' \subseteq {t}
    BY <2>1 DEF Live, Becomes
  <2> QED
    BY <2>1, <2>2 DEF AloneInDialog
<1> QED
  BY <1>2, <1>3

\* Every step keeps a dialog's lock.
LEMMA DialogStep == Typed /\ DialogInv /\ [Next]_vars => DialogInv'
<1> SUFFICES ASSUME Typed, DialogInv, [Next]_vars PROVE DialogInv'
  OBVIOUS
<1>0. screen' = screen
  BY DEF Next, vars, Select, Open, OtherLoad, ServeRead, ReadAnswered, ReadFailed, Dismiss,
         Submit, ServeWrite, NextStep, Succeeded, Refused, TimedOut, GiveUp
<1>a. NoKey \notin Keys /\ form' = form
  BY <1>0, Bounds DEF form
<1>1. CASE UNCHANGED <<submits, busy>>
  BY <1>a, <1>1 DEF DialogInv, AloneInDialog, Live
<1>2. ASSUME NEW k \in Keys, Open(k) PROVE DialogInv'
  <2>1. CASE form.lock = "dialog"
    <3>1. \A s \in submits : [s EXCEPT !.gone = TRUE].gone
      BY DEF Typed, SubmitRecord
    <3>2. Live' = {}
      BY <1>2, <2>1, <3>1 DEF Open, Live
    <3> QED
      BY <3>2 DEF DialogInv, AloneInDialog
  <2>2. CASE form.lock # "dialog"
    BY <1>a, <2>2 DEF DialogInv
  <2> QED
    BY <2>1, <2>2
<1>3. ASSUME NEW r, ReleaseForm(r) PROVE DialogInv'
  <2>1. submits' = submits \ {s \in submits : AwaitsRead(s, r)}
    BY <1>3 DEF ReleaseForm
  <2> QED
    BY <1>0, <1>3, <2>1, UnlockKeepsDialog DEF ReleaseForm
<1>4. CASE Dismiss
  BY <1>a, <1>4 DEF Dismiss, ResetLock, DialogInv, AloneInDialog, Live
<1>5. CASE Submit
  <2> SUFFICES ASSUME form.lock = "dialog" PROVE AloneInDialog'
    BY <1>a DEF DialogInv
  <2>1. Live = {} /\ busy' # NoKey
    BY <1>5 DEF Submit, MaySubmit, DialogInv, AloneInDialog
  <2>2. PICK t : submits' = submits \cup {t}
    BY <1>5 DEF Submit
  <2>3. Live' \subseteq {t}
    BY <2>1, <2>2 DEF Live
  <2> QED
    BY <2>1, <2>3 DEF AloneInDialog
<1>6. ASSUME NEW s \in submits,
             ServeWrite(s) \/ NextStep(s) \/ Refused(s) \/ TimedOut(s)
      PROVE  DialogInv'
  <2>1. CASE GiveUp(s)
    BY <1>0, <2>1, UnlockKeepsDialog DEF GiveUp
  <2>2. CASE Moves(s)
    <3>1. PICK at \in Stages \ {"reloading"} : \E t \in Later(s, at) : Becomes(s, t)
      BY <2>2 DEF Moves
    <3>2. PICK t \in Later(s, at) : Becomes(s, t)
      BY <3>1
    <3> QED
      BY <1>0, <2>2, <3>2, MovingKeepsDialog DEF Moves, Later
  <2> QED
    BY <1>6, <2>1, <2>2, SubmitSteps
<1>7. ASSUME NEW s \in submits, Succeeded(s) PROVE DialogInv'
  <2>1. CASE submits' = submits \ {s} /\ Unlock({s})
    BY <1>0, <2>1, UnlockKeepsDialog
  <2>2. CASE Becomes(s, [s EXCEPT !.at = "reloading", !.read = latest + 1]) /\ UNCHANGED busy
    <3>1. [s EXCEPT !.at = "reloading", !.read = latest + 1].gone = s.gone
      BY DEF Typed, SubmitRecord
    <3> QED
      BY <1>0, <2>2, <3>1, MovingKeepsDialog
  <2> QED
    BY <1>7, <2>1, <2>2 DEF Succeeded, BringUpToDate
<1>8. ASSUME NEW k \in Keys, Select(k) PROVE DialogInv'
  BY <1>1, <1>8 DEF Select, formVars
<1>9. ASSUME NEW r \in reads, ServeRead(r) PROVE DialogInv'
  BY <1>1, <1>9 DEF ServeRead, formVars
<1>10. ASSUME NEW r \in reads, ReadAnswered(r) \/ ReadFailed(r) PROVE DialogInv'
  BY <1>3, <1>10 DEF ReadAnswered, ReadFailed
<1>11. CASE OtherLoad \/ UNCHANGED vars
  BY <1>1, <1>11 DEF OtherLoad, vars, formVars
<1> QED
  BY <1>2, <1>4, <1>5, <1>6, <1>7, <1>8, <1>9, <1>10, <1>11 DEF Next

\* A set whose elements are all the same has one at most.
LEMMA OneAtMost ==
    ASSUME NEW S, \A s, t \in S : s = t
    PROVE  Cardinality(S) <= 1
<1>1. S = {} \/ \E s : S = {s}
  OBVIOUS
<1>2. Cardinality(S) \in {0, 1}
  BY <1>1, FS_EmptySet, FS_Singleton
<1> QED
  BY <1>2

\* While a screen stays mounted it does not send a second write beside the first
\* if its flag outlives its dialogs, or its dialogs its submits; and if the flag
\* starts anew with the dialog, no dialog, and no visit to a page, does.  For
\* every such profile, and however dialogs are opened, dismissed and answered.
THEOREM OneSubmit == Spec => []OneSubmitAtATime
<1>1. LockInv /\ DialogInv => OneSubmitAtATime
  <2> SUFFICES ASSUME LockInv, DialogInv PROVE OneSubmitAtATime
    OBVIOUS
  <2>1. Exclusive => Cardinality(submits) <= 1
    BY OneAtMost DEF LockInv, Alone
  <2>2. form.lock = "dialog" => Cardinality({s \in submits : ~s.gone}) <= 1
    BY OneAtMost DEF DialogInv, AloneInDialog, Live
  <2> QED
    BY <2>1, <2>2 DEF OneSubmitAtATime
<1> QED
  BY <1>1, InitTyped, TypedStep, InitLocked, LockStep, DialogStep, PTL DEF Spec

\* The answer to a submit of a held form with a lock to itself never closes a
\* dialog that was opened for another record in the meantime.
THEOREM ClosesOwn == Spec => ClosesItsOwnDialog
<1>1. Typed /\ LockInv /\ [Next]_vars =>
          [\A s \in submits : Succeeded(s) /\ Exclusive /\ form.held => dialog = s.of]_vars
  BY DEF LockInv, Alone, Succeeded, GoesOn
<1> QED
  BY <1>1, InitTyped, TypedStep, InitLocked, LockStep, PTL DEF Spec, ClosesItsOwnDialog

-----------------------------------------------------------------------------
(* The view. *)

\* A screen keeps its profile.
LEMMA ScreenStays == [Next]_vars => UNCHANGED <<screen, view, form>>
BY DEF Next, vars, view, form, Select, Open, OtherLoad, ServeRead, ReadAnswered, ReadFailed,
       Dismiss, Submit, ServeWrite, NextStep, Succeeded, Refused, TimedOut, GiveUp

(* What is remembered stays remembered, a swallowed failure apart.         *)
LEMMA Remembered ==
    ASSUME Typed, [Next]_vars, NEW what \in Events \ {"silent"}, history[what]
    PROVE  history'[what]
BY SubmitSteps DEF Typed, Next, vars, Events, Remember, Select, Open, OtherLoad, ServeRead,
       ReadAnswered, ReadFailed, Dismiss, Submit, Succeeded

\* Every step keeps the read counter ahead of the reads.
LEMMA CountedStep == Typed /\ Counted /\ [Next]_vars => Counted'
<1> SUFFICES ASSUME Typed, Counted, [Next]_vars PROVE Counted'
  OBVIOUS
<1>0. UNCHANGED <<view, form>>
  BY ScreenStays
<1>1. ASSUME NEW k, StartRead(k) PROVE Counted'
  BY <1>0, <1>1 DEF StartRead, Read, Counted, Typed, ReadRecord
<1>2. CASE UNCHANGED <<reads, latest, error>>
  BY <1>0, <1>2 DEF Counted
<1>3. CASE OtherLoad
  BY <1>0, <1>3 DEF OtherLoad, Counted, Typed, ReadRecord
<1>4. ASSUME NEW r \in reads, ServeRead(r) PROVE Counted'
  <2>1. [r EXCEPT !.at = "read", !.ver = version].id = r.id
    BY DEF Typed, ReadRecord
  <2> QED
    BY <1>0, <1>4, <2>1 DEF ServeRead, Counted
<1>5. ASSUME NEW r \in reads, ReadAnswered(r) PROVE Counted'
  BY <1>0, <1>5 DEF ReadAnswered, Counted
<1>6. ASSUME NEW r \in reads, ReadFailed(r) PROVE Counted'
  BY <1>0, <1>6 DEF ReadFailed, Counted
<1>7. ASSUME NEW s \in submits, Succeeded(s) PROVE Counted'
  BY <1>1, <1>2, <1>7 DEF Succeeded, BringUpToDate
<1>8. ASSUME NEW s \in submits,
             ServeWrite(s) \/ NextStep(s) \/ Refused(s) \/ TimedOut(s)
      PROVE  Counted'
  BY <1>2, <1>8, SubmitSteps DEF Moves, GiveUp, viewVars
<1> QED
  BY <1>1, <1>2, <1>3, <1>4, <1>5, <1>6, <1>7, <1>8
     DEF Next, Select, Open, Dismiss, Submit, vars, viewVars

(* A submit in its dialog keeps the selection it was made with.            *)
LEMMA SteadyStep == Typed /\ Steady /\ [Next]_vars => Steady'
<1> SUFFICES ASSUME Typed, Steady, [Next]_vars, ~history'.dismissed PROVE Rides'
  BY DEF Steady
<1>0. NoKey \notin Keys /\ Rides
  BY Bounds, Remembered DEF Steady, Events
<1>1. ASSUME NEW k \in Keys, Select(k) PROVE Rides'
  BY <1>0, <1>1 DEF Select, Rides, formVars
<1>2. ASSUME NEW k \in Keys, Open(k) PROVE Rides'
  <2>1. \A s \in submits : s.at = "reloading"
    BY <1>0, <1>2 DEF Open, Rides
  <2>2. \A s \in submits : [s EXCEPT !.gone = TRUE].at = s.at
    BY DEF Typed, SubmitRecord
  <2>3. \A s \in submits' : s.at = "reloading"
    <3>1. submits' = submits \/ submits' = {[s EXCEPT !.gone = TRUE] : s \in submits}
      BY <1>2 DEF Open
    <3>2. \A s \in submits' : s \in submits \/ \E u \in submits : s = [u EXCEPT !.gone = TRUE]
      BY <3>1
    <3> QED
      BY <2>1, <2>2, <3>2
  <2> QED
    BY <2>3 DEF Rides
<1>3. CASE UNCHANGED <<submits, sel, dialog>>
  BY <1>0, <1>3 DEF Rides
<1>4. ASSUME NEW r, ReleaseForm(r), UNCHANGED sel PROVE Rides'
  BY <1>0, <1>4 DEF ReleaseForm, Rides
<1>5. CASE Dismiss
  <2>1. submits = {}
    BY <1>5 DEF Dismiss, Remember, Typed, Events
  <2> QED
    BY <1>5, <2>1 DEF Dismiss, Rides
<1>6. CASE Submit
  BY <1>0, <1>6 DEF Submit, Rides, viewVars
<1>7. ASSUME NEW s \in submits,
             ServeWrite(s) \/ NextStep(s) \/ Refused(s) \/ TimedOut(s)
      PROVE  Rides'
  <2>1. CASE GiveUp(s)
    BY <1>0, <2>1 DEF GiveUp, Rides, viewVars
  <2>2. CASE Moves(s)
    BY <1>0, <2>2 DEF Moves, Becomes, Later, Rides, viewVars
  <2> QED
    BY <1>7, <2>1, <2>2, SubmitSteps
<1>8. ASSUME NEW s \in submits, Succeeded(s) PROVE Rides'
  <2>1. submits = {s}
    BY <1>8 DEF Succeeded, Typed, Events
  <2>2. CASE submits' = {}
    BY <2>2 DEF Rides
  <2>3. CASE Becomes(s, [s EXCEPT !.at = "reloading", !.read = latest + 1])
    <3>1. [s EXCEPT !.at = "reloading", !.read = latest + 1].at = "reloading"
      BY DEF Typed, SubmitRecord
    <3> QED
      BY <2>1, <2>3, <3>1 DEF Becomes, Rides
  <2> QED
    BY <1>8, <2>1, <2>2, <2>3 DEF Succeeded, BringUpToDate
<1>9. CASE OtherLoad \/ UNCHANGED vars
  BY <1>3, <1>9 DEF OtherLoad, vars, viewVars, formVars
<1>10. ASSUME NEW r \in reads, ServeRead(r) PROVE Rides'
  BY <1>3, <1>10 DEF ServeRead, formVars
<1>11. ASSUME NEW r \in reads, ReadAnswered(r) \/ ReadFailed(r) PROVE Rides'
  BY <1>4, <1>11 DEF ReadAnswered, ReadFailed
<1> QED
  BY <1>1, <1>2, <1>5, <1>6, <1>7, <1>8, <1>9, <1>10, <1>11 DEF Next

\* Only the end of a read swallows a failure, or makes up for one.
LEMMA SilentStays ==
    ASSUME Typed, Dismiss \/ \E s \in submits : Succeeded(s)
    PROVE  history'.silent = history.silent
BY DEF Typed, Events, Remember, Dismiss, Succeeded

\* What an answer adds to what is remembered.
LEMMA AnswerRemembered ==
    ASSUME Typed, NEW r, ReadAnswered(r)
    PROVE  /\ history'.silent <=> (history.silent /\ ~(Taken(r) /\ r.id = latest))
           /\ history'.overtaken <=> (history.overtaken \/ (Taken(r) /\ r.id < shown.id))
<1>1. history' = [history EXCEPT !.overtaken = @ \/ (Taken(r) /\ r.id < shown.id),
                                 !.silent = @ /\ ~(Taken(r) /\ r.id = latest)]
  BY DEF ReadAnswered
<1> QED
  BY <1>1 DEF Typed, Events

\* What is in order after a step was in order before it.
LEMMA InOrderBefore == Typed /\ [Next]_vars /\ InOrder' => InOrder
BY Remembered, ScreenStays DEF InOrder, Events

\* Every step keeps the view following the selection.
LEMMA FollowsStep == Typed /\ Counted /\ Steady /\ Follows /\ [Next]_vars => Follows'
<1> SUFFICES ASSUME Typed, Counted, Steady, Follows, [Next]_vars,
                    InOrder', ~history'.dismissed, (form.after # "first")'
             PROVE  Followed'
  BY DEF Follows
<1>0. UNCHANGED <<view, form>> /\ form.after # "first"
  BY ScreenStays
<1>a. Followed /\ Rides
  BY <1>0, InOrderBefore, Remembered DEF Follows, Steady, Events
<1>1. ASSUME NEW k \in Keys, StartRead(k), k = sel' PROVE Followed'
  <2>1. Read(k).id = latest' /\ Read(k).of = sel' /\ Read(k) \in reads'
    BY <1>1 DEF StartRead, Read
  <2>2. \A q \in reads : q.id # latest'
    BY <1>1 DEF StartRead, Counted, Typed, ReadRecord
  <2>3. \A q \in reads' : q.id = latest' => q.of = sel'
    BY <1>1, <2>1, <2>2 DEF StartRead
  <2> QED
    BY <1>1, <2>1, <2>3 DEF StartRead, Followed, LastWord
<1>2. CASE UNCHANGED <<reads, latest, sel, loading, error, shown>> /\ history'.silent = history.silent
  BY <1>0, <1>2, <1>a DEF Followed, LastWord, Right
<1>3. CASE OtherLoad
  <2>1. \A q \in reads' : q.id # latest'
    BY <1>3 DEF OtherLoad, Counted, Typed, ReadRecord
  <2>2. LastWord(Right)'
    BY <1>0, <1>3, <1>a DEF OtherLoad, Followed, LastWord, Right
  <2> QED
    BY <2>1, <2>2 DEF Followed
<1>4. ASSUME NEW r \in reads, ServeRead(r) PROVE Followed'
  <2>1. /\ [r EXCEPT !.at = "read", !.ver = version].id = r.id
        /\ [r EXCEPT !.at = "read", !.ver = version].of = r.of
    BY DEF Typed, ReadRecord
  <2>2. \A q \in reads' : q.id = latest' => q.of = sel'
    BY <1>4, <1>a, <2>1 DEF ServeRead, Followed
  <2>3. (\E q \in reads : q.id = latest) => \E q \in reads' : q.id = latest'
    BY <1>4, <2>1 DEF ServeRead
  <2> QED
    BY <1>0, <1>4, <1>a, <2>2, <2>3 DEF ServeRead, Followed, LastWord, Right
<1>5. ASSUME NEW r \in reads, ReadAnswered(r) PROVE Followed'
  <2>1. \A q \in reads' : q.id = latest' => q.of = sel'
    BY <1>5, <1>a DEF ReadAnswered, Followed
  <2>2. CASE ~Taken(r)
    BY <1>0, <1>5, <1>a, <2>1, <2>2, AnswerRemembered
       DEF ReadAnswered, Followed, LastWord, Right, Taken
  <2>3. CASE r.id = latest
    BY <1>0, <1>5, <1>a, <2>1, <2>3 DEF ReadAnswered, Followed, LastWord, Right, Taken
  <2>4. CASE Taken(r) /\ r.id # latest
    <3>1. view.guard = "none"
      BY <2>4 DEF Taken
    <3>2. ~(r.id < shown.id)
      BY <1>0, <1>5, <2>4, <3>1, AnswerRemembered DEF InOrder
    <3>3. shown.id # latest
      BY <2>4, <3>2 DEF Counted, Typed, ReadRecord
    <3> QED
      BY <1>0, <1>5, <1>a, <2>1, <2>4, <3>1, <3>3, AnswerRemembered
         DEF ReadAnswered, Followed, LastWord
  <2> QED
    BY <2>2, <2>3, <2>4
<1>6. ASSUME NEW r \in reads, ReadFailed(r) PROVE Followed'
  <2>1. \A q \in reads' : q.id = latest' => q.of = sel'
    BY <1>6, <1>a DEF ReadFailed, Followed
  <2>2. CASE ~Taken(r)
    BY <1>0, <1>6, <1>a, <2>1, <2>2 DEF ReadFailed, Followed, LastWord, Right, Taken
  <2>3. CASE Taken(r)
    <3>1. PICK how \in view.onError :
             /\ error' = (error \/ how \in Told)
             /\ history' = [history EXCEPT !.silent = @ \/ how \notin Told,
                                           !.overtaken = @ \/ r.id < shown.id]
      BY <1>6, <2>3 DEF ReadFailed
    <3>2. error' \/ history'.silent
      BY <3>1 DEF Typed, Events
    <3> QED
      BY <2>1, <3>2 DEF Followed, LastWord
  <2> QED
    BY <2>2, <2>3
<1>7. ASSUME NEW s \in submits, Succeeded(s) PROVE Followed'
  <2>1. s.sel = sel /\ s.sel \in Keys
    BY <1>7, <1>a DEF Succeeded, GoesOn, Rides, Typed, SubmitRecord
  <2>2. CASE StartRead(sel)
    BY <1>1, <1>7, <2>1, <2>2 DEF Succeeded
  <2>3. CASE UNCHANGED <<reads, latest, loading, error, shown>>
    BY <1>2, <1>7, <2>3, SilentStays DEF Succeeded
  <2>4. CASE /\ shown' = [shown EXCEPT !.ver = IF shown.of = s.sel THEN version ELSE @]
             /\ UNCHANGED <<reads, latest, loading, error>>
    <3>1. shown'.of = shown.of /\ shown'.id = shown.id
      BY <2>4 DEF Typed
    <3> QED
      BY <1>0, <1>7, <1>a, <2>4, <3>1, SilentStays DEF Succeeded, Followed, LastWord, Right
  <2> QED
    BY <1>0, <1>7, <2>1, <2>2, <2>3, <2>4 DEF Succeeded, BringUpToDate
<1>8. ASSUME NEW s \in submits,
             ServeWrite(s) \/ NextStep(s) \/ Refused(s) \/ TimedOut(s)
      PROVE  Followed'
  BY <1>2, <1>8, SubmitSteps DEF Moves, GiveUp, viewVars
<1>9. ASSUME NEW k \in Keys, Select(k) PROVE Followed'
  BY <1>1, <1>9 DEF Select
<1>10. ASSUME (\E k \in Keys : Open(k)) \/ Dismiss \/ Submit \/ UNCHANGED vars PROVE Followed'
  BY <1>2, <1>10, SilentStays DEF Open, Dismiss, Submit, vars, viewVars
<1> QED
  BY <1>3, <1>4, <1>5, <1>6, <1>7, <1>8, <1>9, <1>10 DEF Next

\* Every step keeps the view including what its form wrote.
LEMMA OwnWritesStep == Typed /\ Counted /\ Steady /\ OwnWrites /\ [Next]_vars => OwnWrites'
<1> SUFFICES ASSUME Typed, Counted, Steady, OwnWrites, [Next]_vars,
                    InOrder', PatchesInTime', (form.after # "leave")'
             PROVE  Included'
  BY DEF OwnWrites
<1>0. UNCHANGED <<view, form>> /\ form.after # "leave"
  BY ScreenStays
<1>a. Included
  BY <1>0, InOrderBefore, Remembered DEF OwnWrites, PatchesInTime, Events
<1>1. ASSUME NEW k \in Keys, StartRead(k) PROVE Included'
  <2>1. Read(k).id = latest' /\ Read(k).at = "sent" /\ Read(k) \in reads'
    BY <1>1 DEF StartRead, Read
  <2>2. \A q \in reads : q.id # latest'
    BY <1>1 DEF StartRead, Counted, Typed, ReadRecord
  <2>3. \A q \in reads' : q.id = latest' /\ q.at = "read" => q.ver >= wrote'
    BY <1>1, <2>1, <2>2 DEF StartRead
  <2> QED
    BY <1>1, <2>1, <2>3 DEF StartRead, Included, LastWord
<1>2. CASE /\ UNCHANGED <<reads, latest, sel, loading, error, shown, wrote>>
           /\ history'.silent = history.silent
  BY <1>0, <1>2, <1>a DEF Included, LastWord, Fresh
<1>3. CASE OtherLoad
  <2>1. \A q \in reads' : q.id # latest'
    BY <1>3 DEF OtherLoad, Counted, Typed, ReadRecord
  <2>2. LastWord(Fresh)'
    BY <1>0, <1>3, <1>a DEF OtherLoad, Included, LastWord, Fresh, formVars
  <2> QED
    BY <2>1, <2>2 DEF Included
<1>4. ASSUME NEW r \in reads, ServeRead(r) PROVE Included'
  <2>1. /\ [r EXCEPT !.at = "read", !.ver = version].id = r.id
        /\ [r EXCEPT !.at = "read", !.ver = version].ver = version
    BY DEF Typed, ReadRecord
  <2>2. wrote' = wrote /\ version >= wrote
    BY <1>4 DEF ServeRead, Typed, formVars
  <2>3. \A q \in reads' : q.id = latest' /\ q.at = "read" => q.ver >= wrote'
    BY <1>4, <1>a, <2>1, <2>2 DEF ServeRead, Included
  <2>4. (\E q \in reads : q.id = latest) => \E q \in reads' : q.id = latest'
    BY <1>4, <2>1 DEF ServeRead
  <2> QED
    BY <1>0, <1>4, <1>a, <2>2, <2>3, <2>4 DEF ServeRead, Included, LastWord, Fresh
<1>5. ASSUME NEW r \in reads, ReadAnswered(r) PROVE Included'
  <2>0. UNCHANGED wrote
    BY <1>5 DEF ReadAnswered, ReleaseForm
  <2>1. \A q \in reads' : q.id = latest' /\ q.at = "read" => q.ver >= wrote'
    BY <1>5, <1>a, <2>0 DEF ReadAnswered, Included
  <2>2. CASE ~Taken(r)
    BY <1>0, <1>5, <1>a, <2>0, <2>1, <2>2, AnswerRemembered
       DEF ReadAnswered, Included, LastWord, Fresh, Taken
  <2>3. CASE r.id = latest
    <3>1. shown' = [of |-> r.of, ver |-> r.ver, id |-> r.id] /\ r.ver >= wrote
      BY <1>5, <1>a, <2>3 DEF ReadAnswered, Taken, Included
    <3>2. Fresh' /\ shown'.id = latest
      BY <2>0, <2>3, <3>1 DEF Fresh
    <3> QED
      BY <1>0, <1>5, <2>1, <3>2 DEF ReadAnswered, Included, LastWord
  <2>4. CASE Taken(r) /\ r.id # latest
    <3>1. view.guard = "none"
      BY <2>4 DEF Taken
    <3>2. ~(r.id < shown.id)
      BY <1>0, <1>5, <2>4, <3>1, AnswerRemembered DEF InOrder
    <3>3. shown.id # latest
      BY <2>4, <3>2 DEF Counted, Typed, ReadRecord
    <3> QED
      BY <1>0, <1>5, <1>a, <2>1, <2>4, <3>1, <3>3, AnswerRemembered
         DEF ReadAnswered, Included, LastWord
  <2> QED
    BY <2>2, <2>3, <2>4
<1>6. ASSUME NEW r \in reads, ReadFailed(r) PROVE Included'
  <2>0. UNCHANGED wrote
    BY <1>6 DEF ReadFailed, ReleaseForm
  <2>1. \A q \in reads' : q.id = latest' /\ q.at = "read" => q.ver >= wrote'
    BY <1>6, <1>a, <2>0 DEF ReadFailed, Included
  <2>2. CASE ~Taken(r)
    BY <1>0, <1>6, <1>a, <2>0, <2>1, <2>2 DEF ReadFailed, Included, LastWord, Fresh, Taken
  <2>3. CASE Taken(r)
    <3>1. PICK how \in view.onError :
             /\ error' = (error \/ how \in Told)
             /\ history' = [history EXCEPT !.silent = @ \/ how \notin Told,
                                           !.overtaken = @ \/ r.id < shown.id]
      BY <1>6, <2>3 DEF ReadFailed
    <3>2. error' \/ history'.silent
      BY <3>1 DEF Typed, Events
    <3> QED
      BY <2>1, <3>2 DEF Included, LastWord
  <2> QED
    BY <2>2, <2>3
<1>7. ASSUME NEW s \in submits, Succeeded(s) PROVE Included'
  <2>1. CASE \E k \in Keys : StartRead(k)
    BY <1>1, <2>1
  <2>2. CASE /\ form.after = "patch"
             /\ shown' = [shown EXCEPT !.ver = IF shown.of = s.sel THEN version ELSE @]
             /\ UNCHANGED <<reads, latest, loading, error>>
    <3>1. reads = {} /\ Rides /\ wrote' = version /\ sel' = sel
      BY <1>0, <1>7, <2>2, Remembered
         DEF Succeeded, PatchesInTime, Steady, Typed, Events
    <3>2. s.sel = sel /\ shown'.of = shown.of /\ shown'.id = shown.id
      BY <1>7, <2>2, <3>1 DEF Succeeded, GoesOn, Rides, Typed
    <3>3. Fresh'
      <4>1. CASE shown.of = sel
        <5>1. shown'.ver = version
          BY <2>2, <3>2, <4>1 DEF Typed
        <5> QED
          BY <3>1, <5>1 DEF Fresh, Typed
      <4>2. CASE shown.of # sel
        BY <1>0, <2>2, <3>1, <3>2, <4>2 DEF Fresh
      <4> QED
        BY <4>1, <4>2
    <3> QED
      BY <1>0, <1>7, <1>a, <2>2, <3>1, <3>2, <3>3, SilentStays DEF Included, LastWord
  <2>3. s.sel \in Keys /\ sel \in Keys /\ First \in Keys
    BY Bounds DEF Typed, SubmitRecord, First
  <2> QED
    BY <1>0, <1>7, <2>1, <2>2, <2>3 DEF Succeeded, BringUpToDate
<1>8. ASSUME NEW s \in submits,
             ServeWrite(s) \/ NextStep(s) \/ Refused(s) \/ TimedOut(s)
      PROVE  Included'
  BY <1>2, <1>8, SubmitSteps DEF Moves, GiveUp, viewVars
<1>9. ASSUME NEW k \in Keys, Select(k) PROVE Included'
  BY <1>1, <1>9 DEF Select
<1>10. ASSUME (\E k \in Keys : Open(k)) \/ Dismiss \/ Submit \/ UNCHANGED vars PROVE Included'
  BY <1>2, <1>10, SilentStays DEF Open, Dismiss, Submit, vars, viewVars, formVars
<1> QED
  BY <1>3, <1>4, <1>5, <1>6, <1>7, <1>8, <1>9, <1>10 DEF Next

\* What is said of the view holds at the start.
LEMMA InitShown == Init => Counted /\ Steady /\ Follows /\ OwnWrites
<1> SUFFICES ASSUME Init PROVE Counted /\ Steady /\ Followed /\ Included
  BY DEF Follows, OwnWrites
<1>1. Counted
  BY DEF Init, Counted
<1>2. Steady
  BY DEF Init, Steady, Rides
<1>3. (\E r \in reads : r.id = latest) \/ (latest = 0 /\ shown = Nothing)
  <2>1. CASE view.loads
    <3>1. [id |-> 1, of |-> sel, at |-> "sent", ver |-> 0] \in reads /\ latest = 1
      BY <2>1 DEF Init
    <3> QED
      BY <3>1
  <2>2. CASE ~view.loads
    BY <2>2 DEF Init
  <2> QED
    BY <2>1, <2>2
<1>4. \A r \in reads : r.of = sel /\ r.at = "sent"
  BY DEF Init
<1>5. shown.of = NoKey /\ shown.id = 0 /\ shown.ver = 0 /\ wrote = 0
  BY DEF Init, Nothing
<1> QED
  BY <1>1, <1>2, <1>3, <1>4, <1>5 DEF Followed, Included, LastWord, Right, Fresh

ShownInv == Typed /\ Counted /\ Steady /\ Follows /\ OwnWrites

\* What is said of the view always holds.
LEMMA AlwaysShown == Spec => []ShownInv
BY InitTyped, InitShown, TypedStep, CountedStep, SteadyStep, FollowsStep, OwnWritesStep, PTL
   DEF Spec, ShownInv

\* At rest every view shows the selection the user has made last, for every
\* profile and any number of reads answered in any order: the guards keep late
\* answers out, and where there is none only an overtaken read can do harm. A
\* loader that swallowed a failure does from its next read on that comes through.
THEOREM ShowsSelection == Spec => []ShownFollowsSelection
<1>1. ShownInv => ShownFollowsSelection
  BY DEF ShownInv, ShownFollowsSelection, AtRest, Follows, Followed, LastWord, Right, InOrder
<1> QED
  BY <1>1, AlwaysShown, PTL

\* No view with a guard renders the rows of another selection without its
\* spinner or its message.
THEOREM MarksStaleRows == Spec => []StaleRowsAreMarked
<1>1. ShownInv => StaleRowsAreMarked
  BY DEF ShownInv, StaleRowsAreMarked, RowsRendered, Follows, Followed, LastWord, Right, InOrder
<1> QED
  BY <1>1, AlwaysShown, PTL

\* At rest every view shows what its own form has written, or a message that it
\* cannot, whichever of the five ways its profile takes to bring it up to date;
\* a loader that swallowed a failure does so again from its next read on that
\* comes through, and no sooner.
THEOREM ShowsOwnWrites == Spec => []OwnWriteShown
<1>1. ShownInv => OwnWriteShown
  BY DEF ShownInv, OwnWriteShown, AtRest, OwnWrites, Included, LastWord, Fresh, InOrder,
         PatchesInTime
<1> QED
  BY <1>1, AlwaysShown, PTL
-----------------------------------------------------------------------------
(* The bounds. *)

\* The sequence of a form's calls is one.
LEMMA FormCalls ==
    ASSUME Typed
    PROVE  /\ Len(form.calls) \in Nat /\ DOMAIN form.calls = 1 .. Len(form.calls)
           /\ form.calls # <<>> => 1 <= Len(form.calls)
           /\ IsFiniteSet(DOMAIN form.calls)
<1>1. form.calls \in Seq([read : BOOLEAN, timeout : BOOLEAN, optional : BOOLEAN])
  BY Choices DEF Typed, form
<1>2. Len(form.calls) \in Nat /\ DOMAIN form.calls = 1 .. Len(form.calls)
  BY <1>1
<1>3. form.calls # <<>> => 1 <= Len(form.calls)
  BY <1>1
<1>4. 1 \in Int /\ Len(form.calls) \in Int
  BY <1>2
<1>5. IsFiniteSet(1 .. Len(form.calls))
  BY <1>4, FS_Interval
<1> QED
  BY <1>2, <1>3, <1>5

\* A set with an element more has one more at most.
LEMMA OneMore ==
    ASSUME NEW S, IsFiniteSet(S), NEW x
    PROVE  /\ IsFiniteSet(S \cup {x})
           /\ Cardinality(S \cup {x}) <= Cardinality(S) + 1
<1>1. Cardinality(S) \in Nat
  BY FS_CardinalityType
<1>2. IsFiniteSet(S \cup {x})
  BY FS_AddElement
<1>3. Cardinality(S \cup {x}) = IF x \in S THEN Cardinality(S) ELSE Cardinality(S) + 1
  BY FS_AddElement
<1>4. Cardinality(S \cup {x}) = Cardinality(S) \/ Cardinality(S \cup {x}) = Cardinality(S) + 1
  BY <1>3
<1> QED
  BY <1>1, <1>2, <1>4

\* A set with one element exchanged is not larger.
LEMMA Exchanged ==
    ASSUME NEW S, IsFiniteSet(S), NEW s \in S, NEW t, NEW T, T \subseteq (S \ {s}) \cup {t}
    PROVE  IsFiniteSet(T) /\ Cardinality(T) <= Cardinality(S)
<1> DEFINE R == S \ {s}
<1>1. IsFiniteSet(R) /\ Cardinality(R) = Cardinality(S) - 1 /\ Cardinality(S) \in Nat
  BY FS_RemoveElement, FS_CardinalityType
<1>2. Cardinality(R) \in Nat
  BY <1>1, FS_CardinalityType
<1> HIDE DEF R
<1>3. IsFiniteSet(R \cup {t}) /\ Cardinality(R \cup {t}) <= Cardinality(R) + 1
  BY <1>1, OneMore
<1>4. T \in SUBSET (R \cup {t})
  BY DEF R
<1>5. /\ IsFiniteSet(T) /\ Cardinality(T) <= Cardinality(R \cup {t})
      /\ Cardinality(T) \in Nat /\ Cardinality(R \cup {t}) \in Nat
  BY <1>3, <1>4, FS_Subset, FS_CardinalityType
<1> QED
  BY <1>1, <1>2, <1>3, <1>5

\* The submits that may still read are some of those under way.
LEMMA PendingCount ==
    ASSUME Reserved
    PROVE  /\ IsFiniteSet(Pending) /\ Cardinality(Pending) \in Nat /\ Cardinality(submits) \in Nat
           /\ Cardinality(Pending) <= Cardinality(submits)
<1>1. Pending \in SUBSET submits
  BY DEF Pending
<1> QED
  BY <1>1, FS_Subset, FS_CardinalityType DEF Reserved

\* With no more submits that may read, and no read started, the room is kept.
LEMMA NoneAdded ==
    ASSUME Typed, Reserved, IsFiniteSet(submits'), latest' = latest,
           IsFiniteSet(Pending'), Cardinality(Pending') <= Cardinality(Pending)
    PROVE  Reserved'
<1>1. Cardinality(Pending') \in Nat /\ Cardinality(Pending) \in Nat
  BY PendingCount, FS_CardinalityType
<1> QED
  BY <1>1, Bounds DEF Reserved, Typed

\* The same where the submits are some of those before.
LEMMA SomeLeft ==
    ASSUME Typed, Reserved, submits' \subseteq submits, latest' = latest
    PROVE  Reserved'
<1>1. submits' \in SUBSET submits /\ Pending' \in SUBSET Pending
  BY DEF Pending
<1>2. IsFiniteSet(submits') /\ IsFiniteSet(Pending') /\ Cardinality(Pending') <= Cardinality(Pending)
  BY <1>1, PendingCount, FS_Subset DEF Reserved
<1> QED
  BY <1>2, NoneAdded

\* The same where one submit was exchanged for another.
LEMMA OneExchanged ==
    ASSUME Typed, Reserved, NEW s \in Pending, NEW t, Becomes(s, t), latest' = latest
    PROVE  Reserved'
<1>1. submits' \subseteq (submits \ {s}) \cup {t} /\ Pending' \subseteq (Pending \ {s}) \cup {t}
  BY DEF Becomes, Pending
<1>2. s \in submits /\ IsFiniteSet(Pending) /\ IsFiniteSet(submits)
  BY PendingCount DEF Pending, Reserved
<1>3. IsFiniteSet(submits') /\ IsFiniteSet(Pending') /\ Cardinality(Pending') <= Cardinality(Pending)
  BY <1>1, <1>2, Exchanged
<1> QED
  BY <1>3, NoneAdded

\* A submit that ends with a read takes the room it had for it.
LEMMA RoomTaken ==
    ASSUME Typed, Reserved, NEW s \in Pending, IsFiniteSet(submits'),
           Pending' \subseteq Pending \ {s}, latest' \in {latest, latest + 1}
    PROVE  Reserved'
<1> DEFINE R == Pending \ {s}
<1>1. IsFiniteSet(Pending) /\ Cardinality(Pending) \in Nat
  BY PendingCount
<1>2. IsFiniteSet(R) /\ Cardinality(R) = Cardinality(Pending) - 1
  BY <1>1, FS_RemoveElement
<1>3. Pending' \in SUBSET R
  OBVIOUS
<1> HIDE DEF R
<1>4. Cardinality(Pending') <= Cardinality(R) /\ Cardinality(Pending') \in Nat
  BY <1>2, <1>3, FS_Subset, FS_CardinalityType
<1> QED
  BY <1>1, <1>2, <1>4, Bounds DEF Reserved, Typed

\* Every step keeps the room for the reads that submits end with.
LEMMA ReservedStep == Typed /\ Reserved /\ [Next]_vars => Reserved'
<1> SUFFICES ASSUME Typed, Reserved, [Next]_vars PROVE Reserved'
  OBVIOUS
<1>1. ASSUME Room, latest' = latest + 1, UNCHANGED submits PROVE Reserved'
  <2>1. Pending' = Pending
    BY <1>1 DEF Pending
  <2> QED
    BY <1>1, <2>1, PendingCount, Bounds DEF Room, Reserved, Typed
<1>2. ASSUME NEW k \in Keys, Select(k) PROVE Reserved'
  BY <1>1, <1>2 DEF Select, StartRead, formVars
<1>3. CASE OtherLoad
  BY <1>1, <1>3 DEF OtherLoad, formVars
<1>4. ASSUME NEW k \in Keys, Open(k) PROVE Reserved'
  <2>1. CASE submits' = submits
    BY <1>4, <2>1, SomeLeft DEF Open, viewVars
  <2>2. CASE submits' = {[s EXCEPT !.gone = TRUE] : s \in submits}
    <3> DEFINE left == [s \in submits |-> [s EXCEPT !.gone = TRUE]]
               wait == [s \in Pending |-> [s EXCEPT !.gone = TRUE]]
    <3>1. \A s \in submits : [s EXCEPT !.gone = TRUE].at = s.at
      BY DEF Typed, SubmitRecord
    <3>2. left \in Surjection(submits, submits')
      BY <2>2 DEF Surjection
    <3>3. Pending' = {[s EXCEPT !.gone = TRUE] : s \in Pending}
      <4>1. \A t : t \in submits' <=> \E s \in submits : t = [s EXCEPT !.gone = TRUE]
        BY <2>2
      <4>2. \A t : t \in Pending' <=> \E s \in Pending : t = [s EXCEPT !.gone = TRUE]
        BY <3>1, <4>1 DEF Pending
      <4> QED
        BY <4>2
    <3>4. wait \in Surjection(Pending, Pending')
      BY <3>3 DEF Surjection
    <3>5. IsFiniteSet(submits')
      BY <3>2, FS_Surjection DEF Reserved
    <3>6. IsFiniteSet(Pending') /\ Cardinality(Pending') <= Cardinality(Pending)
      BY <3>4, PendingCount, FS_Surjection
    <3> QED
      BY <1>4, <3>5, <3>6, NoneAdded DEF Open, viewVars
  <2> QED
    BY <1>4, <2>1, <2>2 DEF Open
<1>5. CASE UNCHANGED <<submits, latest>>
  BY <1>5, SomeLeft
<1>6. ASSUME NEW r \in reads, ReadAnswered(r) \/ ReadFailed(r) PROVE Reserved'
  BY <1>6, SomeLeft DEF ReadAnswered, ReadFailed, ReleaseForm
<1>7. CASE Submit
  <2>1. PICK t : submits' = submits \cup {t}
    BY <1>7 DEF Submit
  <2>2. Pending' \in SUBSET (Pending \cup {t})
    BY <2>1 DEF Pending
  <2>3. IsFiniteSet(submits') /\ IsFiniteSet(Pending \cup {t})
    BY <2>1, PendingCount, OneMore DEF Reserved
  <2>4. Cardinality(Pending \cup {t}) <= Cardinality(Pending) + 1
    BY PendingCount, OneMore
  <2>5. /\ Cardinality(Pending') <= Cardinality(Pending \cup {t})
        /\ Cardinality(Pending') \in Nat /\ Cardinality(Pending \cup {t}) \in Nat
    BY <2>2, <2>3, FS_Subset, FS_CardinalityType
  <2>6. latest' = latest /\ latest + Cardinality(submits) < MaxReads
    BY <1>7 DEF Submit, Room, viewVars
  <2> QED
    BY <2>3, <2>4, <2>5, <2>6, PendingCount, Bounds DEF Reserved, Typed
<1>8. ASSUME NEW s \in submits, ServeWrite(s) \/ NextStep(s) \/ Refused(s) \/ TimedOut(s)
      PROVE  Reserved'
  <2>1. CASE GiveUp(s)
    BY <2>1, SomeLeft DEF GiveUp, viewVars
  <2>2. CASE Moves(s)
    BY <2>2, OneExchanged DEF Moves, Pending, viewVars
  <2> QED
    BY <1>8, <2>1, <2>2, SubmitSteps
<1>9. ASSUME NEW s \in submits, Succeeded(s) PROVE Reserved'
  <2>1. s \in Pending
    BY <1>9 DEF Succeeded, GoesOn, Pending
  <2>2. latest' \in {latest, latest + 1}
    BY <1>9 DEF Succeeded, BringUpToDate, StartRead
  <2>3. CASE submits' = submits \ {s}
    <3>1. IsFiniteSet(submits')
      BY <2>3, FS_RemoveElement DEF Reserved
    <3> QED
      BY <2>1, <2>2, <2>3, <3>1, RoomTaken DEF Pending
  <2>4. CASE Becomes(s, [s EXCEPT !.at = "reloading", !.read = latest + 1])
    <3>1. [s EXCEPT !.at = "reloading", !.read = latest + 1].at = "reloading"
      BY DEF Typed, SubmitRecord
    <3>2. PICK t : Becomes(s, t) /\ t.at = "reloading"
      BY <2>4, <3>1
    <3>3. IsFiniteSet(submits')
      BY <3>2, Exchanged DEF Becomes, Reserved
    <3>4. Pending' \subseteq Pending \ {s}
      BY <3>2 DEF Becomes, Pending
    <3> QED
      BY <2>1, <2>2, <3>3, <3>4, RoomTaken
  <2> QED
    BY <1>9, <2>3, <2>4 DEF Succeeded, BringUpToDate
<1>10. ASSUME NEW r \in reads, ServeRead(r) PROVE Reserved'
  BY <1>5, <1>10 DEF ServeRead, formVars
<1>11. CASE Dismiss \/ UNCHANGED vars
  BY <1>5, <1>11 DEF Dismiss, vars, viewVars, formVars
<1> QED
  BY <1>2, <1>3, <1>4, <1>6, <1>7, <1>8, <1>9, <1>10, <1>11 DEF Next

\* Starting a read gives it a number of its own.
LEMMA NumbersRead ==
    ASSUME Typed, Counted, Numbered, NEW k \in Keys, StartRead(k),
           shown' = shown, version' = version
    PROVE  Numbered'
<1>1. Read(k).id = latest + 1 /\ Read(k).ver = 0
  BY DEF Read
<1>2. \A r \in reads : r.id # Read(k).id
  BY <1>1 DEF Counted, Typed, ReadRecord
<1>3. OneEach(reads)'
  BY <1>2 DEF StartRead, Numbered, OneEach
<1>4. \A r \in reads' : 1 <= r.id /\ r.ver <= version'
  BY <1>1 DEF StartRead, Numbered, Typed
<1>5. shown'.id <= latest' /\ shown'.ver <= version'
  BY DEF StartRead, Numbered, Typed
<1> QED
  BY <1>3, <1>4, <1>5 DEF StartRead, Numbered

\* Every step keeps the numbers of reads apart and nothing ahead of the data.
LEMMA NumberedStep == Typed /\ Counted /\ Numbered /\ [Next]_vars => Numbered'
<1> SUFFICES ASSUME Typed, Counted, Numbered, [Next]_vars PROVE Numbered'
  OBVIOUS
<1>1. CASE /\ UNCHANGED <<reads, latest, loading, error, shown>>
           /\ version' \in Nat /\ version <= version'
  <2>1. \A n \in Nat : n <= version => n <= version'
    BY <1>1 DEF Typed
  <2>2. shown'.ver <= version' /\ \A r \in reads' : r.ver <= version'
    BY <1>1, <2>1 DEF Numbered, Typed, ReadRecord
  <2> QED
    BY <1>1, <2>2 DEF Numbered, OneEach
<1>2. ASSUME NEW k \in Keys, Select(k) PROVE Numbered'
  BY <1>2, NumbersRead DEF Select
<1>3. CASE OtherLoad
  BY <1>3 DEF OtherLoad, Numbered, OneEach, Typed
<1>4. ASSUME NEW r \in reads, ServeRead(r) PROVE Numbered'
  <2> DEFINE q == [r EXCEPT !.at = "read", !.ver = version]
  <2>1. q.id = r.id /\ q.ver = version
    BY DEF Typed, ReadRecord
  <2>2. reads' = (reads \ {r}) \cup {q} /\ UNCHANGED <<shown, loading, error, latest, version>>
    BY <1>4 DEF ServeRead, formVars
  <2> HIDE DEF q
  <2>3. OneEach(reads)'
    BY <2>1, <2>2 DEF Numbered, OneEach
  <2>4. \A p \in reads' : 1 <= p.id /\ p.ver <= version'
    BY <2>1, <2>2 DEF Numbered, Typed
  <2> QED
    BY <2>2, <2>3, <2>4 DEF Numbered
<1>5. ASSUME NEW r \in reads, ReadAnswered(r) PROVE Numbered'
  <2>1. /\ [of |-> r.of, ver |-> r.ver, id |-> r.id].ver <= version
        /\ [of |-> r.of, ver |-> r.ver, id |-> r.id].id <= latest
    BY DEF Numbered, Counted
  <2>2. shown'.id <= latest' /\ shown'.ver <= version'
    BY <1>5, <2>1 DEF ReadAnswered, Numbered
  <2> QED
    BY <1>5, <2>2 DEF ReadAnswered, Numbered, OneEach
<1>6. ASSUME NEW r \in reads, ReadFailed(r) PROVE Numbered'
  <2>1. [Nothing EXCEPT !.id = r.id].ver <= version /\ [Nothing EXCEPT !.id = r.id].id <= latest
    BY DEF Nothing, Counted, Typed
  <2>2. shown'.id <= latest' /\ shown'.ver <= version'
    BY <1>6, <2>1 DEF ReadFailed, Numbered
  <2>3. error' \in BOOLEAN /\ loading' \in BOOLEAN
    <3>1. CASE Taken(r)
      <4>1. PICK how \in view.onError : error' = (error \/ how \in Told)
        BY <1>6, <3>1 DEF ReadFailed
      <4>2. loading' = FALSE
        BY <1>6, <3>1 DEF ReadFailed
      <4>3. error' \in BOOLEAN
        BY <4>1
      <4> QED
        BY <4>2, <4>3
    <3>2. CASE ~Taken(r)
      BY <1>6, <3>2 DEF ReadFailed, Numbered
    <3> QED
      BY <3>1, <3>2
  <2>4. OneEach(reads)' /\ \A q \in reads' : 1 <= q.id /\ q.ver <= version'
    BY <1>6 DEF ReadFailed, Numbered, OneEach
  <2> QED
    BY <2>2, <2>3, <2>4 DEF Numbered
<1>7. ASSUME NEW s \in submits, Succeeded(s) PROVE Numbered'
  <2>1. s.sel \in Keys /\ sel \in Keys /\ First \in Keys
    BY Bounds DEF Typed, SubmitRecord, First
  <2>2. version' = version
    BY <1>7 DEF Succeeded
  <2>3. CASE (\E k \in Keys : StartRead(k)) /\ shown' = shown
    BY <2>2, <2>3, NumbersRead
  <2>4. CASE UNCHANGED <<reads, latest, loading, error, shown>>
    BY <1>1, <2>2, <2>4 DEF Typed
  <2>5. CASE /\ shown' = [shown EXCEPT !.ver = IF shown.of = s.sel THEN version ELSE @]
             /\ UNCHANGED <<reads, latest, loading, error>>
    <3>1. shown'.id = shown.id /\ shown'.ver \in {version, shown.ver}
      BY <2>5 DEF Typed
    <3> QED
      BY <2>2, <2>5, <3>1 DEF Numbered, OneEach, Typed
  <2> QED
    BY <1>7, <2>1, <2>3, <2>4, <2>5 DEF Succeeded, BringUpToDate
<1>8. ASSUME NEW s \in submits, ServeWrite(s) \/ NextStep(s) \/ Refused(s) \/ TimedOut(s)
      PROVE  Numbered'
  BY <1>1, <1>8, SubmitSteps DEF Moves, GiveUp, viewVars
<1>9. ASSUME (\E k \in Keys : Open(k)) \/ Dismiss \/ Submit \/ UNCHANGED vars PROVE Numbered'
  BY <1>1, <1>9 DEF Open, Dismiss, Submit, vars, viewVars, Typed
<1> QED
  BY <1>2, <1>3, <1>4, <1>5, <1>6, <1>7, <1>8, <1>9 DEF Next

-----------------------------------------------------------------------------
(* How far submits are. *)

\* What is said of a submit outlasts reads that start and submits that are made.
LEMMA OnTrackStays ==
    ASSUME Typed, Typed', NEW s \in SubmitRecord, OnTrack(s), form' = form,
           submitted' >= submitted, latest' >= latest
    PROVE  OnTrack(s)'
<1>1. Needed(s)' = Needed(s) /\ Survives(s)' = Survives(s)
  BY DEF Needed, Survives
<1>2. s.id <= submitted' /\ s.read <= latest'
  BY DEF OnTrack, Typed, SubmitRecord
<1> QED
  BY <1>1, <1>2 DEF OnTrack

\* The calls a submit needs are some of those of the form.
LEMMA NeededCount ==
    ASSUME Typed, NEW s
    PROVE  IsFiniteSet(Needed(s)) /\ Cardinality(Needed(s)) \in Nat
<1>1. Needed(s) \in SUBSET DOMAIN form.calls
  BY DEF Needed
<1> QED
  BY <1>1, FormCalls, FS_Subset, FS_CardinalityType

\* Fewer calls are not more.
LEMMA NeedsNoMore ==
    ASSUME Typed, NEW s, NEW t, Needed(t) \subseteq Needed(s)
    PROVE  Cardinality(Needed(t)) <= Cardinality(Needed(s))
BY NeededCount, FS_Subset

\* A call that runs adds itself to those that have.
LEMMA NeedsOneMore ==
    ASSUME Typed, NEW s, NEW t, NEW i, Needed(t) \subseteq Needed(s) \cup {i}
    PROVE  Cardinality(Needed(t)) <= Cardinality(Needed(s)) + 1
<1>1. /\ IsFiniteSet(Needed(s) \cup {i})
      /\ Cardinality(Needed(s) \cup {i}) <= Cardinality(Needed(s)) + 1
  BY NeededCount, OneMore
<1>2. /\ Cardinality(Needed(t)) <= Cardinality(Needed(s) \cup {i})
      /\ Cardinality(Needed(s) \cup {i}) \in Nat
  BY <1>1, FS_Subset, FS_CardinalityType
<1> QED
  BY <1>1, <1>2, NeededCount

(* The same submit, with calls still to make or to answer.                 *)
SameAs(s, t) == t.id = s.id /\ t.read = s.read /\ s.at # "reloading" /\ t.at # "reloading"

\* A step of a submit leaves it on its track.
LEMMA StaysOnTrack ==
    ASSUME Typed, NEW s \in submits, OnTrack(s),
           ServeWrite(s) \/ NextStep(s) \/ Refused(s) \/ TimedOut(s)
    PROVE  \/ GiveUp(s)
           \/ busy' = busy /\ \E t : Becomes(s, t) /\ SameAs(s, t) /\ OnTrack(t)
<1>1. s \in SubmitRecord /\ s.ran \in Nat /\ s.step \in Nat
  BY DEF Typed, SubmitRecord
<1>2. Len(form.calls) \in Nat
  BY FormCalls
<1>3. Cardinality(Needed(s)) \in Nat
  BY NeededCount
<1>4. ASSUME NEW t, Becomes(s, t), SameAs(s, t), t.step = s.step, t.ran \in Nat, busy' = busy,
             \/ t.at = "ran" /\ s.at = "sent" /\ t.ran = s.ran + 1
             \/ t.at = "refused" /\ s.at = "sent" /\ t.ran = s.ran
             \/ /\ t.at = "refused" /\ Survives(s)
                /\ t.ran = s.ran \/ (t.ran = s.ran + 1 /\ s.at = "sent")
      PROVE  busy' = busy /\ \E u : Becomes(s, u) /\ SameAs(s, u) /\ OnTrack(u)
  <2>1. Survives(t) = Survives(s)
    BY <1>4 DEF Survives
  <2>2. Cardinality(Needed(t)) \in Nat
    BY NeededCount
  <2>3. Cardinality(Needed(t)) <= t.ran
    <3>1. CASE t.at = "ran"
      <4>1. Needed(t) \subseteq Needed(s) \cup {s.step}
        BY <1>4, <3>1 DEF Needed
      <4>2. Cardinality(Needed(t)) <= Cardinality(Needed(s)) + 1
        BY <4>1, NeedsOneMore
      <4>3. Cardinality(Needed(s)) <= s.ran /\ t.ran = s.ran + 1
        BY <1>4, <3>1 DEF OnTrack, SameAs
      <4> QED
        BY <1>1, <1>3, <2>2, <4>2, <4>3
    <3>2. CASE t.at = "refused"
      <4>1. Needed(t) \subseteq Needed(s)
        BY <1>4, <3>2 DEF Needed
      <4>2. Cardinality(Needed(t)) <= Cardinality(Needed(s))
        BY <4>1, NeedsNoMore
      <4>3. Cardinality(Needed(s)) <= s.ran /\ s.ran <= t.ran
        BY <1>1, <1>4, <3>2 DEF OnTrack, SameAs
      <4> QED
        BY <1>1, <1>3, <1>4, <2>2, <4>2, <4>3
    <3> QED
      BY <1>4, <3>1, <3>2
  <2>4. t.ran <= t.step
    BY <1>1, <1>4 DEF OnTrack
  <2>5. t.at = "sent" \/ (t.at = "refused" /\ ~Survives(t)) => t.ran < t.step
    BY <1>1, <1>4, <2>1 DEF OnTrack
  <2>6. OnTrack(t)
    BY <1>4, <2>3, <2>4, <2>5 DEF OnTrack, SameAs
  <2> QED
    BY <1>4, <2>6
<1>5. CASE ServeWrite(s)
  <2>1. CASE Becomes(s, [s EXCEPT !.at = "ran", !.ran = @ + 1])
    <3> DEFINE t == [s EXCEPT !.at = "ran", !.ran = @ + 1]
    <3>1. /\ t.id = s.id /\ t.read = s.read /\ t.step = s.step
          /\ t.at = "ran" /\ t.ran = s.ran + 1
      BY <1>1 DEF SubmitRecord
    <3>2. s.ran + 1 \in Nat /\ s.at = "sent" /\ busy' = busy
      BY <1>1, <1>5 DEF ServeWrite
    <3> HIDE DEF t
    <3>3. SameAs(s, t)
      BY <3>1, <3>2 DEF SameAs
    <3>4. Becomes(s, t)
      BY <2>1 DEF t
    <3> QED
      BY <1>4, <3>1, <3>2, <3>3, <3>4
  <2>2. CASE Becomes(s, [s EXCEPT !.at = "refused"])
    <3> DEFINE t == [s EXCEPT !.at = "refused"]
    <3>1. /\ t.id = s.id /\ t.read = s.read /\ t.step = s.step
          /\ t.at = "refused" /\ t.ran = s.ran
      BY <1>1 DEF SubmitRecord
    <3>2. s.at = "sent" /\ busy' = busy
      BY <1>5 DEF ServeWrite
    <3> HIDE DEF t
    <3>3. SameAs(s, t)
      BY <3>1, <3>2 DEF SameAs
    <3>4. Becomes(s, t)
      BY <2>2 DEF t
    <3> QED
      BY <1>1, <1>4, <3>1, <3>2, <3>3, <3>4
  <2> QED
    BY <1>5, <2>1, <2>2 DEF ServeWrite
<1>6. CASE NextStep(s)
  <2> DEFINE t == [s EXCEPT !.at = "sent", !.step = @ + 1]
  <2>1. /\ t.id = s.id /\ t.read = s.read /\ t.step = s.step + 1
        /\ t.at = "sent" /\ t.ran = s.ran
    BY <1>1 DEF SubmitRecord
  <2>2. Becomes(s, t) /\ busy' = busy
    BY <1>6 DEF NextStep
  <2>3. GoesOn(s) /\ s.step # Len(form.calls) /\ s.at \in {"ran", "refused"}
    BY <1>6 DEF NextStep, GoesOn, LastStep
  <2> HIDE DEF t
  <2>4. SameAs(s, t)
    BY <2>1, <2>3 DEF SameAs
  <2>5. Needed(t) \subseteq Needed(s)
    <3> SUFFICES ASSUME NEW i \in DOMAIN form.calls, ~form.calls[i].optional, i < s.step + 1
                 PROVE  i < s.step \/ (i = s.step /\ s.at = "ran")
      BY <2>1 DEF Needed
    <3>1. i \in Nat
      BY FormCalls
    <3>2. i < s.step \/ i = s.step
      BY <1>1, <3>1
    <3>3. i = s.step => s.at = "ran"
      BY <2>3 DEF GoesOn, Survives
    <3> QED
      BY <3>2, <3>3
  <2>6. Cardinality(Needed(t)) <= s.ran
    BY <1>1, <1>3, <2>3, <2>5, NeedsNoMore, NeededCount DEF OnTrack
  <2>7. s.step + 1 <= Len(form.calls) /\ 1 <= s.step + 1 /\ s.ran < s.step + 1 /\ s.ran <= s.step + 1
    BY <1>1, <1>2, <2>3 DEF OnTrack
  <2>8. OnTrack(t)
    BY <2>1, <2>6, <2>7 DEF OnTrack
  <2> QED
    BY <2>2, <2>4, <2>8
<1>7. CASE Refused(s)
  BY <1>7 DEF Refused
<1>8. CASE TimedOut(s)
  <2>1. PICK late \in (IF s.at = "sent" THEN {0, 1} ELSE {0}) :
           \/ /\ Survives(s)
              /\ Becomes(s, [s EXCEPT !.at = "refused", !.ran = @ + late])
              /\ busy' = busy
           \/ GiveUp(s)
    BY <1>8 DEF TimedOut
  <2>2. CASE /\ Survives(s)
             /\ Becomes(s, [s EXCEPT !.at = "refused", !.ran = @ + late])
             /\ busy' = busy
    <3> DEFINE t == [s EXCEPT !.at = "refused", !.ran = @ + late]
    <3>1. /\ t.id = s.id /\ t.read = s.read /\ t.step = s.step
          /\ t.at = "refused" /\ t.ran = s.ran + late
      BY <1>1 DEF SubmitRecord
    <3>2. s.at \in {"sent", "ran"} /\ late \in {0, 1} /\ (late = 1 => s.at = "sent")
      <4>1. s.at \in {"sent", "ran"}
        BY <1>8 DEF TimedOut
      <4>2. CASE s.at = "sent"
        BY <2>1, <4>2
      <4>3. CASE s.at # "sent"
        BY <2>1, <4>1, <4>3
      <4> QED
        BY <4>1, <4>2, <4>3
    <3> HIDE DEF t
    <3>3. SameAs(s, t)
      BY <3>1, <3>2 DEF SameAs
    <3>4. Becomes(s, t)
      BY <2>2 DEF t
    <3>5. t.ran \in Nat /\ (t.ran = s.ran \/ (t.ran = s.ran + 1 /\ s.at = "sent"))
      BY <1>1, <3>1, <3>2
    <3> QED
      BY <1>4, <2>2, <3>1, <3>3, <3>4, <3>5
  <2> QED
    BY <2>1, <2>2
<1> QED
  BY <1>5, <1>6, <1>7, <1>8

\* Bringing the view up to date starts a read at most.
LEMMA StartsOne ==
    ASSUME Typed, NEW s \in submits, Succeeded(s)
    PROVE  latest <= latest' /\ latest \in Nat /\ latest' \in Nat /\ UNCHANGED <<submitted, form>>
<1>1. latest \in Nat
  BY DEF Typed
<1>2. latest' = latest \/ latest' = latest + 1
  BY DEF Succeeded, BringUpToDate, StartRead
<1>3. latest <= latest' /\ latest' \in Nat
  BY <1>1, <1>2
<1> QED
  BY <1>1, <1>3 DEF Succeeded, form

\* Every step keeps submits on their tracks.
LEMMA AdvancingStep == Typed /\ Typed' /\ Advancing /\ [Next]_vars => Advancing'
<1> SUFFICES ASSUME Typed, Typed', Advancing, [Next]_vars PROVE Advancing'
  OBVIOUS
<1>0. /\ form' = form
      /\ \A s \in submits : s \in SubmitRecord /\ OnTrack(s)
      /\ submitted \in Nat /\ latest \in Nat /\ NoKey \notin Keys
  BY ScreenStays, Bounds DEF Typed, Advancing
<1>1. ASSUME busy' \in Keys \cup {NoKey}, dialog' \in {dialog, NoKey}, UNCHANGED submitted,
             latest' >= latest, submits' \subseteq submits
      PROVE  Advancing'
  <2>1. \A s \in submits' : OnTrack(s)'
    BY <1>0, <1>1, OnTrackStays
  <2>2. OneEach(submits)'
    BY <1>1 DEF Advancing, OneEach
  <2>3. dialog' # NoKey => form'.calls # <<>>
    BY <1>0, <1>1 DEF Advancing
  <2> QED
    BY <1>1, <2>1, <2>2, <2>3 DEF Advancing
<1>2. ASSUME NEW k \in Keys, Select(k) PROVE Advancing'
  <2>1. latest' >= latest
    BY <1>0, <1>2 DEF Select, StartRead
  <2> QED
    BY <1>1, <1>2, <2>1 DEF Select, formVars, Advancing
<1>3. CASE OtherLoad
  <2>1. latest' >= latest
    BY <1>0, <1>3 DEF OtherLoad
  <2> QED
    BY <1>1, <1>3, <2>1 DEF OtherLoad, formVars, Advancing
<1>4. ASSUME NEW k \in Keys, Open(k) PROVE Advancing'
  <2>1. UNCHANGED <<latest, submitted>> /\ form.calls # <<>>
    BY <1>4 DEF Open, viewVars
  <2>2. busy' \in Keys \cup {NoKey}
    BY <1>4 DEF Open, Advancing
  <2>3. CASE submits' = submits
    <3>1. \A s \in submits' : OnTrack(s)'
      BY <1>0, <2>1, <2>3, OnTrackStays
    <3> QED
      BY <1>0, <2>1, <2>2, <2>3, <3>1 DEF Advancing, OneEach
  <2>4. CASE submits' = {[s EXCEPT !.gone = TRUE] : s \in submits}
    <3>1. ASSUME NEW t \in submits'
          PROVE  /\ t \in SubmitRecord
                 /\ \E s \in submits : /\ t = [s EXCEPT !.gone = TRUE] /\ t.id = s.id
                                       /\ OnTrack(t)
      <4>1. PICK s \in submits : t = [s EXCEPT !.gone = TRUE]
        BY <2>4, <3>1
      <4>2. /\ t \in SubmitRecord
            /\ t.id = s.id /\ t.step = s.step /\ t.ran = s.ran /\ t.at = s.at /\ t.read = s.read
        BY <1>0, <4>1 DEF SubmitRecord
      <4>3. Needed(t) = Needed(s) /\ Survives(t) = Survives(s)
        BY <4>2 DEF Needed, Survives
      <4>4. OnTrack(t)
        BY <1>0, <4>2, <4>3 DEF OnTrack
      <4> QED
        BY <4>1, <4>2, <4>4
    <3>2. \A t \in submits' : OnTrack(t)'
      BY <1>0, <2>1, <3>1, OnTrackStays
    <3>3. OneEach(submits)'
      <4> SUFFICES ASSUME NEW t \in submits', NEW u \in submits', t.id = u.id PROVE t = u
        BY DEF OneEach
      <4>1. PICK s \in submits : t = [s EXCEPT !.gone = TRUE] /\ t.id = s.id
        BY <3>1
      <4>2. PICK v \in submits : u = [v EXCEPT !.gone = TRUE] /\ u.id = v.id
        BY <3>1
      <4>3. s = v
        BY <4>1, <4>2 DEF Advancing, OneEach
      <4> QED
        BY <4>1, <4>2, <4>3
    <3> QED
      BY <1>0, <2>1, <2>2, <3>2, <3>3 DEF Advancing
  <2> QED
    BY <1>4, <2>3, <2>4 DEF Open
<1>5. ASSUME NEW r \in reads, ReadAnswered(r) \/ ReadFailed(r) PROVE Advancing'
  <2>1. ReleaseForm(r) /\ UNCHANGED latest
    BY <1>5 DEF ReadAnswered, ReadFailed
  <2>2. busy' \in Keys \cup {NoKey}
    BY <2>1 DEF ReleaseForm, Unlock, Advancing
  <2>3. latest' >= latest
    BY <1>0, <2>1
  <2> QED
    BY <1>1, <2>1, <2>2, <2>3 DEF ReleaseForm
<1>6. CASE Submit
  <2>0. PICK t : t = [id |-> submitted + 1, of |-> dialog, sel |-> sel, step |-> 1, ran |-> 0,
                     at |-> "sent", read |-> 0, gone |-> FALSE]
    OBVIOUS
  <2>1. /\ dialog # NoKey /\ busy' = dialog /\ dialog' = dialog
        /\ submitted < MaxSubmits /\ submitted' = submitted + 1 /\ latest' = latest
        /\ submits' = submits \cup {t}
    BY <1>6, <2>0 DEF Submit, viewVars
  <2>2. /\ t.id = submitted + 1 /\ t.step = 1 /\ t.ran = 0 /\ t.at = "sent" /\ t.read = 0
    BY <2>0
  <2>3. 1 <= Len(form.calls) /\ form.calls # <<>>
    BY <2>1, FormCalls DEF Advancing
  <2>4. Needed(t)' = {}
    BY <1>0, <2>2, FormCalls DEF Needed
  <2>5. Cardinality(Needed(t)') = 0
    BY <2>4, FS_EmptySet
  <2>6. OnTrack(t)'
    BY <1>0, <2>1, <2>2, <2>3, <2>5 DEF OnTrack
  <2>7. \A s \in submits : OnTrack(s)'
    BY <1>0, <2>1, OnTrackStays
  <2>8. OneEach(submits)'
    <3>1. \A s \in submits : s.id # t.id
      BY <1>0, <2>2 DEF OnTrack, SubmitRecord
    <3> QED
      BY <2>1, <3>1 DEF Advancing, OneEach
  <2>9. submitted' <= MaxSubmits
    BY <1>0, <2>1, Bounds
  <2> QED
    BY <1>0, <2>1, <2>3, <2>6, <2>7, <2>8, <2>9 DEF Advancing, Typed
<1>7. ASSUME NEW s \in submits, ServeWrite(s) \/ NextStep(s) \/ Refused(s) \/ TimedOut(s)
      PROVE  Advancing'
  <2>0. UNCHANGED <<latest, submitted, dialog>>
    BY <1>7, SubmitSteps DEF Moves, GiveUp, viewVars
  <2>1. CASE GiveUp(s)
    <3>1. busy' \in Keys \cup {NoKey} /\ submits' \subseteq submits
      BY <2>1 DEF GiveUp, Unlock, Advancing
    <3>2. latest' >= latest
      BY <1>0, <2>0
    <3> QED
      BY <1>1, <2>0, <3>1, <3>2
  <2>2. CASE busy' = busy /\ \E t : Becomes(s, t) /\ SameAs(s, t) /\ OnTrack(t)
    <3>1. PICK t : Becomes(s, t) /\ SameAs(s, t) /\ OnTrack(t)
      BY <2>2
    <3>2. t \in SubmitRecord
      BY <3>1 DEF Becomes, Typed
    <3>3. OnTrack(t)' /\ \A u \in submits : OnTrack(u)'
      BY <1>0, <2>0, <3>1, <3>2, OnTrackStays
    <3>4. \A u \in submits' : OnTrack(u)'
      BY <3>1, <3>3 DEF Becomes
    <3>5. OneEach(submits)'
      BY <3>1 DEF Becomes, SameAs, Advancing, OneEach
    <3> QED
      BY <1>0, <2>0, <2>2, <3>4, <3>5 DEF Advancing
  <2> QED
    BY <1>0, <1>7, <2>1, <2>2, StaysOnTrack
<1>8. ASSUME NEW s \in submits, Succeeded(s) PROVE Advancing'
  <2>1. latest <= latest' /\ latest' \in Nat /\ UNCHANGED submitted
    BY <1>8, StartsOne
  <2>2. submits # {} => form.calls # <<>>
    <3>1. 1 <= Len(form.calls)
      BY <1>0, FormCalls DEF OnTrack, SubmitRecord
    <3>2. form.calls # <<>>
      BY <3>1
    <3> QED
      BY <3>2
  <2>3. busy' \in Keys \cup {NoKey}
    BY <1>8 DEF Succeeded, BringUpToDate, Unlock, Advancing
  <2>4. ASSUME \A u \in submits' : OnTrack(u)', OneEach(submits)' PROVE Advancing'
    BY <1>0, <2>1, <2>2, <2>3, <2>4 DEF Advancing
  <2>5. CASE submits' = submits \ {s}
    <3>1. \A u \in submits' : OnTrack(u)'
      BY <1>0, <2>1, <2>5, OnTrackStays
    <3>2. OneEach(submits)'
      BY <2>5 DEF Advancing, OneEach
    <3> QED
      BY <2>4, <3>1, <3>2
  <2>6. CASE /\ Becomes(s, [s EXCEPT !.at = "reloading", !.read = latest + 1])
             /\ latest' = latest + 1
    <3>0. PICK t : t = [s EXCEPT !.at = "reloading", !.read = latest + 1]
      OBVIOUS
    <3>1. /\ t.id = s.id /\ t.step = s.step /\ t.ran = s.ran
          /\ t.at = "reloading" /\ t.read = latest'
      BY <1>0, <2>6, <3>0 DEF SubmitRecord
    <3>2. Becomes(s, t)
      BY <2>6, <3>0
    <3>3. OnTrack(t)'
      BY <1>0, <2>1, <3>1 DEF OnTrack
    <3>4. \A u \in submits : OnTrack(u)'
      BY <1>0, <2>1, OnTrackStays
    <3>5. \A u \in submits' : OnTrack(u)'
      BY <3>2, <3>3, <3>4 DEF Becomes
    <3>6. OneEach(submits)'
      BY <3>1, <3>2 DEF Becomes, Advancing, OneEach
    <3> QED
      BY <2>4, <3>5, <3>6
  <2> QED
    BY <1>8, <2>5, <2>6 DEF Succeeded, BringUpToDate, StartRead
<1>9. ASSUME NEW r \in reads, ServeRead(r) PROVE Advancing'
  <2>1. UNCHANGED <<latest, dialog, busy, submits, submitted>> /\ latest' >= latest
    BY <1>0, <1>9 DEF ServeRead, formVars
  <2> QED
    BY <1>1, <2>1 DEF Advancing
<1>10. CASE Dismiss \/ UNCHANGED vars
  <2>1. UNCHANGED <<latest, submits, submitted>> /\ latest' >= latest
    BY <1>0, <1>10 DEF Dismiss, vars, viewVars, formVars
  <2>2. dialog' \in {dialog, NoKey}
    BY <1>10 DEF Dismiss, vars, formVars
  <2>3. busy' \in {busy, NoKey}
    BY <1>10 DEF Dismiss, ResetLock, vars, formVars
  <2> QED
    BY <1>1, <2>1, <2>2, <2>3 DEF Advancing
<1> QED
  BY <1>2, <1>3, <1>4, <1>5, <1>6, <1>7, <1>8, <1>9, <1>10 DEF Next

BoundsInv == Typed /\ Counted /\ Reserved /\ Numbered /\ Advancing

\* The bounds hold at the start.
LEMMA InitBounds == Init => Counted /\ Reserved /\ Numbered /\ Advancing
<1> SUFFICES ASSUME Init PROVE Counted /\ Reserved /\ Numbered /\ Advancing
  OBVIOUS
<1>1. view.loads \in BOOLEAN /\ latest \in {0, 1}
  BY Choices DEF Init, view
<1>2. Pending = {} /\ submits = {}
  BY DEF Init, Pending
<1>3. IsFiniteSet(submits) /\ Cardinality(Pending) = 0
  BY <1>2, FS_EmptySet
<1>4. Reserved
  BY <1>1, <1>3, Bounds DEF Reserved
<1>5. \A r \in reads : r.id \in 1 .. latest /\ r.ver = 0 /\ r = [id |-> r.id, of |-> sel, at |-> "sent", ver |-> 0]
  BY DEF Init
<1>6. Numbered
  <2>1. loading \in BOOLEAN /\ error \in BOOLEAN
    BY <1>1 DEF Init
  <2>2. shown.id <= latest /\ shown.ver <= version
    BY <1>1 DEF Init, Nothing
  <2>3. OneEach(reads)
    BY <1>5 DEF OneEach
  <2>4. \A r \in reads : 1 <= r.id /\ r.ver <= version
    <3>1. version = 0
      BY DEF Init
    <3> QED
      BY <1>1, <1>5, <3>1
  <2> QED
    BY <2>1, <2>2, <2>3, <2>4 DEF Numbered
<1>7. Advancing
  BY <1>2, Bounds DEF Init, Advancing, OneEach
<1>8. Counted
  BY DEF Init, Counted
<1> QED
  BY <1>4, <1>6, <1>7, <1>8

\* The bounds always hold.
LEMMA AlwaysBounded == Spec => []BoundsInv
BY InitTyped, InitBounds, TypedStep, CountedStep, ReservedStep, NumberedStep, AdvancingStep, PTL
   DEF Spec, BoundsInv

\* The types with their bounds: reads and submits have numbers of their own, a
\* submit is never beyond the calls of its form, a view never newer than the
\* data, and reads stay within their bound although every submit may end in one.
THEOREM ScreenTypes == Spec => []TypeOK
<1>1. BoundsInv => TypeOK
  <2> SUFFICES ASSUME BoundsInv PROVE TypeOK
    OBVIOUS
  <2>1. Typed /\ Counted /\ Reserved /\ Numbered /\ Advancing
    BY DEF BoundsInv
  <2>2. latest \in 0 .. MaxReads /\ submitted \in 0 .. MaxSubmits
    BY <2>1, PendingCount, Bounds DEF Typed, Reserved, Advancing
  <2>3. shown \in [of : Keys \cup {NoKey}, ver : 0 .. version, id : 0 .. latest]
    <3>1. shown = [of |-> shown.of, ver |-> shown.ver, id |-> shown.id]
      BY <2>1 DEF Typed
    <3>2. shown.of \in Keys \cup {NoKey} /\ shown.ver \in 0 .. version /\ shown.id \in 0 .. latest
      BY <2>1 DEF Typed, Numbered
    <3> QED
      BY <3>1, <3>2
  <2>4. ASSUME NEW r \in reads
        PROVE  r \in [id : 1 .. latest, of : Keys, at : {"sent", "read"}, ver : 0 .. version]
    <3>1. r \in ReadRecord
      BY <2>1 DEF Typed
    <3>2. r.id \in 1 .. latest /\ r.ver \in 0 .. version
      BY <2>1, <3>1 DEF ReadRecord, Typed, Numbered, Counted
    <3> QED
      BY <3>1, <3>2 DEF ReadRecord
  <2>5. ASSUME NEW s \in submits
        PROVE  s \in [id : 1 .. submitted, of : Keys, sel : Keys, step : 1 .. Len(form.calls),
                      ran : 0 .. Len(form.calls), at : {"sent", "ran", "refused", "reloading"},
                      read : 0 .. latest, gone : BOOLEAN]
    <3>1. s \in SubmitRecord /\ OnTrack(s)
      BY <2>1 DEF Typed, Advancing
    <3>2. /\ s.id \in 1 .. submitted /\ s.step \in 1 .. Len(form.calls)
          /\ s.ran \in 0 .. Len(form.calls) /\ s.read \in 0 .. latest
      BY <2>1, <3>1, FormCalls DEF SubmitRecord, OnTrack, Typed
    <3> QED
      BY <3>1, <3>2 DEF SubmitRecord, Stages
  <2>6. wrote \in 0 .. version
    BY <2>1 DEF Typed
  <2> QED
    BY <2>1, <2>2, <2>3, <2>4, <2>5, <2>6 DEF TypeOK, Typed, Numbered, Advancing, OneEach
<1> QED
  BY <1>1, AlwaysBounded, PTL

\* A form reports what happened, however many calls it makes and whichever of
\* them it survives: success when all that it needs have run, failure only when
\* not all calls did.
THEOREM ReportsTruth == Spec => ToldTheTruth
<1>1. ASSUME BoundsInv, NEW s \in submits
      PROVE  (Succeeded(s) => s.ran >= Required) /\ (Refused(s) => s.ran < Len(form.calls))
  <2>1. Typed /\ s \in SubmitRecord /\ OnTrack(s) /\ Len(form.calls) \in Nat
    BY <1>1, FormCalls DEF BoundsInv, Typed, Advancing
  <2>2. ASSUME Succeeded(s) PROVE s.ran >= Required
    <3>1. GoesOn(s) /\ s.step = Len(form.calls) /\ s.at # "reloading"
      BY <2>2 DEF Succeeded, LastStep, GoesOn
    <3>2. Needed(s) = {i \in DOMAIN form.calls : ~form.calls[i].optional}
      <4> SUFFICES ASSUME NEW i \in DOMAIN form.calls, ~form.calls[i].optional
                   PROVE  i < s.step \/ (i = s.step /\ s.at = "ran")
        BY DEF Needed
      <4>1. i \in Nat /\ i <= s.step
        BY <2>1, <3>1, FormCalls
      <4>2. i < s.step \/ i = s.step
        BY <2>1, <4>1 DEF SubmitRecord
      <4>3. i = s.step => s.at = "ran"
        BY <3>1 DEF GoesOn, Survives
      <4> QED
        BY <4>2, <4>3
    <3>3. Cardinality(Needed(s)) = Required /\ Cardinality(Needed(s)) <= s.ran
      BY <2>1, <3>1, <3>2 DEF Required, OnTrack
    <3>4. Cardinality(Needed(s)) \in Nat /\ s.ran \in Nat
      BY <2>1, NeededCount DEF SubmitRecord
    <3> QED
      BY <3>3, <3>4
  <2>3. ASSUME Refused(s) PROVE s.ran < Len(form.calls)
    BY <2>1, <2>3 DEF Refused, OnTrack, SubmitRecord
  <2> QED
    BY <2>2, <2>3
<1>2. BoundsInv /\ [Next]_vars =>
          [\A s \in submits : /\ Succeeded(s) => s.ran >= Required
                              /\ Refused(s) => s.ran < Len(form.calls)]_vars
  BY <1>1
<1> QED
  BY <1>2, AlwaysBounded, PTL DEF Spec, ToldTheTruth
=============================================================================
