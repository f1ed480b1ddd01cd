---------------------------- MODULE WebProfiles -----------------------------
(***************************************************************************)
(* What the screens of the web client have in common, and the choices in   *)
(* which they differ.  A screen is a view, which reads what the current    *)
(* selection asks for, with a form, which writes; the modules Web*Screens  *)
(* give the profile of every view and form, WebScreens runs them.          *)
(***************************************************************************)
EXTENDS Integers, Sequences

(* Most calls give AbortSignal.timeout(TIMEOUT_MS) to fetch.               *)
Call(verb) == [read |-> verb = "GET", timeout |-> TRUE, optional |-> FALSE]

(* The calls about officers' positions give no signal, and authenticatedFetch *)
(* of rw-api.ts neither aborts nor refreshes: fetch waits for the browser. *)
Untimed(verb) == [Call(verb) EXCEPT !.timeout = FALSE]

(* A call whose failure the form survives with a warning.                  *)
Optional(call) == [call EXCEPT !.optional = TRUE]

Timed(calls) == \A i \in DOMAIN calls : calls[i].timeout
OnlyReads(calls) == \A i \in DOMAIN calls : calls[i].read

(* A view profile.                                                         *)
(*   selection  the state its loader depends on; it is keyed if there is   *)
(*              any, for that may change while the view is mounted         *)
(*   guard      the answers it takes: "none" all, "latest" those of the    *)
(*              read it started last, "shared" the same by a counter that  *)
(*              another load of the screen counts up, too                  *)
(*   onError    what a failed read may leave: a message and what was shown *)
(*              ("keep"), a message alone ("clear"), what was shown alone  *)
(*              ("silent"), or neither ("empty").  A loader that handles   *)
(*              the failures of its calls in different ways has several    *)
(*   rows       what was read is rendered "always", once "loaded", or only *)
(*              "clean": loaded and without an error                       *)
(*   calls      the API calls of one read                                  *)
(* Where the calls of a loader fill parts of a screen that fare            *)
(* differently when one of them fails, each part is a view.                *)
View(selection, guard, onError, rows, calls) ==
    [keyed |-> selection # {}, guard |-> guard, onError |-> onError, rows |-> rows,
     loads |-> calls # <<>>, timed |-> Timed(calls), reads |-> OnlyReads(calls)]

(* A page or dialog that loads nothing, or whose view is another screen's. *)
NoView == View({}, "none", {"keep"}, "clean", <<>>)

(* A dialog.                                                               *)
(*   lock  what stops a second submit: a flag of the "screen", which       *)
(*         outlives its dialogs as long as the screen stays mounted; one   *)
(*         that starts anew with the "dialog", that is with a modal that   *)
(*         is unmounted or a page of its own that is left; one that        *)
(*         closing the dialog will "reset" though the screen outlives it;  *)
(*         the number of the "record" whose submit came last; or "none"    *)
(*   held  it cannot be dismissed while a submit is under way              *)
(*   ends  a success will "close" what is open, let it "stay", or "reopen" *)
(*         the record of the submit                                        *)
Dialog(lock, held) == [lock |-> lock, held |-> held, ends |-> "close"]
Stays(dialog) == [dialog EXCEPT !.ends = "stay"]
Reopens(dialog) == [dialog EXCEPT !.ends = "reopen"]

(* A form profile: its dialog, and                                         *)
(*   after  a success: "reload" the selection of the submit, "refresh" the *)
(*          current one, read the "first" page, "awaited" as reload but    *)
(*          before the form is free again, "patch" what is shown, or       *)
(*          "leave" it                                                     *)
(*   calls  the API calls of one submit, in order                          *)
Form(dialog, after, calls) ==
    [lock |-> dialog.lock, held |-> dialog.held, ends |-> dialog.ends,
     after |-> after, calls |-> calls]

(* A screen without a form. *)
NoForm == Form(Dialog("none", FALSE), "leave", <<>>)

Screen(views, forms) == [view : views, form : forms]
=============================================================================
