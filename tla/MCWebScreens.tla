---------------------------- MODULE MCWebScreens ----------------------------
(***************************************************************************)
(* All screens of the web client; those with the same profile are one.     *)
(***************************************************************************)
EXTENDS WebScreens, WebCashScreens, WebFundScreens, WebDuesScreens,
        WebResidentScreens, WebAreaScreens, WebNoticeScreens

AllScreens ==
    CashScreens \cup FundScreens \cup DuesScreens
    \cup ResidentScreens \cup AreaScreens \cup NoticeScreens

(* What a view calls does not write. *)
ASSUME ViewsRead == \A s \in AllScreens : s.view.reads
=============================================================================
