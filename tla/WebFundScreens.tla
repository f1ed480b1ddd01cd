------------------------------- MODULE WebFundScreens ------------------------
(***************************************************************************)
(* The screens of the fund locations of an RT (features/fund_location) and *)
(* of the boards of an RW (features/rw).                                   *)
(***************************************************************************)
EXTENDS WebCalls

------------------------------------------------------------------------------
(* FundLocationList: the locations, their reconciliation with the cash book*)
(* and the transfers are read together.  If the locations fail nothing is  *)
(* set; a reconciliation that fails alone is taken away with a message,    *)
(* transfers that fail alone are emptied without one.  All forms share one *)
(* flag and wait for the reload.                                           *)

(* Category, status and search filter on the client.                       *)
FundLocationSelection == {}
FundLocationRows == "loaded"
FundReads == <<apiListFundLocations, apiGetFundLocationReconciliation, apiListFundTransfers>>
FundLocations == View(FundLocationSelection, "none", {"keep"}, FundLocationRows, FundReads)
FundReconciliation == View({}, "none", {"keep", "clear"}, "always", FundReads)
FundTransfers == View({}, "none", {"keep", "empty"}, "always", FundReads)
FundHistoryDialog == "loaded"
FundHistory ==
    View({"historyLocation"}, "none", {"empty"}, FundHistoryDialog, <<apiGetFundLocationHistory>>)
FundCreateDialog == Dialog("screen", FALSE)
FundCreate == Form(FundCreateDialog, "awaited", <<apiCreateFundLocation>>)
FundUpdateDialog == Dialog("screen", FALSE)
FundUpdate == Form(FundUpdateDialog, "awaited", <<apiUpdateFundLocation>>)
FundDeactivate == Form(Dialog("none", FALSE), "awaited", <<apiDeactivateFundLocation>>)
FundTransferDialog == Dialog("screen", FALSE)
FundTransfer == Form(FundTransferDialog, "awaited", <<apiCreateFundTransfer>>)
FundReverseDialog == Dialog("screen", FALSE)
FundReverse == Form(FundReverseDialog, "awaited", <<apiReverseFundTransfer>>)
FundOpeningDialog == Dialog("screen", FALSE)
FundOpening == Form(FundOpeningDialog, "awaited", <<apiSetOpeningBalance>>)
------------------------------------------------------------------------------
(* RwFundLocationList: the same for an RW, without timeouts, and the reload*)
(* is not waited for.                                                      *)

RwFundRows == "loaded"
RwFunds == View({"rwId"}, "none", {"keep"}, RwFundRows, <<apiListRWLocations>>)
RwFundCreateDialog == Dialog("screen", FALSE)
RwFundCreate == Form(RwFundCreateDialog, "reload", <<apiCreateRWLocation>>)
RwFundUpdateDialog == Dialog("screen", FALSE)
RwFundUpdate == Form(RwFundUpdateDialog, "reload", <<apiUpdateRWLocation>>)
RwFundToggle == Form(Dialog("none", FALSE), "reload", <<apiToggleRWLocationStatus>>)
RwTransferDialog == Dialog("screen", FALSE)
RwTransfer == Form(RwTransferDialog, "reload", <<apiCreateRWTransfer>>)
RwHistoryDialog == "loaded"
RwHistory ==
    View({"historyLocation"}, "none", {"clear"}, RwHistoryDialog, <<apiGetRWLocationMutations>>)
RwReconciliationDialog == "loaded"
RwReconciliation == View({}, "none", {"clear"}, RwReconciliationDialog, <<apiGetRWReconciliation>>)
RwTransfersDialog == "loaded"
(* The dialog empties the list before it reads it.  After a reversal it is *)
(* read again in place, and the message of a failure goes into the dialog  *)
(* of the reversal, which is closed by then.                               *)
RwTransfers == View({}, "none", {"clear", "silent"}, RwTransfersDialog, <<apiListRWTransfers>>)
RwReverseDialog == Dialog("screen", FALSE)
RwReverse == Form(RwReverseDialog, "awaited", <<apiReverseRWTransfer>>)
(* The locations are read again only if the transfers came.                *)
RwReverseBalances ==
    Form(Stays(RwReverseDialog), "reload", <<apiReverseRWTransfer, apiListRWTransfers>>)
------------------------------------------------------------------------------
(* RwKasList: the cash book of an RW.                                      *)

RwKasControls == {"activePeriodStr", "search", "flow", "method", "pageSize"}
RwKasLocal == {"flow", "method"}
RwKasSelection == (RwKasControls \ RwKasLocal) \cup {"rwId", "page"}
RwKasRows == "loaded"
RwKas ==
    View(RwKasSelection, "none", {"keep"}, RwKasRows, <<apiGetRWKAS, apiListRWTransactions, apiListRWLocations>>)
RwOpeningDialog == Dialog("screen", TRUE)
RwOpening == Form(RwOpeningDialog, "awaited", <<apiUpdateRWOpeningBalance>>)
RwTransactionDialog == Dialog("screen", FALSE)
RwTransaction == Form(RwTransactionDialog, "reload", <<apiCreateRWTransaction>>)
------------------------------------------------------------------------------
(* RwDashboard: the figures of a month of an RW and the lists beside them; *)
(* each read fails on its own and tells of nothing.                        *)

RwDashboardMonth == {"period", "year"}
RwDashboardControls == RwDashboardMonth \cup {"rwId"}
RwDashboardRows == "always"
RwDashboardReads ==
    <<apiGetRWKAS, apiGetRWDashboard, apiListRWTransactions, apiListRWLocations>>
RwDashboard ==
    {View(RwDashboardControls, "none", {how}, RwDashboardRows, RwDashboardReads)
        : how \in {"silent", "empty"}}
------------------------------------------------------------------------------
FundScreens ==
    Screen({FundLocations, FundReconciliation, FundTransfers},
           {FundCreate, FundUpdate, FundDeactivate, FundTransfer, FundReverse, FundOpening})
    \cup Screen({RwFunds}, {RwFundCreate, RwFundUpdate, RwFundToggle, RwTransfer, RwReverseBalances})
    \cup Screen({RwTransfers}, {RwReverse})
    \cup Screen({RwKas}, {RwOpening, RwTransaction})
    \cup Screen({FundHistory, RwHistory, RwReconciliation} \cup RwDashboard, {NoForm})
==============================================================================
