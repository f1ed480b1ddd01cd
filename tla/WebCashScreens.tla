------------------------------- MODULE WebCashScreens ------------------------
(***************************************************************************)
(* The screens of the cash book (features/kas) and the dashboard of an RT  *)
(* (features/dashboard).                                                   *)
(***************************************************************************)
EXTENDS WebCalls

------------------------------------------------------------------------------
(* KasList: the cash book of a period. Balance and transactions are read   *)
(* together; flow and method filter the rows of the page that was read.    *)

KasListControls == {"activePeriodStr", "search", "flow", "method", "pageSize"}
KasListLocal == {"flow", "method"}
KasListSelection == (KasListControls \ KasListLocal) \cup {"page"}
KasListRows == "loaded"
KasList ==
    View(KasListSelection, "none", {"keep"}, KasListRows, <<apiListTransactions, apiGetBalance>>)
KasEditCategories == View({"editingTx"}, "none", {"silent"}, "always", <<apiListCategories>>)
KasOpeningDialog == Dialog("screen", FALSE)
KasOpening == Form(KasOpeningDialog, "reload", <<apiUpdateOpeningBalance>>)
KasEditDialog == Dialog("screen", FALSE)
KasEdit == Form(KasEditDialog, "reload", <<apiUpdateTransaction>>)
------------------------------------------------------------------------------
(* KasIncome and KasExpense: a transaction is entered on a page of its own,*)
(* whose flag is gone when the page is left while it saves.                *)

KasLocationOptions == View({}, "none", {"silent"}, "always", <<apiListFundLocations>>)
KasIncomePage == Dialog("dialog", FALSE)
KasIncome == Form(KasIncomePage, "leave", <<apiCreateTransaction>>)
fetchCategories == Untimed("GET")
KasExpenseOptions == View({}, "none", {"silent"}, "always", <<fetchCategories>>)
KasExpensePage == Dialog("dialog", FALSE)
KasExpense == Form(KasExpensePage, "leave", <<apiCreateTransaction>>)
------------------------------------------------------------------------------
(* KasDetail and KasReport: one transaction, and the statement of a period.*)

KasDetailRows == "clean"
KasDetail == View({"id"}, "none", {"keep"}, KasDetailRows, <<apiGetTransaction>>)
KasReportReads == <<apiGetBalance, apiListTransactions>>
KasReportRows == "loaded"
KasReport == View({"rtId", "periodeValue"}, "none", {"clear"}, KasReportRows, KasReportReads)
KasReportIdentity == View({"rtId", "canViewReport"}, "latest", {"silent"}, "always", <<apiGetRT>>)
------------------------------------------------------------------------------
(* Dashboard: the figures of a month; a failed read tells of nothing.      *)

DashboardMonth == {"activePeriodStr"}
DashboardControls == DashboardMonth \cup {"rt"}
DashboardRows == "always"
Dashboard ==
    View(DashboardControls, "latest", {"silent"}, DashboardRows, <<apiGetDashboardSummary>>)
------------------------------------------------------------------------------
CashScreens == Screen({KasList}, {KasOpening, KasEdit}) \cup Screen({KasLocationOptions}, {KasIncome})
    \cup Screen({KasExpenseOptions, KasLocationOptions}, {KasExpense})
    \cup Screen({KasEditCategories, KasDetail, KasReport, KasReportIdentity, Dashboard}, {NoForm})
==============================================================================
