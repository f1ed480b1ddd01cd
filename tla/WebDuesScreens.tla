------------------------------- MODULE WebDuesScreens ------------------------
(***************************************************************************)
(* The screens of dues, bills and payments (features/iuran).               *)
(***************************************************************************)
EXTENDS WebCalls

------------------------------------------------------------------------------
(* IuranList: the bills and the dues of an RT behind two tabs, whose loads *)
(* share one request counter.                                              *)

IuranControls == {"search", "status", "pembayaran", "periode", "jenis", "pageSize"}
IuranTabs == {"activeTab"}
IuranPeriodsSelection == {"search", "status", "pembayaran", "jenis"} \cup IuranTabs
IuranPeriods == View(IuranPeriodsSelection, "none", {"silent"}, "always", <<apiListBills>>)
IuranSelection == IuranControls \cup IuranTabs \cup {"page"}
IuranBillRows == "loaded"
IuranBills == View(IuranSelection, "shared", {"clear"}, IuranBillRows, <<apiListBills>>)
IuranDueRows == "loaded"
IuranDues == View(IuranTabs, "shared", {"clear"}, IuranDueRows, <<apiListDues>>)
IuranPaidAmounts == View(IuranSelection, "latest", {"silent"}, "always", <<apiListPayments>>)
(* The months of the due that is edited are emptied before they are read.  *)
IuranDueMonths == View({"editDueId"}, "none", {"clear", "silent"}, "always", <<apiGetDueMonths>>)
IuranEditDialog == Dialog("reset", FALSE)
(* The months that changed are saved one by one, then the due; a month that*)
(* fails keeps the due from being saved.                                   *)
IuranEditCalls == {<<apiUpdateDue>>, <<apiUpdateDuePeriodStatus, apiUpdateDue>>}
IuranEdit == {Form(IuranEditDialog, "reload", calls) : calls \in IuranEditCalls}
(* The confirmation closes with the click, the due stays open.             *)
IuranSyncDialog == Stays(Dialog("screen", FALSE))
IuranSync == Form(IuranSyncDialog, "reload", <<apiGenerateBills>>)
IuranDeactivateDialog == Dialog("reset", FALSE)
IuranDeactivate == Form(IuranDeactivateDialog, "reload", <<apiDeactivateDue>>)
------------------------------------------------------------------------------
(* DueCreate: a new due and, if it has an amount, its bills.               *)

DueCreateDialog == Dialog("dialog", FALSE)
DueCreateCalls == {<<apiCreateDue>>, <<apiCreateDue, apiGenerateBills>>}
DueCreate == {Form(DueCreateDialog, "reload", calls) : calls \in DueCreateCalls}
------------------------------------------------------------------------------
(* IuranDetail: a bill with its payments, which officers verify and        *)
(* reverse.                                                                *)

IuranDetailRows == "clean"
IuranDetailReads == <<apiGetBill, apiListPayments>>
IuranDetail == View({"effectiveId"}, "none", {"keep"}, IuranDetailRows, IuranDetailReads)
IuranDetailLocations == View({}, "none", {"silent"}, "always", <<apiListFundLocations>>)
(* verifyingId disables the buttons of the payment whose submit came last. *)
VerificationDialog == Dialog("record", FALSE)
IuranApprove == Form(VerificationDialog, "awaited", <<apiVerifyPayment>>)
IuranReject == Form(VerificationDialog, "awaited", <<apiVerifyPayment>>)
(* IuranList unmounts the bill when it is closed.                          *)
IuranReverseDialog == Dialog("dialog", FALSE)
IuranReverse == Form(IuranReverseDialog, "awaited", <<apiReversePayment>>)
PaymentProof == View({}, "latest", {"clear"}, "loaded", <<apiGetPaymentProofBlob>>)
PaymentProofModal == View({}, "latest", {"clear"}, "loaded", <<apiGetPaymentProofBlob>>)
------------------------------------------------------------------------------
(* IuranPayment: a resident or an officer pays a bill, or several months at*)
(* once; the panel stays and shows the payment.                            *)

IuranPaymentRows == "clean"
IuranPaymentSelection == {"effectiveId", "retryCount"}
(* A bill that cannot be read leaves a message, payments that cannot are   *)
(* taken as none.                                                          *)
IuranPaymentBill ==
    View(IuranPaymentSelection, "latest", {"keep", "empty"}, IuranPaymentRows,
         <<apiGetBill, apiListPayments>>)
(* After a payment both are read into the bill that is shown, without a    *)
(* guard; a failure of either leaves what it shows.                        *)
IuranPaymentTotals ==
    View(IuranPaymentSelection, "none", {"silent"}, IuranPaymentRows,
         <<apiGetBill, apiListPayments>>)
IuranPayable ==
    View(IuranPaymentSelection, "latest", {"keep", "empty"}, IuranPaymentRows,
         <<apiGetBill, apiListBills>>)
IuranPaymentPanel == Stays(Dialog("dialog", FALSE))
(* The proof is sent again on its own when the payment came back without   *)
(* one.                                                                    *)
IuranPaymentCalls ==
    {<<call, Optional(apiUploadPaymentProof)>> : call \in {apiCreatePayment, apiCreateMultiPeriodPayment}}
IuranPayment == {Form(IuranPaymentPanel, "reload", calls) : calls \in IuranPaymentCalls}
------------------------------------------------------------------------------
DuesScreens ==
    Screen({IuranBills}, {IuranSync} \cup IuranPayment) \cup Screen({IuranDues}, IuranEdit \cup {IuranDeactivate} \cup DueCreate)
    \cup Screen({IuranDetail}, {IuranApprove, IuranReject, IuranReverse})
    \cup Screen({IuranPaymentTotals}, IuranPayment)
    \cup Screen({IuranPeriods, IuranPaidAmounts, IuranDueMonths, IuranDetailLocations,
                 IuranPaymentBill, IuranPayable, PaymentProof, PaymentProofModal}, {NoForm})
==============================================================================
