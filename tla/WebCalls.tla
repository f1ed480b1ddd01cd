------------------------------ MODULE WebCalls ------------------------------
(***************************************************************************)
(* The calls the web client makes to the server (app/api.ts,               *)
(* features/rw/rw-api.ts), each by its HTTP method and by whether its      *)
(* fetch is aborted after a time.  What a call carries and returns is left *)
(* to the modules of the server; how it is sent again after a 401 is in    *)
(* WebSession.                                                             *)
(***************************************************************************)

EXTENDS WebProfiles

-----------------------------------------------------------------------------
(* Signing in and the own profile. *)

apiLogin == Call("POST")
apiMe == Call("GET")
apiResetPasswordWithCode == Call("POST")
apiGenerateResidentResetCode == Call("POST")
apiUpdateProfile == Call("PUT")
apiChangePassword == Call("PUT")

-----------------------------------------------------------------------------
(* RTs, RWs and their officers. *)

apiListRTs == Call("GET")
apiListRWs == Call("GET")
apiGetRW == Call("GET")
apiCreateRW == Call("POST")
apiUpdateRW == Call("PATCH")
apiDeactivateRW == Call("PATCH")
apiListRTMemberships == Untimed("GET")
apiSetRTJabatan == Untimed("PUT")
apiRemoveRTJabatan == Untimed("DELETE")
apiListRWMemberships == Untimed("GET")
apiSetRWJabatan == Untimed("PUT")
apiRemoveRWJabatan == Untimed("DELETE")
apiGetRT == Call("GET")
apiCreateRT == Call("POST")
apiUpdateRT == Call("PATCH")
apiDeactivateRT == Call("PATCH")

-----------------------------------------------------------------------------
(* Households and residents. *)

listHouseholds == Call("GET")
getHousehold == Call("GET")
createHousehold == Call("POST")
updateHousehold == Call("PATCH")
deactivateHousehold == Call("DELETE")
moveHousehold == Call("POST")
listResidents == Call("GET")
getResident == Call("GET")
createResident == Call("POST")
updateResident == Call("PATCH")
deactivateResident == Call("DELETE")
moveResident == Call("POST")
createSpecialResident == Call("POST")
updateSpecialResident == Call("PATCH")
apiDownloadWargaTemplate == Call("GET")
apiDownloadWargaExport == Call("GET")
apiPreviewWargaImportXLSX == Call("POST")
apiCommitWargaImportXLSX == Call("POST")

-----------------------------------------------------------------------------
(* Dues, bills and payments. *)

apiListDues == Call("GET")
apiCreateDue == Call("POST")
apiUpdateDue == Call("PATCH")
apiDeactivateDue == Call("DELETE")
apiGetDueMonths == Call("GET")
apiUpdateDuePeriodStatus == Call("PATCH")
apiUpdateBillStatus == Call("PATCH")
apiGenerateBills == Call("POST")
apiListBills == Call("GET")
apiGetBill == Call("GET")
apiListPayments == Call("GET")
apiGetPayment == Call("GET")
apiCreatePayment == Call("POST")
apiCreateMultiPeriodPayment == Call("POST")
apiUploadPaymentProof == Call("POST")
apiGetPaymentProofBlob == Call("GET")
apiVerifyPayment == Call("POST")
apiReversePayment == Call("POST")

-----------------------------------------------------------------------------
(* Devices and notifications. *)

apiRegisterDevice == Call("POST")
apiUnregisterDevice == Call("DELETE")
apiTriggerWasteTruckArrival == Call("POST")
apiGetNotificationSystemTypes == Call("GET")
apiGetNotificationTemplates == Call("GET")
apiCreateNotificationTemplate == Call("POST")
apiGetNotificationTemplate == Call("GET")
apiUpdateNotificationTemplate == Call("PUT")
apiToggleNotificationTemplateActive == Call("PATCH")
apiDeleteNotificationTemplate == Call("DELETE")
apiGetNotificationLogs == Call("GET")
apiMarkNotificationAsRead == Call("POST")
apiMarkAllNotificationsAsRead == Call("POST")
apiGetNotificationUnreadCount == Call("GET")
apiUploadNotificationImage == Call("POST")
apiTriggerManualPush == Call("POST")
apiTestPush == Call("POST")

-----------------------------------------------------------------------------
(* The cash book and the dashboard. *)

apiListCategories == Call("GET")
apiListTransactions == Call("GET")
apiGetTransaction == Call("GET")
apiCreateTransaction == Call("POST")
apiGetBalance == Call("GET")
apiUpdateTransaction == Call("PUT")
apiUpdateOpeningBalance == Call("PUT")
apiGetDashboardSummary == Call("GET")

-----------------------------------------------------------------------------
(* Fund locations. *)

apiListFundLocations == Call("GET")
apiCreateFundLocation == Call("POST")
apiGetFundLocation == Call("GET")
apiUpdateFundLocation == Call("PATCH")
apiDeactivateFundLocation == Call("DELETE")
apiGetFundLocationHistory == Call("GET")
apiSetOpeningBalance == Call("PUT")
apiListFundTransfers == Call("GET")
apiCreateFundTransfer == Call("POST")
apiReverseFundTransfer == Call("POST")
apiGetFundLocationReconciliation == Call("GET")

-----------------------------------------------------------------------------
(* The boards of an RW (rw-api.ts). *)

apiGetRWDashboard == Untimed("GET")
apiGetRWKAS == Untimed("GET")
apiListRWTransactions == Untimed("GET")
apiListRWLocations == Untimed("GET")
apiCreateRWLocation == Untimed("POST")
apiUpdateRWLocation == Untimed("PUT")
apiToggleRWLocationStatus == Untimed("PATCH")
apiGetRWReconciliation == Untimed("GET")
apiGetRWLocationMutations == Untimed("GET")
apiListRWTransfers == Untimed("GET")
apiCreateRWTransfer == Untimed("POST")
apiReverseRWTransfer == Untimed("POST")
apiCreateRWTransaction == Untimed("POST")
apiUpdateRWOpeningBalance == Untimed("POST")

(* apiReactivateRT is apiUpdateRT with is_active; listResidents takes the  *)
(* signal of its caller instead of the timeout when it is given one.       *)
apiReactivateRT == apiUpdateRT
listResidentsAbortable == Untimed("GET")
=============================================================================
