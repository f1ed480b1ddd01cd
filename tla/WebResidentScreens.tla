----------------------------- MODULE WebResidentScreens ----------------------
(***************************************************************************)
(* The screens of households and residents (features/warga). ResidentList  *)
(* stays mounted behind the dialogs, which are routes over it.             *)
(***************************************************************************)
EXTENDS WebCalls

------------------------------------------------------------------------------
(* ResidentList: a new read aborts the one before; it gives no timeout.    *)
(* Occupancy filters the rows of the page that was read.                   *)

ResidentControls == {"search", "filterType", "statusValue", "occupancyFilter"}
ResidentSelection == (ResidentControls \ {"occupancyFilter"}) \cup {"page", "pageSize"}
ResidentRows == "loaded"
ResidentList ==
    View(ResidentSelection, "latest", {"keep"}, ResidentRows, <<listResidentsAbortable>>)
ResidentRefresh == "refresh"
------------------------------------------------------------------------------
(* HouseholdCreate, HouseholdEdit, HouseholdDetail, HouseholdMove: only the*)
(* edit tells the list behind it to refresh.                               *)

HouseholdRTs == View({}, "latest", {"keep"}, "loaded", <<apiListRTs>>)
HouseholdCreatePage == Dialog("dialog", FALSE)
HouseholdCreate == Form(HouseholdCreatePage, "leave", <<createHousehold>>)
HouseholdEditView == View({"id"}, "none", {"keep"}, "loaded", <<getHousehold>>)
HouseholdEditPage == Dialog("dialog", FALSE)
HouseholdEdit == Form(HouseholdEditPage, ResidentRefresh, <<updateHousehold>>)
HouseholdRows == "clean"
HouseholdDetail == View({"id"}, "none", {"keep"}, HouseholdRows, <<getHousehold>>)
HouseholdConfirm == Dialog("screen", TRUE)
HouseholdDeactivate == Form(HouseholdConfirm, "leave", <<deactivateHousehold>>)
HouseholdMoveView == View({"id"}, "none", {"keep"}, "loaded", <<getHousehold>>)
HouseholdMovePage == Dialog("dialog", FALSE)
HouseholdMove == Form(HouseholdMovePage, "leave", <<moveHousehold>>)
------------------------------------------------------------------------------
(* ResidentDetail: a resident and the household, edited in place.          *)

ResidentRecord == "always"
ResidentDetail ==
    View({"id"}, "none", {"keep"}, ResidentRecord, <<getResident, Optional(getHousehold)>>)
ResidentAddress ==
    View({"id"}, "none", {"keep", "silent"}, ResidentRecord, <<getResident, getHousehold>>)
ResidentEditForm == Dialog("dialog", FALSE)
(* The household goes along if the resident has one; an officer without    *)
(* one is saved by a call of its own.                                      *)
ResidentEditCalls ==
    {<<updateResident, updateHousehold, getResident>>, <<updateResident, getResident>>,
     <<updateSpecialResident, getResident>>}
ResidentEdit == {Form(ResidentEditForm, ResidentRefresh, calls) : calls \in ResidentEditCalls}
ResidentResetCode ==
    Form(Stays(Dialog("dialog", FALSE)), "leave", <<apiGenerateResidentResetCode>>)
------------------------------------------------------------------------------
(* SpecialResidentCreate, SpecialResidentEdit: officers without a          *)
(* household.                                                              *)

SpecialRTs == View({}, "latest", {"keep"}, "loaded", <<apiListRTs>>)
SpecialCreatePage == Dialog("dialog", FALSE)
SpecialCreate == Form(SpecialCreatePage, "leave", <<createSpecialResident>>)
SpecialEditView == View({"id"}, "none", {"keep"}, "loaded", <<getResident>>)
SpecialEditPage == Dialog("dialog", FALSE)
SpecialEdit == Form(SpecialEditPage, "leave", <<updateSpecialResident>>)
------------------------------------------------------------------------------
(* WargaImportModal: a file is checked, shown and imported; it cannot be   *)
(* closed meanwhile. Selesai reads the first page of the list, closing it  *)
(* reads nothing.                                                          *)

ImportUpload == Stays(Dialog("screen", TRUE))
ImportPreview == Form(ImportUpload, "leave", <<apiPreviewWargaImportXLSX>>)
ImportRows == Stays(Dialog("screen", TRUE))
ImportCommit == Form(ImportRows, "leave", <<apiCommitWargaImportXLSX>>)
ImportSuccess == Dialog("screen", TRUE)
ImportFinish == Form(ImportSuccess, "first", <<apiCommitWargaImportXLSX>>)
------------------------------------------------------------------------------
ResidentScreens ==
    Screen({ResidentList}, {HouseholdCreate, HouseholdEdit, SpecialCreate, SpecialEdit,
                            ImportPreview, ImportCommit, ImportFinish} \cup ResidentEdit)
    \cup Screen({HouseholdDetail}, {HouseholdDeactivate}) \cup Screen({HouseholdMoveView}, {HouseholdMove})
    \cup Screen({ResidentDetail}, {ResidentResetCode})
    \cup Screen({ResidentAddress, HouseholdRTs, HouseholdEditView, SpecialRTs, SpecialEditView}, {NoForm})
==============================================================================
