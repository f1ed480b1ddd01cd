------------------------------- MODULE WebAreaScreens ------------------------
(***************************************************************************)
(* The screens of the RTs, the RWs and their officers (features/rt), of the*)
(* own profile (features/profile) and of the login (features/auth).        *)
(***************************************************************************)
EXTENDS WebCalls

------------------------------------------------------------------------------
(* RtList, with the dialog in which RWs are created, changed and switched  *)
(* on and off.                                                             *)

RtRows == "loaded"
RtSelection == {"filterType", "statusValue", "search", "page", "pageSize"}
RtList == View(RtSelection, "none", {"keep"}, RtRows, <<apiListRTs>>)
RtListRWs == View({}, "none", {"silent"}, "always", <<apiListRWs>>)
RwManageDialog == Stays(Dialog("dialog", FALSE))
RwManageSave == {Form(RwManageDialog, "reload", <<call>>) : call \in {apiCreateRW, apiUpdateRW}}
RwManageToggle ==
    {Form(RwManageDialog, "reload", <<call>>) : call \in {apiDeactivateRW, apiUpdateRW}}
------------------------------------------------------------------------------
(* RwList: the same for the RWs.                                           *)

RwRows == "clean"
RwSelection == {"filterType", "statusValue", "search", "page", "pageSize"}
RwList == View(RwSelection, "none", {"keep"}, RwRows, <<apiListRWs>>)
RwListManageDialog == Stays(Dialog("dialog", FALSE))
RwListSave == {Form(RwListManageDialog, "reload", <<call>>) : call \in {apiCreateRW, apiUpdateRW}}
RwListToggle ==
    {Form(RwListManageDialog, "reload", <<call>>) : call \in {apiDeactivateRW, apiUpdateRW}}
------------------------------------------------------------------------------
(* RtDetailModal: an RT's data and officers. Its update sets the record    *)
(* that the list has open; its member list has no guard and no timeout.    *)

RtMemberRows == "clean"
RtMembers == View({"open", "rt.id"}, "none", {"keep"}, RtMemberRows, <<apiListRTMemberships>>)
RtDetailRWs == View({"rt.id"}, "none", {"keep"}, "loaded", <<apiListRWs>>)
RtUpdateForm == Reopens(Dialog("dialog", FALSE))
RtUpdate == Form(RtUpdateForm, "reload", <<apiUpdateRT>>)
RtJabatanForm == Stays(Dialog("dialog", FALSE))
RtJabatan == Form(RtJabatanForm, "awaited", <<apiSetRTJabatan>>)
RtRevokeConfirm == Stays(Dialog("dialog", FALSE))
RtRevoke == Form(RtRevokeConfirm, "awaited", <<apiRemoveRTJabatan>>)
------------------------------------------------------------------------------
(* RwDetailModal: an RW's data and officers, chosen among the members of   *)
(* its RTs.                                                                *)

RwMemberRows == "clean"
RwMembers == View({"open", "rw.id"}, "none", {"keep"}, RwMemberRows, <<apiListRWMemberships>>)
RwDetailRTs == View({"open", "rw.id"}, "none", {"keep"}, "clean", <<apiListRTs>>)
RwCandidates == View({"rtId"}, "none", {"empty"}, "loaded", <<apiListRTMemberships>>)
RwUpdateForm == Reopens(Dialog("dialog", FALSE))
RwUpdate == Form(RwUpdateForm, "reload", <<apiUpdateRW>>)
RwJabatanForm == Stays(Dialog("dialog", FALSE))
RwJabatan == Form(RwJabatanForm, "awaited", <<apiSetRWJabatan>>)
RwRevoke == Form(RwJabatanForm, "awaited", <<apiRemoveRWJabatan>>)
------------------------------------------------------------------------------
(* RtCreate, RtEdit and RtDetail.                                          *)

RtCreateDialog == Dialog("dialog", FALSE)
RtCreate == Form(RtCreateDialog, "reload", <<apiCreateRT>>)
(* The numbers of the RWs are swallowed and emptied if they fail alone.    *)
RtEditReads == <<apiGetRT, Optional(apiListRWs)>>
RtCreateRWs == View({}, "none", {"silent"}, "always", <<apiListRWs>>)
RtEditView == View({"id"}, "none", {"keep"}, "loaded", RtEditReads)
RtEditRWs == View({"id"}, "none", {"keep", "empty"}, "loaded", RtEditReads)
RtEditDialog == Dialog("dialog", FALSE)
RtEdit == Form(RtEditDialog, "leave", <<apiUpdateRT>>)
RtEditToggle == {Form(RtEditDialog, "leave", <<call>>) : call \in {apiDeactivateRT, apiReactivateRT}}
RtDetailRows == "clean"
RtDetail == View({"id"}, "none", {"keep"}, RtDetailRows, <<apiGetRT>>)
RtDeactivate == Form(Dialog("screen", FALSE), "patch", <<apiDeactivateRT>>)
RtReactivate == Form(Dialog("screen", FALSE), "patch", <<apiReactivateRT>>)
------------------------------------------------------------------------------
(* ProfileModal and Login: the user's own data is read again after a       *)
(* change; a login reads it for the first time.  A read that fails when the*)
(* dialog is opened is not told, one after a change is.                    *)

ProfileUser == View({}, "none", {"keep", "silent"}, "always", <<apiMe>>)
ProfileForm == Stays(Dialog("screen", FALSE))
ProfileUpdate == Form(ProfileForm, "awaited", <<apiUpdateProfile>>)
PasswordForm == Stays(Dialog("screen", FALSE))
PasswordChange == Form(PasswordForm, "leave", <<apiChangePassword>>)
LoginForm == Stays(Dialog("dialog", FALSE))
Login == Form(LoginForm, "leave", <<apiLogin, apiMe>>)
(* It closes two seconds after a success, whatever it is doing then.       *)
PasswordResetDialog == Stays(Dialog("screen", FALSE))
PasswordReset == Form(PasswordResetDialog, "leave", <<apiResetPasswordWithCode>>)
------------------------------------------------------------------------------
AreaScreens ==
    Screen({RtList}, RwManageSave \cup RwManageToggle \cup {RtUpdate, RtCreate})
    \cup Screen({RwList}, RwListSave \cup RwListToggle \cup {RwUpdate})
    \cup Screen({RtMembers}, {RtJabatan, RtRevoke}) \cup Screen({RwMembers}, {RwJabatan, RwRevoke})
    \cup Screen({RtEditView, RtEditRWs}, {RtEdit} \cup RtEditToggle) \cup Screen({RtDetail}, {RtDeactivate, RtReactivate})
    \cup Screen({ProfileUser}, {ProfileUpdate, PasswordChange}) \cup Screen({NoView}, {Login, PasswordReset})
    \cup Screen({RtListRWs, RtCreateRWs, RtDetailRWs, RwDetailRTs, RwCandidates}, {NoForm})
==============================================================================
