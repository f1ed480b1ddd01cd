------------------------------ MODULE WebNoticeScreens -----------------------
(***************************************************************************)
(* The screen of the notifications (features/notification): types,         *)
(* templates and the log, whose rows the forms patch in place.             *)
(***************************************************************************)
EXTENDS WebCalls

NoticeTypes == "loaded"
NoticeTemplates == "loaded"
NoticeLogs == "loaded"
NoticeSelection == {"isAdmin", "logsPage", "logsPageSize", "logsEventType", "logsStatusFilter"}
NoticeReads ==
    <<apiGetNotificationLogs, apiGetNotificationUnreadCount, apiGetNotificationSystemTypes,
                 apiGetNotificationTemplates>>
(* A part that cannot be read is emptied.                                  *)
Notices ==
    {View(NoticeSelection, "none", {"empty"}, rows, NoticeReads) : rows \in {NoticeTypes, NoticeTemplates, NoticeLogs}}
NoticeMarkRead == Form(Dialog("none", FALSE), "patch", <<apiMarkNotificationAsRead>>)
NoticeMarkAllRead == Form(Dialog("none", FALSE), "patch", <<apiMarkAllNotificationsAsRead>>)
TemplateCreateDialog == Dialog("screen", FALSE)
TemplateCreate == Form(TemplateCreateDialog, "patch", <<apiCreateNotificationTemplate>>)
TemplateEditDialog == Dialog("screen", FALSE)
TemplateEdit == Form(TemplateEditDialog, "patch", <<apiUpdateNotificationTemplate>>)
TemplateImage == Form(Stays(TemplateEditDialog), "leave", <<apiUploadNotificationImage>>)
TemplateToggle == Form(Dialog("none", FALSE), "patch", <<apiToggleNotificationTemplateActive>>)
TemplateDeleteDialog == Dialog("screen", FALSE)
TemplateDelete == Form(TemplateDeleteDialog, "patch", <<apiDeleteNotificationTemplate>>)
TestPush == Form(Stays(Dialog("screen", FALSE)), "leave", <<apiTestPush>>)
BroadcastDialog == Dialog("screen", FALSE)
Broadcast == Form(BroadcastDialog, "reload", <<apiTriggerManualPush>>)
------------------------------------------------------------------------------
NoticeScreens == Screen(Notices, {NoticeMarkRead, NoticeMarkAllRead, TemplateCreate, TemplateEdit, TemplateImage,
                                  TemplateToggle, TemplateDelete, TestPush, Broadcast})
==============================================================================
