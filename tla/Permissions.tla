---------------------------- MODULE Permissions ----------------------------
(***************************************************************************)
(* The permission matrix of app/core/permissions.py: what a role may do,   *)
(* and the checks the API makes with it.                                   *)
(***************************************************************************)

\* Permission.
RevenuePermissions == {"view_revenue", "view_rpm"}

OwnContent == {"upload", "view_own_drafts", "view_own_queue", "view_own_failed"}

AllContent == {"view_all_drafts", "approve", "view_all_queue", "reschedule", "view_all_failed"}

ReportPermissions ==
  {"view_reports_overview", "view_reports_results", "view_reports_earnings",
   "view_reports_posting_id", "view_reports_batches"}

SettingsPermissions ==
  {"manage_pages", "manage_billing", "invite_manager", "invite_co_owner", "manage_team"}

AllPermissions ==
  RevenuePermissions \cup OwnContent \cup AllContent
    \cup ReportPermissions \cup SettingsPermissions

Roles == {"owner", "co_owner", "manager", "publisher", "approver", "analyst"}

\* ROLE_PERMISSIONS.
RolePermissions ==
  [r \in Roles |->
    CASE r = "owner" -> AllPermissions
      [] r = "co_owner" -> AllPermissions \ {"invite_co_owner"}
      [] r = "manager" ->
           {"view_rpm", "manage_pages", "manage_team"} \cup OwnContent \cup AllContent
             \cup (ReportPermissions \ {"view_reports_earnings"})
      [] r = "publisher" -> OwnContent
      [] r = "approver" -> {"view_all_drafts", "approve", "view_all_queue"}
      [] r = "analyst" ->
           {"view_reports_overview", "view_reports_results", "view_reports_batches"}]

\* has_permission: any of the roles grants it.
HasPermission(roles, p) == \E r \in roles : p \in RolePermissions[r]

===========================================================================
