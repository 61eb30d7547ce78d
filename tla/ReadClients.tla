------------------------------ MODULE ReadClients ------------------------------
(***************************************************************************)
(* How kasapi-cli reads its resources: kasread.ListGet, and per resource   *)
(* the client (its filter key), the columns its decoder takes over (the    *)
(* keys of the JSON and YAML output, named like the columns), and those    *)
(* its two table views show.                                               *)
(*                                                                         *)
(* A row is a function from the columns the server knows to their values;  *)
(* an entry is a row as decoded.  A cell of a table view that is put       *)
(* together from several columns counts as all of them.                    *)
(***************************************************************************)
EXTENDS FiniteSets

\* MapString and its kin: a column the server does not send reads as empty.
Decoded(columns, row) ==
    [c \in columns |-> IF c \in DOMAIN row THEN row[c] ELSE ""]

NoEntry == [none |-> TRUE]

\* ListGet.Get: an answer is the set of rows the server sent, or a fault.  It
\* takes the only row, whatever that row says of itself.
Get(value, fault, rows, columns) ==
    IF value = "" \/ fault \/ Cardinality(rows) # 1 THEN NoEntry
    ELSE Decoded(columns, CHOOSE r \in rows : TRUE)

\* ListGet.List.
List(fault, rows, columns) == IF fault THEN {} ELSE {Decoded(columns, r) : r \in rows}

-------------------------------------------------------------------------------

CronjobFilter == "cronjob_id"
CronjobColumns ==
    {"cronjob_id", "cronjob_comment", "shell_command", "timeout", "protocol", "http_url",
     "http_user", "http_password", "minute", "hour", "day_of_month", "month",
     "day_of_week", "mail_adress", "mail_condition", "mail_subject", "is_active"}
CronjobRow ==
    {"cronjob_id", "cronjob_comment", "minute", "hour", "day_of_month", "month",
     "day_of_week", "protocol", "http_url", "shell_command", "is_active"}
CronjobDetail == CronjobColumns \ {"http_password"}

\* The filter of get_ddnsusers is spelled unlike the column.  A slip first.
DDNSFilterLikeColumn == "dyndns_login"
DDNSFilter == "ddns_login"
DDNSColumns ==
    {"dyndns_login", "dyndns_password", "dyndns_zone", "dyndns_label", "dyndns_target_ip",
     "dyndns_target_ipv4", "dyndns_target_ipv6", "dyndns_dual_stack", "dyndns_comment",
     "in_progress"}
DDNSRow ==
    {"dyndns_login", "dyndns_label", "dyndns_zone", "dyndns_target_ip",
     "dyndns_dual_stack", "dyndns_comment", "in_progress"}
\* An empty target_ipv4, target_ipv6 or in_progress leaves its line out.
DDNSDetail == DDNSColumns \ {"dyndns_password"}

DatabaseFilter == "database_login"
DatabaseColumns ==
    {"database_name", "database_login", "database_password", "database_comment",
     "database_allowed_hosts", "used_database_space", "in_progress"}
DatabaseRow == DatabaseColumns \ {"database_password"}
DatabaseDetail == DatabaseColumns \ {"database_password"}

FTPUserFilter == "ftp_login"
FTPUserColumns ==
    {"ftp_login", "ftp_password", "ftp_passwort", "ftp_path", "ftp_comment",
     "ftp_is_main_user", "ftp_permission_list", "ftp_permission_read",
     "ftp_permission_write", "ftp_virus_clamav", "in_progress"}
FTPUserRow == FTPUserColumns \ {"ftp_password", "ftp_passwort"}
FTPUserDetail == FTPUserColumns \ {"ftp_password", "ftp_passwort"}

SambaUserFilter == "samba_login"
SambaUserColumns ==
    {"samba_login", "samba_password", "samba_path", "samba_comment", "in_progress"}
SambaUserRow == SambaUserColumns \ {"samba_password"}
SambaUserDetail == SambaUserColumns \ {"samba_password"}

\* A list only, of one path if --path says so.
DirectoryProtectionFilter == "directory_path"
DirectoryProtectionColumns ==
    {"directory_user", "directory_path", "directory_authname", "directory_password",
     "in_progress"}
DirectoryProtectionRow == DirectoryProtectionColumns \ {"directory_password"}

MailAccountFilter == "mail_login"
MailAccountColumns ==
    {"mail_login", "mail_password", "mail_adresses", "mail_addresses", "mail_comment",
     "mail_responder", "mail_responder_text", "mail_responder_displayname",
     "mail_responder_content_type", "mail_copy_adress", "mail_copy_address",
     "mail_sender_alias", "mail_spamfilter", "in_progress", "mail_xlist_enabled",
     "mail_xlist_sent", "mail_xlist_drafts", "mail_xlist_trash", "mail_xlist_spam",
     "mail_xlist_archiv", "used_mailaccount_space", "mail_is_active", "show_password",
     "mail_allow_nets", "mail_2fa", "quota_rule", "webmail_autologin"}
MailAccountRow ==
    {"mail_login", "mail_addresses", "used_mailaccount_space", "mail_responder",
     "mail_is_active", "in_progress"}
MailAccountDetail ==
    MailAccountColumns \ {"mail_password", "mail_adresses", "mail_copy_adress",
                          "mail_responder_text"}

MailForwardFilter == "mail_forward"
MailForwardColumns ==
    {"mail_forward_adress", "mail_forward_address", "mail_forward_comment",
     "mail_forward_targets", "mail_forward_spamfilter", "in_progress"}
MailForwardRow == MailForwardColumns \ {"mail_forward_adress"}
MailForwardDetail == MailForwardColumns \ {"mail_forward_adress"}

MailingListFilter == "mailinglist_name"
MailingListColumns ==
    {"mailinglist_name", "mailinglist_domain", "mailinglist_password",
     "mailinglist_is_active", "mailinglist_subscriber", "mailinglist_config",
     "mailinglist_restrict_post", "in_progress"}
MailingListRow ==
    {"mailinglist_name", "mailinglist_domain", "mailinglist_is_active", "in_progress"}
MailingListDetail == MailingListColumns \ {"mailinglist_password"}
===============================================================================
