------------------------------ MODULE WriteClients ------------------------------
(***************************************************************************)
(* The clients of the resources that kasapi-cli writes (internal/cronjob,  *)
(* ddns, database, ftpuser, sambauser, directoryprotection, mailaccount,   *)
(* mailfilter, mailforward, mailinglist: write.go).                        *)
(*                                                                         *)
(* A method checks its arguments and builds the parameters of one KAS      *)
(* action, so it is an operator that yields a request: the action, its     *)
(* parameters (a function from wire keys to values) and whether the        *)
(* arguments pass.  A Spec is a record with the fields of the Go struct;   *)
(* fields are the parameters an update changes.                            *)
(***************************************************************************)
EXTENDS Sequences, Integers
SequencesOf == INSTANCE SequencesExt

Request(passes, action, params) ==
    [passes |-> passes, action |-> action, params |-> params]

\* Every one of these fields of s is non-empty.
Given(s, fields) == \A x \in fields : s[x] # ""

\* Two functions in one, the first with precedence, and a function of one key:
\* @@ and :> of module TLC, which the provers do not know.
f ++ g == [x \in DOMAIN f \cup DOMAIN g |-> IF x \in DOMAIN f THEN f[x] ELSE g[x]]
Only(key, value) == [x \in {key} |-> value]

\* The parameters of an update or a delete: the identifier under its key, and
\* the fields to change verbatim over it.
With(key, id, fields) == fields ++ Only(key, id)

\* strings.Join.
Join(items, separator) ==
    IF items = <<>> THEN ""
    ELSE SequencesOf!FoldLeft(LAMBDA text, item : text \o separator \o item,
                              Head(items), Tail(items))

Something(fields) == DOMAIN fields # {}
Nothing == <<>>

-------------------------------------------------------------------------------
\* Cronjobs.  KAS spells mail_adress with one d.

CronjobAdd(s) ==
    Request(
        Given(s, {"Protocol", "HTTPURL", "Comment", "Minute", "Hour", "DayOfMonth",
                  "Month", "DayOfWeek"}),
        "add_cronjob",
        [protocol |-> s.Protocol, http_url |-> s.HTTPURL, cronjob_comment |-> s.Comment,
         minute |-> s.Minute, hour |-> s.Hour, day_of_month |-> s.DayOfMonth,
         month |-> s.Month, day_of_week |-> s.DayOfWeek, http_user |-> s.HTTPUser,
         http_password |-> s.HTTPPassword, mail_adress |-> s.MailAdress,
         mail_condition |-> s.MailCondition, mail_subject |-> s.MailSubject,
         is_active |-> s.IsActive])

CronjobUpdate(id, fields) ==
    Request(id # "" /\ Something(fields), "update_cronjob", With("cronjob_id", id, fields))

CronjobDelete(id) == Request(id # "", "delete_cronjob", With("cronjob_id", id, Nothing))

-------------------------------------------------------------------------------
\* DDNS users: one password key for add and update; add takes one target only.

DDNSAdd(s) ==
    Request(Given(s, {"Password", "Zone", "Label", "TargetIP", "Comment"}), "add_ddnsuser",
            [dyndns_password |-> s.Password, dyndns_zone |-> s.Zone,
             dyndns_label |-> s.Label, dyndns_target_ip |-> s.TargetIP,
             dyndns_comment |-> s.Comment, dyndns_dual_stack |-> s.DualStack])

DDNSUpdate(login, fields) ==
    Request(login # "" /\ Something(fields), "update_ddnsuser",
            With("dyndns_login", login, fields))

DDNSDelete(login) ==
    Request(login # "", "delete_ddnsuser", With("dyndns_login", login, Nothing))

-------------------------------------------------------------------------------
\* Databases.  An empty list of allowed hosts passes: it means any host.

DatabaseAdd(s) ==
    Request(Given(s, {"Password", "Comment"}), "add_database",
            [database_password |-> s.Password, database_comment |-> s.Comment,
             database_allowed_hosts |-> s.AllowedHosts])

DatabaseUpdate(login, fields) ==
    Request(login # "" /\ Something(fields), "update_database",
            With("database_login", login, fields))

DatabaseDelete(login) ==
    Request(login # "", "delete_database", With("database_login", login, Nothing))

-------------------------------------------------------------------------------
\* FTP users.

FTPUserAdd(s) ==
    Request(Given(s, {"Password", "Comment"}), "add_ftpuser",
            [ftp_password |-> s.Password, ftp_comment |-> s.Comment, ftp_path |-> s.Path,
             ftp_permission_read |-> s.PermissionRead,
             ftp_permission_write |-> s.PermissionWrite,
             ftp_permission_list |-> s.PermissionList, ftp_virus_clamav |-> s.VirusClamAV])

FTPUserUpdate(login, fields) ==
    Request(login # "" /\ Something(fields), "update_ftpuser", With("ftp_login", login, fields))

FTPUserDelete(login) ==
    Request(login # "", "delete_ftpuser", With("ftp_login", login, Nothing))

-------------------------------------------------------------------------------
\* Samba users.

SambaUserAdd(s) ==
    Request(Given(s, {"Password", "Comment", "Path"}), "add_sambauser",
            [samba_password |-> s.Password, samba_comment |-> s.Comment,
             samba_path |-> s.Path])

SambaUserUpdate(login, fields) ==
    Request(login # "" /\ Something(fields), "update_sambauser",
            With("samba_login", login, fields))

SambaUserDelete(login) ==
    Request(login # "", "delete_sambauser", With("samba_login", login, Nothing))

-------------------------------------------------------------------------------
\* Directory protections, named by a path and a user.

DirectoryProtectionAdd(s) ==
    Request(Given(s, {"User", "Path", "Password"}), "add_directoryprotection",
            [directory_user |-> s.User, directory_path |-> s.Path,
             directory_password |-> s.Password, directory_authname |-> s.AuthName])

DirectoryProtectionUpdate(path, user, fields) ==
    Request(path # "" /\ user # "" /\ Something(fields), "update_directoryprotection",
            fields ++ [directory_path |-> path, directory_user |-> user])

DirectoryProtectionDelete(path, user) ==
    Request(path # "" /\ user # "", "delete_directoryprotection",
            [directory_path |-> path, directory_user |-> user])

-------------------------------------------------------------------------------
\* Mail accounts: created for an address, known by a generated login.

MailAccountAdd(s) ==
    Request(
        Given(s, {"LocalPart", "DomainPart", "Password"}), "add_mailaccount",
        [local_part |-> s.LocalPart, domain_part |-> s.DomainPart,
         mail_password |-> s.Password, webmail_autologin |-> s.WebmailAutologin,
         responder |-> s.Responder, mail_responder_content_type |-> s.ResponderContentType,
         mail_responder_displayname |-> s.ResponderDisplayName,
         responder_text |-> s.ResponderText, copy_adress |-> s.CopyAddress,
         mail_sender_alias |-> s.SenderAlias, mail_xlist_enabled |-> s.XListEnabled,
         mail_xlist_sent |-> s.XListSent, mail_xlist_drafts |-> s.XListDrafts,
         mail_xlist_trash |-> s.XListTrash, mail_xlist_spam |-> s.XListSpam,
         mail_xlist_archiv |-> s.XListArchiv, mail_allow_nets |-> s.AllowNets])

MailAccountUpdate(login, fields) ==
    Request(login # "" /\ Something(fields), "update_mailaccount",
            With("mail_login", login, fields))

MailAccountDelete(login) ==
    Request(login # "", "delete_mailaccount", With("mail_login", login, Nothing))

-------------------------------------------------------------------------------
\* The filter chain of a mail account: joined with ';' and replaced as a whole.
\* The model has one item that contains a ';' itself.

Semicolon == "a;b"

JoinFilters(items) ==
    [passes |-> Len(items) > 0 /\ \A i \in DOMAIN items : items[i] \notin {"", Semicolon},
     chain |-> Join(items, ";")]

MailFilterAdd(login, items) ==
    Request(login # "" /\ JoinFilters(items).passes, "add_mailstandardfilter",
            [mail_login |-> login, filter |-> JoinFilters(items).chain])

MailFilterDelete(login) ==
    Request(login # "", "delete_mailstandardfilter", With("mail_login", login, Nothing))

-------------------------------------------------------------------------------
\* Mail forwards.  addTargets numbers the targets from 0.

addTargets(targets) ==
    LET key == <<"target_0", "target_1", "target_2">>
    IN  [k \in {key[i] : i \in DOMAIN targets} |->
            targets[CHOOSE i \in DOMAIN targets : key[i] = k]]

MailForwardAdd(local, domain, targets) ==
    Request(local # "" /\ domain # "" /\ Len(targets) > 0, "add_mailforward",
            addTargets(targets) ++ [local_part |-> local, domain_part |-> domain])

MailForwardUpdate(address, targets) ==
    Request(address # "" /\ Len(targets) > 0, "update_mailforward",
            With("mail_forward", address, addTargets(targets)))

MailForwardDelete(address) ==
    Request(address # "", "delete_mailforward", With("mail_forward", address, Nothing))

-------------------------------------------------------------------------------
\* Mailing lists, named by their name alone once they exist.

MailingListAdd(name, domain, password) ==
    Request(name # "" /\ domain # "" /\ password # "", "add_mailinglist",
            [mailinglist_name |-> name, mailinglist_domain |-> domain,
             mailinglist_password |-> password])

MailingListUpdate(name, fields) ==
    Request(name # "" /\ Something(fields), "update_mailinglist",
            With("mailinglist_name", name, fields))

MailingListDelete(name) ==
    Request(name # "", "delete_mailinglist", With("mailinglist_name", name, Nothing))
===============================================================================
