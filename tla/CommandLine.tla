------------------------------ MODULE CommandLine ------------------------------
(***************************************************************************)
(* The write commands of kasapi-cli (internal/cli/cronjobs.go,             *)
(* ddnsusers.go, databases.go, ftpusers.go, sambausers.go,                 *)
(* directoryprotection.go, mail.go).                                       *)
(*                                                                         *)
(* flags is a function from the flags given on the command line to their   *)
(* values (a '-' of a flag is a '_' here); the values of a repeated flag   *)
(* are a sequence, those of a switch "true" and "false".  An ...AddFlags   *)
(* record holds the defaults.  A command yields a writeSpec: whether its   *)
(* usage is right, whether it is destructive, its target in the prompt and *)
(* the audit record, the request it dispatches and whether it reports the  *)
(* identifier the server gives the new entry.                              *)
(***************************************************************************)
EXTENDS WriteClients

writeSpec(usage, destructive, target, request, created) ==
    [usage |-> usage, destructive |-> destructive, target |-> target,
     request |-> request, created |-> created]

boolToYN(b) == IF b = "true" THEN "Y" ELSE "N"

\* A slip: a flag counts only with a non-empty value.
ChangedNonEmpty(flags, key, switches) ==
    LET given == {x \in DOMAIN flags : flags[x] # ""}
    IN  [k \in {key[x] : x \in given} |->
            LET x == CHOOSE y \in given : key[y] = k
            IN  IF x \in switches THEN boolToYN(flags[x]) ELSE flags[x]]

\* The fields of an update: the flags that were given, under their wire keys.
\* An empty value is a value: it clears the setting.
Changed(flags, key, switches) ==
    [k \in {key[x] : x \in DOMAIN flags} |->
        LET x == CHOOSE y \in DOMAIN flags : key[y] = k
        IN  IF x \in switches THEN boolToYN(flags[x]) ELSE flags[x]]

-------------------------------------------------------------------------------
\* cronjobs

CronjobAddFlags ==
    [protocol |-> "https", url |-> "", comment |-> "", minute |-> "", hour |-> "",
     day_of_month |-> "*", month |-> "*", day_of_week |-> "*", http_user |-> "",
     http_password |-> "", mail_address |-> "", mail_condition |-> "",
     mail_subject |-> "default", active |-> "true"]

CronjobSpec(f) ==
    [Protocol |-> f.protocol, HTTPURL |-> f.url, Comment |-> f.comment,
     Minute |-> f.minute, Hour |-> f.hour, DayOfMonth |-> f.day_of_month,
     Month |-> f.month, DayOfWeek |-> f.day_of_week, HTTPUser |-> f.http_user,
     HTTPPassword |-> f.http_password, MailAdress |-> f.mail_address,
     MailCondition |-> f.mail_condition, MailSubject |-> f.mail_subject,
     IsActive |-> boolToYN(f.active)]

CronjobsAdd(flags) ==
    LET f == flags ++ CronjobAddFlags
    IN  writeSpec(Given(f, {"url", "comment", "minute", "hour"}), FALSE, f.comment,
                  CronjobAdd(CronjobSpec(f)), TRUE)

\* A slip: spelled as in English.
CronjobKeysInEnglish ==
    [protocol |-> "protocol", url |-> "http_url", comment |-> "cronjob_comment",
     minute |-> "minute", hour |-> "hour", day_of_month |-> "day_of_month",
     month |-> "month", day_of_week |-> "day_of_week", http_user |-> "http_user",
     http_password |-> "http_password", mail_address |-> "mail_address",
     mail_condition |-> "mail_condition", mail_subject |-> "mail_subject",
     active |-> "is_active"]
CronjobKeys ==
    [protocol |-> "protocol", url |-> "http_url", comment |-> "cronjob_comment",
     minute |-> "minute", hour |-> "hour", day_of_month |-> "day_of_month",
     month |-> "month", day_of_week |-> "day_of_week", http_user |-> "http_user",
     http_password |-> "http_password", mail_address |-> "mail_adress",
     mail_condition |-> "mail_condition", mail_subject |-> "mail_subject",
     active |-> "is_active"]

CronjobsUpdate(id, flags) ==
    LET fields == Changed(flags, CronjobKeys, {"active"})
    IN  writeSpec(Something(fields), TRUE, id, CronjobUpdate(id, fields), FALSE)

CronjobsDelete(id) == writeSpec(TRUE, TRUE, id, CronjobDelete(id), FALSE)

-------------------------------------------------------------------------------
\* ddnsusers

DDNSUserAddFlags ==
    [password |-> "", zone |-> "", label |-> "", target_ip |-> "", comment |-> "",
     dual_stack |-> "false"]

DDNSUserSpec(f) ==
    [Password |-> f.password, Zone |-> f.zone, Label |-> f.label, TargetIP |-> f.target_ip,
     Comment |-> f.comment, DualStack |-> boolToYN(f.dual_stack)]

\* A slip: the record is not told the generated login.
DDNSUsersAddSilent(flags) ==
    LET f == flags ++ DDNSUserAddFlags
    IN  writeSpec(Given(f, {"password", "zone", "label", "target_ip", "comment"}), FALSE,
                  f.comment, DDNSAdd(DDNSUserSpec(f)), FALSE)
DDNSUsersAdd(flags) ==
    LET f == flags ++ DDNSUserAddFlags
    IN  writeSpec(Given(f, {"password", "zone", "label", "target_ip", "comment"}), FALSE,
                  f.comment, DDNSAdd(DDNSUserSpec(f)), TRUE)

DDNSUserKeys ==
    [password |-> "dyndns_password", comment |-> "dyndns_comment",
     target_ipv4 |-> "dyndns_target_ipv4", target_ipv6 |-> "dyndns_target_ipv6",
     dual_stack |-> "dyndns_dual_stack"]

DDNSUsersUpdate(login, flags) ==
    LET fields == Changed(flags, DDNSUserKeys, {"dual_stack"})
    IN  writeSpec(Something(fields), TRUE, login, DDNSUpdate(login, fields), FALSE)

DDNSUsersDelete(login) == writeSpec(TRUE, TRUE, login, DDNSDelete(login), FALSE)

-------------------------------------------------------------------------------
\* databases

DatabaseAddFlags == [password |-> "", comment |-> "", allowed_hosts |-> ""]

DatabaseSpec(f) ==
    [Password |-> f.password, Comment |-> f.comment, AllowedHosts |-> f.allowed_hosts]

DatabasesAdd(flags) ==
    LET f == flags ++ DatabaseAddFlags
    IN  writeSpec(Given(f, {"password", "comment"}), FALSE, f.comment,
                  DatabaseAdd(DatabaseSpec(f)), TRUE)

DatabaseKeys ==
    [password |-> "database_new_password", comment |-> "database_comment",
     allowed_hosts |-> "database_allowed_hosts"]

DatabasesUpdate(login, flags) ==
    LET fields == Changed(flags, DatabaseKeys, {})
    IN  writeSpec(Something(fields), TRUE, login, DatabaseUpdate(login, fields), FALSE)

DatabasesDelete(login) == writeSpec(TRUE, TRUE, login, DatabaseDelete(login), FALSE)

-------------------------------------------------------------------------------
\* ftpusers

FTPUserAddFlags ==
    [password |-> "", comment |-> "", path |-> "/", permission_read |-> "true",
     permission_write |-> "true", permission_list |-> "true", virus_clamav |-> "true"]

FTPUserSpec(f) ==
    [Password |-> f.password, Comment |-> f.comment, Path |-> f.path,
     PermissionRead |-> boolToYN(f.permission_read),
     PermissionWrite |-> boolToYN(f.permission_write),
     PermissionList |-> boolToYN(f.permission_list),
     VirusClamAV |-> boolToYN(f.virus_clamav)]

FTPUsersAdd(flags) ==
    LET f == flags ++ FTPUserAddFlags
    IN  writeSpec(Given(f, {"password", "comment"}), FALSE, f.comment,
                  FTPUserAdd(FTPUserSpec(f)), TRUE)

FTPUserKeys ==
    [password |-> "ftp_new_password", comment |-> "ftp_comment", path |-> "ftp_path",
     permission_read |-> "ftp_permission_read", permission_write |-> "ftp_permission_write",
     permission_list |-> "ftp_permission_list", virus_clamav |-> "ftp_virus_clamav"]

FTPUsersUpdate(login, flags) ==
    LET fields == Changed(flags, FTPUserKeys, {"permission_read", "permission_write",
                                               "permission_list", "virus_clamav"})
    IN  writeSpec(Something(fields), TRUE, login, FTPUserUpdate(login, fields), FALSE)

FTPUsersDelete(login) == writeSpec(TRUE, TRUE, login, FTPUserDelete(login), FALSE)

-------------------------------------------------------------------------------
\* sambausers

SambaUserAddFlags == [password |-> "", comment |-> "", path |-> ""]

SambaUserSpec(f) == [Password |-> f.password, Comment |-> f.comment, Path |-> f.path]

SambaUsersAdd(flags) ==
    LET f == flags ++ SambaUserAddFlags
    IN  writeSpec(Given(f, {"password", "comment", "path"}), FALSE, f.comment,
                  SambaUserAdd(SambaUserSpec(f)), TRUE)

SambaUserKeys ==
    [password |-> "samba_new_password", comment |-> "samba_comment", path |-> "samba_path"]

SambaUsersUpdate(login, flags) ==
    LET fields == Changed(flags, SambaUserKeys, {})
    IN  writeSpec(Something(fields), TRUE, login, SambaUserUpdate(login, fields), FALSE)

SambaUsersDelete(login) == writeSpec(TRUE, TRUE, login, SambaUserDelete(login), FALSE)

-------------------------------------------------------------------------------
\* directoryprotection: the path and the user are arguments, and both together
\* (dpIdent) are the target.

dpIdent(path, user) == <<path, user>>

DirectoryProtectionsAdd(path, user, flags) ==
    LET f == flags ++ [password |-> "", authname |-> ""]
    IN  writeSpec(Given(f, {"password"}), FALSE, dpIdent(path, user),
                  DirectoryProtectionAdd([User |-> user, Path |-> path,
                                          Password |-> f.password, AuthName |-> f.authname]),
                  FALSE)

DirectoryProtectionsUpdate(path, user, flags) ==
    LET fields == Changed(flags, [password |-> "directory_password",
                                  authname |-> "directory_authname"], {})
    IN  writeSpec(Something(fields), TRUE, dpIdent(path, user),
                  DirectoryProtectionUpdate(path, user, fields), FALSE)

DirectoryProtectionsDelete(path, user) ==
    writeSpec(TRUE, TRUE, dpIdent(path, user), DirectoryProtectionDelete(path, user), FALSE)

-------------------------------------------------------------------------------
\* mail: an address is split at its last '@'; both parts must be there.

\* The addresses of the model: "" and NoAt cannot be split, the others can.
NoAt == "no-at"
Parts == [a |-> <<"local-a", "domain-a">>, b |-> <<"local-b", "domain-b">>]

splitMailAddress(addr) ==
    [passes |-> addr \notin {"", NoAt},
     local |-> IF addr \in DOMAIN Parts THEN Parts[addr][1] ELSE "",
     domain |-> IF addr \in DOMAIN Parts THEN Parts[addr][2] ELSE ""]

MailAccountAddFlags ==
    [password |-> "", webmail_autologin |-> "Y", responder |-> "N",
     responder_content_type |-> "text", responder_displayname |-> "", responder_text |-> "",
     copy_address |-> "", sender_alias |-> "", xlist_enabled |-> "Y", xlist_sent |-> "Sent",
     xlist_drafts |-> "Drafts", xlist_trash |-> "Trash", xlist_spam |-> "Spam",
     xlist_archiv |-> "Archive", allow_nets |-> ""]

MailAccountSpec(f, local, domain) ==
    [LocalPart |-> local, DomainPart |-> domain, Password |-> f.password,
     WebmailAutologin |-> f.webmail_autologin, Responder |-> f.responder,
     ResponderContentType |-> f.responder_content_type,
     ResponderDisplayName |-> f.responder_displayname, ResponderText |-> f.responder_text,
     CopyAddress |-> f.copy_address, SenderAlias |-> f.sender_alias,
     XListEnabled |-> f.xlist_enabled, XListSent |-> f.xlist_sent,
     XListDrafts |-> f.xlist_drafts, XListTrash |-> f.xlist_trash,
     XListSpam |-> f.xlist_spam, XListArchiv |-> f.xlist_archiv, AllowNets |-> f.allow_nets]

MailAccountsAdd(addr, flags) ==
    LET f == flags ++ MailAccountAddFlags
        at == splitMailAddress(addr)
    IN  writeSpec(at.passes /\ Given(f, {"password"}), FALSE, addr,
                  MailAccountAdd(MailAccountSpec(f, at.local, at.domain)), TRUE)

MailAccountKeys ==
    [password |-> "mail_new_password", active |-> "is_active",
     webmail_autologin |-> "webmail_autologin", responder |-> "responder",
     responder_content_type |-> "mail_responder_content_type",
     responder_displayname |-> "mail_responder_displayname",
     responder_text |-> "responder_text", copy_address |-> "copy_adress",
     sender_alias |-> "mail_sender_alias", xlist_enabled |-> "mail_xlist_enabled",
     xlist_sent |-> "mail_xlist_sent", xlist_drafts |-> "mail_xlist_drafts",
     xlist_trash |-> "mail_xlist_trash", xlist_spam |-> "mail_xlist_spam",
     xlist_archiv |-> "mail_xlist_archiv", allow_nets |-> "mail_allow_nets"]

MailAccountsUpdate(login, flags) ==
    LET fields == Changed(flags, MailAccountKeys, {})
    IN  writeSpec(Something(fields), TRUE, login, MailAccountUpdate(login, fields), FALSE)

MailAccountsDelete(login) == writeSpec(TRUE, TRUE, login, MailAccountDelete(login), FALSE)

\* mail filters: add replaces the whole chain, so it is destructive too.  A slip
\* first: as harmless as any other add.
MailFiltersAddUngated(login, flags) ==
    LET f == flags ++ [filter |-> <<>>]
    IN  writeSpec(JoinFilters(f.filter).passes, FALSE, login,
                  MailFilterAdd(login, f.filter), FALSE)
MailFiltersAdd(login, flags) ==
    LET f == flags ++ [filter |-> <<>>]
    IN  writeSpec(JoinFilters(f.filter).passes, TRUE, login,
                  MailFilterAdd(login, f.filter), FALSE)

MailFiltersDelete(login) == writeSpec(TRUE, TRUE, login, MailFilterDelete(login), FALSE)

\* mail forwards
MailForwardsAdd(addr, flags) ==
    LET f == flags ++ [target |-> <<>>]
        at == splitMailAddress(addr)
    IN  writeSpec(at.passes /\ Len(f.target) > 0, FALSE, addr,
                  MailForwardAdd(at.local, at.domain, f.target), TRUE)

MailForwardsUpdate(addr, flags) ==
    LET f == flags ++ [target |-> <<>>]
    IN  writeSpec(Len(f.target) > 0, TRUE, addr, MailForwardUpdate(addr, f.target), FALSE)

MailForwardsDelete(addr) == writeSpec(TRUE, TRUE, addr, MailForwardDelete(addr), FALSE)

\* mail lists: the lists of addresses are joined with newlines, the config is
\* read from a file that may not be readable.
MailListsAdd(name, flags) ==
    LET f == flags ++ [domain |-> "", password |-> ""]
    IN  writeSpec(Given(f, {"domain", "password"}), FALSE, name,
                  MailingListAdd(name, f.domain, f.password), TRUE)

MailListsUpdate(name, flags, readable) ==
    LET lines == {"subscriber", "restrict_post"}
        text == [x \in DOMAIN flags |-> IF x \in lines THEN Join(flags[x], "\n") ELSE flags[x]]
        fields == Changed(text, [subscriber |-> "subscriber",
                                 restrict_post |-> "restrict_post",
                                 config_file |-> "config", active |-> "is_active"], {})
    IN  writeSpec(Something(fields) /\ ("config_file" \in DOMAIN flags => readable), TRUE,
                  name, MailingListUpdate(name, fields), FALSE)

MailListsDelete(name) == writeSpec(TRUE, TRUE, name, MailingListDelete(name), FALSE)
===============================================================================
