-------------------------------- MODULE Commands --------------------------------
(***************************************************************************)
(* The resource commands of kasapi-cli from the command line to the        *)
(* entries of the KAS server and back: `add`, `update` and `delete` over   *)
(* runWriteE with their dry run, gate, dispatch and audit record, `get`    *)
(* and `list` over runGetE and runListE.                                   *)
(*                                                                         *)
(* One kind of resource, one command after another.  What WriteRunner      *)
(* models in steps (prompt, sinks, retries) is one step here; what it      *)
(* leaves open (which parameters, which entry, which fields of the record) *)
(* is the subject.                                                         *)
(***************************************************************************)
EXTENDS KasResources

CONSTANT MaxRuns \* bound on the commands of a behaviour

ASSUME MaxRunsAssumption == MaxRuns \in Nat

VARIABLES kind,   \* the kind of resource
          table,  \* the server's entries of that kind
          cmd,    \* the command line
          pc,     \* where the command is
          spec,   \* the writeSpec that build made of it
          reply,  \* how the dispatch ended: [fate, id, told], where told says
                  \* whether the answer of an add had the identifier in it
          record, \* the audit record: [outcome, target, fields]
          shown,  \* the parameters a dry run, or the entries a read, prints
          exit,   \* the exit code
          runs    \* the commands so far

vars == <<kind, table, cmd, pc, spec, reply, record, shown, exit, runs>>

NoSpec == writeSpec(FALSE, FALSE, "", Request(FALSE, "", Nothing), FALSE)
Reply(fate, id, told) == [fate |-> fate, id |-> id, told |-> told]
NoReply == Reply("none", "", FALSE)
NoCommand == [op |-> "none", arg |-> "", flags |-> Nothing, dryRun |-> FALSE,
              consent |-> FALSE, readable |-> FALSE, view |-> "json"]
NoRecord == [outcome |-> "none", target |-> "", fields |-> Nothing]

-------------------------------------------------------------------------------
\* The command lines.  A flag given a value is given its own name, a secret, or a
\* text of two lines; a repeated one is given twice, once or empty.

Secret == "secret"
Secrets == {"password", "http_password"}
Text == "line\nline"
Texts == {"config_file", "responder_text"}
Switches == {"active", "dual_stack", "permission_read", "permission_write",
             "permission_list", "virus_clamav"}
Repeated == {"subscriber", "restrict_post", "target", "filter"}

\* No list of the command lines, joined, is the password.  It is a fact about strings,
\* which the provers know nothing of: TLC evaluates it.
ASSUME JoinsAssumption ==
    \A flag \in Repeated, separator \in {",", ";", "\n"} :
       \A items \in {<<>>, <<flag>>, <<"">>, <<Semicolon>>, <<flag, "second">>} :
          Join(items, separator) # Secret

IsSwitch(flag) == flag \in Switches /\ kind \notin {"mailaccount", "mailinglist"}

Value(flag) ==
    CASE IsSwitch(flag) -> "false"
      [] flag \in Repeated -> <<flag, "second">>
      [] flag \in Secrets -> Secret
      [] flag \in Texts -> Text
      [] OTHER -> flag
Others(flag) ==
    CASE IsSwitch(flag) -> {"true"}
      [] flag \in Repeated -> {<<>>, <<flag>>, <<"">>, <<Semicolon>>}
      [] OTHER -> {""}

AddFlags ==
    CASE kind = "cronjob" -> CronjobAddFlags
      [] kind = "ddnsuser" -> DDNSUserAddFlags
      [] kind = "database" -> DatabaseAddFlags
      [] kind = "ftpuser" -> FTPUserAddFlags
      [] kind = "sambauser" -> SambaUserAddFlags
      [] kind = "directoryprotection" -> [password |-> "", authname |-> ""]
      [] kind = "mailaccount" -> MailAccountAddFlags
      [] kind = "mailfilter" -> [filter |-> <<>>]
      [] kind = "mailforward" -> [target |-> <<>>]
      [] kind = "mailinglist" -> [domain |-> "", password |-> ""]

UpdateFlags ==
    CASE kind = "cronjob" -> DOMAIN CronjobKeys
      [] kind = "ddnsuser" -> DOMAIN DDNSUserKeys
      [] kind = "database" -> DOMAIN DatabaseKeys
      [] kind = "ftpuser" -> DOMAIN FTPUserKeys
      [] kind = "sambauser" -> DOMAIN SambaUserKeys
      [] kind = "directoryprotection" -> {"password", "authname"}
      [] kind = "mailaccount" -> DOMAIN MailAccountKeys
      [] kind = "mailfilter" -> {}
      [] kind = "mailforward" -> {"target"}
      [] kind = "mailinglist" -> {"subscriber", "restrict_post", "config_file", "active"}

\* add and update are given all their flags, all but one, or one of them with
\* another value; update also one flag alone, or none.
Variants(flags) ==
    LET full == [x \in flags |-> Value(x)]
    IN  {full} \cup {[y \in flags \ {x} |-> full[y]] : x \in flags}
        \cup UNION {{[full EXCEPT ![x] = v] : v \in Others(x)} : x \in flags}
AddLines == Variants(DOMAIN AddFlags)
UpdateLines ==
    {Nothing} \cup Variants(UpdateFlags)
    \cup UNION {{Only(x, v) : v \in {Value(x)} \cup Others(x)} : x \in UpdateFlags}

\* What the arguments may name: an entry, nothing, or what is no address.
Arguments(op) ==
    IF kind = "directoryprotection"
    THEN IF op = "list" THEN {"", "a"} ELSE Ids(kind) \cup {<<"", "user">>, <<"a", "">>}
    ELSE IF op = "add" /\ kind = "mailinglist" THEN {"announce", ""}
    ELSE IF op = "list" \/ (op = "add" /\ kind \in Generated \ {"mailaccount"}) THEN {""}
    ELSE IF op = "add" /\ kind \in {"mailaccount", "mailforward"} THEN {"a", "b", "", NoAt}
    ELSE Ids(kind) \cup {""}

\* To bound the model, only the first command varies its flags.
Lines(op) ==
    LET flags == IF op = "add" THEN DOMAIN AddFlags ELSE UpdateFlags
    IN  IF op \notin {"add", "update"} THEN {Nothing}
        ELSE IF runs > 0 THEN {[x \in flags |-> Value(x)]}
        ELSE IF op = "add" THEN AddLines ELSE UpdateLines

\* get is missing where no command has it, update where there is none.
Operations ==
    CASE kind = "directoryprotection" -> {"add", "update", "delete", "list"}
      [] kind = "mailfilter" -> {"add", "delete"}
      [] OTHER -> {"add", "update", "delete", "list", "get"}

-------------------------------------------------------------------------------
\* The commands.

Add(arg, flags) ==
    CASE kind = "cronjob" -> CronjobsAdd(flags)
      [] kind = "ddnsuser" -> DDNSUsersAdd(flags)
      [] kind = "database" -> DatabasesAdd(flags)
      [] kind = "ftpuser" -> FTPUsersAdd(flags)
      [] kind = "sambauser" -> SambaUsersAdd(flags)
      [] kind = "directoryprotection" -> DirectoryProtectionsAdd(arg[1], arg[2], flags)
      [] kind = "mailaccount" -> MailAccountsAdd(arg, flags)
      [] kind = "mailfilter" -> MailFiltersAdd(arg, flags)
      [] kind = "mailforward" -> MailForwardsAdd(arg, flags)
      [] kind = "mailinglist" -> MailListsAdd(arg, flags)

Update(arg, flags, readable) ==
    CASE kind = "cronjob" -> CronjobsUpdate(arg, flags)
      [] kind = "ddnsuser" -> DDNSUsersUpdate(arg, flags)
      [] kind = "database" -> DatabasesUpdate(arg, flags)
      [] kind = "ftpuser" -> FTPUsersUpdate(arg, flags)
      [] kind = "sambauser" -> SambaUsersUpdate(arg, flags)
      [] kind = "directoryprotection" -> DirectoryProtectionsUpdate(arg[1], arg[2], flags)
      [] kind = "mailaccount" -> MailAccountsUpdate(arg, flags)
      [] kind = "mailforward" -> MailForwardsUpdate(arg, flags)
      [] kind = "mailinglist" -> MailListsUpdate(arg, flags, readable)

Delete(arg) ==
    CASE kind = "cronjob" -> CronjobsDelete(arg)
      [] kind = "ddnsuser" -> DDNSUsersDelete(arg)
      [] kind = "database" -> DatabasesDelete(arg)
      [] kind = "ftpuser" -> FTPUsersDelete(arg)
      [] kind = "sambauser" -> SambaUsersDelete(arg)
      [] kind = "directoryprotection" -> DirectoryProtectionsDelete(arg[1], arg[2])
      [] kind = "mailaccount" -> MailAccountsDelete(arg)
      [] kind = "mailfilter" -> MailFiltersDelete(arg)
      [] kind = "mailforward" -> MailForwardsDelete(arg)
      [] kind = "mailinglist" -> MailListsDelete(arg)

\* What each kind's client reads, and shows in the views of its table.
Reader ==
    CASE kind = "cronjob" -> <<CronjobFilter, CronjobColumns, CronjobRow, CronjobDetail>>
      [] kind = "ddnsuser" -> <<DDNSFilter, DDNSColumns, DDNSRow, DDNSDetail>>
      [] kind = "database" -> <<DatabaseFilter, DatabaseColumns, DatabaseRow, DatabaseDetail>>
      [] kind = "ftpuser" -> <<FTPUserFilter, FTPUserColumns, FTPUserRow, FTPUserDetail>>
      [] kind = "sambauser" ->
            <<SambaUserFilter, SambaUserColumns, SambaUserRow, SambaUserDetail>>
      [] kind = "directoryprotection" ->
            <<DirectoryProtectionFilter, DirectoryProtectionColumns,
              DirectoryProtectionRow, {}>>
      [] kind = "mailaccount" ->
            <<MailAccountFilter, MailAccountColumns, MailAccountRow, MailAccountDetail>>
      [] kind = "mailforward" ->
            <<MailForwardFilter, MailForwardColumns, MailForwardRow, MailForwardDetail>>
      [] kind = "mailinglist" ->
            <<MailingListFilter, MailingListColumns, MailingListRow, MailingListDetail>>

-------------------------------------------------------------------------------
\* RedactParams.

\* The wire keys that contain one of the fragments of redactParam, and the keys
\* it lists; those are the same ones, as far as the commands send them.
Fragment(part) ==
    IF part = "password"
    THEN {"http_password", "dyndns_password", "database_password", "database_new_password",
          "ftp_password", "ftp_new_password", "samba_password", "samba_new_password",
          "directory_password", "mail_password", "mail_new_password",
          "mailinglist_password"}
    ELSE {}
ListedKeys == {"auth_data", "kas_auth_data", "password", "new_password", "mail_password",
               "database_password", "ftp_password", "samba_password", "session", "token"}

\* A slip: without the fragments.
ListedOnly(key) == key \in ListedKeys
redactParam(key) ==
    key \in ListedKeys
    \/ \E part \in {"password", "passwort", "passwd", "secret", "token", "auth_data"} :
          key \in Fragment(part)

\* A value of several lines is elided wherever it is.
Multiline(value) == value = Text \/ \E x \in Repeated : value = Join(Value(x), "\n")

RedactParams(params) ==
    [key \in DOMAIN params |->
        IF redactParam(key) THEN "<redacted>"
        ELSE IF key \in {"config", "subscriber"} \/ Multiline(params[key]) THEN "<elided>"
        ELSE params[key]]

-------------------------------------------------------------------------------
\* What a flag stands for, as its help text and the settings of `get` have it.

Setting ==
    CASE kind = "cronjob" ->
            [protocol |-> "protocol", url |-> "http_url", comment |-> "cronjob_comment",
             minute |-> "minute", hour |-> "hour", day_of_month |-> "day_of_month",
             month |-> "month", day_of_week |-> "day_of_week", http_user |-> "http_user",
             http_password |-> "http_password", mail_address |-> "mail_adress",
             mail_condition |-> "mail_condition", mail_subject |-> "mail_subject",
             active |-> "is_active"]
      [] kind = "ddnsuser" ->
            [password |-> "dyndns_password", zone |-> "dyndns_zone", label |-> "dyndns_label",
             target_ip |-> "dyndns_target_ip", target_ipv4 |-> "dyndns_target_ipv4",
             target_ipv6 |-> "dyndns_target_ipv6", comment |-> "dyndns_comment",
             dual_stack |-> "dyndns_dual_stack"]
      [] kind = "database" ->
            [password |-> "database_password", comment |-> "database_comment",
             allowed_hosts |-> "database_allowed_hosts"]
      [] kind = "ftpuser" ->
            [password |-> "ftp_password", comment |-> "ftp_comment", path |-> "ftp_path",
             permission_read |-> "ftp_permission_read",
             permission_write |-> "ftp_permission_write",
             permission_list |-> "ftp_permission_list", virus_clamav |-> "ftp_virus_clamav"]
      [] kind = "sambauser" ->
            [password |-> "samba_password", comment |-> "samba_comment",
             path |-> "samba_path"]
      [] kind = "directoryprotection" ->
            [password |-> "directory_password", authname |-> "directory_authname"]
      [] kind = "mailaccount" ->
            [password |-> "mail_password", active |-> "mail_is_active",
             webmail_autologin |-> "webmail_autologin", responder |-> "mail_responder",
             responder_content_type |-> "mail_responder_content_type",
             responder_displayname |-> "mail_responder_displayname",
             responder_text |-> "mail_responder_text", copy_address |-> "mail_copy_address",
             sender_alias |-> "mail_sender_alias", xlist_enabled |-> "mail_xlist_enabled",
             xlist_sent |-> "mail_xlist_sent", xlist_drafts |-> "mail_xlist_drafts",
             xlist_trash |-> "mail_xlist_trash", xlist_spam |-> "mail_xlist_spam",
             xlist_archiv |-> "mail_xlist_archiv", allow_nets |-> "mail_allow_nets"]
      [] kind = "mailfilter" -> [filter |-> "mail_spamfilter"]
      [] kind = "mailforward" -> [target |-> "mail_forward_targets"]
      [] kind = "mailinglist" ->
            [domain |-> "mailinglist_domain", password |-> "mailinglist_password",
             subscriber |-> "mailinglist_subscriber",
             restrict_post |-> "mailinglist_restrict_post",
             config_file |-> "mailinglist_config", active |-> "mailinglist_is_active"]

\* The settings of an entry; the address of a mail account is one too.
Settings ==
    {Setting[x] : x \in DOMAIN Setting}
    \cup (IF kind = "mailaccount" THEN {"mail_addresses"} ELSE {})

Passwords ==
    {Setting[x] : x \in Secrets \cap DOMAIN Setting}
    \cup (IF kind = "ftpuser" THEN {"ftp_passwort"} ELSE {})

\* The columns of an entry.
Columns == Settings \cup (IF kind = "mailfilter" THEN {} ELSE Reader[2])

\* An entry from before.
OldRow == [c \in Columns |-> IF c \in Passwords THEN Secret ELSE "old"]

-------------------------------------------------------------------------------
\* A command.

Init ==
    /\ kind \in Kinds
    /\ table \in [Ids(kind) -> {NoRow, OldRow}]
    /\ cmd = NoCommand
    /\ pc = "idle"
    /\ spec = NoSpec /\ reply = NoReply /\ record = NoRecord
    /\ shown = {}
    /\ exit = "none"
    /\ runs = 0

\* Somebody types a command.  consent says whether --yes, or a yes at the
\* prompt, is there when it is needed.
Type ==
    /\ pc = "idle"
    /\ runs < MaxRuns
    /\ \E op \in Operations :
       \E arg \in Arguments(op), flags \in Lines(op), json \in BOOLEAN :
       \E dryRun, consent, readable \in BOOLEAN :
          \* what a command does not look at is not varied
          /\ op \in {"get", "list"} => ~dryRun /\ ~consent
          /\ op \notin {"get", "list"} => json
          /\ dryRun => ~consent
          /\ "config_file" \notin DOMAIN flags => ~readable
          /\ cmd' = [op |-> op, arg |-> arg, flags |-> flags, dryRun |-> dryRun,
                     consent |-> consent, readable |-> readable,
                     view |-> IF json THEN "json" ELSE "table"]
    /\ pc' = IF cmd'.op \in {"get", "list"} THEN "read" ELSE "build"
    /\ runs' = runs + 1
    /\ UNCHANGED <<kind, table, spec, reply, record, shown, exit>>

Exit(code) == pc' = "exited" /\ exit' = code

\* The process is gone; only the table stays.
Return ==
    /\ pc = "exited"
    /\ cmd' = NoCommand
    /\ pc' = "idle"
    /\ spec' = NoSpec /\ reply' = NoReply /\ record' = NoRecord
    /\ shown' = {}
    /\ exit' = "none"
    /\ UNCHANGED <<kind, table, runs>>

\* build: the arguments and flags become a writeSpec, or are wrong.
Build ==
    /\ pc = "build"
    /\ spec' = CASE cmd.op = "add" -> Add(cmd.arg, cmd.flags)
                 [] cmd.op = "update" -> Update(cmd.arg, cmd.flags, cmd.readable)
                 [] cmd.op = "delete" -> Delete(cmd.arg)
    /\ IF spec'.usage THEN pc' = "gate" /\ UNCHANGED exit ELSE Exit("user")
    /\ UNCHANGED <<kind, table, cmd, reply, record, shown, runs>>

Record(outcome, created) ==
    record' = [outcome |-> outcome, target |-> spec.target,
               fields |-> created ++ RedactParams(spec.request.params)]

\* The preview of a dry run, the gate of a destructive command, or neither.
Gate ==
    /\ pc = "gate"
    /\ \/ /\ cmd.dryRun
          /\ shown' = {RedactParams(spec.request.params)}
          /\ Record("dry-run", Nothing)
          /\ Exit("ok")
       \/ /\ ~cmd.dryRun /\ spec.destructive /\ ~cmd.consent
          /\ Record("refused", Nothing)
          /\ Exit("user")
          /\ UNCHANGED shown
       \/ /\ ~cmd.dryRun /\ (spec.destructive => cmd.consent)
          /\ pc' = "dispatch"
          /\ UNCHANGED <<record, shown, exit>>
    /\ UNCHANGED <<kind, table, cmd, spec, reply, runs>>

\* The table with the entry an add, an update or a delete leaves.
Applied(id, sets) ==
    IF cmd.op = "add" THEN [table EXCEPT ![id] = sets]
    ELSE IF cmd.op = "delete" THEN [table EXCEPT ![id] = NoRow]
    ELSE [table EXCEPT ![id] = sets ++ @]

\* The entries the request can be about: a free identifier for an add that the
\* server names, the one it names otherwise.
Reached(params) ==
    LET named == Named(kind, cmd.op, params)
        free == {id \in Ids(kind) : table[id] = NoRow}
    IN  IF kind = "mailfilter" THEN Ids(kind) \cap named
        ELSE IF cmd.op # "add" THEN (Ids(kind) \ free) \cap named
        ELSE IF kind \in Generated THEN free ELSE free \cap named

\* dispatch: the client checks its arguments, then the server does as the
\* parameters say, or refuses.  Its answer to an add may be without a ReturnInfo, and
\* then there is no identifier in it.
Dispatch ==
    /\ pc = "dispatch"
    /\ \/ /\ ~spec.request.passes
          /\ reply' = Reply("invalid", "", FALSE)
          /\ UNCHANGED table
       \/ /\ spec.request.passes
          /\ reply' = Reply("fault", "", FALSE)
          /\ UNCHANGED table
       \/ /\ spec.request.passes
          /\ LET params == spec.request.params
             IN  \E id \in Reached(params),
                    told \in IF cmd.op = "add" THEN BOOLEAN ELSE {TRUE} :
                    /\ table' = Applied(id, Sets(kind, cmd.op, params))
                    /\ reply' = Reply("done", id, told)
    /\ pc' = "record"
    /\ UNCHANGED <<kind, cmd, spec, record, shown, exit, runs>>

\* The audit record, with the new identifier if the command reports it and was told.
Finish ==
    /\ pc = "record"
    /\ IF reply.fate = "done"
       THEN /\ Record("success", IF spec.created /\ reply.told
                                THEN [created_id |-> reply.id] ELSE Nothing)
            /\ Exit("ok")
       ELSE Record("failure", Nothing) /\ Exit("api")
    /\ UNCHANGED <<kind, table, cmd, spec, reply, shown, runs>>

\* What a view of the entries with these columns shows.
View(entries, columns) ==
    IF cmd.view = "json" THEN entries
    ELSE {[c \in columns |-> e[c]] : e \in entries}

\* get and list; the server may always answer with a fault.
Read ==
    /\ pc = "read"
    /\ \E fault \in BOOLEAN :
       LET client == Reader
           rows == Filtered(kind, table, client[1], cmd.arg)
           entry == Get(cmd.arg, fault, rows, client[2])
       IN  IF cmd.op = "list"
           THEN /\ shown' = View(List(fault, rows, client[2]), client[3])
                /\ Exit(IF fault THEN "api" ELSE "ok")
           ELSE IF entry = NoEntry THEN UNCHANGED shown /\ Exit("api")
           ELSE shown' = View({entry}, client[4]) /\ Exit("ok")
    /\ UNCHANGED <<kind, table, cmd, spec, reply, record, runs>>

Next == Type \/ Build \/ Gate \/ Dispatch \/ Finish \/ Read \/ Return
Spec == Init /\ [][Next]_vars

-------------------------------------------------------------------------------
\* What is asked, for ResourceTable.

\* What the value v of flag x means for its setting.
Meaning(x, v) ==
    CASE IsSwitch(x) -> IF v = "true" THEN "Y" ELSE "N"
      [] x = "target" -> Join(v, ",")
      [] x = "filter" -> Join(v, ";")
      [] x \in {"subscriber", "restrict_post"} -> Join(v, "\n")
      [] OTHER -> v

\* What flags say of the settings.
Said(flags) ==
    [c \in {Setting[x] : x \in DOMAIN flags} |->
        LET x == CHOOSE y \in DOMAIN flags : Setting[y] = c IN Meaning(x, flags[x])]

\* The settings an add asks for: as the flag says, or its default; a mail account
\* is to have the address.
Wanted ==
    [c \in Settings |->
        IF kind = "mailaccount" /\ c = "mail_addresses" THEN cmd.arg
        ELSE IF \E x \in DOMAIN AddFlags : Setting[x] = c
        THEN LET x == CHOOSE y \in DOMAIN AddFlags : Setting[y] = c
             IN  Meaning(x, IF x \in DOMAIN cmd.flags THEN cmd.flags[x] ELSE AddFlags[x])
        ELSE ""]

Asked ==
    CASE cmd.op = "add" ->
            [op |-> IF kind = "mailfilter" THEN "replace" ELSE "add",
             ids |-> IF kind \in Generated THEN Ids(kind) ELSE {cmd.arg},
             settings |-> Wanted]
      [] cmd.op = "update" -> [op |-> "update", ids |-> {cmd.arg},
                               settings |-> Said(cmd.flags)]
      [] OTHER -> [op |-> cmd.op, ids |-> {cmd.arg}, settings |-> Nothing]

Stored(id) ==
    IF table[id] = NoRow THEN NoRow
    ELSE [c \in Settings |-> IF c \in DOMAIN table[id] THEN table[id][c] ELSE ""]

Requests == INSTANCE ResourceTable
    WITH rows <- [id \in Ids(kind) |-> Stored(id)],
         asked <- Asked,
         state <- IF pc \in {"build", "gate", "dispatch"} THEN "open" ELSE "closed"

-------------------------------------------------------------------------------
\* Properties.

\* Every variable has its type, and the server only ever gets columns it has:
\* a misspelled wire key would be a new one (KAS spells mail_adress).
TypeOK ==
    /\ kind \in Kinds
    /\ DOMAIN table = Ids(kind)
    /\ \A id \in Ids(kind) :
          table[id] = NoRow \/ DOMAIN table[id] \subseteq Columns
    /\ cmd.op \in Operations \cup {"none"}
    /\ pc \in {"idle", "build", "gate", "dispatch", "record", "read", "exited"}
    /\ reply.fate \in {"none", "invalid", "fault", "done"}
    /\ record.outcome \in {"none", "success", "failure", "dry-run", "refused"}
    /\ exit \in {"none", "ok", "user", "api"}
    /\ runs \in 0..MaxRuns

\* A write command implements ResourceTable: flags, defaults, specs and wire keys
\* together change the settings its user asked for, of the entry asked for, to
\* the values asked for, and nothing else, or they change nothing.
AsksImplemented == Requests!Spec

\* What is there is changed or removed only by a command that was consented to,
\* and never by a dry run: every command that can do so is declared destructive.
NothingOverwrittenUnasked ==
    [][\A id \in Ids(kind) :
          table[id] # NoRow /\ table'[id] # table[id]
          => cmd.consent /\ ~cmd.dryRun]_vars

\* No password and no text of several lines gets into an audit record or a dry
\* run's preview, no password into a table on the terminal.
SecretsNotLogged ==
    LET Values(f) == {f[k] : k \in DOMAIN f}
        preview == IF cmd.dryRun THEN UNION {Values(e) : e \in shown} ELSE {}
        cells == IF cmd.view = "table" THEN UNION {Values(e) : e \in shown} ELSE {}
    IN  /\ Secret \notin Values(record.fields) \cup preview \cup cells
        /\ Text \notin Values(record.fields) \cup preview

\* The record of a write that was carried out names the entry it was about, by the
\* identifier later commands use: as its target, or, where the server names the entry
\* and its answer says how, as created_id.  Only an add whose answer has no identifier
\* leaves a success that names no entry.
RecordNamesEntry ==
    pc = "exited" /\ record.outcome = "success"
    => IF "created_id" \in DOMAIN record.fields
       THEN record.fields.created_id = reply.id
       ELSE \/ record.target = reply.id
            \/ cmd.op = "add" /\ kind \in Generated /\ ~reply.told

\* get shows the entry asked for, with all its settings as they are stored; the
\* table leaves out the passwords and the responder's text.
GetShowsEntry ==
    pc = "exited" /\ cmd.op = "get" /\ exit = "ok"
    => \E entry \in shown :
          /\ shown = {entry}
          /\ entry[IdColumn(kind)] = cmd.arg
          /\ Stored(cmd.arg) # NoRow
          /\ \A c \in Settings \ (IF cmd.view = "json" THEN {}
                                  ELSE Passwords \cup {"mail_responder_text"}) :
                c \in DOMAIN entry /\ entry[c] = Stored(cmd.arg)[c]
===============================================================================
