------------------------------ MODULE KasResources ------------------------------
(***************************************************************************)
(* The KAS server as the write commands meet it: external to the program,  *)
(* as its clients, their fixtures and docs/usage/destructive-writes.md     *)
(* describe it.  It keeps one table per kind of resource: entries with     *)
(* columns, under identifiers.                                             *)
(***************************************************************************)
EXTENDS CommandLine, ReadClients

Kinds == {"cronjob", "ddnsuser", "database", "ftpuser", "sambauser",
          "directoryprotection", "mailaccount", "mailfilter", "mailforward",
          "mailinglist"}

CONSTANT NoRow

\* Two identifiers of each kind; those of a directory protection are a path with
\* two users.
Ids(kind) == IF kind = "directoryprotection"
             THEN {<<"a", "user">>, <<"a", "other">>} ELSE {"a", "b"}

\* The key an update or a delete names the entry with.
IdKey == [cronjob |-> "cronjob_id", ddnsuser |-> "dyndns_login",
          database |-> "database_login", ftpuser |-> "ftp_login",
          sambauser |-> "samba_login", mailaccount |-> "mail_login",
          mailfilter |-> "mail_login", mailforward |-> "mail_forward",
          mailinglist |-> "mailinglist_name"]

\* The columns that hold the identifier.
IdColumn(kind) == IF kind = "mailforward" THEN "mail_forward_address" ELSE IdKey[kind]

\* The kinds whose entries the server names itself; a mail list after the name and the
\* domain it is given ("announce-example-org").
Generated == {"cronjob", "ddnsuser", "database", "ftpuser", "sambauser", "mailaccount",
              "mailinglist"}

\* Keys of add that update does not know, and keys of update that add does not.
AddOnly == {"database_password", "ftp_password", "samba_password", "mail_password"}
UpdateOnly == {"database_new_password", "ftp_new_password", "samba_new_password",
               "mail_new_password"}

\* The column a wire key sets, where it is not its namesake.
NewPasswordOf ==
    [database_new_password |-> "database_password", ftp_new_password |-> "ftp_password",
     samba_new_password |-> "samba_password", mail_new_password |-> "mail_password"]
MailAccountColumnOf ==
    NewPasswordOf ++
    [responder |-> "mail_responder", responder_text |-> "mail_responder_text",
     copy_adress |-> "mail_copy_address", is_active |-> "mail_is_active"]
MailingListColumnOf ==
    [subscriber |-> "mailinglist_subscriber", restrict_post |-> "mailinglist_restrict_post",
     config |-> "mailinglist_config", is_active |-> "mailinglist_is_active"]
ColumnOf(kind, key) ==
    LET other == CASE kind = "mailaccount" -> MailAccountColumnOf
                   [] kind = "mailinglist" -> MailingListColumnOf
                   [] kind = "mailfilter" -> [filter |-> "mail_spamfilter"]
                   [] OTHER -> NewPasswordOf
    IN  IF key \in DOMAIN other THEN other[key] ELSE key

\* The address two parts make, or none.
Joined(local, domain) ==
    IF \E a \in DOMAIN Parts : Parts[a] = <<local, domain>>
    THEN CHOOSE a \in DOMAIN Parts : Parts[a] = <<local, domain>> ELSE ""

\* The targets of a mail forward, in the order of their numbers.
Targets(params) ==
    LET n == Cardinality({"target_0", "target_1", "target_2"} \cap DOMAIN params)
        key == <<"target_0", "target_1", "target_2">>
    IN  Join([i \in 1..n |-> params[key[i]]], ",")

\* What the parameters of action op set: the columns and their values.
Sets(kind, op, params) ==
    LET unknown == IF op = "update" THEN AddOnly ELSE UpdateOnly
        id == IF kind = "directoryprotection" THEN {} ELSE {IdKey[kind]}
        known == DOMAIN params \ (unknown \cup id)
    IN  CASE kind = "mailforward" -> [mail_forward_targets |-> Targets(params)]
          [] kind = "mailaccount" /\ op = "add" ->
               [c \in {ColumnOf(kind, k) : k \in known \ {"local_part", "domain_part"}} |->
                  params[CHOOSE k \in known : ColumnOf(kind, k) = c]]
               ++ [mail_addresses |-> Joined(params.local_part, params.domain_part)]
          [] OTHER -> [c \in {ColumnOf(kind, k) : k \in known} |->
                         params[CHOOSE k \in known : ColumnOf(kind, k) = c]]

\* The identifier in the parameters of action op, if they name one: mailinglist_name is
\* that of the list in an update or a delete, and not in an add.
Named(kind, op, params) ==
    CASE kind = "directoryprotection" ->
            IF {"directory_path", "directory_user"} \subseteq DOMAIN params
            THEN {<<params.directory_path, params.directory_user>>} ELSE {}
      [] kind = "mailforward" /\ op = "add" ->
            {Joined(params.local_part, params.domain_part)}
      [] kind = "mailinglist" /\ op = "add" -> {}
      [] OTHER -> IF IdKey[kind] \in DOMAIN params THEN {params[IdKey[kind]]} ELSE {}

\* The column or columns that say which entry a row is.
Identity(kind, id) ==
    IF kind = "directoryprotection" THEN [directory_path |-> id[1], directory_user |-> id[2]]
    ELSE Only(IdColumn(kind), id)

\* The entries the server sends for the filter key and value, all without one;
\* it ignores a key it does not know.
KnownFilter ==
    [cronjob |-> "cronjob_id", ddnsuser |-> "ddns_login", database |-> "database_login",
     ftpuser |-> "ftp_login", sambauser |-> "samba_login", mailaccount |-> "mail_login",
     mailforward |-> "mail_forward", mailinglist |-> "mailinglist_name",
     directoryprotection |-> "directory_path"]

Filtered(kind, table, key, value) ==
    LET there == {id \in DOMAIN table : table[id] # NoRow}
        kept == IF key # KnownFilter[kind] \/ value = "" THEN there
                ELSE IF kind = "directoryprotection" THEN {id \in there : id[1] = value}
                ELSE there \cap {value}
    IN  {Identity(kind, id) ++ table[id] : id \in kept}
===============================================================================
