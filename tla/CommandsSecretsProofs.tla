------------------------- MODULE CommandsSecretsProofs -------------------------
(***************************************************************************)
(* What the commands show and record of passwords, for every kind of       *)
(* resource and any number of commands: in the requests they go under      *)
(* names that redactParam knows, on the server they are in columns that    *)
(* the table views leave out.                                              *)
(***************************************************************************)
EXTENDS CommandsProofs

-------------------------------------------------------------------------------
\* The flags, their defaults and what they mean.

\* No flag has the name that stands for the password.
LEMMA FlagsAreNoSecret ==
    ASSUME kind \in Kinds
    PROVE  "secret" \notin DOMAIN Setting
<1> USE DEF Setting
<1>1. CASE kind \in {"cronjob", "ddnsuser", "database"}
  BY <1>1
<1>2. CASE kind \in {"ftpuser", "sambauser", "directoryprotection"}
  BY <1>2
<1>3. CASE kind \in {"mailaccount", "mailfilter", "mailforward", "mailinglist"}
  BY <1>3
<1> QED
  BY <1>1, <1>2, <1>3 DEF Kinds

\* The flags of an add have settings ...
LEMMA AddFlagsSet ==
    ASSUME kind \in Kinds
    PROVE  DOMAIN AddFlags \subseteq DOMAIN Setting
<1>1. CASE kind = "mailforward"
  BY <1>1 DEF AddFlags, Setting
<1>2. CASE kind # "mailforward"
  BY <1>2, AddKeysFit
<1> QED
  BY <1>1, <1>2

\* ... and so have those of an update.
LEMMA UpdateFlagsSet ==
    ASSUME kind \in Kinds, "update" \in Operations
    PROVE  UpdateFlags \subseteq DOMAIN Setting
<1>1. kind # "mailfilter"
  BY DEF Operations
<1>2. CASE kind = "mailforward"
  BY <1>2 DEF UpdateFlags, Setting
<1>3. CASE kind # "mailforward"
  BY <1>1, <1>3, KeysFit DEF Changing
<1> QED
  BY <1>2, <1>3

\* Of the flags only those of Secrets mean the password, joined or turned to Y and N or not ...
LEMMA MeaningIsNoSecret ==
    ASSUME NEW x, x # "secret", x \notin Secrets,
           NEW v \in {Value(x)} \cup Others(x)
    PROVE  Meaning(x, v) # Secret
<1>1. CASE IsSwitch(x)
  <2>1. x \notin Repeated
    BY <1>1 DEF IsSwitch, Switches, Repeated
  <2>2. Meaning(x, v) = IF v = "true" THEN "Y" ELSE "N"
    BY <1>1, <2>1 DEF Meaning, Repeated
  <2> QED
    BY <2>2 DEF Secret
<1>2. CASE ~IsSwitch(x) /\ x \in Repeated
  <2>1. x \notin Secrets /\ x \notin Texts
    BY <1>2 DEF Repeated, Texts, Secrets
  <2>2. v \in {<<>>, <<x>>, <<"">>, <<Semicolon>>, <<x, "second">>}
    <3>1. Value(x) = <<x, "second">>
      BY <1>2, <2>1 DEF Value
    <3>2. Others(x) = {<<>>, <<x>>, <<"">>, <<Semicolon>>}
      BY <1>2 DEF Others
    <3> QED
      BY <3>1, <3>2
  <2>3. \A s \in {",", ";", "\n"} : Join(v, s) # Secret
    BY <1>2, <2>2, JoinsAssumption
  <2> HIDE DEF Secret
  <2>4. CASE x = "target"
    BY <1>2, <2>3, <2>4 DEF Meaning
  <2>5. CASE x = "filter"
    BY <1>2, <2>3, <2>5 DEF Meaning
  <2>6. CASE x \in {"subscriber", "restrict_post"}
    BY <1>2, <2>3, <2>6 DEF Meaning
  <2> QED
    BY <1>2, <2>4, <2>5, <2>6 DEF Repeated
<1>3. CASE ~IsSwitch(x) /\ x \notin Repeated
  <2>1. Meaning(x, v) = v
    BY <1>3 DEF Meaning, Repeated
  <2>2. v \in {Text, x, ""}
    BY <1>3 DEF Value, Others
  <2> QED
    BY <2>1, <2>2 DEF Text, Secret
<1> QED
  BY <1>1, <1>2, <1>3

\* ... and no default does.
LEMMA DefaultIsNoSecret ==
    ASSUME kind \in Kinds, NEW x \in DOMAIN AddFlags
    PROVE  Meaning(x, AddFlags[x]) # Secret
<1>1. CASE kind \in {"mailforward", "mailfilter"}
  <2>1. x \in {"target", "filter"} /\ AddFlags[x] = <<>>
    <3>1. CASE kind = "mailforward"
      <4>1. AddFlags = [target |-> <<>>]
        BY <3>1 DEF AddFlags
      <4> QED
        BY <4>1
    <3>2. CASE kind = "mailfilter"
      <4>1. AddFlags = [filter |-> <<>>]
        BY <3>2 DEF AddFlags
      <4> QED
        BY <4>1
    <3> QED
      BY <1>1, <3>1, <3>2
  <2>2. \A s \in {",", ";", "\n"} : Join(<<>>, s) # Secret
    BY JoinsAssumption DEF Repeated
  <2>3. x = "target" => Meaning(x, <<>>) = Join(<<>>, ",")
    BY DEF Meaning, IsSwitch, Switches
  <2>4. x = "filter" => Meaning(x, <<>>) = Join(<<>>, ";")
    BY DEF Meaning, IsSwitch, Switches
  <2> QED
    BY <2>1, <2>2, <2>3, <2>4
<1>2. CASE kind \notin {"mailforward", "mailfilter"}
  <2>1. x \notin Repeated /\ AddFlags[x] # Secret
    <3>1. CASE kind = "cronjob"
      <4>1. AddFlags = CronjobAddFlags
        BY <3>1 DEF AddFlags
      <4>2. x \in
              {"protocol", "url", "comment", "minute", "hour",
               "day_of_month", "month", "day_of_week", "http_user",
               "http_password", "mail_address", "mail_condition",
               "mail_subject", "active"}
        BY <4>1 DEF CronjobAddFlags
      <4>3. /\ AddFlags.protocol = "https" /\ AddFlags.url = ""
            /\ AddFlags.comment = "" /\ AddFlags.minute = ""
            /\ AddFlags.hour = "" /\ AddFlags.day_of_month = "*"
            /\ AddFlags.month = "*" /\ AddFlags.day_of_week = "*"
            /\ AddFlags.http_user = "" /\ AddFlags.http_password = ""
            /\ AddFlags.mail_address = "" /\ AddFlags.mail_condition = ""
            /\ AddFlags.mail_subject = "default" /\ AddFlags.active = "true"
        BY <4>1 DEF CronjobAddFlags
      <4> QED
        BY <4>2, <4>3 DEF Repeated, Secret
    <3>2. CASE kind = "ddnsuser"
      <4>1. AddFlags = DDNSUserAddFlags
        BY <3>2 DEF AddFlags
      <4>2. x \in
              {"password", "zone", "label", "target_ip", "comment",
               "dual_stack"}
        BY <4>1 DEF DDNSUserAddFlags
      <4>3. /\ AddFlags.password = "" /\ AddFlags.zone = ""
            /\ AddFlags.label = "" /\ AddFlags.target_ip = ""
            /\ AddFlags.comment = "" /\ AddFlags.dual_stack = "false"
        BY <4>1 DEF DDNSUserAddFlags
      <4> QED
        BY <4>2, <4>3 DEF Repeated, Secret
    <3>3. CASE kind = "database"
      <4>1. AddFlags = DatabaseAddFlags
        BY <3>3 DEF AddFlags
      <4>2. x \in
              {"password", "comment", "allowed_hosts"}
        BY <4>1 DEF DatabaseAddFlags
      <4>3. /\ AddFlags.password = "" /\ AddFlags.comment = ""
            /\ AddFlags.allowed_hosts = ""
        BY <4>1 DEF DatabaseAddFlags
      <4> QED
        BY <4>2, <4>3 DEF Repeated, Secret
    <3>4. CASE kind = "ftpuser"
      <4>1. AddFlags = FTPUserAddFlags
        BY <3>4 DEF AddFlags
      <4>2. x \in
              {"password", "comment", "path", "permission_read",
               "permission_write", "permission_list", "virus_clamav"}
        BY <4>1 DEF FTPUserAddFlags
      <4>3. /\ AddFlags.password = "" /\ AddFlags.comment = ""
            /\ AddFlags.path = "/" /\ AddFlags.permission_read = "true"
            /\ AddFlags.permission_write = "true" /\ AddFlags.permission_list = "true"
            /\ AddFlags.virus_clamav = "true"
        BY <4>1 DEF FTPUserAddFlags
      <4> QED
        BY <4>2, <4>3 DEF Repeated, Secret
    <3>5. CASE kind = "sambauser"
      <4>1. AddFlags = SambaUserAddFlags
        BY <3>5 DEF AddFlags
      <4>2. x \in
              {"password", "comment", "path"}
        BY <4>1 DEF SambaUserAddFlags
      <4>3. /\ AddFlags.password = "" /\ AddFlags.comment = ""
            /\ AddFlags.path = ""
        BY <4>1 DEF SambaUserAddFlags
      <4> QED
        BY <4>2, <4>3 DEF Repeated, Secret
    <3>6. CASE kind = "directoryprotection"
      <4>1. AddFlags = [password |-> "", authname |-> ""]
        BY <3>6 DEF AddFlags
      <4>2. x \in
              {"password", "authname"}
        BY <4>1
      <4>3. /\ AddFlags.password = "" /\ AddFlags.authname = ""
        BY <4>1
      <4> QED
        BY <4>2, <4>3 DEF Repeated, Secret
    <3>7. CASE kind = "mailaccount"
      <4>1. AddFlags = MailAccountAddFlags
        BY <3>7 DEF AddFlags
      <4>2. x \in
              {"password", "webmail_autologin", "responder",
               "responder_content_type", "responder_displayname",
               "responder_text", "copy_address", "sender_alias",
               "xlist_enabled", "xlist_sent", "xlist_drafts", "xlist_trash",
               "xlist_spam", "xlist_archiv", "allow_nets"}
        BY <4>1 DEF MailAccountAddFlags
      <4>3. /\ AddFlags.password = "" /\ AddFlags.webmail_autologin = "Y"
            /\ AddFlags.responder = "N" /\ AddFlags.responder_content_type = "text"
            /\ AddFlags.responder_displayname = "" /\ AddFlags.responder_text = ""
            /\ AddFlags.copy_address = "" /\ AddFlags.sender_alias = ""
            /\ AddFlags.xlist_enabled = "Y" /\ AddFlags.xlist_sent = "Sent"
            /\ AddFlags.xlist_drafts = "Drafts" /\ AddFlags.xlist_trash = "Trash"
            /\ AddFlags.xlist_spam = "Spam" /\ AddFlags.xlist_archiv = "Archive"
            /\ AddFlags.allow_nets = ""
        BY <4>1 DEF MailAccountAddFlags
      <4> QED
        BY <4>2, <4>3 DEF Repeated, Secret
    <3>8. CASE kind = "mailinglist"
      <4>1. AddFlags = [domain |-> "", password |-> ""]
        BY <3>8 DEF AddFlags
      <4>2. x \in
              {"domain", "password"}
        BY <4>1
      <4>3. /\ AddFlags.domain = "" /\ AddFlags.password = ""
        BY <4>1
      <4> QED
        BY <4>2, <4>3 DEF Repeated, Secret
    <3> QED
      BY <1>2, <3>1, <3>2, <3>3, <3>4, <3>5, <3>6, <3>7, <3>8 DEF Kinds
  <2>2. Meaning(x, AddFlags[x]) \in {"Y", "N", AddFlags[x]}
    BY <2>1 DEF Meaning, Repeated
  <2> QED
    BY <2>1, <2>2 DEF Secret
<1> QED
  BY <1>1, <1>2

\* What an add is to set outside the passwords is no password, and what an update
\* is to.
LEMMA WantedIsNoSecret ==
    ASSUME CommandInv, pc = "dispatch", cmd.op = "add",
           NEW c \in Settings \ Passwords
    PROVE  Wanted[c] # Secret
<1>1. /\ kind \in Kinds /\ cmd.arg \in Arguments("add")
      /\ \A x \in DOMAIN cmd.flags : cmd.flags[x] \in {Value(x)} \cup Others(x)
  BY DEF CommandInv, TypedInv
<1>2. CASE kind = "mailaccount" /\ c = "mail_addresses"
  <2>1. Wanted[c] = cmd.arg
    BY <1>2 DEF Wanted
  <2>2. cmd.arg \in {"a", "b", "", NoAt}
    BY <1>1, <1>2 DEF Arguments, Generated
  <2> QED
    BY <2>1, <2>2 DEF NoAt, Secret
<1>3. CASE ~(kind = "mailaccount" /\ c = "mail_addresses")
           /\ \E x \in DOMAIN AddFlags : Setting[x] = c
  <2> DEFINE x == CHOOSE y \in DOMAIN AddFlags : Setting[y] = c
  <2>1. x \in DOMAIN AddFlags /\ Setting[x] = c
    BY <1>3
  <2>2. Wanted[c] = Meaning(x, IF x \in DOMAIN cmd.flags THEN cmd.flags[x] ELSE AddFlags[x])
    BY <1>3 DEF Wanted
  <2> HIDE DEF x
  <2>3. x \in DOMAIN Setting
    BY <1>1, <2>1, AddFlagsSet
  <2>4. x \notin Secrets
    BY <2>1, <2>3 DEF Passwords
  <2>5. x # "secret"
    BY <1>1, <2>3, FlagsAreNoSecret
  <2>6. CASE x \in DOMAIN cmd.flags
    BY <1>1, <2>2, <2>4, <2>5, <2>6, MeaningIsNoSecret
  <2>7. CASE x \notin DOMAIN cmd.flags
    BY <1>1, <2>1, <2>2, <2>7, DefaultIsNoSecret
  <2> QED
    BY <2>6, <2>7
<1>4. CASE ~(kind = "mailaccount" /\ c = "mail_addresses")
           /\ ~(\E x \in DOMAIN AddFlags : Setting[x] = c)
  BY <1>4 DEF Wanted, Secret
<1> QED
  BY <1>2, <1>3, <1>4

\* The same for an update.
LEMMA SaidIsNoSecret ==
    ASSUME CommandInv, pc = "dispatch", cmd.op = "update",
           NEW c \in DOMAIN Said(cmd.flags) \ Passwords
    PROVE  Said(cmd.flags)[c] # Secret
<1>1. /\ kind \in Kinds /\ cmd.op \in Operations
      /\ DOMAIN cmd.flags \subseteq UpdateFlags
      /\ \A x \in DOMAIN cmd.flags : cmd.flags[x] \in {Value(x)} \cup Others(x)
  BY DEF CommandInv, TypedInv, FlagsOf
<1> DEFINE x == CHOOSE y \in DOMAIN cmd.flags : Setting[y] = c
<1>2. x \in DOMAIN cmd.flags /\ Setting[x] = c /\ Said(cmd.flags)[c] = Meaning(x, cmd.flags[x])
  BY DEF Said
<1> HIDE DEF x
<1>3. x \in DOMAIN Setting
  BY <1>1, <1>2, UpdateFlagsSet
<1>4. x \notin Secrets
  BY <1>2, <1>3 DEF Passwords
<1>5. x # "secret"
  BY <1>1, <1>3, FlagsAreNoSecret
<1> QED
  BY <1>1, <1>2, <1>4, <1>5, MeaningIsNoSecret

-------------------------------------------------------------------------------
\* The requests.

\* The names that redactParam finds the word "password" in.
LEMMA PasswordsRedacted ==
    ASSUME NEW k \in Fragment("password")
    PROVE  redactParam(k)
BY DEF redactParam

\* Every password of an add goes under a name that redactParam redacts ...
LEMMA AddPasswordKeys ==
    ASSUME kind \in Kinds \ {"mailforward"}, NEW x \in DOMAIN AddFlags \cap Secrets
    PROVE  redactParam(AddKeysOf[x])
<1> SUFFICES AddKeysOf[x] \in Fragment("password")
  BY PasswordsRedacted
<1> USE DEF AddKeysOf, AddFlags, Secrets, Fragment
<1>1. CASE kind = "cronjob"
  BY <1>1 DEF CronjobKeys, CronjobAddFlags
<1>2. CASE kind = "ddnsuser"
  BY <1>2 DEF DDNSUserAddFlags
<1>3. CASE kind = "database"
  BY <1>3 DEF DatabaseAddFlags
<1>4. CASE kind = "ftpuser"
  BY <1>4 DEF FTPUserAddFlags
<1>5. CASE kind = "sambauser"
  BY <1>5 DEF SambaUserAddFlags
<1>6. CASE kind = "directoryprotection"
  BY <1>6
<1>7. CASE kind = "mailaccount"
  BY <1>7 DEF MailAccountAddFlags
<1>8. CASE kind \in {"mailfilter", "mailinglist"}
  BY <1>8
<1> QED
  BY <1>1, <1>2, <1>3, <1>4, <1>5, <1>6, <1>7, <1>8 DEF Kinds

\* ... and every password of an update.
LEMMA UpdatePasswordKeys ==
    ASSUME kind \in Changing, NEW x \in UpdateFlags \cap Secrets
    PROVE  redactParam(KeysOf[x])
<1> SUFFICES KeysOf[x] \in Fragment("password")
  BY PasswordsRedacted
<1> USE DEF KeysOf, UpdateFlags, Secrets, Fragment
<1>1. CASE kind = "cronjob"
  BY <1>1 DEF CronjobKeys
<1>2. CASE kind = "ddnsuser"
  BY <1>2 DEF DDNSUserKeys
<1>3. CASE kind = "database"
  BY <1>3 DEF DatabaseKeys
<1>4. CASE kind = "ftpuser"
  BY <1>4 DEF FTPUserKeys
<1>5. CASE kind = "sambauser"
  BY <1>5 DEF SambaUserKeys
<1>6. CASE kind = "directoryprotection"
  BY <1>6
<1>7. CASE kind = "mailaccount"
  BY <1>7 DEF MailAccountKeys
<1>8. CASE kind = "mailinglist"
  BY <1>8
<1> QED
  BY <1>1, <1>2, <1>3, <1>4, <1>5, <1>6, <1>7, <1>8 DEF Kinds, Changing

\* The argument of a command line is no password ...
LEMMA ArgumentIsNoSecret ==
    ASSUME kind \in Kinds,
           NEW arg \in Arguments("add") \cup Arguments("update") \cup Arguments("delete")
    PROVE  /\ kind # "directoryprotection" => arg # Secret
           /\ kind = "directoryprotection" => arg[1] # Secret /\ arg[2] # Secret
<1>1. CASE kind = "directoryprotection"
  <2>1. arg \in {<<"a", "user">>, <<"a", "other">>, <<"", "user">>, <<"a", "">>}
    BY <1>1 DEF Arguments, Ids
  <2>2. arg[1] \in {"a", ""} /\ arg[2] \in {"user", "other", ""}
    <3>1. CASE arg = <<"a", "user">>
      BY <3>1
    <3>2. CASE arg = <<"a", "other">>
      BY <3>2
    <3>3. CASE arg = <<"", "user">>
      BY <3>3
    <3>4. CASE arg = <<"a", "">>
      BY <3>4
    <3> QED
      BY <2>1, <3>1, <3>2, <3>3, <3>4
  <2> QED
    BY <1>1, <2>2 DEF Secret
<1>2. CASE kind # "directoryprotection"
  BY <1>2 DEF Arguments, Ids, NoAt, Secret
<1> QED
  BY <1>1, <1>2

\* ... and no part of an address is.
LEMMA PartsAreNoSecret ==
    ASSUME NEW a
    PROVE  splitMailAddress(a).local # Secret /\ splitMailAddress(a).domain # Secret
<1>1. DOMAIN Parts = {"a", "b"}
      /\ Parts.a[1] = "local-a" /\ Parts.a[2] = "domain-a"
      /\ Parts.b[1] = "local-b" /\ Parts.b[2] = "domain-b"
  BY DEF Parts
<1>2. CASE a = "a"
  BY <1>1, <1>2 DEF splitMailAddress, Secret
<1>3. CASE a = "b"
  BY <1>1, <1>3 DEF splitMailAddress, Secret
<1>4. CASE a \notin {"a", "b"}
  BY <1>1, <1>4 DEF splitMailAddress, Secret
<1> QED
  BY <1>2, <1>3, <1>4

\* What redactParam leaves of the parameters is no password.
Redactable(params) == \A k \in DOMAIN params : redactParam(k) \/ params[k] # Secret

\* So the parameters of every command can be recorded once redacted: of an add ...
LEMMA AddRedactable ==
    ASSUME kind \in Kinds \ {"mailforward"}, cmd.arg \in Arguments("add"),
           DOMAIN cmd.flags \subseteq DOMAIN AddFlags,
           \A x \in DOMAIN cmd.flags : cmd.flags[x] \in {Value(x)} \cup Others(x)
    PROVE  Redactable(Add(cmd.arg, cmd.flags).request.params)
<1> DEFINE params == Add(cmd.arg, cmd.flags).request.params
           given == cmd.flags ++ AddFlags
<1>1. /\ DOMAIN params = {AddKeysOf[x] : x \in DOMAIN AddFlags} \cup NotFlags
      /\ \A x \in DOMAIN AddFlags : params[AddKeysOf[x]] = Meaning(x, given[x])
  BY AddMade DEF AddParams
<1>2. \A k \in NotFlags : params[k] # Secret
  <2>1. CASE kind = "directoryprotection"
    <3>1. params.directory_path = cmd.arg[1] /\ params.directory_user = cmd.arg[2]
      BY <2>1, ProtectionPlace
    <3>2. NotFlags = {"directory_path", "directory_user"}
      BY <2>1 DEF NotFlags
    <3> HIDE DEF params
    <3> QED
      BY <2>1, <3>1, <3>2, ArgumentIsNoSecret
  <2>2. CASE kind = "mailaccount"
    <3>1. /\ params.local_part = splitMailAddress(cmd.arg).local
          /\ params.domain_part = splitMailAddress(cmd.arg).domain
      BY <2>2, AccountParts
    <3>2. NotFlags = {"local_part", "domain_part"}
      BY <2>2 DEF NotFlags
    <3> HIDE DEF params
    <3> QED
      BY <3>1, <3>2, PartsAreNoSecret
  <2>3. CASE kind = "mailfilter"
    <3>1. params.mail_login = cmd.arg
      BY <2>3 DEF Add, MailFiltersAdd, MailFilterAdd, writeSpec, Request
    <3>2. NotFlags = {"mail_login"}
      BY <2>3 DEF NotFlags
    <3> HIDE DEF params
    <3> QED
      BY <2>3, <3>1, <3>2, ArgumentIsNoSecret
  <2>4. CASE kind = "mailinglist"
    <3>1. params.mailinglist_name = cmd.arg
      BY <2>4 DEF Add, MailListsAdd, MailingListAdd, writeSpec, Request
    <3>2. NotFlags = {"mailinglist_name"}
      BY <2>4 DEF NotFlags
    <3> HIDE DEF params
    <3> QED
      BY <2>4, <3>1, <3>2, ArgumentIsNoSecret
  <2>5. CASE kind \notin {"directoryprotection", "mailaccount", "mailfilter", "mailinglist"}
    BY <2>5 DEF NotFlags
  <2> QED
    BY <2>1, <2>2, <2>3, <2>4, <2>5
<1> HIDE DEF params
<1>3. ASSUME NEW x \in DOMAIN AddFlags, x \notin Secrets PROVE Meaning(x, given[x]) # Secret
  <2>1. given[x] = IF x \in DOMAIN cmd.flags THEN cmd.flags[x] ELSE AddFlags[x]
    BY DEF ++
  <2>2. x \in DOMAIN Setting
    BY AddFlagsSet
  <2>3. x # "secret"
    BY <2>2, FlagsAreNoSecret
  <2> HIDE DEF given
  <2>4. CASE x \in DOMAIN cmd.flags
    BY <1>3, <2>1, <2>3, <2>4, MeaningIsNoSecret
  <2>5. CASE x \notin DOMAIN cmd.flags
    BY <1>3, <2>1, <2>5, DefaultIsNoSecret
  <2> QED
    BY <2>4, <2>5
<1> HIDE DEF given
<1>4. \A x \in DOMAIN AddFlags :
         redactParam(AddKeysOf[x]) \/ params[AddKeysOf[x]] # Secret
  BY <1>1, <1>3, AddPasswordKeys
<1>5. Redactable(params)
  BY <1>1, <1>2, <1>4 DEF Redactable
<1> QED
  BY <1>5 DEF params

\* The request of an update, with the command line of the state.
LEMMA UpdateParams ==
    ASSUME kind \in Changing, DOMAIN cmd.flags \subseteq UpdateFlags
    PROVE  /\ kind # "directoryprotection" =>
                Update(cmd.arg, cmd.flags, cmd.readable).request.params
                  = With(IdKey[kind], cmd.arg, UpdateFields(cmd.flags))
           /\ kind = "directoryprotection" =>
                Update(cmd.arg, cmd.flags, cmd.readable).request.params
                  = UpdateFields(cmd.flags)
                    ++ [directory_path |-> cmd.arg[1], directory_user |-> cmd.arg[2]]
BY UpdateMade

\* ... of an update ...
LEMMA UpdateRedactable ==
    ASSUME kind \in Changing, cmd.arg \in Arguments("update"),
           DOMAIN cmd.flags \subseteq UpdateFlags,
           \A x \in DOMAIN cmd.flags : cmd.flags[x] \in {Value(x)} \cup Others(x)
    PROVE  Redactable(Update(cmd.arg, cmd.flags, cmd.readable).request.params)
<1> DEFINE params == Update(cmd.arg, cmd.flags, cmd.readable).request.params
           fields == UpdateFields(cmd.flags)
<1>1. /\ DOMAIN fields = {KeysOf[x] : x \in DOMAIN cmd.flags}
      /\ \A x \in DOMAIN cmd.flags : fields[KeysOf[x]] = Meaning(x, cmd.flags[x])
  <2>1. \A x, y \in UpdateFlags : KeysOf[x] = KeysOf[y] => x = y
    BY KeysFit
  <2> QED
    BY <2>1, UpdateFieldsMean
<1>2. /\ kind # "directoryprotection" => params = With(IdKey[kind], cmd.arg, fields)
      /\ kind = "directoryprotection" =>
            params = fields ++ [directory_path |-> cmd.arg[1], directory_user |-> cmd.arg[2]]
  BY UpdateParams
<1> HIDE DEF params, fields
<1>3. \A k \in DOMAIN params :
         \/ k \in DOMAIN fields /\ params[k] = fields[k]
         \/ params[k] # Secret
  <2>1. CASE kind = "directoryprotection"
    <3>1. cmd.arg[1] # Secret /\ cmd.arg[2] # Secret
      BY <2>1, ArgumentIsNoSecret DEF Kinds
    <3>2. params = fields ++ [directory_path |-> cmd.arg[1], directory_user |-> cmd.arg[2]]
      BY <1>2, <2>1
    <3> QED
      BY <3>1, <3>2 DEF ++
  <2>2. CASE kind # "directoryprotection"
    <3>1. cmd.arg # Secret
      BY <2>2, ArgumentIsNoSecret DEF Changing
    <3> QED
      BY <1>2, <2>2, <3>1 DEF With, Only, ++
  <2> QED
    BY <2>1, <2>2
<1>4. ASSUME NEW x \in DOMAIN cmd.flags
      PROVE  redactParam(KeysOf[x]) \/ fields[KeysOf[x]] # Secret
  <2>1. CASE x \in Secrets
    BY <2>1, UpdatePasswordKeys
  <2>2. CASE x \notin Secrets
    <3>1. x \in DOMAIN Setting
      BY KeysFit
    <3>2. x # "secret"
      BY <3>1, FlagsAreNoSecret DEF Changing
    <3> QED
      BY <1>1, <2>2, <3>2, MeaningIsNoSecret
  <2> QED
    BY <2>1, <2>2
<1>5. Redactable(params)
  BY <1>1, <1>3, <1>4 DEF Redactable
<1> QED
  BY <1>5 DEF params

\* The targets of a forward are no passwords.
LEMMA TargetsRedactable ==
    ASSUME kind = "mailforward",
           NEW targets \in {Value("target")} \cup Others("target"),
           NEW rest, \A k \in DOMAIN rest : rest[k] # Secret
    PROVE  Redactable(addTargets(targets) ++ rest)
<1> DEFINE key == <<"target_0", "target_1", "target_2">>
<1>1. \A k \in DOMAIN addTargets(targets) :
         \E i \in DOMAIN targets : addTargets(targets)[k] = targets[i]
  <2> SUFFICES ASSUME NEW k \in {key[i] : i \in DOMAIN targets}
               PROVE  \E i \in DOMAIN targets : addTargets(targets)[k] = targets[i]
    BY DEF addTargets
  <2>1. (CHOOSE i \in DOMAIN targets : key[i] = k) \in DOMAIN targets
    OBVIOUS
  <2> QED
    BY <2>1 DEF addTargets
<1>2. \A i \in DOMAIN targets : targets[i] # Secret
  <2>1. Value("target") = <<"target", "second">>
    BY DEF Value, IsSwitch, Switches, Repeated, Secrets, Texts
  <2>2. Others("target") = {<<>>, <<"target">>, <<"">>, <<Semicolon>>}
    BY DEF Others, IsSwitch, Switches, Repeated
  <2>3. /\ \A one : one # Secret => \A i \in DOMAIN <<one>> : <<one>>[i] # Secret
        /\ \A one, two : one # Secret /\ two # Secret =>
              \A i \in DOMAIN <<one, two>> : <<one, two>>[i] # Secret
        /\ \A i \in DOMAIN <<>> : <<>>[i] # Secret
    OBVIOUS
  <2>4. "" # Secret /\ "target" # Secret /\ "second" # Secret /\ Semicolon # Secret
    BY DEF Semicolon, Secret
  <2> HIDE DEF Secret
  <2>5. CASE targets = <<"target", "second">>
    BY <2>3, <2>4, <2>5
  <2>6. CASE targets = <<>>
    BY <2>3, <2>6
  <2>7. CASE targets = <<"target">>
    BY <2>3, <2>4, <2>7
  <2>8. CASE targets = <<"">>
    BY <2>3, <2>4, <2>8
  <2>9. CASE targets = <<Semicolon>>
    BY <2>3, <2>4, <2>9
  <2> QED
    BY <2>1, <2>2, <2>5, <2>6, <2>7, <2>8, <2>9
<1>3. \A k \in DOMAIN addTargets(targets) : addTargets(targets)[k] # Secret
  BY <1>1, <1>2
<1> QED
  BY <1>3 DEF Redactable, ++

\* The targets of a forward's command, none if the flag is not given.
LEMMA TargetsTyped ==
    ASSUME \A x \in DOMAIN cmd.flags : cmd.flags[x] \in {Value(x)} \cup Others(x)
    PROVE  (cmd.flags ++ [target |-> <<>>]).target \in {Value("target")} \cup Others("target")
<1> DEFINE f == cmd.flags ++ [target |-> <<>>]
<1>1. CASE "target" \in DOMAIN cmd.flags
  <2>1. f.target = cmd.flags["target"]
    BY <1>1 DEF ++
  <2> QED
    BY <1>1, <2>1
<1>2. CASE "target" \notin DOMAIN cmd.flags
  <2>1. f.target = <<>>
    BY <1>2 DEF ++
  <2>2. <<>> \in Others("target")
    BY DEF Others, IsSwitch, Switches, Repeated
  <2> QED
    BY <2>1, <2>2
<1> QED
  BY <1>1, <1>2

\* ... of the add of a forward ...
LEMMA ForwardAddRedactable ==
    ASSUME kind = "mailforward", cmd.arg \in Arguments("add"),
           DOMAIN cmd.flags \subseteq DOMAIN AddFlags,
           \A x \in DOMAIN cmd.flags : cmd.flags[x] \in {Value(x)} \cup Others(x)
    PROVE  Redactable(Add(cmd.arg, cmd.flags).request.params)
<1> DEFINE f == cmd.flags ++ [target |-> <<>>]
           at == splitMailAddress(cmd.arg)
           rest == [local_part |-> at.local, domain_part |-> at.domain]
<1>1. Add(cmd.arg, cmd.flags).request.params = addTargets(f.target) ++ rest
  BY DEF Add, MailForwardsAdd, MailForwardAdd, writeSpec, Request
<1>2. f.target \in {Value("target")} \cup Others("target")
  BY TargetsTyped
<1>3. \A k \in DOMAIN rest : rest[k] # Secret
  <2>1. at.local # Secret /\ at.domain # Secret
    BY PartsAreNoSecret
  <2> HIDE DEF at
  <2>2. DOMAIN rest = {"local_part", "domain_part"}
        /\ rest.local_part = at.local /\ rest.domain_part = at.domain
    OBVIOUS
  <2> HIDE DEF rest
  <2> QED
    BY <2>1, <2>2
<1> HIDE DEF f, rest
<1>4. Redactable(addTargets(f.target) ++ rest)
  BY <1>2, <1>3, TargetsRedactable
<1> QED
  BY <1>1, <1>4

\* ... and of its update ...
LEMMA ForwardUpdateRedactable ==
    ASSUME kind = "mailforward", cmd.arg \in Arguments("update"),
           DOMAIN cmd.flags \subseteq UpdateFlags,
           \A x \in DOMAIN cmd.flags : cmd.flags[x] \in {Value(x)} \cup Others(x)
    PROVE  Redactable(Update(cmd.arg, cmd.flags, cmd.readable).request.params)
<1> DEFINE f == cmd.flags ++ [target |-> <<>>]
           rest == Only("mail_forward", cmd.arg)
<1>1. Update(cmd.arg, cmd.flags, cmd.readable).request.params = addTargets(f.target) ++ rest
  BY DEF Update, MailForwardsUpdate, MailForwardUpdate, With, writeSpec, Request
<1>2. f.target \in {Value("target")} \cup Others("target")
  BY TargetsTyped
<1>3. \A k \in DOMAIN rest : rest[k] # Secret
  <2>1. cmd.arg # Secret
    BY ArgumentIsNoSecret DEF Kinds
  <2> QED
    BY <2>1 DEF Only
<1> HIDE DEF f, rest
<1>4. Redactable(addTargets(f.target) ++ rest)
  BY <1>2, <1>3, TargetsRedactable
<1> QED
  BY <1>1, <1>4

\* ... of a delete ...
LEMMA DeleteRedactable ==
    ASSUME kind \in Kinds, cmd.arg \in Arguments("delete")
    PROVE  Redactable(Delete(cmd.arg).request.params)
<1>1. CASE kind = "directoryprotection"
  <2>1. Delete(cmd.arg).request.params
          = [directory_path |-> cmd.arg[1], directory_user |-> cmd.arg[2]]
    BY <1>1 DEF Delete, DirectoryProtectionsDelete, DirectoryProtectionDelete, writeSpec,
                Request
  <2>2. cmd.arg[1] # Secret /\ cmd.arg[2] # Secret
    BY <1>1, ArgumentIsNoSecret
  <2> DEFINE params == [directory_path |-> cmd.arg[1], directory_user |-> cmd.arg[2]]
  <2>3. DOMAIN params = {"directory_path", "directory_user"}
        /\ params.directory_path = cmd.arg[1] /\ params.directory_user = cmd.arg[2]
    OBVIOUS
  <2> HIDE DEF params
  <2>4. Redactable(params)
    BY <2>2, <2>3 DEF Redactable
  <2> QED
    BY <2>1, <2>4 DEF params
<1>2. CASE kind # "directoryprotection"
  <2>1. Delete(cmd.arg).request.params = With(IdKey[kind], cmd.arg, Nothing)
    BY <1>2, DeleteMade, Zenon
  <2>2. cmd.arg # Secret
    BY <1>2, ArgumentIsNoSecret
  <2> QED
    BY <2>1, <2>2 DEF Redactable, With, Only, Nothing, ++
<1> QED
  BY <1>1, <1>2

\* ... and so of what build makes, whatever the command.
LEMMA MadeRedactable ==
    ASSUME CommandInv, pc \in {"gate", "dispatch", "record"}
    PROVE  Redactable(spec.request.params)
<1>1. /\ kind \in Kinds
      /\ cmd.op \in {"add", "update", "delete"} /\ cmd.op \in Operations
      /\ spec = Made
      /\ cmd.arg \in Arguments(cmd.op)
      /\ DOMAIN cmd.flags \subseteq FlagsOf(cmd.op)
      /\ \A x \in DOMAIN cmd.flags : cmd.flags[x] \in {Value(x)} \cup Others(x)
  BY DEF CommandInv, TypedInv, StageInv
<1>2. CASE cmd.op = "add"
  <2>1. spec = Add(cmd.arg, cmd.flags) /\ DOMAIN cmd.flags \subseteq DOMAIN AddFlags
    BY <1>1, <1>2 DEF Made, FlagsOf
  <2>2. Redactable(Add(cmd.arg, cmd.flags).request.params)
    BY <1>1, <1>2, <2>1, AddRedactable, ForwardAddRedactable
  <2> QED
    BY <2>1, <2>2
<1>3. CASE cmd.op = "update"
  <2>1. spec = Update(cmd.arg, cmd.flags, cmd.readable) /\ DOMAIN cmd.flags \subseteq UpdateFlags
    BY <1>1, <1>3 DEF Made, FlagsOf
  <2>2. kind \in Changing \/ kind = "mailforward"
    BY <1>1, <1>3 DEF Changing, Operations
  <2>3. Redactable(Update(cmd.arg, cmd.flags, cmd.readable).request.params)
    BY <1>1, <1>3, <2>1, <2>2, UpdateRedactable, ForwardUpdateRedactable
  <2> QED
    BY <2>1, <2>3
<1>4. CASE cmd.op = "delete"
  BY <1>1, <1>4, DeleteRedactable DEF Made
<1> QED
  BY <1>1, <1>2, <1>3, <1>4

-------------------------------------------------------------------------------
\* The server's entries, the record and what is shown.

\* What is stored outside the passwords' columns is no password.
TableInv ==
    \A id \in Ids(kind) : table[id] # NoRow =>
       \A c \in DOMAIN table[id] \ Passwords : table[id][c] # Secret

\* A write that is carried out stores passwords in the passwords' columns only.
LEMMA AppliedKeepsTable ==
    ASSUME CommandInv, Dispatch, TableInv,
           NEW id \in Reached(spec.request.params),
           table' = Applied(id, Sets(kind, cmd.op, spec.request.params))
    PROVE  TableInv'
<1> DEFINE sets == Sets(kind, cmd.op, spec.request.params)
<1>1. /\ UNCHANGED kind /\ pc = "dispatch" /\ id \in Ids(kind) /\ kind \in Kinds
      /\ DOMAIN table = Ids(kind) /\ cmd.arg \in Arguments(cmd.op)
      /\ cmd.op \in {"add", "update", "delete"}
      /\ cmd.op = "update" => table[id] # NoRow
      /\ cmd.op = "add" => AddAsAsked(spec.request.params)
      /\ cmd.op = "update" => UpdateAsAsked(cmd.arg, cmd.flags, spec.request.params)
  BY ReachesNamed, MadeAsAsked DEF Dispatch, CommandInv, TypedInv
<1>2. Passwords' = Passwords /\ Ids(kind)' = Ids(kind)
  BY <1>1, ColumnsKept DEF Passwords, Ids
<1>3. ASSUME cmd.op \in {"add", "update"}, NEW c \in DOMAIN sets \ Settings
      PROVE  sets[c] # Secret
  <2>1. kind = "directoryprotection" /\ sets[c] \in {cmd.arg[1], cmd.arg[2]}
    BY <1>1, <1>3 DEF AddAsAsked, UpdateAsAsked
  <2>2. cmd.arg[1] # Secret /\ cmd.arg[2] # Secret
    BY <1>1, <1>3, <2>1, ArgumentIsNoSecret
  <2> QED
    BY <2>1, <2>2
<1>4. ASSUME cmd.op \in {"add", "update"}, NEW c \in (DOMAIN sets \cap Settings) \ Passwords
      PROVE  sets[c] # Secret
  <2>1. CASE cmd.op = "add"
    <3>1. sets[c] = Wanted[c]
      BY <1>1, <1>4, <2>1 DEF AddAsAsked
    <3> QED
      BY <1>1, <2>1, <3>1, WantedIsNoSecret
  <2>2. CASE cmd.op = "update"
    <3>1. c \in DOMAIN Said(cmd.flags) /\ sets[c] = Said(cmd.flags)[c]
      BY <1>1, <1>4, <2>2 DEF UpdateAsAsked
    <3> QED
      BY <1>1, <2>2, <3>1, SaidIsNoSecret
  <2> QED
    BY <1>4, <2>1, <2>2
<1>5. table' = Applied(id, sets)
  OBVIOUS
<1> HIDE DEF sets
<1>6. CASE cmd.op = "add"
  <2>1. table' = [table EXCEPT ![id] = sets]
    BY <1>5, <1>6 DEF Applied
  <2>2. \A c \in DOMAIN sets \ Passwords : sets[c] # Secret
    BY <1>3, <1>4, <1>6
  <2> QED
    BY <1>1, <1>2, <2>1, <2>2 DEF TableInv
<1>7. CASE cmd.op = "update"
  <2>1. table' = [table EXCEPT ![id] = sets ++ table[id]]
    BY <1>5, <1>7 DEF Applied
  <2>2. \A c \in DOMAIN sets \ Passwords : sets[c] # Secret
    BY <1>3, <1>4, <1>7
  <2>3. \A c \in DOMAIN (sets ++ table[id]) \ Passwords : (sets ++ table[id])[c] # Secret
    BY <1>1, <1>7, <2>2 DEF TableInv, ++
  <2> QED
    BY <1>1, <1>2, <2>1, <2>3 DEF TableInv
<1>8. CASE cmd.op = "delete"
  <2>1. table' = [table EXCEPT ![id] = NoRow]
    BY <1>5, <1>8 DEF Applied
  <2> QED
    BY <1>1, <1>2, <2>1 DEF TableInv
<1> QED
  BY <1>1, <1>6, <1>7, <1>8

\* The columns of the table views are decoded, and none is that of a password.
LEMMA ReaderHides ==
    ASSUME kind \in Kinds \ {"mailfilter"}
    PROVE  /\ Reader[3] \subseteq Reader[2] /\ Reader[4] \subseteq Reader[2]
           /\ (Reader[3] \cup Reader[4]) \cap Passwords = {}
<1> USE DEF Reader, Setting, Passwords, Secrets
<1>1. CASE kind = "cronjob"
  BY <1>1 DEF CronjobFilter, CronjobColumns, CronjobRow, CronjobDetail
<1>2. CASE kind = "ddnsuser"
  BY <1>2 DEF DDNSFilter, DDNSColumns, DDNSRow, DDNSDetail
<1>3. CASE kind = "database"
  BY <1>3 DEF DatabaseFilter, DatabaseColumns, DatabaseRow, DatabaseDetail
<1>4. CASE kind = "ftpuser"
  BY <1>4 DEF FTPUserFilter, FTPUserColumns, FTPUserRow, FTPUserDetail
<1>5. CASE kind = "sambauser"
  BY <1>5 DEF SambaUserFilter, SambaUserColumns, SambaUserRow, SambaUserDetail
<1>6. CASE kind = "mailaccount"
  BY <1>6 DEF MailAccountFilter, MailAccountColumns, MailAccountRow, MailAccountDetail
<1>7. CASE kind = "mailforward"
  BY <1>7 DEF MailForwardFilter, MailForwardColumns, MailForwardRow, MailForwardDetail
<1>8. CASE kind = "mailinglist"
  BY <1>8 DEF MailingListFilter, MailingListColumns, MailingListRow, MailingListDetail
<1>9. CASE kind = "directoryprotection"
  BY <1>9 DEF DirectoryProtectionFilter, DirectoryProtectionColumns, DirectoryProtectionRow
<1> QED
  BY <1>1, <1>2, <1>3, <1>4, <1>5, <1>6, <1>7, <1>8, <1>9 DEF Kinds

\* No row the server sends has a password outside the passwords' columns.
LEMMA RowsAreNoSecret ==
    ASSUME kind \in Kinds, DOMAIN table = Ids(kind), TableInv, NEW key, NEW value,
           NEW row \in Filtered(kind, table, key, value),
           NEW c \in DOMAIN row \ Passwords
    PROVE  row[c] # Secret
<1>1. PICK id \in DOMAIN table : table[id] # NoRow /\ row = Identity(kind, id) ++ table[id]
  BY DEF Filtered
<1>2. \A k \in DOMAIN Identity(kind, id) : Identity(kind, id)[k] # Secret
  <2>1. CASE kind = "directoryprotection"
    <3>1. Identity(kind, id) = [directory_path |-> id[1], directory_user |-> id[2]]
      BY <2>1 DEF Identity
    <3>2. id \in {<<"a", "user">>, <<"a", "other">>}
      BY <2>1 DEF Ids
    <3>3. id[1] = "a" /\ id[2] \in {"user", "other"}
      BY <3>2
    <3>4. id[1] # Secret /\ id[2] # Secret
      BY <3>3 DEF Secret
    <3> DEFINE at == [directory_path |-> id[1], directory_user |-> id[2]]
    <3>5. DOMAIN at = {"directory_path", "directory_user"}
          /\ at.directory_path = id[1] /\ at.directory_user = id[2]
      OBVIOUS
    <3> HIDE DEF at
    <3>6. \A k \in DOMAIN at : at[k] # Secret
      BY <3>4, <3>5
    <3> QED
      BY <3>1, <3>6 DEF at
  <2>2. CASE kind # "directoryprotection"
    <3>1. id # Secret
      BY <2>2 DEF Ids, Secret
    <3> QED
      BY <2>2, <3>1 DEF Identity, Only
  <2> QED
    BY <2>1, <2>2
<1> QED
  BY <1>1, <1>2 DEF TableInv, ++

\* What a command prints and records.  The process starts and ends with nothing
\* shown, reads have no dry run, and writes no table view.
ShownInv ==
    /\ pc # "exited" => shown = {} /\ record = NoRecord
    /\ pc = "read" => ~cmd.dryRun
    /\ pc \in {"build", "gate", "dispatch", "record"} => cmd.view = "json"
    /\ pc = "record" /\ reply.fate = "done" => reply.id \in Ids(kind)

\* A record or a preview of these parameters.
LEMMA RedactedIsNoSecret ==
    ASSUME NEW params, Redactable(params)
    PROVE  \A k \in DOMAIN RedactParams(params) :
              RedactParams(params)[k] # Secret /\ RedactParams(params)[k] # Text
<1> SUFFICES ASSUME NEW k \in DOMAIN params
             PROVE  RedactParams(params)[k] # Secret /\ RedactParams(params)[k] # Text
  BY DEF RedactParams
<1>1. RedactParams(params)[k]
        = IF redactParam(k) THEN "<redacted>"
          ELSE IF k \in {"config", "subscriber"} \/ Multiline(params[k]) THEN "<elided>"
          ELSE params[k]
  BY DEF RedactParams
<1>2. "<redacted>" # Secret /\ "<elided>" # Secret
      /\ "<redacted>" # Text /\ "<elided>" # Text
  BY DEF Secret, Text
<1>3. ~Multiline(params[k]) => params[k] # Text
  BY DEF Multiline
<1>4. ~redactParam(k) => params[k] # Secret
  BY DEF Redactable
<1> QED
  BY <1>1, <1>2, <1>3, <1>4

\* Fit to be recorded, and to be printed by a dry run.
Safe(f) == \A k \in DOMAIN f : f[k] # Secret /\ f[k] # Text

\* No command on a directory protection reports a new identifier.
LEMMA ProtectionReports ==
    ASSUME CommandInv, pc = "record", spec.created
    PROVE  kind # "directoryprotection"
<1>1. spec = Made /\ cmd.op \in {"add", "update", "delete"} /\ kind \in Kinds
  BY DEF CommandInv, StageInv
<1>2. ASSUME kind = "directoryprotection" PROVE ~Made.created
  BY <1>1, <1>2 DEF Made, Add, Update, Delete, DirectoryProtectionsAdd,
                    DirectoryProtectionsUpdate, DirectoryProtectionsDelete, writeSpec
<1> QED
  BY <1>1, <1>2

\* The record that a write ends with.
LEMMA FinishRecordsSafely ==
    ASSUME CommandInv, ShownInv, Finish
    PROVE  Safe(record'.fields)
<1>1. pc = "record"
  BY DEF Finish
<1>2. Safe(RedactParams(spec.request.params))
  BY <1>1, MadeRedactable, RedactedIsNoSecret DEF Safe
<1>3. CASE reply.fate = "done" /\ spec.created /\ reply.told
  <2>1. record'.fields = [created_id |-> reply.id] ++ RedactParams(spec.request.params)
    BY <1>3 DEF Finish, Record
  <2>2. kind # "directoryprotection"
    BY <1>1, <1>3, ProtectionReports
  <2>3. reply.id \in {"a", "b"}
    BY <1>1, <1>3, <2>2 DEF ShownInv, Ids
  <2>4. reply.id # Secret /\ reply.id # Text
    BY <2>3 DEF Secret, Text
  <2> QED
    BY <1>2, <2>1, <2>4 DEF Safe, ++
<1>4. CASE ~(reply.fate = "done" /\ spec.created /\ reply.told)
  <2>1. record'.fields = Nothing ++ RedactParams(spec.request.params)
    BY <1>4 DEF Finish, Record
  <2>2. DOMAIN Nothing = {}
    BY DEF Nothing
  <2> QED
    BY <1>2, <2>1, <2>2 DEF Safe, ++
<1> QED
  BY <1>3, <1>4

\* The cells of a table show no password.
LEMMA TableShowsSafely ==
    ASSUME CommandInv, TableInv, Read, cmd.view # "json"
    PROVE  UNCHANGED shown \/ \A e \in shown' : \A k \in DOMAIN e : e[k] # Secret
<1> DEFINE rows == Filtered(kind, table, Reader[1], cmd.arg)
<1>1. kind \in Kinds \ {"mailfilter"} /\ DOMAIN table = Ids(kind)
      /\ cmd.op \in {"get", "list"}
  BY DEF CommandInv, TypedInv, StageInv, Read, Operations
<1>2. ASSUME NEW r \in rows, NEW columns, columns \subseteq Reader[2],
             columns \cap Passwords = {}, NEW c \in columns
      PROVE  Decoded(Reader[2], r)[c] # Secret
  <2>1. Decoded(Reader[2], r)[c] = IF c \in DOMAIN r THEN r[c] ELSE ""
    BY <1>2 DEF Decoded
  <2>2. c \in DOMAIN r => r[c] # Secret
    BY <1>1, <1>2, RowsAreNoSecret
  <2> QED
    BY <2>1, <2>2 DEF Secret
<1>3. CASE cmd.op = "list"
  <2>1. PICK fault \in BOOLEAN : shown' = View(List(fault, rows, Reader[2]), Reader[3])
    BY <1>3 DEF Read
  <2>2. shown' = {[c \in Reader[3] |-> e[c]] : e \in List(fault, rows, Reader[2])}
    BY <2>1 DEF View
  <2> HIDE DEF rows
  <2>3. \A e \in List(fault, rows, Reader[2]) : \A c \in Reader[3] : e[c] # Secret
    BY <1>1, <1>2, ReaderHides DEF List
  <2> QED
    BY <2>2, <2>3
<1>4. CASE cmd.op = "get"
  <2>1. PICK fault \in BOOLEAN :
            LET entry == Get(cmd.arg, fault, rows, Reader[2])
            IN  IF entry = NoEntry THEN UNCHANGED shown
                ELSE shown' = View({entry}, Reader[4])
    BY <1>4 DEF Read
  <2> DEFINE entry == Get(cmd.arg, fault, rows, Reader[2])
             pick == CHOOSE r \in rows : TRUE
  <2>2. CASE entry = NoEntry
    BY <2>1, <2>2
  <2>3. CASE entry # NoEntry
    <3>1. shown' = {[c \in Reader[4] |-> entry[c]]}
      BY <2>1, <2>3 DEF View
    <3>2. entry = Decoded(Reader[2], pick) /\ Cardinality(rows) = 1
      BY <2>3 DEF Get
    <3>3. pick \in rows
      <4> HIDE DEF rows
      <4>1. rows = {} => Cardinality(rows) = 0
        BY FS_EmptySet, Zenon
      <4>2. Cardinality(rows) # 0
        BY <3>2
      <4>3. rows # {}
        BY <4>1, <4>2, Zenon
      <4> QED
        BY <4>3
    <3> HIDE DEF rows, pick, entry
    <3>4. \A c \in Reader[4] : entry[c] # Secret
      BY <1>1, <1>2, <3>2, <3>3, ReaderHides
    <3> QED
      BY <3>1, <3>4
  <2> QED
    BY <2>2, <2>3
<1> QED
  BY <1>1, <1>3, <1>4

\* SecretsNotLogged, entry by entry.
SafeInv ==
    /\ Safe(record.fields)
    /\ cmd.dryRun => \A e \in shown : Safe(e)
    /\ cmd.view = "table" => \A e \in shown : \A k \in DOMAIN e : e[k] # Secret

\* SafeInv is stronger than SecretsNotLogged.
LEMMA SafeIsNotLogged == SafeInv => SecretsNotLogged
BY DEF SafeInv, Safe, SecretsNotLogged

\* SecretsNotLogged, of redactParams and the table views: after any number of commands no
\* audit record, no dry run and no table has shown a password, and no record or dry run
\* the text of a file; in particular no password that the server stored came back by a read.
THEOREM SecretsNotLoggedCorrect == Spec => []SecretsNotLogged
<1>1. Init => TableInv /\ ShownInv /\ SafeInv
  <2> SUFFICES ASSUME Init PROVE TableInv /\ ShownInv /\ SafeInv
    OBVIOUS
  <2>1. TableInv
    <3>1. \A c \in DOMAIN OldRow \ Passwords : OldRow[c] # Secret
      BY DEF OldRow, Secret
    <3> QED
      BY <3>1 DEF Init, TableInv
  <2>2. shown = {} /\ record = NoRecord /\ pc = "idle" /\ reply.fate = "none"
    BY DEF Init, NoReply, Reply
  <2>3. DOMAIN NoRecord.fields = {}
    BY DEF NoRecord, Nothing
  <2> QED
    BY <2>1, <2>2, <2>3 DEF ShownInv, SafeInv, Safe
<1>2. CommandInv /\ TableInv /\ ShownInv /\ SafeInv /\ [Next]_vars
         => TableInv' /\ ShownInv' /\ SafeInv'
  <2> SUFFICES ASSUME CommandInv, TableInv, ShownInv, SafeInv, [Next]_vars
               PROVE  TableInv' /\ ShownInv' /\ SafeInv'
    OBVIOUS
  <2>1. UNCHANGED kind
    BY DEF Next, vars, Type, Build, Gate, Dispatch, Finish, Read, Return
  <2>2. Passwords' = Passwords /\ Ids(kind)' = Ids(kind)
    BY <2>1, ColumnsKept DEF Passwords, Ids
  <2>3. UNCHANGED table => TableInv'
    BY <2>1, <2>2 DEF TableInv
  <2>4. CASE Type
    <3>1. /\ UNCHANGED <<table, shown, record>> /\ pc = "idle" /\ pc' \in {"build", "read"}
          /\ pc' = "read" => ~cmd'.dryRun
          /\ pc' = "build" => cmd'.view = "json"
      BY <2>4 DEF Type
    <3> QED
      BY <2>3, <3>1 DEF ShownInv, SafeInv
  <2>5. CASE Build
    <3>1. /\ UNCHANGED <<table, cmd, shown, record>> /\ pc = "build"
          /\ pc' \in {"gate", "exited"}
      BY <2>5 DEF Build, Exit
    <3> QED
      BY <2>3, <3>1 DEF ShownInv, SafeInv
  <2>6. CASE Gate
    <3>1. /\ UNCHANGED <<table, cmd>> /\ pc = "gate" /\ pc' \in {"dispatch", "exited"}
          /\ pc' = "dispatch" => UNCHANGED <<shown, record>>
      BY <2>6 DEF Gate, Exit
    <3>2. Safe(RedactParams(spec.request.params))
      BY <3>1, MadeRedactable, RedactedIsNoSecret DEF Safe
    <3>3. Safe(Nothing ++ RedactParams(spec.request.params))
      <4>1. DOMAIN Nothing = {}
        BY DEF Nothing
      <4> QED
        BY <3>2, <4>1 DEF Safe, ++
    <3>4. shown' = shown \/ shown' = {RedactParams(spec.request.params)}
      BY <2>6 DEF Gate
    <3>5. record' = record \/ record'.fields = Nothing ++ RedactParams(spec.request.params)
      BY <2>6 DEF Gate, Record
    <3>6. Safe(record'.fields)
      BY <3>3, <3>5 DEF SafeInv
    <3>7. \A e \in shown' : Safe(e)
      BY <3>1, <3>2, <3>4 DEF ShownInv
    <3>8. ShownInv'
      BY <3>1 DEF ShownInv
    <3> QED
      BY <2>3, <3>1, <3>6, <3>7, <3>8 DEF SafeInv, Safe
  <2>7. CASE Dispatch
    <3>1. UNCHANGED <<cmd, shown, record>> /\ pc = "dispatch" /\ pc' = "record"
      BY <2>7 DEF Dispatch
    <3>2. \/ UNCHANGED table /\ reply'.fate # "done"
          \/ \E id \in Reached(spec.request.params) :
                /\ table' = Applied(id, Sets(kind, cmd.op, spec.request.params))
                /\ \E told : reply' = Reply("done", id, told)
      BY <2>7, CarriedOut
    <3>3. CASE UNCHANGED table /\ reply'.fate # "done"
      BY <2>3, <3>1, <3>3 DEF ShownInv, SafeInv
    <3>4. CASE \E id \in Reached(spec.request.params) :
                  /\ table' = Applied(id, Sets(kind, cmd.op, spec.request.params))
                  /\ \E told : reply' = Reply("done", id, told)
      <4>1. PICK id \in Reached(spec.request.params) :
                 /\ table' = Applied(id, Sets(kind, cmd.op, spec.request.params))
                 /\ \E told : reply' = Reply("done", id, told)
        BY <3>4
      <4>2. TableInv'
        BY <2>7, <4>1, AppliedKeepsTable
      <4>3. reply'.id \in Ids(kind)
        <5>1. reply'.id = id
          BY <4>1, ReplyParts
        <5> QED
          BY <3>1, <5>1, ReachesNamed
      <4> QED
        BY <2>2, <3>1, <4>2, <4>3 DEF ShownInv, SafeInv
    <3> QED
      BY <3>2, <3>3, <3>4
  <2>8. CASE Finish
    <3>1. /\ UNCHANGED <<table, cmd, shown>> /\ pc = "record" /\ pc' = "exited"
      BY <2>8 DEF Finish, Exit
    <3>2. Safe(record'.fields)
      BY <2>8, FinishRecordsSafely
    <3> QED
      BY <2>3, <3>1, <3>2 DEF ShownInv, SafeInv
  <2>9. CASE Read
    <3>1. /\ UNCHANGED <<table, cmd, record>> /\ pc = "read" /\ pc' = "exited" /\ ~cmd.dryRun
      BY <2>9 DEF Read, Exit, ShownInv
    <3>2. cmd.view # "json" => \A e \in shown' : \A k \in DOMAIN e : e[k] # Secret
      BY <2>9, <3>1, TableShowsSafely DEF ShownInv
    <3> QED
      BY <2>3, <3>1, <3>2 DEF ShownInv, SafeInv
  <2>10. CASE Return
    <3>1. UNCHANGED table /\ pc' = "idle" /\ shown' = {} /\ record' = NoRecord
      BY <2>10 DEF Return
    <3>2. DOMAIN NoRecord.fields = {}
      BY DEF NoRecord, Nothing
    <3> QED
      BY <2>3, <3>1, <3>2 DEF ShownInv, SafeInv, Safe
  <2>11. CASE UNCHANGED vars
    BY <2>2, <2>3, <2>11 DEF vars, ShownInv, SafeInv
  <2> QED
    BY <2>4, <2>5, <2>6, <2>7, <2>8, <2>9, <2>10, <2>11 DEF Next
<1> QED
  BY <1>1, <1>2, SafeIsNotLogged, CommandInvariance, PTL DEF Spec

===============================================================================
