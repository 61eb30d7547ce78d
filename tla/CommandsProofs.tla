---------------------------- MODULE CommandsProofs ----------------------------
(***************************************************************************)
(* Proofs about Commands, for every kind of resource and any number of     *)
(* commands: nothing is overwritten unasked, a get shows the entry, the    *)
(* audit record names the entry that changed, and the commands implement   *)
(* ResourceTable.  CommandsSecretsProofs goes on from here.                *)
(***************************************************************************)
EXTENDS Commands, FiniteSetTheorems, TLAPS

\* What build makes of the command line.
Made == CASE cmd.op = "add" -> Add(cmd.arg, cmd.flags)
          [] cmd.op = "update" -> Update(cmd.arg, cmd.flags, cmd.readable)
          [] cmd.op = "delete" -> Delete(cmd.arg)

\* The flags that an add or an update has.
FlagsOf(op) == IF op = "add" THEN DOMAIN AddFlags ELSE UpdateFlags

\* The command line is one of those Type can choose.
TypedInv ==
    pc # "idle" =>
       /\ cmd.op \in Operations
       /\ cmd.arg \in Arguments(cmd.op)
       /\ DOMAIN cmd.flags \subseteq FlagsOf(cmd.op)
       /\ \A x \in DOMAIN cmd.flags : cmd.flags[x] \in {Value(x)} \cup Others(x)

\* Reads and writes take their own paths; past build, spec is what build made of
\* the command line; past the gate, there is no dry run and a destructive command
\* has its consent.
StageInv ==
    /\ pc \in {"build", "gate", "dispatch", "record"} => cmd.op \in {"add", "update", "delete"}
    /\ pc = "read" => cmd.op \in {"get", "list"}
    /\ pc \in {"gate", "dispatch", "record"} => spec = Made /\ spec.usage
    /\ pc = "dispatch" => ~cmd.dryRun /\ (spec.destructive => cmd.consent)

\* The part of the inductive invariant that every proof here starts from.
CommandInv ==
    /\ kind \in Kinds
    /\ pc \in {"idle", "build", "gate", "dispatch", "record", "read", "exited"}
    /\ DOMAIN table = Ids(kind)
    /\ TypedInv
    /\ StageInv

-------------------------------------------------------------------------------
\* The command lines.

\* The lines of a command give flags that it has, with values that Value and Others name.
LEMMA LineFlags ==
    ASSUME NEW op, NEW flags \in Lines(op)
    PROVE  /\ DOMAIN flags \subseteq FlagsOf(op)
           /\ \A x \in DOMAIN flags : flags[x] \in {Value(x)} \cup Others(x)
<1>1. ASSUME NEW S, NEW f \in Variants(S)
      PROVE  /\ DOMAIN f \subseteq S
             /\ \A x \in DOMAIN f : f[x] \in {Value(x)} \cup Others(x)
  <2> DEFINE full == [x \in S |-> Value(x)]
  <2>1. CASE f = full
    BY <2>1
  <2>2. CASE \E x \in S : f = [y \in S \ {x} |-> full[y]]
    BY <2>2
  <2>3. CASE \E x \in S : \E v \in Others(x) : f = [full EXCEPT ![x] = v]
    BY <2>3
  <2> QED
    BY <2>1, <2>2, <2>3 DEF Variants
<1>2. CASE flags = Nothing
  <2>1. DOMAIN flags = {}
    BY <1>2 DEF Nothing
  <2> QED
    BY <2>1
<1>3. CASE flags = [x \in FlagsOf(op) |-> Value(x)]
  BY <1>3
<1>4. CASE op = "add" /\ flags \in AddLines
  BY <1>1, <1>4 DEF AddLines, FlagsOf
<1>5. CASE op = "update" /\ flags \in UpdateLines
  <2>2. CASE flags \in Variants(UpdateFlags)
    BY <1>1, <1>5, <2>2 DEF FlagsOf
  <2>3. CASE \E x \in UpdateFlags : \E v \in {Value(x)} \cup Others(x) : flags = Only(x, v)
    <3>1. PICK x \in UpdateFlags : \E v \in {Value(x)} \cup Others(x) : flags = Only(x, v)
      BY <2>3
    <3>2. PICK v \in {Value(x)} \cup Others(x) : flags = Only(x, v)
      BY <3>1
    <3>3. flags = [y \in {x} |-> v]
      BY <3>2 DEF Only
    <3> QED
      BY <1>5, <3>1, <3>3 DEF FlagsOf
  <2> QED
    BY <1>2, <1>5, <2>2, <2>3 DEF UpdateLines
<1>6. \/ flags = Nothing
      \/ flags = [x \in FlagsOf(op) |-> Value(x)]
      \/ op = "add" /\ flags \in AddLines
      \/ op = "update" /\ flags \in UpdateLines
  <2>1. CASE op \notin {"add", "update"}
    BY <2>1 DEF Lines
  <2>2. CASE op = "add"
    BY <2>2 DEF Lines, FlagsOf
  <2>3. CASE op = "update"
    BY <2>3 DEF Lines, FlagsOf
  <2> QED
    BY <2>1, <2>2, <2>3
<1> QED
  BY <1>2, <1>3, <1>4, <1>5, <1>6

\* What may be typed depends on the kind of resource alone, which no step changes.
LEMMA KindDecides ==
    ASSUME UNCHANGED kind
    PROVE  /\ Operations' = Operations
           /\ \A op : Arguments(op)' = Arguments(op) /\ FlagsOf(op)' = FlagsOf(op)
           /\ \A x : Value(x)' = Value(x) /\ Others(x)' = Others(x)
<1>1. Operations' = Operations
  BY DEF Operations
<1>2. ASSUME NEW op PROVE Arguments(op)' = Arguments(op)
  BY DEF Arguments
<1>3. AddFlags' = AddFlags /\ UpdateFlags' = UpdateFlags
  BY DEF AddFlags, UpdateFlags
<1>4. ASSUME NEW op PROVE FlagsOf(op)' = FlagsOf(op)
  BY <1>3 DEF FlagsOf
<1>5. ASSUME NEW x PROVE Value(x)' = Value(x) /\ Others(x)' = Others(x)
  BY DEF Value, Others, IsSwitch
<1> QED
  BY <1>1, <1>2, <1>4, <1>5

\* CommandInv holds however many commands there are: at first ...
LEMMA InitCommand == Init => CommandInv
BY DEF Init, CommandInv, TypedInv, StageInv

\* ... by every step ...
LEMMA NextCommand == CommandInv /\ [Next]_vars => CommandInv'
<1> SUFFICES ASSUME CommandInv, [Next]_vars PROVE CommandInv'
  OBVIOUS
<1>1. UNCHANGED kind
  BY DEF Next, vars, Type, Build, Gate, Dispatch, Finish, Read, Return
<1>2. CASE Type
  <2>1. PICK op \in Operations :
             \E arg \in Arguments(op), flags \in Lines(op) :
                cmd'.op = op /\ cmd'.arg = arg /\ cmd'.flags = flags
    BY <1>2 DEF Type
  <2>2. PICK arg \in Arguments(op), flags \in Lines(op) :
             cmd'.op = op /\ cmd'.arg = arg /\ cmd'.flags = flags
    BY <2>1
  <2>3. TypedInv'
    BY <1>1, <2>2, KindDecides, LineFlags DEF TypedInv
  <2>4. /\ pc' = IF op \in {"get", "list"} THEN "read" ELSE "build"
        /\ UNCHANGED table
    BY <1>2, <2>2 DEF Type
  <2>5. op \in {"add", "update", "delete", "list", "get"}
    BY DEF Operations
  <2>6. StageInv'
    BY <2>2, <2>4, <2>5 DEF StageInv
  <2> QED
    BY <1>1, <2>3, <2>4, <2>6 DEF CommandInv, Ids
<1>3. CASE UNCHANGED cmd /\ ~Type
  <2>1. pc # "idle" \/ UNCHANGED pc
    BY <1>3 DEF Next, vars, Build, Gate, Dispatch, Finish, Read, Return
  <2>2. TypedInv'
    BY <1>1, <1>3, <2>1, KindDecides DEF TypedInv, CommandInv
  <2>3. Made' = Made
    BY <1>1, <1>3 DEF Made, Add, Update, Delete
  <2>4. StageInv' /\ pc' \in {"idle", "build", "gate", "dispatch", "record", "read", "exited"}
    BY <1>3, <2>3 DEF Next, vars, Build, Gate, Dispatch, Finish, Read, Return, Exit,
                      StageInv, CommandInv, Made
  <2>5. DOMAIN table' = Ids(kind)
    BY <1>3 DEF Next, vars, Build, Gate, Dispatch, Finish, Read, Return, CommandInv, Applied
  <2> QED
    BY <1>1, <2>2, <2>4, <2>5 DEF CommandInv, Ids
<1>4. CASE Return
  BY <1>1, <1>4 DEF Return, CommandInv, TypedInv, StageInv, Ids
<1> QED
  BY <1>2, <1>3, <1>4 DEF Next, vars, Build, Gate, Dispatch, Finish, Read

\* ... and so always.
LEMMA CommandInvariance == Spec => []CommandInv
BY InitCommand, NextCommand, PTL DEF Spec

-------------------------------------------------------------------------------
\* Consent.

\* The gate asks for consent before every update (runWriteE, spec.destructive) ...
LEMMA UpdatesAreDestructive ==
    ASSUME kind \in Kinds \ {"mailfilter"}, NEW arg, NEW flags, NEW readable
    PROVE  Update(arg, flags, readable).destructive
BY DEF Update, Kinds, CronjobsUpdate, DDNSUsersUpdate, DatabasesUpdate,
       FTPUsersUpdate, SambaUsersUpdate, DirectoryProtectionsUpdate,
       MailAccountsUpdate, MailForwardsUpdate, MailListsUpdate, writeSpec

\* ... before every delete ...
LEMMA DeletesAreDestructive ==
    ASSUME kind \in Kinds, NEW arg
    PROVE  Delete(arg).destructive
BY DEF Delete, Kinds, CronjobsDelete, DDNSUsersDelete, DatabasesDelete,
       FTPUsersDelete, SambaUsersDelete, DirectoryProtectionsDelete,
       MailAccountsDelete, MailFiltersDelete, MailForwardsDelete, MailListsDelete,
       writeSpec

\* ... and before the one add that replaces what is there, a mail filter.
LEMMA FilterAddIsDestructive ==
    ASSUME kind = "mailfilter", NEW arg, NEW flags
    PROVE  Add(arg, flags).destructive
BY DEF Add, MailFiltersAdd, writeSpec

\* However many commands came before: an entry that is there changes or goes only
\* by a command that was consented to, and by no dry run.
THEOREM NothingOverwrittenUnaskedCorrect == Spec => NothingOverwrittenUnasked
<1>1. ASSUME CommandInv, [Next]_vars, NEW id \in Ids(kind),
             table[id] # NoRow, table'[id] # table[id]
      PROVE  cmd.consent /\ ~cmd.dryRun
  <2>1. Dispatch
    BY <1>1 DEF Next, vars, Type, Build, Gate, Finish, Read, Return
  <2>2. cmd.op \in {"add", "update", "delete"} /\ cmd.op \in Operations /\ spec = Made
        /\ ~cmd.dryRun /\ (spec.destructive => cmd.consent)
    BY <1>1, <2>1 DEF Dispatch, CommandInv, StageInv, TypedInv
  <2>3. PICK at \in Reached(spec.request.params) :
             table' = Applied(at, Sets(kind, cmd.op, spec.request.params))
    BY <1>1, <2>1 DEF Dispatch
  <2>4. at = id
    BY <1>1, <2>3 DEF Applied
  <2>5. cmd.op # "add" \/ kind = "mailfilter"
    BY <1>1, <2>3, <2>4 DEF Reached
  <2>6. spec.destructive
    <3>1. CASE cmd.op = "update"
      BY <1>1, <2>2, <3>1, UpdatesAreDestructive DEF Made, CommandInv, Operations
    <3>2. CASE cmd.op = "delete"
      BY <1>1, <2>2, <3>2, DeletesAreDestructive DEF Made, CommandInv
    <3>3. CASE cmd.op = "add"
      BY <2>2, <2>5, <3>3, FilterAddIsDestructive DEF Made
    <3> QED
      BY <2>2, <3>1, <3>2, <3>3
  <2> QED
    BY <2>2, <2>6
<1>2. CommandInv /\ [Next]_vars =>
        [\A id \in Ids(kind) :
            table[id] # NoRow /\ table'[id] # table[id] => cmd.consent /\ ~cmd.dryRun]_vars
  BY <1>1
<1> QED
  BY <1>2, CommandInvariance, PTL DEF Spec, NothingOverwrittenUnasked

\* What the list request of a kind filters by, decodes and shows covers its settings.
LEMMA ReaderKnows ==
    ASSUME kind \in Kinds \ {"directoryprotection", "mailfilter"}
    PROVE  /\ Reader[1] = KnownFilter[kind]
           /\ IdColumn(kind) \in Reader[2] \cap Reader[4]
           /\ IdColumn(kind) \notin Settings
           /\ Settings \subseteq Reader[2]
           /\ Settings \ (Passwords \cup {"mail_responder_text"}) \subseteq Reader[4]
<1> USE DEF Reader, KnownFilter, IdColumn, IdKey, Settings, Setting, Passwords, Secrets
<1>1. CASE kind = "cronjob"
  BY <1>1 DEF CronjobFilter, CronjobColumns, CronjobRow, CronjobDetail
<1>2. CASE kind = "ddnsuser"
  BY <1>2 DEF DDNSFilter, DDNSColumns, DDNSDetail
<1>3. CASE kind = "database"
  BY <1>3 DEF DatabaseFilter, DatabaseColumns, DatabaseDetail
<1>4. CASE kind = "ftpuser"
  BY <1>4 DEF FTPUserFilter, FTPUserColumns, FTPUserDetail
<1>5. CASE kind = "sambauser"
  BY <1>5 DEF SambaUserFilter, SambaUserColumns, SambaUserDetail
<1>6. CASE kind = "mailaccount"
  BY <1>6 DEF MailAccountFilter, MailAccountColumns, MailAccountDetail
<1>7. CASE kind = "mailforward"
  BY <1>7 DEF MailForwardFilter, MailForwardColumns, MailForwardDetail
<1>8. CASE kind = "mailinglist"
  BY <1>8 DEF MailingListFilter, MailingListColumns, MailingListDetail
<1> QED
  BY <1>1, <1>2, <1>3, <1>4, <1>5, <1>6, <1>7, <1>8 DEF Kinds

\* "No entry" is a value of its own, no function as entries are.  The configuration
\* makes NoRow a model value; for the provers it has to be said.
NoRowIsNoEntry == NoRow # [c \in DOMAIN NoRow |-> NoRow[c]]

\* The settings of an entry that is there are an entry.
LEMMA StoredIsEntry ==
    ASSUME NoRowIsNoEntry, NEW id, table[id] # NoRow
    PROVE  Stored(id) # NoRow
BY DEF NoRowIsNoEntry, Stored

\* A get that ends well has read one row of the server, the one of its argument.
LEMMA ReadShows ==
    ASSUME NoRowIsNoEntry, CommandInv, Read, cmd.op = "get", exit' = "ok"
    PROVE  GetShowsEntry'
<1>1. kind \in Kinds \ {"directoryprotection", "mailfilter"}
  BY DEF CommandInv, TypedInv, Read, Operations
<1>2. UNCHANGED <<kind, table, cmd>>
  BY DEF Read
<1> DEFINE rows == Filtered(kind, table, Reader[1], cmd.arg)
           row == Only(IdColumn(kind), cmd.arg) ++ table[cmd.arg]
           entry == Decoded(Reader[2], row)
<1>3. /\ shown' = View({Get(cmd.arg, FALSE, rows, Reader[2])}, Reader[4])
      /\ cmd.arg # "" /\ Cardinality(rows) = 1
      /\ Get(cmd.arg, FALSE, rows, Reader[2]) = Decoded(Reader[2], CHOOSE r \in rows : TRUE)
  BY DEF Read, Exit, Get, NoEntry
<1>4. cmd.arg \in DOMAIN table /\ table[cmd.arg] # NoRow /\ rows = {row}
  <2>1. rows = {Identity(kind, id) ++ table[id] :
                   id \in {i \in DOMAIN table : table[i] # NoRow} \cap {cmd.arg}}
    BY <1>1, <1>3, ReaderKnows DEF Filtered
  <2>2. rows # {}
    <3> HIDE DEF rows
    <3>1. rows = {} => Cardinality(rows) = 0
      BY FS_EmptySet, Zenon
    <3>2. Cardinality(rows) = 1
      BY <1>3
    <3>3. Cardinality(rows) # 0
      BY <3>2
    <3> QED
      BY <3>1, <3>3, Zenon
  <2>3. Identity(kind, cmd.arg) = Only(IdColumn(kind), cmd.arg)
    BY <1>1 DEF Identity
  <2> QED
    BY <2>1, <2>2, <2>3
<1>5. shown' = View({entry}, Reader[4])
  BY <1>3, <1>4
<1>6. /\ IdColumn(kind) \in DOMAIN entry /\ entry[IdColumn(kind)] = cmd.arg
      /\ \A c \in Settings : c \in DOMAIN entry /\ entry[c] = Stored(cmd.arg)[c]
  BY <1>1, <1>4, ReaderKnows DEF Decoded, Only, ++, Stored
<1>7. PICK e : /\ shown' = {e}
               /\ e[IdColumn(kind)] = cmd.arg
               /\ \A c \in Settings \ (IF cmd.view = "json" THEN {}
                                       ELSE Passwords \cup {"mail_responder_text"}) :
                     c \in DOMAIN e /\ e[c] = Stored(cmd.arg)[c]
  <2> HIDE DEF entry
  <2>1. CASE cmd.view = "json"
    <3>1. shown' = {entry}
      BY <1>5, <2>1 DEF View
    <3> QED
      BY <1>6, <2>1, <3>1
  <2>2. CASE cmd.view # "json"
    <3> DEFINE cells == [c \in Reader[4] |-> entry[c]]
    <3>1. shown' = {cells}
      BY <1>5, <2>2 DEF View
    <3>2. /\ cells[IdColumn(kind)] = cmd.arg
          /\ \A c \in Settings \ (Passwords \cup {"mail_responder_text"}) :
                c \in DOMAIN cells /\ cells[c] = Stored(cmd.arg)[c]
      BY <1>1, <1>6, ReaderKnows
    <3> HIDE DEF cells
    <3> QED
      BY <2>2, <3>1, <3>2
  <2> QED
    BY <2>1, <2>2
<1>8. Stored(cmd.arg) # NoRow
  BY <1>4, StoredIsEntry
<1>9. Settings' = Settings /\ Passwords' = Passwords /\ Stored(cmd.arg)' = Stored(cmd.arg)
  <2>1. Setting' = Setting
    BY <1>2 DEF Setting
  <2> QED
    BY <1>2, <2>1 DEF Settings, Passwords, Stored
<1> QED
  BY <1>2, <1>7, <1>8, <1>9 DEF GetShowsEntry

\* GetShowsEntry, of runGetE over the domain clients: a get that ends well printed one
\* entry, the one it was asked for, with every setting the server has of it.
THEOREM GetShowsEntryCorrect == NoRowIsNoEntry /\ Spec => []GetShowsEntry
<1> SUFFICES ASSUME NoRowIsNoEntry PROVE Spec => []GetShowsEntry
  OBVIOUS
<1>1. Init => GetShowsEntry
  BY DEF Init, GetShowsEntry
<1>2. CommandInv /\ GetShowsEntry /\ [Next]_vars => GetShowsEntry'
  <2> SUFFICES ASSUME CommandInv, GetShowsEntry, [Next]_vars,
                      pc' = "exited", cmd'.op = "get", exit' = "ok"
               PROVE  GetShowsEntry'
    BY DEF GetShowsEntry
  <2>1. CASE Read
    BY <2>1, ReadShows DEF Read
  <2>2. CASE UNCHANGED vars
    <3>1. Setting' = Setting
      BY <2>2 DEF vars, Setting
    <3>2. Settings' = Settings /\ Passwords' = Passwords
          /\ \A id : Stored(id)' = Stored(id)
      BY <2>2, <3>1 DEF vars, Settings, Passwords, Stored
    <3> QED
      BY <2>2, <3>2 DEF vars, GetShowsEntry
  <2> QED
    BY <2>1, <2>2 DEF Next, Type, Build, Gate, Dispatch, Finish, Return, CommandInv,
                      StageInv
<1> QED
  BY <1>1, <1>2, CommandInvariance, PTL DEF Spec

-------------------------------------------------------------------------------
\* Updates: what the request asks of the server is what the flags say.

\* The wire keys of the flags of an update.
KeysOf ==
    CASE kind = "cronjob" -> CronjobKeys
      [] kind = "ddnsuser" -> DDNSUserKeys
      [] kind = "database" -> DatabaseKeys
      [] kind = "ftpuser" -> FTPUserKeys
      [] kind = "sambauser" -> SambaUserKeys
      [] kind = "directoryprotection" ->
            [password |-> "directory_password", authname |-> "directory_authname"]
      [] kind = "mailaccount" -> MailAccountKeys
      [] kind = "mailinglist" ->
            [subscriber |-> "subscriber", restrict_post |-> "restrict_post",
             config_file |-> "config", active |-> "is_active"]

\* A kind whose updates are made of Changed: not a forward, which has targets.
Changing == Kinds \ {"mailfilter", "mailforward"}

\* Every wire key of an update names the setting of its flag, two flags never the same
\* one, and no key is one the server takes for the identifier.
LEMMA KeysFit ==
    ASSUME kind \in Changing
    PROVE  /\ DOMAIN KeysOf = UpdateFlags
           /\ UpdateFlags \subseteq DOMAIN Setting
           /\ \A x \in UpdateFlags :
                 /\ ColumnOf(kind, KeysOf[x]) = Setting[x]
                 /\ KeysOf[x] \notin AddOnly \cup {"created_id"}
                 /\ kind # "directoryprotection" => KeysOf[x] # IdKey[kind]
                 /\ KeysOf[x] \notin {"directory_path", "directory_user"}
           /\ \A x, y \in DOMAIN Setting : Setting[x] = Setting[y] => x = y
<1> USE DEF KeysOf, UpdateFlags, Setting, ColumnOf, NewPasswordOf, AddOnly, IdKey, ++
<1>1. CASE kind = "cronjob"
  BY <1>1 DEF CronjobKeys
<1>2. CASE kind = "ddnsuser"
  BY <1>2 DEF DDNSUserKeys
<1>3. CASE kind = "database"
  BY <1>3 DEF DatabaseKeys
<1>4. CASE kind = "ftpuser"
  BY <1>4 DEF FTPUserKeys
<1>5. CASE kind = "sambauser"
  BY <1>5 DEF SambaUserKeys
<1>6. CASE kind = "directoryprotection"
  BY <1>6
<1>7. CASE kind = "mailaccount"
  BY <1>7 DEF MailAccountKeys, MailAccountColumnOf
<1>8. CASE kind = "mailinglist"
  BY <1>8 DEF MailingListColumnOf
<1> QED
  BY <1>1, <1>2, <1>3, <1>4, <1>5, <1>6, <1>7, <1>8 DEF Kinds, Changing

\* The fields an update changes, by what the flags mean.
UpdateFields(flags) ==
    [k \in {KeysOf[x] : x \in DOMAIN flags} |->
        LET x == CHOOSE y \in DOMAIN flags : KeysOf[y] = k IN Meaning(x, flags[x])]

\* The fields that Changed collects are those of UpdateFields.
LEMMA ChangedMeans ==
    ASSUME NEW flags, NEW text, NEW switches, DOMAIN text = DOMAIN flags,
           \A x \in DOMAIN flags :
              Meaning(x, flags[x]) = IF x \in switches THEN boolToYN(text[x]) ELSE text[x]
    PROVE  Changed(text, KeysOf, switches) = UpdateFields(flags)
BY DEF Changed, UpdateFields

\* The request of an update: its fields, and the identifier of the entry.
LEMMA UpdateMade ==
    ASSUME kind \in Changing, NEW arg, NEW flags, DOMAIN flags \subseteq UpdateFlags,
           NEW readable
    PROVE  /\ ~Update(arg, flags, readable).created
           /\ kind # "directoryprotection" =>
                 /\ Update(arg, flags, readable).target = arg
                 /\ Update(arg, flags, readable).request.params
                       = With(IdKey[kind], arg, UpdateFields(flags))
           /\ kind = "directoryprotection" =>
                 /\ Update(arg, flags, readable).target = <<arg[1], arg[2]>>
                 /\ Update(arg, flags, readable).request.params
                       = UpdateFields(flags)
                         ++ [directory_path |-> arg[1], directory_user |-> arg[2]]
<1> USE DEF KeysOf, UpdateFlags, Meaning, IsSwitch, Switches, boolToYN, IdKey,
            Update, writeSpec, Request
<1>1. CASE kind = "cronjob"
  <2>1. Changed(flags, CronjobKeys, {"active"}) = UpdateFields(flags)
    BY <1>1, ChangedMeans DEF CronjobKeys
  <2> QED
    BY <1>1, <2>1 DEF CronjobsUpdate, CronjobUpdate
<1>2. CASE kind = "ddnsuser"
  <2>1. Changed(flags, DDNSUserKeys, {"dual_stack"}) = UpdateFields(flags)
    BY <1>2, ChangedMeans DEF DDNSUserKeys
  <2> QED
    BY <1>2, <2>1 DEF DDNSUsersUpdate, DDNSUpdate
<1>3. CASE kind = "database"
  <2>1. Changed(flags, DatabaseKeys, {}) = UpdateFields(flags)
    BY <1>3, ChangedMeans DEF DatabaseKeys
  <2> QED
    BY <1>3, <2>1 DEF DatabasesUpdate, DatabaseUpdate
<1>4. CASE kind = "ftpuser"
  <2>1. Changed(flags, FTPUserKeys, {"permission_read", "permission_write",
                                     "permission_list", "virus_clamav"})
          = UpdateFields(flags)
    BY <1>4, ChangedMeans DEF FTPUserKeys
  <2> QED
    BY <1>4, <2>1 DEF FTPUsersUpdate, FTPUserUpdate
<1>5. CASE kind = "sambauser"
  <2>1. Changed(flags, SambaUserKeys, {}) = UpdateFields(flags)
    BY <1>5, ChangedMeans DEF SambaUserKeys
  <2> QED
    BY <1>5, <2>1 DEF SambaUsersUpdate, SambaUserUpdate
<1>6. CASE kind = "directoryprotection"
  <2>1. Changed(flags, [password |-> "directory_password",
                        authname |-> "directory_authname"], {}) = UpdateFields(flags)
    BY <1>6, ChangedMeans
  <2> QED
    BY <1>6, <2>1 DEF DirectoryProtectionsUpdate, DirectoryProtectionUpdate, dpIdent
<1>7. CASE kind = "mailaccount"
  <2>1. Changed(flags, MailAccountKeys, {}) = UpdateFields(flags)
    BY <1>7, ChangedMeans DEF MailAccountKeys
  <2> QED
    BY <1>7, <2>1 DEF MailAccountsUpdate, MailAccountUpdate
<1>8. CASE kind = "mailinglist"
  <2> DEFINE text == [x \in DOMAIN flags |->
                        IF x \in {"subscriber", "restrict_post"} THEN Join(flags[x], "\n")
                        ELSE flags[x]]
  <2>1. Changed(text, [subscriber |-> "subscriber", restrict_post |-> "restrict_post",
                       config_file |-> "config", active |-> "is_active"], {})
          = UpdateFields(flags)
    BY <1>8, ChangedMeans
  <2> QED
    BY <1>8, <2>1 DEF MailListsUpdate, MailingListUpdate
<1> QED
  BY <1>1, <1>2, <1>3, <1>4, <1>5, <1>6, <1>7, <1>8 DEF Kinds, Changing

\* What the flags say, setting by setting.
LEMMA SaidMeans ==
    ASSUME NEW flags, DOMAIN flags \subseteq DOMAIN Setting,
           \A x, y \in DOMAIN Setting : Setting[x] = Setting[y] => x = y
    PROVE  /\ DOMAIN Said(flags) = {Setting[x] : x \in DOMAIN flags}
           /\ \A x \in DOMAIN flags : Said(flags)[Setting[x]] = Meaning(x, flags[x])
<1>1. DOMAIN Said(flags) = {Setting[x] : x \in DOMAIN flags}
  BY DEF Said
<1>2. ASSUME NEW x \in DOMAIN flags
      PROVE  Said(flags)[Setting[x]] = Meaning(x, flags[x])
  <2>1. (CHOOSE y \in DOMAIN flags : Setting[y] = Setting[x]) = x
    OBVIOUS
  <2> QED
    BY <2>1 DEF Said
<1> QED
  BY <1>1, <1>2

\* What the fields carry, key by key.
LEMMA UpdateFieldsMean ==
    ASSUME NEW flags, DOMAIN flags \subseteq UpdateFlags,
           \A x, y \in UpdateFlags : KeysOf[x] = KeysOf[y] => x = y
    PROVE  /\ DOMAIN UpdateFields(flags) = {KeysOf[x] : x \in DOMAIN flags}
           /\ \A x \in DOMAIN flags : UpdateFields(flags)[KeysOf[x]] = Meaning(x, flags[x])
<1>1. DOMAIN UpdateFields(flags) = {KeysOf[x] : x \in DOMAIN flags}
  BY DEF UpdateFields
<1>2. ASSUME NEW x \in DOMAIN flags
      PROVE  UpdateFields(flags)[KeysOf[x]] = Meaning(x, flags[x])
  <2>1. (CHOOSE y \in DOMAIN flags : KeysOf[y] = KeysOf[x]) = x
    OBVIOUS
  <2> QED
    BY <2>1 DEF UpdateFields
<1> QED
  BY <1>1, <1>2

\* The argument names the entry id: those of a directory protection are two.
Names(arg, id) ==
    /\ kind = "directoryprotection" => id = <<arg[1], arg[2]>>
    /\ kind # "directoryprotection" => id = arg

\* What the server makes of the parameters of an update is what its flags mean,
\* and of no other entry than the one the command names.
UpdateAsAsked(arg, flags, params) ==
    LET sets == Sets(kind, "update", params) IN
    /\ \A c \in Settings : c \in DOMAIN sets <=> c \in DOMAIN Said(flags)
    /\ \A c \in Settings \cap DOMAIN sets : sets[c] = Said(flags)[c]
    /\ DOMAIN sets \subseteq Columns
    /\ \A c \in DOMAIN sets \ Settings :
          kind = "directoryprotection" /\ sets[c] \in {arg[1], arg[2]}
    /\ \A id \in Named(kind, "update", params) : Names(arg, id)
    /\ "created_id" \notin DOMAIN params

\* An update over Changed asks of the server what its flags say.
LEMMA ChangingAsAsked ==
    ASSUME kind \in Changing, NEW arg, NEW flags, DOMAIN flags \subseteq UpdateFlags,
           NEW readable
    PROVE  UpdateAsAsked(arg, flags, Update(arg, flags, readable).request.params)
<1> DEFINE fields == UpdateFields(flags)
           params == Update(arg, flags, readable).request.params
           unknown == AddOnly \cup (IF kind = "directoryprotection" THEN {} ELSE {IdKey[kind]})
           known == DOMAIN params \ unknown
           sets == Sets(kind, "update", params)
           place == IF kind = "directoryprotection" THEN {"directory_path", "directory_user"}
                    ELSE {}
<1>1. \A x, y \in UpdateFlags : KeysOf[x] = KeysOf[y] => x = y
  BY KeysFit
<1>2. /\ DOMAIN fields = {KeysOf[x] : x \in DOMAIN flags}
      /\ \A x \in DOMAIN flags : fields[KeysOf[x]] = Meaning(x, flags[x])
  BY <1>1, UpdateFieldsMean
<1>3. /\ kind # "directoryprotection" => params = With(IdKey[kind], arg, fields)
      /\ kind = "directoryprotection" =>
            params = fields ++ [directory_path |-> arg[1], directory_user |-> arg[2]]
  BY UpdateMade
<1> HIDE DEF fields, params
<1>4. /\ DOMAIN params = DOMAIN fields \cup (IF kind = "directoryprotection"
                                             THEN place ELSE {IdKey[kind]})
      /\ \A x \in DOMAIN flags : params[KeysOf[x]] = Meaning(x, flags[x])
  BY <1>2, <1>3 DEF With, Only, ++
<1>5. known = {KeysOf[x] : x \in DOMAIN flags} \cup place
  <2>1. \A x \in DOMAIN flags : KeysOf[x] \notin unknown
    BY KeysFit
  <2>2. place \cap AddOnly = {}
    BY DEF AddOnly
  <2> QED
    BY <1>2, <1>4, <2>1, <2>2
<1>6. sets = [c \in {ColumnOf(kind, k) : k \in known} |->
                params[CHOOSE k \in known : ColumnOf(kind, k) = c]]
  BY DEF Sets, Changing
<1> HIDE DEF known, sets
<1>7. \A k \in place : ColumnOf(kind, k) = k /\ k \notin {Setting[x] : x \in DOMAIN Setting}
  <2>1. CASE kind = "directoryprotection"
    BY <2>1 DEF ColumnOf, NewPasswordOf, Setting
  <2> QED
    BY <2>1
<1>8. /\ \A x \in DOMAIN flags : x \in UpdateFlags /\ x \in DOMAIN Setting
                                 /\ ColumnOf(kind, KeysOf[x]) = Setting[x]
      /\ \A x, y \in DOMAIN Setting : Setting[x] = Setting[y] => x = y
  BY KeysFit
<1>9. DOMAIN sets = {Setting[x] : x \in DOMAIN flags} \cup place
  BY <1>5, <1>6, <1>7, <1>8
<1>10. ASSUME NEW x \in DOMAIN flags PROVE sets[Setting[x]] = Meaning(x, flags[x])
  <2>1. KeysOf[x] \in known /\ ColumnOf(kind, KeysOf[x]) = Setting[x]
    BY <1>5, <1>8
  <2>2. \A k \in known : ColumnOf(kind, k) = Setting[x] => k = KeysOf[x]
    BY <1>5, <1>7, <1>8
  <2>3. (CHOOSE k \in known : ColumnOf(kind, k) = Setting[x]) = KeysOf[x]
    BY <2>1, <2>2
  <2> QED
    BY <1>4, <1>6, <1>9, <2>3
<1>11. /\ DOMAIN Said(flags) = {Setting[x] : x \in DOMAIN flags}
       /\ \A x \in DOMAIN flags : Said(flags)[Setting[x]] = Meaning(x, flags[x])
  BY <1>8, SaidMeans
<1>12. place \cap Settings = {} /\ place \subseteq Columns
       /\ \A x \in DOMAIN flags : Setting[x] \in Settings
  BY <1>7, <1>8 DEF Settings, Columns, Reader, DirectoryProtectionColumns
<1>13. \A id \in Named(kind, "update", params) : Names(arg, id)
  <2>1. CASE kind = "directoryprotection"
    <3>1. \A k \in place : k \notin DOMAIN fields
      BY <1>2, <2>1, KeysFit
    <3>2. params.directory_path = arg[1] /\ params.directory_user = arg[2]
      BY <1>3, <2>1, <3>1 DEF ++
    <3> QED
      BY <2>1, <3>2 DEF Named, Names
  <2>2. CASE kind # "directoryprotection"
    <3>1. IdKey[kind] \notin DOMAIN fields
      BY <1>2, <2>2, KeysFit
    <3>2. params[IdKey[kind]] = arg
      BY <1>3, <2>2, <3>1 DEF With, Only, ++
    <3> QED
      BY <2>2, <3>2 DEF Named, Names, Changing
  <2> QED
    BY <2>1, <2>2
<1>14. "created_id" \notin DOMAIN params
  <2>1. "created_id" \notin DOMAIN fields
    BY <1>2, KeysFit
  <2>2. kind # "directoryprotection" => IdKey[kind] # "created_id"
    BY DEF IdKey, Changing, Kinds
  <2> QED
    BY <1>4, <2>1, <2>2
<1>15. /\ \A c \in Settings : c \in DOMAIN sets <=> c \in DOMAIN Said(flags)
       /\ \A c \in Settings \cap DOMAIN sets : sets[c] = Said(flags)[c]
       /\ DOMAIN sets \subseteq Columns
  BY <1>9, <1>10, <1>11, <1>12 DEF Columns
<1>16. ASSUME NEW c \in DOMAIN sets \ Settings
       PROVE  kind = "directoryprotection" /\ sets[c] \in {arg[1], arg[2]}
  <2>1. c \in place /\ kind = "directoryprotection"
    BY <1>9, <1>12
  <2>2. params[c] \in {arg[1], arg[2]}
    <3>1. c \notin DOMAIN fields
      BY <1>2, <2>1, KeysFit
    <3> QED
      BY <1>3, <2>1, <3>1 DEF ++
  <2>3. c \in known /\ ColumnOf(kind, c) = c
    BY <1>5, <1>7, <2>1
  <2>4. \A k \in known : ColumnOf(kind, k) = c => k = c
    BY <1>5, <1>7, <1>8, <2>1
  <2>5. (CHOOSE k \in known : ColumnOf(kind, k) = c) = c
    BY <2>3, <2>4
  <2> QED
    BY <1>6, <2>1, <2>2, <2>3, <2>5
<1> QED
  BY <1>13, <1>14, <1>15, <1>16 DEF UpdateAsAsked, sets, params

\* The server reads back from target_0, target_1, ... the targets that addTargets put
\* there, whatever other parameters go along.
LEMMA TargetsMean ==
    ASSUME NEW rest, DOMAIN rest \cap {"target_0", "target_1", "target_2"} = {},
           NEW a, NEW b
    PROVE  /\ Targets(addTargets(<<a>>) ++ rest) = Join(<<a>>, ",")
           /\ Targets(addTargets(<<a, b>>) ++ rest) = Join(<<a, b>>, ",")
<1> DEFINE key == <<"target_0", "target_1", "target_2">>
           numbers == {"target_0", "target_1", "target_2"}
           one == addTargets(<<a>>) ++ rest
           two == addTargets(<<a, b>>) ++ rest
<1>1. DOMAIN addTargets(<<a>>) = {"target_0"} /\ addTargets(<<a>>)["target_0"] = a
  <2>1. DOMAIN <<a>> = {1}
    OBVIOUS
  <2>2. (CHOOSE i \in {1} : key[i] = "target_0") = 1
    OBVIOUS
  <2>3. addTargets(<<a>>) = [k \in {key[i] : i \in {1}} |->
                               <<a>>[CHOOSE i \in {1} : key[i] = k]]
    BY <2>1 DEF addTargets
  <2> QED
    BY <2>2, <2>3
<1>2. /\ DOMAIN addTargets(<<a, b>>) = {"target_0", "target_1"}
      /\ addTargets(<<a, b>>)["target_0"] = a
      /\ addTargets(<<a, b>>)["target_1"] = b
  <2>1. DOMAIN <<a, b>> = {1, 2}
    OBVIOUS
  <2>2. (CHOOSE i \in {1, 2} : key[i] = "target_0") = 1
        /\ (CHOOSE i \in {1, 2} : key[i] = "target_1") = 2
    OBVIOUS
  <2>3. addTargets(<<a, b>>) = [k \in {key[i] : i \in {1, 2}} |->
                                  <<a, b>>[CHOOSE i \in {1, 2} : key[i] = k]]
    BY <2>1 DEF addTargets
  <2> QED
    BY <2>2, <2>3
<1>3. /\ numbers \cap DOMAIN one = {"target_0"} /\ one["target_0"] = a
      /\ numbers \cap DOMAIN two = {"target_0", "target_1"}
      /\ two["target_0"] = a /\ two["target_1"] = b
  BY <1>1, <1>2 DEF ++
<1>4. Cardinality({"target_0"}) = 1 /\ Cardinality({"target_0", "target_1"}) = 2
  <2>1. IsFiniteSet({"target_0"}) /\ Cardinality({"target_0"}) = 1
    BY FS_Singleton
  <2>2. {"target_0", "target_1"} = {"target_0"} \cup {"target_1"}
    OBVIOUS
  <2>3. Cardinality({"target_0"} \cup {"target_1"})
          = IF "target_1" \in {"target_0"} THEN 1 ELSE 1 + 1
    BY <2>1, FS_AddElement
  <2> QED
    BY <2>1, <2>2, <2>3
<1> HIDE DEF one, two
<1>5. Targets(one) = Join([i \in 1..1 |-> one[key[i]]], ",")
  BY <1>3, <1>4 DEF Targets
<1>6. Targets(two) = Join([i \in 1..2 |-> two[key[i]]], ",")
  BY <1>3, <1>4 DEF Targets
<1>7. [i \in 1..1 |-> one[key[i]]] = <<a>> /\ [i \in 1..2 |-> two[key[i]]] = <<a, b>>
  BY <1>3
<1> QED
  BY <1>5, <1>6, <1>7 DEF one, two

\* The values of --target are one target or two, if there is one.
LEMMA TargetsGiven ==
    ASSUME NEW targets \in {Value("target")} \cup Others("target"), Len(targets) > 0
    PROVE  \E a, b : targets = <<a>> \/ targets = <<a, b>>
<1>1. Value("target") = <<"target", "second">>
  BY DEF Value, IsSwitch, Switches, Repeated, Secrets, Texts
<1>2. Others("target") = {<<>>, <<"target">>, <<"">>, <<Semicolon>>}
  BY DEF Others, IsSwitch, Switches, Repeated
<1>3. targets # <<>>
  OBVIOUS
<1> QED
  BY <1>1, <1>2, <1>3

\* An update of a forward asks of the server what --target says.
LEMMA ForwardAsAsked ==
    ASSUME kind = "mailforward", NEW arg, NEW flags,
           DOMAIN flags \subseteq UpdateFlags,
           \A x \in DOMAIN flags : flags[x] \in {Value(x)} \cup Others(x),
           NEW readable, Update(arg, flags, readable).usage
    PROVE  /\ UpdateAsAsked(arg, flags, Update(arg, flags, readable).request.params)
           /\ Update(arg, flags, readable).target = arg
<1> DEFINE params == With("mail_forward", arg, addTargets(flags.target))
<1>1. UpdateFlags = {"target"} /\ Settings = {"mail_forward_targets"}
      /\ Setting = [target |-> "mail_forward_targets"]
  BY DEF UpdateFlags, Settings, Setting
<1>2. DOMAIN flags = {"target"}
  <2> SUFFICES ASSUME "target" \notin DOMAIN flags PROVE FALSE
    BY <1>1
  <2>1. (flags ++ [target |-> <<>>]).target = <<>>
    BY DEF ++
  <2>2. Len((flags ++ [target |-> <<>>]).target) > 0
    BY DEF Update, MailForwardsUpdate, writeSpec
  <2>3. Len(<<>>) > 0
    BY <2>1, <2>2
  <2> QED
    BY <2>3
<1>3. /\ Update(arg, flags, readable).request.params = params
      /\ Update(arg, flags, readable).target = arg
      /\ Len(flags.target) > 0
  <2>1. (flags ++ [target |-> <<>>]).target = flags.target
    BY <1>2 DEF ++
  <2> QED
    BY <2>1 DEF Update, MailForwardsUpdate, MailForwardUpdate, writeSpec, Request
<1>4. PICK a, b : flags.target = <<a>> \/ flags.target = <<a, b>>
  BY <1>2, <1>3, TargetsGiven
<1>5. Targets(params) = Join(flags.target, ",")
  <2>1. DOMAIN Only("mail_forward", arg) \cap {"target_0", "target_1", "target_2"} = {}
    BY DEF Only
  <2>2. /\ Targets(addTargets(<<a>>) ++ Only("mail_forward", arg)) = Join(<<a>>, ",")
        /\ Targets(addTargets(<<a, b>>) ++ Only("mail_forward", arg)) = Join(<<a, b>>, ",")
    BY <2>1, TargetsMean
  <2> QED
    BY <1>4, <2>2 DEF With
<1>6. Sets(kind, "update", params) = [mail_forward_targets |-> Join(flags.target, ",")]
  BY <1>5 DEF Sets
<1>7. Said(flags) = [c \in {"mail_forward_targets"} |-> Join(flags.target, ",")]
  <2>1. Meaning("target", flags.target) = Join(flags.target, ",")
    BY DEF Meaning, IsSwitch, Switches
  <2>2. Said(flags) = [c \in {"mail_forward_targets"} |->
           LET x == CHOOSE y \in {"target"} : Setting[y] = c IN Meaning(x, flags[x])]
    BY <1>1, <1>2 DEF Said
  <2>3. (CHOOSE y \in {"target"} : Setting[y] = "mail_forward_targets") = "target"
    BY <1>1
  <2>4. \A c \in {"mail_forward_targets"} :
           (LET x == CHOOSE y \in {"target"} : Setting[y] = c IN Meaning(x, flags[x]))
             = Join(flags.target, ",")
    BY <2>1, <2>3
  <2> QED
    BY <2>2, <2>4
<1>8. /\ DOMAIN params \subseteq {"target_0", "target_1", "target_2", "mail_forward"}
      /\ params["mail_forward"] = arg
  BY <1>4 DEF With, Only, ++, addTargets
<1>9. Named(kind, "update", params) = {arg}
  <2>1. "mail_forward" \in DOMAIN params
    BY DEF With, Only, ++
  <2> QED
    BY <1>8, <2>1 DEF Named, IdKey
<1> HIDE DEF params
<1> QED
  BY <1>1, <1>3, <1>6, <1>7, <1>8, <1>9 DEF UpdateAsAsked, Names, Columns

-------------------------------------------------------------------------------
\* Adds and deletes, in the same way.

\* The wire keys of the flags of an add, and the parameters that are not flags.
AddKeysOf ==
    CASE kind = "cronjob" -> CronjobKeys
      [] kind = "ddnsuser" ->
            [password |-> "dyndns_password", zone |-> "dyndns_zone", label |-> "dyndns_label",
             target_ip |-> "dyndns_target_ip", comment |-> "dyndns_comment",
             dual_stack |-> "dyndns_dual_stack"]
      [] kind = "database" ->
            [password |-> "database_password", comment |-> "database_comment",
             allowed_hosts |-> "database_allowed_hosts"]
      [] kind = "ftpuser" ->
            [password |-> "ftp_password", comment |-> "ftp_comment", path |-> "ftp_path",
             permission_read |-> "ftp_permission_read",
             permission_write |-> "ftp_permission_write",
             permission_list |-> "ftp_permission_list", virus_clamav |-> "ftp_virus_clamav"]
      [] kind = "sambauser" ->
            [password |-> "samba_password", comment |-> "samba_comment",
             path |-> "samba_path"]
      [] kind = "directoryprotection" ->
            [password |-> "directory_password", authname |-> "directory_authname"]
      [] kind = "mailaccount" ->
            [password |-> "mail_password", webmail_autologin |-> "webmail_autologin",
             responder |-> "responder",
             responder_content_type |-> "mail_responder_content_type",
             responder_displayname |-> "mail_responder_displayname",
             responder_text |-> "responder_text", copy_address |-> "copy_adress",
             sender_alias |-> "mail_sender_alias", xlist_enabled |-> "mail_xlist_enabled",
             xlist_sent |-> "mail_xlist_sent", xlist_drafts |-> "mail_xlist_drafts",
             xlist_trash |-> "mail_xlist_trash", xlist_spam |-> "mail_xlist_spam",
             xlist_archiv |-> "mail_xlist_archiv", allow_nets |-> "mail_allow_nets"]
      [] kind = "mailfilter" -> [filter |-> "filter"]
      [] kind = "mailinglist" ->
            [domain |-> "mailinglist_domain", password |-> "mailinglist_password"]

\* The parameters of an add that come from its argument.
NotFlags ==
    CASE kind = "directoryprotection" -> {"directory_path", "directory_user"}
      [] kind = "mailaccount" -> {"local_part", "domain_part"}
      [] kind = "mailfilter" -> {"mail_login"}
      [] kind = "mailinglist" -> {"mailinglist_name"}
      [] OTHER -> {}

\* Every wire key of an add names the setting of its flag, two flags never the same one.
LEMMA AddKeysFit ==
    ASSUME kind \in Kinds \ {"mailforward"}
    PROVE  /\ DOMAIN AddFlags \subseteq DOMAIN Setting
           /\ \A x \in DOMAIN AddFlags :
                 /\ ColumnOf(kind, AddKeysOf[x]) = Setting[x]
                 /\ AddKeysOf[x] \notin UpdateOnly \cup {"created_id"} \cup NotFlags
                 /\ kind # "directoryprotection" => AddKeysOf[x] # IdKey[kind]
           /\ \A x, y \in DOMAIN Setting : Setting[x] = Setting[y] => x = y
           /\ \A x \in DOMAIN Setting :
                 Setting[x] \notin {"local_part", "domain_part", "mail_addresses"}
<1> USE DEF AddKeysOf, NotFlags, AddFlags, Setting, ColumnOf, NewPasswordOf, UpdateOnly,
            IdKey, ++
<1>1. CASE kind = "cronjob"
  BY <1>1 DEF CronjobKeys, CronjobAddFlags
<1>2. CASE kind = "ddnsuser"
  BY <1>2 DEF DDNSUserAddFlags
<1>3. CASE kind = "database"
  BY <1>3 DEF DatabaseAddFlags
<1>4. CASE kind = "ftpuser"
  BY <1>4 DEF FTPUserAddFlags
<1>5. CASE kind = "sambauser"
  BY <1>5 DEF SambaUserAddFlags
<1>6. CASE kind = "directoryprotection"
  BY <1>6
<1>7. CASE kind = "mailaccount"
  BY <1>7 DEF MailAccountAddFlags, MailAccountColumnOf
<1>8. CASE kind = "mailfilter"
  BY <1>8
<1>9. CASE kind = "mailinglist"
  BY <1>9 DEF MailingListColumnOf
<1> QED
  BY <1>1, <1>2, <1>3, <1>4, <1>5, <1>6, <1>7, <1>8, <1>9 DEF Kinds

\* The parameters of an add: every flag's value, as given or by default, under its
\* wire key.
AddParams(given, params) ==
    /\ DOMAIN params = {AddKeysOf[x] : x \in DOMAIN AddFlags} \cup NotFlags
    /\ \A x \in DOMAIN AddFlags : params[AddKeysOf[x]] = Meaning(x, given[x])

\* The request of an add carries every flag, as given or by default.
LEMMA AddMade ==
    ASSUME kind \in Kinds \ {"mailforward"}, NEW arg, NEW flags
    PROVE  AddParams(flags ++ AddFlags, Add(arg, flags).request.params)
<1> DEFINE f == flags ++ AddFlags
           params == Add(arg, flags).request.params
<1> SUFFICES AddParams(f, params)
  OBVIOUS
<1>1. CASE kind = "cronjob"
  <2>1. params = CronjobAdd(CronjobSpec(f)).params
    BY <1>1 DEF Add, AddFlags, CronjobsAdd, writeSpec
  <2> HIDE DEF params, f
  <2>2. DOMAIN params = {AddKeysOf[x] : x \in DOMAIN AddFlags} \cup NotFlags
    BY <1>1, <2>1 DEF AddFlags, AddKeysOf, NotFlags, Request, CronjobAdd, CronjobSpec,
                      CronjobKeys, CronjobAddFlags
  <2>3. \A x \in DOMAIN AddFlags : Meaning(x, f[x]) = IF x \in {"active"}
                                                    THEN boolToYN(f[x]) ELSE f[x]
    BY <1>1 DEF AddFlags, Meaning, IsSwitch, Switches, Repeated, boolToYN, CronjobKeys,
                CronjobAddFlags
  <2>4. \A x \in DOMAIN AddFlags : params[AddKeysOf[x]] = IF x \in {"active"}
                                                    THEN boolToYN(f[x]) ELSE f[x]
    BY <1>1, <2>1 DEF AddFlags, AddKeysOf, Request, CronjobAdd, CronjobSpec, CronjobKeys,
                      CronjobAddFlags
  <2> QED
    BY <2>2, <2>3, <2>4 DEF AddParams
<1>2. CASE kind = "ddnsuser"
  <2>1. params = DDNSAdd(DDNSUserSpec(f)).params
    BY <1>2 DEF Add, AddFlags, DDNSUsersAdd, writeSpec
  <2> HIDE DEF params, f
  <2>2. DOMAIN params = {AddKeysOf[x] : x \in DOMAIN AddFlags} \cup NotFlags
    BY <1>2, <2>1 DEF AddFlags, AddKeysOf, NotFlags, Request, DDNSAdd, DDNSUserSpec,
                      DDNSUserAddFlags
  <2>3. \A x \in DOMAIN AddFlags : Meaning(x, f[x]) = IF x \in {"dual_stack"}
                                                    THEN boolToYN(f[x]) ELSE f[x]
    BY <1>2 DEF AddFlags, Meaning, IsSwitch, Switches, Repeated, boolToYN, DDNSUserAddFlags
  <2>4. \A x \in DOMAIN AddFlags : params[AddKeysOf[x]] = IF x \in {"dual_stack"}
                                                    THEN boolToYN(f[x]) ELSE f[x]
    BY <1>2, <2>1 DEF AddFlags, AddKeysOf, Request, DDNSAdd, DDNSUserSpec, DDNSUserAddFlags
  <2> QED
    BY <2>2, <2>3, <2>4 DEF AddParams
<1>3. CASE kind = "database"
  <2>1. params = DatabaseAdd(DatabaseSpec(f)).params
    BY <1>3 DEF Add, AddFlags, DatabasesAdd, writeSpec
  <2> HIDE DEF params, f
  <2>2. DOMAIN params = {AddKeysOf[x] : x \in DOMAIN AddFlags} \cup NotFlags
    BY <1>3, <2>1 DEF AddFlags, AddKeysOf, NotFlags, Request, DatabaseAdd, DatabaseSpec,
                      DatabaseAddFlags
  <2>3. \A x \in DOMAIN AddFlags : Meaning(x, f[x]) = f[x]
    BY <1>3 DEF AddFlags, Meaning, IsSwitch, Switches, Repeated, boolToYN, DatabaseAddFlags
  <2>4. \A x \in DOMAIN AddFlags : params[AddKeysOf[x]] = f[x]
    BY <1>3, <2>1 DEF AddFlags, AddKeysOf, Request, DatabaseAdd, DatabaseSpec,
                      DatabaseAddFlags
  <2> QED
    BY <2>2, <2>3, <2>4 DEF AddParams
<1>4. CASE kind = "ftpuser"
  <2>1. params = FTPUserAdd(FTPUserSpec(f)).params
    BY <1>4 DEF Add, AddFlags, FTPUsersAdd, writeSpec
  <2> HIDE DEF params, f
  <2>2. DOMAIN params = {AddKeysOf[x] : x \in DOMAIN AddFlags} \cup NotFlags
    BY <1>4, <2>1 DEF AddFlags, AddKeysOf, NotFlags, Request, FTPUserAdd, FTPUserSpec,
                      FTPUserAddFlags
  <2>3. \A x \in DOMAIN AddFlags : Meaning(x, f[x]) =
            IF x \in {"permission_read", "permission_write", "permission_list", "virus_clamav"}
                                                    THEN boolToYN(f[x]) ELSE f[x]
    BY <1>4 DEF AddFlags, Meaning, IsSwitch, Switches, Repeated, boolToYN, FTPUserAddFlags
  <2>4. \A x \in DOMAIN AddFlags : params[AddKeysOf[x]] =
            IF x \in {"permission_read", "permission_write", "permission_list", "virus_clamav"}
                                                    THEN boolToYN(f[x]) ELSE f[x]
    BY <1>4, <2>1 DEF AddFlags, AddKeysOf, Request, FTPUserAdd, FTPUserSpec, FTPUserAddFlags
  <2> QED
    BY <2>2, <2>3, <2>4 DEF AddParams
<1>5. CASE kind = "sambauser"
  <2>1. params = SambaUserAdd(SambaUserSpec(f)).params
    BY <1>5 DEF Add, AddFlags, SambaUsersAdd, writeSpec
  <2> HIDE DEF params, f
  <2>2. DOMAIN params = {AddKeysOf[x] : x \in DOMAIN AddFlags} \cup NotFlags
    BY <1>5, <2>1 DEF AddFlags, AddKeysOf, NotFlags, Request, SambaUserAdd, SambaUserSpec,
                      SambaUserAddFlags
  <2>3. \A x \in DOMAIN AddFlags : Meaning(x, f[x]) = f[x]
    BY <1>5 DEF AddFlags, Meaning, IsSwitch, Switches, Repeated, boolToYN, SambaUserAddFlags
  <2>4. \A x \in DOMAIN AddFlags : params[AddKeysOf[x]] = f[x]
    BY <1>5, <2>1 DEF AddFlags, AddKeysOf, Request, SambaUserAdd, SambaUserSpec,
                      SambaUserAddFlags
  <2> QED
    BY <2>2, <2>3, <2>4 DEF AddParams
<1>6. CASE kind = "directoryprotection"
  <2>1. params = DirectoryProtectionAdd([User |-> arg[2], Path |-> arg[1],
                                           Password |-> f.password,
                                           AuthName |-> f.authname]).params
    BY <1>6 DEF Add, AddFlags, DirectoryProtectionsAdd, writeSpec
  <2> HIDE DEF params, f
  <2>2. DOMAIN params = {AddKeysOf[x] : x \in DOMAIN AddFlags} \cup NotFlags
    BY <1>6, <2>1 DEF AddFlags, AddKeysOf, NotFlags, Request, DirectoryProtectionAdd
  <2>3. \A x \in DOMAIN AddFlags : Meaning(x, f[x]) = f[x]
    BY <1>6 DEF AddFlags, Meaning, IsSwitch, Switches, Repeated, boolToYN
  <2>4. \A x \in DOMAIN AddFlags : params[AddKeysOf[x]] = f[x]
    BY <1>6, <2>1 DEF AddFlags, AddKeysOf, Request, DirectoryProtectionAdd
  <2> QED
    BY <2>2, <2>3, <2>4 DEF AddParams
<1>7. CASE kind = "mailaccount"
  <2>1. params = MailAccountAdd(MailAccountSpec(f, splitMailAddress(arg).local,
                                                 splitMailAddress(arg).domain)).params
    BY <1>7 DEF Add, AddFlags, MailAccountsAdd, writeSpec
  <2> HIDE DEF params, f
  <2>2. DOMAIN params = {AddKeysOf[x] : x \in DOMAIN AddFlags} \cup NotFlags
    BY <1>7, <2>1 DEF AddFlags, AddKeysOf, NotFlags, Request, MailAccountAdd,
                      MailAccountSpec, MailAccountAddFlags
  <2>3. \A x \in DOMAIN AddFlags : Meaning(x, f[x]) = f[x]
    BY <1>7 DEF AddFlags, Meaning, IsSwitch, Switches, Repeated, boolToYN,
                MailAccountAddFlags
  <2>4. \A x \in DOMAIN AddFlags : params[AddKeysOf[x]] = f[x]
    BY <1>7, <2>1 DEF AddFlags, AddKeysOf, Request, MailAccountAdd, MailAccountSpec,
                      MailAccountAddFlags
  <2> QED
    BY <2>2, <2>3, <2>4 DEF AddParams
<1>8. CASE kind = "mailfilter"
  <2>1. params = [mail_login |-> arg, filter |-> JoinFilters(f.filter).chain]
    BY <1>8 DEF Add, AddFlags, MailFiltersAdd, MailFilterAdd, writeSpec, Request
  <2>2. JoinFilters(f.filter).chain = Join(f.filter, ";")
    BY DEF JoinFilters
  <2>3. Meaning("filter", f.filter) = Join(f.filter, ";")
    BY DEF Meaning, IsSwitch, Switches
  <2> HIDE DEF params, f
  <2>4. DOMAIN AddFlags = {"filter"} /\ AddKeysOf["filter"] = "filter"
    BY <1>8 DEF AddFlags, AddKeysOf
  <2>5. DOMAIN params = {"filter"} \cup NotFlags
    BY <1>8, <2>1 DEF NotFlags
  <2>6. params["filter"] = Meaning("filter", f["filter"])
    BY <2>1, <2>2, <2>3
  <2>7. {AddKeysOf[x] : x \in DOMAIN AddFlags} = {"filter"}
    BY <2>4
  <2> QED
    BY <2>4, <2>5, <2>6, <2>7 DEF AddParams
<1>9. CASE kind = "mailinglist"
  <2>1. params = MailingListAdd(arg, f.domain, f.password).params
    BY <1>9 DEF Add, AddFlags, MailListsAdd, writeSpec
  <2> HIDE DEF params, f
  <2>2. DOMAIN params = {AddKeysOf[x] : x \in DOMAIN AddFlags} \cup NotFlags
    BY <1>9, <2>1 DEF AddFlags, AddKeysOf, NotFlags, Request, MailingListAdd
  <2>3. \A x \in DOMAIN AddFlags : Meaning(x, f[x]) = f[x]
    BY <1>9 DEF AddFlags, Meaning, IsSwitch, Switches, Repeated, boolToYN
  <2>4. \A x \in DOMAIN AddFlags : params[AddKeysOf[x]] = f[x]
    BY <1>9, <2>1 DEF AddFlags, AddKeysOf, Request, MailingListAdd
  <2> QED
    BY <2>2, <2>3, <2>4 DEF AddParams
<1> QED
  BY <1>1, <1>2, <1>3, <1>4, <1>5, <1>6, <1>7, <1>8, <1>9 DEF Kinds

\* Where an add says what it adds, and whether it is to report a new identifier.
LEMMA AddPlaces ==
    ASSUME kind \in Kinds, NEW arg, NEW flags
    PROVE  /\ kind = "directoryprotection" =>
                 /\ Add(arg, flags).request.params.directory_path = arg[1]
                 /\ Add(arg, flags).request.params.directory_user = arg[2]
                 /\ Add(arg, flags).target = <<arg[1], arg[2]>>
           /\ kind = "mailaccount" =>
                 /\ Add(arg, flags).request.params.local_part = splitMailAddress(arg).local
                 /\ Add(arg, flags).request.params.domain_part = splitMailAddress(arg).domain
                 /\ Add(arg, flags).usage => arg \notin {"", NoAt}
           /\ kind = "mailfilter" =>
                 /\ Add(arg, flags).request.params.mail_login = arg
                 /\ Add(arg, flags).target = arg
           /\ kind \notin {"directoryprotection", "mailfilter"} => Add(arg, flags).created
<1> USE DEF Add, writeSpec, Request
<1>1. kind = "directoryprotection" =>
         /\ Add(arg, flags).request.params.directory_path = arg[1]
         /\ Add(arg, flags).request.params.directory_user = arg[2]
         /\ Add(arg, flags).target = <<arg[1], arg[2]>>
  BY DEF DirectoryProtectionsAdd, DirectoryProtectionAdd, dpIdent
<1>2. kind = "mailaccount" =>
         /\ Add(arg, flags).request.params.local_part = splitMailAddress(arg).local
         /\ Add(arg, flags).request.params.domain_part = splitMailAddress(arg).domain
  BY DEF MailAccountsAdd, MailAccountAdd, MailAccountSpec
<1>3. kind = "mailaccount" => (Add(arg, flags).usage => arg \notin {"", NoAt})
  BY DEF MailAccountsAdd, splitMailAddress
<1>4. kind = "mailfilter" =>
         /\ Add(arg, flags).request.params.mail_login = arg
         /\ Add(arg, flags).target = arg
  BY DEF MailFiltersAdd, MailFilterAdd
<1>5. kind \notin {"directoryprotection", "mailfilter"} => Add(arg, flags).created
  BY DEF Kinds, CronjobsAdd, DDNSUsersAdd, DatabasesAdd, FTPUsersAdd, SambaUsersAdd,
         MailAccountsAdd, MailForwardsAdd, MailListsAdd
<1> QED
  BY <1>1, <1>2, <1>3, <1>4, <1>5

\* The parts of a mail address make that address again.
LEMMA PartsJoin ==
    ASSUME NEW a \in {"a", "b"}
    PROVE  Joined(splitMailAddress(a).local, splitMailAddress(a).domain) = a
<1>1. /\ DOMAIN Parts = {"a", "b"}
      /\ splitMailAddress(a).local = Parts[a][1]
      /\ splitMailAddress(a).domain = Parts[a][2]
  BY DEF splitMailAddress, Parts
<1>2. Parts[a] = <<Parts[a][1], Parts[a][2]>>
      /\ \A o \in DOMAIN Parts : Parts[o] = Parts[a] => o = a
  BY DEF Parts
<1>3. (CHOOSE o \in DOMAIN Parts : Parts[o] = Parts[a]) = a
  BY <1>1, <1>2
<1> QED
  BY <1>1, <1>2, <1>3 DEF Joined

\* What the server makes of the parameters of an add is the entry asked for, and
\* under the name asked for if it does not find one itself.
AddAsAsked(params) ==
    LET sets == Sets(kind, "add", params) IN
    /\ \A c \in Settings : IF c \in DOMAIN sets THEN sets[c] = Wanted[c] ELSE Wanted[c] = ""
    /\ DOMAIN sets \subseteq Columns
    /\ \A c \in DOMAIN sets \ Settings :
          kind = "directoryprotection" /\ sets[c] \in {cmd.arg[1], cmd.arg[2]}
    /\ kind \notin Generated =>
          \A id \in Named(kind, "add", params) : Names(cmd.arg, id)
    /\ "created_id" \notin DOMAIN params

\* What an add is to set, flag by flag; a setting without a flag stays empty.
LEMMA WantedMeans ==
    ASSUME DOMAIN AddFlags \subseteq DOMAIN Setting,
           \A x, y \in DOMAIN Setting : Setting[x] = Setting[y] => x = y,
           "mail_addresses" \notin {Setting[x] : x \in DOMAIN Setting},
           DOMAIN cmd.flags \subseteq DOMAIN AddFlags
    PROVE  /\ \A x \in DOMAIN AddFlags :
                 Wanted[Setting[x]] = Meaning(x, (cmd.flags ++ AddFlags)[x])
           /\ \A c \in Settings \ {Setting[x] : x \in DOMAIN AddFlags} :
                 Wanted[c] = IF kind = "mailaccount" /\ c = "mail_addresses" THEN cmd.arg ELSE ""
<1>1. ASSUME NEW x \in DOMAIN AddFlags
      PROVE  Wanted[Setting[x]] = Meaning(x, (cmd.flags ++ AddFlags)[x])
  <2>1. (CHOOSE y \in DOMAIN AddFlags : Setting[y] = Setting[x]) = x
    OBVIOUS
  <2>2. Setting[x] \in Settings /\ Setting[x] # "mail_addresses"
    BY DEF Settings
  <2>3. Wanted[Setting[x]] =
           Meaning(x, IF x \in DOMAIN cmd.flags THEN cmd.flags[x] ELSE AddFlags[x])
    BY <2>1, <2>2 DEF Wanted
  <2>4. (cmd.flags ++ AddFlags)[x] = IF x \in DOMAIN cmd.flags THEN cmd.flags[x] ELSE AddFlags[x]
    BY DEF ++
  <2> QED
    BY <2>3, <2>4
<1>2. ASSUME NEW c \in Settings, c \notin {Setting[x] : x \in DOMAIN AddFlags}
      PROVE  Wanted[c] = IF kind = "mailaccount" /\ c = "mail_addresses" THEN cmd.arg ELSE ""
  BY <1>2 DEF Wanted
<1> QED
  BY <1>1, <1>2

\* The address of a new mail account goes in two parts ...
LEMMA AccountParts ==
    ASSUME kind \in Kinds
    PROVE  kind = "mailaccount" =>
             /\ Add(cmd.arg, cmd.flags).request.params.local_part
                   = splitMailAddress(cmd.arg).local
             /\ Add(cmd.arg, cmd.flags).request.params.domain_part
                   = splitMailAddress(cmd.arg).domain
BY AddPlaces, Zenon

\* ... and the place of a new directory protection.
LEMMA ProtectionPlace ==
    ASSUME kind = "directoryprotection"
    PROVE  /\ Add(cmd.arg, cmd.flags).request.params.directory_path = cmd.arg[1]
           /\ Add(cmd.arg, cmd.flags).request.params.directory_user = cmd.arg[2]
BY DEF Add, DirectoryProtectionsAdd, DirectoryProtectionAdd, writeSpec, Request

\* An add asks of the server what its command line says: a flag under a wrong key, one
\* left out, or one whose default is lost would break it.
LEMMA AddDoesAsAsked ==
    ASSUME kind \in Kinds \ {"mailforward"}, cmd.arg \in Arguments("add"),
           DOMAIN cmd.flags \subseteq DOMAIN AddFlags, Add(cmd.arg, cmd.flags).usage
    PROVE  AddAsAsked(Add(cmd.arg, cmd.flags).request.params)
<1> DEFINE given == cmd.flags ++ AddFlags
           params == Add(cmd.arg, cmd.flags).request.params
           id == IF kind = "directoryprotection" THEN {} ELSE {IdKey[kind]}
           known == DOMAIN params \ (UpdateOnly \cup id)
           parts == IF kind = "mailaccount" THEN {"local_part", "domain_part"} ELSE {}
           place == IF kind = "directoryprotection" THEN {"directory_path", "directory_user"}
                    ELSE {}
           keys == {AddKeysOf[x] : x \in DOMAIN AddFlags}
           columns == [c \in {ColumnOf(kind, k) : k \in known \ parts} |->
                         params[CHOOSE k \in known : ColumnOf(kind, k) = c]]
           sets == Sets(kind, "add", params)
<1>1. /\ DOMAIN params = keys \cup NotFlags
      /\ \A x \in DOMAIN AddFlags : params[AddKeysOf[x]] = Meaning(x, given[x])
  BY AddMade DEF AddParams
<1>2. /\ DOMAIN AddFlags \subseteq DOMAIN Setting
      /\ \A x \in DOMAIN AddFlags :
            /\ ColumnOf(kind, AddKeysOf[x]) = Setting[x]
            /\ AddKeysOf[x] \notin UpdateOnly \cup {"created_id"} \cup NotFlags
            /\ kind # "directoryprotection" => AddKeysOf[x] # IdKey[kind]
      /\ \A x, y \in DOMAIN Setting : Setting[x] = Setting[y] => x = y
  BY AddKeysFit
<1>10. "mail_addresses" \notin {Setting[x] : x \in DOMAIN Setting}
  BY AddKeysFit
<1>3. \A x \in DOMAIN AddFlags :
         /\ Wanted[Setting[x]] = Meaning(x, given[x])
         /\ Setting[x] \in Settings
  BY <1>2, <1>10, WantedMeans DEF Settings
<1>18. kind = "mailaccount" =>
         /\ params.local_part = splitMailAddress(cmd.arg).local
         /\ params.domain_part = splitMailAddress(cmd.arg).domain
  BY AccountParts
<1>20. kind = "directoryprotection" =>
         /\ params.directory_path = cmd.arg[1]
         /\ params.directory_user = cmd.arg[2]
  BY ProtectionPlace
<1> HIDE DEF given, params
<1>4. known \ parts = keys \cup place /\ known = keys \cup place \cup parts
  <2>1. NotFlags \ id = place \cup parts /\ NotFlags \cap UpdateOnly = {}
    BY DEF NotFlags, IdKey, UpdateOnly, Kinds
  <2>2. keys \cap (UpdateOnly \cup id \cup parts) = {}
    BY <1>2 DEF NotFlags
  <2>3. place \cap parts = {}
    OBVIOUS
  <2> QED
    BY <1>1, <2>1, <2>2, <2>3
<1>5. \A k \in place \cup parts :
         ColumnOf(kind, k) = k /\ k \notin {Setting[x] : x \in DOMAIN Setting}
  <2>1. CASE kind = "directoryprotection"
    BY <2>1 DEF ColumnOf, NewPasswordOf, Setting
  <2>2. CASE kind = "mailaccount"
    BY <2>2, AddKeysFit DEF ColumnOf, MailAccountColumnOf, NewPasswordOf, ++
  <2> QED
    BY <2>1, <2>2
<1> HIDE DEF known, keys
<1>6. DOMAIN columns = {Setting[x] : x \in DOMAIN AddFlags} \cup place
  BY <1>2, <1>4, <1>5 DEF keys
<1>7. ASSUME NEW x \in DOMAIN AddFlags PROVE columns[Setting[x]] = Wanted[Setting[x]]
  <2>1. AddKeysOf[x] \in known /\ ColumnOf(kind, AddKeysOf[x]) = Setting[x]
    BY <1>2, <1>4 DEF keys
  <2>2. \A k \in known : ColumnOf(kind, k) = Setting[x] => k = AddKeysOf[x]
    BY <1>2, <1>4, <1>5 DEF keys
  <2>3. (CHOOSE k \in known : ColumnOf(kind, k) = Setting[x]) = AddKeysOf[x]
    BY <2>1, <2>2
  <2> QED
    BY <1>1, <1>3, <1>6, <2>3
<1>8. /\ kind = "mailaccount" =>
            sets = columns ++ [mail_addresses |-> Joined(params.local_part, params.domain_part)]
      /\ kind # "mailaccount" => sets = columns
  BY DEF Sets, known
<1> HIDE DEF columns, sets
<1>9. /\ DOMAIN sets = {Setting[x] : x \in DOMAIN AddFlags} \cup place
                       \cup (IF kind = "mailaccount" THEN {"mail_addresses"} ELSE {})
      /\ \A x \in DOMAIN AddFlags : sets[Setting[x]] = Wanted[Setting[x]]
  <2>1. \A x \in DOMAIN AddFlags : Setting[x] # "mail_addresses"
    BY <1>2, <1>10
  <2>2. CASE kind = "mailaccount"
    BY <1>6, <1>7, <1>8, <2>1, <2>2 DEF ++
  <2>3. CASE kind # "mailaccount"
    BY <1>6, <1>7, <1>8, <2>3
  <2> QED
    BY <2>2, <2>3
<1>11. \A c \in Settings \ {Setting[x] : x \in DOMAIN AddFlags} :
          Wanted[c] = IF kind = "mailaccount" /\ c = "mail_addresses" THEN cmd.arg ELSE ""
  BY <1>2, <1>10, WantedMeans
<1>12. kind = "mailaccount" => sets["mail_addresses"] = cmd.arg
  <2> SUFFICES ASSUME kind = "mailaccount" PROVE sets["mail_addresses"] = cmd.arg
    OBVIOUS
  <2>1. cmd.arg \in {"a", "b"}
    BY AddPlaces DEF Arguments
  <2>2. /\ params.local_part = splitMailAddress(cmd.arg).local
        /\ params.domain_part = splitMailAddress(cmd.arg).domain
    BY <1>18
  <2>3. sets["mail_addresses"] = Joined(params.local_part, params.domain_part)
    BY <1>2, <1>6, <1>8, <1>10 DEF ++
  <2> QED
    BY <2>1, <2>2, <2>3, PartsJoin
<1>13. ASSUME NEW c \in Settings
       PROVE  IF c \in DOMAIN sets THEN sets[c] = Wanted[c] ELSE Wanted[c] = ""
  <2>1. place \cap Settings = {}
    BY <1>5 DEF Settings
  <2>2. CASE c \in {Setting[x] : x \in DOMAIN AddFlags}
    BY <1>9, <2>2
  <2>3. CASE c \notin {Setting[x] : x \in DOMAIN AddFlags}
    BY <1>9, <1>11, <1>12, <2>1, <2>3
  <2> QED
    BY <2>2, <2>3
<1>14. DOMAIN sets \subseteq Columns
  <2>1. place \subseteq Columns
    BY DEF Columns, Reader, DirectoryProtectionColumns
  <2> QED
    BY <1>3, <1>9, <2>1 DEF Columns, Settings
<1>15. kind \notin Generated => \A n \in Named(kind, "add", params) : Names(cmd.arg, n)
  <2>1. CASE kind = "directoryprotection"
    BY <2>1, AddPlaces DEF Named, Names, params
  <2>2. CASE kind = "mailfilter"
    BY <2>2, AddPlaces DEF Named, Names, IdKey, params
  <2> QED
    BY <2>1, <2>2 DEF Kinds, Generated
<1>16. "created_id" \notin DOMAIN params
  BY <1>1, <1>2 DEF keys, NotFlags
<1>19. ASSUME NEW c \in DOMAIN sets \ Settings
       PROVE  kind = "directoryprotection" /\ sets[c] \in {cmd.arg[1], cmd.arg[2]}
  <2>1. c \in place /\ kind = "directoryprotection"
    BY <1>3, <1>9 DEF Settings
  <2>2. params[c] \in {cmd.arg[1], cmd.arg[2]}
    BY <1>20, <2>1
  <2>3. c \in known /\ ColumnOf(kind, c) = c
    BY <1>4, <1>5, <2>1
  <2>4. \A k \in known : ColumnOf(kind, k) = c => k = c
    BY <1>2, <1>4, <1>5, <2>1 DEF keys
  <2>5. (CHOOSE k \in known : ColumnOf(kind, k) = c) = c
    BY <2>3, <2>4
  <2>6. sets[c] = params[c]
    BY <1>4, <1>5, <1>8, <2>1, <2>3, <2>5 DEF columns
  <2> QED
    BY <2>1, <2>2, <2>6
<1> QED
  BY <1>13, <1>14, <1>15, <1>16, <1>19 DEF AddAsAsked, sets, params

\* The same for a forward, whose targets are counted parameters.
LEMMA ForwardAddAsAsked ==
    ASSUME kind = "mailforward", cmd.arg \in Arguments("add"),
           DOMAIN cmd.flags \subseteq DOMAIN AddFlags,
           \A x \in DOMAIN cmd.flags : cmd.flags[x] \in {Value(x)} \cup Others(x),
           Add(cmd.arg, cmd.flags).usage
    PROVE  AddAsAsked(Add(cmd.arg, cmd.flags).request.params)
<1> DEFINE targets == cmd.flags.target
           local == splitMailAddress(cmd.arg).local
           domain == splitMailAddress(cmd.arg).domain
           params == addTargets(targets) ++ [local_part |-> local, domain_part |-> domain]
           f == cmd.flags ++ [target |-> <<>>]
<1>1. /\ DOMAIN AddFlags = {"target"} /\ Settings = {"mail_forward_targets"}
      /\ Setting = [target |-> "mail_forward_targets"]
      /\ AddFlags["target"] = <<>>
  BY DEF AddFlags, Settings, Setting
<1>2. /\ cmd.arg \notin {"", NoAt} /\ Len(f.target) > 0
      /\ Add(cmd.arg, cmd.flags).request.params
           = addTargets(f.target) ++ [local_part |-> local, domain_part |-> domain]
  BY DEF Add, MailForwardsAdd, MailForwardAdd, writeSpec, Request, splitMailAddress
<1>3. "target" \in DOMAIN cmd.flags
  <2> SUFFICES ASSUME "target" \notin DOMAIN cmd.flags PROVE FALSE
    OBVIOUS
  <2>1. f.target = <<>>
    BY DEF ++
  <2>2. Len(<<>>) > 0
    BY <1>2, <2>1
  <2> QED
    BY <2>2
<1>4. f.target = targets
  BY <1>3 DEF ++
<1>5. Add(cmd.arg, cmd.flags).request.params = params
  BY <1>2, <1>4
<1>6. Len(targets) > 0 /\ targets \in {Value("target")} \cup Others("target")
  BY <1>2, <1>3, <1>4
<1>7. PICK a, b : targets = <<a>> \/ targets = <<a, b>>
  <2> HIDE DEF targets
  <2> QED
    BY <1>6, TargetsGiven
<1> HIDE DEF targets, f
<1>8. Targets(params) = Join(targets, ",")
  <2> DEFINE rest == [local_part |-> local, domain_part |-> domain]
  <2>1. DOMAIN rest \cap {"target_0", "target_1", "target_2"} = {}
    OBVIOUS
  <2> HIDE DEF rest
  <2>2. /\ Targets(addTargets(<<a>>) ++ rest) = Join(<<a>>, ",")
        /\ Targets(addTargets(<<a, b>>) ++ rest) = Join(<<a, b>>, ",")
    BY <2>1, TargetsMean
  <2>3. Targets(addTargets(targets) ++ rest) = Join(targets, ",")
    BY <1>7, <2>2
  <2> QED
    BY <2>3 DEF rest
<1>9. Wanted["mail_forward_targets"] = Join(targets, ",")
  <2>1. \E x \in DOMAIN AddFlags : Setting[x] = "mail_forward_targets"
    BY <1>1
  <2>2. (CHOOSE y \in {"target"} : Setting[y] = "mail_forward_targets") = "target"
    BY <1>1
  <2>3. Wanted["mail_forward_targets"] = Meaning("target", targets)
    BY <1>1, <1>3, <2>1, <2>2 DEF Wanted, targets
  <2>4. Meaning("target", targets) = Join(targets, ",")
    BY DEF Meaning, IsSwitch, Switches
  <2> QED
    BY <2>3, <2>4
<1>10. cmd.arg \in {"a", "b"}
  BY <1>2 DEF Arguments, Generated
<1>11. /\ DOMAIN params \subseteq {"target_0", "target_1", "target_2", "local_part",
                                   "domain_part"}
       /\ params["local_part"] = local /\ params["domain_part"] = domain
  <2>1. DOMAIN addTargets(targets) \subseteq {"target_0", "target_1", "target_2"}
    <3>1. CASE targets = <<a>>
      <4>1. DOMAIN <<a>> = {1}
        OBVIOUS
      <4> QED
        BY <3>1, <4>1 DEF addTargets
    <3>2. CASE targets = <<a, b>>
      <4>1. DOMAIN <<a, b>> = {1, 2}
        OBVIOUS
      <4> QED
        BY <3>2, <4>1 DEF addTargets
    <3> QED
      BY <1>7, <3>1, <3>2
  <2> HIDE DEF local, domain
  <2> QED
    BY <2>1 DEF ++
<1>12. Joined(local, domain) = cmd.arg
  BY <1>10, PartsJoin
<1> HIDE DEF params, local, domain
<1>13. Named(kind, "add", params) = {cmd.arg}
  BY <1>11, <1>12 DEF Named
<1>14. Sets(kind, "add", params) = [mail_forward_targets |-> Join(targets, ",")]
  BY <1>8 DEF Sets
<1>15. AddAsAsked(params)
  <2> DEFINE sets == Sets(kind, "add", params)
  <2>0. sets = [mail_forward_targets |-> Join(targets, ",")]
    BY <1>14
  <2> HIDE DEF sets
  <2>1. DOMAIN sets = {"mail_forward_targets"} /\ sets["mail_forward_targets"] = Join(targets, ",")
    BY <2>0
  <2>2. \A c \in Settings : IF c \in DOMAIN sets THEN sets[c] = Wanted[c] ELSE Wanted[c] = ""
    BY <1>1, <1>9, <2>1
  <2>3. DOMAIN sets \subseteq Columns
    BY <1>1, <2>1 DEF Columns
  <2>6. \A c \in DOMAIN sets : c \in Settings
    BY <1>1, <2>1
  <2>4. \A id \in Named(kind, "add", params) : Names(cmd.arg, id)
    BY <1>13 DEF Names
  <2>5. "created_id" \notin DOMAIN params
    BY <1>11
  <2> QED
    BY <2>2, <2>3, <2>4, <2>5, <2>6 DEF AddAsAsked, sets
<1> QED
  BY <1>5, <1>15

\* The request of a delete is the identifier of the entry.
LEMMA DeleteMade ==
    ASSUME kind \in Kinds \ {"directoryprotection"}, NEW arg
    PROVE  /\ ~Delete(arg).created
           /\ Delete(arg).request.params = With(IdKey[kind], arg, Nothing)
           /\ Delete(arg).target = arg
<1> USE DEF Delete, writeSpec, Request, IdKey
<1>1. CASE kind = "cronjob"
  BY <1>1 DEF CronjobsDelete, CronjobDelete
<1>2. CASE kind = "ddnsuser"
  BY <1>2 DEF DDNSUsersDelete, DDNSDelete
<1>3. CASE kind = "database"
  BY <1>3 DEF DatabasesDelete, DatabaseDelete
<1>4. CASE kind = "ftpuser"
  BY <1>4 DEF FTPUsersDelete, FTPUserDelete
<1>5. CASE kind = "sambauser"
  BY <1>5 DEF SambaUsersDelete, SambaUserDelete
<1>6. CASE kind = "mailaccount"
  BY <1>6 DEF MailAccountsDelete, MailAccountDelete
<1>7. CASE kind = "mailfilter"
  BY <1>7 DEF MailFiltersDelete, MailFilterDelete
<1>8. CASE kind = "mailforward"
  BY <1>8 DEF MailForwardsDelete, MailForwardDelete
<1>9. CASE kind = "mailinglist"
  BY <1>9 DEF MailListsDelete, MailingListDelete
<1> QED
  BY <1>1, <1>2, <1>3, <1>4, <1>5, <1>6, <1>7, <1>8, <1>9 DEF Kinds

\* A delete names the entry of its argument.
LEMMA DeleteAsAsked ==
    ASSUME kind \in Kinds, NEW arg
    PROVE  /\ ~Delete(arg).created
           /\ "created_id" \notin DOMAIN Delete(arg).request.params
           /\ Names(arg, Delete(arg).target)
           /\ \A id \in Named(kind, "delete", Delete(arg).request.params) : Names(arg, id)
<1> DEFINE params == Delete(arg).request.params
<1>1. CASE kind = "directoryprotection"
  <2>1. /\ ~Delete(arg).created
        /\ params = [directory_path |-> arg[1], directory_user |-> arg[2]]
        /\ Delete(arg).target = <<arg[1], arg[2]>>
    BY <1>1 DEF Delete, DirectoryProtectionsDelete, DirectoryProtectionDelete, writeSpec,
                Request, dpIdent
  <2> QED
    BY <1>1, <2>1 DEF Named, Names
<1>2. CASE kind # "directoryprotection"
  <2>1. /\ ~Delete(arg).created
        /\ params = With(IdKey[kind], arg, Nothing)
        /\ Delete(arg).target = arg
    BY <1>2, DeleteMade
  <2>2. DOMAIN params = {IdKey[kind]} /\ params[IdKey[kind]] = arg
    <3>1. DOMAIN Nothing = {}
      BY DEF Nothing
    <3> QED
      BY <2>1, <3>1 DEF With, Only, ++
  <2>3. IdKey[kind] # "created_id"
    BY <1>2 DEF IdKey, Kinds
  <2> HIDE DEF params
  <2>4. Named(kind, "delete", params) = {arg}
    BY <1>2, <2>2 DEF Named
  <2> QED
    BY <1>2, <2>1, <2>2, <2>3, <2>4 DEF Names, params
<1> QED
  BY <1>1, <1>2

\* Where the server finds the name of a new entry, the command reports it.
LEMMA CreatesReport ==
    ASSUME kind \in Kinds
    PROVE  kind \notin {"directoryprotection", "mailfilter"} =>
              Add(cmd.arg, cmd.flags).created
BY AddPlaces, Zenon

\* The target that an update records is its argument ...
LEMMA UpdateTarget ==
    ASSUME kind \in Changing, NEW arg, NEW flags, DOMAIN flags \subseteq UpdateFlags,
           NEW readable
    PROVE  Names(arg, Update(arg, flags, readable).target)
<1> USE DEF Update, writeSpec, Names
<1>1. CASE kind = "cronjob"
  BY <1>1 DEF CronjobsUpdate
<1>2. CASE kind = "ddnsuser"
  BY <1>2 DEF DDNSUsersUpdate
<1>3. CASE kind = "database"
  BY <1>3 DEF DatabasesUpdate
<1>4. CASE kind = "ftpuser"
  BY <1>4 DEF FTPUsersUpdate
<1>5. CASE kind = "sambauser"
  BY <1>5 DEF SambaUsersUpdate
<1>6. CASE kind = "directoryprotection"
  BY <1>6 DEF DirectoryProtectionsUpdate, dpIdent
<1>7. CASE kind = "mailaccount"
  BY <1>7 DEF MailAccountsUpdate
<1>8. CASE kind = "mailinglist"
  BY <1>8 DEF MailListsUpdate
<1> QED
  BY <1>1, <1>2, <1>3, <1>4, <1>5, <1>6, <1>7, <1>8 DEF Kinds, Changing

\* ... and so is that of an add that reports no identifier.
LEMMA AddTarget ==
    ASSUME kind \in Kinds \ Generated
    PROVE  Names(cmd.arg, Add(cmd.arg, cmd.flags).target)
<1>1. kind = "directoryprotection" =>
         Add(cmd.arg, cmd.flags).target = <<cmd.arg[1], cmd.arg[2]>>
  BY DEF Add, DirectoryProtectionsAdd, dpIdent, writeSpec
<1>2. kind = "mailfilter" => Add(cmd.arg, cmd.flags).target = cmd.arg
  BY DEF Add, MailFiltersAdd, writeSpec
<1>3. kind = "mailforward" => Add(cmd.arg, cmd.flags).target = cmd.arg
  BY DEF Add, MailForwardsAdd, writeSpec
<1> QED
  BY <1>1, <1>2, <1>3 DEF Names, Kinds, Generated

-------------------------------------------------------------------------------
\* The writes: what is asked for, which entry is reached, and what is recorded.

\* What build makes of a command line asks of the server what the user asked for.
LEMMA MadeAsAsked ==
    ASSUME CommandInv, pc \in {"gate", "dispatch", "record"}
    PROVE  /\ spec = Made
           /\ cmd.op \in {"add", "update", "delete"} /\ cmd.op \in Operations
           /\ "created_id" \notin DOMAIN spec.request.params
           /\ cmd.op = "add" => AddAsAsked(spec.request.params)
           /\ cmd.op = "update" => UpdateAsAsked(cmd.arg, cmd.flags, spec.request.params)
           /\ cmd.op = "delete" =>
                 \A id \in Named(kind, "delete", spec.request.params) : Names(cmd.arg, id)
           /\ ~spec.created =>
                 /\ Names(cmd.arg, spec.target)
                 /\ cmd.op = "add" => kind \in {"directoryprotection", "mailfilter"}
           /\ cmd.op = "add" /\ kind \notin Generated => Names(cmd.arg, spec.target)
<1>1. /\ kind \in Kinds
      /\ cmd.op \in {"add", "update", "delete"} /\ cmd.op \in Operations
      /\ spec = Made /\ spec.usage
      /\ cmd.arg \in Arguments(cmd.op)
      /\ DOMAIN cmd.flags \subseteq FlagsOf(cmd.op)
      /\ \A x \in DOMAIN cmd.flags : cmd.flags[x] \in {Value(x)} \cup Others(x)
  BY DEF CommandInv, TypedInv, StageInv
<1>2. CASE cmd.op = "add"
  <2>1. spec = Add(cmd.arg, cmd.flags) /\ DOMAIN cmd.flags \subseteq DOMAIN AddFlags
        /\ cmd.arg \in Arguments("add") /\ Add(cmd.arg, cmd.flags).usage
    BY <1>1, <1>2 DEF Made, FlagsOf
  <2>2. AddAsAsked(spec.request.params)
    <3>1. CASE kind = "mailforward"
      BY <1>1, <2>1, <3>1, ForwardAddAsAsked
    <3>2. CASE kind # "mailforward"
      BY <1>1, <2>1, <3>2, AddDoesAsAsked
    <3> QED
      BY <3>1, <3>2
  <2>3. "created_id" \notin DOMAIN spec.request.params
    BY <2>2 DEF AddAsAsked
  <2>4. kind \notin {"directoryprotection", "mailfilter"} => spec.created
    BY <1>1, <2>1, CreatesReport
  <2>5. kind \notin Generated => Names(cmd.arg, spec.target)
    BY <1>1, <2>1, AddTarget
  <2> QED
    BY <1>1, <1>2, <2>2, <2>3, <2>4, <2>5 DEF Generated
<1>3. CASE cmd.op = "update"
  <2>1. spec = Update(cmd.arg, cmd.flags, cmd.readable) /\ DOMAIN cmd.flags \subseteq UpdateFlags
        /\ Update(cmd.arg, cmd.flags, cmd.readable).usage
    BY <1>1, <1>3 DEF Made, FlagsOf
  <2>2. UpdateAsAsked(cmd.arg, cmd.flags, spec.request.params) /\ Names(cmd.arg, spec.target)
    <3>1. CASE kind = "mailforward"
      BY <1>1, <2>1, <3>1, ForwardAsAsked DEF Names
    <3>2. CASE kind # "mailforward"
      <4>1. kind \in Changing
        BY <1>1, <1>3, <3>2 DEF Changing, Operations
      <4>2. UpdateAsAsked(cmd.arg, cmd.flags, spec.request.params)
        BY <2>1, <4>1, ChangingAsAsked
      <4>3. Names(cmd.arg, Update(cmd.arg, cmd.flags, cmd.readable).target)
        BY <2>1, <4>1, UpdateTarget
      <4> QED
        BY <2>1, <4>2, <4>3
    <3> QED
      BY <3>1, <3>2
  <2>3. "created_id" \notin DOMAIN spec.request.params
    BY <2>2 DEF UpdateAsAsked
  <2> QED
    BY <1>1, <1>3, <2>2, <2>3
<1>4. CASE cmd.op = "delete"
  <2>1. spec = Delete(cmd.arg)
    BY <1>1, <1>4 DEF Made
  <2> QED
    BY <1>1, <1>4, <2>1, DeleteAsAsked
<1> QED
  BY <1>1, <1>2, <1>3, <1>4

\* Of an entry that the server does not name itself, the command reaches the one
\* its argument names.
LEMMA ReachesNamed ==
    ASSUME CommandInv, pc = "dispatch", NEW id \in Reached(spec.request.params)
    PROVE  /\ id \in Ids(kind)
           /\ cmd.op # "add" \/ kind \notin Generated => Names(cmd.arg, id)
           /\ cmd.op = "add" /\ kind # "mailfilter" => table[id] = NoRow
           /\ cmd.op = "update" => table[id] # NoRow
<1>1. /\ cmd.op \in {"add", "update", "delete"} /\ cmd.op \in Operations
      /\ cmd.op = "add" => AddAsAsked(spec.request.params)
      /\ cmd.op = "update" => UpdateAsAsked(cmd.arg, cmd.flags, spec.request.params)
      /\ cmd.op = "delete" =>
            \A i \in Named(kind, "delete", spec.request.params) : Names(cmd.arg, i)
  BY MadeAsAsked
<1>2. /\ id \in Ids(kind)
      /\ cmd.op = "add" /\ kind # "mailfilter" => table[id] = NoRow
      /\ cmd.op # "add" /\ kind # "mailfilter" => table[id] # NoRow
      /\ cmd.op # "add" \/ kind \notin Generated =>
            id \in Named(kind, cmd.op, spec.request.params)
  BY DEF Reached, Generated
<1>3. cmd.op = "update" => kind # "mailfilter"
  BY <1>1 DEF Operations
<1>4. cmd.op = "add" /\ kind \notin Generated => Names(cmd.arg, id)
  BY <1>1, <1>2 DEF AddAsAsked
<1>5. cmd.op = "update" => Names(cmd.arg, id)
  BY <1>1, <1>2 DEF UpdateAsAsked
<1>6. cmd.op = "delete" => Names(cmd.arg, id)
  BY <1>1, <1>2
<1> QED
  BY <1>1, <1>2, <1>3, <1>4, <1>5, <1>6

\* An argument names one entry.
LEMMA OneName ==
    ASSUME kind \in Kinds,
           NEW arg \in Arguments("add") \cup Arguments("update") \cup Arguments("delete"),
           NEW id \in Ids(kind), Names(arg, id)
    PROVE  id = arg
<1>1. CASE kind = "directoryprotection"
  <2>1. arg \in {<<"a", "user">>, <<"a", "other">>, <<"", "user">>, <<"a", "">>}
    BY <1>1 DEF Arguments, Ids
  <2>2. arg = <<arg[1], arg[2]>>
    <3>1. CASE arg = <<"a", "user">>
      BY <3>1
    <3>2. CASE arg = <<"a", "other">>
      BY <3>2
    <3>3. CASE arg = <<"", "user">>
      BY <3>3
    <3>4. CASE arg = <<"a", "">>
      BY <3>4
    <3> QED
      BY <2>1, <3>1, <3>2, <3>3, <3>4
  <2> QED
    BY <1>1, <2>2 DEF Names
<1>2. CASE kind # "directoryprotection"
  BY <1>2 DEF Names
<1> QED
  BY <1>1, <1>2

\* An answer is what it is made of.
LEMMA ReplyParts ==
    ASSUME NEW fate, NEW id, NEW told
    PROVE  /\ Reply(fate, id, told).fate = fate
           /\ Reply(fate, id, told).id = id
           /\ Reply(fate, id, told).told = told
BY DEF Reply

\* A dispatch that was carried out changed the table at the entry of its answer; another
\* changed nothing.
LEMMA CarriedOut ==
    ASSUME Dispatch
    PROVE  /\ reply'.fate # "done" => UNCHANGED table
           /\ reply'.fate = "done" =>
                 \E id \in Reached(spec.request.params),
                    told \in IF cmd.op = "add" THEN BOOLEAN ELSE {TRUE} :
                    /\ table' = Applied(id, Sets(kind, cmd.op, spec.request.params))
                    /\ reply' = Reply("done", id, told)
           /\ reply'.fate \in {"invalid", "fault", "done"}
<1> DEFINE Done == \E id \in Reached(spec.request.params),
                      told \in IF cmd.op = "add" THEN BOOLEAN ELSE {TRUE} :
                      /\ table' = Applied(id, Sets(kind, cmd.op, spec.request.params))
                      /\ reply' = Reply("done", id, told)
<1>1. \/ reply' = Reply("invalid", "", FALSE) /\ UNCHANGED table
      \/ reply' = Reply("fault", "", FALSE) /\ UNCHANGED table
      \/ Done
  BY DEF Dispatch
<1>2. Done => reply'.fate = "done"
  BY ReplyParts
<1> HIDE DEF Done
<1>3. Reply("invalid", "", FALSE).fate = "invalid"
  BY DEF Reply
<1>4. Reply("fault", "", FALSE).fate = "fault"
  BY DEF Reply
<1>5. /\ reply'.fate # "done" => UNCHANGED table
      /\ reply'.fate = "done" => Done
      /\ reply'.fate \in {"invalid", "fault", "done"}
  BY <1>1, <1>2, <1>3, <1>4
<1> QED
  BY <1>5 DEF Done

\* The server named the entry and did not say how.
Untold == cmd.op = "add" /\ kind \in Generated /\ ~reply.told

\* Until a command ends there is no record; one that was carried out and is to report no
\* new identifier was about its target, or about an entry that the answer does not name.
RecordInv ==
    /\ pc # "exited" => record = NoRecord
    /\ pc \in {"idle", "build", "gate", "dispatch", "read"} => reply = NoReply
    /\ pc = "record" /\ reply.fate = "done" /\ ~(spec.created /\ reply.told) =>
          reply.id = spec.target \/ Untold

\* RecordNamesEntry, of the audit record that runWriteE writes last: a record of a success
\* names the entry that the server changed, by the identifier it made if it made one.
THEOREM RecordNamesEntryCorrect == Spec => []RecordNamesEntry
<1>1. Init => RecordInv /\ RecordNamesEntry
  BY DEF Init, RecordInv, RecordNamesEntry, NoRecord
<1>2. CommandInv /\ RecordInv /\ RecordNamesEntry /\ [Next]_vars
         => RecordInv' /\ RecordNamesEntry'
  <2> SUFFICES ASSUME CommandInv, RecordInv, RecordNamesEntry, [Next]_vars
               PROVE  RecordInv' /\ RecordNamesEntry'
    OBVIOUS
  <2>1. CASE Type
    BY <2>1 DEF Type, RecordInv, RecordNamesEntry
  <2>2. CASE Build
    <3>1. UNCHANGED <<record, reply>> /\ pc = "build" /\ pc' \in {"gate", "exited"}
      BY <2>2 DEF Build, Exit
    <3>2. record.outcome # "success"
      <4>1. record = NoRecord
        BY <3>1 DEF RecordInv
      <4> QED
        BY <4>1 DEF NoRecord
    <3>3. RecordInv'
      BY <3>1 DEF RecordInv
    <3> QED
      BY <3>1, <3>2, <3>3 DEF RecordNamesEntry
  <2>3. CASE Gate
    <3>1. UNCHANGED <<spec, reply>> /\ pc = "gate"
      BY <2>3 DEF Gate
    <3>2. \/ pc' = "exited" /\ record'.outcome # "success"
          \/ pc' = "dispatch" /\ UNCHANGED record
      BY <2>3 DEF Gate, Exit, Record
    <3> QED
      BY <3>1, <3>2 DEF RecordInv, RecordNamesEntry
  <2>4. CASE Dispatch
    <3>1. UNCHANGED <<spec, record>> /\ pc = "dispatch" /\ pc' = "record"
      BY <2>4 DEF Dispatch
    <3>2. ASSUME reply'.fate = "done", ~(spec.created /\ reply'.told)
          PROVE  reply'.id = spec.target \/ Untold'
      <4>1. PICK id \in Reached(spec.request.params),
                 told \in IF cmd.op = "add" THEN BOOLEAN ELSE {TRUE} :
                   reply' = Reply("done", id, told)
        BY <2>4, <3>2, CarriedOut
      <4>2. reply'.id = id /\ reply'.told = told
        BY <4>1, ReplyParts
      <4>3. CASE cmd.op = "add" /\ kind \in Generated
        <5>1. spec.created
          BY <3>1, <4>3, MadeAsAsked DEF Generated
        <5> QED
          BY <2>4, <3>2, <4>3, <5>1 DEF Untold, Dispatch
      <4>4. CASE ~(cmd.op = "add" /\ kind \in Generated)
        <5>1. Names(cmd.arg, id)
          BY <3>1, <4>4, ReachesNamed
        <5>2. Names(cmd.arg, spec.target)
          <6>1. cmd.op # "add" => ~spec.created
            BY <3>2, <4>1, <4>2
          <6> QED
            BY <3>1, <4>4, <6>1, MadeAsAsked
        <5>3. id = spec.target
          BY <5>1, <5>2 DEF Names
        <5> QED
          BY <4>2, <5>3
      <4> QED
        BY <4>3, <4>4
    <3> QED
      BY <3>1, <3>2 DEF RecordInv, RecordNamesEntry
  <2>5. CASE Finish
    <3> DEFINE fields == RedactParams(spec.request.params)
    <3>1. /\ UNCHANGED <<kind, cmd, spec, reply>> /\ pc = "record" /\ pc' = "exited"
          /\ Untold' = Untold
      BY <2>5 DEF Finish, Exit, Untold
    <3>2. "created_id" \notin DOMAIN fields
      BY <3>1, MadeAsAsked DEF RedactParams
    <3> HIDE DEF fields
    <3>3. CASE reply.fate = "done" /\ spec.created /\ reply.told
      <4>1. record'.fields = [created_id |-> reply.id] ++ fields
        BY <2>5, <3>3 DEF Finish, Record, fields
      <4>2. "created_id" \in DOMAIN record'.fields /\ record'.fields.created_id = reply.id
        BY <4>1 DEF ++
      <4> QED
        BY <3>1, <4>2 DEF RecordInv, RecordNamesEntry
    <3>4. CASE reply.fate = "done" /\ ~(spec.created /\ reply.told)
      <4>1. record'.fields = Nothing ++ fields /\ record'.target = spec.target
        BY <2>5, <3>4 DEF Finish, Record, fields
      <4>2. DOMAIN Nothing = {}
        BY DEF Nothing
      <4>3. "created_id" \notin DOMAIN record'.fields
        BY <3>2, <4>1, <4>2 DEF ++
      <4> QED
        BY <3>1, <3>4, <4>1, <4>3 DEF RecordInv, RecordNamesEntry, Untold
    <3>5. CASE reply.fate # "done"
      BY <2>5, <3>1, <3>5 DEF Finish, Record, RecordInv, RecordNamesEntry
    <3> QED
      BY <3>3, <3>4, <3>5
  <2>6. CASE Read
    <3>1. UNCHANGED <<record, reply>> /\ pc = "read" /\ pc' = "exited"
      BY <2>6 DEF Read, Exit
    <3>2. record.outcome # "success"
      <4>1. record = NoRecord
        BY <3>1 DEF RecordInv
      <4> QED
        BY <4>1 DEF NoRecord
    <3>3. RecordInv'
      BY <3>1 DEF RecordInv
    <3> QED
      BY <3>1, <3>2, <3>3 DEF RecordNamesEntry
  <2>7. CASE Return
    BY <2>7 DEF Return, RecordInv, RecordNamesEntry, NoRecord
  <2>8. CASE UNCHANGED vars
    BY <2>8 DEF vars, RecordInv, RecordNamesEntry, Untold
  <2> QED
    BY <2>1, <2>2, <2>3, <2>4, <2>5, <2>6, <2>7, <2>8 DEF Next
<1> QED
  BY <1>1, <1>2, CommandInvariance, PTL DEF Spec

\* The columns, settings and operations depend on the kind of resource alone.
LEMMA ColumnsKept ==
    ASSUME UNCHANGED kind
    PROVE  Columns' = Columns /\ Settings' = Settings /\ Operations' = Operations
           /\ Setting' = Setting /\ AddFlags' = AddFlags
<1>1. Setting' = Setting /\ Reader' = Reader /\ Operations' = Operations /\ AddFlags' = AddFlags
  BY DEF Setting, Reader, Operations, AddFlags
<1>2. Settings' = Settings
  BY <1>1 DEF Settings
<1> QED
  BY <1>1, <1>2 DEF Columns

\* TypeOK, the state of the commands and of the server, which takes that no parameter the
\* clients send becomes a column that the kind of resource does not have.
THEOREM TypeCorrect == Spec => []TypeOK
<1>1. Init => TypeOK
  <2> SUFFICES ASSUME Init PROVE TypeOK
    OBVIOUS
  <2>1. \A id \in Ids(kind) : table[id] = NoRow \/ DOMAIN table[id] \subseteq Columns
    <3>1. DOMAIN OldRow = Columns
      BY DEF OldRow
    <3> QED
      BY <3>1 DEF Init
  <2>2. DOMAIN table = Ids(kind)
    BY DEF Init
  <2>3. cmd.op = "none" /\ reply.fate = "none" /\ record.outcome = "none"
    BY DEF Init, NoCommand, NoReply, NoRecord, Reply
  <2>4. kind \in Kinds /\ pc = "idle" /\ exit = "none" /\ runs \in 0..MaxRuns
    BY MaxRunsAssumption DEF Init
  <2> QED
    BY <2>1, <2>2, <2>3, <2>4 DEF TypeOK
<1>2. CommandInv /\ TypeOK /\ [Next]_vars => TypeOK'
  <2> SUFFICES ASSUME CommandInv, TypeOK, [Next]_vars PROVE TypeOK'
    OBVIOUS
  <2>0. UNCHANGED kind
    BY DEF Next, vars, Type, Build, Gate, Dispatch, Finish, Read, Return
  <2>1. CASE UNCHANGED table
    <3>1. \A id \in Ids(kind) : table'[id] = NoRow \/ DOMAIN table'[id] \subseteq Columns'
      BY <2>0, <2>1, ColumnsKept DEF TypeOK
    <3>2. CASE Type
      <4>1. cmd'.op \in Operations
        BY <3>2 DEF Type
      <4>2. pc' \in {"build", "read"} /\ runs' \in 0..MaxRuns
            /\ UNCHANGED <<reply, record, exit, table>>
        BY <3>2, MaxRunsAssumption DEF Type, TypeOK
      <4> QED
        BY <2>0, <3>1, <4>1, <4>2, ColumnsKept DEF TypeOK, Ids
    <3>3. CASE Return
      BY <2>0, <3>1, <3>3, ColumnsKept
         DEF TypeOK, Ids, Return, NoCommand, NoReply, NoRecord, Reply
    <3>4. CASE Build \/ Gate \/ Dispatch \/ Finish \/ Read \/ UNCHANGED vars
      <4>1. UNCHANGED <<cmd, runs>>
        BY <3>4 DEF Build, Gate, Dispatch, Finish, Read, vars
      <4>2. /\ pc' \in {"idle", "build", "gate", "dispatch", "record", "read", "exited"}
            /\ exit' \in {"none", "ok", "user", "api"}
        BY <3>4 DEF Build, Gate, Dispatch, Finish, Read, vars, Exit, TypeOK
      <4>3. reply'.fate \in {"none", "invalid", "fault", "done"}
        <5>1. CASE Dispatch
          BY <5>1, CarriedOut
        <5>2. CASE UNCHANGED reply
          BY <5>2 DEF TypeOK
        <5>3. Dispatch \/ UNCHANGED reply
          BY <3>4 DEF Build, Gate, Finish, Read, vars
        <5> QED
          BY <5>1, <5>2, <5>3
      <4>4. record'.outcome \in {"none", "success", "failure", "dry-run", "refused"}
        <5>1. CASE Gate
          BY <5>1 DEF Gate, Record, TypeOK
        <5>2. CASE Finish
          BY <5>2 DEF Finish, Record
        <5>3. CASE UNCHANGED record
          BY <5>3 DEF TypeOK
        <5> QED
          BY <3>4, <5>1, <5>2, <5>3 DEF Build, Dispatch, Read, vars
      <4> QED
        BY <2>0, <2>1, <3>1, <4>1, <4>2, <4>3, <4>4, ColumnsKept DEF TypeOK, Ids
    <3> QED
      BY <3>2, <3>3, <3>4 DEF Next
  <2>2. CASE ~UNCHANGED table
    <3>1. Dispatch
      BY <2>2 DEF Next, vars, Type, Build, Gate, Finish, Read, Return
    <3> DEFINE sets == Sets(kind, cmd.op, spec.request.params)
    <3>2. PICK id \in Reached(spec.request.params) :
               /\ table' = Applied(id, sets)
               /\ \E told : reply' = Reply("done", id, told)
      BY <2>2, <3>1, CarriedOut
    <3>3. cmd.op # "delete" => DOMAIN sets \subseteq Columns
      BY <3>1, MadeAsAsked DEF Dispatch, AddAsAsked, UpdateAsAsked
    <3>4. cmd.op \in {"add", "update", "delete"} /\ id \in Ids(kind)
          /\ (cmd.op = "update" => table[id] # NoRow)
      BY <3>1, MadeAsAsked, ReachesNamed DEF Dispatch
    <3> HIDE DEF sets
    <3>5. \A j \in Ids(kind) : table'[j] = NoRow \/ DOMAIN table'[j] \subseteq Columns
      <4>1. CASE cmd.op = "add"
        BY <3>2, <3>3, <4>1 DEF Applied, TypeOK
      <4>2. CASE cmd.op = "delete"
        BY <3>2, <4>2 DEF Applied, TypeOK
      <4>3. CASE cmd.op = "update"
        <5>1. table' = [table EXCEPT ![id] = sets ++ table[id]]
          BY <3>2, <4>3 DEF Applied
        <5>2. DOMAIN (sets ++ table[id]) \subseteq Columns
          BY <3>3, <3>4, <4>3 DEF ++, TypeOK
        <5> QED
          BY <5>1, <5>2 DEF TypeOK
      <4> QED
        BY <3>4, <4>1, <4>2, <4>3
    <3>6. DOMAIN table' = DOMAIN table
      BY <3>2 DEF Applied
    <3>7. pc' = "record" /\ reply'.fate = "done" /\ UNCHANGED <<cmd, record, exit, runs>>
      <4>1. reply'.fate = "done"
        BY <3>2, ReplyParts
      <4> QED
        BY <3>1, <4>1 DEF Dispatch
    <3> QED
      BY <2>0, <3>5, <3>6, <3>7, ColumnsKept DEF TypeOK, Ids
  <2> QED
    BY <2>1, <2>2
<1> QED
  BY <1>1, <1>2, CommandInvariance, PTL DEF Spec

-------------------------------------------------------------------------------
\* The resource table.

\* The server keeps what the parameters set as an entry.
LEMMA SetsIsEntry ==
    ASSUME NoRowIsNoEntry, NEW op, NEW params
    PROVE  Sets(kind, op, params) # NoRow
<1> DEFINE s == Sets(kind, op, params)
<1>2. s = [c \in DOMAIN s |-> s[c]]
  <2>1. CASE kind = "mailforward"
    <3>1. s = [c \in {"mail_forward_targets"} |-> Targets(params)]
      BY <2>1 DEF Sets
    <3> HIDE DEF s
    <3> QED
      BY <3>1
  <2>2. CASE kind = "mailaccount" /\ op = "add"
    BY <2>2 DEF Sets, ++
  <2>3. CASE kind # "mailforward" /\ ~(kind = "mailaccount" /\ op = "add")
    BY <2>3 DEF Sets
  <2> QED
    BY <2>1, <2>2, <2>3
<1> HIDE DEF s
<1>3. s # NoRow
  BY <1>2 DEF NoRowIsNoEntry
<1> QED
  BY <1>3 DEF s

\* An entry after an update is an entry.
LEMMA MergedIsEntry ==
    ASSUME NoRowIsNoEntry, NEW f, NEW g
    PROVE  f ++ g # NoRow
<1>1. f ++ g = [c \in DOMAIN (f ++ g) |-> (f ++ g)[c]]
  BY DEF ++
<1> QED
  BY <1>1 DEF NoRowIsNoEntry

\* What a write that is carried out makes of the stored settings.
LEMMA AppliedIsStored ==
    ASSUME NoRowIsNoEntry, CommandInv, Dispatch,
           NEW id \in Reached(spec.request.params),
           table' = Applied(id, Sets(kind, cmd.op, spec.request.params))
    PROVE  /\ \A i \in Ids(kind) \ {id} : Stored(i)' = Stored(i)
           /\ cmd.op = "add" => Stored(id)' = Wanted
           /\ cmd.op = "update" =>
                 Stored(id)' = [c \in DOMAIN Stored(id) |->
                                  IF c \in DOMAIN Said(cmd.flags) THEN Said(cmd.flags)[c]
                                  ELSE Stored(id)[c]]
           /\ cmd.op = "delete" => Stored(id)' = NoRow
<1> DEFINE sets == Sets(kind, cmd.op, spec.request.params)
<1>1. /\ UNCHANGED <<kind, cmd>> /\ pc = "dispatch" /\ id \in Ids(kind)
      /\ DOMAIN table = Ids(kind) /\ Settings' = Settings
  BY ReachesNamed, ColumnsKept DEF Dispatch, CommandInv
<1>2. /\ cmd.op = "add" => AddAsAsked(spec.request.params)
      /\ cmd.op = "update" => UpdateAsAsked(cmd.arg, cmd.flags, spec.request.params)
      /\ cmd.op \in {"add", "update", "delete"}
      /\ cmd.op = "update" => table[id] # NoRow
  BY <1>1, MadeAsAsked, ReachesNamed
<1>3. sets # NoRow
  BY SetsIsEntry
<1>4. table' = Applied(id, sets)
  OBVIOUS
<1>5. ASSUME cmd.op = "add"
      PROVE  \A c \in Settings : IF c \in DOMAIN sets THEN sets[c] = Wanted[c] ELSE Wanted[c] = ""
  BY <1>2, <1>5 DEF AddAsAsked
<1>6. ASSUME cmd.op = "update"
      PROVE  /\ \A c \in Settings : c \in DOMAIN sets <=> c \in DOMAIN Said(cmd.flags)
             /\ \A c \in Settings \cap DOMAIN sets : sets[c] = Said(cmd.flags)[c]
  BY <1>2, <1>6 DEF UpdateAsAsked
<1> HIDE DEF sets
<1>7. \A i \in Ids(kind) \ {id} : Stored(i)' = Stored(i)
  <2>1. \A i \in Ids(kind) \ {id} : table'[i] = table[i]
    BY <1>1, <1>4 DEF Applied
  <2> QED
    BY <1>1, <2>1 DEF Stored
<1>8. ASSUME cmd.op = "add" PROVE Stored(id)' = Wanted
  <2>1. table'[id] = sets
    BY <1>1, <1>4, <1>8 DEF Applied
  <2>2. Stored(id)' = [c \in Settings |-> IF c \in DOMAIN sets THEN sets[c] ELSE ""]
    BY <1>1, <1>3, <2>1 DEF Stored
  <2>3. Wanted = [c \in Settings |-> Wanted[c]]
    BY DEF Wanted
  <2>4. \A c \in Settings : (IF c \in DOMAIN sets THEN sets[c] ELSE "") = Wanted[c]
    BY <1>5, <1>8
  <2> HIDE DEF Wanted
  <2> QED
    BY <2>2, <2>3, <2>4
<1>9. ASSUME cmd.op = "update"
      PROVE  Stored(id)' = [c \in DOMAIN Stored(id) |->
                              IF c \in DOMAIN Said(cmd.flags) THEN Said(cmd.flags)[c]
                              ELSE Stored(id)[c]]
  <2> DEFINE row == sets ++ table[id]
  <2>1. table'[id] = row
    BY <1>1, <1>4, <1>9 DEF Applied
  <2>2. row # NoRow
    BY MergedIsEntry
  <2>3. Stored(id)' = [c \in Settings |-> IF c \in DOMAIN row THEN row[c] ELSE ""]
    <3> HIDE DEF row
    <3> QED
      BY <1>1, <2>1, <2>2 DEF Stored
  <2>4. Stored(id) = [c \in Settings |-> IF c \in DOMAIN table[id] THEN table[id][c] ELSE ""]
    BY <1>2, <1>9 DEF Stored
  <2>5. ASSUME NEW c \in Settings
        PROVE  (IF c \in DOMAIN row THEN row[c] ELSE "")
                 = IF c \in DOMAIN Said(cmd.flags) THEN Said(cmd.flags)[c] ELSE Stored(id)[c]
    <3>1. CASE c \in DOMAIN sets
      <4>1. c \in DOMAIN row /\ row[c] = sets[c]
        BY <3>1 DEF ++
      <4>2. c \in DOMAIN Said(cmd.flags) /\ sets[c] = Said(cmd.flags)[c]
        BY <1>6, <1>9, <3>1
      <4> QED
        BY <4>1, <4>2
    <3>2. CASE c \notin DOMAIN sets
      <4>1. c \notin DOMAIN Said(cmd.flags)
        BY <1>6, <1>9, <3>2
      <4>2. CASE c \in DOMAIN table[id]
        <5>1. c \in DOMAIN row /\ row[c] = table[id][c]
          BY <3>2, <4>2 DEF ++
        <5>2. Stored(id)[c] = table[id][c]
          BY <2>4, <4>2
        <5> QED
          BY <4>1, <5>1, <5>2
      <4>3. CASE c \notin DOMAIN table[id]
        <5>1. c \notin DOMAIN row
          BY <3>2, <4>3 DEF ++
        <5>2. Stored(id)[c] = ""
          BY <2>4, <4>3
        <5> QED
          BY <4>1, <5>1, <5>2
      <4> QED
        BY <4>2, <4>3
    <3> QED
      BY <3>1, <3>2
  <2>6. DOMAIN Stored(id) = Settings
    BY <2>4
  <2> HIDE DEF row
  <2> QED
    BY <2>3, <2>5, <2>6
<1>10. ASSUME cmd.op = "delete" PROVE Stored(id)' = NoRow
  <2>1. table'[id] = NoRow
    BY <1>1, <1>4, <1>10 DEF Applied
  <2> QED
    BY <2>1 DEF Stored
<1> QED
  BY <1>7, <1>8, <1>9, <1>10

\* What a command asks for stays with its command line.
LEMMA AskedKept ==
    ASSUME UNCHANGED <<kind, cmd>>
    PROVE  Asked' = Asked
<1>1. Setting' = Setting /\ Settings' = Settings /\ AddFlags' = AddFlags
  BY ColumnsKept
<1>2. \A x, v : Meaning(x, v)' = Meaning(x, v)
  BY DEF Meaning, IsSwitch
<1>3. Wanted' = Wanted
  BY <1>1, <1>2 DEF Wanted
<1>4. Said(cmd.flags)' = Said(cmd.flags)
  BY <1>1, <1>2 DEF Said
<1>5. Ids(kind)' = Ids(kind)
  BY DEF Ids
<1> QED
  BY <1>3, <1>4, <1>5 DEF Asked

\* The resource table that the commands implement.
Rows == [id \in Ids(kind) |-> Stored(id)]

\* A write that the server carries out is the step of ResourceTable that was asked for.
LEMMA DispatchCarriesOut ==
    ASSUME NoRowIsNoEntry, CommandInv, Dispatch, reply'.fate = "done"
    PROVE  Requests!CarryOut
<1>1. PICK id \in Reached(spec.request.params) :
           table' = Applied(id, Sets(kind, cmd.op, spec.request.params))
  BY CarriedOut
<1>2. /\ UNCHANGED <<kind, cmd>> /\ pc = "dispatch" /\ pc' = "record" /\ kind \in Kinds
      /\ cmd.arg \in Arguments(cmd.op)
  BY DEF Dispatch, CommandInv, TypedInv
<1>3. /\ \A i \in Ids(kind) \ {id} : Stored(i)' = Stored(i)
      /\ cmd.op = "add" => Stored(id)' = Wanted
      /\ cmd.op = "update" =>
            Stored(id)' = [c \in DOMAIN Stored(id) |->
                             IF c \in DOMAIN Said(cmd.flags) THEN Said(cmd.flags)[c]
                             ELSE Stored(id)[c]]
      /\ cmd.op = "delete" => Stored(id)' = NoRow
  BY <1>1, AppliedIsStored
<1>4. /\ id \in Ids(kind)
      /\ cmd.op # "add" \/ kind \notin Generated => Names(cmd.arg, id)
      /\ cmd.op = "add" /\ kind # "mailfilter" => table[id] = NoRow
      /\ cmd.op = "update" => table[id] # NoRow
      /\ cmd.op \in {"add", "update", "delete"}
  BY <1>1, <1>2, ReachesNamed, MadeAsAsked
<1>5. cmd.op # "add" \/ kind \notin Generated => id = cmd.arg
  BY <1>2, <1>4, OneName
<1>6. Ids(kind)' = Ids(kind) /\ Rows' = [i \in Ids(kind) |-> Stored(i)']
  BY <1>2 DEF Rows, Ids
<1>7. Rows' = [Rows EXCEPT ![id] = Stored(id)']
  BY <1>3, <1>4, <1>6 DEF Rows
<1>8. Asked' = Asked
  BY <1>2, AskedKept
<1>9. /\ DOMAIN Rows = Ids(kind) /\ Rows[id] = Stored(id)
  BY <1>4 DEF Rows
<1>10. CASE cmd.op = "add"
  <2>1. /\ Asked.op = IF kind = "mailfilter" THEN "replace" ELSE "add"
        /\ Asked.ids = IF kind \in Generated THEN Ids(kind) ELSE {cmd.arg}
        /\ Asked.settings = Wanted
    BY <1>10 DEF Asked
  <2>2. id \in DOMAIN Rows \cap Asked.ids /\ Rows' = [Rows EXCEPT ![id] = Asked.settings]
    BY <1>3, <1>4, <1>5, <1>7, <1>9, <1>10, <2>1
  <2>3. kind # "mailfilter" => Rows[id] = NoRow
    BY <1>4, <1>9, <1>10 DEF Stored
  <2> QED
    BY <1>2, <1>8, <2>1, <2>2, <2>3
       DEF Requests!CarryOut, Requests!Create, Requests!Replace, Rows
<1>11. CASE cmd.op = "update"
  <2>1. Asked.op = "update" /\ Asked.ids = {cmd.arg} /\ Asked.settings = Said(cmd.flags)
    BY <1>11 DEF Asked
  <2>2. id \in DOMAIN Rows \cap Asked.ids
        /\ Rows' = [Rows EXCEPT ![id] = [c \in DOMAIN Rows[id] |->
                       IF c \in DOMAIN Asked.settings THEN Asked.settings[c] ELSE Rows[id][c]]]
    BY <1>3, <1>4, <1>5, <1>7, <1>9, <1>11, <2>1
  <2>3. Rows[id] # NoRow
    BY <1>4, <1>9, <1>11, StoredIsEntry
  <2> QED
    BY <1>2, <1>8, <2>1, <2>2, <2>3 DEF Requests!CarryOut, Requests!Change, Rows
<1>12. CASE cmd.op = "delete"
  <2>1. Asked.op = "delete" /\ Asked.ids = {cmd.arg}
    BY <1>12 DEF Asked
  <2>2. id \in DOMAIN Rows \cap Asked.ids /\ Rows' = [Rows EXCEPT ![id] = NoRow]
    BY <1>3, <1>4, <1>5, <1>7, <1>9, <1>12, <2>1
  <2> QED
    BY <1>2, <1>8, <2>1, <2>2 DEF Requests!CarryOut, Requests!Remove, Rows
<1> QED
  BY <1>4, <1>10, <1>11, <1>12

\* AsksImplemented, of the whole path from the flags over build and the domain clients to
\* the server: every sequence of commands is one of ResourceTable, where each write does to
\* one entry what its command line says, or nothing.
THEOREM AsksImplementedCorrect == NoRowIsNoEntry /\ Spec => AsksImplemented
<1> SUFFICES ASSUME NoRowIsNoEntry PROVE Spec => AsksImplemented
  OBVIOUS
<1>1. Init => Requests!Init
  BY DEF Init, Requests!Init
<1>2. CommandInv /\ [Next]_vars => [Requests!Next]_(Requests!vars)
  <2> SUFFICES ASSUME CommandInv, [Next]_vars PROVE Requests!Next \/ UNCHANGED Requests!vars
    BY DEF Requests!Next, Requests!vars
  <2> USE DEF Requests!Next, Requests!vars
  <2>1. UNCHANGED kind
    BY DEF Next, vars, Type, Build, Gate, Dispatch, Finish, Read, Return
  <2>2. UNCHANGED table => [id \in Ids(kind) |-> Stored(id)]' = [id \in Ids(kind) |-> Stored(id)]
    BY <2>1, ColumnsKept DEF Stored, Ids
  <2>3. UNCHANGED cmd => Asked' = Asked
    BY <2>1, AskedKept
  <2>4. CASE Type \/ Finish \/ Read \/ Return
    <3>1. pc \notin {"build", "gate", "dispatch"} /\ UNCHANGED table
      BY <2>4 DEF Type, Finish, Read, Return
    <3> QED
      BY <2>2, <3>1 DEF Requests!Ask
  <2>5. CASE Build \/ Gate \/ (Dispatch /\ reply'.fate # "done")
    <3>1. /\ pc \in {"build", "gate", "dispatch"} /\ UNCHANGED <<cmd, table>>
          /\ pc' \in {"gate", "exited", "dispatch", "record"}
      <4>1. CASE Dispatch /\ reply'.fate # "done"
        <5>1. UNCHANGED table
          BY <4>1, CarriedOut
        <5> QED
          BY <4>1, <5>1 DEF Dispatch
      <4>2. CASE Build \/ Gate
        BY <4>2 DEF Build, Gate, Exit
      <4> QED
        BY <2>5, <4>1, <4>2
    <3> QED
      BY <2>2, <2>3, <3>1 DEF Requests!Drop
  <2>6. CASE Dispatch /\ reply'.fate = "done"
    BY <2>6, DispatchCarriesOut
  <2>7. CASE UNCHANGED vars
    BY <2>2, <2>3, <2>7 DEF vars
  <2> QED
    BY <2>4, <2>5, <2>6, <2>7 DEF Next
<1> QED
  BY <1>1, <1>2, CommandInvariance, PTL DEF Spec, AsksImplemented, Requests!Spec

===============================================================================
