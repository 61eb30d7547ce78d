------------------------------- MODULE ReadRunner -------------------------------
(***************************************************************************)
(* A read command of kasapi-cli, from its flags to its output and exit     *)
(* code: runListE and runGetE (internal/cli/run.go) over BuildAPIClient,   *)
(* one call, Decode, the decoder of the action, and Render.                *)
(*                                                                         *)
(* The server may send anything an XML document can hold.  What Transport  *)
(* models (retries, flood delays) is one step here: a post is answered, or *)
(* fails for good.  Of the session cache of KasSession a command sees      *)
(* whether sessions.toml has a session for its login: that one is used     *)
(* before KasAuth is asked for another, and given up if the server refuses *)
(* it.                                                                     *)
(***************************************************************************)
EXTENDS Decoders, Credentials
LOCAL INSTANCE FiniteSetsExt

CONSTANTS Texts,    \* the texts the elements of an answer may have
          Setups,   \* the sources of credentials and flags a command may have
          Usual     \* those with which every command and answer is tried

ASSUME SetupsAssumption ==
    /\ Usual \subseteq Setups
    /\ \A s \in Setups :
          /\ s.file.state \in {"none", "broken", "loaded"}
          /\ s.session \in [otp : STRING, lifetime : Int, update : STRING]

VARIABLES action, \* what is read
          setup,  \* [file, named, flags, env, session, cached, output, period]
          arg,    \* the argument of a get, "-" where there is none
          pc,     \* where the command is
          creds,  \* the resolved credentials
          token,  \* the credential token KasAuth gave, or the cached one
          posted, \* the requests that went out
          sent,   \* the document the server answered with
          got,    \* the entries made of it: [ok, entries]
          shown,  \* the entries on the output
          exit    \* the exit code

vars == <<action, setup, arg, pc, creds, token, posted, sent, got, shown, exit>>

Lists == [get_accounts |-> AccountFields, get_server_information |-> ServiceFields,
          get_dns_settings |-> RecordFields, get_domains |-> DomainFields,
          get_topleveldomains |-> TLDFields, get_subdomains |-> SubdomainFields,
          get_softwareinstall |-> SoftwareInstallFields,
          get_mailstandardfilter |-> StandardFilterFields,
          get_space |-> SpaceFields, get_space_usage |-> SpaceUsageFields]
Actions == DOMAIN Lists \cup {"get_traffic", "get_accountsettings", "get_accountresources"}

\* The actions with a singular form.
Singular == {"get_accounts", "get_domains", "get_subdomains", "get_softwareinstall"}

\* The token KasAuth gives a login in this run, and the one an earlier run left in
\* sessions.toml, for the logins in setup.cached: those with an unexpired entry.
TokenOf(login) == login \o "-token"
CachedOf(login) == login \o "-cached"
NoDocument == Document("none", NilElement)

-------------------------------------------------------------------------------
\* What the server may answer: a good answer, one with one field changed, or one
\* of another shape altogether.

FieldsOf ==
    CASE action \in DOMAIN Lists -> Lists[action]
      [] action = "get_traffic" -> TrafficFields
      [] action = "get_accountsettings" -> SettingsFields
      [] action = "get_accountresources" -> QuotaFields

Good(key, fields) ==
    CASE key \in fields.strings -> Element("string", "word", <<>>)
      [] key \in fields.truths -> Element("string", "Y", <<>>)
      [] key \in fields.floats -> Element("float", "1.5", <<>>)
      [] OTHER -> Element("int", "7", <<>>)

Forms == {NilElement, Element("Map", "", <<>>), Element("Array", "", <<>>),
          Element("date", "7", <<>>)}
         \cup {Element(t, x, <<>>) : t \in {"string", "int", "float", "boolean"}, x \in Texts}

\* A row by its elements, in any order; one that is varied may be missing, or be
\* there twice.
Row(keys, value) ==
    LET order == FoldSet(LAMBDA k, list : Append(list, k), <<>>, keys)
    IN  Element("Map", "", [i \in 1..Cardinality(keys) |-> Item(order[i], value[order[i]])])
GoodRow ==
    LET keys == AllOf(FieldsOf) IN Row(keys, [k \in keys |-> Good(k, FieldsOf)])
Varied ==
    (AllOf(FieldsOf) \ FieldsOf.strings)
    \cup (IF FieldsOf.strings = {} THEN {} ELSE {CHOOSE k \in FieldsOf.strings : TRUE})
Rows ==
    LET keys == AllOf(FieldsOf)
        good == [k \in keys |-> Good(k, FieldsOf)]
    IN  UNION {{Row(keys \ {k}, good)} \cup {Row(keys, [good EXCEPT ![k] = f]) : f \in Forms}
               \cup {[GoodRow EXCEPT !.items = Append(@, Item(k, f))] : f \in Forms}
               : k \in Varied}

InArray(rows) == Element("Array", "", [i \in DOMAIN rows |-> Item("", rows[i])])

\* The ReturnInfo of an answer.
ListInfos ==
    {InArray(<<>>), GoodRow} \cup {InArray(<<r>>) : r \in Rows}
    \cup {InArray(<<GoodRow, r>>) : r \in Rows \cup {Element("string", "word", <<>>)}}
TrafficInfos ==
    {Element("Map", "", <<>>), InArray(<<GoodRow>>)}
    \cup {Element("Map", "", <<Item("0", GoodRow), Item("01", r)>>) :
             r \in Rows \cup {NilElement}}
SettingsInfos ==
    {Element("Map", "", <<Item("preferences", GoodRow)>>)}
    \cup {Element("Map", "", <<Item("settings", r)>>) : r \in Rows \cup {NilElement}}
QuotaInfos ==
    {InArray(<<GoodRow>>)}
    \cup UNION {{Element("Map", "", <<Item("max_domain", GoodRow), Item(k, r)>>) :
                    r \in Rows \cup {NilElement}}
                : k \in {"max_account", "max_domain", "max_new"}}
Infos ==
    CASE action \in DOMAIN Lists -> ListInfos
      [] action = "get_traffic" -> TrafficInfos
      [] action = "get_accountsettings" -> SettingsInfos
      [] action = "get_accountresources" -> QuotaInfos

Returning(items) == Document("response", Element("Map", "", items))
Responding(info) ==
    Returning(<<Item("Response", Element("Map", "", <<Item("ReturnInfo", info)>>))>>)

Documents ==
    IF setup \notin Usual THEN {Responding(InArray(<<GoodRow>>))}
    ELSE {Responding(info) : info \in Infos}
         \cup {Document(b, NilElement) : b \in {"none", "empty", "fault", "bare"}}
         \cup {Returning(<<>>), Document("response", InArray(<<>>)),
               Returning(<<Item("Response", NilElement)>>),
               Returning(<<Item("Response", Element("Map", "", <<>>))>>)}

-------------------------------------------------------------------------------
\* The command.

Init ==
    /\ setup \in Setups
    /\ action \in IF setup \in Usual THEN Actions ELSE {"get_space", "get_traffic"}
    /\ arg \in IF action \in Singular THEN {"-", "word", ""} ELSE {"-"}
    /\ pc = "flags"
    /\ creds = NoSource
    /\ token = NoToken
    /\ posted = {}
    /\ sent = NoDocument
    /\ got = Refused
    /\ shown = <<>>
    /\ exit = "none"

Exit(code) == pc' = "exited" /\ exit' = code
Goto(step) == pc' = step /\ UNCHANGED exit

\* The PreRunE hooks: --output, and the period of usage traffic.
PreRun ==
    /\ pc = "flags"
    /\ IF /\ setup.output \in {"json", "yaml", "table"}
          /\ action = "get_traffic" => setup.period = "valid"
       THEN Goto("resolve") ELSE Exit("user")
    /\ UNCHANGED <<action, setup, arg, creds, token, posted, sent, got, shown>>

\* resolveCreds.
ResolveCreds ==
    /\ pc = "resolve"
    /\ LET r == Resolve(setup.file, setup.named, setup.flags, setup.env)
       IN  /\ creds' = r.creds
           /\ IF r.ok THEN Goto("build") ELSE Exit("user")
    /\ UNCHANGED <<action, setup, arg, token, posted, sent, got, shown>>

\* buildAPIClientFromCreds.  Placing the session store cannot fail here: it takes the
\* path resolveCreds has loaded the file from.
BuildClient ==
    /\ pc = "build"
    /\ IF tokenSource(creds, setup.session) THEN Goto("fetch") ELSE Exit("user")
    /\ UNCHANGED <<action, setup, arg, creds, token, posted, sent, got, shown>>

\* The client method: a get of nothing is refused here.
Fetch ==
    /\ pc = "fetch"
    /\ IF arg = "" THEN Exit("api")
       ELSE Goto(IF creds.type = "session" THEN "load" ELSE "call")
    /\ UNCHANGED <<action, setup, arg, creds, token, posted, sent, got, shown>>

\* The session an earlier run left is adopted, whatever flags this run carries.  Without
\* one, or when sessions.toml cannot be read, KasAuth is asked.
LoadSession ==
    /\ pc = "load"
    /\ \/ creds.login \in setup.cached /\ token' = CachedOf(creds.login) /\ Goto("call")
       \/ UNCHANGED token /\ Goto("auth")
    /\ UNCHANGED <<action, setup, arg, creds, posted, sent, got, shown>>

Request(to, login, data, session) ==
    [to |-> to, login |-> login, data |-> data, session |-> session]

\* KasAuth gives a token, or a fault, or something that is no token.
Authenticate ==
    /\ pc = "auth"
    /\ posted' = posted \cup {Request("KasAuth", creds.login, creds.data, setup.session)}
    /\ \E document \in {Document("fault", NilElement), Document("bare", NilElement)}
                       \cup {Document("response", Element("string", x, <<>>)) :
                               x \in {TokenOf(creds.login), "word", ""}} :
          token' = DecodeToken(document, {TokenOf(creds.login)})
    /\ IF token' = NoToken THEN Exit("api") ELSE Goto("call")
    /\ UNCHANGED <<action, setup, arg, creds, sent, got, shown>>

\* The one call of the command; it may also fail for good.  A session the server
\* refuses is given up, and the call made once more with a new one.
Call ==
    /\ pc = "call"
    /\ LET data == IF creds.type = "session" THEN token ELSE creds.data
       IN  posted' = posted \cup {Request("KasApi", creds.login, data, NoSession)}
    /\ \/ sent' \in Documents /\ Goto("decode") /\ UNCHANGED token
       \/ Exit("api") /\ UNCHANGED <<token, sent>>
       \/ /\ creds.type = "session"
          /\ \A p \in posted : p.to # "KasApi"
          /\ token' = NoToken
          /\ Goto("auth")
          /\ UNCHANGED sent
    /\ UNCHANGED <<action, setup, arg, creds, got, shown>>

Decoded(info) ==
    CASE action \in DOMAIN Lists -> DecodeList(Lists[action], info)
      [] action = "get_traffic" -> DecodeTraffic(info)
      [] action = "get_accountsettings" -> DecodeAccountSettings(info)
      [] action = "get_accountresources" -> DecodeAccountResources(info)

\* The envelope, the decoder, and for a get the only entry there may be.
DecodeAnswer ==
    /\ pc = "decode"
    /\ LET answer == Decode(sent)
           result == Decoded(answer.info)
       IN  IF /\ answer.fate = "ok" /\ result.ok
              /\ arg # "-" => Len(result.entries) = 1
           THEN got' = result /\ Goto("render")
           ELSE Exit("api") /\ UNCHANGED got
    /\ UNCHANGED <<action, setup, arg, creds, token, posted, sent, shown>>

\* The columns of a table.
Columns ==
    LET single == arg # "-"
    IN  CASE action = "get_accounts" -> IF single THEN AccountDetail ELSE AccountRow
          [] action = "get_domains" -> IF single THEN DomainDetail ELSE DomainRow
          [] action = "get_subdomains" -> IF single THEN SubdomainDetail ELSE SubdomainRow
          [] action = "get_softwareinstall" ->
                IF single THEN SoftwareInstallDetail ELSE SoftwareInstallRow
          [] action = "get_accountsettings" -> SettingsDetail
          [] action = "get_space" -> SpaceRow
          [] action = "get_space_usage" -> SpaceUsageRow
          [] action = "get_traffic" -> TrafficRow
          [] action = "get_accountresources" -> Resources
          [] OTHER -> AllOf(FieldsOf)

\* The output may be closed or full.
Render ==
    /\ pc = "render"
    /\ \/ /\ shown' = IF setup.output # "table" THEN got.entries
                      ELSE [i \in DOMAIN got.entries |->
                              [c \in Columns |-> got.entries[i][c]]]
          /\ Exit("ok")
       \/ Exit("user") /\ UNCHANGED shown
    /\ UNCHANGED <<action, setup, arg, creds, token, posted, sent, got>>

Next == PreRun \/ ResolveCreds \/ BuildClient \/ Fetch \/ LoadSession \/ Authenticate
        \/ Call \/ DecodeAnswer \/ Render
Spec == Init /\ [][Next]_vars

-------------------------------------------------------------------------------
\* Properties.

\* The rows in a ReturnInfo, by what they are read as.
RowsIn(info) ==
    CASE action = "get_accountsettings" ->
            LET at == {i \in DOMAIN info.items : info.items[i].key = "settings"}
            IN  <<info.items[CHOOSE i \in at : \A j \in at : i <= j].value>>
      [] OTHER -> [i \in DOMAIN info.items |-> info.items[i].value]

\* The whole numbers a sent element stands for: a fraction is cut off, and what
\* is no number stands for none.
Denotes(e) ==
    IF e.nil THEN {}
    ELSE CASE classifyType(e.type) \in {"int", "string"} /\ e.text \in DOMAIN Whole ->
                 {Whole[e.text]}
           [] classifyType(e.type) = "float" /\ e.text \in DOMAIN Tenths ->
                 {n \in -1..7 : n = 0 \/ (n > 0) = (Tenths[e.text] > 0)}
                 \cap {n \in -1..7 : LET d == Tenths[e.text] - 10 * n IN d \in -9..9}
           [] OTHER -> {}

NumbersUnder(row, key) ==
    UNION {Denotes(row.items[i].value) : i \in {j \in DOMAIN row.items :
                                                    row.items[j].key = key}}

\* A number that was made of a row: an optional one may be 0 for want of one.
Faithful(entry, row, fields) ==
    /\ \A k \in fields.strict \cap DOMAIN entry : entry[k] \in NumbersUnder(row, k)
    /\ \A k \in fields.ints \cap DOMAIN entry : entry[k] \in NumbersUnder(row, k) \cup {0}

\* A quota that is shown: one that was sent under its name, or zero for want of one.
QuotaTold(quota, info, r) ==
    LET at == {i \in DOMAIN info.items : info.items[i].key = r}
    IN  \/ \E i \in at : Faithful(quota, info.items[i].value, QuotaFields)
        \/ /\ \/ at = {}
              \/ \E i \in at : info.items[i].value.nil \/ info.items[i].value.type # "Map"
           /\ quota = ZeroQuota

\* What is shown is what was sent: all the rows, in their order, none left out;
\* no year, month or quota is made up where the server sent none or garbage, and
\* a quota that is shown as 0 is one the server sent, or sent nothing for.  No
\* table shows the password of an account.
ShownIsSent ==
    pc = "exited" /\ exit = "ok" =>
       LET response == sent.return.items[1].value
           info == response.items[1].value
           rows == RowsIn(info)
       IN  /\ IF action = "get_accountresources"
              THEN \A r \in Resources : QuotaTold(shown[1][r], info, r)
              ELSE /\ DOMAIN shown = DOMAIN rows
                   /\ \A i \in DOMAIN rows : Faithful(shown[i], rows[i], FieldsOf)
           /\ setup.output = "table" =>
                 \A i \in DOMAIN shown : "account_password" \notin DOMAIN shown[i]

\* The exit code that blames the user means that KAS was left alone, or had answered
\* and only the output failed.  Session flags that were accepted went out with KasAuth,
\* or else the call used the session an earlier run of its login had left; and every
\* KasAuth has the flags of this run, also the one that replaces a session the server
\* has refused.
FlagsTakeEffectOrRefuse ==
    /\ exit = "user" /\ posted # {} => got.ok
    /\ posted # {} /\ setup.session # NoSession =>
          \E p \in posted :
             \/ p.to = "KasAuth" /\ p.session = setup.session
             \/ p.to = "KasApi" /\ p.data = CachedOf(p.login) /\ p.login \in setup.cached
    /\ \A p \in posted : p.to = "KasAuth" => p.session = setup.session

\* The profile of a command: the one --profile names, or else default_profile.
Profile ==
    LET name == IF setup.named # "" THEN setup.named ELSE setup.file.default
    IN  IF setup.file.state = "loaded" /\ name \in DOMAIN setup.file.profiles
        THEN setup.file.profiles[name] ELSE NoSource

\* A value of the highest of flags, environment and profile that gives the field.
FromHighest(field, value) ==
    /\ value # ""
    /\ \/ value = setup.flags[field]
       \/ setup.flags[field] = "" /\ value = setup.env[field]
       \/ setup.flags[field] = "" /\ setup.env[field] = "" /\ value = Profile[field]

\* Every request has the login, and KasAuth and a plain KasApi call the password, of the
\* highest source that gives it; these may be two sources, as the README of the program
\* says.  A session call has no password but a token, and only one that was given for
\* the login it names.  Who names a profile that is not there sends nothing.
CredentialsFollowPrecedence ==
    \A p \in posted :
       /\ FromHighest("login", p.login)
       /\ \/ FromHighest("data", p.data) /\ (p.to = "KasApi" => FromHighest("type", "plain"))
          \/ /\ p.to = "KasApi" /\ FromHighest("type", "session")
             /\ \/ /\ p.data = TokenOf(p.login)
                   /\ \E q \in posted : q.to = "KasAuth" /\ q.login = p.login
                \/ p.data = CachedOf(p.login) /\ p.login \in setup.cached
       /\ p.to = "KasAuth" => FromHighest("type", "session")
       /\ setup.named # "" =>
             setup.file.state = "loaded" /\ setup.named \in DOMAIN setup.file.profiles
===============================================================================
