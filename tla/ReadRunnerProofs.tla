---------------------------- MODULE ReadRunnerProofs ----------------------------
(***************************************************************************)
(* Proofs about ReadRunner, for any setups of the assumed shape and any    *)
(* texts: a request carries what the sources of credentials give in their  *)
(* order, flags are refused before anything is sent or go out with KasAuth *)
(* where no session is cached, and what a command shows is what the server *)
(* sent.                                                                   *)
(***************************************************************************)
EXTENDS ReadRunner, TLAPS, WellFoundedInduction

\* A token of the login of this command: the cached one, or that of a KasAuth it sent.
Owned(data) ==
    \/ data = CachedOf(creds.login) /\ creds.login \in setup.cached
    \/ data = TokenOf(creds.login) /\ \E q \in posted : q.to = "KasAuth"

\* The requests a command has sent, with the credentials it resolved.
RequestInv ==
    \A p \in posted :
       /\ p.login = creds.login
       /\ p.to \in {"KasAuth", "KasApi"}
       /\ p.to = "KasAuth" =>
             p.data = creds.data /\ p.session = setup.session /\ creds.type = "session"
       /\ p.to = "KasApi" =>
             IF creds.type = "session" THEN Owned(p.data) ELSE p.data = creds.data

\* What is settled when.  Nothing is sent before the credentials are complete and a
\* client can be built of them; who is past the cache and KasAuth has a token of its
\* login; and only who has entries renders them.
OrderInv ==
    /\ setup \in Setups
    /\ pc \in {"flags", "resolve", "build", "fetch", "load"} => posted = {}
    /\ pc # "exited" => exit = "none"
    /\ exit = "user" => posted = {} \/ got.ok
    /\ pc = "render" => got.ok
    /\ pc \in {"build", "fetch", "load", "auth", "call", "decode", "render"} \/ posted # {} =>
          Resolve(setup.file, setup.named, setup.flags, setup.env)
            = [ok |-> TRUE, creds |-> creds]
    /\ pc \in {"fetch", "load", "auth", "call", "decode", "render"} \/ posted # {} =>
          tokenSource(creds, setup.session)
    /\ pc \in {"load", "auth"} => creds.type = "session"
    /\ pc = "call" /\ creds.type = "session" => Owned(token)

\* Together they are inductive.
RunInv == RequestInv /\ OrderInv

\* It holds at the start,
LEMMA InitRun == Init => RunInv
BY DEF Init, RunInv, RequestInv, OrderInv

\* Resolve gives its credentials whole, or none.
LEMMA ResolveGives ==
    ASSUME NEW file, NEW named, NEW flags, NEW env,
           Resolve(file, named, flags, env).ok
    PROVE  Resolve(file, named, flags, env)
             = [ok |-> TRUE, creds |-> Resolve(file, named, flags, env).creds]
<1> DEFINE r == Resolve(file, named, flags, env)
<1>1. Rejected.ok = FALSE
  BY DEF Rejected
<1>2. r # Rejected
  BY <1>1
<1>3. \E c : r = [ok |-> TRUE, creds |-> c]
  BY <1>2 DEF Resolve
<1> HIDE DEF r
<1>4. r = [ok |-> TRUE, creds |-> r.creds]
  BY <1>3
<1> QED
  BY <1>4 DEF r

\* What it gives is valid, each field comes from the highest source that has it, and
\* the profile was not in doubt.
LEMMA ResolvedPicks ==
    ASSUME NEW file, NEW named, NEW flags, NEW env, NEW c,
           Resolve(file, named, flags, env) = [ok |-> TRUE, creds |-> c]
    PROVE  LET prof == ProfileOf(file, named)
           IN  /\ validate(c)
               /\ prof.ok
               /\ c = Source(pick(flags.login, env.login, prof.profile.login),
                             pick(flags.data, env.data, prof.profile.data),
                             pick(flags.type, env.type, prof.profile.type))
<1> DEFINE prof == ProfileOf(file, named)
           picked == Source(pick(flags.login, env.login, prof.profile.login),
                            pick(flags.data, env.data, prof.profile.data),
                            pick(flags.type, env.type, prof.profile.type))
<1>1. Resolve(file, named, flags, env)
        = IF prof.ok /\ validate(picked) THEN [ok |-> TRUE, creds |-> picked] ELSE Rejected
  BY DEF Resolve
<1> HIDE DEF prof
<1>2. Resolve(file, named, flags, env).ok = TRUE /\ Resolve(file, named, flags, env).creds = c
  OBVIOUS
<1>3. Rejected.ok = FALSE
  BY DEF Rejected
<1>4. prof.ok /\ validate(picked) /\ c = picked
  <2> DEFINE given == [ok |-> TRUE, creds |-> picked]
  <2>1. given.creds = picked
    OBVIOUS
  <2> QED
    BY <1>1, <1>2, <1>3, <2>1
<1> QED
  BY <1>4 DEF prof

\* The token of KasAuth, or none.
LEMMA TokenGiven ==
    ASSUME NEW document, NEW t
    PROVE  DecodeToken(document, {t}) \in {t, NoToken}
BY DEF DecodeToken

\* every step keeps it,
LEMMA NextRun == RunInv /\ [Next]_vars => RunInv'
<1> SUFFICES ASSUME RunInv, [Next]_vars PROVE RunInv'
  OBVIOUS
<1> USE DEF Goto, Exit
<1>1. CASE PreRun
  BY <1>1 DEF PreRun, RunInv, RequestInv, OrderInv
<1>2. CASE ResolveCreds
  <2> DEFINE r == Resolve(setup.file, setup.named, setup.flags, setup.env)
  <2>1. /\ pc = "resolve" /\ creds' = r.creds
        /\ IF r.ok THEN Goto("build") ELSE Exit("user")
        /\ UNCHANGED <<action, setup, arg, token, posted, sent, got, shown>>
    BY <1>2 DEF ResolveCreds
  <2>2. posted = {}
    BY <2>1 DEF RunInv, OrderInv
  <2>3. r.ok => r = [ok |-> TRUE, creds |-> creds']
    BY <2>1, ResolveGives
  <2> HIDE DEF r
  <2>4. RequestInv'
    BY <2>1, <2>2 DEF RequestInv
  <2>5. \/ pc' = "build" /\ r.ok /\ exit' = exit
        \/ pc' = "exited"
    BY <2>1
  <2>6. exit = "none"
    BY <2>1 DEF RunInv, OrderInv
  <2>7. setup' = setup /\ posted' = {} /\ setup \in Setups
    BY <2>1, <2>2 DEF RunInv, OrderInv
  <2>8. pc' = "build" =>
           Resolve(setup'.file, setup'.named, setup'.flags, setup'.env)
             = [ok |-> TRUE, creds |-> creds']
    BY <2>3, <2>5, <2>7 DEF r
  <2> QED
    BY <2>4, <2>5, <2>6, <2>7, <2>8 DEF RunInv, OrderInv
<1>3. CASE BuildClient
  BY <1>3 DEF BuildClient, RunInv, RequestInv, OrderInv
<1>4. CASE Fetch
  BY <1>4 DEF Fetch, RunInv, RequestInv, OrderInv
<1>5. CASE LoadSession
  <2>1. /\ pc = "load" /\ posted = {} /\ exit = "none" /\ creds.type = "session"
        /\ UNCHANGED <<action, setup, arg, creds, posted, sent, got, shown>>
        /\ \/ /\ creds.login \in setup.cached /\ token' = CachedOf(creds.login)
              /\ pc' = "call" /\ exit' = exit
           \/ pc' = "auth" /\ exit' = exit
    BY <1>5 DEF LoadSession, RunInv, OrderInv
  <2>2. pc' = "call" => Owned(token)'
    BY <2>1 DEF Owned
  <2> QED
    BY <2>1, <2>2 DEF RunInv, RequestInv, OrderInv
<1>6. CASE Authenticate
  <2> DEFINE p == Request("KasAuth", creds.login, creds.data, setup.session)
  <2>1. /\ pc = "auth" /\ posted' = posted \cup {p}
        /\ UNCHANGED <<action, setup, arg, creds, sent, got, shown>>
        /\ IF token' = NoToken THEN Exit("api") ELSE Goto("call")
    BY <1>6 DEF Authenticate
  <2>2. token' \in {TokenOf(creds.login), NoToken}
    BY <1>6, TokenGiven DEF Authenticate
  <2>3. p.to = "KasAuth" /\ p.login = creds.login /\ p.data = creds.data
        /\ p.session = setup.session
    BY DEF Request
  <2> HIDE DEF p
  <2>4. creds.type = "session" /\ setup \in Setups /\ exit = "none"
    BY <2>1 DEF RunInv, OrderInv
  <2>5. /\ Resolve(setup.file, setup.named, setup.flags, setup.env)
             = [ok |-> TRUE, creds |-> creds]
        /\ tokenSource(creds, setup.session)
    BY <2>1 DEF RunInv, OrderInv
  <2>6. \/ pc' = "exited" /\ exit' = "api"
        \/ pc' = "call" /\ exit' = "none" /\ token' = TokenOf(creds.login)
    BY <2>1, <2>2, <2>4
  <2>7. \A data : Owned(data) => Owned(data)'
    BY <2>1 DEF Owned
  <2>8. RequestInv'
    BY <2>1, <2>3, <2>4, <2>7 DEF RunInv, RequestInv
  <2>9. pc' = "call" => Owned(token)'
    BY <2>1, <2>3, <2>6 DEF Owned
  <2> QED
    BY <2>1, <2>4, <2>5, <2>6, <2>8, <2>9 DEF RunInv, OrderInv
<1>7. CASE Call
  <2> DEFINE data == IF creds.type = "session" THEN token ELSE creds.data
             p == Request("KasApi", creds.login, data, NoSession)
  <2>1. /\ pc = "call" /\ posted' = posted \cup {p}
        /\ UNCHANGED <<action, setup, arg, creds, got, shown>>
        /\ \/ pc' = "decode" /\ exit' = exit
           \/ pc' = "exited" /\ exit' = "api"
           \/ pc' = "auth" /\ exit' = exit /\ creds.type = "session"
    BY <1>7 DEF Call
  <2>2. p.to = "KasApi" /\ p.login = creds.login /\ p.data = data
    BY DEF Request
  <2> HIDE DEF p
  <2>3. IF creds.type = "session" THEN Owned(data) ELSE data = creds.data
    BY <2>1 DEF RunInv, OrderInv
  <2>4. ASSUME NEW d, Owned(d) PROVE Owned(d)'
    BY <2>1, <2>4 DEF Owned
  <2> HIDE DEF data
  <2>5. RequestInv'
    BY <2>1, <2>2, <2>3, <2>4 DEF RunInv, RequestInv
  <2>6. /\ setup \in Setups /\ exit = "none"
        /\ Resolve(setup.file, setup.named, setup.flags, setup.env)
             = [ok |-> TRUE, creds |-> creds]
        /\ tokenSource(creds, setup.session)
    BY <2>1 DEF RunInv, OrderInv
  <2> QED
    BY <2>1, <2>5, <2>6 DEF RunInv, OrderInv
<1>8. CASE DecodeAnswer
  BY <1>8 DEF DecodeAnswer, RunInv, RequestInv, OrderInv, Owned
<1>9. CASE Render
  BY <1>9 DEF Render, RunInv, RequestInv, OrderInv, Owned
<1>10. CASE UNCHANGED vars
  BY <1>10 DEF vars, RunInv, RequestInv, OrderInv, Owned
<1> QED
  BY <1>1, <1>2, <1>3, <1>4, <1>5, <1>6, <1>7, <1>8, <1>9, <1>10 DEF Next

\* and so it holds for ever.
LEMMA RunInvariance == Spec => []RunInv
BY InitRun, NextRun, PTL DEF Spec

\* The highest of three that is given.
LEMMA PickedHighest ==
    ASSUME NEW field, NEW value, value # "",
           value = pick(setup.flags[field], setup.env[field], Profile[field])
    PROVE  FromHighest(field, value)
BY DEF pick, FromHighest

\* What a command that has got past resolveCreds uses, field by field.
LEMMA ResolvedHighest ==
    ASSUME setup \in Setups,
           Resolve(setup.file, setup.named, setup.flags, setup.env)
             = [ok |-> TRUE, creds |-> creds]
    PROVE  /\ FromHighest("login", creds.login)
           /\ FromHighest("data", creds.data)
           /\ FromHighest("type", creds.type)
           /\ creds.type \in {"plain", "session"}
           /\ setup.named # "" =>
                 setup.file.state = "loaded" /\ setup.named \in DOMAIN setup.file.profiles
<1> DEFINE prof == ProfileOf(setup.file, setup.named)
<1>1. /\ validate(creds)
      /\ prof.ok
      /\ creds = Source(pick(setup.flags.login, setup.env.login, prof.profile.login),
                        pick(setup.flags.data, setup.env.data, prof.profile.data),
                        pick(setup.flags.type, setup.env.type, prof.profile.type))
  BY ResolvedPicks
<1>2. setup.file.state \in {"none", "broken", "loaded"}
  BY SetupsAssumption
<1>3. prof.profile = Profile
      /\ (setup.named # "" =>
             setup.file.state = "loaded" /\ setup.named \in DOMAIN setup.file.profiles)
  <2>1. CASE setup.file.state = "broken"
    BY <1>1, <2>1 DEF ProfileOf
  <2>2. CASE setup.file.state = "none"
    BY <1>1, <2>2 DEF ProfileOf, Profile
  <2>3. CASE setup.file.state = "loaded"
    BY <1>1, <2>3 DEF ProfileOf, Profile
  <2> QED
    BY <1>2, <2>1, <2>2, <2>3
<1> HIDE DEF prof
<1>4. /\ creds.login = pick(setup.flags.login, setup.env.login, Profile.login)
      /\ creds.data = pick(setup.flags.data, setup.env.data, Profile.data)
      /\ creds.type = pick(setup.flags.type, setup.env.type, Profile.type)
  BY <1>1, <1>3 DEF Source
<1>5. creds.login # "" /\ creds.data # "" /\ creds.type \in {"plain", "session"}
  BY <1>1 DEF validate
<1>6. FromHighest("login", creds.login)
  BY <1>4, <1>5, PickedHighest
<1>7. FromHighest("data", creds.data)
  BY <1>4, <1>5, PickedHighest
<1>8. FromHighest("type", creds.type)
  BY <1>4, <1>5, PickedHighest
<1> QED
  BY <1>3, <1>5, <1>6, <1>7, <1>8

\* CredentialsFollowPrecedence, of Resolve, the token source over it and the session
\* cache: each field of a request is that of the highest source that gives it, no
\* password goes where a token belongs, and a token goes only with the login it was
\* given for.
THEOREM CredentialsCorrect == Spec => []CredentialsFollowPrecedence
<1>1. RunInv => CredentialsFollowPrecedence
  <2> SUFFICES ASSUME RunInv, NEW p \in posted
               PROVE  /\ FromHighest("login", p.login)
                      /\ \/ /\ FromHighest("data", p.data)
                            /\ p.to = "KasApi" => FromHighest("type", "plain")
                         \/ /\ p.to = "KasApi" /\ FromHighest("type", "session")
                            /\ \/ /\ p.data = TokenOf(p.login)
                                  /\ \E q \in posted : q.to = "KasAuth" /\ q.login = p.login
                               \/ p.data = CachedOf(p.login) /\ p.login \in setup.cached
                      /\ p.to = "KasAuth" => FromHighest("type", "session")
                      /\ setup.named # "" =>
                            /\ setup.file.state = "loaded"
                            /\ setup.named \in DOMAIN setup.file.profiles
    BY DEF CredentialsFollowPrecedence
  <2>1. /\ setup \in Setups
        /\ Resolve(setup.file, setup.named, setup.flags, setup.env)
             = [ok |-> TRUE, creds |-> creds]
    BY DEF RunInv, OrderInv
  <2>2. /\ FromHighest("login", creds.login)
        /\ FromHighest("data", creds.data)
        /\ FromHighest("type", creds.type)
        /\ creds.type \in {"plain", "session"}
        /\ setup.named # "" =>
              setup.file.state = "loaded" /\ setup.named \in DOMAIN setup.file.profiles
    BY <2>1, ResolvedHighest
  <2>3. /\ p.login = creds.login
        /\ p.to \in {"KasAuth", "KasApi"}
        /\ p.to = "KasAuth" => p.data = creds.data /\ creds.type = "session"
        /\ p.to = "KasApi" =>
              IF creds.type = "session" THEN Owned(p.data) ELSE p.data = creds.data
    BY DEF RunInv, RequestInv
  <2>4. \A q \in posted : q.login = creds.login
    BY DEF RunInv, RequestInv
  <2>5. CASE p.to = "KasAuth"
    BY <2>2, <2>3, <2>5
  <2>6. CASE p.to = "KasApi" /\ creds.type = "session"
    BY <2>2, <2>3, <2>4, <2>6 DEF Owned
  <2>7. CASE p.to = "KasApi" /\ creds.type = "plain"
    BY <2>2, <2>3, <2>7
  <2> QED
    BY <2>2, <2>3, <2>5, <2>6, <2>7
<1> QED
  BY <1>1, RunInvariance, PTL

\* FlagsTakeEffectOrRefuse, of PreRunE, tokenSource, the session cache and the exit
\* codes: session flags that were accepted went out with KasAuth unless the session of
\* an earlier run was used, and who is told to mend the command line has asked KAS for
\* nothing, or has the answer and only no output.
THEOREM FlagsCorrect == Spec => []FlagsTakeEffectOrRefuse
<1>1. RunInv => FlagsTakeEffectOrRefuse
  <2> SUFFICES ASSUME RunInv PROVE FlagsTakeEffectOrRefuse
    OBVIOUS
  <2>1. ASSUME posted # {}, setup.session # NoSession
        PROVE  \E p \in posted :
                  \/ p.to = "KasAuth" /\ p.session = setup.session
                  \/ p.to = "KasApi" /\ p.data = CachedOf(p.login)
                     /\ p.login \in setup.cached
    <3>1. /\ setup \in Setups
          /\ tokenSource(creds, setup.session)
          /\ Resolve(setup.file, setup.named, setup.flags, setup.env)
               = [ok |-> TRUE, creds |-> creds]
      BY <2>1 DEF RunInv, OrderInv
    <3>2. isSet(setup.session)
      <4>1. setup.session \in [otp : STRING, lifetime : Int, update : STRING]
        BY <3>1, SetupsAssumption
      <4> QED
        BY <2>1, <4>1 DEF isSet, NoSession, Session
    <3>3. creds.type = "session"
      <4>1. creds.type \in {"plain", "session"}
        BY <3>1, ResolvedHighest
      <4> QED
        BY <3>1, <3>2, <4>1 DEF tokenSource
    <3>4. PICK p \in posted : TRUE
      BY <2>1
    <3>5. CASE p.to = "KasAuth"
      BY <3>4, <3>5 DEF RunInv, RequestInv
    <3>6. CASE p.to = "KasApi"
      <4>1. p.login = creds.login /\ Owned(p.data)
        BY <3>3, <3>6 DEF RunInv, RequestInv
      <4>2. ASSUME NEW q \in posted, q.to = "KasAuth" PROVE q.session = setup.session
        BY <4>2 DEF RunInv, RequestInv
      <4> QED
        BY <3>6, <4>1, <4>2 DEF Owned
    <3> QED
      BY <3>5, <3>6 DEF RunInv, RequestInv
  <2>2. exit = "user" /\ posted # {} => got.ok
    BY DEF RunInv, OrderInv
  <2>3. \A p \in posted : p.to = "KasAuth" => p.session = setup.session
    BY DEF RunInv, RequestInv
  <2> QED
    BY <2>1, <2>2, <2>3 DEF FlagsTakeEffectOrRefuse
<1> QED
  BY <1>1, RunInvariance, PTL

-------------------------------------------------------------------------------

\* A field that is read as a number is a number its element denotes; 0 may stand for none.
LEMMA FieldDenotes ==
    ASSUME NEW e, NEW v
    PROVE  v = Unmarshal4(e) =>
              /\ AsIntStrict(v).ok => AsIntStrict(v).n \in Denotes(e)
              /\ AsInt(v) \in Denotes(e) \cup {0}
<1>0. SUFFICES ASSUME v = Unmarshal4(e)
               PROVE  /\ AsIntStrict(v).ok => AsIntStrict(v).n \in Denotes(e)
                      /\ AsInt(v) \in Denotes(e) \cup {0}
  OBVIOUS
<1> DEFINE kind == classifyType(e.type)
           values == [i \in DOMAIN e.items |->
                        Item(e.items[i].key, Unmarshal3(e.items[i].value))]
<1>1. Nil.kind = "nil" /\ Malformed.kind = "malformed"
  BY DEF Nil, Malformed, Value
<1>2. v = UnmarshalXML(e, values)
  BY <1>0 DEF Unmarshal4
<1> HIDE DEF values
<1>3. kind \in {"string", "int", "float", "bool", "map", "array", "unknown"}
  BY DEF classifyType
<1>4. CASE e.nil
  BY <1>1, <1>2, <1>4 DEF UnmarshalXML, AsIntStrict, AsInt
<1>5. CASE ~e.nil /\ kind = "string"
  <2>1. v = Value("string", e.text, 0, <<>>)
    BY <1>2, <1>5 DEF UnmarshalXML
  <2>2. v.kind = "string" /\ v.str = e.text
    BY <2>1 DEF Value
  <2>3. e.text \in DOMAIN Whole => Denotes(e) = {Whole[e.text]}
    BY <1>5 DEF Denotes
  <2> QED
    BY <2>2, <2>3 DEF AsIntStrict, AsInt
<1>6. CASE ~e.nil /\ kind = "int"
  <2>1. CASE e.text \in DOMAIN Whole
    <3>1. v = Value("int", "", Whole[e.text], <<>>)
      BY <1>2, <1>6, <2>1 DEF UnmarshalXML
    <3>2. v.kind = "int" /\ v.num = Whole[e.text]
      BY <3>1 DEF Value
    <3>3. Denotes(e) = {Whole[e.text]}
      BY <1>6, <2>1 DEF Denotes
    <3> QED
      BY <3>2, <3>3 DEF AsIntStrict, AsInt
  <2>2. CASE e.text \notin DOMAIN Whole
    <3>1. v = Malformed
      BY <1>2, <1>6, <2>2 DEF UnmarshalXML
    <3> QED
      BY <1>1, <3>1 DEF AsIntStrict, AsInt
  <2> QED
    BY <2>1, <2>2
<1>7. CASE ~e.nil /\ kind = "float"
  <2>1. CASE e.text \in DOMAIN Tenths
    <3>1. v = Value("float", "", Tenths[e.text], <<>>)
      BY <1>2, <1>7, <2>1 DEF UnmarshalXML
    <3>2. v.kind = "float" /\ v.num = Tenths[e.text]
      BY <3>1 DEF Value
    <3> DEFINE n == Truncate(Tenths[e.text])
    <3>3. /\ n \in -1..7
          /\ n = 0 \/ (n > 0) = (Tenths[e.text] > 0)
          /\ Tenths[e.text] - 10 * n \in -9..9
      <4>1. Tenths[e.text] \in {0, 10, 70, -10, 15}
        BY <2>1 DEF Tenths, Whole
      <4>2. /\ Truncate(0) = 0 /\ Truncate(10) = 1 /\ Truncate(70) = 7
            /\ Truncate(-10) = -1 /\ Truncate(15) = 1
        BY DEF Truncate
      <4> QED
        BY <4>1, <4>2
    <3>4. n \in Denotes(e)
      BY <1>7, <2>1, <3>3 DEF Denotes
    <3> QED
      BY <3>2, <3>4 DEF AsIntStrict, AsInt
  <2>2. CASE e.text \notin DOMAIN Tenths
    <3>1. v = Malformed
      BY <1>2, <1>7, <2>2 DEF UnmarshalXML
    <3> QED
      BY <1>1, <3>1 DEF AsIntStrict, AsInt
  <2> QED
    BY <2>1, <2>2
<1>8. CASE ~e.nil /\ kind \in {"bool", "map", "array", "unknown"}
  <2>1. v.kind \in {"malformed", "bool", "map", "array"}
    <3>1. CASE v = Malformed
      BY <1>1, <3>1
    <3>2. CASE v = Value("bool", "", Truth[e.text], <<>>)
      BY <1>1, <3>2 DEF Value
    <3>3. CASE kind \in {"map", "array"} /\ v = decodeItems(kind, values)
      <4>1. v = Malformed \/ v = Value(kind, "", 0, values)
        BY <3>3 DEF decodeItems
      <4>2. ASSUME v = Value(kind, "", 0, values) PROVE v.kind = kind
        BY <4>2 DEF Value
      <4> QED
        BY <1>1, <3>3, <4>1, <4>2
    <3> QED
      BY <1>2, <1>8, <3>1, <3>2, <3>3 DEF UnmarshalXML
  <2> QED
    BY <2>1 DEF AsIntStrict, AsInt
<1> QED
  BY <1>3, <1>4, <1>5, <1>6, <1>7, <1>8

\* An element whose items have numbers for places.
Listed(e) == DOMAIN e.items \subseteq Nat

\* A set of natural numbers has a least one,
LEMMA LeastNat ==
    ASSUME NEW T, T \subseteq Nat, T # {}
    PROVE  \E x \in T : \A y \in T : x <= y
<1>1. \E R : IsWellFoundedOn(R, Nat) /\ \A x, y \in Nat : y < x => <<y, x>> \in R
  <2>1. \A x, y \in Nat : y < x => <<y, x>> \in OpToRel(<, Nat)
    BY DEF OpToRel
  <2> QED
    BY <2>1, NatLessThanWellFounded, Zenon
<1>2. PICK R : IsWellFoundedOn(R, Nat) /\ \A x, y \in Nat : y < x => <<y, x>> \in R
  BY <1>1
<1>3. PICK x \in T : \A y \in T : <<y, x>> \notin R
  BY <1>2, WFMin
<1>4. ASSUME NEW y \in T PROVE x <= y
  <2>1. x \in Nat /\ y \in Nat /\ ~(y < x)
    BY <1>2, <1>3
  <2> QED
    BY <2>1
<1> QED
  BY <1>4

\* and CHOOSE finds it.
LEMMA Least ==
    ASSUME NEW S, S \subseteq Nat, S # {}
    PROVE  (CHOOSE i \in S : \A j \in S : i <= j) \in S
<1>1. \E i \in S : \A j \in S : i <= j
  BY LeastNat
<1> QED
  BY <1>1

\* What reads as a list is one, and nothing in it was malformed.
LEMMA ListRead ==
    ASSUME NEW e, NEW values, UnmarshalXML(e, values).kind \in {"map", "array"}
    PROVE  /\ ~e.nil /\ UnmarshalXML(e, values).kind = classifyType(e.type)
           /\ UnmarshalXML(e, values).items = values
           /\ \A i \in DOMAIN values : values[i].value # Malformed
<1> DEFINE kind == classifyType(e.type)
           v == UnmarshalXML(e, values)
<1>1. Nil.kind = "nil" /\ Malformed.kind = "malformed"
  BY DEF Nil, Malformed, Value
<1>2. v # Nil /\ v # Malformed
  BY <1>1
<1>3. ~e.nil
  BY <1>2 DEF UnmarshalXML, decodeItems
<1>4. CASE kind \in {"map", "array"}
  <2>1. /\ v = Value(kind, "", 0, values)
        /\ \A i \in DOMAIN values : values[i].value # Malformed
    BY <1>2, <1>3, <1>4 DEF UnmarshalXML, decodeItems
  <2> HIDE DEF kind, v
  <2>2. v.kind = kind /\ v.items = values
    BY <2>1 DEF Value
  <2> QED
    BY <1>3, <2>1, <2>2 DEF kind, v
<1>5. CASE kind \notin {"map", "array"}
  <2>1. \/ v = Value("string", e.text, 0, <<>>)
        \/ v = Value("int", "", Whole[e.text], <<>>)
        \/ v = Value("float", "", Tenths[e.text], <<>>)
        \/ v = Value("bool", "", Truth[e.text], <<>>)
    BY <1>2, <1>3, <1>5 DEF UnmarshalXML, decodeItems
  <2>2. v.kind \in {"map", "array"}
    OBVIOUS
  <2> HIDE DEF v
  <2>3. ASSUME v = Value("string", e.text, 0, <<>>) PROVE v.kind = "string"
    BY <2>3 DEF Value
  <2>4. ASSUME v = Value("int", "", Whole[e.text], <<>>) PROVE v.kind = "int"
    BY <2>4 DEF Value
  <2>5. ASSUME v = Value("float", "", Tenths[e.text], <<>>) PROVE v.kind = "float"
    BY <2>5 DEF Value
  <2>6. ASSUME v = Value("bool", "", Truth[e.text], <<>>) PROVE v.kind = "bool"
    BY <2>6 DEF Value
  <2> QED
    BY <2>1, <2>2, <2>3, <2>4, <2>5, <2>6
<1> QED
  BY <1>4, <1>5

\* A Map has what its element has, read.
LEMMA RowRead ==
    ASSUME NEW e, NEW v, v = Unmarshal5(e), v.kind = "map"
    PROVE  /\ DOMAIN v.items = DOMAIN e.items
           /\ \A i \in DOMAIN e.items : /\ v.items[i].key = e.items[i].key
                                        /\ v.items[i].value = Unmarshal4(e.items[i].value)
<1> DEFINE values == [i \in DOMAIN e.items |->
                        Item(e.items[i].key, Unmarshal4(e.items[i].value))]
<1>1. v = UnmarshalXML(e, values)
  BY DEF Unmarshal5
<1>2. v.items = values
  BY <1>1, ListRead
<1> QED
  BY <1>2 DEF Item

\* Get reads what a row has under the key, or finds nothing.
LEMMA GetField ==
    ASSUME NEW e, NEW v, NEW key, v = Unmarshal5(e), v.kind = "map", Listed(e)
    PROVE  \/ Get(v, key) = Nil
           \/ \E i \in DOMAIN e.items : /\ e.items[i].key = key
                                        /\ Get(v, key) = Unmarshal4(e.items[i].value)
<1> DEFINE at == {i \in DOMAIN v.items : v.items[i].key = key}
<1>1. /\ DOMAIN v.items = DOMAIN e.items
      /\ \A i \in DOMAIN e.items : /\ v.items[i].key = e.items[i].key
                                   /\ v.items[i].value = Unmarshal4(e.items[i].value)
  BY RowRead
<1>2. CASE at = {}
  BY <1>2 DEF Get
<1>3. CASE at # {}
  <2> DEFINE first == CHOOSE i \in at : \A j \in at : i <= j
  <2>1. Get(v, key) = v.items[first].value
    BY <1>3 DEF Get
  <2>2. first \in at
    <3>1. at \subseteq Nat
      BY <1>1 DEF Listed
    <3> HIDE DEF at
    <3> QED
      BY <1>3, <3>1, Least
  <2> QED
    BY <1>1, <2>1, <2>2
<1> QED
  BY <1>2, <1>3

\* A number of a row: what it denotes.
LEMMA NumberRead ==
    ASSUME NEW e, NEW v, NEW key, v = Unmarshal5(e), v.kind = "map", Listed(e)
    PROVE  /\ MapIntStrict(v, key).ok => MapIntStrict(v, key).n \in NumbersUnder(e, key)
           /\ MapInt(v, key) \in NumbersUnder(e, key) \cup {0}
<1>1. CASE Get(v, key) = Nil
  <2>1. Nil.kind = "nil"
    BY DEF Nil, Value
  <2> QED
    BY <1>1, <2>1 DEF MapIntStrict, MapInt, AsIntStrict, AsInt
<1>2. CASE \E i \in DOMAIN e.items : /\ e.items[i].key = key
                                    /\ Get(v, key) = Unmarshal4(e.items[i].value)
  <2>1. PICK i \in DOMAIN e.items : /\ e.items[i].key = key
                                   /\ Get(v, key) = Unmarshal4(e.items[i].value)
    BY <1>2
  <2>2. Denotes(e.items[i].value) \subseteq NumbersUnder(e, key)
    BY <2>1 DEF NumbersUnder
  <2> QED
    BY <2>1, <2>2, FieldDenotes DEF MapIntStrict, MapInt
<1> QED
  BY <1>1, <1>2, GetField

\* A Map that is not malformed reads as a map.
LEMMA RowKind ==
    ASSUME NEW e, NEW v, v = Unmarshal5(e), ~e.nil, e.type = "Map", v # Malformed
    PROVE  v.kind = "map"
<1> DEFINE values == [i \in DOMAIN e.items |->
                        Item(e.items[i].key, Unmarshal4(e.items[i].value))]
<1>1. classifyType(e.type) = "map"
  BY DEF classifyType
<1>2. v = UnmarshalXML(e, values)
  BY DEF Unmarshal5
<1>3. v = Value("map", "", 0, values)
  BY <1>1, <1>2 DEF UnmarshalXML, decodeItems
<1>4. Value("map", "", 0, values).kind = "map"
  BY DEF Value
<1> QED
  BY <1>3, <1>4

\* A ReturnInfo that is a list has the items of its element, read as rows.
LEMMA InfoRead ==
    ASSUME NEW e, NEW v, v = Unmarshal6(e), v.kind \in {"map", "array"}
    PROVE  /\ ~e.nil /\ v.kind = classifyType(e.type) /\ DOMAIN v.items = DOMAIN e.items
           /\ \A i \in DOMAIN e.items : /\ v.items[i].key = e.items[i].key
                                        /\ v.items[i].value = Unmarshal5(e.items[i].value)
                                        /\ v.items[i].value # Malformed
<1> DEFINE values == [i \in DOMAIN e.items |->
                        Item(e.items[i].key, Unmarshal5(e.items[i].value))]
<1>1. v = UnmarshalXML(e, values)
  BY DEF Unmarshal6
<1>2. /\ ~e.nil /\ v.kind = classifyType(e.type) /\ v.items = values
      /\ \A i \in DOMAIN values : values[i].value # Malformed
  BY <1>1, ListRead
<1>3. \A i \in DOMAIN e.items : /\ values[i].key = e.items[i].key
                                /\ values[i].value = Unmarshal5(e.items[i].value)
  BY DEF Item
<1> QED
  BY <1>2, <1>3

\* The same for the Response of an envelope,
LEMMA ResponseRead ==
    ASSUME NEW e, NEW v, v = Unmarshal7(e), v.kind \in {"map", "array"}
    PROVE  /\ DOMAIN v.items = DOMAIN e.items
           /\ \A i \in DOMAIN e.items : /\ v.items[i].key = e.items[i].key
                                        /\ v.items[i].value = Unmarshal6(e.items[i].value)
<1> DEFINE values == [i \in DOMAIN e.items |->
                        Item(e.items[i].key, Unmarshal6(e.items[i].value))]
<1>1. v = UnmarshalXML(e, values)
  BY DEF Unmarshal7
<1>2. v.items = values
  BY <1>1, ListRead
<1> QED
  BY <1>2 DEF Item

\* and for its <return>.
LEMMA ReturnRead ==
    ASSUME NEW e, NEW v, v = Unmarshal(e), v.kind \in {"map", "array"}
    PROVE  /\ v.kind = classifyType(e.type) /\ DOMAIN v.items = DOMAIN e.items
           /\ \A i \in DOMAIN e.items : /\ v.items[i].key = e.items[i].key
                                        /\ v.items[i].value = Unmarshal7(e.items[i].value)
<1> DEFINE values == [i \in DOMAIN e.items |->
                        Item(e.items[i].key, Unmarshal7(e.items[i].value))]
<1>1. v = UnmarshalXML(e, values)
  BY DEF Unmarshal
<1>2. v.kind = classifyType(e.type) /\ v.items = values
  BY <1>1, ListRead
<1> QED
  BY <1>2 DEF Item

\* Fields are read as one thing only.
Apart(fields) ==
    /\ fields.ints \cap (fields.strings \cup fields.floats \cup fields.truths) = {}
    /\ fields.strict \cap (fields.strings \cup fields.ints \cup fields.floats
                           \cup fields.truths) = {}

\* No decoder reads a number of a key that it reads as something else, too.
LEMMA FieldsApart == action \in Actions => Apart(FieldsOf)
<1> SUFFICES ASSUME action \in Actions PROVE Apart(FieldsOf)
  OBVIOUS
<1> USE DEF FieldsOf, Apart, Fields
<1>1. CASE action = "get_accounts"
  BY <1>1 DEF Lists, AccountFields, Links
<1>2. CASE action = "get_server_information"
  BY <1>2 DEF Lists, ServiceFields
<1>3. CASE action = "get_dns_settings"
  BY <1>3 DEF Lists, RecordFields
<1>4. CASE action = "get_domains"
  BY <1>4 DEF Lists, DomainFields, SSL
<1>5. CASE action = "get_topleveldomains"
  BY <1>5 DEF Lists, TLDFields
<1>6. CASE action = "get_subdomains"
  BY <1>6 DEF Lists, SubdomainFields, SSL
<1>7. CASE action = "get_softwareinstall"
  BY <1>7 DEF Lists, SoftwareInstallFields
<1>8. CASE action = "get_mailstandardfilter"
  BY <1>8 DEF Lists, StandardFilterFields
<1>9. CASE action = "get_space"
  BY <1>9 DEF Lists, SpaceFields
<1>10. CASE action = "get_space_usage"
  BY <1>10 DEF Lists, SpaceUsageFields
<1>11. CASE action = "get_traffic"
  BY <1>11 DEF Lists, TrafficFields
<1>12. CASE action = "get_accountsettings"
  BY <1>12 DEF Lists, SettingsFields, Links
<1>13. CASE action = "get_accountresources"
  BY <1>13 DEF Lists, QuotaFields
<1>14. action \in {"get_accounts", "get_server_information", "get_dns_settings", "get_domains",
                   "get_topleveldomains", "get_subdomains", "get_softwareinstall",
                   "get_mailstandardfilter", "get_space", "get_space_usage", "get_traffic",
                   "get_accountsettings", "get_accountresources"}
  BY DEF Actions, Lists
<1> QED
  BY <1>1, <1>2, <1>3, <1>4, <1>5, <1>6, <1>7, <1>8, <1>9, <1>10, <1>11, <1>12, <1>13, <1>14

\* The numbers of an entry are numbers its row has.
Numbers(entry, row, fields) ==
    /\ \A k \in fields.strict : entry[k] \in NumbersUnder(row, k)
    /\ \A k \in fields.ints : entry[k] \in NumbersUnder(row, k) \cup {0}

\* They are, of what DecodeEntry accepts.
LEMMA EntryTrue ==
    ASSUME NEW fields, Apart(fields), NEW e, NEW v,
           v = Unmarshal5(e), v.kind = "map", Listed(e), DecodeEntry(fields, v).ok
    PROVE  Numbers(DecodeEntry(fields, v).entry, e, fields)
<1> DEFINE entry == DecodeEntry(fields, v).entry
<1>1. \A k \in fields.strict : MapIntStrict(v, k).ok
  BY DEF DecodeEntry
<1>2. ASSUME NEW k \in fields.strict PROVE entry[k] \in NumbersUnder(e, k)
  <2>1. entry[k] = MapIntStrict(v, k).n
    BY <1>2 DEF DecodeEntry, AllOf, Apart
  <2> QED
    BY <1>1, <1>2, <2>1, NumberRead
<1>3. ASSUME NEW k \in fields.ints PROVE entry[k] \in NumbersUnder(e, k) \cup {0}
  <2>1. entry[k] = MapInt(v, k)
    BY <1>3 DEF DecodeEntry, AllOf, Apart
  <2> QED
    BY <2>1, NumberRead
<1> QED
  BY <1>2, <1>3 DEF Numbers

\* The same of the items of an answer.
RowsListed(e) == \A i \in DOMAIN e.items : Listed(e.items[i].value)

\* Every row of an answer is an entry, in its place.
EntriesOf(entries, e, fields) ==
    /\ DOMAIN entries = DOMAIN e.items
    /\ \A i \in DOMAIN e.items : Numbers(entries[i], e.items[i].value, fields)

\* Entries keeps the rows and their order, or refuses.
LEMMA EntriesTrue ==
    ASSUME NEW fields, Apart(fields), NEW e, NEW rows, RowsListed(e),
           DOMAIN rows = DOMAIN e.items,
           \A i \in DOMAIN e.items :
              rows[i] = Unmarshal5(e.items[i].value) /\ rows[i].kind = "map",
           Entries(fields, rows).ok
    PROVE  EntriesOf(Entries(fields, rows).entries, e, fields)
<1>1. Refused.ok = FALSE
  BY DEF Refused
<1> DEFINE entries == [i \in DOMAIN rows |-> DecodeEntry(fields, rows[i]).entry]
<1>2. (\A i \in DOMAIN rows : DecodeEntry(fields, rows[i]).ok)
      /\ Entries(fields, rows).entries = entries
  BY <1>1 DEF Entries
<1>3. ASSUME NEW i \in DOMAIN e.items PROVE Numbers(entries[i], e.items[i].value, fields)
  <2>1. DecodeEntry(fields, rows[i]).ok /\ entries[i] = DecodeEntry(fields, rows[i]).entry
    BY <1>2
  <2> QED
    BY <2>1, EntryTrue DEF RowsListed
<1> QED
  BY <1>2, <1>3 DEF EntriesOf

\* So do the decoders of a list,
LEMMA ListTold ==
    ASSUME NEW fields, Apart(fields), NEW e, NEW v, v = Unmarshal6(e), RowsListed(e),
           DecodeList(fields, v).ok
    PROVE  EntriesOf(DecodeList(fields, v).entries, e, fields)
<1>1. Refused.ok = FALSE
  BY DEF Refused
<1> DEFINE rows == DecodeArray(v).rows
<1>2. DecodeArray(v).ok /\ DecodeList(fields, v) = Entries(fields, rows)
  BY <1>1 DEF DecodeList
<1>3. v.kind = "array" /\ \A i \in DOMAIN v.items : v.items[i].value.kind = "map"
  BY <1>2 DEF DecodeArray
<1>4. rows = [i \in DOMAIN v.items |-> v.items[i].value]
  BY DEF DecodeArray
<1>5. DOMAIN v.items = DOMAIN e.items
      /\ \A i \in DOMAIN e.items : v.items[i].value = Unmarshal5(e.items[i].value)
  BY <1>3, InfoRead
<1>6. /\ DOMAIN rows = DOMAIN e.items
      /\ \A i \in DOMAIN e.items :
            rows[i] = Unmarshal5(e.items[i].value) /\ rows[i].kind = "map"
  BY <1>3, <1>4, <1>5
<1> HIDE DEF rows
<1> QED
  BY <1>2, <1>6, EntriesTrue

\* (traffic has its own fields)
LEMMA TrafficApart == Apart(TrafficFields)
BY DEF Apart, TrafficFields, Fields

\* of traffic,
LEMMA TrafficTold ==
    ASSUME NEW e, NEW v, v = Unmarshal6(e), RowsListed(e), DecodeTraffic(v).ok
    PROVE  EntriesOf(DecodeTraffic(v).entries, e, TrafficFields)
<1>1. Refused.ok = FALSE
  BY DEF Refused
<1> DEFINE rows == [i \in DOMAIN v.items |-> v.items[i].value]
<1>2. /\ v.kind = "map" /\ \A i \in DOMAIN rows : rows[i].kind = "map"
      /\ DecodeTraffic(v) = Entries(TrafficFields, rows)
  BY <1>1 DEF DecodeTraffic
<1>3. DOMAIN v.items = DOMAIN e.items
      /\ \A i \in DOMAIN e.items : v.items[i].value = Unmarshal5(e.items[i].value)
  BY <1>2, InfoRead
<1>4. /\ DOMAIN rows = DOMAIN e.items
      /\ \A i \in DOMAIN e.items :
            rows[i] = Unmarshal5(e.items[i].value) /\ rows[i].kind = "map"
  BY <1>2, <1>3
<1> HIDE DEF rows
<1> QED
  BY <1>2, <1>4, EntriesTrue, TrafficApart

\* The settings of an account: those of the first item of that name.
SettingsIn(e) ==
    LET at == {i \in DOMAIN e.items : e.items[i].key = "settings"}
    IN  e.items[CHOOSE i \in at : \A j \in at : i <= j].value

\* DecodeAccountSettings makes one entry of the first settings.
LEMMA SettingsTold ==
    ASSUME NEW e, NEW v, v = Unmarshal6(e), Listed(e), RowsListed(e),
           DecodeAccountSettings(v).ok
    PROVE  /\ DOMAIN DecodeAccountSettings(v).entries = {1}
           /\ Numbers(DecodeAccountSettings(v).entries[1], SettingsIn(e), SettingsFields)
<1>1. Refused.ok = FALSE /\ Nil.kind = "nil"
  BY DEF Refused, Nil, Value
<1> DEFINE settings == Get(v, "settings")
           at == {i \in DOMAIN e.items : e.items[i].key = "settings"}
           first == CHOOSE i \in at : \A j \in at : i <= j
           found == {i \in DOMAIN v.items : v.items[i].key = "settings"}
           read == DecodeEntry(SettingsFields, settings)
<1>2. settings.kind = "map"
  BY <1>1 DEF DecodeAccountSettings
<1>3. /\ v.kind = "map" /\ found # {}
      /\ settings = v.items[CHOOSE i \in found : \A j \in found : i <= j].value
  BY <1>1, <1>2 DEF Get
<1>4. /\ DOMAIN v.items = DOMAIN e.items
      /\ \A i \in DOMAIN e.items : /\ v.items[i].key = e.items[i].key
                                   /\ v.items[i].value = Unmarshal5(e.items[i].value)
  BY <1>3, InfoRead
<1>5. found = at
  BY <1>4
<1>6. at # {} /\ settings = v.items[first].value
  BY <1>3, <1>5
<1>7. first \in DOMAIN e.items
  <2>1. at \subseteq Nat /\ at \subseteq DOMAIN e.items
    BY DEF Listed
  <2> HIDE DEF at
  <2> QED
    BY <1>6, <2>1, Least
<1>8. settings = Unmarshal5(SettingsIn(e)) /\ Listed(SettingsIn(e))
  BY <1>4, <1>6, <1>7 DEF SettingsIn, RowsListed
<1>9. Apart(SettingsFields) /\ read.ok
  <2>1. Apart(SettingsFields)
    BY DEF Apart, SettingsFields, Fields, Links
  <2>2. SettingsFields.strict = {}
    BY DEF SettingsFields, Fields
  <2> QED
    BY <2>1, <2>2 DEF DecodeEntry
<1>10. Numbers(read.entry, SettingsIn(e), SettingsFields)
  BY <1>2, <1>8, <1>9, EntryTrue
<1> DEFINE entries == DecodeAccountSettings(v).entries
<1>11. entries = <<[k \in AllOf(SettingsFields) \cup {"user_prefs", "ssh_fingerprints"} |->
                      CASE k = "user_prefs" -> decodeUserPrefs(settings)
                        [] k = "ssh_fingerprints" -> decodeFingerprints(settings)
                        [] OTHER -> read.entry[k]]>>
  BY <1>2 DEF DecodeAccountSettings
<1>12. SettingsFields.strict = {} /\ SettingsFields.ints = {"logage"}
  BY DEF SettingsFields, Fields
<1>13. entries[1]["logage"] = read.entry["logage"]
  BY <1>11, <1>12 DEF AllOf
<1> HIDE DEF settings, read, entries
<1>14. Numbers(entries[1], SettingsIn(e), SettingsFields)
  BY <1>10, <1>12, <1>13 DEF Numbers
<1>15. DOMAIN entries = {1}
  BY <1>11
<1> QED
  BY <1>14, <1>15 DEF entries

\* The documents of the model have at most two quotas.
Paired(e) == e.type = "Array" \/ DOMAIN e.items = {1, 2}

\* DecodeAccountResources makes a quota of the last of a name, or zero of no Map.
LEMMA ResourcesTold ==
    ASSUME NEW e, NEW v, v = Unmarshal6(e), RowsListed(e), Paired(e),
           DecodeAccountResources(v).ok
    PROVE  /\ DOMAIN DecodeAccountResources(v).entries = {1}
           /\ \A r \in Resources : QuotaTold(DecodeAccountResources(v).entries[1][r], e, r)
<1>1. Refused.ok = FALSE /\ Nil.kind = "nil"
  BY DEF Refused, Nil, Value
<1> DEFINE entries == DecodeAccountResources(v).entries
           quotas == [r \in Resources |-> decodeQuota(Latest(v, r)).entry]
<1>2. /\ v.kind = "map" /\ \A i \in DOMAIN v.items : decodeQuota(v.items[i].value).ok
      /\ entries = <<quotas>>
  BY <1>1 DEF DecodeAccountResources
<1>3. /\ ~e.nil /\ classifyType(e.type) = "map" /\ DOMAIN v.items = DOMAIN e.items
      /\ \A i \in DOMAIN e.items : /\ v.items[i].key = e.items[i].key
                                   /\ v.items[i].value = Unmarshal5(e.items[i].value)
                                   /\ v.items[i].value # Malformed
  BY <1>2, InfoRead
<1>4. DOMAIN e.items = {1, 2}
  BY <1>3 DEF Paired, classifyType
<1>5. ASSUME NEW r \in Resources PROVE QuotaTold(decodeQuota(Latest(v, r)).entry, e, r)
  <2> DEFINE at == {i \in DOMAIN e.items : e.items[i].key = r}
  <2>1. at = {i \in DOMAIN v.items : v.items[i].key = r}
    BY <1>3
  <2>2. CASE at = {}
    <3>1. Latest(v, r) = Nil
      BY <2>1, <2>2 DEF Latest
    <3> QED
      BY <1>1, <2>2, <3>1 DEF QuotaTold, decodeQuota
  <2>3. CASE at # {}
    <3> DEFINE last == CHOOSE i \in at : \A j \in at : i >= j
               row == v.items[last].value
               sentRow == e.items[last].value
    <3>1. Latest(v, r) = row
      BY <2>1, <2>3 DEF Latest
    <3>2. last \in at
      <4>1. at \subseteq {1, 2}
        BY <1>4
      <4> HIDE DEF at
      <4>2. \E i \in at : \A j \in at : i >= j
        <5>1. ASSUME 2 \in at PROVE \E i \in at : \A j \in at : i >= j
          BY <4>1, <5>1
        <5>2. ASSUME 2 \notin at PROVE \E i \in at : \A j \in at : i >= j
          <6>1. at = {1}
            BY <2>3, <4>1, <5>2
          <6> QED
            BY <6>1
        <5> QED
          BY <5>1, <5>2
      <4> QED
        BY <4>2
    <3>3. /\ row = Unmarshal5(sentRow) /\ row # Malformed /\ Listed(sentRow)
          /\ decodeQuota(row).ok
      BY <1>2, <1>3, <3>2 DEF RowsListed
    <3>4. CASE row.kind = "map"
      <4>1. Apart(QuotaFields)
        BY DEF Apart, QuotaFields, Fields
      <4>2. decodeQuota(row) = DecodeEntry(QuotaFields, row)
        BY <3>4 DEF decodeQuota
      <4>3. Numbers(decodeQuota(row).entry, sentRow, QuotaFields)
        BY <3>3, <3>4, <4>1, <4>2, EntryTrue
      <4>4. Faithful(decodeQuota(row).entry, sentRow, QuotaFields)
        BY <4>3 DEF Numbers, Faithful
      <4> QED
        BY <3>1, <3>2, <4>4 DEF QuotaTold
    <3>5. CASE row.kind # "map"
      <4>1. decodeQuota(row).entry = ZeroQuota
        BY <3>5 DEF decodeQuota
      <4>2. sentRow.nil \/ sentRow.type # "Map"
        BY <3>3, <3>5, RowKind
      <4> QED
        BY <3>1, <3>2, <4>1, <4>2 DEF QuotaTold
    <3> QED
      BY <3>4, <3>5
  <2> QED
    BY <2>2, <2>3
<1>6. DOMAIN entries = {1} /\ entries[1] = quotas
  BY <1>2
<1>7. \A r \in Resources : QuotaTold(quotas[r], e, r)
  BY <1>5
<1> QED
  BY <1>6, <1>7

\* The entries say what the ReturnInfo e says.
Told(e, entries) ==
    IF action = "get_accountresources"
    THEN DOMAIN entries = {1} /\ \A r \in Resources : QuotaTold(entries[1][r], e, r)
    ELSE /\ DOMAIN entries = DOMAIN RowsIn(e)
         /\ \A i \in DOMAIN RowsIn(e) : Numbers(entries[i], RowsIn(e)[i], FieldsOf)

\* Every decoder tells what it was given.
LEMMA DecodedTold ==
    ASSUME NEW e, NEW v, action \in Actions, v = Unmarshal6(e), Listed(e), RowsListed(e),
           action = "get_accountresources" => Paired(e), Decoded(v).ok
    PROVE  Told(e, Decoded(v).entries)
<1>1. CASE action \in DOMAIN Lists
  <2>1. action \notin {"get_traffic", "get_accountsettings", "get_accountresources"}
    BY <1>1 DEF Lists
  <2>2. Decoded(v) = DecodeList(Lists[action], v)
    BY <1>1, <2>1 DEF Decoded
  <2>3. FieldsOf = Lists[action]
    BY <1>1, <2>1 DEF FieldsOf
  <2>4. EntriesOf(Decoded(v).entries, e, FieldsOf)
    BY <2>2, <2>3, ListTold, FieldsApart
  <2>5. RowsIn(e) = [i \in DOMAIN e.items |-> e.items[i].value]
    BY <2>1 DEF RowsIn
  <2> QED
    BY <2>1, <2>4, <2>5 DEF Told, EntriesOf
<1>2. CASE action = "get_traffic"
  <2>1. action \notin DOMAIN Lists
    BY <1>2 DEF Lists
  <2>2. Decoded(v) = DecodeTraffic(v) /\ FieldsOf = TrafficFields
    BY <1>2, <2>1 DEF Decoded, FieldsOf
  <2>3. EntriesOf(Decoded(v).entries, e, FieldsOf)
    BY <2>2, TrafficTold
  <2>4. RowsIn(e) = [i \in DOMAIN e.items |-> e.items[i].value]
    BY <1>2 DEF RowsIn
  <2> QED
    BY <1>2, <2>3, <2>4 DEF Told, EntriesOf
<1>3. CASE action = "get_accountsettings"
  <2>1. action \notin DOMAIN Lists
    BY <1>3 DEF Lists
  <2>2. Decoded(v) = DecodeAccountSettings(v) /\ FieldsOf = SettingsFields
    BY <1>3, <2>1 DEF Decoded, FieldsOf
  <2>3. /\ DOMAIN Decoded(v).entries = {1}
        /\ Numbers(Decoded(v).entries[1], SettingsIn(e), FieldsOf)
    BY <2>2, SettingsTold
  <2>4. RowsIn(e) = <<SettingsIn(e)>>
    BY <1>3 DEF RowsIn, SettingsIn
  <2> QED
    BY <1>3, <2>3, <2>4 DEF Told
<1>4. CASE action = "get_accountresources"
  <2>1. action \notin DOMAIN Lists
    BY <1>4 DEF Lists
  <2>2. Decoded(v) = DecodeAccountResources(v)
    BY <1>4, <2>1 DEF Decoded
  <2> QED
    BY <1>4, <2>2, ResourcesTold DEF Told
<1> QED
  BY <1>1, <1>2, <1>3, <1>4 DEF Actions

\* What is no list has no entries.
LEMMA NoListRefused ==
    ASSUME NEW v, action \in Actions, Decoded(v).ok
    PROVE  v.kind \in {"map", "array"}
<1>1. Refused.ok = FALSE /\ Nil.kind = "nil"
  BY DEF Refused, Nil, Value
<1>2. CASE action \in DOMAIN Lists
  <2>1. action \notin {"get_traffic", "get_accountsettings", "get_accountresources"}
    BY <1>2 DEF Lists
  <2>2. Decoded(v) = DecodeList(Lists[action], v)
    BY <1>2, <2>1 DEF Decoded
  <2> QED
    BY <1>1, <2>2 DEF DecodeList, DecodeArray
<1>3. CASE action \notin DOMAIN Lists
  <2>1. CASE action = "get_traffic"
    BY <1>1, <1>3, <2>1 DEF Decoded, DecodeTraffic
  <2>2. CASE action = "get_accountsettings"
    BY <1>1, <1>3, <2>2 DEF Decoded, DecodeAccountSettings, Get
  <2>3. CASE action = "get_accountresources"
    BY <1>1, <1>3, <2>3 DEF Decoded, DecodeAccountResources
  <2> QED
    BY <1>3, <2>1, <2>2, <2>3 DEF Actions
<1> QED
  BY <1>2, <1>3

\* The answers there are: a ReturnInfo whose rows have their items in order, one
\* that is no array where there should be one, or a document with no list in it.
Shaped(e) ==
    \/ Listed(e) /\ RowsListed(e) /\ (action = "get_accountresources" => Paired(e))
    \/ action \in DOMAIN Lists /\ e.type = "Map"

\* No list at all: an error, a fault, or an answer without a ReturnInfo.
Void(document) ==
    ~(Decode(document).fate = "ok" /\ Decode(document).info.kind \in {"map", "array"})

\* The rows of the model have their items in order, also with one appended;
LEMMA RowsAreListed == Listed(GoodRow) /\ \A r \in Rows : Listed(r)
<1>1. ASSUME NEW keys, NEW value PROVE Listed(Row(keys, value))
  <2>1. \E n : DOMAIN Row(keys, value).items = 1..n
    BY DEF Row, Element
  <2> QED
    BY <2>1 DEF Listed
<1>2. Listed(GoodRow)
  BY <1>1 DEF GoodRow
<1>3. ASSUME NEW x PROVE Listed([GoodRow EXCEPT !.items = Append(@, x)])
  <2>1. DOMAIN Append(GoodRow.items, x) \subseteq Nat
    OBVIOUS
  <2>2. "items" \in DOMAIN GoodRow
    BY DEF GoodRow, Row, Element
  <2> QED
    BY <2>1, <2>2 DEF Listed
<1>4. ASSUME NEW r \in Rows PROVE Listed(r)
  <2> DEFINE keys == AllOf(FieldsOf)
             good == [k \in keys |-> Good(k, FieldsOf)]
  <2>1. PICK k \in Varied :
           \/ r = Row(keys \ {k}, good)
           \/ \E f \in Forms : r = Row(keys, [good EXCEPT ![k] = f])
           \/ \E f \in Forms : r = [GoodRow EXCEPT !.items = Append(@, Item(k, f))]
    BY DEF Rows
  <2> QED
    BY <1>1, <1>3, <2>1
<1> QED
  BY <1>2, <1>4

\* so have elements without items,
LEMMA PlainListed ==
    ASSUME NEW type, NEW text
    PROVE  Listed(Element(type, text, <<>>))
BY DEF Listed, Element

\* and nil.
LEMMA NilListed == Listed(NilElement)
BY DEF Listed, NilElement, Element

\* A list of one or two rows.
LEMMA PairListed ==
    ASSUME NEW type, NEW a, NEW b, NEW k, NEW l, Listed(a), Listed(b)
    PROVE  LET e == Element(type, "", <<Item(k, a), Item(l, b)>>)
           IN  Listed(e) /\ RowsListed(e) /\ DOMAIN e.items = {1, 2}
<1> DEFINE items == <<Item(k, a), Item(l, b)>>
           e == Element(type, "", items)
<1>1. DOMAIN items = {1, 2} /\ items[1].value = a /\ items[2].value = b
  BY DEF Item
<1> HIDE DEF items
<1>2. e.items = items
  BY DEF Element
<1>3. \A i \in DOMAIN items : Listed(items[i].value)
  BY <1>1
<1> HIDE DEF e
<1>4. Listed(e) /\ RowsListed(e) /\ DOMAIN e.items = {1, 2}
  BY <1>1, <1>2, <1>3 DEF Listed, RowsListed
<1> QED
  BY <1>4 DEF e, items

\* A list of one row.
LEMMA OneListed ==
    ASSUME NEW type, NEW a, NEW k, Listed(a)
    PROVE  LET e == Element(type, "", <<Item(k, a)>>) IN Listed(e) /\ RowsListed(e)
<1> DEFINE items == <<Item(k, a)>>
           e == Element(type, "", items)
<1>1. DOMAIN items = {1} /\ items[1].value = a
  BY DEF Item
<1> HIDE DEF items
<1>2. e.items = items
  BY DEF Element
<1>3. \A i \in DOMAIN items : Listed(items[i].value)
  BY <1>1
<1> HIDE DEF e
<1>4. Listed(e) /\ RowsListed(e)
  BY <1>1, <1>2, <1>3 DEF Listed, RowsListed
<1> QED
  BY <1>4 DEF e, items

\* Sequences of none
LEMMA NoItems == DOMAIN <<>> = {}
OBVIOUS

\* and of one.
LEMMA Single == ASSUME NEW x PROVE DOMAIN <<x>> = {1} /\ <<x>>[1] = x
OBVIOUS

\* Elements made without items have none.
LEMMA EmptyItems ==
    ASSUME NEW type, NEW text
    PROVE  DOMAIN Element(type, text, <<>>).items = {} /\ DOMAIN NilElement.items = {}
<1>1. DOMAIN <<>> = {}
  OBVIOUS
<1>2. Element(type, text, <<>>).items = <<>>
  BY DEF Element
<1>3. NilElement.items = <<>>
  BY DEF NilElement, Element
<1> QED
  BY <1>1, <1>2, <1>3

\* Arrays of rows.
LEMMA ArrayListed ==
    ASSUME NEW rows, DOMAIN rows \subseteq Nat, \A i \in DOMAIN rows : Listed(rows[i])
    PROVE  Listed(InArray(rows)) /\ RowsListed(InArray(rows)) /\ InArray(rows).type = "Array"
<1> DEFINE items == [i \in DOMAIN rows |-> Item("", rows[i])]
<1>1. DOMAIN items \subseteq Nat /\ \A i \in DOMAIN items : items[i].value = rows[i]
  BY DEF Item
<1> HIDE DEF items
<1>2. InArray(rows) = Element("Array", "", items)
  BY DEF InArray, items
<1>3. InArray(rows).items = items /\ InArray(rows).type = "Array"
  <2>1. Element("Array", "", items).items = items /\ Element("Array", "", items).type = "Array"
    BY DEF Element
  <2> QED
    BY <1>2, <2>1
<1>4. \A i \in DOMAIN items : Listed(items[i].value)
  BY <1>1 DEF items
<1> QED
  BY <1>1, <1>3, <1>4 DEF Listed, RowsListed

\* The answer to commands with unusual setups.
LEMMA GoodShaped == Shaped(InArray(<<GoodRow>>))
<1>1. DOMAIN <<GoodRow>> \subseteq Nat /\ \A i \in DOMAIN <<GoodRow>> : Listed(<<GoodRow>>[i])
  BY RowsAreListed
<1> QED
  BY <1>1, ArrayListed DEF Shaped, Paired

\* Every ReturnInfo of the model is as Shaped says.
LEMMA InfosShaped ==
    ASSUME action \in Actions, NEW e \in Infos
    PROVE  Shaped(e)
<1>1. /\ Listed(GoodRow) /\ \A r \in Rows \cup {NilElement} : Listed(r)
      /\ Listed(Element("string", "word", <<>>))
  BY RowsAreListed, PlainListed, NilListed
<1>2. Listed(Element("Map", "", <<>>)) /\ RowsListed(Element("Map", "", <<>>))
  BY PlainListed, EmptyItems DEF RowsListed
<1>3. CASE action \in DOMAIN Lists
  <2>1. action \notin {"get_traffic", "get_accountsettings", "get_accountresources"}
    BY <1>3 DEF Lists
  <2>0. e \in ListInfos
    BY <1>3, <2>1 DEF Infos
  <2>2. \/ e = InArray(<<>>) \/ e = GoodRow \/ \E r \in Rows : e = InArray(<<r>>)
        \/ \E r \in Rows \cup {Element("string", "word", <<>>)} : e = InArray(<<GoodRow, r>>)
    BY <2>0 DEF ListInfos
  <2>3. CASE e = InArray(<<>>)
    <3>1. DOMAIN <<>> = {}
      OBVIOUS
    <3> QED
      BY <2>1, <2>3, <3>1, ArrayListed DEF Shaped
  <2>4. CASE e = GoodRow
    <3>1. GoodRow.type = "Map"
      BY DEF GoodRow, Row, Element
    <3> QED
      BY <1>3, <2>4, <3>1 DEF Shaped
  <2>5. ASSUME NEW r \in Rows, e = InArray(<<r>>) PROVE Shaped(e)
    <3>1. DOMAIN <<r>> \subseteq Nat /\ \A i \in DOMAIN <<r>> : Listed(<<r>>[i])
      BY <1>1
    <3> QED
      BY <2>1, <2>5, <3>1, ArrayListed DEF Shaped
  <2>6. ASSUME NEW r, Listed(r), e = InArray(<<GoodRow, r>>) PROVE Shaped(e)
    <3>1. DOMAIN <<GoodRow, r>> \subseteq Nat
          /\ \A i \in DOMAIN <<GoodRow, r>> : Listed(<<GoodRow, r>>[i])
      BY <1>1, <2>6
    <3> QED
      BY <2>1, <2>6, <3>1, ArrayListed DEF Shaped
  <2> QED
    BY <1>1, <2>2, <2>3, <2>4, <2>5, <2>6
<1>4. ASSUME e = InArray(<<GoodRow>>) PROVE Shaped(e)
  BY <1>4, GoodShaped
<1>5. CASE action = "get_traffic"
  <2>1. action \notin DOMAIN Lists
    BY <1>5 DEF Lists
  <2>0. e \in TrafficInfos
    BY <1>5, <2>1 DEF Infos
  <2>2. \/ e = Element("Map", "", <<>>) \/ e = InArray(<<GoodRow>>)
        \/ \E r \in Rows \cup {NilElement} :
              e = Element("Map", "", <<Item("0", GoodRow), Item("01", r)>>)
    BY <2>0 DEF TrafficInfos
  <2>3. ASSUME NEW r, Listed(r), e = Element("Map", "", <<Item("0", GoodRow), Item("01", r)>>)
        PROVE  Listed(e) /\ RowsListed(e)
    BY <1>1, <2>3, PairListed
  <2> QED
    BY <1>1, <1>2, <1>4, <1>5, <2>2, <2>3 DEF Shaped
<1>6. CASE action = "get_accountsettings"
  <2>1. action \notin DOMAIN Lists
    BY <1>6 DEF Lists
  <2>0. e \in SettingsInfos
    BY <1>6, <2>1 DEF Infos
  <2>2. \/ e = Element("Map", "", <<Item("preferences", GoodRow)>>)
        \/ \E r \in Rows \cup {NilElement} : e = Element("Map", "", <<Item("settings", r)>>)
    BY <2>0 DEF SettingsInfos
  <2>3. Listed(e) /\ RowsListed(e)
    BY <1>1, <2>2, OneListed
  <2> QED
    BY <1>6, <2>3 DEF Shaped
<1>7. CASE action = "get_accountresources"
  <2>1. action \notin DOMAIN Lists
    BY <1>7 DEF Lists
  <2>0. e \in QuotaInfos
    BY <1>7, <2>1 DEF Infos
  <2>2. \/ e = InArray(<<GoodRow>>)
        \/ \E k, r : /\ Listed(r)
                     /\ e = Element("Map", "", <<Item("max_domain", GoodRow), Item(k, r)>>)
    <3>1. \/ e = InArray(<<GoodRow>>)
          \/ \E k \in {"max_account", "max_domain", "max_new"}, r \in Rows \cup {NilElement} :
                e = Element("Map", "", <<Item("max_domain", GoodRow), Item(k, r)>>)
      BY <2>0 DEF QuotaInfos
    <3> QED
      BY <1>1, <3>1, Zenon
  <2>3. ASSUME NEW k, NEW r, Listed(r),
               e = Element("Map", "", <<Item("max_domain", GoodRow), Item(k, r)>>)
        PROVE  Shaped(e)
    <3>1. Listed(e) /\ RowsListed(e) /\ DOMAIN e.items = {1, 2}
      BY <1>1, <2>3, PairListed
    <3> QED
      BY <3>1 DEF Shaped, Paired
  <2> QED
    BY <1>4, <2>2, <2>3
<1> QED
  BY <1>3, <1>5, <1>6, <1>7 DEF Actions

\* A list that is found in an envelope is the ReturnInfo of its Response.
LEMMA Within ==
    ASSUME NEW document, DOMAIN document.return.items \subseteq {1},
           1 \in DOMAIN document.return.items =>
              DOMAIN document.return.items[1].value.items \subseteq {1},
           ~Void(document)
    PROVE  LET return == document.return
               response == return.items[1].value
           IN  /\ document.body = "response" /\ classifyType(return.type) = "map"
               /\ 1 \in DOMAIN return.items /\ 1 \in DOMAIN response.items
               /\ Decode(document).info = Unmarshal6(response.items[1].value)
<1> DEFINE return == document.return
           response == return.items[1].value
           top == Unmarshal(return)
           body == Unmarshal7(response)
<1>1. /\ Failed("error").fate = "error" /\ Failed("fault").fate = "fault"
      /\ Nil.kind = "nil"
  BY DEF Failed, Nil, Value
<1>2. document.body = "response" /\ Decode(document) = buildResponse(top)
      /\ buildResponse(top).fate = "ok" /\ buildResponse(top).info.kind \in {"map", "array"}
  <2>1. Decode(document).fate = "ok" /\ Decode(document).info.kind \in {"map", "array"}
    BY DEF Void
  <2>2. document.body = "response"
    BY <1>1, <2>1 DEF Decode
  <2>3. Decode(document) = buildResponse(top)
    BY <2>2 DEF Decode
  <2> QED
    BY <2>1, <2>2, <2>3
<1> DEFINE at == {i \in DOMAIN top.items : top.items[i].key = "Response"}
<1>3. top.kind = "map" /\ \A i \in at : top.items[i].value.kind = "map"
  BY <1>1, <1>2 DEF buildResponse
<1>4. at # {}
  <2>1. ASSUME at = {} PROVE buildResponse(top).info = Nil
    BY <1>3, <2>1 DEF buildResponse
  <2> QED
    BY <1>1, <1>2, <2>1
<1>5. buildResponse(top) = buildResponseBody(Latest(top, "Response"))
  BY <1>3, <1>4 DEF buildResponse
<1>6. /\ classifyType(return.type) = "map" /\ DOMAIN top.items = DOMAIN return.items
      /\ \A i \in DOMAIN return.items : top.items[i].value = Unmarshal7(return.items[i].value)
  BY <1>3, ReturnRead
<1>7. at = {1} /\ 1 \in DOMAIN return.items
  BY <1>4, <1>6
<1>8. Latest(top, "Response") = body /\ body.kind = "map"
  <2>1. (CHOOSE i \in {1} : \A j \in {1} : i >= j) = 1
    OBVIOUS
  <2>2. Latest(top, "Response") = top.items[1].value
    BY <1>7, <2>1 DEF Latest
  <2> QED
    BY <1>3, <1>6, <1>7, <2>2
<1>9. /\ DOMAIN body.items = DOMAIN response.items
      /\ \A i \in DOMAIN response.items :
            body.items[i].value = Unmarshal6(response.items[i].value)
  BY <1>8, ResponseRead
<1> DEFINE where == {i \in DOMAIN body.items : body.items[i].key = "ReturnInfo"}
<1>10. Decode(document).info = Latest(body, "ReturnInfo")
  BY <1>2, <1>5, <1>8 DEF buildResponseBody
<1>11. where # {}
  <2>1. ASSUME where = {} PROVE Latest(body, "ReturnInfo") = Nil
    BY <2>1 DEF Latest
  <2> QED
    BY <1>1, <1>2, <1>10, <2>1
<1>12. where = {1} /\ 1 \in DOMAIN response.items
  BY <1>7, <1>9, <1>11
<1>13. Latest(body, "ReturnInfo") = Unmarshal6(response.items[1].value)
  <2>1. (CHOOSE i \in {1} : \A j \in {1} : i >= j) = 1
    OBVIOUS
  <2>2. Latest(body, "ReturnInfo") = body.items[1].value
    BY <1>12, <2>1 DEF Latest
  <2> QED
    BY <1>9, <1>12, <2>2
<1> QED
  BY <1>2, <1>6, <1>7, <1>10, <1>12, <1>13

\* Envelopes with nothing in them.
LEMMA EmptyVoid ==
    ASSUME NEW document,
           \/ \E b \in {"none", "empty", "fault", "bare"} : document = Document(b, NilElement)
           \/ document \in {Returning(<<>>), Document("response", InArray(<<>>)),
                            Returning(<<Item("Response", NilElement)>>),
                            Returning(<<Item("Response", Element("Map", "", <<>>))>>)}
    PROVE  Void(document)
<1>2. ASSUME NEW b \in {"none", "empty", "fault", "bare"}, document = Document(b, NilElement)
      PROVE  Void(document)
  <2>1. document.body = b /\ document.return = NilElement
    BY <1>2 DEF Document
  <2> QED
    BY <2>1, EmptyItems, Within
<1>3. CASE document = Returning(<<>>)
  <2>1. document.return = Element("Map", "", <<>>)
    BY <1>3 DEF Returning, Document
  <2> QED
    BY <2>1, EmptyItems, Within
<1>4. CASE document = Document("response", InArray(<<>>))
  <2> DEFINE items == [i \in DOMAIN <<>> |-> Item("", <<>>[i])]
  <2>1. DOMAIN items = {}
    BY NoItems
  <2> HIDE DEF items
  <2>2. document.return = Element("Array", "", items)
    BY <1>4 DEF InArray, Document, items
  <2>3. Element("Array", "", items).items = items
    BY DEF Element
  <2> QED
    BY <2>1, <2>2, <2>3, Within
<1>5. ASSUME NEW r, DOMAIN r.items = {}, document = Returning(<<Item("Response", r)>>)
      PROVE  Void(document)
  <2> DEFINE items == <<Item("Response", r)>>
  <2>1. DOMAIN items = {1} /\ items[1].value = r
    <3>1. Item("Response", r).value = r
      BY DEF Item
    <3>2. DOMAIN items = {1} /\ items[1] = Item("Response", r)
      BY Single
    <3> QED
      BY <3>1, <3>2
  <2> HIDE DEF items
  <2>2. document.return = Element("Map", "", items)
    BY <1>5 DEF Returning, Document, items
  <2>3. Element("Map", "", items).items = items
    BY DEF Element
  <2> QED
    BY <1>5, <2>1, <2>2, <2>3, Within
<1> QED
  BY <1>2, <1>3, <1>4, <1>5, EmptyItems

\* An envelope with a ReturnInfo in it is read down to that.
LEMMA RespondingRead ==
    ASSUME NEW e
    PROVE  /\ Responding(e).return.items[1].value.items[1].value = e
           /\ ~Void(Responding(e)) => Decode(Responding(e)).info = Unmarshal6(e)
<1> DEFINE items == <<Item("ReturnInfo", e)>>
           r == Element("Map", "", items)
           responses == <<Item("Response", r)>>
           document == Responding(e)
<1>1. DOMAIN items = {1} /\ items[1].value = e
  BY DEF Item
<1>2. r.items = items
  BY DEF Element
<1>3. DOMAIN responses = {1} /\ responses[1].value = r
  <2> HIDE DEF r
  <2> QED
    BY DEF Item
<1>4. document.return.items = responses
  <2>1. document = Document("response", Element("Map", "", responses))
    BY DEF Responding, Returning
  <2> HIDE DEF responses, document
  <2> QED
    BY <2>1 DEF Document, Element
<1> HIDE DEF items, r, responses, document
<1>5. document.return.items[1].value.items[1].value = e
  BY <1>1, <1>2, <1>3, <1>4
<1>6. ~Void(document) => Decode(document).info = Unmarshal6(e)
  BY <1>1, <1>2, <1>3, <1>4, Within
<1> QED
  BY <1>5, <1>6 DEF document

\* What the server sends is one of the two.
Known(document) == Void(document) \/ \E e : document = Responding(e) /\ Shaped(e)

\* Every document is.
LEMMA DocumentsKnown ==
    ASSUME action \in Actions, NEW document \in Documents
    PROVE  Known(document)
<1>1. CASE setup \notin Usual
  BY <1>1, GoodShaped DEF Documents, Known
<1>2. CASE setup \in Usual
  <2>1. \/ \E e \in Infos : document = Responding(e)
        \/ \E b \in {"none", "empty", "fault", "bare"} : document = Document(b, NilElement)
        \/ document \in {Returning(<<>>), Document("response", InArray(<<>>)),
                         Returning(<<Item("Response", NilElement)>>),
                         Returning(<<Item("Response", Element("Map", "", <<>>))>>)}
    BY <1>2 DEF Documents
  <2>2. ASSUME NEW e \in Infos, document = Responding(e) PROVE Known(document)
    BY <2>2, InfosShaped DEF Known
  <2>3. ASSUME ~ \E e \in Infos : document = Responding(e) PROVE Known(document)
    BY <2>1, <2>3, EmptyVoid DEF Known
  <2> QED
    BY <2>2, <2>3
<1> QED
  BY <1>1, <1>2

\* The ReturnInfo in an envelope.
InfoOf(document) == document.return.items[1].value.items[1].value

\* A document that has a list, decoded: the entries tell what the ReturnInfo says.
LEMMA AnswerTold ==
    ASSUME action \in Actions, NEW document, Known(document),
           Decode(document).fate = "ok", Decoded(Decode(document).info).ok
    PROVE  Told(InfoOf(document), Decoded(Decode(document).info).entries)
<1>1. ~Void(document)
  BY NoListRefused DEF Void
<1>2. PICK e : document = Responding(e) /\ Shaped(e)
  BY <1>1 DEF Known
<1>3. InfoOf(document) = e /\ Decode(document).info = Unmarshal6(e)
  BY <1>1, <1>2, RespondingRead DEF InfoOf
<1>4. CASE Listed(e) /\ RowsListed(e) /\ (action = "get_accountresources" => Paired(e))
  BY <1>3, <1>4, DecodedTold
<1>5. CASE action \in DOMAIN Lists /\ e.type = "Map"
  <2> DEFINE v == Unmarshal6(e)
  <2>1. Decoded(v).ok /\ Refused.ok = FALSE
    BY <1>3 DEF Refused
  <2>2. action \notin {"get_traffic", "get_accountsettings", "get_accountresources"}
    BY <1>5 DEF Lists
  <2>3. DecodeList(Lists[action], v).ok
    BY <1>5, <2>1, <2>2 DEF Decoded
  <2>4. v.kind = "array"
    BY <2>1, <2>3 DEF DecodeList, DecodeArray
  <2>5. v.kind = classifyType(e.type)
    BY <2>4, InfoRead
  <2> QED
    BY <1>5, <2>4, <2>5 DEF classifyType
<1> QED
  BY <1>2, <1>4, <1>5 DEF Shaped

\* What a command knows of the answer, where it is: the document it got, the
\* entries it made of it, and what it shows.
ShownInv ==
    /\ action \in Actions
    /\ pc # "exited" => exit = "none"
    /\ pc = "decode" => Known(sent)
    /\ pc = "render" => Told(InfoOf(sent), got.entries)
    /\ ShownIsSent

\* No table has a column for the password.
LEMMA NoPassword ==
    ASSUME action \in Actions
    PROVE  "account_password" \notin Columns
<1> USE DEF Columns
<1>1. CASE action = "get_accounts"
  BY <1>1 DEF AccountRow, AccountDetail
<1>2. CASE action = "get_domains"
  BY <1>2 DEF DomainRow, DomainDetail, AllOf, DomainFields, Fields, SSL
<1>3. CASE action = "get_subdomains"
  BY <1>3 DEF SubdomainRow, SubdomainDetail, AllOf, SubdomainFields, Fields, SSL
<1>4. CASE action = "get_softwareinstall"
  BY <1>4 DEF SoftwareInstallRow, SoftwareInstallDetail, AllOf, SoftwareInstallFields, Fields
<1>5. CASE action = "get_accountsettings"
  BY <1>5 DEF SettingsDetail
<1>6. CASE action = "get_space"
  BY <1>6 DEF SpaceRow, AllOf, SpaceFields, Fields
<1>7. CASE action = "get_space_usage"
  BY <1>7 DEF SpaceUsageRow
<1>8. CASE action = "get_traffic"
  BY <1>8 DEF TrafficRow, AllOf, TrafficFields, Fields
<1>9. CASE action = "get_accountresources"
  BY <1>9 DEF Resources
<1>10. ASSUME action \notin {"get_accounts", "get_domains", "get_subdomains",
                             "get_softwareinstall", "get_accountsettings", "get_space",
                             "get_space_usage", "get_traffic", "get_accountresources"}
       PROVE  Columns = AllOf(FieldsOf)
  BY <1>10
<1>11. CASE action = "get_server_information"
  BY <1>10, <1>11 DEF FieldsOf, Lists, AllOf, ServiceFields, Fields
<1>12. CASE action = "get_dns_settings"
  BY <1>10, <1>12 DEF FieldsOf, Lists, AllOf, RecordFields, Fields
<1>13. CASE action = "get_topleveldomains"
  BY <1>10, <1>13 DEF FieldsOf, Lists, AllOf, TLDFields, Fields
<1>14. CASE action = "get_mailstandardfilter"
  BY <1>10, <1>14 DEF FieldsOf, Lists, AllOf, StandardFilterFields, Fields
<1> QED
  BY <1>1, <1>2, <1>3, <1>4, <1>5, <1>6, <1>7, <1>8, <1>9, <1>11, <1>12, <1>13, <1>14
  DEF Actions, Lists

\* Leaving columns out leaves numbers as they are.
LEMMA NumbersFaithful ==
    ASSUME NEW entry, NEW row, NEW fields, Numbers(entry, row, fields), NEW C
    PROVE  Faithful(entry, row, fields) /\ Faithful([c \in C |-> entry[c]], row, fields)
<1>1. Faithful(entry, row, fields)
  BY DEF Numbers, Faithful
<1> DEFINE cut == [c \in C |-> entry[c]]
<1>2. DOMAIN cut = C /\ \A c \in C : cut[c] = entry[c]
  OBVIOUS
<1> HIDE DEF cut
<1>3. Faithful(cut, row, fields)
  BY <1>2 DEF Numbers, Faithful
<1> QED
  BY <1>1, <1>3 DEF cut

\* What is on the output, as a table or not.
LEMMA RenderShows ==
    ASSUME ShownInv, pc = "render",
           shown' = IF setup.output # "table" THEN got.entries
                    ELSE [i \in DOMAIN got.entries |-> [c \in Columns |-> got.entries[i][c]]],
           UNCHANGED <<action, setup, sent>>
    PROVE  ShownIsSent'
<1> DEFINE entries == got.entries
           e == InfoOf(sent)
           rows == RowsIn(e)
           output == shown'
<1>1. action \in Actions /\ Told(e, entries)
  BY DEF ShownInv
<1>2. \/ setup.output # "table" /\ output = entries
      \/ setup.output = "table"
         /\ output = [i \in DOMAIN entries |-> [c \in Columns |-> entries[i][c]]]
  OBVIOUS
<1>3. DOMAIN output = DOMAIN entries
  BY <1>2
<1>4. setup.output = "table" =>
         \A i \in DOMAIN output : "account_password" \notin DOMAIN output[i]
  BY <1>1, <1>2, NoPassword
<1>5. CASE action = "get_accountresources"
  <2>1. DOMAIN entries = {1} /\ \A r \in Resources : QuotaTold(entries[1][r], e, r)
    BY <1>1, <1>5 DEF Told
  <2>2. Columns = Resources
    BY <1>5 DEF Columns
  <2>3. \A r \in Resources : output[1][r] = entries[1][r]
    BY <1>2, <2>1, <2>2
  <2>4. \A r \in Resources : QuotaTold(output[1][r], e, r)
    BY <2>1, <2>3
  <2> QED
    BY <1>4, <1>5, <2>4 DEF ShownIsSent, InfoOf
<1>6. CASE action # "get_accountresources"
  <2>1. DOMAIN entries = DOMAIN rows
        /\ \A i \in DOMAIN rows : Numbers(entries[i], rows[i], FieldsOf)
    BY <1>1, <1>6 DEF Told
  <2>2. ASSUME NEW i \in DOMAIN rows PROVE Faithful(output[i], rows[i], FieldsOf)
    <3>1. output[i] = entries[i] \/ output[i] = [c \in Columns |-> entries[i][c]]
      BY <1>2, <2>1
    <3> QED
      BY <2>1, <3>1, NumbersFaithful
  <2>3. RowsIn(e)' = rows /\ FieldsOf' = FieldsOf
    BY DEF RowsIn, FieldsOf, InfoOf
  <2> QED
    BY <1>3, <1>4, <1>6, <2>1, <2>2, <2>3 DEF ShownIsSent, InfoOf
<1> QED
  BY <1>5, <1>6

\* ShownInv holds at the start,
LEMMA InitShown == Init => ShownInv
<1> SUFFICES ASSUME Init PROVE ShownInv
  OBVIOUS
<1>1. action \in Actions
  BY DEF Init, Actions, Lists
<1> QED
  BY <1>1 DEF Init, ShownInv, ShownIsSent

\* and every step keeps it.
LEMMA NextShown == ShownInv /\ [Next]_vars => ShownInv'
<1> SUFFICES ASSUME ShownInv, [Next]_vars PROVE ShownInv'
  OBVIOUS
<1>1. ASSUME action' = action, pc' # "decode", pc' # "render",
             pc' = "exited" => exit' # "ok", pc' # "exited" => exit' = exit,
             pc # "exited"
      PROVE  ShownInv'
  <2>1. ShownIsSent'
    <3>1. ~(pc' = "exited" /\ exit' = "ok")
      BY <1>1
    <3> QED
      BY <3>1, Zenon DEF ShownIsSent
  <2> QED
    BY <1>1, <2>1 DEF ShownInv
<1> USE DEF Goto, Exit
<1>2. CASE PreRun
  BY <1>1, <1>2 DEF PreRun
<1>3. CASE ResolveCreds
  <2> DEFINE r == Resolve(setup.file, setup.named, setup.flags, setup.env)
  <2>1. /\ pc = "resolve" /\ action' = action
        /\ IF r.ok THEN Goto("build") ELSE Exit("user")
    BY <1>3 DEF ResolveCreds
  <2> HIDE DEF r
  <2> QED
    BY <1>1, <2>1
<1>4. CASE BuildClient
  BY <1>1, <1>4 DEF BuildClient
<1>5. CASE Fetch
  BY <1>1, <1>5 DEF Fetch
<1>6. CASE LoadSession
  BY <1>1, <1>6 DEF LoadSession
<1>7. CASE Authenticate
  <2>1. /\ pc = "auth" /\ action' = action
        /\ IF token' = NoToken THEN Exit("api") ELSE Goto("call")
    BY <1>7 DEF Authenticate
  <2> QED
    BY <1>1, <2>1
<1>8. CASE Call
  <2>1. /\ pc = "call" /\ action' = action
        /\ \/ sent' \in Documents /\ Goto("decode")
           \/ Exit("api")
           \/ Goto("auth")
    BY <1>8 DEF Call
  <2>2. ASSUME sent' \in Documents, Goto("decode") PROVE ShownInv'
    <3>1. Known(sent')
      BY <2>2, DocumentsKnown DEF ShownInv
    <3>2. Known(sent)'
      BY <2>1, <3>1 DEF Known, Shaped
    <3> QED
      BY <2>1, <2>2, <3>2 DEF ShownInv, ShownIsSent
  <2> QED
    BY <1>1, <2>1, <2>2
<1>9. CASE DecodeAnswer
  <2> DEFINE answer == Decode(sent)
             result == Decoded(answer.info)
  <2>1. /\ pc = "decode" /\ UNCHANGED <<action, sent>>
        /\ \/ /\ answer.fate = "ok" /\ result.ok /\ got' = result /\ Goto("render")
           \/ Exit("api")
    BY <1>9 DEF DecodeAnswer
  <2>2. ASSUME answer.fate = "ok", result.ok, got' = result, Goto("render") PROVE ShownInv'
    <3>1. Told(InfoOf(sent), got'.entries)
      BY <2>1, <2>2, AnswerTold DEF ShownInv
    <3>2. Told(InfoOf(sent), got.entries)'
      BY <2>1, <3>1 DEF Told, RowsIn, FieldsOf, InfoOf
    <3> QED
      BY <2>1, <2>2, <3>2 DEF ShownInv, ShownIsSent
  <2> QED
    BY <1>1, <2>1, <2>2
<1>10. CASE Render
  <2>1. /\ pc = "render" /\ UNCHANGED <<action, setup, sent>>
        /\ \/ /\ shown' = IF setup.output # "table" THEN got.entries
                          ELSE [i \in DOMAIN got.entries |->
                                  [c \in Columns |-> got.entries[i][c]]]
              /\ Exit("ok")
           \/ Exit("user")
    BY <1>10 DEF Render
  <2>2. ASSUME shown' = IF setup.output # "table" THEN got.entries
                        ELSE [i \in DOMAIN got.entries |->
                                [c \in Columns |-> got.entries[i][c]]],
               Exit("ok")
        PROVE  ShownInv'
    <3>1. ShownIsSent'
      BY <2>1, <2>2, RenderShows
    <3> QED
      BY <2>1, <2>2, <3>1 DEF ShownInv
  <2> QED
    BY <1>1, <2>1, <2>2
<1>11. CASE UNCHANGED vars
  <2>1. /\ Known(sent)' = Known(sent)
        /\ Told(InfoOf(sent), got.entries)' = Told(InfoOf(sent), got.entries)
    BY <1>11 DEF vars, Known, Shaped, Told, RowsIn, FieldsOf, InfoOf
  <2>2. ShownIsSent' = ShownIsSent
    BY <1>11 DEF vars, ShownIsSent, RowsIn, FieldsOf
  <2> QED
    BY <1>11, <2>1, <2>2 DEF vars, ShownInv
<1> QED
  BY <1>2, <1>3, <1>4, <1>5, <1>6, <1>7, <1>8, <1>9, <1>10, <1>11 DEF Next

\* ShownIsSent, of Unmarshal, the decoders and Render: a list is shown whole and in
\* its order, numbers are numbers that were sent, a missing or malformed one that
\* must be there ends in an error, and no table shows a password.
THEOREM ShownCorrect == Spec => []ShownIsSent
<1>1. ShownInv => ShownIsSent
  BY DEF ShownInv
<1> QED
  BY <1>1, InitShown, NextShown, PTL DEF Spec
================================================================================
