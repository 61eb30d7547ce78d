------------------------------- MODULE Credentials -------------------------------
(***************************************************************************)
(* Whose credentials a command uses and how (internal/config:              *)
(* credentials.go, internal/cli: wire.go).  Three sources may give each of *)
(* login, auth_data and auth_type: the flags, the environment and a        *)
(* profile of config.toml.  An empty string is not given.                  *)
(***************************************************************************)
EXTENDS Sequences, Integers, TLC

Source(login, data, type) == [login |-> login, data |-> data, type |-> type]
NoSource == Source("", "", "")

Rejected == [ok |-> FALSE, creds |-> NoSource]

\* The first that is given.
pick(a, b, c) == IF a # "" THEN a ELSE IF b # "" THEN b ELSE c

\* The profile --profile names, or default_profile.  Without a file there is
\* none to name.
ProfileOf(file, named) ==
    LET name == IF named # "" THEN named ELSE file.default
    IN  IF file.state = "broken" THEN [ok |-> FALSE, profile |-> NoSource]
        ELSE IF file.state = "none" THEN [ok |-> named = "", profile |-> NoSource]
        ELSE IF name \in DOMAIN file.profiles
             THEN [ok |-> TRUE, profile |-> file.profiles[name]]
        ELSE [ok |-> name = "", profile |-> NoSource]

validate(creds) ==
    creds.login # "" /\ creds.data # "" /\ creds.type \in {"plain", "session"}

\* A slip: the password of the environment wins.
ResolveEnvFirst(file, named, flags, env) ==
    LET prof == ProfileOf(file, named)
        creds == Source(pick(flags.login, env.login, prof.profile.login),
                        pick(env.data, flags.data, prof.profile.data),
                        pick(flags.type, env.type, prof.profile.type))
    IN  IF prof.ok /\ validate(creds) THEN [ok |-> TRUE, creds |-> creds] ELSE Rejected
Resolve(file, named, flags, env) ==
    LET prof == ProfileOf(file, named)
        creds == Source(pick(flags.login, env.login, prof.profile.login),
                        pick(flags.data, env.data, prof.profile.data),
                        pick(flags.type, env.type, prof.profile.type))
    IN  IF prof.ok /\ validate(creds) THEN [ok |-> TRUE, creds |-> creds] ELSE Rejected

-------------------------------------------------------------------------------
\* The flags that only KasAuth understands.

Session(otp, lifetime, update) == [otp |-> otp, lifetime |-> lifetime, update |-> update]
NoSession == Session("", 0, "")

isSet(session) == session.otp # "" \/ session.lifetime # 0 \/ session.update # ""

buildAuthOptions(session) ==
    /\ session.lifetime = 0 \/ session.lifetime \in 1..30000
    /\ session.update \in {"", "Y", "N"}

\* A slip: in plain mode the flags are ignored.
tokenSourceIgnoring(creds, session) ==
    creds.type = "session" => buildAuthOptions(session)
\* Whether a client can be built.
tokenSource(creds, session) ==
    /\ creds.type = "plain" => ~isSet(session)
    /\ creds.type = "session" => buildAuthOptions(session)
===============================================================================
