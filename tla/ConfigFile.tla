------------------------------- MODULE ConfigFile -------------------------------
(***************************************************************************)
(* config.toml and the commands that write it: `config init`, `config      *)
(* add-profile` and `config use-profile` (internal/cli/config.go) over     *)
(* Load and Save (internal/config/config.go).  There is no lock: a command *)
(* reads the file, talks to its user (or to the server, for the logout of  *)
(* the outgoing profile) and replaces the file by what it has in memory.   *)
(*                                                                         *)
(* A profile is abstracted to its account, the KAS login it is for, and    *)
(* sessions.toml to the set of accounts that have an entry in it.          *)
(***************************************************************************)
EXTENDS Integers

CONSTANTS Proc,     \* processes
          Profile,  \* names of profiles
          Account,  \* KAS logins
          None,     \* no account under a name; no default_profile
          Missing,  \* config.toml: not there
          Partial   \* config.toml: cut off in the middle

VARIABLES file,    \* config.toml
          cached,  \* the accounts with a session in sessions.toml
          pc,      \* where each process is
          cmd,     \* the command it runs
          cfg,     \* the configuration in its memory
          logout,  \* history: what became of the outgoing session at use-profile
          stale    \* history: the processes whose file another has replaced since

vars == <<file, cached, pc, cmd, cfg, logout, stale>>

Config == [default : Profile \cup {None}, profiles : [Profile -> Account \cup {None}]]

\* What a command starts from when there is no file (a slip would forget to make
\* the map of the profiles).
NilMap == [default |-> None, profiles |-> None]
Empty  == [default |-> None, profiles |-> [n \in Profile |-> None]]

ASSUME NamesAssumption ==
    /\ None \notin Profile /\ None \notin Account
    /\ Missing \notin Config /\ Partial \notin Config /\ Missing # Partial

Command == [op : {"init", "add", "use"}, name : Profile, force : BOOLEAN]
NoCommand == [op |-> "none", name |-> None, force |-> FALSE]

\* What Load and Save call valid: default_profile is defined.
AlwaysValid(c) == c \in Config
Valid(c) == c \in Config /\ (c.default # None => c.profiles[c.default] # None)

\* Not looked at yet; seen in sessions.toml; not dropped, for an error; not there, or
\* dropped; cached again by another run since.
Outcomes == {"none", "there", "failed", "gone", "anew"}

Steps == {"off", "prompt", "lookup", "revoke", "drop", "report", "save", "rename"}

TypeOK ==
    /\ file \in Config \cup {Missing, Partial}
    /\ cached \in SUBSET Account
    /\ pc \in [Proc -> Steps]
    /\ cmd \in [Proc -> Command \cup {NoCommand}]
    /\ cfg \in [Proc -> Config]
    /\ logout \in [Proc -> Outcomes]
    /\ stale \in SUBSET Proc

\* The file may have been edited by hand: it need not be valid.
Init ==
    /\ file \in Config \cup {Missing, Partial}
    /\ cached \in SUBSET Account
    /\ pc = [p \in Proc |-> "off"]
    /\ cmd = [p \in Proc |-> NoCommand]
    /\ cfg = [p \in Proc |-> Empty]
    /\ logout = [p \in Proc |-> "none"]
    /\ stale = {}

Goto(p, label) == pc' = [pc EXCEPT ![p] = label]

\* A command ends, in success or with an error, or it is killed.
End(p) ==
    /\ Goto(p, "off")
    /\ cmd' = [cmd EXCEPT ![p] = NoCommand]
    /\ cfg' = [cfg EXCEPT ![p] = Empty]
    /\ logout' = [logout EXCEPT ![p] = "none"]

-------------------------------------------------------------------------------
\* init and add-profile.

\* What a configuration in memory makes of a command.
Overwrites(c, m) == TRUE
Admits(c, m) == c.profiles[m.name] = None \/ m.force

\* A missing file counts as an empty configuration.
LoadForProfile(p, m) ==
    /\ pc[p] = "off"
    /\ m.op \in {"init", "add"}
    /\ \/ Valid(file) /\ cfg' = [cfg EXCEPT ![p] = file]
       \/ file = Missing /\ cfg' = [cfg EXCEPT ![p] = Empty]
    /\ Admits(cfg'[p], m)
    /\ cmd' = [cmd EXCEPT ![p] = m]
    /\ Goto(p, "prompt")
    /\ UNCHANGED <<file, cached, logout, stale>>

\* The profile in memory once the prompts are answered.  Without a default yet,
\* add-profile takes the new profile for it and init asks
\* (a slip would ask every time).
AlwaysDefault(c, m, a, yes) ==
    [default |-> IF yes THEN m.name ELSE c.default, profiles |-> [c.profiles EXCEPT ![m.name] = a]]
WithProfile(c, m, a, yes) ==
    [default |-> IF c.default = None /\ (m.op = "add" \/ yes) THEN m.name ELSE c.default,
     profiles |-> [c.profiles EXCEPT ![m.name] = a]]

Prompt(p) ==
    /\ pc[p] = "prompt"
    /\ \E a \in Account, yes \in BOOLEAN :
          cfg' = [cfg EXCEPT ![p] = WithProfile(@, cmd[p], a, yes)]
    /\ Goto(p, "save")
    /\ UNCHANGED <<file, cached, cmd, logout, stale>>

-------------------------------------------------------------------------------
\* use-profile.

Outgoing(p) == cfg[p].profiles[cfg[p].default]

\* The name must be defined, and not the default already.
LoadForSwitch(p, m) ==
    /\ pc[p] = "off"
    /\ m.op = "use" /\ ~m.force
    /\ Valid(file)
    /\ file.profiles[m.name] # None
    /\ m.name # file.default
    /\ cfg' = [cfg EXCEPT ![p] = file]
    /\ cmd' = [cmd EXCEPT ![p] = m]
    /\ Goto(p, IF file.default = None THEN "save" ELSE "lookup")
    /\ UNCHANGED <<file, cached, logout, stale>>

\* The session of the outgoing profile is looked up: it may be there, or not, or have
\* expired, so that Load removes it.  When Load fails the switch goes on all the same,
\* with a line in the log of --verbose and the entry where it was.
Lookup(p) ==
    /\ pc[p] = "lookup"
    /\ \/ /\ Outgoing(p) \in cached
          /\ Goto(p, "revoke")
          /\ logout' = [logout EXCEPT ![p] = "there"]
          /\ UNCHANGED cached
       \/ /\ Goto(p, "save")
          /\ logout' = [logout EXCEPT ![p] = "gone"]
          /\ cached' = cached \ {Outgoing(p)}
       \/ /\ Goto(p, "save")
          /\ logout' = [logout EXCEPT ![p] = "failed"]
          /\ UNCHANGED cached
    /\ UNCHANGED <<file, cmd, cfg, stale>>

\* delete_session: its outcome changes nothing here (a slip would go on to the
\* switch after a failure).
RevokeOrSwitch == {"drop", "save"}
RevokeThen == {"drop"}

Revoke(p) ==
    /\ pc[p] = "revoke"
    /\ \E label \in RevokeThen : Goto(p, label)
    /\ UNCHANGED <<file, cached, cmd, cfg, logout, stale>>

\* The entry goes from sessions.toml, or that fails.
DropEntry(p) ==
    /\ pc[p] = "drop"
    /\ \/ /\ cached' = cached \ {Outgoing(p)}
          /\ logout' = [logout EXCEPT ![p] = "gone"]
       \/ /\ UNCHANGED cached
          /\ logout' = [logout EXCEPT ![p] = "failed"]
    /\ Goto(p, "report")
    /\ UNCHANGED <<file, cmd, cfg, stale>>

\* A message about it; if it cannot be written the switch is off.
Report(p) ==
    /\ pc[p] = "report"
    /\ \/ Goto(p, "save") /\ UNCHANGED <<cmd, cfg, logout, stale>>
       \/ End(p) /\ stale' = stale \ {p}
    /\ UNCHANGED <<file, cached>>

-------------------------------------------------------------------------------
\* Save.

\* use-profile sets the default only now.
Saved(p) ==
    IF cmd[p].op = "use" THEN [cfg[p] EXCEPT !.default = cmd[p].name] ELSE cfg[p]

\* The configuration is validated and written to a temporary file (a slip would
\* write to the file itself).
InPlace(p) == file' = Partial
ToTemp(p) == UNCHANGED file

WriteTemp(p) ==
    /\ pc[p] = "save"
    /\ Valid(Saved(p))
    /\ ToTemp(p)
    /\ Goto(p, "rename")
    /\ UNCHANGED <<cached, cmd, cfg, logout, stale>>

Rename(p) ==
    /\ pc[p] = "rename"
    /\ file' = Saved(p)
    /\ End(p)
    /\ stale' = (stale \cup {q \in Proc : pc[q] # "off"}) \ {p}
    /\ UNCHANGED cached

\* An error (of the prompts, the disk), or a kill.
Abort(p) ==
    /\ pc[p] # "off"
    /\ End(p)
    /\ stale' = stale \ {p}
    /\ UNCHANGED <<file, cached>>

\* A run in session mode caches a session.
CacheSession(a) ==
    /\ cached' = cached \cup {a}
    /\ logout' = [p \in Proc |-> IF logout[p] = "gone" /\ Outgoing(p) = a
                               THEN "anew" ELSE logout[p]]
    /\ UNCHANGED <<file, pc, cmd, cfg, stale>>

Next ==
    \/ \E a \in Account : CacheSession(a)
    \/ \E p \in Proc :
          \/ \E m \in Command : LoadForProfile(p, m) \/ LoadForSwitch(p, m)
          \/ Prompt(p) \/ Lookup(p) \/ Revoke(p) \/ DropEntry(p) \/ Report(p)
          \/ WriteTemp(p) \/ Rename(p) \/ Abort(p)

Spec == Init /\ [][Next]_vars

-------------------------------------------------------------------------------
\* Properties.

\* A configuration the program can load stays one, whoever saves and dies when
\* ("a crash mid-write cannot corrupt an existing config"): every command after
\* it finds a file that parses and whose default_profile is defined.
Usable(c) == c \in Config /\ (c.default = None \/ c.profiles[c.default] # None)
StaysUsable == [][Usable(file) => Usable(file')]_file

\* A file the program cannot load is never replaced: what its owner broke while
\* editing is still there to be mended.
BrokenFileIsKept == [][~Usable(file) /\ file # Missing => file' = file]_file

\* The step is p's rename, and a new file.
Renames(p) == pc[p] = "rename" /\ pc'[p] = "off" /\ file' # file

\* The rename of p keeps every profile there is, but for one its user agreed to
\* overwrite ("overwrite an existing profile of the same name" is --force).
KeepsProfiles(p) ==
    Renames(p) /\ Usable(file) =>
        \A n \in Profile : file.profiles[n] # None =>
           \/ file'.profiles[n] = file.profiles[n]
           \/ cmd[p].force /\ cmd[p].name = n

\* Commands that do not overlap keep the profiles.
ProfilesAreKept == [][\A p \in Proc \ stale : KeepsProfiles(p)]_vars

\* And so do commands that do.
NoProfileIsLost == [][\A p \in Proc : KeepsProfiles(p)]_vars

\* Only use-profile moves the default, unless there was none or commands overlap.
DefaultIsKept ==
    [][\A p \in Proc \ stale :
         Renames(p) /\ Usable(file) /\ file.default # None
         /\ file'.default # file.default => cmd[p].op = "use"]_vars

\* use-profile moves the default away from a profile only when the session of that is
\* out of sessions.toml, whatever became of the delete_session; it stays there only
\* when sessions.toml could not be read or written, or when another run of the account
\* has cached a session since it was looked for.
SwitchDropsSession ==
    [][\A p \in Proc :
         /\ Renames(p) /\ cmd[p].op = "use"
         /\ cfg[p].default # None
         /\ Outgoing(p) \in cached
         => logout[p] \in {"failed", "anew"}]_vars
===============================================================================
