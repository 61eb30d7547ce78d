---------------------------- MODULE ConfigFileProofs ----------------------------
(***************************************************************************)
(* Without a lock config.toml loses updates, but never its integrity: for  *)
(* any number of processes, profiles and accounts a file the program can   *)
(* load stays one, and a file it cannot load is never replaced.            *)
(***************************************************************************)
EXTENDS ConfigFile, TLAPS

\* A process that writes has validated what it writes, and none works on a file
\* it could not load: since it loaded it the file is valid, or still missing.
Checked ==
    /\ \A p \in Proc : pc[p] # "off" => cmd[p] \in Command
    /\ \A p \in Proc : pc[p] = "rename" => Valid(Saved(p))
    /\ (\E p \in Proc : pc[p] # "off") => (Valid(file) \/ file = Missing)

IInv == TypeOK /\ Checked

-------------------------------------------------------------------------------
LEMMA EmptyConfig == Empty \in Config
  BY DEF Empty, Config

\* Answering the prompts gives a configuration.
LEMMA WithProfileType ==
  ASSUME NEW c \in Config, NEW m \in Command, NEW a \in Account, NEW yes \in BOOLEAN
  PROVE  WithProfile(c, m, a, yes) \in Config
  BY DEF WithProfile, Config, Command

\* What a process will save depends on its own command and configuration.
LEMMA SavedIsOwn ==
  ASSUME NEW p, cmd'[p] = cmd[p], cfg'[p] = cfg[p]
  PROVE  Saved(p)' = Saved(p)
  BY DEF Saved

\* The type invariant and Checked hold at the start.
LEMMA InitIInv == Init => IInv
  BY EmptyConfig DEF Init, IInv, TypeOK, Checked, Steps, Outcomes

\* The end of a command keeps the types of what it resets.
LEMMA EndType ==
  ASSUME TypeOK, NEW p \in Proc, End(p)
  PROVE  /\ pc' \in [Proc -> Steps]
         /\ cmd' \in [Proc -> Command \cup {NoCommand}]
         /\ cfg' \in [Proc -> Config]
         /\ logout' \in [Proc -> Outcomes]
         /\ pc'[p] = "off"
         /\ \A q \in Proc \ {p} : pc'[q] = pc[q] /\ cmd'[q] = cmd[q] /\ cfg'[q] = cfg[q]
  BY EmptyConfig DEF TypeOK, End, Goto, Steps, Outcomes

\* A step of process p that leaves the file alone, and starts only on a file that
\* could be loaded, keeps Checked: what it saves it has validated.
LEMMA OwnStepChecked ==
  ASSUME IInv, TypeOK', NEW p \in Proc, UNCHANGED file,
         \A q \in Proc \ {p} : pc'[q] = pc[q] /\ cmd'[q] = cmd[q] /\ cfg'[q] = cfg[q],
         pc'[p] # "off" => cmd'[p] \in Command,
         pc'[p] = "rename" => Valid(Saved(p)'),
         pc[p] = "off" => Valid(file) \/ file = Missing
  PROVE  Checked'
<1>1. \A q \in Proc : pc'[q] # "off" => cmd'[q] \in Command
  BY DEF IInv, Checked
<1>2. ASSUME NEW q \in Proc, pc'[q] = "rename" PROVE Valid(Saved(q)')
  <2>1. CASE q = p
    BY <1>2, <2>1
  <2>2. CASE q # p
    <3>1. Saved(q)' = Saved(q)
      BY <2>2, SavedIsOwn
    <3>2. Valid(Saved(q))
      BY <1>2, <2>2 DEF IInv, Checked
    <3> QED BY <3>1, <3>2
  <2> QED BY <2>1, <2>2
<1>3. ASSUME NEW q \in Proc, pc'[q] # "off" PROVE Valid(file) \/ file = Missing
  BY <1>3 DEF IInv, Checked
<1> QED BY <1>1, <1>2, <1>3 DEF Checked, Valid, Config

\* Every step keeps the invariant.
LEMMA StepIInv == IInv /\ [Next]_vars => IInv'
<1> SUFFICES ASSUME IInv, [Next]_vars PROVE IInv'
  OBVIOUS
<1> USE DEF IInv
<1>1. CASE UNCHANGED vars
  BY <1>1 DEF vars, TypeOK, Checked, Saved, Valid, Config
<1>2. ASSUME NEW a \in Account, CacheSession(a) PROVE IInv'
  BY <1>2 DEF CacheSession, TypeOK, Checked, Saved, Valid, Config, Outcomes
<1>3. ASSUME NEW p \in Proc, NEW m \in Command, LoadForProfile(p, m) PROVE IInv'
  <2>1. cfg'[p] \in Config /\ (Valid(file) \/ file = Missing)
    BY <1>3, EmptyConfig DEF LoadForProfile, TypeOK, Valid
  <2>2. TypeOK'
    BY <1>3, <2>1, EmptyConfig DEF LoadForProfile, TypeOK, Goto, Steps, Valid
  <2>3. Checked'
    BY <1>3, <2>1, <2>2, OwnStepChecked DEF LoadForProfile, TypeOK, Goto
  <2> QED BY <2>2, <2>3
<1>4. ASSUME NEW p \in Proc, NEW m \in Command, LoadForSwitch(p, m) PROVE IInv'
  <2>1. TypeOK'
    BY <1>4 DEF LoadForSwitch, TypeOK, Goto, Steps, Valid
  <2>2. Checked'
    BY <1>4, <2>1, OwnStepChecked DEF LoadForSwitch, TypeOK, Goto
  <2> QED BY <2>1, <2>2
<1>5. ASSUME NEW p \in Proc, Prompt(p) PROVE IInv'
  <2>1. cmd[p] \in Command
    BY <1>5 DEF Prompt, Checked
  <2>2. PICK a \in Account, yes \in BOOLEAN :
          cfg' = [cfg EXCEPT ![p] = WithProfile(cfg[p], cmd[p], a, yes)]
    BY <1>5 DEF Prompt
  <2>3. WithProfile(cfg[p], cmd[p], a, yes) \in Config
    BY <2>1, WithProfileType DEF TypeOK
  <2>4. TypeOK'
    BY <1>5, <2>2, <2>3 DEF Prompt, TypeOK, Goto, Steps
  <2>5. Checked'
    BY <1>5, <2>1, <2>2, <2>4, OwnStepChecked DEF Prompt, TypeOK, Goto
  <2> QED BY <2>4, <2>5
<1>6. ASSUME NEW p \in Proc, Lookup(p) \/ Revoke(p) \/ DropEntry(p) PROVE IInv'
  <2>1. pc[p] # "off" /\ pc' = [pc EXCEPT ![p] = pc'[p]]
        /\ pc'[p] \in {"revoke", "save", "drop", "report"}
        /\ logout' \in [Proc -> Outcomes]
        /\ cached' \in SUBSET Account /\ UNCHANGED <<file, cmd, cfg, stale>>
    BY <1>6 DEF Lookup, Revoke, RevokeThen, DropEntry, TypeOK, Goto, Outcomes
  <2>2. TypeOK'
    BY <2>1 DEF TypeOK, Steps
  <2>3. Checked'
    BY <2>1, <2>2, OwnStepChecked DEF TypeOK, Checked
  <2> QED BY <2>2, <2>3
<1>7. ASSUME NEW p \in Proc, Report(p) PROVE IInv'
  <2>1. CASE Goto(p, "save") /\ UNCHANGED <<cmd, cfg, logout, stale, file, cached>>
    <3>1. TypeOK'
      BY <2>1 DEF TypeOK, Goto, Steps
    <3>2. Checked'
      BY <1>7, <2>1, <3>1, OwnStepChecked DEF Report, TypeOK, Checked, Goto
    <3> QED BY <3>1, <3>2
  <2>2. CASE End(p) /\ stale' = stale \ {p} /\ UNCHANGED <<file, cached>>
    <3>1. TypeOK'
      BY <1>7, <2>2, EndType DEF TypeOK, Report
    <3>2. Checked'
      BY <1>7, <2>2, <3>1, EndType, OwnStepChecked DEF Report
    <3> QED BY <3>1, <3>2
  <2> QED BY <1>7, <2>1, <2>2 DEF Report
<1>8. ASSUME NEW p \in Proc, WriteTemp(p) PROVE IInv'
  <2>1. TypeOK'
    BY <1>8 DEF WriteTemp, ToTemp, TypeOK, Goto, Steps
  <2>2. Valid(Saved(p)')
    BY <1>8 DEF WriteTemp, Saved
  <2>3. Checked'
    BY <1>8, <2>1, <2>2, OwnStepChecked DEF WriteTemp, ToTemp, TypeOK, Checked, Goto
  <2> QED BY <2>1, <2>3
<1>9. ASSUME NEW p \in Proc, Rename(p) PROVE IInv'
  <2>1. Valid(file')
    BY <1>9 DEF Rename, Checked
  <2>2. TypeOK'
    BY <1>9, <2>1, EndType DEF Rename, TypeOK, Valid
  <2>3. ASSUME NEW q \in Proc, pc'[q] # "off"
        PROVE  cmd'[q] \in Command /\ (pc'[q] = "rename" => Valid(Saved(q)'))
    <3>1. q # p /\ pc'[q] = pc[q] /\ cmd'[q] = cmd[q] /\ cfg'[q] = cfg[q]
      BY <1>9, <2>3, EndType DEF Rename
    <3>2. Saved(q)' = Saved(q)
      BY <3>1, SavedIsOwn
    <3> QED BY <2>3, <3>1, <3>2 DEF Checked
  <2>4. Checked'
    BY <2>1, <2>3 DEF Checked, Valid, Config
  <2> QED BY <2>2, <2>4
<1>10. ASSUME NEW p \in Proc, Abort(p) PROVE IInv'
  <2>1. TypeOK'
    BY <1>10, EndType DEF Abort, TypeOK
  <2>2. Checked'
    BY <1>10, <2>1, EndType, OwnStepChecked DEF Abort
  <2> QED BY <2>1, <2>2
<1> QED BY <1>1, <1>2, <1>3, <1>4, <1>5, <1>6, <1>7, <1>8, <1>9, <1>10 DEF Next

LEMMA Invariance == Spec => []IInv
<1>1. IInv /\ [Next]_vars => IInv'
  BY StepIInv
<1> QED BY InitIInv, <1>1, PTL DEF Spec

-------------------------------------------------------------------------------
\* Every variable of the configuration commands keeps its type, whatever the
\* processes, profiles and accounts are.
THEOREM TypeCorrect == Spec => []TypeOK
  BY Invariance, PTL DEF IInv

\* Only a rename touches the file, and it puts a validated configuration there.
LEMMA FileStep == IInv /\ [Next]_vars => file' = file \/ (file' \in Config /\ Valid(file') /\ (Valid(file) \/ file = Missing))
<1> SUFFICES ASSUME IInv, Next, file' # file
             PROVE  file' \in Config /\ Valid(file') /\ (Valid(file) \/ file = Missing)
  BY DEF vars
<1>1. PICK p \in Proc : Rename(p)
  BY DEF Next, CacheSession, LoadForProfile, LoadForSwitch, Prompt, Lookup, Revoke,
         DropEntry, Report, WriteTemp, ToTemp, Abort
<1>2. Valid(Saved(p)) /\ (Valid(file) \/ file = Missing)
  BY <1>1 DEF Rename, IInv, Checked
<1> QED BY <1>1, <1>2 DEF Rename, Valid

\* config.Save's promise ("a crash mid-write cannot corrupt an existing config"):
\* a configuration the program can load stays one, whatever the other commands do
\* and wherever one of them is killed.
THEOREM ConfigStaysUsable == Spec => StaysUsable
<1>1. IInv /\ [Next]_vars => [Usable(file) => Usable(file')]_file
  BY FileStep DEF Valid, Usable
<1> QED BY <1>1, Invariance, PTL DEF Spec, StaysUsable

\* A file that config.Load rejects is not replaced by any command.
THEOREM ConfigKeepsBrokenFile == Spec => BrokenFileIsKept
<1>1. IInv /\ [Next]_vars => [~Usable(file) /\ file # Missing => file' = file]_file
  BY FileStep DEF Valid, Usable
<1> QED BY <1>1, Invariance, PTL DEF Spec, BrokenFileIsKept

-------------------------------------------------------------------------------
\* What a process holds in memory extends the file, but for the one profile its
\* user agreed to overwrite; while it prompts, the name it was admitted for is
\* still free.
Extends(p) ==
    file \in Config =>
        /\ file.default # None => cfg[p].default = file.default
        /\ \A n \in Profile : file.profiles[n] # None =>
              \/ cfg[p].profiles[n] = file.profiles[n]
              \/ cmd[p].force /\ cmd[p].name = n
        /\ pc[p] = "prompt" /\ ~cmd[p].force => file.profiles[cmd[p].name] = None

\* That is so as long as nobody else has replaced the file.
Fresh == \A p \in Proc \ stale : pc[p] # "off" => Extends(p)

\* A session that is gone is not in sessions.toml, and who switches from a profile and
\* has not done with its session is still at it.
Owed ==
    \A p \in Proc :
       /\ logout[p] = "gone" => Outgoing(p) \notin cached
       /\ pc[p] \in {"off", "prompt"} => logout[p] = "none" /\ cmd[p].op # "use"
       /\ cmd[p].op = "use" /\ cfg[p].default # None /\ logout[p] \in {"none", "there"} =>
             pc[p] \in {"lookup", "revoke", "drop"}

\* Nothing changes for a process while others leave the file alone.
LEMMA OthersFresh ==
  ASSUME Fresh, NEW p \in Proc, UNCHANGED file,
         \A q \in Proc \ {p} : pc'[q] = pc[q] /\ cmd'[q] = cmd[q] /\ cfg'[q] = cfg[q],
         stale \ {p} \subseteq stale',
         p \notin stale' /\ pc'[p] # "off" => Extends(p)'
  PROVE  Fresh'
<1>1. ASSUME NEW q \in Proc \ stale', pc'[q] # "off", q # p PROVE Extends(q)'
  <2>1. Extends(q)
    BY <1>1 DEF Fresh
  <2> QED BY <1>1, <2>1 DEF Extends, Config
<1> QED BY <1>1 DEF Fresh

\* Answering the prompts adds one profile, under a free name or with --force.
LEMMA PromptExtends ==
  ASSUME IInv, Fresh, NEW p \in Proc \ stale, Prompt(p)
  PROVE  Extends(p)'
<1>1. PICK a \in Account, yes \in BOOLEAN :
        cfg' = [cfg EXCEPT ![p] = WithProfile(cfg[p], cmd[p], a, yes)]
  BY DEF Prompt
<1>2. Extends(p) /\ cmd[p] \in Command /\ cfg[p] \in Config
  BY DEF Fresh, Prompt, IInv, Checked, TypeOK
<1>3. /\ cfg'[p] = WithProfile(cfg[p], cmd[p], a, yes)
      /\ pc'[p] = "save" /\ file' = file /\ cmd' = cmd /\ pc[p] = "prompt"
  BY <1>1 DEF Prompt, Goto, IInv, TypeOK
<1>4. ASSUME NEW n \in Profile
      PROVE  cfg'[p].profiles[n] = IF n = cmd[p].name THEN a ELSE cfg[p].profiles[n]
  BY <1>2, <1>3, <1>4 DEF WithProfile, Config
<1>5. cfg[p].default # None => cfg'[p].default = cfg[p].default
  BY <1>3 DEF WithProfile
<1> QED BY <1>2, <1>3, <1>4, <1>5 DEF Extends, Command, Config

\* Both hold throughout.
LEMMA StepFresh == IInv /\ Fresh /\ [Next]_vars => Fresh'
<1> SUFFICES ASSUME IInv, Fresh, [Next]_vars PROVE Fresh'
  OBVIOUS
<1>t. TypeOK
  BY DEF IInv
<1>1. CASE UNCHANGED vars
  BY <1>1 DEF vars, Fresh, Extends, Config
<1>2. ASSUME NEW a \in Account, CacheSession(a) PROVE Fresh'
  BY <1>2 DEF CacheSession, Fresh, Extends, Config
<1>3. ASSUME NEW p \in Proc, NEW m \in Command, LoadForProfile(p, m) PROVE Fresh'
  <2>1. /\ file' = file /\ stale' = stale /\ cmd'[p] = m /\ Admits(cfg'[p], m)
        /\ file \in Config => cfg'[p] = file
        /\ \A q \in Proc \ {p} : pc'[q] = pc[q] /\ cmd'[q] = cmd[q] /\ cfg'[q] = cfg[q]
    BY <1>t, <1>3, NamesAssumption DEF LoadForProfile, TypeOK, Goto
  <2>2. Extends(p)'
    BY <2>1 DEF Extends, Admits
  <2> QED BY <2>1, <2>2, OthersFresh
<1>4. ASSUME NEW p \in Proc, NEW m \in Command, LoadForSwitch(p, m) PROVE Fresh'
  <2>1. /\ file' = file /\ stale' = stale /\ cfg'[p] = file /\ pc'[p] # "prompt"
        /\ \A q \in Proc \ {p} : pc'[q] = pc[q] /\ cmd'[q] = cmd[q] /\ cfg'[q] = cfg[q]
    BY <1>t, <1>4 DEF LoadForSwitch, TypeOK, Goto
  <2>2. Extends(p)'
    BY <2>1 DEF Extends
  <2> QED BY <2>1, <2>2, OthersFresh
<1>5. ASSUME NEW p \in Proc, Prompt(p) PROVE Fresh'
  <2>1. /\ file' = file /\ stale' = stale
        /\ \A q \in Proc \ {p} : pc'[q] = pc[q] /\ cmd'[q] = cmd[q] /\ cfg'[q] = cfg[q]
    BY <1>t, <1>5 DEF Prompt, TypeOK, Goto
  <2>2. p \notin stale' => Extends(p)'
    BY <1>5, <2>1, PromptExtends
  <2> QED BY <2>1, <2>2, OthersFresh
<1>6. ASSUME NEW p \in Proc, UNCHANGED <<file, stale, cmd, cfg>>, pc[p] # "off",
             NEW label \in Steps \ {"prompt"}, Goto(p, label)
      PROVE  Fresh'
  <2>1. pc'[p] = label /\ \A q \in Proc \ {p} : pc'[q] = pc[q]
    BY <1>t, <1>6 DEF TypeOK, Goto
  <2>2. p \notin stale => Extends(p)'
    BY <1>6, <2>1 DEF Fresh, Extends, Config
  <2> QED BY <1>6, <2>1, <2>2, OthersFresh
<1>7. ASSUME NEW p \in Proc, End(p), UNCHANGED file, stale' = stale \ {p} PROVE Fresh'
  BY <1>t, <1>7, EndType, OthersFresh
<1>8. ASSUME NEW p \in Proc, Rename(p) PROVE Fresh'
  <2>1. ASSUME NEW q \in Proc, pc'[q] # "off" PROVE q \in stale'
    BY <1>t, <1>8, <2>1, EndType DEF Rename
  <2> QED BY <2>1 DEF Fresh
<1>9. ASSUME NEW p \in Proc, Lookup(p) \/ Revoke(p) \/ DropEntry(p) \/ Report(p)
                              \/ WriteTemp(p) \/ Abort(p)
      PROVE  Fresh'
  <2>1. CASE Lookup(p)
    BY <1>6, <2>1 DEF Lookup, Steps
  <2>2. CASE Revoke(p)
    BY <1>6, <2>2 DEF Revoke, RevokeThen, Steps
  <2>3. CASE DropEntry(p)
    BY <1>6, <2>3 DEF DropEntry, Steps
  <2>4. CASE Report(p)
    BY <1>6, <1>7, <2>4 DEF Report, Steps
  <2>5. CASE WriteTemp(p)
    BY <1>6, <2>5 DEF WriteTemp, ToTemp, Steps
  <2>6. CASE Abort(p)
    BY <1>7, <2>6 DEF Abort
  <2> QED BY <1>9, <2>1, <2>2, <2>3, <2>4, <2>5, <2>6
<1> QED BY <1>1, <1>2, <1>3, <1>4, <1>5, <1>8, <1>9 DEF Next

\* Nothing is owed by the others when p alone moves, and caches nothing.
LEMMA OthersOwed ==
  ASSUME Owed, NEW p \in Proc, cached' \subseteq cached,
         \A q \in Proc \ {p} : pc'[q] = pc[q] /\ cmd'[q] = cmd[q] /\ cfg'[q] = cfg[q]
                              /\ logout'[q] = logout[q],
         logout'[p] = "gone" => Outgoing(p)' \notin cached',
         pc'[p] \in {"off", "prompt"} => logout'[p] = "none" /\ cmd'[p].op # "use",
         cmd'[p].op = "use" /\ cfg'[p].default # None /\ logout'[p] \in {"none", "there"} =>
            pc'[p] \in {"lookup", "revoke", "drop"}
  PROVE  Owed'
<1>1. ASSUME NEW q \in Proc \ {p}
      PROVE  /\ logout'[q] = "gone" => Outgoing(q)' \notin cached'
             /\ pc'[q] \in {"off", "prompt"} => logout'[q] = "none" /\ cmd'[q].op # "use"
             /\ cmd'[q].op = "use" /\ cfg'[q].default # None
                /\ logout'[q] \in {"none", "there"} => pc'[q] \in {"lookup", "revoke", "drop"}
  BY <1>1 DEF Owed, Outgoing
<1> QED BY <1>1 DEF Owed

\* Every step keeps it.
LEMMA StepOwed == TypeOK /\ Owed /\ [Next]_vars => Owed'
<1> SUFFICES ASSUME TypeOK, Owed, [Next]_vars PROVE Owed'
  OBVIOUS
<1>1. CASE UNCHANGED vars
  BY <1>1 DEF vars, Owed, Outgoing
<1>2. ASSUME NEW a \in Account, CacheSession(a) PROVE Owed'
  <2>1. /\ cached' = cached \cup {a} /\ UNCHANGED <<pc, cmd, cfg>>
        /\ \A p \in Proc : logout'[p] = IF logout[p] = "gone" /\ Outgoing(p) = a
                                       THEN "anew" ELSE logout[p]
    BY <1>2 DEF CacheSession
  <2>2. \A p \in Proc : Outgoing(p)' = Outgoing(p)
    BY <2>1 DEF Outgoing
  <2> QED BY <2>1, <2>2 DEF Owed
<1>3. ASSUME NEW p \in Proc, NEW m \in Command, LoadForProfile(p, m) PROVE Owed'
  BY <1>3, OthersOwed DEF LoadForProfile, TypeOK, Owed, Goto
<1>4. ASSUME NEW p \in Proc, NEW m \in Command, LoadForSwitch(p, m) PROVE Owed'
  <2>1. logout[p] = "none" /\ UNCHANGED <<cached, logout>>
        /\ cfg' = [cfg EXCEPT ![p] = file] /\ cmd' = [cmd EXCEPT ![p] = m]
        /\ pc' = [pc EXCEPT ![p] = IF file.default = None THEN "save" ELSE "lookup"]
    BY <1>4 DEF LoadForSwitch, Owed, Goto
  <2> QED BY <2>1, OthersOwed DEF TypeOK
<1>5. ASSUME NEW p \in Proc, Prompt(p) PROVE Owed'
  <2>1. logout[p] = "none" /\ cmd[p].op # "use" /\ UNCHANGED <<cached, cmd, logout>>
        /\ pc' = [pc EXCEPT ![p] = "save"]
        /\ \A q \in Proc \ {p} : cfg'[q] = cfg[q]
    BY <1>5 DEF Prompt, Owed, Goto, TypeOK
  <2> QED BY <2>1, OthersOwed DEF TypeOK
<1>6. ASSUME NEW p \in Proc, Lookup(p) \/ DropEntry(p) PROVE Owed'
  <2>1. /\ UNCHANGED <<cmd, cfg>> /\ pc' = [pc EXCEPT ![p] = pc'[p]]
        /\ pc'[p] \in {"revoke", "save", "report"}
        /\ logout' = [logout EXCEPT ![p] = logout'[p]]
        /\ \/ cached' = cached \ {Outgoing(p)} /\ logout'[p] = "gone"
           \/ cached' = cached /\ logout'[p] = "failed"
           \/ cached' = cached /\ logout'[p] = "there" /\ pc'[p] = "revoke"
    BY <1>6 DEF Lookup, DropEntry, Goto, TypeOK
  <2>2. Outgoing(p)' = Outgoing(p)
    BY <2>1 DEF Outgoing
  <2> QED BY <2>1, <2>2, OthersOwed DEF TypeOK
<1>7. ASSUME NEW p \in Proc, NEW label \in Steps \ {"off", "prompt"}, Goto(p, label),
             UNCHANGED <<cached, cmd, cfg, logout>>,
             label = "drop" \/ pc[p] \notin {"lookup", "revoke", "drop"}
      PROVE  Owed'
  <2>1. pc' = [pc EXCEPT ![p] = label]
    BY <1>7 DEF Goto
  <2>2. Outgoing(p)' = Outgoing(p)
    BY <1>7 DEF Outgoing
  <2> QED BY <1>7, <2>1, <2>2, OthersOwed DEF TypeOK, Owed
<1>8. ASSUME NEW p \in Proc, End(p), UNCHANGED cached PROVE Owed'
  <2>1. logout' = [logout EXCEPT ![p] = "none"] /\ cmd'[p].op # "use"
    BY <1>8 DEF End, TypeOK, NoCommand
  <2> QED BY <1>8, <2>1, EndType, OthersOwed DEF TypeOK
<1>9. ASSUME NEW p \in Proc, Revoke(p) \/ Report(p) \/ WriteTemp(p) \/ Rename(p) \/ Abort(p)
      PROVE  Owed'
  <2>1. CASE Revoke(p)
    BY <1>7, <2>1 DEF Revoke, RevokeThen, Steps
  <2>2. CASE Report(p)
    BY <1>7, <1>8, <2>2 DEF Report, Steps
  <2>3. CASE WriteTemp(p)
    BY <1>7, <2>3 DEF WriteTemp, Steps
  <2>4. CASE Rename(p) \/ Abort(p)
    BY <1>8, <2>4 DEF Rename, Abort
  <2> QED BY <1>9, <2>1, <2>2, <2>3, <2>4
<1> QED BY <1>1, <1>2, <1>3, <1>4, <1>5, <1>6, <1>9 DEF Next

LEMMA Freshness == Spec => [](Fresh /\ Owed)
<1>1. Init => Fresh /\ Owed
  BY DEF Init, Fresh, Owed, NoCommand
<1>2. IInv /\ Fresh /\ Owed /\ [Next]_vars => Fresh' /\ Owed'
  BY StepFresh, StepOwed DEF IInv
<1> QED BY <1>1, <1>2, Invariance, PTL DEF Spec

\* A rename is the step of the process that saves, and what it writes is what that
\* process has in memory.
LEMMA RenamesIsRename ==
  ASSUME IInv, [Next]_vars, NEW p \in Proc, Renames(p)
  PROVE  Rename(p) /\ cmd[p] \in Command /\ file' = Saved(p)
<1>1. Rename(p)
  <2>1. PICK q \in Proc : Rename(q)
    BY DEF Renames, vars, Next, CacheSession, LoadForProfile, LoadForSwitch, Prompt, Lookup,
           Revoke, DropEntry, Report, WriteTemp, ToTemp, Abort
  <2>2. q = p
    BY <2>1 DEF Renames, Rename, End, Goto, IInv, TypeOK
  <2> QED BY <2>1, <2>2
<1> QED BY <1>1 DEF Rename, IInv, Checked

\* The promise of --force ("overwrite an existing profile of the same name"):
\* without it a command that no other overtakes neither overwrites nor removes a
\* profile.  NoProfileIsLost is what does not hold when commands overlap.
THEOREM ProfilesKept == Spec => ProfilesAreKept
<1>1. ASSUME IInv, Fresh, [Next]_vars, NEW p \in Proc \ stale PROVE KeepsProfiles(p)
  <2> SUFFICES ASSUME Renames(p), Usable(file)
               PROVE  \A n \in Profile : file.profiles[n] # None =>
                         \/ file'.profiles[n] = file.profiles[n]
                         \/ cmd[p].force /\ cmd[p].name = n
    BY DEF KeepsProfiles
  <2>1. Extends(p) /\ file \in Config
    BY <1>1 DEF Fresh, Renames, Usable
  <2>2. file'.profiles = cfg[p].profiles
    BY <1>1, RenamesIsRename DEF Saved, IInv, TypeOK, Config
  <2> QED BY <2>1, <2>2 DEF Extends
<1>2. IInv /\ Fresh /\ [Next]_vars => [\A p \in Proc \ stale : KeepsProfiles(p)]_vars
  BY <1>1
<1> QED BY <1>2, Invariance, Freshness, PTL DEF Spec, ProfilesAreKept

\* A default_profile there is moves by use-profile only, unless commands overlap.
THEOREM DefaultKept == Spec => DefaultIsKept
<1>1. ASSUME IInv, Fresh, [Next]_vars, NEW p \in Proc \ stale, Renames(p), Usable(file),
             file.default # None, file'.default # file.default
      PROVE  cmd[p].op = "use"
  <2>1. cfg[p].default = file.default
    BY <1>1 DEF Fresh, Extends, Renames, Usable
  <2> QED BY <1>1, <2>1, RenamesIsRename DEF Saved
<1>2. IInv /\ Fresh /\ [Next]_vars =>
        [\A p \in Proc \ stale : Renames(p) /\ Usable(file) /\ file.default # None
            /\ file'.default # file.default => cmd[p].op = "use"]_vars
  BY <1>1
<1> QED BY <1>2, Invariance, Freshness, PTL DEF Spec, DefaultIsKept

\* SwitchDropsSession, of runConfigUseProfile: when default_profile moves, the session
\* of the outgoing profile is out of sessions.toml, or the store failed, or another run
\* has cached one since.
THEOREM SwitchDropped == Spec => SwitchDropsSession
<1>1. ASSUME TypeOK, Owed, NEW p \in Proc, Renames(p), cmd[p].op = "use",
             cfg[p].default # None, Outgoing(p) \in cached
      PROVE  logout[p] \in {"failed", "anew"}
  <2>1. pc[p] = "rename" /\ logout[p] \in Outcomes
    BY <1>1 DEF Renames, TypeOK
  <2>2. logout[p] # "gone" /\ logout[p] \notin {"none", "there"}
    BY <1>1, <2>1 DEF Owed
  <2> QED BY <2>1, <2>2 DEF Outcomes
<1>2. TypeOK /\ Owed =>
        [\A p \in Proc :
           /\ Renames(p) /\ cmd[p].op = "use"
           /\ cfg[p].default # None
           /\ Outgoing(p) \in cached
           => logout[p] \in {"failed", "anew"}]_vars
  BY <1>1
<1> QED BY <1>2, Invariance, Freshness, PTL DEF Spec, IInv, SwitchDropsSession

===============================================================================
