------------------------------ MODULE MCReadRunner ------------------------------
EXTENDS ReadRunner

\* Every setting of one kind against the usual rest.
MCFile(state, default) ==
    [state |-> state, default |-> default,
     profiles |-> [home |-> Source("home-login", "home-secret", "session"),
                   half |-> Source("half-login", "", "plain")]]

MCUsual ==
    [file |-> MCFile("loaded", "home"), named |-> "", flags |-> NoSource, env |-> NoSource,
     session |-> NoSession, cached |-> {}, output |-> "json", period |-> "valid"]

MCTables == {MCUsual, [MCUsual EXCEPT !.output = "table"]}

MCSources(name, types) ==
    {Source(l, d, t) : l \in {"", name \o "-login"}, d \in {"", name \o "-secret"}, t \in types}

MCSetups ==
    MCTables
    \cup {[MCUsual EXCEPT !.file = f, !.named = n, !.flags = x, !.env = e,
                          !.cached = c] :
             f \in {MCFile("none", ""), MCFile("broken", ""), MCFile("loaded", ""),
                    MCFile("loaded", "half")},
             n \in {"", "home", "nobody"},
             x \in MCSources("flag", {"", "plain", "odd"}),
             e \in MCSources("env", {"", "session"}),
             c \in {{}, {"flag-login", "half-login"}}}
    \cup {[MCUsual EXCEPT !.flags = x, !.session = Session(o, l, u), !.cached = c,
                          !.output = out, !.period = p] :
             x \in {NoSource, Source("", "", "plain")},
             o \in {"", "123456"}, l \in {0, -1, 600, 30000, 30001},
             u \in {"", "Y", "N", "y"}, c \in {{}, {"home-login"}}, out \in {"yaml", "table", "xml"},
             p \in {"valid", "year 1999"}}
===============================================================================
