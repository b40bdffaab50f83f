---------------------------- MODULE MCManagement ----------------------------
(* A small instance of Management for TLC.                                 *)
EXTENDS Management, TLC

TwoNames == {"admin", "ann"}
OneTeam == {"ops"}
OneGroup == {"g1"}
TwoPasswords == {"p1", "p2"}

\* Local users behind a bearer token; the default configuration, open on
\* loopback while there is no user; one a careless bootstrap password stops;
\* one that needs no sign-in; and one that must be refused.
Proxied == [bearer |-> TRUE, anonymous |-> FALSE, localUsers |-> TRUE,
            loopback |-> FALSE, bootstrap |-> "p1"]
Fresh == [Proxied EXCEPT !.bearer = FALSE, !.loopback = TRUE, !.bootstrap = "unset"]
Careless == [Proxied EXCEPT !.bootstrap = "weak"]
Open == [Fresh EXCEPT !.anonymous = TRUE, !.localUsers = FALSE]
Exposed == [Open EXCEPT !.anonymous = FALSE, !.loopback = FALSE]
Deployments == {Proxied, Fresh, Careless, Open, Exposed}

\* A new database; one with two admins; one with a team whose operator has no
\* global role, and a group nobody owns yet.
Unused == [users |-> [u \in TwoNames |-> [status |-> "none", role |-> "viewer",
                                         password |-> "weak"]],
           teams |-> {}, members |-> [u \in TwoNames |-> [t \in OneTeam |-> "none"]],
           groupTeam |-> [g \in OneGroup |-> "nobody"]]
TwoAdmins == [Unused EXCEPT !.users =
                [u \in TwoNames |-> [status |-> "active", role |-> "admin",
                                     password |-> "p1"]]]
TeamWork == [TwoAdmins EXCEPT !.users["ann"].role = "scoped", !.teams = OneTeam,
                              !.members["ann"]["ops"] = "operator"]
Known == {Unused, TwoAdmins, TeamWork}

Logins == {[NoInput EXCEPT !.op = "login", !.user = u, !.password = p] :
              u \in TwoNames, p \in TwoPasswords}

Changes ==
    {[NoInput EXCEPT !.op = "create_user", !.user = "ann", !.role = r, !.password = p] :
        r \in {"admin", "scoped"}, p \in {"p1"}}
    \cup {[NoInput EXCEPT !.op = "change_user_password", !.user = u, !.password = "p2"] :
        u \in TwoNames}
    \cup {[NoInput EXCEPT !.op = "disable_user", !.user = u] : u \in TwoNames}
    \cup {[NoInput EXCEPT !.op = "create_team", !.team = "ops"],
          [NoInput EXCEPT !.op = "set_team_membership", !.user = "ann", !.team = "ops",
                          !.role = "operator"],
          [NoInput EXCEPT !.op = "remove_team_membership", !.user = "ann", !.team = "ops"]}

Uses == {[NoInput EXCEPT !.op = "operate", !.group = "g1"],
         [NoInput EXCEPT !.op = "list"],
         [NoInput EXCEPT !.op = "logout"]}

ClientRequests ==
    Logins
    \cup {[c EXCEPT !.bearer = TRUE] : c \in Changes}
    \cup {[c EXCEPT !.session = s, !.csrf = TRUE] : c \in Changes \cup Uses, s \in 0 .. MaxSessions}
    \cup {[c EXCEPT !.session = 1] : c \in Uses}

SameHandlers == Permutations(Handlers)
============================================================================
