----------------------------- MODULE Management -----------------------------
(***************************************************************************)
(* The management side of the proxy: local users, their sessions and       *)
(* teams, the login limiter, and the check of every management request.    *)
(*                                                                         *)
(* Requests are handled concurrently.  A storage method holds the          *)
(* connection's mutex and a limiter method the limiter's, so each is one   *)
(* step, and between two of them other requests take theirs: what a        *)
(* handler has read may be stale when it acts on it.  Users, sessions,     *)
(* teams and memberships are in SQLite, the limiter is in memory only.     *)
(*                                                                         *)
(* A user stands for a trimmed, unique user name and its row, a session    *)
(* for a token, which is never issued twice.                               *)
(***************************************************************************)
EXTENDS Naturals, FiniteSets

CONSTANTS
    Handlers,          \* requests handled at the same time
    Users,             \* user names
    Admin,             \* the name bootstrap_admin_user gives
    Teams,             \* names of teams
    Groups,            \* alert groups
    Passwords,         \* passwords of twelve characters or more
    MaxSessions,       \* bound: how many sessions are ever created
    Configs,           \* configurations a start may find
    Databases,         \* databases the first start may find
    Requests,          \* requests clients may send
    LoginFailureLimit, \* LOGIN_FAILURE_LIMIT
    LockTime,          \* LOGIN_LOCKOUT_MILLIS
    SessionTtl,        \* management.session_ttl_secs
    Horizon,           \* bound: until when time passes
    MaxRequests,       \* bound: how many requests are sent
    MaxCrashes,        \* bound: how many times the process may end
    MaxFaults          \* bound: how many storage methods end half-way

Sessions == 1 .. MaxSessions
Nobody == "nobody"     \* no user, no team: None
Weak == "weak"         \* a password of less than twelve characters
Unset == "unset"       \* the bootstrap variable is not set, or empty

Roles == {"admin", "operator", "viewer", "scoped"}
TeamRoles == {"owner", "operator", "viewer"}

(* What the model keeps of a configuration: management.auth or server.auth *)
(* is there, management.allow_unauthenticated, management.local_users,     *)
(* server.bind is a loopback address, and the bootstrap password.          *)
Config == [bearer : BOOLEAN, anonymous : BOOLEAN, localUsers : BOOLEAN,
           loopback : BOOLEAN, bootstrap : Passwords \cup {Weak, Unset}]

(* A request: the operation and its arguments, and the credentials: a      *)
(* valid bearer token, a session cookie, the session's CSRF token.         *)
Input == [op : {"login", "logout", "create_user", "change_user_password",
                "disable_user", "create_team", "set_team_membership",
                "remove_team_membership", "operate", "list"},
          user : Users \cup {Nobody}, team : Teams \cup {Nobody},
          group : Groups \cup {Nobody}, role : Roles \cup TeamRoles,
          password : Passwords \cup {Weak}, bearer : BOOLEAN,
          session : {0} \cup Sessions, csrf : BOOLEAN]

(* Users, teams, memberships and alert groups: what lasts.                 *)
Database == [users : [Users -> [status : {"none", "active", "disabled"}, role : Roles,
                                password : Passwords \cup {Weak}]],
             teams : SUBSET Teams,
             members : [Users -> [Teams -> TeamRoles \cup {"none"}]],
             groupTeam : [Groups -> Teams \cup {Nobody}]]

ASSUME ManagementAssumption ==
    /\ Admin \in Users
    /\ Nobody \notin Users \cup Teams \cup Groups
    /\ Weak \notin Passwords /\ Unset \notin Passwords
    /\ Configs \subseteq Config
    /\ Databases \subseteq Database
    /\ Requests \subseteq Input
    /\ IsFiniteSet(Handlers)
    /\ \A in \in Requests :  \* every operation comes with its arguments
          /\ in.op \in {"login", "create_user", "change_user_password", "disable_user",
                       "set_team_membership", "remove_team_membership"} => in.user \in Users
          /\ in.op \in {"create_team", "set_team_membership", "remove_team_membership"} =>
                in.team \in Teams
          /\ in.op = "operate" => in.group \in Groups
    /\ {MaxSessions, Horizon, MaxRequests, MaxCrashes, MaxFaults} \subseteq Nat
    /\ {LoginFailureLimit, LockTime, SessionTtl} \subseteq Nat \ {0}

VARIABLES
    up,        \* the process runs
    config,    \* its configuration
    users,     \* users
    sessions,  \* auth_sessions
    teams,     \* teams
    members,   \* team_memberships: the role of a user in a team
    groupTeam, \* alert_groups.team_id
    attempts,  \* LoginAttemptLimiter: the entry of each name
    req,       \* the request each handler works on
    now,       \* the clock
    arrived,   \* how many requests have been sent
    crashes,   \* how often the process has ended
    faults,    \* how often a storage method has ended half-way
    torn       \* history: users whose sessions such a method has left

stored == <<users, sessions, teams, members, groupTeam>>
bounds == <<arrived, crashes, faults, torn>>
vars == <<up, config, stored, attempts, req, now, bounds>>

NoSession == [state |-> "none", user |-> Nobody, expires |-> 0,
              password |-> Weak, late |-> FALSE]
NoAttempts == [failures |-> 0, until |-> 0]

NoInput == [op |-> "list", user |-> Nobody, team |-> Nobody, group |-> Nobody,
            role |-> "viewer", password |-> Weak, bearer |-> FALSE,
            session |-> 0, csrf |-> FALSE]

(* The request a handler works on: its input, the principal it was         *)
(* authenticated as, the groups it is to be shown; and, as history, the    *)
(* ways in that were open to it and the groups without team on arrival,    *)
(* and the teams in which its user's role has changed since it was read.   *)
NoRequest == [step |-> "idle", in |-> NoInput,
              auth |-> "none", actor |-> Nobody, rank |-> "viewer",
              own |-> [t \in Teams |-> "none"], shown |-> {},
              entitled |-> {}, unowned |-> {}, overtaken |-> {}]

WaysIn == {"anonymous", "bearer", "session", "legacy-loopback"}

TypeOK ==
    /\ up \in BOOLEAN
    /\ config \in Config
    /\ [users |-> users, teams |-> teams, members |-> members,
        groupTeam |-> groupTeam] \in Database
    /\ sessions \in [Sessions ->
          [state : {"none", "live", "deleted"}, user : Users \cup {Nobody},
           expires : Nat, password : Passwords \cup {Weak}, late : BOOLEAN]]
    /\ attempts \in [Users -> [failures : Nat, until : Nat]]
    /\ req \in [Handlers ->
          [step : {"idle", "checking", "lookup", "failed", "sweeping", "creating",
                   "clearing", "leaving", "deleting", "authenticating",
                   "memberships", "legacy", "scoping", "acting", "listing"},
           in : Input, auth : WaysIn \cup {"none"}, actor : Users \cup {Nobody},
           rank : Roles, own : [Teams -> TeamRoles \cup {"none"}],
           shown : SUBSET Groups, entitled : SUBSET WaysIn,
           unowned : SUBSET Groups, overtaken : SUBSET Teams]]
    /\ {now, arrived, crashes, faults} \subseteq Nat
    /\ torn \subseteq Users

At(h, step) == req[h].step = step
GoTo(h, step) == req' = [req EXCEPT ![h].step = step]
End(h) == req' = [req EXCEPT ![h] = NoRequest]

Exists(u) == users[u].status # "none"
ActiveAdmins == {u \in Users : users[u].status = "active" /\ users[u].role = "admin"}

(* session_user: the session is there and not over, its user is active.    *)
Usable(s) ==
    /\ sessions[s].state = "live"
    /\ sessions[s].expires > now
    /\ users[sessions[s].user].status = "active"
----------------------------------------------------------------------------
(* Storage methods that delete sessions.                                   *)

(* Mutant of Without: the rows become nobody's.                            *)
WithoutRows(gone) ==
    [s \in Sessions |-> IF s \in gone THEN [state |-> "deleted"] ELSE sessions[s]]

Without(gone) ==
    [s \in Sessions |->
        IF s \in gone THEN [sessions[s] EXCEPT !.state = "deleted"] ELSE sessions[s]]

Expired == {s \in Sessions : sessions[s].state = "live" /\ sessions[s].expires <= now}

SessionsOf(u) == {s \in Sessions : sessions[s].state = "live" /\ sessions[s].user = u}
----------------------------------------------------------------------------
(* Startup and the end of the process.                                     *)

(* validate_management_exposure                                            *)
ExposureIsValid(c) == c.bearer \/ c.anonymous \/ c.localUsers \/ c.loopback

(* bootstrap_admin_user has work to do.                                    *)
NeedsBootstrap(c) ==
    c.localUsers /\ c.bootstrap # Unset /\ \A u \in Users : ~Exists(u)

(* The part of the start that concerns management: the configuration is    *)
(* checked, expired sessions are swept, the first user is created.  A weak *)
(* bootstrap password ends the start after the sweep.                      *)
Boot ==
    /\ ~up
    /\ \E c \in Configs :
          /\ ExposureIsValid(c)
          /\ config' = c
          /\ up' = ~(NeedsBootstrap(c) /\ c.bootstrap = Weak)
          /\ users' = IF NeedsBootstrap(c) /\ c.bootstrap # Weak
                         THEN [users EXCEPT ![Admin] =
                                 [status |-> "active", role |-> "admin",
                                  password |-> c.bootstrap]]
                         ELSE users
    /\ sessions' = Without(Expired)
    /\ UNCHANGED <<teams, members, groupTeam, attempts, req, now, bounds>>

(* Requests and the limiter's entries are in memory.                       *)
Crash ==
    /\ up
    /\ crashes < MaxCrashes
    /\ crashes' = crashes + 1
    /\ up' = FALSE
    /\ attempts' = [u \in Users |-> NoAttempts]
    /\ req' = [h \in Handlers |-> NoRequest]
    /\ UNCHANGED <<config, stored, now, arrived, faults, torn>>

Tick ==
    /\ now < Horizon
    /\ now' = now + 1
    /\ UNCHANGED <<up, config, stored, attempts, req, bounds>>

(* An event of a route with an owner: store_event_with_team gives its      *)
(* group the team, if the team exists and the group has none yet.          *)
OwnGroup(g, t) ==
    /\ up
    /\ t \in teams
    /\ groupTeam[g] = Nobody
    /\ groupTeam' = [groupTeam EXCEPT ![g] = t]
    /\ UNCHANGED <<up, config, users, sessions, teams, members, attempts, req, now, bounds>>
----------------------------------------------------------------------------
(* A request arrives.  The history records through which ways in it could  *)
(* have passed at that moment.                                             *)

EntitledNow(in) ==
    {way \in WaysIn :
        CASE way = "anonymous" -> config.anonymous
          [] way = "bearer"    -> config.bearer /\ in.bearer
          [] way = "session"   -> config.localUsers /\ in.session # 0 /\ Usable(in.session)
          [] OTHER -> /\ config.loopback /\ ~config.bearer
                      /\ config.localUsers => \A u \in Users : ~Exists(u)}

FirstStep(op) ==
    CASE op = "login"  -> "checking"
      [] op = "logout" -> "leaving"
      [] OTHER         -> "authenticating"

Arrive(h) ==
    /\ up
    /\ At(h, "idle")
    /\ arrived < MaxRequests
    /\ arrived' = arrived + 1
    /\ \E in \in Requests :
          /\ in.session # 0 => sessions[in.session].state # "none"
          /\ in.op = "login" =>
                Cardinality({k \in Handlers : req[k].in.op = "login"})
                    < Cardinality({s \in Sessions : sessions[s].state = "none"})
          /\ req' = [req EXCEPT ![h] =
                [NoRequest EXCEPT !.step = FirstStep(in.op), !.in = in,
                                  !.entitled = EntitledNow(in),
                                  !.unowned = {g \in Groups : groupTeam[g] = Nobody}]]
    /\ UNCHANGED <<up, config, stored, attempts, now, crashes, faults, torn>>
----------------------------------------------------------------------------
(* login                                                                   *)

(* Mutant of CheckLogin: the lock is not looked at.                        *)
CheckLoginUnlocked(h) ==
    /\ At(h, "checking")
    /\ IF config.localUsers THEN GoTo(h, "lookup") ELSE End(h)
    /\ UNCHANGED <<up, config, stored, attempts, now, bounds>>

(* check_allowed: an entry whose lock is over is removed.                  *)
CheckLogin(h) ==
    LET u == req[h].in.user
        locked == attempts[u].until > now
    IN  /\ At(h, "checking")
        /\ attempts' = IF config.localUsers /\ ~locked /\ attempts[u].until > 0
                          THEN [attempts EXCEPT ![u] = NoAttempts]
                          ELSE attempts
        /\ IF config.localUsers /\ ~locked THEN GoTo(h, "lookup") ELSE End(h)
        /\ UNCHANGED <<up, config, stored, now, bounds>>

(* The hash in the row verifies the password and no other.                 *)
PasswordHolds(u, password) ==
    password # Weak /\ users[u].password = password

(* authenticate_user, then the row it has read is looked at.               *)
LookUp(h) ==
    LET in == req[h].in
    IN  /\ At(h, "lookup")
        /\ IF users[in.user].status = "active" /\ PasswordHolds(in.user, in.password)
              THEN GoTo(h, "sweeping")
              ELSE GoTo(h, "failed")
        /\ UNCHANGED <<up, config, stored, attempts, now, bounds>>

(* record_failure; the answer is 401.                                      *)
RecordFailure(h) ==
    LET u == req[h].in.user
        failures == attempts[u].failures + 1
    IN  /\ At(h, "failed")
        /\ attempts' = [attempts EXCEPT ![u] =
              [failures |-> failures,
               until |-> IF failures >= LoginFailureLimit THEN now + LockTime
                                                          ELSE @.until]]
        /\ End(h)
        /\ UNCHANGED <<up, config, stored, now, bounds>>

SweepSessions(h) ==
    /\ At(h, "sweeping")
    /\ sessions' = Without(Expired)
    /\ GoTo(h, "creating")
    /\ UNCHANGED <<up, config, users, teams, members, groupTeam, attempts, now, bounds>>

(* The session remembers, as history, the password it was opened with and  *)
(* whether that was outdated by then.                                      *)
CreateSession(h) ==
    LET in == req[h].in
    IN  /\ At(h, "creating")
        /\ \E s \in Sessions :
              /\ sessions[s].state = "none"
              /\ \A r \in 1 .. (s - 1) : sessions[r].state # "none"
              /\ sessions' = [sessions EXCEPT ![s] =
                    [state |-> "live", user |-> in.user, expires |-> now + SessionTtl,
                     password |-> in.password,
                     late |-> users[in.user].password # in.password]]
        /\ GoTo(h, "clearing")
        /\ UNCHANGED <<up, config, users, teams, members, groupTeam, attempts, now, bounds>>

(* update_last_login, record_success                                       *)
ClearAttempts(h) ==
    /\ At(h, "clearing")
    /\ attempts' = [attempts EXCEPT ![req[h].in.user] = NoAttempts]
    /\ End(h)
    /\ UNCHANGED <<up, config, stored, now, bounds>>

Login(h) ==
    \/ CheckLogin(h) \/ LookUp(h) \/ RecordFailure(h)
    \/ SweepSessions(h) \/ CreateSession(h) \/ ClearAttempts(h)
----------------------------------------------------------------------------
(* logout: a session that still works needs its CSRF token, any other      *)
(* token is deleted without one.                                           *)
Leave(h) ==
    LET in == req[h].in
        found == config.localUsers /\ in.session # 0 /\ Usable(in.session)
    IN  /\ At(h, "leaving")
        /\ sessions' = IF config.localUsers /\ in.session # 0 /\ ~found
                          THEN Without({in.session}) ELSE sessions
        /\ IF in.session # 0 /\ (found => in.csrf) THEN GoTo(h, "deleting") ELSE End(h)
        /\ UNCHANGED <<up, config, users, teams, members, groupTeam, attempts, now, bounds>>

DeleteSession(h) ==
    /\ At(h, "deleting")
    /\ sessions' = Without({req[h].in.session})
    /\ End(h)
    /\ UNCHANGED <<up, config, users, teams, members, groupTeam, attempts, now, bounds>>

Logout(h) == Leave(h) \/ DeleteSession(h)
----------------------------------------------------------------------------
(* Every other request is authenticated first (authenticate_management),   *)
(* then its permission, its CSRF token and its input are looked at.        *)

Allows(rank, permission) ==
    \/ rank = "admin"
    \/ rank = "operator" /\ permission \in {"read", "operate"}
    \/ rank = "viewer" /\ permission = "read"

OperatingRoles == {"owner", "operator"}

(* require_management, require_lifecycle_management, require_read_...      *)
Permitted(r) ==
    CASE r.in.op = "operate" -> \/ Allows(r.rank, "operate")
                                \/ \E t \in Teams : r.own[t] \in OperatingRoles
      [] r.in.op = "list"    -> \/ Allows(r.rank, "read")
                                \/ \E t \in Teams : r.own[t] # "none"
      [] OTHER               -> Allows(r.rank, "admin")

CsrfHolds(r) == r.in.op = "list" \/ r.auth # "session" \/ r.in.csrf

(* Nobody disables himself, and passwords have twelve characters.          *)
InputHolds(r) ==
    /\ r.in.op = "disable_user" => r.actor # r.in.user
    /\ r.in.op \in {"create_user", "change_user_password"} => r.in.password # Weak

(* The request goes on, or it is answered 401, 403 or 500.                 *)
Admit(r) ==
    IF Permitted(r) /\ CsrfHolds(r) /\ InputHolds(r)
       THEN [r EXCEPT !.step = IF r.in.op = "operate" THEN "scoping" ELSE "acting"]
       ELSE NoRequest

AsAdmin(r, way) == [r EXCEPT !.auth = way, !.rank = "admin"]

(* Mutant of AsUser: whoever has a session row is let in.                  *)
AsUserUnchecked(r) ==
    [r EXCEPT !.step = "memberships", !.auth = "session",
              !.actor = sessions[r.in.session].user,
              !.rank = users[sessions[r.in.session].user].role]

(* authenticate_session: a session that works is followed by the look at   *)
(* its user's memberships; one that does not is deleted.                   *)
AsUser(r) ==
    IF Usable(r.in.session)
       THEN [r EXCEPT !.step = "memberships", !.auth = "session",
                      !.actor = sessions[r.in.session].user,
                      !.rank = users[sessions[r.in.session].user].role]
       ELSE [r EXCEPT !.step = "legacy"]

Authenticate(h) ==
    LET r == req[h]
        byBearer == config.bearer /\ r.in.bearer
        bySession == config.localUsers /\ r.in.session # 0
    IN  /\ At(h, "authenticating")
        /\ \/ /\ config.anonymous
              /\ req' = [req EXCEPT ![h] = Admit(AsAdmin(r, "anonymous"))]
              /\ UNCHANGED sessions
           \/ /\ ~config.anonymous /\ byBearer
              /\ req' = [req EXCEPT ![h] = Admit(AsAdmin(r, "bearer"))]
              /\ UNCHANGED sessions
           \/ /\ ~config.anonymous /\ ~byBearer /\ bySession
              /\ req' = [req EXCEPT ![h] = AsUser(r)]
              /\ sessions' = IF Usable(r.in.session) THEN sessions
                                                     ELSE Without({r.in.session})
           \/ /\ ~config.anonymous /\ ~byBearer /\ ~bySession
              /\ GoTo(h, "legacy")
              /\ UNCHANGED sessions
        /\ UNCHANGED <<up, config, users, teams, members, groupTeam, attempts, now, bounds>>

ReadMemberships(h) ==
    /\ At(h, "memberships")
    /\ req' = [req EXCEPT ![h] = Admit([@ EXCEPT !.own = members[req[h].actor]])]
    /\ UNCHANGED <<up, config, stored, attempts, now, bounds>>

(* Mutant of LegacyOpen: users who exist do not close the door.            *)
LegacyOpenToAll == ~config.bearer /\ config.loopback

(* legacy_loopback_management_open                                         *)
LegacyOpen ==
    /\ ~config.bearer
    /\ config.localUsers => \A u \in Users : ~Exists(u)
    /\ config.loopback

TryLegacy(h) ==
    /\ At(h, "legacy")
    /\ req' = [req EXCEPT ![h] = IF LegacyOpen THEN Admit(AsAdmin(@, "legacy-loopback"))
                                               ELSE NoRequest]
    /\ UNCHANGED <<up, config, stored, attempts, now, bounds>>

(* Mutant of CanOperate: an operator of one team operates for all.         *)
CanOperateAnything(r, team) ==
    Allows(r.rank, "operate") \/ \E t \in Teams : r.own[t] \in OperatingRoles

(* can_operate_team: a group without team is for global operators.         *)
CanOperate(r, team) ==
    Allows(r.rank, "operate") \/ (team \in Teams /\ r.own[team] \in OperatingRoles)

(* require_group_operation, require_delivery_operation                     *)
Scope(h) ==
    /\ At(h, "scoping")
    /\ IF CanOperate(req[h], groupTeam[req[h].in.group])
          THEN GoTo(h, "acting") ELSE End(h)
    /\ UNCHANGED <<up, config, stored, attempts, now, bounds>>

Authorize(h) == Authenticate(h) \/ ReadMemberships(h) \/ TryLegacy(h) \/ Scope(h)
----------------------------------------------------------------------------
(* The operations.                                                         *)

Acts(h, op) == At(h, "acting") /\ req[h].in.op = op

(* A method of several statements that is not a transaction: one fails, or *)
(* the process ends, after the first.                                      *)
EndsHalfWay(u) ==
    /\ faults < MaxFaults
    /\ faults' = faults + 1
    /\ torn' = torn \cup {u}
    /\ UNCHANGED sessions

(* The name is unique; a second insertion fails.                           *)
CreateUser(h) ==
    LET in == req[h].in
    IN  /\ Acts(h, "create_user")
        /\ users' = IF Exists(in.user) \/ in.role \notin Roles THEN users
                       ELSE [users EXCEPT ![in.user] =
                               [status |-> "active", role |-> in.role,
                                password |-> in.password]]
        /\ End(h)
        /\ UNCHANGED <<up, config, sessions, teams, members, groupTeam, attempts, now, bounds>>

(* Mutant of Revoke: no session is deleted.                                *)
RevokeNothing(u) == UNCHANGED <<sessions, faults, torn>>

(* DELETE FROM auth_sessions, the statement after the user's UPDATE.       *)
Revoke(u) ==
    \/ sessions' = Without(SessionsOf(u)) /\ UNCHANGED <<faults, torn>>
    \/ EndsHalfWay(u)

(* update_user_password                                                    *)
ChangePassword(h) ==
    LET in == req[h].in
    IN  /\ Acts(h, "change_user_password")
        /\ \/ /\ Exists(in.user)
              /\ users' = [users EXCEPT ![in.user].password = in.password]
              /\ Revoke(in.user)
           \/ ~Exists(in.user) /\ UNCHANGED <<users, sessions, faults, torn>>
        /\ End(h)
        /\ UNCHANGED <<up, config, teams, members, groupTeam, attempts, now, arrived, crashes>>

(* Mutant of IsLastAdmin: two admins are one too many to refuse.           *)
IsLastAdminOf(u) == u \in ActiveAdmins /\ Cardinality(ActiveAdmins) <= 0

(* is_active_admin, active_admin_count                                     *)
IsLastAdmin(u) == u \in ActiveAdmins /\ Cardinality(ActiveAdmins) <= 1

(* Storage::disable_user                                                   *)
DisableUser(h) ==
    LET u == req[h].in.user
    IN  /\ Acts(h, "disable_user")
        /\ \/ /\ Exists(u) /\ ~IsLastAdmin(u)
              /\ users' = [users EXCEPT ![u].status = "disabled"]
              /\ Revoke(u)
           \/ ~Exists(u) /\ UNCHANGED <<users, sessions, faults, torn>>
           \/ IsLastAdmin(u) /\ UNCHANGED <<users, sessions, faults, torn>>
        /\ End(h)
        /\ UNCHANGED <<up, config, teams, members, groupTeam, attempts, now, arrived, crashes>>

CreateTeam(h) ==
    /\ Acts(h, "create_team")
    /\ teams' = teams \cup {req[h].in.team}
    /\ End(h)
    /\ UNCHANGED <<up, config, users, sessions, members, groupTeam, attempts, now, bounds>>

(* A user's role in a team becomes another.  The requests that act on the  *)
(* one they have read are overtaken by it, as history.                     *)
SetRole(h, u, t, role) ==
    LET readers == {k \in Handlers : req[k].actor = u /\ ~At(k, "memberships")}
    IN  /\ members' = [members EXCEPT ![u][t] = role]
        /\ req' = [k \in Handlers |->
              IF k = h THEN NoRequest
              ELSE IF k \in readers /\ members[u][t] # role
                      THEN [req[k] EXCEPT !.overtaken = @ \cup {t}] ELSE req[k]]

SetMembership(h) ==
    LET in == req[h].in
    IN  /\ Acts(h, "set_team_membership")
        /\ IF in.team \in teams /\ Exists(in.user) /\ in.role \in TeamRoles
              THEN SetRole(h, in.user, in.team, in.role)
              ELSE End(h) /\ UNCHANGED members
        /\ UNCHANGED <<up, config, users, sessions, teams, groupTeam, attempts, now, bounds>>

RemoveMembership(h) ==
    LET in == req[h].in
    IN  /\ Acts(h, "remove_team_membership")
        /\ SetRole(h, in.user, in.team, "none")
        /\ UNCHANGED <<up, config, users, sessions, teams, groupTeam, attempts, now, bounds>>

(* Acknowledging, resolving or silencing a group and replaying a delivery: *)
(* what they do to it is the business of the other modules.                *)
Operate(h) ==
    /\ Acts(h, "operate")
    /\ End(h)
    /\ UNCHANGED <<up, config, stored, attempts, now, bounds>>

(* All groups, or those of the reader's teams and those without team.      *)
Visible(r) ==
    {g \in Groups : \/ Allows(r.rank, "read")
                    \/ groupTeam[g] = Nobody
                    \/ r.own[groupTeam[g]] # "none"}

ListGroups(h) ==
    /\ Acts(h, "list")
    /\ req' = [req EXCEPT ![h].step = "listing", ![h].shown = Visible(req[h])]
    /\ UNCHANGED <<up, config, stored, attempts, now, bounds>>

(* The events, deliveries or advisories of exactly these groups are listed *)
(* by a storage call of its own.                                           *)
ListRecords(h) ==
    /\ At(h, "listing")
    /\ End(h)
    /\ UNCHANGED <<up, config, stored, attempts, now, bounds>>

Act(h) ==
    \/ CreateUser(h) \/ ChangePassword(h) \/ DisableUser(h)
    \/ CreateTeam(h) \/ SetMembership(h) \/ RemoveMembership(h)
    \/ Operate(h) \/ ListGroups(h) \/ ListRecords(h)

(* The server waits for the next request.                                  *)
Quiet ==
    /\ up
    /\ \A h \in Handlers : At(h, "idle")
    /\ UNCHANGED vars
----------------------------------------------------------------------------
(* A start is to come; the sessions of earlier runs are over.              *)
Init ==
    /\ up = FALSE
    /\ config \in Configs
    /\ \E database \in Databases :
          /\ users = database.users
          /\ teams = database.teams
          /\ members = database.members
          /\ groupTeam = database.groupTeam
    /\ sessions = [s \in Sessions |-> NoSession]
    /\ attempts = [u \in Users |-> NoAttempts]
    /\ req = [h \in Handlers |-> NoRequest]
    /\ now = 1
    /\ arrived = 0 /\ crashes = 0 /\ faults = 0 /\ torn = {}

Next ==
    \/ Boot \/ Crash \/ Tick
    \/ \E g \in Groups, t \in Teams : OwnGroup(g, t)
    \/ \E h \in Handlers :
          Arrive(h) \/ Login(h) \/ Logout(h) \/ Authorize(h) \/ Act(h)
    \/ Quiet

Spec == Init /\ [][Next]_vars
----------------------------------------------------------------------------
(* Properties.                                                             *)

(* Once there is an active admin there is always one: no interleaving of   *)
(* requests, in particular of admins who disable each other, no crash and  *)
(* no half-done method takes the last one away.  About the count and the   *)
(* update in one storage method.                                           *)
AdminRemains == [][ActiveAdmins # {} => ActiveAdmins' # {}]_vars

(* A request that is let in was entitled to that way in when it arrived:   *)
(* no sign-in, password change, disabling, expiry or first user that comes *)
(* between its arrival and its admission, or came before, opens a door to  *)
(* it.  What comes after its admission does not stop it.  About            *)
(* session_user and legacy_loopback_management_open, which read the tables *)
(* in separate calls after the request has arrived.                        *)
AccessIsJustified ==
    \A h \in Handlers :
        req[h].auth # "none" => req[h].auth \in req[h].entitled

(* Who has no global role operates on a group only if he works for its     *)
(* team at that very moment, and is shown what belongs to teams he is in   *)
(* when their records are listed; but for what the code reads too early: a *)
(* role somebody changed after this request had read it still counts, and  *)
(* a group that was nobody's when the request arrived may since have found *)
(* a team.  About authenticate_session, alert_group_team_id and the        *)
(* visible groups, each a call of its own.                                 *)
OnlyOwnTeams ==
    \A h \in Handlers :
        LET r == req[h]
            Stale(g) == groupTeam[g] \in r.overtaken
            Role(g) == members[r.actor][groupTeam[g]]
        IN  /\ Acts(h, "operate") /\ ~Allows(r.rank, "operate") =>
                  /\ groupTeam[r.in.group] \in Teams
                  /\ Role(r.in.group) \in OperatingRoles \/ Stale(r.in.group)
            /\ At(h, "listing") /\ ~Allows(r.rank, "read") =>
                  \A g \in r.shown \ r.unowned :
                      /\ groupTeam[g] \in Teams
                      /\ Role(g) # "none" \/ Stale(g)

(* A session whose password is no longer its user's was late: its login    *)
(* had verified the password before the change and opened the session      *)
(* after it.  The only other exception is a change that ended half-way.    *)
(* About update_user_password's DELETE and the steps of login.             *)
PasswordChangeRevokes ==
    \A s \in Sessions :
        sessions[s].state = "live" =>
            \/ sessions[s].password = users[sessions[s].user].password
            \/ sessions[s].late
            \/ sessions[s].user \in torn

(* However many logins are handled at the same time, the passwords of an   *)
(* account refused since its last sign-in or the end of its last lock are  *)
(* no more than the limit and, beyond it, one for each other handler that  *)
(* had passed the check before.  A sign-in starts the count anew and lifts *)
(* a lock that was set while it was handled (main.rs:143), although "five  *)
(* failed logins lock an account for 15 minutes" (SPEC.md:332-333).        *)
GuessesAreBounded ==
    \A u \in Users :
        attempts[u].failures <= LoginFailureLimit + Cardinality(Handlers) - 1
============================================================================
