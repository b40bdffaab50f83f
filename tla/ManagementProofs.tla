-------------------------- MODULE ManagementProofs --------------------------
(***************************************************************************)
(* Theorems about Management, for any number of users, teams, groups,      *)
(* handlers, sessions, requests, crashes and faults, any configurations    *)
(* and any databases an earlier version left behind.                       *)
(***************************************************************************)
EXTENDS Management, FiniteSetTheorems, TLAPS

UserRow ==
    [status : {"none", "active", "disabled"}, role : Roles,
     password : Passwords \cup {Weak}]

SessionRow ==
    [state : {"none", "live", "deleted"}, user : Users \cup {Nobody},
     expires : Nat, password : Passwords \cup {Weak}, late : BOOLEAN]

Entry == [failures : Nat, until : Nat]

Steps ==
    {"idle", "checking", "lookup", "failed", "sweeping", "creating",
     "clearing", "leaving", "deleting", "authenticating",
     "memberships", "legacy", "scoping", "acting", "listing"}

Request ==
    [step : Steps, in : Input, auth : WaysIn \cup {"none"},
     actor : Users \cup {Nobody}, rank : Roles,
     own : [Teams -> TeamRoles \cup {"none"}],
     shown : SUBSET Groups, entitled : SUBSET WaysIn, unowned : SUBSET Groups,
     overtaken : SUBSET Teams]
----------------------------------------------------------------------------
(* Types.                                                                  *)

(* The type invariant, variable by variable.                               *)
StoredTypes ==
    /\ users \in [Users -> UserRow]
    /\ teams \subseteq Teams
    /\ members \in [Users -> [Teams -> TeamRoles \cup {"none"}]]
    /\ groupTeam \in [Groups -> Teams \cup {Nobody}]
    /\ sessions \in [Sessions -> SessionRow]

Types ==
    /\ up \in BOOLEAN /\ config \in Config
    /\ StoredTypes
    /\ attempts \in [Users -> Entry]
    /\ req \in [Handlers -> Request]
    /\ now \in Nat /\ arrived \in Nat /\ crashes \in Nat /\ faults \in Nat
    /\ torn \subseteq Users

LEMMA TypesAreTypes == TypeOK <=> Types
<1>1. [users |-> users, teams |-> teams, members |-> members, groupTeam |-> groupTeam]
        \in Database
      <=> /\ users \in [Users -> UserRow] /\ teams \subseteq Teams
          /\ members \in [Users -> [Teams -> TeamRoles \cup {"none"}]]
          /\ groupTeam \in [Groups -> Teams \cup {Nobody}]
  BY DEF Database, UserRow
<1> QED
  BY <1>1 DEF TypeOK, Types, StoredTypes, SessionRow, Entry, Request, Steps

LEMMA ConstantTypes ==
    /\ LoginFailureLimit \in Nat \ {0} /\ LockTime \in Nat \ {0} /\ SessionTtl \in Nat
    /\ Sessions \subseteq Nat \ {0}
    /\ Admin \in Users /\ Nobody \notin Users /\ Nobody \notin Teams
    /\ \A in \in Requests : in \in Input
BY ManagementAssumption DEF Sessions

LEMMA NoRequestType ==
    /\ NoInput \in Input /\ NoRequest \in Request
    /\ NoRequest.step = "idle" /\ NoRequest.in = NoInput /\ NoRequest.auth = "none"
    /\ NoRequest.actor = Nobody /\ NoRequest.rank = "viewer"
    /\ NoInput.op = "list" /\ NoInput.session = 0
<1>1. NoInput \in Input
  BY DEF NoInput, Input, Roles
<1>2. [t \in Teams |-> "none"] \in [Teams -> TeamRoles \cup {"none"}]
  OBVIOUS
<1>3. NoRequest \in Request
  BY <1>1, <1>2 DEF NoRequest, Request, Steps, Roles
<1> QED BY <1>1, <1>3 DEF NoRequest, NoInput
----------------------------------------------------------------------------
(* The invariants that hold together.                                      *)

(* A live session belongs to a user who has a row ...                      *)
SessionsAreReal ==
    \A s \in Sessions :
        sessions[s].state = "live" => sessions[s].user \in Users /\ Exists(sessions[s].user)

(* ... and a login that opens one has found that row.                      *)
LoginIsReal(h) ==
    /\ req[h].step \in {"checking", "lookup", "failed", "sweeping", "creating", "clearing"} =>
          req[h].in.op = "login" /\ req[h].in.user \in Users
    /\ req[h].step \in {"sweeping", "creating"} => Exists(req[h].in.user)

(* What a handler works on was sent, by clients who know issued tokens     *)
(* only; a process that is down works on nothing.                          *)
RequestIsReal(h) ==
    /\ req[h].in \in Requests \cup {NoInput}
    /\ ~At(h, "idle") => req[h].in \in Requests
    /\ req[h].in.session # 0 => sessions[req[h].in.session].state # "none"
    /\ ~up \/ At(h, "idle") => req[h] = NoRequest
    /\ At(h, "memberships") => req[h].actor \in Users

Real == SessionsAreReal /\ \A h \in Handlers : LoginIsReal(h) /\ RequestIsReal(h)

(* No door opens to a request that has not been authenticated yet.         *)
DoorsClose ==
    \A h \in Handlers, in \in Input :
        req[h].step \in {"authenticating", "legacy"} /\ req[h].in = in =>
            req[h].auth = "none" /\ EntitledNow(in) \subseteq req[h].entitled

(* A group without team was nobody's already when a request arrived.       *)
GroupsAreKept ==
    \A h \in Handlers, g \in Groups :
        ~At(h, "idle") /\ groupTeam[g] = Nobody => g \in req[h].unowned

(* The handlers that may still record a failure of a name.                 *)
Guessing(u) ==
    {h \in Handlers : req[h].step \in {"lookup", "failed"} /\ req[h].in.user = u}

(* A name that is not locked has failures left, and each handler that has  *)
(* passed the check of its lock adds one at most.                          *)
GuessesLeft ==
    \A u \in Users :
        /\ attempts[u].until = 0 => attempts[u].failures < LoginFailureLimit
        /\ attempts[u].failures + Cardinality(Guessing(u))
              <= LoginFailureLimit + Cardinality(Handlers) - 1
----------------------------------------------------------------------------
(* What the steps of a handler do to its request.                          *)

(* What came with the request and what was noted on its arrival.           *)
SameInput(new, old) ==
    new.in = old.in /\ new.entitled = old.entitled /\ new.unowned = old.unowned

(* ... and whom it was authenticated as.                                   *)
SamePrincipal(new, old) ==
    /\ new.auth = old.auth /\ new.actor = old.actor
    /\ new.rank = old.rank /\ new.own = old.own
    /\ old.overtaken \subseteq new.overtaken

(* A request goes on to another step.                                      *)
LEMMA StepChange ==
    ASSUME NEW r \in Request, NEW step \in Steps
    PROVE  /\ [r EXCEPT !.step = step] \in Request
           /\ [r EXCEPT !.step = step].step = step
           /\ [r EXCEPT !.step = step].shown = r.shown
           /\ SameInput([r EXCEPT !.step = step], r)
           /\ SamePrincipal([r EXCEPT !.step = step], r)
BY DEF Request, SameInput, SamePrincipal

(* Admit answers the request, or lets it go on as who it is.               *)
Admitted(new, old) ==
    /\ new.step = IF old.in.op = "operate" THEN "scoping" ELSE "acting"
    /\ new.shown = old.shown
    /\ SameInput(new, old) /\ SamePrincipal(new, old)

LEMMA AdmitEffect ==
    ASSUME NEW r \in Request
    PROVE  /\ Admit(r) \in Request
           /\ Admit(r) = NoRequest \/ Admitted(Admit(r), r)
<1> DEFINE step == IF r.in.op = "operate" THEN "scoping" ELSE "acting"
<1>1. step \in Steps
  BY DEF Steps
<1>2. /\ [r EXCEPT !.step = step] \in Request
      /\ Admitted([r EXCEPT !.step = step], r)
  BY <1>1, StepChange DEF Admitted
<1>3. Admit(r) = NoRequest \/ Admit(r) = [r EXCEPT !.step = step]
  BY DEF Admit
<1> QED BY <1>2, <1>3, NoRequestType

LEMMA AsAdminEffect ==
    ASSUME NEW r \in Request, NEW way \in WaysIn
    PROVE  /\ AsAdmin(r, way) \in Request
           /\ AsAdmin(r, way).auth = way /\ AsAdmin(r, way).rank = "admin"
           /\ AsAdmin(r, way).shown = r.shown
           /\ SameInput(AsAdmin(r, way), r)
BY DEF AsAdmin, Request, Roles, SameInput

(* A request that a session lets in.                                       *)
LEMMA AsUserEffect ==
    ASSUME Types, SessionsAreReal, NEW r \in Request, r.in.session # 0
    PROVE  /\ AsUser(r) \in Request
           /\ SameInput(AsUser(r), r)
           /\ IF Usable(r.in.session)
                 THEN /\ AsUser(r).step = "memberships" /\ AsUser(r).auth = "session"
                      /\ AsUser(r).actor \in Users
                 ELSE AsUser(r).step = "legacy" /\ AsUser(r).auth = r.auth
<1>1. r.in.session \in Sessions
  BY DEF Request, Input
<1>2. sessions[r.in.session].user \in Users \cup {Nobody}
  BY <1>1 DEF Types, StoredTypes, SessionRow
<1>3. CASE ~Usable(r.in.session)
  BY <1>3, StepChange DEF AsUser, Steps, SamePrincipal
<1>4. CASE Usable(r.in.session)
  <2> DEFINE actor == sessions[r.in.session].user
             rank == users[sessions[r.in.session].user].role
  <2>1. AsUser(r) = [r EXCEPT !.step = "memberships", !.auth = "session",
                              !.actor = actor, !.rank = rank]
    BY <1>4 DEF AsUser
  <2>2. rank \in Roles
    BY <1>1, <1>4 DEF Types, StoredTypes, UserRow, Usable, SessionsAreReal
  <2>3. actor \in Users
    BY <1>1, <1>4 DEF Usable, SessionsAreReal
  <2> HIDE DEF actor, rank
  <2> QED BY <1>4, <2>1, <2>2, <2>3 DEF Request, SameInput, Steps, WaysIn
<1> QED BY <1>3, <1>4

LEMMA GoToEffect ==
    ASSUME Types, NEW h \in Handlers, NEW step \in Steps, GoTo(h, step)
    PROVE  /\ req' \in [Handlers -> Request]
           /\ \A k \in Handlers \ {h} : req'[k] = req[k]
           /\ req'[h].step = step /\ req'[h].shown = req[h].shown
           /\ SameInput(req'[h], req[h]) /\ SamePrincipal(req'[h], req[h])
<1>1. req \in [Handlers -> Request]
  BY DEF Types
<1>2. req' = [req EXCEPT ![h] = [req[h] EXCEPT !.step = step]]
  BY <1>1 DEF GoTo
<1> QED BY <1>1, <1>2, StepChange

LEMMA EndEffect ==
    ASSUME Types, NEW h \in Handlers, End(h)
    PROVE  /\ req' \in [Handlers -> Request]
           /\ \A k \in Handlers \ {h} : req'[k] = req[k]
           /\ req'[h] = NoRequest
BY NoRequestType DEF Types, End

(* Deleting sessions leaves everything else of their rows.                 *)
LEMMA WithoutEffect ==
    ASSUME Types, NEW gone
    PROVE  /\ Without(gone) \in [Sessions -> SessionRow]
           /\ \A s \in Sessions :
                 IF s \in gone
                    THEN /\ Without(gone)[s].state = "deleted"
                         /\ Without(gone)[s].user = sessions[s].user
                    ELSE Without(gone)[s] = sessions[s]
<1>1. sessions \in [Sessions -> SessionRow]
  BY DEF Types, StoredTypes
<1>2. \A s \in Sessions :
         /\ [sessions[s] EXCEPT !.state = "deleted"] \in SessionRow
         /\ [sessions[s] EXCEPT !.state = "deleted"].state = "deleted"
         /\ [sessions[s] EXCEPT !.state = "deleted"].user = sessions[s].user
  BY <1>1 DEF SessionRow
<1> QED BY <1>1, <1>2 DEF Without
----------------------------------------------------------------------------
(* What a step may do: to the tables ...                                   *)

Revoked(u) ==
    u \in torn' \/ \A s \in Sessions : sessions'[s].state = "live" => sessions'[s].user # u

(* One user is created, or an existing one gets a password or is disabled. *)
UsersMove ==
    \/ UNCHANGED users
    \/ \E u \in Users :
          /\ \A v \in Users \ {u} : users'[v] = users[v]
          /\ \/ ~Exists(u) /\ users'[u].status = "active"
             \/ /\ Exists(u) /\ Revoked(u)
                /\ users'[u].status = users[u].status /\ users'[u].role = users[u].role
             \/ /\ Exists(u) /\ ~IsLastAdmin(u)
                /\ users'[u].status = "disabled" /\ users'[u].role = users[u].role
                /\ users'[u].password = users[u].password

(* A session is opened once and for all.                                   *)
SessionMove(s) ==
    \/ sessions'[s] = sessions[s]
    \/ sessions'[s].state = "deleted" /\ sessions'[s].user = sessions[s].user
    \/ /\ sessions[s].state = "none" /\ UNCHANGED users
       /\ sessions'[s].user \in Users /\ Exists(sessions'[s].user)
       /\ sessions'[s].password = users[sessions'[s].user].password \/ sessions'[s].late

GroupMove(g) ==
    \/ groupTeam'[g] = groupTeam[g]
    \/ groupTeam[g] = Nobody /\ groupTeam'[g] \in Teams

(* A role changes; who has read the old one is answered or overtaken.      *)
MembersMove ==
    \A u \in Users, t \in Teams, k \in Handlers :
        members'[u][t] # members[u][t] =>
            \/ req'[k] = NoRequest
            \/ req[k].actor = u /\ req[k].step # "memberships" => t \in req'[k].overtaken

StoreMoves ==
    /\ UsersMove /\ MembersMove
    /\ \A s \in Sessions : SessionMove(s)
    /\ \A g \in Groups : GroupMove(g)
    /\ torn \subseteq torn' /\ now <= now'

(* ... to the process ...                                                  *)
RunMoves == UNCHANGED <<up, config>> \/ \A h \in Handlers : req'[h] = NoRequest

(* ... and to the request of each handler.                                 *)
Arrives(h) ==
    /\ UNCHANGED <<up, config, stored, now>> /\ up
    /\ At(h, "idle") /\ req'[h].auth = "none"
    /\ req'[h].in \in Requests
    /\ req'[h].step = FirstStep(req'[h].in.op)
    /\ req'[h].in.session # 0 => sessions[req'[h].in.session].state # "none"
    /\ req'[h].entitled = EntitledNow(req'[h].in)
    /\ req'[h].unowned = {g \in Groups : groupTeam[g] = Nobody}

GoesOn(h, from, to) ==
    /\ req[h].step = from /\ req'[h].step = to
    /\ SameInput(req'[h], req[h]) /\ SamePrincipal(req'[h], req[h])

Proceeds(h) ==
    \/ GoesOn(h, "checking", "lookup")
    \/ GoesOn(h, "lookup", "sweeping") /\ Exists(req[h].in.user) /\ UNCHANGED users
    \/ GoesOn(h, "lookup", "failed")
    \/ GoesOn(h, "sweeping", "creating")
    \/ GoesOn(h, "creating", "clearing")
    \/ GoesOn(h, "leaving", "deleting")
    \/ GoesOn(h, "authenticating", "legacy")
    \/ /\ GoesOn(h, "scoping", "acting")
       /\ CanOperate(req[h], groupTeam[req[h].in.group]) /\ UNCHANGED groupTeam
    \/ /\ GoesOn(h, "acting", "listing") /\ req[h].in.op = "list"
       /\ req'[h].shown = Visible(req[h]) /\ UNCHANGED groupTeam

(* A request is let in, its permission is still to be looked at or holds.  *)
LetIn(h) ==
    /\ req[h].step \in {"authenticating", "legacy"}
    /\ SameInput(req'[h], req[h])
    /\ req'[h].auth \in EntitledNow(req[h].in)
    /\ req'[h].step \in {"memberships", "scoping", "acting"}
    /\ IF req'[h].step = "memberships" THEN req'[h].actor \in Users
                                       ELSE req'[h].rank = "admin"
    /\ req[h].in.op = "operate" => req'[h].step # "acting"

Recognised(h) ==
    /\ req[h].step = "memberships"
    /\ SameInput(req'[h], req[h]) /\ req'[h].auth = req[h].auth
    /\ req'[h].actor = req[h].actor /\ UNCHANGED members
    /\ req'[h].own = members[req[h].actor]
    /\ req'[h].step = IF req[h].in.op = "operate" THEN "scoping" ELSE "acting"

(* The role of a request's user changes while it is handled.               *)
Overtaken(h) ==
    /\ req[h].actor \in Users
    /\ req'[h].step = req[h].step /\ req'[h].shown = req[h].shown
    /\ SameInput(req'[h], req[h]) /\ SamePrincipal(req'[h], req[h])

RequestMove(h) ==
    \/ req'[h] \in {req[h], NoRequest}
    \/ Overtaken(h)
    \/ Arrives(h) \/ Proceeds(h) \/ LetIn(h) \/ Recognised(h)

Moves == StoreMoves /\ RunMoves /\ \A h \in Handlers : RequestMove(h)

LEMMA TablesUnmoved ==
    ASSUME Types, UNCHANGED <<stored, now, torn>>
    PROVE  StoreMoves
BY DEF Types, StoreMoves, MembersMove, UsersMove, SessionMove, GroupMove, stored

(* A storage method that deletes sessions.                                 *)
LEMMA SessionsDeleted ==
    ASSUME Types, NEW gone, sessions' = Without(gone)
    PROVE  /\ sessions' \in [Sessions -> SessionRow]
           /\ \A s \in Sessions : SessionMove(s)
           /\ \A s \in gone \cap Sessions : sessions'[s].state = "deleted"
BY WithoutEffect DEF SessionMove

(* Steps of the process, of time and of the intake of alerts.              *)
LEMMA ProcessSteps ==
    ASSUME Types, Real,
           \/ Boot \/ Crash \/ Tick \/ Quiet
           \/ \E g \in Groups, t \in Teams : OwnGroup(g, t)
    PROVE  Types' /\ Moves
<1>1. CASE Boot
  <2>1. \A h \in Handlers : req'[h] = NoRequest
    BY <1>1 DEF Boot, Real, RequestIsReal
  <2>2. \A s \in Sessions : SessionMove(s)
    BY <1>1, SessionsDeleted DEF Boot
  <2>3. PICK c \in Configs :
           /\ config' = c /\ up' = ~(NeedsBootstrap(c) /\ c.bootstrap = Weak)
           /\ users' = IF NeedsBootstrap(c) /\ c.bootstrap # Weak
                          THEN [users EXCEPT ![Admin] =
                                  [status |-> "active", role |-> "admin",
                                   password |-> c.bootstrap]]
                          ELSE users
    BY <1>1 DEF Boot
  <2>4. c \in Config /\ up' \in BOOLEAN
    BY <2>3, ManagementAssumption
  <2>5. UsersMove /\ users' \in [Users -> UserRow]
    <3>1. CASE NeedsBootstrap(c) /\ c.bootstrap # Weak
      <4>1. [status |-> "active", role |-> "admin", password |-> c.bootstrap] \in UserRow
        BY <2>4, <3>1 DEF Config, NeedsBootstrap, UserRow, Roles
      <4> QED
        BY <2>3, <3>1, <4>1, ConstantTypes
        DEF NeedsBootstrap, UsersMove, Types, StoredTypes
    <3> QED BY <2>3, <3>1 DEF UsersMove, Types, StoredTypes
  <2>6. sessions' \in [Sessions -> SessionRow]
    BY <1>1, SessionsDeleted DEF Boot
  <2>7. UNCHANGED <<teams, members, groupTeam, attempts, req, now, bounds>>
    BY <1>1 DEF Boot
  <2>8. Types'
    BY <2>3, <2>4, <2>5, <2>6, <2>7 DEF Types, StoredTypes, bounds
  <2>9. Moves
    BY <2>1, <2>2, <2>5, <2>7
    DEF Types, Moves, StoreMoves, MembersMove, RunMoves, RequestMove, GroupMove, bounds
  <2> QED BY <2>8, <2>9
<1>2. CASE Crash
  <2>1. Types'
    <3>1. attempts' \in [Users -> Entry] /\ req' \in [Handlers -> Request]
      BY <1>2, NoRequestType DEF Crash, NoAttempts, Entry
    <3>2. crashes' \in Nat /\ up' = FALSE
      BY <1>2 DEF Crash, Types
    <3>3. UNCHANGED <<config, stored, now, arrived, faults, torn>>
      BY <1>2 DEF Crash
    <3> QED BY <3>1, <3>2, <3>3 DEF Types, StoredTypes, stored
  <2>2. Moves
    BY <1>2, TablesUnmoved DEF Crash, Types, Moves, RunMoves, RequestMove
  <2> QED BY <2>1, <2>2
<1>3. CASE Tick
  <2>1. Types'
    BY <1>3 DEF Tick, Types, StoredTypes, stored, bounds
  <2>2. StoreMoves
    BY <1>3 DEF Tick, Types, StoreMoves, MembersMove, UsersMove, SessionMove, GroupMove, stored, bounds
  <2> QED BY <1>3, <2>1, <2>2 DEF Tick, Moves, RunMoves, RequestMove
<1>4. CASE Quiet
  BY <1>4, TablesUnmoved
  DEF Quiet, vars, stored, bounds, Types, StoredTypes, Moves, RunMoves, RequestMove
<1>5. ASSUME NEW g \in Groups, NEW t \in Teams, OwnGroup(g, t) PROVE Types' /\ Moves
  <2>1. Types'
    BY <1>5 DEF OwnGroup, Types, StoredTypes, bounds
  <2>2. StoreMoves
    BY <1>5 DEF OwnGroup, Types, StoredTypes, StoreMoves, MembersMove, UsersMove, SessionMove, GroupMove,
                bounds
  <2> QED BY <1>5, <2>1, <2>2 DEF OwnGroup, Moves, RunMoves, RequestMove
<1> QED BY <1>1, <1>2, <1>3, <1>4, <1>5

(* Steps that only arrive, or only lead to the next step of a request.     *)
LEMMA HandlerArrives ==
    ASSUME Types, Real, NEW h \in Handlers, Arrive(h)
    PROVE  Types' /\ Moves
<1>1. PICK in \in Requests :
         /\ in.session # 0 => sessions[in.session].state # "none"
         /\ req' = [req EXCEPT ![h] =
               [NoRequest EXCEPT !.step = FirstStep(in.op), !.in = in,
                                 !.entitled = EntitledNow(in),
                                 !.unowned = {g \in Groups : groupTeam[g] = Nobody}]]
  BY DEF Arrive
<1> DEFINE unowned == {g \in Groups : groupTeam[g] = Nobody}
           new == [NoRequest EXCEPT !.step = FirstStep(in.op), !.in = in,
                                    !.entitled = EntitledNow(in), !.unowned = unowned]
<1>2. /\ new \in Request
      /\ new.step = FirstStep(in.op) /\ new.in = in /\ new.auth = "none"
      /\ new.entitled = EntitledNow(in) /\ new.unowned = unowned
  <2>1. FirstStep(in.op) \in Steps
    BY DEF FirstStep, Steps
  <2>2. EntitledNow(in) \subseteq WaysIn
    BY DEF EntitledNow
  <2> QED BY <2>1, <2>2, NoRequestType, ConstantTypes DEF Request
<1> HIDE DEF new
<1>3. /\ req' \in [Handlers -> Request] /\ req'[h] = new
      /\ \A k \in Handlers \ {h} : req'[k] = req[k]
  BY <1>1, <1>2 DEF Types, new
<1>4. /\ UNCHANGED <<up, config, stored, attempts, now, crashes, faults, torn>>
      /\ up /\ At(h, "idle") /\ arrived' \in Nat
  BY DEF Arrive, Types
<1>5. Types'
  BY <1>3, <1>4 DEF Types, StoredTypes, stored
<1>6. Arrives(h)
  BY <1>1, <1>2, <1>3, <1>4 DEF Arrives
<1> QED BY <1>3, <1>4, <1>5, <1>6, TablesUnmoved DEF Moves, RunMoves, RequestMove

(* The frame of the steps that leave the tables as they are.               *)
LEMMA OneHandlerMoves ==
    ASSUME Types, NEW h \in Handlers,
           UNCHANGED <<up, config>>, StoreMoves,
           \A k \in Handlers \ {h} : req'[k] = req[k],
           RequestMove(h)
    PROVE  Moves
BY DEF Moves, RunMoves, RequestMove

LEMMA LoginSteps ==
    ASSUME Types, Real, NEW h \in Handlers, Login(h)
    PROVE  Types' /\ Moves
<1>1. CASE CheckLogin(h)
  <2> DEFINE u == req[h].in.user
             locked == attempts[u].until > now
  <2>1. attempts' \in [Users -> Entry]
    <3>1. NoAttempts \in Entry
      BY DEF NoAttempts, Entry
    <3> QED BY <1>1, <3>1 DEF CheckLogin, Types
  <2>2. /\ UNCHANGED <<up, config, stored, now, bounds>> /\ At(h, "checking")
        /\ GoTo(h, "lookup") \/ End(h)
    BY <1>1 DEF CheckLogin
  <2> QED
    BY <2>1, <2>2, GoToEffect, EndEffect, TablesUnmoved, OneHandlerMoves
    DEF Types, StoredTypes, stored, bounds, RequestMove, Proceeds, GoesOn, At, Steps
<1>2. CASE LookUp(h)
  <2>1. /\ UNCHANGED <<up, config, stored, attempts, now, bounds>> /\ At(h, "lookup")
        /\ \/ GoTo(h, "sweeping") /\ users[req[h].in.user].status = "active"
           \/ GoTo(h, "failed")
    BY <1>2 DEF LookUp
  <2> QED
    BY <2>1, GoToEffect, TablesUnmoved, OneHandlerMoves
    DEF Types, StoredTypes, stored, bounds, RequestMove, Proceeds, GoesOn, At, Steps, Exists
<1>3. CASE RecordFailure(h)
  <2> DEFINE u == req[h].in.user
             failures == attempts[u].failures + 1
             entry == [failures |-> failures,
                       until |-> IF failures >= LoginFailureLimit THEN now + LockTime
                                                                  ELSE attempts[u].until]
  <2>1. u \in Users /\ attempts' = [attempts EXCEPT ![u] = entry] /\ End(h)
        /\ UNCHANGED <<up, config, stored, now, bounds>>
    BY <1>3 DEF RecordFailure, At, Real, LoginIsReal, Types
  <2>2. entry \in Entry
    BY <2>1, ConstantTypes DEF Types, Entry
  <2> HIDE DEF entry
  <2>3. attempts' \in [Users -> Entry]
    BY <2>1, <2>2 DEF Types
  <2> QED
    BY <2>1, <2>3, EndEffect, TablesUnmoved, OneHandlerMoves
    DEF Types, StoredTypes, stored, bounds, RequestMove
<1>4. CASE SweepSessions(h)
  <2>1. /\ GoTo(h, "creating") /\ At(h, "sweeping") /\ sessions' = Without(Expired)
        /\ UNCHANGED <<up, config, users, teams, members, groupTeam, attempts, now, bounds>>
    BY <1>4 DEF SweepSessions
  <2>2. sessions' \in [Sessions -> SessionRow] /\ \A s \in Sessions : SessionMove(s)
    BY <2>1, SessionsDeleted
  <2>3. StoreMoves
    BY <2>1, <2>2 DEF Types, StoreMoves, MembersMove, UsersMove, GroupMove, bounds
  <2> QED
    BY <2>1, <2>2, <2>3, GoToEffect, OneHandlerMoves
    DEF Types, StoredTypes, bounds, RequestMove, Proceeds, GoesOn, At, Steps
<1>5. CASE CreateSession(h)
  <2> DEFINE in == req[h].in
             late == users[in.user].password # in.password
             new == [state |-> "live", user |-> in.user, expires |-> now + SessionTtl,
                     password |-> in.password, late |-> late]
  <2>1. /\ GoTo(h, "clearing") /\ At(h, "creating")
        /\ UNCHANGED <<up, config, users, teams, members, groupTeam, attempts, now, bounds>>
    BY <1>5 DEF CreateSession
  <2>2. PICK s \in Sessions :
           sessions[s].state = "none" /\ sessions' = [sessions EXCEPT ![s] = new]
    BY <1>5 DEF CreateSession
  <2>3. in.user \in Users /\ Exists(in.user) /\ in \in Input
    BY <2>1 DEF At, Real, LoginIsReal, Types, Request
  <2>4. new \in SessionRow
    <3>1. late \in BOOLEAN /\ now + SessionTtl \in Nat
      BY ConstantTypes DEF Types
    <3> HIDE DEF late
    <3> QED BY <2>3, <3>1 DEF SessionRow, Input
  <2>5. /\ sessions' \in [Sessions -> SessionRow] /\ sessions'[s] = new
        /\ \A r \in Sessions \ {s} : sessions'[r] = sessions[r]
    BY <2>2, <2>4 DEF Types, StoredTypes
  <2>6. SessionMove(s)
    <3>1. new.user = in.user /\ new.password = in.password /\ new.late = late
      OBVIOUS
    <3>2. users[in.user].password = in.password \/ late
      OBVIOUS
    <3> HIDE DEF new, late
    <3> QED BY <2>1, <2>2, <2>3, <2>5, <3>1, <3>2 DEF SessionMove
  <2>7. StoreMoves
    BY <2>1, <2>5, <2>6 DEF Types, StoreMoves, MembersMove, UsersMove, GroupMove, SessionMove, bounds
  <2> QED
    BY <2>1, <2>5, <2>7, GoToEffect, OneHandlerMoves
    DEF Types, StoredTypes, bounds, RequestMove, Proceeds, GoesOn, At, Steps
<1>6. CASE ClearAttempts(h)
  <2>1. attempts' \in [Users -> Entry]
    BY <1>6 DEF ClearAttempts, NoAttempts, Entry, Types
  <2>2. End(h) /\ UNCHANGED <<up, config, stored, now, bounds>>
    BY <1>6 DEF ClearAttempts
  <2> QED
    BY <2>1, <2>2, EndEffect, TablesUnmoved, OneHandlerMoves
    DEF Types, StoredTypes, stored, bounds, RequestMove
<1> QED BY <1>1, <1>2, <1>3, <1>4, <1>5, <1>6 DEF Login

LEMMA LogoutSteps ==
    ASSUME Types, Real, NEW h \in Handlers, Logout(h)
    PROVE  Types' /\ Moves
<1>1. ASSUME NEW gone, sessions' \in {sessions, Without(gone)},
             UNCHANGED <<up, config, users, teams, members, groupTeam, attempts, now, bounds>>,
             \/ GoTo(h, "deleting") /\ At(h, "leaving")
             \/ End(h)
      PROVE  Types' /\ Moves
  <2>1. sessions' \in [Sessions -> SessionRow] /\ \A s \in Sessions : SessionMove(s)
    BY <1>1, SessionsDeleted DEF Types, StoredTypes, SessionMove
  <2>2. StoreMoves
    BY <1>1, <2>1 DEF Types, StoreMoves, MembersMove, UsersMove, GroupMove, bounds
  <2> QED
    BY <1>1, <2>1, <2>2, GoToEffect, EndEffect, OneHandlerMoves
    DEF Types, StoredTypes, bounds, RequestMove, Proceeds, GoesOn, At, Steps
<1>2. CASE Leave(h)
  BY <1>1, <1>2 DEF Leave
<1>3. CASE DeleteSession(h)
  BY <1>1, <1>3 DEF DeleteSession
<1> QED BY <1>2, <1>3 DEF Logout

(* What is open to a request now, way by way.                              *)
LEMMA WaysOpen ==
    ASSUME NEW in
    PROVE  /\ config.anonymous => "anonymous" \in EntitledNow(in)
           /\ config.bearer /\ in.bearer => "bearer" \in EntitledNow(in)
           /\ config.localUsers /\ in.session # 0 /\ Usable(in.session)
                => "session" \in EntitledNow(in)
           /\ LegacyOpen => "legacy-loopback" \in EntitledNow(in)
BY DEF EntitledNow, LegacyOpen, WaysIn

(* A handler's step that only changes its own request.                     *)
LEMMA RequestOnly ==
    ASSUME Types, NEW h \in Handlers, NEW new \in Request,
           req' = [req EXCEPT ![h] = new],
           UNCHANGED <<up, config, stored, attempts, now, bounds>>,
           RequestMove(h)
    PROVE  Types' /\ Moves
BY TablesUnmoved, OneHandlerMoves DEF Types, StoredTypes, stored, bounds

(* Whoever comes in by an open way without being looked up is let in.      *)
LEMMA AdminLetIn ==
    ASSUME Types, NEW h \in Handlers, NEW way \in WaysIn,
           req[h].step \in {"authenticating", "legacy"}, way \in EntitledNow(req[h].in),
           req' = [req EXCEPT ![h] = Admit(AsAdmin(req[h], way))]
    PROVE  Admit(AsAdmin(req[h], way)) \in Request /\ RequestMove(h)
<1> DEFINE admin == AsAdmin(req[h], way)
<1>1. req[h] \in Request /\ req \in [Handlers -> Request]
  BY DEF Types
<1>2. /\ admin \in Request /\ admin.auth = way /\ admin.rank = "admin"
      /\ SameInput(admin, req[h])
  BY <1>1, AsAdminEffect
<1> HIDE DEF admin
<1>3. Admit(admin) \in Request /\ (Admit(admin) = NoRequest \/ Admitted(Admit(admin), admin))
  BY <1>2, AdmitEffect
<1>4. req'[h] = Admit(admin)
  BY <1>1 DEF admin
<1>5. Admitted(Admit(admin), admin) => LetIn(h)
  BY <1>2, <1>4 DEF Admitted, LetIn, SameInput, SamePrincipal
<1> QED BY <1>3, <1>4, <1>5 DEF RequestMove, admin

LEMMA AuthorizeSteps ==
    ASSUME Types, Real, NEW h \in Handlers, Authorize(h)
    PROVE  Types' /\ Moves
<1> DEFINE r == req[h]
<1>a. r \in Request /\ req \in [Handlers -> Request]
  BY DEF Types
<1>1. CASE Authenticate(h)
  <2> DEFINE byBearer == config.bearer /\ r.in.bearer
             bySession == config.localUsers /\ r.in.session # 0
  <2>a. /\ UNCHANGED <<up, config, users, teams, members, groupTeam, attempts, now, bounds>>
        /\ r.step = "authenticating"
    BY <1>1 DEF Authenticate, At
  <2>1. CASE config.anonymous /\ req' = [req EXCEPT ![h] = Admit(AsAdmin(r, "anonymous"))]
              /\ UNCHANGED sessions
    BY <1>a, <2>a, <2>1, WaysOpen, AdminLetIn, RequestOnly DEF WaysIn, stored
  <2>2. CASE byBearer /\ req' = [req EXCEPT ![h] = Admit(AsAdmin(r, "bearer"))]
              /\ UNCHANGED sessions
    BY <1>a, <2>a, <2>2, WaysOpen, AdminLetIn, RequestOnly DEF WaysIn, stored
  <2>3. CASE /\ bySession
             /\ req' = [req EXCEPT ![h] = AsUser(r)]
             /\ sessions' = IF Usable(r.in.session) THEN sessions
                                                    ELSE Without({r.in.session})
    <3>1. /\ AsUser(r) \in Request /\ SameInput(AsUser(r), r)
          /\ IF Usable(r.in.session)
                THEN /\ AsUser(r).step = "memberships" /\ AsUser(r).auth = "session"
                     /\ AsUser(r).actor \in Users
                ELSE AsUser(r) = [r EXCEPT !.step = "legacy"]
      BY <1>a, <2>3, AsUserEffect DEF Real, AsUser
    <3>2. req'[h] = AsUser(r) /\ \A k \in Handlers \ {h} : req'[k] = req[k]
      BY <1>a, <2>3
    <3>3. sessions' \in [Sessions -> SessionRow] /\ \A s \in Sessions : SessionMove(s)
      BY <2>3, SessionsDeleted DEF Types, StoredTypes, SessionMove
    <3>4. StoreMoves
      BY <2>a, <3>3 DEF Types, StoreMoves, MembersMove, UsersMove, GroupMove, bounds
    <3>5. RequestMove(h)
      <4>1. CASE Usable(r.in.session)
        <5>1. LetIn(h)
          BY <2>a, <2>3, <3>1, <3>2, <4>1, WaysOpen DEF LetIn
        <5> QED BY <5>1 DEF RequestMove
      <4>2. CASE ~Usable(r.in.session)
        <5>1. /\ [r EXCEPT !.step = "legacy"].step = "legacy"
              /\ SameInput([r EXCEPT !.step = "legacy"], r)
              /\ SamePrincipal([r EXCEPT !.step = "legacy"], r)
          BY <1>a, StepChange DEF Steps
        <5>2. GoesOn(h, "authenticating", "legacy")
          BY <2>a, <3>1, <3>2, <4>2, <5>1 DEF GoesOn
        <5> QED BY <5>2 DEF RequestMove, Proceeds
      <4> QED BY <4>1, <4>2
    <3>6. Types'
      BY <1>a, <2>a, <2>3, <3>1, <3>3 DEF Types, StoredTypes, bounds
    <3> QED BY <2>a, <3>2, <3>4, <3>5, <3>6, OneHandlerMoves
  <2>4. CASE GoTo(h, "legacy") /\ UNCHANGED sessions
    BY <2>a, <2>4, GoToEffect, TablesUnmoved, OneHandlerMoves
    DEF Types, StoredTypes, stored, bounds, RequestMove, Proceeds, GoesOn, Steps
  <2> QED BY <1>1, <2>1, <2>2, <2>3, <2>4 DEF Authenticate
<1>2. CASE ReadMemberships(h)
  <2> DEFINE own == members[r.actor]
             known == [r EXCEPT !.own = own]
  <2>1. /\ req' = [req EXCEPT ![h] = Admit(known)] /\ r.step = "memberships"
        /\ UNCHANGED <<up, config, stored, attempts, now, bounds>>
    BY <1>2 DEF ReadMemberships, At
  <2>2. own \in [Teams -> TeamRoles \cup {"none"}]
    BY <2>1 DEF Types, StoredTypes, Real, RequestIsReal, At
  <2>3. /\ known \in Request /\ known.auth = r.auth /\ known.actor = r.actor
        /\ known.in = r.in /\ SameInput(known, r) /\ known.own = own
    <3> HIDE DEF own
    <3> QED BY <1>a, <2>2 DEF Request, SameInput
  <2> HIDE DEF known
  <2>4. Admit(known) \in Request /\ (Admit(known) = NoRequest \/ Admitted(Admit(known), known))
    BY <2>3, AdmitEffect
  <2>5. req'[h] = Admit(known)
    BY <1>a, <2>1
  <2>6. Admitted(Admit(known), known) => Recognised(h)
    BY <2>1, <2>3, <2>5 DEF Admitted, Recognised, SameInput, SamePrincipal, stored
  <2>7. RequestMove(h)
    BY <2>4, <2>5, <2>6 DEF RequestMove
  <2> QED BY <2>1, <2>4, <2>7, RequestOnly
<1>3. CASE TryLegacy(h)
  BY <1>a, <1>3, WaysOpen, AdminLetIn, RequestOnly, NoRequestType
  DEF TryLegacy, At, WaysIn, RequestMove
<1>4. CASE Scope(h)
  <2>1. /\ UNCHANGED <<up, config, stored, attempts, now, bounds>> /\ At(h, "scoping")
        /\ \/ GoTo(h, "acting") /\ CanOperate(req[h], groupTeam[req[h].in.group])
           \/ End(h)
    BY <1>4 DEF Scope
  <2> QED
    BY <2>1, GoToEffect, EndEffect, TablesUnmoved, OneHandlerMoves
    DEF Types, StoredTypes, stored, bounds, RequestMove, Proceeds, GoesOn, At, Steps
<1> QED BY <1>1, <1>2, <1>3, <1>4 DEF Authorize

LEMMA RevokeEffect ==
    ASSUME Types, NEW u \in Users, Revoke(u)
    PROVE  /\ sessions' \in [Sessions -> SessionRow]
           /\ \A s \in Sessions : SessionMove(s)
           /\ Revoked(u)
           /\ faults' \in Nat /\ torn' \subseteq Users /\ torn \subseteq torn'
<1>1. CASE sessions' = Without(SessionsOf(u)) /\ UNCHANGED <<faults, torn>>
  <2>1. \A s \in Sessions : sessions'[s].state = "live" => sessions'[s].user # u
    BY <1>1, WithoutEffect DEF SessionsOf
  <2> QED BY <1>1, <2>1, SessionsDeleted DEF Types, Revoked
<1>2. CASE EndsHalfWay(u)
  BY <1>2 DEF EndsHalfWay, Types, StoredTypes, SessionMove, Revoked
<1> QED BY <1>1, <1>2 DEF Revoke

(* A column of a user's row changes.                                       *)
LEMMA UserChange ==
    ASSUME Types, NEW u \in Users,
           NEW password \in Passwords \cup {Weak}, NEW status \in {"active", "disabled"}
    PROVE  /\ [users EXCEPT ![u].password = password] \in [Users -> UserRow]
           /\ [users EXCEPT ![u].password = password][u].status = users[u].status
           /\ [users EXCEPT ![u].password = password][u].role = users[u].role
           /\ [users EXCEPT ![u].status = status] \in [Users -> UserRow]
           /\ [users EXCEPT ![u].status = status][u].status = status
           /\ [users EXCEPT ![u].status = status][u].role = users[u].role
           /\ [users EXCEPT ![u].status = status][u].password = users[u].password
<1>1. users \in [Users -> UserRow]
  BY DEF Types, StoredTypes
<1>2. /\ [users[u] EXCEPT !.password = password] \in UserRow
      /\ [users[u] EXCEPT !.status = status] \in UserRow
  BY <1>1 DEF UserRow
<1>3. /\ [users EXCEPT ![u].password = password]
            = [users EXCEPT ![u] = [users[u] EXCEPT !.password = password]]
      /\ [users EXCEPT ![u].status = status]
            = [users EXCEPT ![u] = [users[u] EXCEPT !.status = status]]
  BY <1>1
<1> QED BY <1>1, <1>2, <1>3 DEF UserRow

(* The operations that end their request and change users or teams alone.  *)
LEMMA Answered ==
    ASSUME Types, NEW h \in Handlers, End(h),
           UNCHANGED <<up, config, sessions, members, attempts, now, bounds, groupTeam>>,
           users' \in [Users -> UserRow], UsersMove, teams' \subseteq Teams
    PROVE  Types' /\ Moves
<1>1. StoreMoves
  BY DEF Types, StoreMoves, MembersMove, SessionMove, GroupMove, bounds
<1> QED
  BY <1>1, EndEffect, OneHandlerMoves DEF Types, StoredTypes, bounds, RequestMove

(* A role changes: its request ends, those that have read it are overtaken.*)
LEMMA RoleIsSet ==
    ASSUME Types, NEW h \in Handlers, NEW u \in Users, NEW t \in Teams,
           NEW role \in TeamRoles \cup {"none"}, SetRole(h, u, t, role),
           UNCHANGED <<up, config, users, sessions, teams, groupTeam, attempts, now, bounds>>
    PROVE  Types' /\ Moves
<1> DEFINE marked(k) == [req[k] EXCEPT !.overtaken = @ \cup {t}]
<1>a. /\ req \in [Handlers -> Request]
      /\ members \in [Users -> [Teams -> TeamRoles \cup {"none"}]]
  BY DEF Types, StoredTypes
<1>1. /\ members' \in [Users -> [Teams -> TeamRoles \cup {"none"}]]
      /\ \A v \in Users, s \in Teams :
            members'[v][s] # members[v][s] => v = u /\ s = t /\ members[u][t] # role
  <2>1. members' = [members EXCEPT ![u][t] = role]
    BY DEF SetRole
  <2> QED BY <1>a, <2>1
<1>2. \A k \in Handlers :
         /\ marked(k) \in Request /\ marked(k).overtaken = req[k].overtaken \cup {t}
         /\ marked(k).step = req[k].step /\ marked(k).shown = req[k].shown
         /\ SameInput(marked(k), req[k]) /\ SamePrincipal(marked(k), req[k])
  BY <1>a DEF Request, SameInput, SamePrincipal
<1>3. \A k \in Handlers :
         req'[k] = IF k = h THEN NoRequest
                   ELSE IF (req[k].actor = u /\ req[k].step # "memberships")
                              /\ members[u][t] # role
                           THEN marked(k) ELSE req[k]
  BY DEF SetRole, At
<1>4. req' \in [Handlers -> Request]
  <2>1. \A k \in Handlers : req'[k] \in Request
    <3> HIDE DEF marked
    <3> QED BY <1>a, <1>2, <1>3, NoRequestType
  <2>2. DOMAIN req' = Handlers /\ req' = [k \in Handlers |-> req'[k]]
    BY DEF SetRole
  <2> QED BY <2>1, <2>2
<1> HIDE DEF marked
<1>5. \A k \in Handlers : RequestMove(k)
  BY <1>2, <1>3 DEF RequestMove, Overtaken
<1>6. MembersMove
  BY <1>1, <1>2, <1>3 DEF MembersMove
<1>7. StoreMoves
  BY <1>6 DEF Types, StoreMoves, UsersMove, SessionMove, GroupMove, bounds
<1>8. Types'
  BY <1>1, <1>4 DEF Types, StoredTypes, bounds
<1> QED BY <1>5, <1>7, <1>8 DEF Moves, RunMoves

LEMMA ActSteps ==
    ASSUME Types, Real, NEW h \in Handlers, Act(h)
    PROVE  Types' /\ Moves
<1> DEFINE in == req[h].in
<1>a. /\ in \in Input
      /\ At(h, "acting") => in \in Requests
      /\ users \in [Users -> UserRow]
      /\ members \in [Users -> [Teams -> TeamRoles \cup {"none"}]]
  BY DEF Types, StoredTypes, Request, Real, RequestIsReal, At
<1>1. CASE CreateUser(h)
  <2> DEFINE new == [status |-> "active", role |-> in.role, password |-> in.password]
  <2>1. in \in Requests /\ in.op = "create_user" /\ in.user \in Users
    BY <1>a, <1>1, ManagementAssumption DEF CreateUser, Acts, At
  <2>2. /\ End(h)
        /\ UNCHANGED <<up, config, sessions, teams, members, groupTeam, attempts, now, bounds>>
        /\ \/ UNCHANGED users
           \/ /\ ~Exists(in.user) /\ in.role \in Roles
              /\ users' = [users EXCEPT ![in.user] = new]
    BY <1>1 DEF CreateUser
  <2>3. in.role \in Roles => new \in UserRow
    BY <1>a DEF UserRow, Input
  <2>4. new.status = "active"
    OBVIOUS
  <2> HIDE DEF new, in
  <2>5. users' \in [Users -> UserRow] /\ UsersMove
    BY <1>a, <2>1, <2>2, <2>3, <2>4 DEF UsersMove
  <2>6. teams' \subseteq Teams
    BY <2>2 DEF Types, StoredTypes
  <2> QED BY <2>2, <2>5, <2>6, Answered
<1>2. CASE ChangePassword(h) \/ DisableUser(h)
  <2>1. in.user \in Users
    BY <1>a, <1>2, ManagementAssumption DEF ChangePassword, DisableUser, Acts, At
  <2>2. /\ End(h)
        /\ UNCHANGED <<up, config, teams, members, groupTeam, attempts, now, arrived, crashes>>
        /\ \/ UNCHANGED <<users, sessions, faults, torn>>
           \/ /\ Exists(in.user) /\ Revoke(in.user)
              /\ users' = [users EXCEPT ![in.user].password = in.password]
           \/ /\ Exists(in.user) /\ ~IsLastAdmin(in.user) /\ Revoke(in.user)
              /\ users' = [users EXCEPT ![in.user].status = "disabled"]
    BY <1>2 DEF ChangePassword, DisableUser
  <2>3. in.password \in Passwords \cup {Weak}
    BY <1>a DEF Input
  <2> HIDE DEF in
  <2>4. CASE UNCHANGED <<users, sessions, faults, torn>>
    BY <1>a, <2>2, <2>4, Answered DEF Types, StoredTypes, bounds, UsersMove
  <2>5. CASE Exists(in.user) /\ Revoke(in.user) /\ ~UNCHANGED <<users, sessions, faults, torn>>
    <3>1. /\ sessions' \in [Sessions -> SessionRow]
          /\ \A s \in Sessions : SessionMove(s)
          /\ Revoked(in.user)
          /\ faults' \in Nat /\ torn' \subseteq Users /\ torn \subseteq torn'
      BY <2>1, <2>5, RevokeEffect
    <3>2. users' \in [Users -> UserRow] /\ UsersMove
      <4>1. CASE users' = [users EXCEPT ![in.user].password = in.password]
        <5>1. /\ users' \in [Users -> UserRow]
              /\ users'[in.user].status = users[in.user].status
              /\ users'[in.user].role = users[in.user].role
          BY <2>1, <2>3, <4>1, UserChange
        <5>2. \A v \in Users \ {in.user} : users'[v] = users[v]
          BY <1>a, <4>1
        <5> QED BY <2>1, <2>5, <3>1, <5>1, <5>2 DEF UsersMove
      <4>2. CASE /\ ~IsLastAdmin(in.user)
                 /\ users' = [users EXCEPT ![in.user].status = "disabled"]
        <5>1. /\ users' \in [Users -> UserRow]
              /\ users'[in.user].status = "disabled"
              /\ users'[in.user].role = users[in.user].role
              /\ users'[in.user].password = users[in.user].password
          BY <2>1, <2>3, <4>2, UserChange
        <5>2. \A v \in Users \ {in.user} : users'[v] = users[v]
          BY <1>a, <4>2
        <5> QED BY <2>1, <2>5, <4>2, <5>1, <5>2 DEF UsersMove
      <4> QED BY <2>2, <2>5, <4>1, <4>2
    <3>3. StoreMoves
      BY <2>2, <3>1, <3>2 DEF Types, StoreMoves, MembersMove, GroupMove
    <3>4. Types'
      BY <2>2, <3>1, <3>2, EndEffect DEF Types, StoredTypes
    <3> QED BY <2>2, <3>3, <3>4, EndEffect, OneHandlerMoves DEF RequestMove
  <2> QED BY <2>2, <2>4, <2>5
<1>3. CASE CreateTeam(h)
  <2>1. in.team \in Teams
    BY <1>a, <1>3, ManagementAssumption DEF CreateTeam, Acts, At
  <2> QED
    BY <1>a, <1>3, <2>1, Answered DEF CreateTeam, Types, StoredTypes, UsersMove
<1>4. CASE SetMembership(h) \/ RemoveMembership(h)
  <2>1. in.user \in Users /\ in.team \in Teams
    BY <1>a, <1>4, ManagementAssumption DEF SetMembership, RemoveMembership, Acts, At
  <2>2. UNCHANGED <<up, config, users, sessions, teams, groupTeam, attempts, now, bounds>>
    BY <1>4 DEF SetMembership, RemoveMembership
  <2>3. CASE End(h) /\ UNCHANGED members
    BY <2>2, <2>3, Answered DEF Types, StoredTypes, UsersMove
  <2>4. ASSUME NEW role \in TeamRoles \cup {"none"}, SetRole(h, in.user, in.team, role)
        PROVE  Types' /\ Moves
    BY <2>1, <2>2, <2>4, RoleIsSet
  <2> QED BY <1>4, <2>3, <2>4 DEF SetMembership, RemoveMembership
<1>5. CASE Operate(h) \/ ListRecords(h)
  BY <1>a, <1>5, Answered DEF Operate, ListRecords, Types, StoredTypes, UsersMove, stored
<1>6. CASE ListGroups(h)
  <2> DEFINE r == req[h]
             new == [r EXCEPT !.step = "listing", !.shown = Visible(r)]
  <2>1. /\ r.step = "acting" /\ r.in.op = "list"
        /\ req' = [req EXCEPT ![h] = new]
        /\ UNCHANGED <<up, config, stored, attempts, now, bounds>>
    BY <1>6 DEF ListGroups, Acts, At, Types
  <2>2. r \in Request /\ req \in [Handlers -> Request]
    BY DEF Types
  <2>3. Visible(r) \in SUBSET Groups
    BY DEF Visible
  <2>4. /\ new \in Request /\ new.step = "listing" /\ new.shown = Visible(r)
        /\ SameInput(new, r) /\ SamePrincipal(new, r)
    <3> DEFINE shown == Visible(r)
    <3> HIDE DEF shown
    <3> QED BY <2>2, <2>3 DEF Request, Steps, SameInput, SamePrincipal, shown
  <2> HIDE DEF new
  <2>5. GoesOn(h, "acting", "listing")
    BY <2>1, <2>2, <2>4 DEF GoesOn
  <2>6. RequestMove(h)
    BY <2>1, <2>2, <2>4, <2>5 DEF RequestMove, Proceeds, stored
  <2> QED BY <2>1, <2>4, <2>6, RequestOnly
<1> QED BY <1>1, <1>2, <1>3, <1>4, <1>5, <1>6 DEF Act

(* The whole of Next, as what it may change.                               *)
LEMMA Frame ==
    ASSUME Types, Real, [Next]_vars
    PROVE  Types' /\ Moves
<1>1. CASE UNCHANGED vars
  BY <1>1, TablesUnmoved
  DEF vars, stored, bounds, Types, StoredTypes, Moves, RunMoves, RequestMove
<1>2. CASE Next
  BY <1>2, ProcessSteps, HandlerArrives, LoginSteps, LogoutSteps, AuthorizeSteps, ActSteps
  DEF Next
<1> QED BY <1>1, <1>2

----------------------------------------------------------------------------
(* Sessions and requests are real.                                         *)

(* No user is ever deleted, and a session that was issued is never new.    *)
LEMMA NothingIsForgotten ==
    ASSUME Types, Moves
    PROVE  /\ \A u \in Users : Exists(u) => Exists(u)'
           /\ \A s \in Sessions : sessions[s].state # "none" => sessions'[s].state # "none"
BY DEF Moves, StoreMoves, MembersMove, UsersMove, SessionMove, Exists

LEMMA RealStep ==
    ASSUME Types, Types', Real, Moves
    PROVE  Real'
<1>1. SessionsAreReal'
  <2> SUFFICES ASSUME NEW s \in Sessions, sessions'[s].state = "live",
                      NEW u, u = sessions'[s].user
               PROVE  u \in Users /\ users'[u].status # "none"
    BY DEF SessionsAreReal, Exists
  <2>a. \A v \in Users : users[v].status # "none" => users'[v].status # "none"
    BY NothingIsForgotten DEF Exists
  <2>1. SessionMove(s)
    BY DEF Moves, StoreMoves
  <2>2. CASE sessions'[s] = sessions[s]
    BY <2>a, <2>2 DEF Real, SessionsAreReal, Exists
  <2>3. CASE sessions'[s] # sessions[s]
    BY <2>a, <2>1, <2>3 DEF SessionMove, Exists
  <2> QED BY <2>2, <2>3
<1>2. ASSUME NEW h \in Handlers PROVE LoginIsReal(h)' /\ RequestIsReal(h)'
  <2>a. /\ RequestMove(h) /\ LoginIsReal(h) /\ RequestIsReal(h)
        /\ req[h] \in Request /\ req'[h] \in Request
    BY DEF Moves, Real, Types
  <2>b. \A k \in {req[h], req'[h]} : k.in.session # 0 => k.in.session \in Sessions
    BY <2>a DEF Request, Input
  <2>1. CASE req'[h] = NoRequest
    BY <2>1, NoRequestType DEF LoginIsReal, RequestIsReal, At
  <2>2. CASE req'[h] = req[h] /\ req'[h] # NoRequest
    <3>1. UNCHANGED up
      BY <2>2 DEF Moves, RunMoves
    <3>2. LoginIsReal(h)'
      BY <2>a, <2>2, NothingIsForgotten DEF LoginIsReal
    <3>3. RequestIsReal(h)'
      BY <2>a, <2>b, <2>2, <3>1, NothingIsForgotten DEF RequestIsReal, At
    <3> QED BY <3>2, <3>3
  <2>3. CASE Arrives(h)
    <3>1. /\ req'[h].in \in Requests /\ up' /\ req'[h].step = FirstStep(req'[h].in.op)
          /\ req'[h].in.session # 0 => sessions'[req'[h].in.session].state # "none"
      BY <2>3 DEF Arrives, stored
    <3>2. req'[h].step \in {"checking", "leaving", "authenticating"}
      BY <3>1 DEF FirstStep
    <3>3. req'[h].step = "checking" => req'[h].in.op = "login" /\ req'[h].in.user \in Users
      BY <3>1, ManagementAssumption DEF FirstStep
    <3> QED BY <3>1, <3>2, <3>3 DEF LoginIsReal, RequestIsReal, At
  <2>4. CASE /\ Proceeds(h) \/ LetIn(h) \/ Recognised(h)
             /\ req'[h] # req[h] /\ req'[h] # NoRequest
    <3>1. /\ req'[h].in = req[h].in
          /\ req[h].step # "idle" /\ req'[h].step # "idle"
      BY <2>4 DEF Proceeds, GoesOn, LetIn, Recognised, SameInput
    <3>2. up' /\ up
      <4>1. UNCHANGED up
        BY <2>4 DEF Moves, RunMoves
      <4>2. up
        BY <2>a, <3>1, NoRequestType DEF RequestIsReal, At
      <4> QED BY <4>1, <4>2
    <3>3. RequestIsReal(h)'
      <4>1. req'[h].step = "memberships" => req'[h].actor \in Users
        BY <2>4 DEF Proceeds, GoesOn, LetIn, Recognised
      <4> QED BY <2>a, <2>b, <3>1, <3>2, <4>1, NothingIsForgotten DEF RequestIsReal, At
    <3>4. LoginIsReal(h)'
      <4>1. req'[h].step \in {"lookup", "failed", "sweeping", "creating", "clearing"} =>
               req[h].step \in {"checking", "lookup", "sweeping", "creating"}
        BY <2>4 DEF Proceeds, GoesOn, LetIn, Recognised
      <4>2. req'[h].step # "checking"
        BY <2>4 DEF Proceeds, GoesOn, LetIn, Recognised
      <4>3. req'[h].step \in {"sweeping", "creating"} => Exists(req[h].in.user)
        BY <2>a, <2>4 DEF Proceeds, GoesOn, LetIn, Recognised, LoginIsReal
      <4> QED BY <2>a, <3>1, <4>1, <4>2, <4>3, NothingIsForgotten DEF LoginIsReal
    <3> QED BY <3>3, <3>4
  <2>5. CASE Overtaken(h) /\ req'[h] # NoRequest
    <3>1. /\ req'[h].in = req[h].in /\ req'[h].actor = req[h].actor
          /\ req'[h].step = req[h].step
      BY <2>5 DEF Overtaken, SameInput, SamePrincipal
    <3>2. req[h] # NoRequest
      BY <2>5, NoRequestType, ConstantTypes DEF Overtaken
    <3>3. req[h].step # "idle" /\ up /\ UNCHANGED up
      BY <2>a, <2>5, <3>2 DEF RequestIsReal, At, Moves, RunMoves
    <3>4. LoginIsReal(h)'
      BY <2>a, <3>1, NothingIsForgotten DEF LoginIsReal
    <3>5. RequestIsReal(h)'
      BY <2>a, <2>b, <3>1, <3>3, NothingIsForgotten DEF RequestIsReal, At
    <3> QED BY <3>4, <3>5
  <2> QED BY <2>a, <2>1, <2>2, <2>3, <2>4, <2>5 DEF RequestMove
<1> QED BY <1>1, <1>2 DEF Real

LEMMA TypesAtFirst == Init => Types /\ Real
<1> SUFFICES ASSUME Init PROVE Types /\ Real
  OBVIOUS
<1>1. /\ sessions = [s \in Sessions |-> NoSession] /\ NoSession \in SessionRow
      /\ NoSession.state = "none"
  BY DEF Init, NoSession, SessionRow
<1>2. attempts = [u \in Users |-> NoAttempts] /\ NoAttempts \in Entry
  BY DEF Init, NoAttempts, Entry
<1>3. /\ users \in [Users -> UserRow] /\ teams \subseteq Teams
      /\ members \in [Users -> [Teams -> TeamRoles \cup {"none"}]]
      /\ groupTeam \in [Groups -> Teams \cup {Nobody}]
  <2>1. PICK database \in Databases :
           /\ users = database.users /\ teams = database.teams
           /\ members = database.members /\ groupTeam = database.groupTeam
    BY DEF Init
  <2>2. database \in Database
    BY <2>1, ManagementAssumption
  <2> QED BY <2>1, <2>2 DEF Database, UserRow
<1>4. Types
  BY <1>1, <1>2, <1>3, NoRequestType, ManagementAssumption DEF Init, Types, StoredTypes
<1>5. Real
  BY <1>1, NoRequestType
  DEF Init, Real, SessionsAreReal, LoginIsReal, RequestIsReal, At
<1> QED BY <1>4, <1>5

LEMMA RealAlways == Spec => [](Types /\ Real)
<1>1. Types /\ Real /\ [Next]_vars => Types' /\ Real'
  BY Frame, RealStep
<1>2. QED
  BY <1>1, TypesAtFirst, PTL DEF Spec

(* TypeOK: tables, limiter and requests stay well-formed, in particular a  *)
(* session that lets a request in always has a user whose row can be read. *)
THEOREM TypeCorrect == Spec => []TypeOK
<1>1. Types => TypeOK
  BY TypesAreTypes
<1>2. QED
  BY <1>1, RealAlways, PTL
----------------------------------------------------------------------------
(* AdminRemains: the last active admin is neither disabled nor demoted,    *)
(* whatever requests and crashes fall together.                            *)
THEOREM AdminAlwaysRemains == Spec => AdminRemains
<1>1. Types /\ Real /\ [Next]_vars => (ActiveAdmins # {} => ActiveAdmins' # {})
  <2> SUFFICES ASSUME Types, Real, [Next]_vars, NEW a \in ActiveAdmins
               PROVE  ActiveAdmins' # {}
    OBVIOUS
  <2>a. a \in Users /\ users[a].status = "active" /\ users[a].role = "admin"
    BY DEF ActiveAdmins
  <2>1. UsersMove
    BY Frame DEF Moves, StoreMoves
  <2>2. CASE UNCHANGED users
    BY <2>2 DEF ActiveAdmins
  <2>3. ASSUME NEW u \in Users,
               \A v \in Users \ {u} : users'[v] = users[v],
               \/ ~Exists(u) /\ users'[u].status = "active"
               \/ /\ Exists(u) /\ Revoked(u)
                  /\ users'[u].status = users[u].status /\ users'[u].role = users[u].role
               \/ /\ Exists(u) /\ ~IsLastAdmin(u)
                  /\ users'[u].status = "disabled" /\ users'[u].role = users[u].role
                  /\ users'[u].password = users[u].password
        PROVE  \E b \in Users : b \in ActiveAdmins'
    <3>1. CASE a # u
      BY <2>a, <2>3, <3>1 DEF ActiveAdmins
    <3>2. CASE a = u /\ users'[u].status = users[u].status /\ users'[u].role = users[u].role
      BY <2>a, <3>2 DEF ActiveAdmins
    <3>3. CASE a = u /\ ~IsLastAdmin(u)
      <4>1. ActiveAdmins # {u}
        <5>1. IsFiniteSet({u}) /\ Cardinality({u}) = 1
          BY FS_Singleton
        <5> QED BY <3>3, <5>1 DEF IsLastAdmin
      <4>2. PICK b \in ActiveAdmins : b # u
        BY <3>3, <4>1
      <4>3. b \in Users /\ users'[b] = users[b]
        BY <2>3, <4>2 DEF ActiveAdmins
      <4> QED BY <4>2, <4>3 DEF ActiveAdmins
    <3>4. Exists(a)
      BY <2>a DEF Exists
    <3> QED BY <2>3, <3>1, <3>2, <3>3, <3>4
  <2> QED BY <2>1, <2>2, <2>3 DEF UsersMove
<1>2. QED
  BY <1>1, RealAlways, PTL DEF Spec, AdminRemains

(* PasswordChangeRevokes: a session outlives the password it was opened    *)
(* with only if it was opened late or the change ended half-way.           *)
THEOREM OldSessionsAreRevoked == Spec => []PasswordChangeRevokes
<1>1. Init => PasswordChangeRevokes
  BY DEF Init, NoSession, PasswordChangeRevokes
<1>2. Types /\ Real /\ PasswordChangeRevokes /\ [Next]_vars => PasswordChangeRevokes'
  <2> SUFFICES ASSUME Types, Real, PasswordChangeRevokes, [Next]_vars,
                      NEW s \in Sessions, sessions'[s].state = "live"
               PROVE  \/ sessions'[s].password = users'[sessions'[s].user].password
                      \/ sessions'[s].late
                      \/ sessions'[s].user \in torn'
    BY DEF PasswordChangeRevokes
  <2>1. SessionMove(s) /\ UsersMove /\ torn \subseteq torn'
    BY Frame DEF Moves, StoreMoves
  <2>2. CASE sessions'[s] = sessions[s]
    <3> DEFINE u == sessions[s].user
    <3>1. /\ u \in Users /\ Exists(u)
          /\ sessions[s].password = users[u].password \/ sessions[s].late \/ u \in torn
      BY <2>2 DEF Real, SessionsAreReal, PasswordChangeRevokes
    <3>2. users'[u].password = users[u].password \/ u \in torn'
      BY <2>1, <2>2, <3>1 DEF UsersMove, Revoked
    <3> QED BY <2>1, <2>2, <3>1, <3>2
  <2>3. CASE sessions'[s] # sessions[s]
    BY <2>1, <2>3 DEF SessionMove
  <2> QED BY <2>2, <2>3
<1>3. QED
  BY <1>1, <1>2, RealAlways, PTL DEF Spec

----------------------------------------------------------------------------
(* Ways in.                                                                *)

(* A session that can be used now could be used before: no step of the     *)
(* running process makes one usable, and no user comes back.               *)
LEMMA UsableBefore ==
    ASSUME Types, Types', Real, Moves, NEW s \in Sessions, sessions[s].state # "none", Usable(s)'
    PROVE  Usable(s)
<1>1. /\ SessionMove(s) /\ UsersMove /\ now <= now'
      /\ sessions'[s].state = "live" /\ sessions'[s].expires > now'
  BY DEF Moves, StoreMoves, Usable
<1>2. sessions'[s] = sessions[s]
  BY <1>1 DEF SessionMove
<1> DEFINE u == sessions[s].user
<1>3. u \in Users /\ users[u].status # "none" /\ users'[u].status = "active"
  BY <1>1, <1>2 DEF Usable, Real, SessionsAreReal, Exists
<1>4. users[u].status = "active"
  <2> HIDE DEF u
  <2> QED BY <1>1, <1>3 DEF UsersMove, Exists
<1>5. sessions[s].expires \in Nat /\ now \in Nat /\ now' \in Nat
  BY DEF Types, StoredTypes, SessionRow
<1> QED BY <1>1, <1>2, <1>4, <1>5 DEF Usable

(* No way in opens to a request while the process runs.                    *)
LEMMA NoDoorOpens ==
    ASSUME Types, Types', Real, Moves, UNCHANGED config, NEW in \in Input,
           in.session # 0 => sessions[in.session].state # "none"
    PROVE  EntitledNow(in)' \subseteq EntitledNow(in)
<1>1. in.session # 0 /\ Usable(in.session)' => Usable(in.session)
  BY UsableBefore DEF Input
<1>2. (\A u \in Users : ~Exists(u))' => \A u \in Users : ~Exists(u)
  BY NothingIsForgotten
<1> QED BY <1>1, <1>2 DEF EntitledNow

LEMMA DoorsStep ==
    ASSUME Types, Types', Real, DoorsClose, AccessIsJustified, Moves
    PROVE  DoorsClose' /\ AccessIsJustified'
<1> SUFFICES ASSUME NEW h \in Handlers, NEW in \in Input, req'[h].in = in
             PROVE  /\ req'[h].step \in {"authenticating", "legacy"} =>
                          /\ req'[h].auth = "none"
                          /\ EntitledNow(in)' \subseteq req'[h].entitled
                    /\ req'[h].auth # "none" => req'[h].auth \in req'[h].entitled
  BY DEF DoorsClose, AccessIsJustified, Types, Request
<1>1. CASE req'[h] = NoRequest
  BY <1>1, NoRequestType
<1>2. CASE req'[h] # NoRequest /\ Arrives(h)
  <2>1. EntitledNow(in)' = EntitledNow(in)
    BY <1>2 DEF Arrives, EntitledNow, Usable, Exists, stored
  <2> QED BY <1>2, <2>1 DEF Arrives
<1>a. /\ RequestMove(h) /\ req[h].in \in Input
      /\ req[h].in.session # 0 => sessions[req[h].in.session].state # "none"
      /\ req[h].step \in {"authenticating", "legacy"} =>
            req[h].auth = "none" /\ EntitledNow(req[h].in) \subseteq req[h].entitled
      /\ req[h].auth # "none" => req[h].auth \in req[h].entitled
  BY DEF Moves, Real, RequestIsReal, DoorsClose, AccessIsJustified, Types, Request
<1>3. CASE req'[h] # NoRequest /\ (req'[h] = req[h] \/ Overtaken(h) \/ Proceeds(h))
  <2>1. /\ req[h].in = in /\ req'[h].entitled = req[h].entitled
        /\ req'[h].auth = req[h].auth
    BY <1>3 DEF Overtaken, Proceeds, GoesOn, SameInput, SamePrincipal
  <2>2. UNCHANGED config
    BY <1>3 DEF Moves, RunMoves
  <2>3. EntitledNow(in)' \subseteq EntitledNow(in)
    BY <1>a, <2>1, <2>2, NoDoorOpens
  <2>4. req'[h].step \in {"authenticating", "legacy"} => req[h].step \in {"authenticating", "legacy"}
    BY <1>3 DEF Overtaken, Proceeds, GoesOn
  <2> QED BY <1>a, <2>1, <2>3, <2>4
<1>4. CASE LetIn(h)
  BY <1>a, <1>4 DEF LetIn, SameInput
<1>5. CASE Recognised(h)
  BY <1>a, <1>5 DEF Recognised, SameInput
<1> QED BY <1>a, <1>1, <1>2, <1>3, <1>4, <1>5 DEF RequestMove

(* AccessIsJustified: whoever is let in could have been on arrival.        *)
THEOREM AccessAlwaysJustified == Spec => []AccessIsJustified
<1>1. Init => DoorsClose /\ AccessIsJustified
  BY NoRequestType DEF Init, DoorsClose, AccessIsJustified
<1>2. Types /\ Real /\ DoorsClose /\ AccessIsJustified /\ [Next]_vars =>
         DoorsClose' /\ AccessIsJustified'
  BY Frame, DoorsStep
<1>3. QED
  BY <1>1, <1>2, RealAlways, PTL DEF Spec
----------------------------------------------------------------------------
(* Teams.                                                                  *)

(* Who was recognised acts with the roles he has, but where overtaken.     *)
RolesAreRead(h) ==
    req[h].step \in {"scoping", "acting", "listing"} /\ req[h].rank # "admin" =>
        /\ req[h].actor \in Users
        /\ \A t \in Teams : req[h].own[t] = members[req[h].actor][t] \/ t \in req[h].overtaken

(* What a request was scoped to by the roles it has read.                  *)
Own(r, g) == groupTeam[g] \in Teams /\ r.own[groupTeam[g]] # "none"

OperatesOwn(h) ==
    Acts(h, "operate") /\ ~Allows(req[h].rank, "operate") =>
        /\ Own(req[h], req[h].in.group)
        /\ req[h].own[groupTeam[req[h].in.group]] \in OperatingRoles

ListsOwn(h) ==
    At(h, "listing") /\ ~Allows(req[h].rank, "read") =>
        \A g \in req[h].shown : Own(req[h], g) \/ g \in req[h].unowned

LEMMA RolesStep ==
    ASSUME Types, Types', Real, Moves, NEW h \in Handlers, RolesAreRead(h)
    PROVE  RolesAreRead(h)'
<1> SUFFICES ASSUME req'[h].step \in {"scoping", "acting", "listing"}, req'[h].rank # "admin"
             PROVE  /\ req'[h].actor \in Users
                    /\ \A t \in Teams : \/ req'[h].own[t] = members'[req'[h].actor][t]
                                        \/ t \in req'[h].overtaken
  BY DEF RolesAreRead
<1>a. RequestMove(h) /\ MembersMove /\ req'[h] # NoRequest
  BY NoRequestType DEF Moves, StoreMoves
<1>1. CASE Recognised(h)
  <2>1. req[h].actor \in Users
    BY <1>1 DEF Recognised, Real, RequestIsReal, At
  <2> QED BY <1>1, <2>1 DEF Recognised
<1>2. CASE \/ req'[h] = req[h] \/ Overtaken(h) \/ GoesOn(h, "scoping", "acting")
           \/ GoesOn(h, "acting", "listing")
  <2>1. /\ req[h].step \in {"scoping", "acting", "listing"}
        /\ req'[h].actor = req[h].actor /\ req'[h].own = req[h].own
        /\ req'[h].rank = req[h].rank /\ req[h].overtaken \subseteq req'[h].overtaken
    BY <1>2 DEF Overtaken, GoesOn, SamePrincipal
  <2>2. /\ req[h].actor \in Users
        /\ \A t \in Teams : \/ req[h].own[t] = members[req[h].actor][t]
                            \/ t \in req[h].overtaken
    BY <2>1 DEF RolesAreRead
  <2>3. \A t \in Teams : members'[req[h].actor][t] # members[req[h].actor][t] =>
           t \in req'[h].overtaken
    BY <1>a, <2>1, <2>2 DEF MembersMove
  <2> QED BY <2>1, <2>2, <2>3
<1>3. ~LetIn(h) /\ ~Arrives(h)
  BY DEF LetIn, Arrives, FirstStep
<1>4. Proceeds(h) => GoesOn(h, "scoping", "acting") \/ GoesOn(h, "acting", "listing")
  BY DEF Proceeds, GoesOn
<1> QED BY <1>a, <1>1, <1>2, <1>3, <1>4 DEF RequestMove

LEMMA TeamsStep ==
    ASSUME Types, Types', Real, GroupsAreKept, Moves,
           \A h \in Handlers : OperatesOwn(h) /\ ListsOwn(h)
    PROVE  GroupsAreKept' /\ \A h \in Handlers : OperatesOwn(h)' /\ ListsOwn(h)'
<1>a. /\ groupTeam \in [Groups -> Teams \cup {Nobody}]
      /\ \A g \in Groups : /\ groupTeam[g] \in Teams => groupTeam'[g] = groupTeam[g]
                           /\ groupTeam'[g] = Nobody => groupTeam[g] = Nobody
  BY ConstantTypes DEF Types, StoredTypes, Moves, StoreMoves, GroupMove
<1>1. GroupsAreKept'
  <2> SUFFICES ASSUME NEW h \in Handlers, NEW g \in Groups,
                      req'[h].step # "idle", groupTeam'[g] = Nobody
               PROVE  g \in req'[h].unowned
    BY DEF GroupsAreKept, At
  <2>1. RequestMove(h) /\ groupTeam[g] = Nobody
    BY <1>a DEF Moves
  <2>2. req[h].step # "idle" => g \in req[h].unowned
    BY <2>1 DEF GroupsAreKept, At
  <2> QED
    BY <2>1, <2>2, NoRequestType
    DEF RequestMove, Overtaken, Arrives, Proceeds, GoesOn, LetIn, Recognised, SameInput
<1>2. ASSUME NEW h \in Handlers PROVE OperatesOwn(h)' /\ ListsOwn(h)'
  <2>a. /\ RequestMove(h) /\ OperatesOwn(h) /\ ListsOwn(h)
        /\ req[h] \in Request /\ req'[h] \in Request
        /\ req[h].step # "idle" => req[h].in \in Requests
    BY DEF Moves, Types, Real, RequestIsReal, At
  <2>b. \A r \in Request : r.shown \subseteq Groups
    BY DEF Request
  <2>1. CASE \/ req'[h] = req[h]
             \/ Overtaken(h)
    <3>a. /\ req'[h].step = req[h].step /\ req'[h].shown = req[h].shown
          /\ req'[h].in = req[h].in /\ req'[h].rank = req[h].rank
          /\ req'[h].own = req[h].own /\ req'[h].unowned = req[h].unowned
      BY <2>1 DEF Overtaken, SameInput, SamePrincipal
    <3>1. OperatesOwn(h)'
      <4> SUFFICES ASSUME req[h].step = "acting", req[h].in.op = "operate",
                          ~Allows(req[h].rank, "operate")
                   PROVE  /\ groupTeam'[req[h].in.group] \in Teams
                          /\ req[h].own[groupTeam'[req[h].in.group]] # "none"
                          /\ req[h].own[groupTeam'[req[h].in.group]] \in OperatingRoles
        BY <3>a DEF OperatesOwn, Own, Acts, At, Allows
      <4>1. req[h].in.group \in Groups
        BY <2>a, ManagementAssumption
      <4> QED BY <1>a, <2>a, <4>1 DEF OperatesOwn, Own, Acts, At
    <3>2. ListsOwn(h)'
      BY <1>a, <2>a, <2>b, <3>a DEF ListsOwn, Own, At, Allows
    <3> QED BY <3>1, <3>2
  <2>2. CASE req'[h] = NoRequest
    BY <2>2, NoRequestType DEF OperatesOwn, ListsOwn, Acts, At
  <2>3. CASE /\ GoesOn(h, "scoping", "acting")
             /\ CanOperate(req[h], groupTeam[req[h].in.group]) /\ UNCHANGED groupTeam
    BY <2>3
    DEF GoesOn, CanOperate, OperatesOwn, ListsOwn, Own, Acts, At, SameInput, SamePrincipal,
        OperatingRoles, Allows
  <2>4. CASE /\ GoesOn(h, "acting", "listing") /\ req[h].in.op = "list"
             /\ req'[h].shown = Visible(req[h]) /\ UNCHANGED groupTeam
    <3>1. OperatesOwn(h)'
      BY <2>4 DEF GoesOn, OperatesOwn, Acts, At
    <3>2. \A g \in Groups : groupTeam[g] = Nobody => g \in req[h].unowned
      BY <2>4 DEF GroupsAreKept, GoesOn, At
    <3>3. \A g \in Visible(req[h]) : ~Allows(req[h].rank, "read") =>
             g \in Groups /\ (Own(req[h], g) \/ g \in req[h].unowned)
      BY <1>a, <3>2 DEF Visible, Own
    <3>4. ListsOwn(h)'
      BY <2>4, <3>3 DEF ListsOwn, Own, GoesOn, SameInput, SamePrincipal, Allows
    <3> QED BY <3>1, <3>4
  <2>5. CASE \/ req'[h].step \notin {"acting", "listing"}
             \/ req'[h].step = "acting" /\ req'[h].in.op # "operate"
    BY <2>5 DEF OperatesOwn, ListsOwn, Acts, At
  <2>6. \/ req'[h].step \notin {"acting", "listing"}
        \/ req'[h].step = "acting" /\ req'[h].in.op # "operate"
        \/ req'[h] \in {req[h], NoRequest}
        \/ Overtaken(h)
        \/ /\ GoesOn(h, "scoping", "acting")
           /\ CanOperate(req[h], groupTeam[req[h].in.group]) /\ UNCHANGED groupTeam
        \/ /\ GoesOn(h, "acting", "listing") /\ req[h].in.op = "list"
           /\ req'[h].shown = Visible(req[h]) /\ UNCHANGED groupTeam
    <3>1. Arrives(h) => req'[h].step \notin {"acting", "listing"}
      BY DEF Arrives, FirstStep
    <3>2. LetIn(h) \/ Recognised(h) =>
             \/ req'[h].step \notin {"acting", "listing"}
             \/ req'[h].step = "acting" /\ req'[h].in.op # "operate"
      BY DEF LetIn, Recognised, SameInput
    <3> QED BY <2>a, <3>1, <3>2 DEF RequestMove, Proceeds, GoesOn
  <2> QED BY <2>1, <2>2, <2>3, <2>4, <2>5, <2>6
<1> QED BY <1>1, <1>2

(* OnlyOwnTeams: who has no global role acts on and is shown what belongs  *)
(* to teams he works for at that moment; the only exceptions are a role    *)
(* that was changed after the request had read it, and a group that was    *)
(* nobody's when the request arrived.                                      *)
THEOREM OnlyOwnTeamsAlways == Spec => []OnlyOwnTeams
<1> DEFINE Inv == /\ GroupsAreKept
                  /\ \A h \in Handlers : RolesAreRead(h) /\ OperatesOwn(h) /\ ListsOwn(h)
<1>1. Init => Inv
  BY NoRequestType DEF Init, GroupsAreKept, RolesAreRead, OperatesOwn, ListsOwn, Acts, At
<1>2. Types /\ Real /\ Inv /\ [Next]_vars => Inv'
  BY Frame, TeamsStep, RolesStep
<1>3. Types /\ Inv => OnlyOwnTeams
  <2> SUFFICES ASSUME Types, Inv, NEW h \in Handlers
               PROVE  LET r == req[h]
                          Stale(g) == groupTeam[g] \in r.overtaken
                          Role(g) == members[r.actor][groupTeam[g]]
                      IN  /\ Acts(h, "operate") /\ ~Allows(r.rank, "operate") =>
                                /\ groupTeam[r.in.group] \in Teams
                                /\ Role(r.in.group) \in OperatingRoles \/ Stale(r.in.group)
                          /\ At(h, "listing") /\ ~Allows(r.rank, "read") =>
                                \A g \in r.shown \ r.unowned :
                                    /\ groupTeam[g] \in Teams
                                    /\ Role(g) # "none" \/ Stale(g)
    BY DEF OnlyOwnTeams
  <2>1. Acts(h, "operate") /\ ~Allows(req[h].rank, "operate") =>
           /\ groupTeam[req[h].in.group] \in Teams
           /\ \/ members[req[h].actor][groupTeam[req[h].in.group]] \in OperatingRoles
              \/ groupTeam[req[h].in.group] \in req[h].overtaken
    BY DEF RolesAreRead, OperatesOwn, Own, Acts, At, Allows
  <2>2. At(h, "listing") /\ ~Allows(req[h].rank, "read") =>
           \A g \in req[h].shown \ req[h].unowned :
               /\ groupTeam[g] \in Teams
               /\ \/ members[req[h].actor][groupTeam[g]] # "none"
                  \/ groupTeam[g] \in req[h].overtaken
    BY DEF RolesAreRead, ListsOwn, Own, At, Allows
  <2> QED BY <2>1, <2>2
<1>4. QED
  BY <1>1, <1>2, <1>3, RealAlways, PTL DEF Spec

----------------------------------------------------------------------------
(* The login limiter.                                                      *)

(* Only login touches the limiter, and each step is one handler's.         *)
LEMMA LimiterUntouched ==
    ASSUME Types, NEW h \in Handlers,
           \/ Arrive(h) \/ LookUp(h) \/ SweepSessions(h) \/ CreateSession(h)
           \/ Logout(h) \/ Authorize(h) \/ Act(h)
    PROVE  /\ UNCHANGED attempts /\ ~At(h, "checking")
           /\ \A k \in Handlers \ {h} : req'[k].step = req[k].step
<1>1. CASE Arrive(h) \/ LookUp(h) \/ SweepSessions(h) \/ CreateSession(h)
  BY <1>1 DEF Types, Arrive, LookUp, SweepSessions, CreateSession, GoTo, At
<1>2. CASE Logout(h)
  BY <1>2 DEF Types, Logout, Leave, DeleteSession, GoTo, End, At
<1>3. CASE Authorize(h)
  BY <1>3 DEF Types, Authorize, Authenticate, ReadMemberships, TryLegacy, Scope, GoTo, End, At
<1>4. CASE CreateUser(h) \/ ChangePassword(h) \/ DisableUser(h)
  BY <1>4 DEF Types, CreateUser, ChangePassword, DisableUser, Acts, End, At
<1>5. CASE CreateTeam(h) \/ SetMembership(h) \/ RemoveMembership(h)
  <2>1. UNCHANGED attempts /\ ~At(h, "checking")
    BY <1>5 DEF CreateTeam, SetMembership, RemoveMembership, Acts, At
  <2>2. ASSUME NEW k \in Handlers \ {h}, NEW u, NEW t, NEW role, SetRole(h, u, t, role)
        PROVE  req'[k].step = req[k].step
    <3> DEFINE marked == [req[k] EXCEPT !.overtaken = @ \cup {t}]
    <3>1. marked.step = req[k].step
      BY DEF Types, Request
    <3>2. req'[k] \in {req[k], marked}
      BY <2>2 DEF SetRole
    <3> HIDE DEF marked
    <3> QED BY <3>1, <3>2
  <2>3. End(h) => \A k \in Handlers \ {h} : req'[k].step = req[k].step
    BY EndEffect
  <2> QED BY <1>5, <2>1, <2>2, <2>3 DEF CreateTeam, SetMembership, RemoveMembership
<1>6. CASE Operate(h) \/ ListGroups(h) \/ ListRecords(h)
  BY <1>6 DEF Types, Operate, ListGroups, ListRecords, Acts, End, At
<1> QED BY <1>1, <1>2, <1>3, <1>4, <1>5, <1>6 DEF Act

(* A request joins the guesses of a name only by passing the check.        *)
LEMMA GuessingGrows ==
    ASSUME Types, Moves, NEW u \in Users, NEW h \in Guessing(u)', h \notin Guessing(u)
    PROVE  GoesOn(h, "checking", "lookup")
<1>1. h \in Handlers /\ req'[h].step \in {"lookup", "failed"} /\ req'[h].in.user = u
  BY DEF Guessing
<1>2. RequestMove(h)
  BY <1>1 DEF Moves
<1>3. CASE req'[h] \in {req[h], NoRequest} \/ Arrives(h) \/ LetIn(h) \/ Recognised(h)
  BY <1>1, <1>3, NoRequestType DEF Arrives, FirstStep, LetIn, Recognised, Guessing
<1>5. CASE Overtaken(h)
  BY <1>1, <1>5 DEF Overtaken, SameInput, Guessing
<1>4. CASE Proceeds(h)
  BY <1>1, <1>4 DEF Proceeds, GoesOn, SameInput, Guessing
<1> QED BY <1>2, <1>3, <1>4, <1>5 DEF RequestMove

(* What a step does to the limiter's entry of a name: nothing, without a   *)
(* further guess; or it ends below the limit; or it counts a guess.        *)
LimiterMoves(u) ==
    \/ attempts'[u] = attempts[u] /\ Guessing(u)' \subseteq Guessing(u)
    \/ attempts'[u].failures < LoginFailureLimit
    \/ \E h \in Guessing(u) :
          /\ attempts'[u].failures = attempts[u].failures + 1
          /\ attempts'[u].until = 0 => attempts'[u].failures < LoginFailureLimit
          /\ Guessing(u)' \subseteq Guessing(u) \ {h}

LEMMA LimiterStep ==
    ASSUME Types, Real, GuessesLeft, [Next]_vars, NEW u \in Users
    PROVE  LimiterMoves(u)
<1>a. Types' /\ Moves
  BY Frame
<1>b. /\ attempts[u].failures \in Nat /\ attempts[u].until \in Nat /\ now \in Nat
      /\ attempts \in [Users -> Entry]
  BY DEF Types, Entry
<1>c. ASSUME UNCHANGED attempts, \A h \in Handlers : ~GoesOn(h, "checking", "lookup")
      PROVE  LimiterMoves(u)
  BY <1>a, <1>c, GuessingGrows DEF LimiterMoves, Guessing
<1>1. ASSUME UNCHANGED <<attempts, req>> PROVE LimiterMoves(u)
  BY <1>1, <1>c DEF GoesOn
<1>2. CASE UNCHANGED vars \/ Boot \/ Tick \/ Quiet \/ \E g \in Groups, t \in Teams : OwnGroup(g, t)
  BY <1>1, <1>2 DEF vars, Boot, Tick, Quiet, OwnGroup
<1>3. CASE Crash
  BY <1>3, ConstantTypes DEF Crash, NoAttempts, LimiterMoves
<1>4. ASSUME NEW h \in Handlers,
             \/ Arrive(h) \/ LookUp(h) \/ SweepSessions(h) \/ CreateSession(h)
             \/ Logout(h) \/ Authorize(h) \/ Act(h)
      PROVE  LimiterMoves(u)
  BY <1>4, <1>c, LimiterUntouched DEF GoesOn, At
<1>5. ASSUME NEW h \in Handlers, CheckLogin(h) PROVE LimiterMoves(u)
  <2> DEFINE v == req[h].in.user
             locked == attempts[v].until > now
  <2>1. CASE u = v /\ config.localUsers /\ ~locked
    <3>1. attempts'[u] = IF attempts[u].until > 0 THEN NoAttempts ELSE attempts[u]
      BY <1>5, <1>b, <2>1 DEF CheckLogin
    <3>2. attempts'[u].failures < LoginFailureLimit
      BY <1>b, <3>1, ConstantTypes DEF GuessesLeft, NoAttempts
    <3> QED BY <3>2 DEF LimiterMoves
  <2>2. CASE ~(config.localUsers /\ ~locked)
    BY <1>5, <1>c, <2>2, EndEffect, NoRequestType DEF CheckLogin, GoesOn
  <2>3. CASE u # v
    <3>1. attempts'[u] = attempts[u]
      BY <1>5, <1>b, <2>3 DEF CheckLogin
    <3>2. \A k \in Handlers \ {h} : req'[k] = req[k]
      BY <1>5, GoToEffect, EndEffect DEF CheckLogin, Steps
    <3>3. Guessing(u)' \subseteq Guessing(u)
      <4> SUFFICES ASSUME NEW k \in Guessing(u)', k \notin Guessing(u) PROVE FALSE
        OBVIOUS
      <4>1. GoesOn(k, "checking", "lookup") /\ req'[k].in.user = u
        BY <1>a, GuessingGrows DEF Guessing
      <4>2. k = h
        BY <3>2, <4>1 DEF Guessing, GoesOn
      <4> QED BY <2>3, <4>1, <4>2 DEF GoesOn, SameInput
    <3> QED BY <3>1, <3>3 DEF LimiterMoves
  <2> QED BY <2>1, <2>2, <2>3
<1>6. ASSUME NEW h \in Handlers, RecordFailure(h) PROVE LimiterMoves(u)
  <2>1. /\ req[h].step = "failed" /\ req[h].in.user \in Users
        /\ req'[h] = NoRequest
        /\ \A k \in Handlers \ {h} : req'[k] = req[k]
    BY <1>6, EndEffect DEF RecordFailure, At, Real, LoginIsReal
  <2>2. CASE u = req[h].in.user
    <3>1. /\ attempts'[u].failures = attempts[u].failures + 1
          /\ attempts[u].failures + 1 >= LoginFailureLimit =>
                attempts'[u].until = now + LockTime
      BY <1>6, <1>b, <2>2 DEF RecordFailure
    <3>2. attempts'[u].until = 0 => attempts'[u].failures < LoginFailureLimit
      BY <1>b, <3>1, ConstantTypes
    <3>3. h \in Guessing(u) /\ Guessing(u)' \subseteq Guessing(u) \ {h}
      BY <2>1, <2>2, NoRequestType DEF Guessing
    <3> QED BY <3>1, <3>2, <3>3 DEF LimiterMoves
  <2>3. CASE u # req[h].in.user
    <3>1. attempts'[u] = attempts[u]
      BY <1>6, <1>b, <2>3 DEF RecordFailure
    <3>2. Guessing(u)' \subseteq Guessing(u)
      BY <2>1, NoRequestType DEF Guessing
    <3> QED BY <3>1, <3>2 DEF LimiterMoves
  <2> QED BY <2>2, <2>3
<1>7. ASSUME NEW h \in Handlers, ClearAttempts(h) PROVE LimiterMoves(u)
  <2>1. CASE u = req[h].in.user
    BY <1>7, <1>b, <2>1, ConstantTypes DEF ClearAttempts, NoAttempts, LimiterMoves
  <2>2. CASE u # req[h].in.user
    <3>1. attempts'[u] = attempts[u]
      BY <1>7, <1>b, <2>2 DEF ClearAttempts
    <3>2. Guessing(u)' \subseteq Guessing(u)
      BY <1>7, EndEffect, NoRequestType DEF ClearAttempts, Guessing
    <3> QED BY <3>1, <3>2 DEF LimiterMoves
  <2> QED BY <2>1, <2>2
<1> QED BY <1>2, <1>3, <1>4, <1>5, <1>6, <1>7 DEF Next, Login

(* GuessesAreBounded: handlers that passed the check of the lock before it *)
(* was set may each add one failure, and no more.                          *)
THEOREM GuessesAlwaysBounded == Spec => []GuessesAreBounded
<1>a. /\ IsFiniteSet(Handlers) /\ Cardinality(Handlers) \in Nat
      /\ \A u \in Users : /\ IsFiniteSet(Guessing(u)) /\ Cardinality(Guessing(u)) \in Nat
                          /\ Cardinality(Guessing(u)) <= Cardinality(Handlers)
  BY ManagementAssumption, FS_CardinalityType, FS_Subset DEF Guessing
<1>b. \A u \in Users : /\ Cardinality(Guessing(u)') \in Nat
                       /\ Cardinality(Guessing(u)') <= Cardinality(Handlers)
  BY ManagementAssumption, FS_CardinalityType, FS_Subset DEF Guessing
<1>1. Init => GuessesLeft
  <2> SUFFICES ASSUME Init, NEW u \in Users
               PROVE  /\ attempts[u].until = 0 => attempts[u].failures < LoginFailureLimit
                      /\ attempts[u].failures + Cardinality(Guessing(u))
                            <= LoginFailureLimit + Cardinality(Handlers) - 1
    BY DEF GuessesLeft
  <2>1. attempts[u].failures = 0
    BY DEF Init, NoAttempts
  <2> QED BY <1>a, <2>1, ConstantTypes
<1>2. Types /\ Real /\ GuessesLeft /\ [Next]_vars => GuessesLeft'
  <2> SUFFICES ASSUME Types, Real, GuessesLeft, [Next]_vars, NEW u \in Users
               PROVE  /\ attempts'[u].until = 0 => attempts'[u].failures < LoginFailureLimit
                      /\ attempts'[u].failures + Cardinality(Guessing(u)')
                            <= LoginFailureLimit + Cardinality(Handlers) - 1
    BY DEF GuessesLeft
  <2>a. /\ attempts[u].failures \in Nat /\ attempts'[u].failures \in Nat
        /\ attempts[u].until = 0 => attempts[u].failures < LoginFailureLimit
        /\ attempts[u].failures + Cardinality(Guessing(u))
              <= LoginFailureLimit + Cardinality(Handlers) - 1
    BY Frame DEF Types, Entry, GuessesLeft
  <2>1. CASE attempts'[u] = attempts[u] /\ Guessing(u)' \subseteq Guessing(u)
    <3>1. Cardinality(Guessing(u)') <= Cardinality(Guessing(u))
      BY <1>a, <2>1, FS_Subset
    <3> QED BY <1>a, <1>b, <2>a, <2>1, <3>1, ConstantTypes
  <2>2. CASE attempts'[u].failures < LoginFailureLimit
    BY <1>a, <1>b, <2>a, <2>2, ConstantTypes
  <2>3. ASSUME NEW h \in Guessing(u),
               attempts'[u].failures = attempts[u].failures + 1,
               attempts'[u].until = 0 => attempts'[u].failures < LoginFailureLimit,
               Guessing(u)' \subseteq Guessing(u) \ {h}
        PROVE  /\ attempts'[u].until = 0 => attempts'[u].failures < LoginFailureLimit
               /\ attempts'[u].failures + Cardinality(Guessing(u)')
                     <= LoginFailureLimit + Cardinality(Handlers) - 1
    <3>1. /\ IsFiniteSet(Guessing(u) \ {h})
          /\ Cardinality(Guessing(u) \ {h}) = Cardinality(Guessing(u)) - 1
      BY <1>a, FS_RemoveElement
    <3>2. Cardinality(Guessing(u)') <= Cardinality(Guessing(u) \ {h})
      BY <2>3, <3>1, FS_Subset
    <3> QED BY <1>a, <1>b, <2>a, <2>3, <3>1, <3>2, ConstantTypes
  <2> QED BY <2>1, <2>2, <2>3, LimiterStep DEF LimiterMoves
<1>3. Types /\ GuessesLeft => GuessesAreBounded
  <2> SUFFICES ASSUME Types, GuessesLeft, NEW u \in Users
               PROVE  attempts[u].failures <= LoginFailureLimit + Cardinality(Handlers) - 1
    BY DEF GuessesAreBounded
  <2> QED BY <1>a, ConstantTypes DEF GuessesLeft, Types, Entry
<1>4. QED
  BY <1>1, <1>2, <1>3, RealAlways, PTL DEF Spec
==============================================================================
