------------------------------- MODULE Teams -------------------------------
(***************************************************************************)
(* Teams, their members and captains, and the switch of the competition    *)
(* between users and teams, which throws the competition's data away.      *)
(*                                                                         *)
(* A request is one transaction: it starts (authentication and what the    *)
(* handler reads before BEGIN), takes its locks in order, checks, writes   *)
(* and commits.  Checks and writes are separate steps: between the two     *)
(* other transactions commit, and only the locks keep the checked facts    *)
(* true.  Any request may also fail at any step, which rolls it back.      *)
(***************************************************************************)
EXTENDS PortalLocks

CONSTANTS
    Users,        \* accounts; all of them start as participants
    TeamIds,      \* identifiers of teams, never used twice
    Requests,     \* transactions open at the same time
    None,         \* SQL NULL
    TeamSize,     \* configuration team_size, 0: no limit
    NumTeams,     \* configuration num_teams, 0: no limit
    MaxLive,      \* bound: teams that exist at the start
    MaxRequests,  \* bound: requests started
    MaxLogins,    \* bound: sessions opened after the first, per user
    MaxRows,      \* bound: competition rows written
    MaxPreviews   \* bound: previews of a mode change

ASSUME TeamsAssumption ==
    /\ None \notin Users \cup TeamIds \cup Requests
    /\ IsFiniteSet(Users) /\ IsFiniteSet(TeamIds)
    /\ TeamSize \in Nat /\ NumTeams \in Nat
    /\ MaxLive \in Nat /\ MaxRequests \in Nat /\ MaxLogins \in Nat
    /\ MaxRows \in Nat /\ MaxPreviews \in Nat

VARIABLES
    mode,      \* configuration user_mode
    audit,     \* number of rows of user_mode_transitions
    acct,      \* users: type, team_id and live session
    team,      \* teams
    rows,      \* submissions, awards and unlocks
    serial,    \* identifiers of rows handed out
    running,   \* active runtime instances: their user, and born as for rows
    invites,   \* invite codes in circulation
    previews,  \* preview tokens issued, in order
    spent,     \* previews that were carried out (for the properties)
    req,       \* the transactions in progress
    started    \* requests started

data == <<mode, audit, acct, team, rows, serial, running>>
vars == <<data, invites, previews, spent, req, started>>

----------------------------------------------------------------------------

\* session: number of the live session, 0 when there is none.  logins counts them.
Account == [kind : {"user", "admin", "deleted"}, team : TeamIds \cup {None},
            session : Nat, logins : Nat]

\* password: version of the password hash, which signs the invites.
TeamRow == [state : {"none", "live", "gone"}, captain : Users \cup {None},
            listed : BOOLEAN, banned : BOOLEAN, password : Nat]
NoTeam  == [state |-> "none", captain |-> None, listed |-> TRUE, banned |-> FALSE,
            password |-> 0]

\* born: how many transitions had happened when the row was written (for the
\* properties).
CompetitionRow == [id : Nat, user : Users, team : TeamIds \cup {None}, born : Nat]

Live(t)      == team[t].state = "live"
Members(t)   == {u \in Users : acct[u].team = t}
Participant(u) == acct[u].kind = "user"

\* Nobody is authenticated as a member of a banned team.
TeamAllowed(u) == acct[u].team # None => ~team[acct[u].team].banned

\* Teams that count against num_teams.
ActiveTeams == {t \in TeamIds : Live(t) /\ team[t].listed /\ ~team[t].banned}

----------------------------------------------------------------------------
(* Requests *)

ParticipantOps == {"create_current", "join_current", "update_current",
                   "delete_current", "current_invite", "compete", "launch"}
AdminOps == {"create", "add_member", "remove_member", "update_captain", "update_state",
             "delete_admin", "move_user", "change_role", "delete_user", "transition"}

\* user: the participant, or the account an administrator acts on.  team: the
\* team of the path, of the invite, or the caller's when it was authenticated.
\* session: the credential of a participant.  arg: the rest of the request.
\* born: transitions so far when the request started (for the properties).
Idle == [pc |-> "idle", op |-> None, user |-> None, team |-> None, session |-> 0,
         arg |-> None, taken |-> 0, born |-> 0]

Configuration == Shared("configuration")
Capacity      == Exclusive("team_capacity")
Membership    == Exclusive("team_membership")
Registration  == Exclusive("registration_capacity")
Invariant     == Exclusive("setup_invariant")
Definition    == Exclusive("challenge_definition")   \* of the one challenge here

\* Faulty variants, for the sensitivity of the properties: a lock left out, the
\* wrong mode, two locks in the other order.
JoinLocksUserOnly(r)       == <<Configuration, ForUpdate("user", r.user)>>
CaptainUnserialised(r)     == <<Configuration>>
MembershipFirst(r)         == <<Configuration, Membership, Capacity, ForUpdate("team", r.team)>>
TransitionShared(r)        == <<Configuration>>

\* The locks of each handler in the order of its statements.
CreateLocks(r)         == <<Configuration, Capacity>>
CreateCurrentLocks(r)  == <<Configuration, Capacity, Membership, ForUpdate("user", r.user)>>
JoinLocks(r)           == <<Configuration, Membership, ForUpdate("user", r.user),
                            ForUpdate("team", r.team)>>
MemberLocks(r)         == <<Configuration, Membership, ForUpdate("user", r.user),
                            ForUpdate("team", r.team)>>
UpdateCaptainLocks(r)  == <<Configuration, Membership>>
UpdateStateLocks(r)    == <<Configuration, Capacity>>
DeleteAdminLocks(r)    == <<Configuration, Capacity, Membership, ForUpdate("team", r.team)>>
DeleteCurrentLocks(r)  == <<Configuration, Capacity, Membership,
                            ForUpdate("user", r.user), ForUpdate("team", r.team)>>
\* attempt, unlock and ensure_instance act for the team in teams mode, for the
\* user otherwise (arg: the mode read under the configuration lock).
CompeteLocks(r)        == IF r.arg = "teams" THEN <<Configuration, Membership>>
                                             ELSE <<Configuration>>
LaunchLocks(r)         == <<Configuration, Definition>>
                          \o (IF r.arg = "teams" THEN <<Membership>> ELSE <<>>)
                          \o <<ForUpdate("user", r.user)>>
TeamRowLock(t)         == IF t = None THEN <<>> ELSE <<ForUpdate("team", t)>>
MoveUserLocks(r, t) ==
    <<Configuration, Membership, Invariant, ForUpdate("user", r.user)>>
    \o TeamRowLock(t) \o TeamRowLock(r.team)
ChangeRoleLocks(r, t) ==
    <<Configuration, Registration, Membership, Invariant, ForUpdate("user", r.user)>>
    \o TeamRowLock(t)
DeleteUserLocks(r)     == <<Configuration, Registration, Membership, Invariant,
                            ForUpdate("user", r.user)>>
TransitionLocks(r)     == <<Exclusive("configuration")>>

\* t: the team the account of the request has.
LocksWith(r, t) ==
    CASE r.op = "create"         -> CreateLocks(r)
      [] r.op = "create_current" -> CreateCurrentLocks(r)
      [] r.op = "join_current"   -> JoinLocks(r)
      [] r.op \in {"add_member", "remove_member", "current_invite", "update_current"}
                                 -> MemberLocks(r)
      [] r.op = "update_captain" -> UpdateCaptainLocks(r)
      [] r.op = "update_state"   -> UpdateStateLocks(r)
      [] r.op = "delete_admin"   -> DeleteAdminLocks(r)
      [] r.op = "delete_current" -> DeleteCurrentLocks(r)
      [] r.op = "compete"        -> CompeteLocks(r)
      [] r.op = "launch"         -> LaunchLocks(r)
      [] r.op = "move_user"      -> MoveUserLocks(r, t)
      [] r.op = "change_role"    -> ChangeRoleLocks(r, t)
      [] r.op = "delete_user"    -> DeleteUserLocks(r)
      [] r.op = "transition"     -> TransitionLocks(r)
      [] OTHER                   -> <<>>

Locks(r) == LocksWith(r, acct[r.user].team)

Held   == [p \in Requests |-> Taken(Locks(req[p]), req[p].taken)]

\* What a transaction waits for: its next lock, or the rows it writes last.
Wanted(p) ==
    LET r == req[p] IN
    CASE r.pc = "locking" /\ r.taken < Len(Locks(r)) -> {Locks(r)[r.taken + 1]}
      [] r.pc = "writing" /\ r.op = "compete" ->
            {KeyShare("user", r.user)} \cup {KeyShare("team", t) : t \in {r.team} \ {None}}
      [] r.pc = "writing" /\ r.op \in {"update_captain", "update_state"} ->
            {NoKeyUpdate("team", r.team)}
      [] r.pc = "writing" /\ r.op = "transition" ->
            {ForUpdate("user", u) : u \in Users} \cup {ForUpdate("team", t) : t \in TeamIds}
      [] OTHER -> {}

\* revalidate_current_credential: an administrator's stays valid in this module.
CredentialValid(r) ==
    \/ r.op \in AdminOps
    \/ /\ acct[r.user].kind = "user"
       /\ acct[r.user].session = r.session
       /\ TeamAllowed(r.user)

Start(p, op, user, t, arg) ==
    /\ req[p].pc = "idle"
    /\ started < MaxRequests
    /\ started' = started + 1
    /\ req' = [req EXCEPT ![p] =
                 [pc |-> "locking", op |-> op, user |-> user, team |-> t, arg |-> arg,
                  session |-> IF op \in ParticipantOps THEN acct[user].session ELSE 0,
                  taken |-> 0, born |-> audit]]
    /\ UNCHANGED <<data, invites, previews, spent>>

\* A participant's request is authenticated with the live session.
Authenticated(u) ==
    acct[u].kind = "user" /\ acct[u].session > 0 /\ TeamAllowed(u)

StartParticipant(p) ==
    \E u \in Users : Authenticated(u) /\
        \/ \E t \in TeamIds : Start(p, "create_current", u, None, t)
        \/ \E code \in invites : Start(p, "join_current", u, code.team, code)
        \/ /\ acct[u].team # None
           /\ \/ Start(p, "current_invite", u, acct[u].team, None)
              \/ Start(p, "delete_current", u, acct[u].team, None)
              \/ \E c \in Users \cup {None} : Start(p, "update_current", u, acct[u].team, c)
        \/ Start(p, "compete", u, None, None)
        \/ Start(p, "launch", u, None, None)

StartAdmin(p) ==
    \/ /\ mode = "teams"
       /\ \E t \in TeamIds :
            \/ Start(p, "create", None, None, t)
            \/ Start(p, "delete_admin", None, t, None)
            \/ \E u \in Users : \E op \in {"add_member", "remove_member"} :
                 Start(p, op, u, t, None)
            \/ Live(t) /\ \E c \in Users \cup {None} : Start(p, "update_captain", None, t, c)
            \/ Live(t) /\ \E listed, banned \in BOOLEAN :
                 Start(p, "update_state", None, t, <<listed, banned>>)
    \/ \E u \in Users :
         \/ \E t \in TeamIds \cup {None} : Start(p, "move_user", u, t, None)
         \/ \E k \in {"user", "admin"} : Start(p, "change_role", u, None, k)
         \/ Start(p, "delete_user", u, None, None)
    \/ \E i \in DOMAIN previews : Start(p, "transition", None, None, i)

\* The transaction takes its next lock.  The first one is the configuration
\* lock, and the credential is checked again under it.
TakeLock(p) ==
    LET r == req[p] IN
    /\ r.pc = "locking" /\ r.taken < Len(Locks(r))
    /\ MayTake(Held, p, Locks(r)[r.taken + 1])
    /\ req' = [req EXCEPT ![p] = IF r.taken = 0 /\ ~CredentialValid(r) THEN Idle
                                 ELSE [r EXCEPT !.taken = @ + 1,
                                     !.arg = IF r.op \in {"compete", "launch"} /\ r.taken = 0
                                             THEN mode ELSE @]]
    /\ UNCHANGED <<data, invites, previews, spent, started>>

\* A database error, an expired preview, a refusal not modelled here, a time-out
\* or a lost connection: the transaction rolls back.
Fail(p) ==
    /\ req[p].pc # "idle"
    /\ req' = [req EXCEPT ![p] = Idle]
    /\ UNCHANGED <<data, invites, previews, spent, started>>

----------------------------------------------------------------------------
(* What the handlers check once their locks are held *)

MayCreate(r) == mode = "teams" /\ team[r.arg].state = "none"

MayCreateCurrent(r) ==
    /\ mode = "teams" /\ Participant(r.user) /\ acct[r.user].team = None
    /\ NumTeams > 0 => Cardinality(ActiveTeams) < NumTeams
    /\ team[r.arg].state = "none"

\* verify_team_invite: the code was signed with the password the team has now.
MayJoin(r) ==
    /\ mode = "teams" /\ Participant(r.user) /\ acct[r.user].team = None
    /\ Live(r.team) /\ ~team[r.team].banned
    /\ r.arg.password = team[r.team].password
    /\ TeamSize > 0 => Cardinality(Members(r.team)) < TeamSize

MayAddMember(r) ==
    mode = "teams" /\ Participant(r.user) /\ acct[r.user].team = None /\ Live(r.team)

MayRemoveMember(r) == mode = "teams" /\ Live(r.team) /\ acct[r.user].team = r.team

IsCaptain(r) ==
    /\ mode = "teams" /\ Participant(r.user) /\ acct[r.user].team = r.team
    /\ Live(r.team) /\ team[r.team].captain = r.user

\* Only a member may be made captain; None removes the captain.
MayBeCaptain(r) == r.arg # None => acct[r.arg].team = r.team

MayDisband(r) == IsCaptain(r) /\ \A row \in rows : row.team # r.team

MayMoveUser(r) ==
    /\ acct[r.user].kind # "deleted"
    /\ r.team # None => Live(r.team) /\ mode = "teams" /\ Participant(r.user)

\* attempt and unlock: in teams mode the account is the caller's team.
MayCompete(r) == r.arg = "teams" => acct[r.user].team # None

\* ensure_instance: a participant of teams mode needs a team, and has at most one
\* active instance.
MayLaunch(r) ==
    /\ acct[r.user].kind # "deleted"
    /\ r.arg = "teams" => acct[r.user].team # None
    /\ \A x \in running : x.user # r.user

\* The data a preview fingerprints, with the number of transitions so far.
Snapshot ==
    [mode |-> mode, audit |-> audit, rows |-> {row.id : row \in rows},
     users |-> [u \in Users |-> <<acct[u].kind, acct[u].team, acct[u].session>>],
     captains |-> [t \in {x \in TeamIds : Live(x)} |-> team[t].captain]]

\* Faulty variant: the preview is only compared with the mode.
SourceModeOnly(r) == running = {} /\ previews[r.arg].mode = mode

MayTransition(r) ==
    running = {} /\ previews[r.arg] = Snapshot

Permitted(r) ==
    CASE r.op = "create"         -> MayCreate(r)
      [] r.op = "create_current" -> MayCreateCurrent(r)
      [] r.op = "join_current"   -> MayJoin(r)
      [] r.op = "add_member"     -> MayAddMember(r)
      [] r.op = "remove_member"  -> MayRemoveMember(r)
      [] r.op = "current_invite" -> IsCaptain(r)
      [] r.op = "update_current" -> IsCaptain(r) /\ MayBeCaptain(r)
      [] r.op = "update_captain" -> mode = "teams" /\ MayBeCaptain(r)
      [] r.op = "update_state"   -> mode = "teams"
      [] r.op = "delete_admin"   -> mode = "teams" /\ Live(r.team)
      [] r.op = "delete_current" -> MayDisband(r)
      [] r.op = "move_user"      -> MayMoveUser(r)
      [] r.op = "change_role"    -> acct[r.user].kind # "deleted"
      [] r.op = "compete"        -> MayCompete(r) /\ serial < MaxRows
      [] r.op = "launch"         -> MayLaunch(r)
      [] r.op = "delete_user"    -> TRUE
      [] r.op = "transition"     -> MayTransition(r)

\* The account a competition row is written for is read here.
Check(p) ==
    LET r == req[p] IN
    /\ r.pc = "locking" /\ r.taken = Len(Locks(r))
    /\ req' = [req EXCEPT ![p] =
                 IF ~Permitted(r) THEN Idle
                 ELSE [r EXCEPT !.pc = "writing",
                                !.team = IF r.op = "compete" /\ r.arg = "teams"
                                         THEN acct[r.user].team ELSE r.team]]
    /\ UNCHANGED <<data, invites, previews, spent, started>>

----------------------------------------------------------------------------
(* What they write *)

Writes(p, op) ==
    req[p].pc = "writing" /\ req[p].op = op /\ \A l \in Wanted(p) : MayTake(Held, p, l)
Done(p)       == req' = [req EXCEPT ![p] = Idle]

NewTeam(captain) == [NoTeam EXCEPT !.state = "live", !.captain = captain]

Assign(u, t) == acct' = [acct EXCEPT ![u].team = t]

CreateTeam(p) ==
    /\ Writes(p, "create")
    /\ team' = [team EXCEPT ![req[p].arg] = NewTeam(None)]
    /\ Done(p)
    /\ UNCHANGED <<mode, audit, acct, rows, serial, running, invites, previews, spent, started>>

CreateCurrentTeam(p) ==
    /\ Writes(p, "create_current")
    /\ team' = [team EXCEPT ![req[p].arg] = NewTeam(req[p].user)]
    /\ Assign(req[p].user, req[p].arg)
    /\ Done(p)
    /\ UNCHANGED <<mode, audit, rows, serial, running, invites, previews, spent, started>>

JoinTeam(p) ==
    /\ Writes(p, "join_current") \/ Writes(p, "add_member")
    /\ Assign(req[p].user, req[p].team)
    /\ Done(p)
    /\ UNCHANGED <<mode, audit, team, rows, serial, running, invites, previews, spent, started>>

\* The team's row once u is no longer its captain.
WithoutCaptain(u) ==
    [t \in TeamIds |-> IF team[t].captain = u THEN [team[t] EXCEPT !.captain = None]
                       ELSE team[t]]

RemoveMember(p) ==
    /\ Writes(p, "remove_member")
    /\ Assign(req[p].user, None)
    /\ team' = WithoutCaptain(req[p].user)
    /\ rows' = {row \in rows : row.user # req[p].user}
    /\ Done(p)
    /\ UNCHANGED <<mode, audit, serial, running, invites, previews, spent, started>>

\* A password may be set with the captain; it invalidates the invites.
UpdateCaptain(p) ==
    /\ Writes(p, "update_captain") \/ Writes(p, "update_current")
    /\ \E password \in {team[req[p].team].password, 1} :
        team' = [team EXCEPT ![req[p].team].captain = req[p].arg,
                             ![req[p].team].password = password]
    /\ Live(req[p].team)
    /\ Done(p)
    /\ UNCHANGED <<mode, audit, acct, rows, serial, running, invites, previews, spent, started>>

UpdateState(p) ==
    /\ Writes(p, "update_state")
    /\ Live(req[p].team)
    /\ team' = [team EXCEPT ![req[p].team].listed = req[p].arg[1],
                            ![req[p].team].banned = req[p].arg[2]]
    /\ Done(p)
    /\ UNCHANGED <<mode, audit, acct, rows, serial, running, invites, previews, spent, started>>

\* The rows of the team go with it (ON DELETE CASCADE).
DeleteTeam(p) ==
    /\ Writes(p, "delete_admin") \/ Writes(p, "delete_current")
    /\ acct' = [u \in Users |-> IF acct[u].team = req[p].team
                                THEN [acct[u] EXCEPT !.team = None] ELSE acct[u]]
    /\ team' = [team EXCEPT ![req[p].team] = [NoTeam EXCEPT !.state = "gone"]]
    /\ rows' = {row \in rows : row.team # req[p].team}
    /\ Done(p)
    /\ UNCHANGED <<mode, audit, serial, running, invites, previews, spent, started>>

IssueInvite(p) ==
    /\ Writes(p, "current_invite")
    /\ invites' = invites \cup {[team |-> req[p].team, password |-> team[req[p].team].password]}
    /\ Done(p)
    /\ UNCHANGED <<data, previews, spent, started>>

MoveUser(p) ==
    /\ Writes(p, "move_user")
    /\ Assign(req[p].user, req[p].team)
    /\ team' = IF acct[req[p].user].team # req[p].team
               THEN WithoutCaptain(req[p].user) ELSE team
    /\ Done(p)
    /\ UNCHANGED <<mode, audit, rows, serial, running, invites, previews, spent, started>>

\* An administrator has no team.  A change of role ends the account's sessions.
ChangeRole(p) ==
    LET u == req[p].user IN
    /\ Writes(p, "change_role")
    /\ acct' = [acct EXCEPT ![u].kind = req[p].arg,
                            ![u].team = IF req[p].arg = "admin" THEN None ELSE @,
                            ![u].session = IF acct[u].kind # req[p].arg THEN 0 ELSE @]
    /\ team' = IF req[p].arg = "admin" THEN WithoutCaptain(u) ELSE team
    /\ Done(p)
    /\ UNCHANGED <<mode, audit, rows, serial, running, invites, previews, spent, started>>

DeleteUser(p) ==
    /\ Writes(p, "delete_user")
    /\ acct' = [acct EXCEPT ![req[p].user] =
                  [@ EXCEPT !.kind = "deleted", !.team = None, !.session = 0]]
    /\ team' = WithoutCaptain(req[p].user)
    /\ rows' = {row \in rows : row.user # req[p].user}
    /\ Done(p)
    /\ UNCHANGED <<mode, audit, serial, running, invites, previews, spent, started>>

\* attempt and unlock.  The foreign keys refuse a row for a team or a user that
\* is gone.
Compete(p) ==
    LET r == req[p] IN
    /\ Writes(p, "compete")
    /\ IF acct[r.user].kind # "deleted" /\ (r.team # None => Live(r.team))
       THEN /\ rows' = rows \cup {[id |-> serial + 1, user |-> r.user, team |-> r.team,
                                   born |-> r.born]}
            /\ serial' = serial + 1
       ELSE UNCHANGED <<rows, serial>>
    /\ Done(p)
    /\ UNCHANGED <<mode, audit, acct, team, running, invites, previews, spent, started>>

Launch(p) ==
    /\ Writes(p, "launch")
    /\ running' = running \cup {[user |-> req[p].user, born |-> req[p].born]}
    /\ Done(p)
    /\ UNCHANGED <<mode, audit, acct, team, rows, serial, invites, previews, spent, started>>

Other(m) == IF m = "users" THEN "teams" ELSE "users"

\* prepare_transition and the commit that follows it.
Transition(p) ==
    /\ Writes(p, "transition")
    /\ acct' = [u \in Users |-> [acct[u] EXCEPT !.team = None,
                     !.session = IF acct[u].kind = "admin" THEN @ ELSE 0]]
    /\ rows' = {}
    /\ team' = [t \in TeamIds |-> IF Live(t) THEN [NoTeam EXCEPT !.state = "gone"] ELSE team[t]]
    /\ mode' = Other(mode)
    /\ audit' = audit + 1
    /\ spent' = Append(spent, req[p].arg)
    /\ Done(p)
    /\ UNCHANGED <<serial, running, invites, previews, started>>

----------------------------------------------------------------------------
(* Operations that are one statement, and what happens around the requests *)

ConfigurationFree == MayTake(Held, None, Configuration)

Login(u) ==
    /\ Participant(u) /\ acct[u].session = 0 /\ acct[u].logins < MaxLogins /\ ConfigurationFree
    /\ TeamAllowed(u)
    /\ acct' = [acct EXCEPT ![u].session = acct[u].logins + 2, ![u].logins = @ + 1]
    /\ UNCHANGED <<mode, audit, team, rows, serial, running, invites, previews, spent, req, started>>

\* add_member with an empty body: an administrator reads an invite code.
AdminInvite ==
    /\ mode = "teams"
    /\ \E t \in TeamIds : Live(t) /\
        invites' = invites \cup {[team |-> t, password |-> team[t].password]}
    /\ UNCHANGED <<data, previews, spent, req, started>>

Preview ==
    /\ Len(previews) < MaxPreviews
    /\ running = {}
    /\ previews' = Append(previews, Snapshot)
    /\ UNCHANGED <<data, invites, spent, req, started>>

RuntimeStops ==
    /\ running # {} /\ ConfigurationFree
    /\ \E x \in running : running' = running \ {x}
    /\ UNCHANGED <<mode, audit, acct, team, rows, serial, invites, previews, spent, req, started>>

\* A competition under way: teams with or without a captain, members, at most
\* one row and the invites of the teams; nothing of teams in users mode.
Init ==
    /\ mode \in {"users", "teams"} /\ audit = 0
    /\ \E of \in [Users -> TeamIds \cup {None}] :
        acct = [u \in Users |-> [kind |-> "user", team |-> of[u], session |-> 1, logins |-> 0]]
    /\ \E captains \in [TeamIds -> Users \cup {None}], live \in SUBSET TeamIds :
        /\ Cardinality(live) <= MaxLive
        /\ team = [t \in TeamIds |-> IF t \in live THEN NewTeam(captains[t])
                                    ELSE [NoTeam EXCEPT !.captain = captains[t]]]
    /\ \A t \in TeamIds : team[t].captain # None => acct[team[t].captain].team = t
    /\ \A u \in Users : acct[u].team # None => Live(acct[u].team)
    /\ mode = "users" => \A t \in TeamIds : ~Live(t)
    /\ rows \in {{}} \cup {{[id |-> 1, user |-> u, team |-> acct[u].team, born |-> 0]} :
                          u \in {x \in Users : mode = "teams" => acct[x].team # None}}
    /\ serial = Cardinality(rows) /\ running = {}
    /\ invites = [team : {t \in TeamIds : Live(t)}, password : {0}]
    /\ previews = <<>> /\ spent = <<>>
    /\ req = [p \in Requests |-> Idle] /\ started = 0

Step(p) ==
    \/ StartParticipant(p) \/ StartAdmin(p) \/ TakeLock(p) \/ Fail(p) \/ Check(p)
    \/ CreateTeam(p) \/ CreateCurrentTeam(p) \/ JoinTeam(p) \/ RemoveMember(p)
    \/ UpdateCaptain(p) \/ UpdateState(p) \/ DeleteTeam(p) \/ IssueInvite(p)
    \/ MoveUser(p) \/ ChangeRole(p) \/ DeleteUser(p)
    \/ Compete(p) \/ Launch(p) \/ Transition(p)

Next ==
    \/ \E p \in Requests : Step(p)
    \/ \E u \in Users : Login(u)
    \/ AdminInvite \/ Preview \/ RuntimeStops

Spec == Init /\ [][Next]_vars

----------------------------------------------------------------------------
(* Properties *)

\* Every variable has its type, a member's team exists and no request has more
\* locks than its handler takes.
TypeOK ==
    /\ mode \in {"users", "teams"} /\ audit \in Nat /\ serial \in Nat
    /\ acct \in [Users -> Account]
    /\ team \in [TeamIds -> TeamRow]
    /\ \A u \in Users : acct[u].team # None => Live(acct[u].team)
    /\ rows \subseteq CompetitionRow
    /\ running \subseteq [user : Users, born : Nat]
    /\ invites \subseteq [team : TeamIds, password : Nat]
    /\ \A p \in Requests : req[p].taken <= Len(Locks(req[p]))

\* The captain of a team is one of its members.  The handlers that pick a
\* captain check it in one statement and write it in a later one, and the ones
\* that take a member out run at the same time.
CaptainIsMember ==
    \A t \in TeamIds : team[t].captain # None =>
        acct[team[t].captain].team = t /\ acct[team[t].captain].kind = "user"

\* p's transaction commits what it wrote.
Commits(p, op) == Writes(p, op) /\ req'[p] = Idle /\ data' # data

\* A team is joined by invitation only while it is below team_size, however
\* many invited users join at once.
JoinFits ==
    [][\A p \in Requests :
        Commits(p, "join_current") /\ TeamSize > 0 =>
            Cardinality({u \in Users : acct'[u].team = req[p].team}) <= TeamSize]_vars

\* A participant founds a team only below num_teams, also when administrators
\* create, hide and ban teams at the same time.
FoundingFits ==
    [][\A p \in Requests :
        Commits(p, "create_current") /\ NumTeams > 0 =>
            Cardinality(ActiveTeams') <= NumTeams]_vars

\* No submission, award, unlock or running instance outlives the competition
\* mode it was made in, and a row names a team exactly in teams mode: a request
\* that was under way when the mode changed writes nothing afterwards.
NothingOutlivesItsMode ==
    /\ \A row \in rows : row.born = audit /\ (row.team = None <=> mode = "users")
    /\ \A x \in running : x.born = audit
    /\ mode = "users" => \A t \in TeamIds : ~Live(t)

\* What a transition deletes is what its preview showed, and one preview is
\* carried out at most once, also when the data happens to look the same again.
TransitionAsPreviewed ==
    [][audit' # audit =>
        LET i == spent'[Len(spent')] IN
        /\ previews[i] = Snapshot
        /\ \A k \in DOMAIN spent : spent[k] # i]_vars

\* A captain disbands only a team that has no submission, award or unlock by the
\* time the deletion commits.  (Whether its members run instances is not asked.)
DisbandsUnused ==
    [][\A p \in Requests :
        Commits(p, "delete_current") => \A row \in rows : row.team # req[p].team]_vars

\* No handlers wait for each other in a circle: capacity is taken before
\* membership, and rows after both.
NoCircularWait == ~CircularWait(Held, [p \in Requests |-> Wanted(p)])
=============================================================================
