------------------------------ MODULE Accounts ------------------------------
(***************************************************************************)
(* Accounts and their credentials: the first installation, registration    *)
(* under the admission policy, login, sessions and API tokens, the edits   *)
(* administrators and users make, and the verification of addresses.       *)
(*                                                                         *)
(* A request is one transaction: it starts (authentication and what the    *)
(* handler reads before BEGIN), takes its locks in order, checks, writes   *)
(* and commits.  The rows a transaction writes last are locked at once; a  *)
(* login or a revocation that ends sessions locks their rows one by one    *)
(* and goes on to the row of a user.                                       *)
(***************************************************************************)
EXTENDS PortalLocks, Functions

CONSTANTS
    Users,        \* identifiers of accounts, never used twice
    Emails,       \* addresses, lower case
    Requests,     \* transactions open at the same time
    None,         \* SQL NULL
    NumUsers,     \* configuration num_users, 0: no limit
    OldLinks,     \* accounts whose link at the start expired over thirty days ago
    MaxRequests   \* bound: requests started

ASSUME AccountsAssumption ==
    /\ None \notin Users \cup Emails
    /\ IsFiniteSet(Users)
    /\ OldLinks \subseteq Users
    /\ NumUsers \in Nat /\ MaxRequests \in Nat

VARIABLES
    acct,      \* users
    installs,  \* setups that marked the installation complete
    policy,    \* configuration of the registration
    listed,    \* registration_email_allowlist
    creds,     \* live sessions and API tokens
    link,      \* per account, the verification link that is neither used nor invalidated
    proved,    \* per account, the addresses confirmed so far (for the properties)
    serial,    \* identifiers of sessions, tokens and links handed out
    req,       \* the transactions in progress
    locked,    \* per transaction, the sessions whose rows it has locked
    started    \* requests started

data == <<acct, installs, policy, listed, creds, link, proved, serial>>
vars == <<data, req, locked, started>>

----------------------------------------------------------------------------

\* must: change_password.
Account == [kind : {"none", "user", "admin", "gone"}, email : Emails \cup {None},
            hidden : BOOLEAN, banned : BOOLEAN, must : BOOLEAN, verified : BOOLEAN]
NoAccount == [kind |-> "none", email |-> None, hidden |-> FALSE, banned |-> FALSE,
              must |-> FALSE, verified |-> FALSE]

\* closed: registration_visibility is private.  open covers domain_rules.
\* Addresses and access codes that are refused are refusals of Fail.
Policy == [mode : {"closed", "open", "access_code", "email_allowlist"}, code : BOOLEAN]

\* role: of a token, the type of the account when the request that created it
\* was authenticated (for the properties).
Credential == [type : {"session", "token"}, user : Users, id : Nat,
               role : {"user", "admin", None}]

Link == [id : Nat, email : Emails, old : BOOLEAN]

Exists(u)      == acct[u].kind \in {"user", "admin"}
Administrators == {u \in Users : acct[u].kind = "admin"}
ActiveAdmins   == {u \in Administrators : ~acct[u].banned}
Complete       == installs > 0 \/ Administrators # {}

\* The accounts that count against num_users, administrators included.
Counted == {u \in Users : Exists(u) /\ ~acct[u].banned /\ ~acct[u].hidden}

Registered(e) == \E u \in Users : Exists(u) /\ acct[u].email = e

----------------------------------------------------------------------------
(* Requests *)

\* actor, cred, role: who asks, with which credential, authenticated as what.
\* user, email, arg: the account, the address and the rest of the request.
Idle == [pc |-> "idle", op |-> None, actor |-> None, cred |-> None, role |-> None,
         user |-> None, email |-> None, arg |-> None, taken |-> 0]

Configuration == Shared("configuration")
Capacity      == Exclusive("registration_capacity")
Membership    == Exclusive("team_membership")
Invariant     == Exclusive("setup_invariant")
LinkRow(u, id) == ForUpdate("link", <<u, id>>)
SessionRow(c)  == NoKeyUpdate("session", c)

\* Faulty variants: a lock left out.
EmailUnlocked(r)    == <<>>
SendUnserialised(r) == r.arg

SetupLocks(r)  == <<Invariant>>
EmailLocks(r)  == <<ForUpdate("listed", r.email)>>
RegisterLocks(r) ==
    IF policy.mode = "email_allowlist" THEN <<Configuration>> \o EmailLocks(r)
    ELSE IF NumUsers > 0 THEN <<Configuration, Capacity>>
    ELSE <<Configuration>>
\* login, logout, tokens and the revocation of sessions.
SessionLocks(r) == <<Configuration>>
\* arg: the columns an administrator sets.
CreateLocks(r) ==
    IF r.arg.hidden \/ r.arg.banned THEN <<Configuration>> ELSE <<Configuration, Capacity>>
UpdateLocks(r) ==
    LET fields == DOMAIN r.arg
        row    == ForUpdate("user", r.user)
    IN  IF "kind" \in fields THEN <<Configuration, Capacity, Membership, Invariant, row>>
        ELSE IF fields \cap {"hidden", "banned"} # {}
             THEN <<Configuration, Capacity, Invariant, row>>
        ELSE <<Configuration, Invariant, row>>
SelfLocks(r)      == <<Configuration, ForUpdate("user", r.user)>>
DeleteLocks(r)    == <<Configuration, Capacity, Membership, Invariant, ForUpdate("user", r.user)>>
ConfigureLocks(r) == <<Exclusive("configuration")>>
\* arg: the rows of the expired links, which are deleted first.
SendLocks(r)      == r.arg \o <<ForUpdate("user", r.user)>>
\* arg: the link.
ConfirmLocks(r)   == <<ForUpdate("user", r.user), LinkRow(r.user, r.arg)>>

Locks(r) ==
    CASE r.op = "setup"       -> SetupLocks(r)
      [] r.op = "register"    -> RegisterLocks(r)
      [] r.op \in {"login", "logout", "create_token", "delete_token", "revoke"}
                              -> SessionLocks(r)
      [] r.op = "create"      -> CreateLocks(r)
      [] r.op = "update"      -> UpdateLocks(r)
      [] r.op = "update_self" -> SelfLocks(r)
      [] r.op = "delete"      -> DeleteLocks(r)
      [] r.op = "configure"   -> ConfigureLocks(r)
      [] r.op = "send"        -> SendLocks(r)
      [] r.op = "confirm"     -> ConfirmLocks(r)
      [] r.op = "unlist"      -> EmailLocks(r)
      [] OTHER                -> <<>>

Held == [p \in Requests |-> IF req[p].pc = "delivering" THEN {}
                            ELSE Taken(Locks(req[p]), req[p].taken)]

\* Faulty variant: an edit of the address keeps the account verified.
StillVerified(row, patch) ==
    [f \in DOMAIN row |-> IF f \in DOMAIN patch THEN patch[f] ELSE row[f]]

\* The row after an edit.  A new address is not verified.
Patched(row, patch) ==
    LET New(f) == IF f \in DOMAIN patch THEN patch[f] ELSE row[f] IN
    [kind |-> New("kind"), email |-> New("email"), hidden |-> New("hidden"),
     banned |-> New("banned"), must |-> New("must"),
     verified |-> row.verified /\ New("email") = row.email]

\* A new role, password or ban ends the sessions of the account, a new role its
\* tokens as well.
Ended(u, old, new, patch) ==
    {c \in creds : /\ c.user = u
                   /\ \/ old.kind # new.kind
                      \/ /\ c.type = "session"
                         /\ "password" \in DOMAIN patch \/ (new.banned /\ ~old.banned)}

\* The session the browser presents, whosever it is, and those an administrator
\* revokes: all of them, those of an account or one.
Revoked(r) ==
    {c \in creds : /\ c.type = "session"
                   /\ r.user # None => c.user = r.user
                   /\ r.arg # None => c = r.arg}
SessionOps == {"login", "logout", "revoke"}
Ending(r) == IF r.op = "revoke" THEN Revoked(r) ELSE creds \cap {r.cred}

\* The sessions whose rows a transaction has yet to lock as it writes.  arg: what
\* the UPDATE of a login, a logout or a revocation found.
Unlocked(p) ==
    LET r   == req[p]
        old == acct[r.user]
    IN  CASE r.pc = "writing" /\ r.op \in SessionOps -> (r.arg \cap creds) \ locked[p]
          [] r.pc = "writing" /\ r.op \in {"update", "update_self"} ->
                {c \in Ended(r.user, old, Patched(old, r.arg), r.arg) : c.type = "session"}
          [] r.pc = "writing" /\ r.op = "delete" ->
                {c \in creds : c.type = "session" /\ c.user = r.user}
          [] OTHER -> {}

SessionsHeld == [p \in Requests |-> {SessionRow(c) : c \in locked[p]}]

\* revoked_by_user_id names the administrator: the foreign key locks the account.
ByRows(p) ==
    LET r == req[p] IN
    IF (r.op = "revoke" /\ locked[p] # {}) \/ (r.op = "update" /\ Unlocked(p) # {})
    THEN {KeyShare("user", r.actor)} ELSE {}

\* The rows of the links an account's requests invalidate.
LinkRows(u) == {LinkRow(u, l.id) : l \in {link[u]} \ {None}}

\* What a transaction waits for, sessions apart: its next lock, or the rows it
\* writes last.
Wanted(p) ==
    LET r == req[p] IN
    CASE r.pc = "locking" /\ r.taken < Len(Locks(r)) -> {Locks(r)[r.taken + 1]}
      [] r.pc = "writing" /\ r.op \in {"login", "create_token"} -> {KeyShare("user", r.user)}
      [] r.pc = "writing" /\ r.op = "send" -> LinkRows(r.user)
      [] r.pc = "writing" /\ r.op \in {"update", "update_self", "delete"} ->
            {ForUpdate("listed", acct[r.user].email)} \cup LinkRows(r.user) \cup ByRows(p)
      [] r.pc = "writing" /\ r.op = "revoke" -> ByRows(p)
      [] OTHER -> {}
Waits(p) == Wanted(p) \cup {SessionRow(c) : c \in Unlocked(p)}

\* authorize_identity: the account may act with one of its live credentials.
MayAct(u) == Exists(u) /\ ~acct[u].banned /\ ~acct[u].must

\* revalidate_current_credential, under the configuration lock.
CredentialValid(r) ==
    r.role # None => r.cred \in creds /\ acct[r.actor].kind = r.role /\ MayAct(r.actor)

\* The handlers that revalidate: configuration and allowlist edits, setup,
\* registration, login, logout and the verification of an address do not.
Revalidates == {"create_token", "delete_token", "revoke", "create", "update",
                "update_self", "delete"}

Start(p, op, c, user, email, arg) ==
    /\ req[p].pc = "idle"
    /\ started < MaxRequests
    /\ started' = started + 1
    /\ req' = [req EXCEPT ![p] =
                 [pc |-> "locking", op |-> op, cred |-> c,
                  actor |-> IF c = None THEN None ELSE c.user,
                  role |-> IF c = None THEN None ELSE acct[c.user].kind,
                  user |-> user, email |-> email, arg |-> arg, taken |-> 0]]
    /\ UNCHANGED <<data, locked>>

\* The columns an edit may set, one at a time and to another value.
Values(field) ==
    CASE field = "kind"     -> {"user", "admin"}
      [] field = "email"    -> Emails
      [] field = "password" -> {"new"}
      [] OTHER              -> BOOLEAN
Patches(u, fields) ==
    {patch \in UNION {[{f} -> Values(f)] : f \in fields} :
        \A f \in DOMAIN patch \ {"password"} : patch[f] # acct[u][f]}

\* The links of other accounts and of this one that a resend purges, in the order
\* the DELETE happens to find them.
OldRows == {LinkRow(u, link[u].id) : u \in {v \in Users : link[v] # None /\ link[v].old}}
Purges  == Surjection(1..Cardinality(OldRows), OldRows)

\* Setup is refused for ever once it is complete.
StartPublic(p) ==
    \/ \E u \in Users : acct[u].kind = "none" /\ \E e \in Emails :
         \/ ~Complete /\ Start(p, "setup", None, u, e, None)
         \/ Complete /\ Start(p, "register", None, u, e, None)
    \/ \E u \in Users : Exists(u) /\ \E c \in creds \cup {None} :
         (c # None => c.type = "session") /\ Start(p, "login", c, u, None, None)
    \/ \E c \in creds : c.type = "session" /\ Start(p, "logout", c, c.user, None, None)
    \/ \E u \in Users : link[u] # None /\ Start(p, "confirm", None, u, None, link[u].id)

StartOwn(p) ==
    \E c \in creds : MayAct(c.user) /\
        \/ Start(p, "create_token", c, c.user, None, None)
        \/ \E t \in creds : /\ t.type = "token"
                            /\ acct[c.user].kind = "admin" \/ t.user = c.user
                            /\ Start(p, "delete_token", c, t.user, None, t)
        \/ \E patch \in Patches(c.user, {"email", "password"}) :
             Start(p, "update_self", c, c.user, None, patch)
        \/ \E rows \in Purges : Start(p, "send", c, c.user, None, rows)

StartAdmin(p) ==
    \E c \in creds : MayAct(c.user) /\ acct[c.user].kind = "admin" /\
        \/ \E u \in Users \cup {None} : Start(p, "revoke", c, u, None, None)
        \/ \E s \in creds : s.type = "session" /\ Start(p, "revoke", c, s.user, None, s)
        \/ \E u \in Users, e \in Emails : acct[u].kind = "none" /\
             \E k \in {"user", "admin"}, hidden \in BOOLEAN :
               Start(p, "create", c, u, e, [kind |-> k, hidden |-> hidden, banned |-> FALSE])
        \/ \E u \in Users : Exists(u) /\
             \/ \E patch \in Patches(u, {"kind", "email", "hidden", "banned", "must", "password"}) :
                  /\ ~(u = c.user /\ "banned" \in DOMAIN patch /\ patch.banned)
                  /\ Start(p, "update", c, u, None, patch)
             \/ u # c.user /\ Start(p, "delete", c, u, None, None)
        \/ \E m \in {"closed", "open", "access_code", "email_allowlist"} :
             Start(p, "configure", c, None, None, [mode |-> m])
        \/ \E b \in BOOLEAN : Start(p, "configure", c, None, None, [code |-> b])
        \/ \E e \in Emails :
             \/ (\A u \in Administrators : acct[u].email # e) /\ Start(p, "list", c, None, e, None)
             \/ Start(p, "unlist", c, None, e, None)

TakeLock(p) ==
    LET r == req[p] IN
    /\ r.pc = "locking" /\ r.taken < Len(Locks(r))
    /\ MayTake(Held, p, Locks(r)[r.taken + 1])
    /\ req' = [req EXCEPT ![p] =
                 IF r.taken = 0 /\ r.op \in Revalidates /\ ~CredentialValid(r) THEN Idle
                 ELSE [r EXCEPT !.taken = @ + 1]]
    /\ UNCHANGED <<data, locked, started>>

Done(p) ==
    /\ req' = [req EXCEPT ![p] = Idle]
    /\ locked' = [locked EXCEPT ![p] = {}]

\* A database error, a refusal not modelled here (a wrong password, an address
\* the domain rules refuse, a resend too soon, personalised flags), a time-out
\* or a lost connection: the transaction rolls back.
Fail(p) ==
    /\ req[p].pc \in {"locking", "writing"}
    /\ Done(p)
    /\ UNCHANGED <<data, started>>

----------------------------------------------------------------------------
(* What the handlers check once their locks are held *)

MaySetUp(r) == ~Complete /\ ~Registered(r.email)

\* The admission policy, the address and, last, the number of accounts.
MayRegister(r) ==
    /\ policy.mode # "closed"
    /\ policy.mode = "access_code" => policy.code
    /\ policy.mode = "email_allowlist" => r.email \in listed
    /\ ~Registered(r.email)
    /\ policy.mode # "email_allowlist" /\ NumUsers > 0 => Cardinality(Counted) < NumUsers

\* guard_admin_update and guard_admin_delete: an edit that takes an active
\* administrator away needs another one.
Deactivates(r) ==
    /\ r.user \in ActiveAdmins
    /\ \/ r.op = "delete"
       \/ "kind" \in DOMAIN r.arg /\ r.arg.kind # "admin"
       \/ "banned" \in DOMAIN r.arg /\ r.arg.banned
\* Faulty variant: a banned administrator is good enough.
MayDeactivateIfAny(r) == Deactivates(r) => Administrators \ {r.user} # {}
MayDeactivate(r) == Deactivates(r) => ActiveAdmins \ {r.user} # {}

FreeAddress(r) ==
    "email" \in DOMAIN r.arg =>
        \A u \in Users \ {r.user} : Exists(u) => acct[u].email # r.arg.email

\* normalize_mutations: the settings that result, taken together.
Configured(r) == [mode |-> IF "mode" \in DOMAIN r.arg THEN r.arg.mode ELSE policy.mode,
                  code |-> IF "code" \in DOMAIN r.arg THEN r.arg.code ELSE policy.code]
MayConfigure(r) == Configured(r).mode = "access_code" => Configured(r).code

MayConfirm(r) ==
    /\ Exists(r.user)
    /\ link[r.user] # None
    /\ link[r.user].id = r.arg /\ ~link[r.user].old
    /\ link[r.user].email = acct[r.user].email

Permitted(r) ==
    CASE r.op = "setup"       -> MaySetUp(r)
      [] r.op = "register"    -> MayRegister(r)
      [] r.op = "login"       -> MayAct(r.user)
      [] r.op = "create"      -> ~Registered(r.email)
      [] r.op = "update"      -> Exists(r.user) /\ MayDeactivate(r) /\ FreeAddress(r)
      [] r.op = "update_self" -> Exists(r.user) /\ FreeAddress(r)
      [] r.op = "delete"      -> MayDeactivate(r)
      [] r.op = "configure"   -> MayConfigure(r)
      [] r.op = "send"        -> Exists(r.user) /\ ~acct[r.user].verified
      [] r.op = "confirm"     -> MayConfirm(r)
      [] r.op = "unlist"      -> r.email \in listed /\ ~Registered(r.email)
      [] OTHER                -> TRUE

\* A resend takes the address of the account here, an UPDATE of sessions the rows.
Decides(r) == [r EXCEPT !.pc = "writing",
                        !.email = IF r.op = "send" THEN acct[r.user].email ELSE @,
                        !.arg = IF r.op \in SessionOps THEN Ending(r) ELSE @]
Check(p) ==
    LET r == req[p] IN
    /\ r.pc = "locking" /\ r.taken = Len(Locks(r))
    /\ req' = [req EXCEPT ![p] = IF Permitted(r) THEN Decides(r) ELSE Idle]
    /\ UNCHANGED <<data, locked, started>>

\* The UPDATE locks the next of its rows, in the order it finds them.
LockSession(p) ==
    /\ req[p].op \in SessionOps
    /\ \E c \in Unlocked(p) :
         /\ MayTake(SessionsHeld, p, SessionRow(c))
         /\ locked' = [locked EXCEPT ![p] = @ \cup {c}]
    /\ UNCHANGED <<data, req, started>>

----------------------------------------------------------------------------
(* What they write *)

Writes(p, op) ==
    /\ req[p].pc = "writing" /\ req[p].op = op
    /\ \A l \in Wanted(p) : MayTake(Held, p, l)
    /\ op \in SessionOps => Unlocked(p) = {}
    /\ \A c \in Unlocked(p) : MayTake(SessionsHeld, p, SessionRow(c))

Session(u, id) == [type |-> "session", user |-> u, id |-> id, role |-> None]

NewAccount(kind, email, hidden, banned) ==
    [kind |-> kind, email |-> email, hidden |-> hidden, banned |-> banned,
     must |-> FALSE, verified |-> FALSE]

\* The insert fails when the name or the address was taken in the meantime.
Insert(r, kind, hidden, banned) ==
    /\ acct[r.user].kind = "none" /\ ~Registered(r.email)
    /\ acct' = [acct EXCEPT ![r.user] = NewAccount(kind, r.email, hidden, banned)]

OpenSession(u, others) ==
    /\ serial' = serial + 1
    /\ creds' = others \cup {Session(u, serial + 1)}

SetUp(p) ==
    /\ Writes(p, "setup")
    /\ Insert(req[p], "admin", TRUE, FALSE)
    /\ OpenSession(req[p].user, creds)
    /\ installs' = installs + 1
    /\ policy' = [policy EXCEPT !.mode = "open"]
    /\ Done(p)
    /\ UNCHANGED <<listed, link, proved, started>>

Register(p) ==
    /\ Writes(p, "register")
    /\ Insert(req[p], "user", FALSE, FALSE)
    /\ OpenSession(req[p].user, creds)
    /\ Done(p)
    /\ UNCHANGED <<installs, policy, listed, link, proved, started>>

\* The session the browser presented is revoked.
Login(p) ==
    /\ Writes(p, "login") /\ Exists(req[p].user)
    /\ OpenSession(req[p].user, creds \ req[p].arg)
    /\ Done(p)
    /\ UNCHANGED <<acct, installs, policy, listed, link, proved, started>>

Revoke(p) ==
    /\ Writes(p, "revoke") /\ (locked[p] # {} => Exists(req[p].actor))
    /\ creds' = creds \ req[p].arg
    /\ Done(p)
    /\ UNCHANGED <<acct, installs, policy, listed, link, proved, serial, started>>

Logout(p) ==
    /\ Writes(p, "logout")
    /\ creds' = creds \ req[p].arg
    /\ Done(p)
    /\ UNCHANGED <<acct, installs, policy, listed, link, proved, serial, started>>

CreateToken(p) ==
    /\ Writes(p, "create_token") /\ Exists(req[p].user)
    /\ serial' = serial + 1
    /\ creds' = creds \cup {[type |-> "token", user |-> req[p].user, id |-> serial + 1,
                             role |-> req[p].role]}
    /\ Done(p)
    /\ UNCHANGED <<acct, installs, policy, listed, link, proved, started>>

DeleteToken(p) ==
    /\ Writes(p, "delete_token")
    /\ creds' = creds \ {req[p].arg}
    /\ Done(p)
    /\ UNCHANGED <<acct, installs, policy, listed, link, proved, serial, started>>

\* An administrator creates an account whatever the number of users.
Create(p) ==
    LET r == req[p] IN
    /\ Writes(p, "create")
    /\ Insert(r, r.arg.kind, r.arg.hidden, r.arg.banned)
    /\ listed' = listed \cup (IF r.arg.kind = "user" THEN {r.email} ELSE {})
    /\ Done(p)
    /\ UNCHANGED <<installs, policy, creds, link, proved, serial, started>>

\* sync_allowlist: the list follows an address and a role.
Synced(old, new) ==
    CASE old.kind = "user" /\ new.kind = "user" /\ old.email # new.email /\ old.email \in listed ->
            (listed \ {old.email}) \cup {new.email}
      [] old.kind = "user" /\ new.kind # "user" -> listed \ {old.email}
      [] old.kind # "user" /\ new.kind = "user" -> listed \cup {new.email}
      [] OTHER -> listed

Edit(p, op) ==
    LET r == req[p]
        old == acct[r.user]
        new == Patched(old, r.arg)
    IN  /\ Writes(p, op)
        /\ FreeAddress(r) /\ (Unlocked(p) # {} => Exists(r.actor))
        /\ acct' = [acct EXCEPT ![r.user] = new]
        /\ listed' = Synced(old, new)
        /\ link' = [link EXCEPT ![r.user] = IF old.email # new.email THEN None ELSE @]
        /\ creds' = creds \ Ended(r.user, old, new, r.arg)
        /\ Done(p)
        /\ UNCHANGED <<installs, policy, proved, serial, started>>

Delete(p) ==
    LET u == req[p].user IN
    /\ Writes(p, "delete")
    /\ acct' = [acct EXCEPT ![u] = IF Exists(u) THEN [NoAccount EXCEPT !.kind = "gone"] ELSE @]
    /\ listed' = listed \ {acct[u].email}
    /\ creds' = {c \in creds : c.user # u}
    /\ link' = [link EXCEPT ![u] = None]
    /\ Done(p)
    /\ UNCHANGED <<installs, policy, proved, serial, started>>

Configure(p) ==
    /\ Writes(p, "configure")
    /\ policy' = Configured(req[p])
    /\ Done(p)
    /\ UNCHANGED <<acct, installs, listed, creds, link, proved, serial, started>>

List(p) ==
    /\ Writes(p, "list") /\ req[p].email \notin listed
    /\ listed' = listed \cup {req[p].email}
    /\ Done(p)
    /\ UNCHANGED <<acct, installs, policy, creds, link, proved, serial, started>>

Unlist(p) ==
    /\ Writes(p, "unlist")
    /\ listed' = listed \ {req[p].email}
    /\ Done(p)
    /\ UNCHANGED <<acct, installs, policy, creds, link, proved, serial, started>>

\* arg: the link that is on its way.
Delivers(r) == [r EXCEPT !.pc = "delivering", !.arg = serial + 1]

\* The purge and the new link commit, then the mail is handed to the provider.
Send(p) ==
    LET r == req[p]
        gone == {l.lock[2] : l \in Range(r.arg)}
    IN  /\ Writes(p, "send") /\ Exists(r.user)
        /\ serial' = serial + 1
        /\ link' = [u \in Users |->
                      CASE u = r.user -> [id |-> serial + 1, email |-> r.email, old |-> FALSE]
                        [] u # r.user /\ link[u] # None /\ <<u, link[u].id>> \in gone -> None
                        [] OTHER -> link[u]]
        /\ req' = [req EXCEPT ![p] = Delivers(r)]
        /\ UNCHANGED <<acct, installs, policy, listed, creds, proved, locked, started>>

Delivered(p) ==
    /\ req[p].pc = "delivering"
    /\ Done(p)
    /\ UNCHANGED <<data, started>>

\* The provider refuses or does not answer: this link, and no other, is invalidated.
DeliveryFailed(p) ==
    LET u == req[p].user IN
    /\ req[p].pc = "delivering"
    /\ MayTake(Held, p, LinkRow(u, req[p].arg))
    /\ link' = [link EXCEPT ![u] = IF @ # None /\ @.id = req[p].arg THEN None ELSE @]
    /\ Done(p)
    /\ UNCHANGED <<acct, installs, policy, listed, creds, proved, serial, started>>

Confirm(p) ==
    LET u == req[p].user IN
    /\ Writes(p, "confirm") /\ MayConfirm(req[p])
    /\ acct' = [acct EXCEPT ![u].verified = TRUE]
    /\ proved' = [proved EXCEPT ![u] = @ \cup {link[u].email}]
    /\ link' = [link EXCEPT ![u] = None]
    /\ Done(p)
    /\ UNCHANGED <<installs, policy, listed, creds, serial, started>>

----------------------------------------------------------------------------

\* A fresh database, or an installation in use.
Fresh ==
    /\ acct = [u \in Users |-> NoAccount]
    /\ installs = 0 /\ listed = {} /\ creds = {}
    /\ policy = [mode |-> "open", code |-> FALSE]
    /\ link = [u \in Users |-> None]

InUse ==
    /\ acct \in [Users -> {NoAccount} \cup
                  [kind : {"user"}, email : Emails, hidden : {FALSE}, banned : {FALSE},
                   must : {FALSE}, verified : {FALSE}] \cup
                  [kind : {"admin"}, email : Emails, hidden : {TRUE}, banned : {FALSE},
                   must : {FALSE}, verified : {FALSE}]]
    /\ \A u, v \in Users : u # v /\ acct[u].email = acct[v].email => acct[u].email = None
    /\ ActiveAdmins # {} /\ \E u \in Users : ~Exists(u)
    /\ installs = 1
    /\ listed \in {{}, Emails}
    /\ policy \in [mode : {"open", "access_code", "email_allowlist"}, code : {TRUE}]
    /\ creds = {Session(u, 0) : u \in {v \in Users : Exists(v)}}
    /\ link = [u \in Users |-> IF Exists(u)
                               THEN [id |-> 0, email |-> acct[u].email, old |-> u \in OldLinks]
                               ELSE None]

Init ==
    /\ Fresh \/ InUse
    /\ proved = [u \in Users |-> {}]
    /\ serial = 0 /\ started = 0
    /\ req = [p \in Requests |-> Idle]
    /\ locked = [p \in Requests |-> {}]

Next ==
    \E p \in Requests :
        \/ StartPublic(p) \/ StartOwn(p) \/ StartAdmin(p)
        \/ TakeLock(p) \/ Check(p) \/ LockSession(p) \/ Fail(p)
        \/ SetUp(p) \/ Register(p) \/ Login(p) \/ Logout(p) \/ Revoke(p)
        \/ CreateToken(p) \/ DeleteToken(p)
        \/ Create(p) \/ Edit(p, "update") \/ Edit(p, "update_self") \/ Delete(p)
        \/ Configure(p) \/ List(p) \/ Unlist(p)
        \/ Send(p) \/ Delivered(p) \/ DeliveryFailed(p) \/ Confirm(p)

Spec == Init /\ [][Next]_vars

----------------------------------------------------------------------------
(* Properties *)

\* Accounts, credentials and links have their types, a live account has an
\* address of its own (users_email_key), and a credential an account.
TypeOK ==
    /\ acct \in [Users -> Account]
    /\ policy \in Policy /\ listed \subseteq Emails /\ serial \in Nat
    /\ creds \subseteq Credential /\ \A c \in creds : Exists(c.user)
    /\ locked \in [Requests -> SUBSET Credential]
    /\ link \in [Users -> Link \cup {None}]
    /\ \A u \in Users : Exists(u) <=> acct[u].email # None
    /\ \A u, v \in Users : Exists(u) /\ Exists(v) /\ acct[u].email = acct[v].email => u = v

\* Once installed, the portal always has an administrator who is not banned:
\* administrators who demote, ban or delete each other at the same time cannot
\* both succeed (guard_admin_update, guard_admin_delete).
ActiveAdminRemains == installs > 0 => ActiveAdmins # {}

\* Setup succeeds once, however many replicas and browsers try it.
SetupOnce == installs <= 1

\* Unless the address was reserved on the allowlist, no registration is
\* accepted past num_users, whatever administrators create, unban, show or
\* delete at the same time.
RegistrationFits ==
    [][\A p \in Requests :
          Register(p) /\ NumUsers > 0 /\ policy.mode # "email_allowlist"
            => Cardinality(Counted') <= NumUsers]_vars

\* A registration commits under the policy in force at that moment, and on an
\* address that is still on the allowlist when the policy asks for one: the
\* policy and the entry cannot change after they were read.
RegistrationAdmitted ==
    [][\A p \in Requests : Register(p) => MayRegister(req[p])]_vars

\* Settings are valid together: the access-code mode never commits while the
\* code is empty, even when two administrators each change one of the two.
PolicyIsConsistent == policy.mode = "access_code" => policy.code

\* verified always means that the owner followed a link sent to the address the
\* account has now.
VerifiedIsProven == \A u \in Users : acct[u].verified => acct[u].email \in proved[u]

\* A link that can still be used was sent to the address the account has now:
\* a change of address invalidates the links sent before, a resend in progress
\* included.
LinkIsCurrent == \A u \in Users : link[u] # None => link[u].email = acct[u].email

\* No transactions wait for each other, those left out that wait while they hold
\* rows of sessions: the order of the configuration, capacity, membership, setup,
\* user, allowlist, link and session locks is the same in every other handler.
NoCircularWait ==
    ~CircularWait([p \in Requests |-> Held[p] \cup SessionsHeld[p]],
                  [p \in Requests |-> IF locked[p] = {} THEN Waits(p) ELSE {}])

\* With those it does not hold: a login has locked the session it ends and waits
\* for the user, an edit of the user has locked the user and waits for the
\* session (browser_auth.rs:422 and 749, user_accounts.rs:568 and 772); and a
\* revocation locks the rows of several sessions in no fixed order.
NoCircularWaitAtAll ==
    ~CircularWait([p \in Requests |-> Held[p] \cup SessionsHeld[p]],
                  [p \in Requests |-> Waits(p)])

\* A role change ends every API token a request authenticated under the old
\* role created: no token works under a role its creator did not have.
TokenKeepsItsRole ==
    \A c \in creds : c.type = "token" => c.role = acct[c.user].kind
=============================================================================
