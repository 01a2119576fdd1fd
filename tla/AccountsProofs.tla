---------------------------- MODULE AccountsProofs ----------------------------
(***************************************************************************)
(* What the locks of setup, registration, account edits and verification   *)
(* guarantee, for any number of accounts, addresses and transactions.      *)
(*                                                                         *)
(* The argument is that of TeamsProofs: conflicting locks are not held     *)
(* together (ExclusiveLocks), so what a handler checked under its locks    *)
(* (Decided) is still true when it writes, and the writes keep the         *)
(* accounts, the policy and the links consistent.                          *)
(***************************************************************************)
EXTENDS Accounts, SequenceTheorems, FiniteSetTheorems, TLAPS

Ops == {"setup", "register", "login", "logout", "confirm", "create_token", "delete_token",
        "update_self", "send", "revoke", "create", "update", "delete", "configure", "list",
        "unlist"}
UserOps == Ops \ {"revoke", "configure", "list", "unlist"}
\* Handlers that write an account they know.
KnownOps == {"update", "update_self", "delete", "send"}

Fields == {"kind", "email", "hidden", "banned", "must", "password"}
IsPatch(patch, fields) == \E f \in fields : patch \in [{f} -> Values(f)]

\* A transaction has the fields of Idle.
IsRequest(r) ==
    /\ r = [pc |-> r.pc, op |-> r.op, cred |-> r.cred, actor |-> r.actor, role |-> r.role,
            user |-> r.user, email |-> r.email, arg |-> r.arg, taken |-> r.taken]
    /\ r.pc \in {"idle", "locking", "writing", "delivering"} /\ r.taken \in Nat

LinkLock == [lock : {"link"} \X (Users \X Nat), mode : {"exclusive"}]

\* A request names what its handler needs.
WellFormed(r) ==
    /\ r.op \in Ops
    /\ r.op \in UserOps => r.user \in Users
    /\ r.op \in {"setup", "register", "create", "list"} => r.email \in Emails
    /\ r.op = "create" => r.arg \in [kind : {"user", "admin"}, hidden : BOOLEAN, banned : BOOLEAN]
    /\ r.op = "update" => IsPatch(r.arg, Fields)
    /\ r.op = "update_self" => IsPatch(r.arg, {"email", "password"})
    /\ r.op = "configure" => r.arg \in [mode : {"closed", "open", "access_code", "email_allowlist"}]
                                       \cup [code : BOOLEAN]
    /\ r.op = "create_token" => r.role \in {"user", "admin", None}
    /\ r.op = "send" /\ r.pc # "delivering" => r.arg \in Seq(LinkLock)
    /\ r.pc = "delivering" => r.op = "send"

RequestsTyped ==
    /\ req = [p \in Requests |-> req[p]] /\ \A p \in Requests : IsRequest(req[p])
    /\ \A p \in Requests : req[p].pc # "idle" => WellFormed(req[p])
    /\ \A p \in Requests : req[p].pc = "idle" => req[p].taken = 0

DataTyped ==
    /\ TypeOK /\ installs \in Nat /\ started \in Nat
    /\ proved \in [Users -> SUBSET Emails]

\* An identifier is not forgotten: the account of an edit exists or existed.
KnownUsers ==
    \A p \in Requests : req[p].pc # "idle" /\ req[p].op \in KnownOps
        => acct[req[p].user].kind # "none"

\* Links belong to accounts.
LinksOfAccounts == \A u \in Users : ~Exists(u) => link[u] = None

\* Before the first setup there is nothing but requests to set up.
BeforeSetup ==
    installs = 0 =>
        /\ \A u \in Users : acct[u].kind = "none"
        /\ creds = {}
        /\ \A p \in Requests : req[p].pc # "idle" => req[p].op = "setup"

\* A transaction that writes has all its locks.
WritersHoldAll ==
    \A p \in Requests : req[p].pc = "writing" => req[p].taken = Len(Locks(req[p]))

\* No two transactions hold conflicting locks.
ExclusiveLocks == Exclusion(Held)

\* The admission policy without the address, which the insert looks at again.
Admits(r) ==
    /\ policy.mode # "closed"
    /\ policy.mode = "access_code" => policy.code
    /\ policy.mode = "email_allowlist" => r.email \in listed
    /\ policy.mode # "email_allowlist" /\ NumUsers > 0 => Cardinality(Counted) < NumUsers

\* What a handler checked, as far as it still has to be true when it writes.
Decided(r) ==
    /\ r.op = "setup" => ~Complete
    /\ r.op = "register" => Admits(r)
    /\ r.op \in {"update", "update_self", "send"} => Exists(r.user)
    /\ r.op \in {"update", "delete"} => MayDeactivate(r)
    /\ r.op = "configure" => MayConfigure(r)
    /\ r.op = "send" => r.email = acct[r.user].email

DecisionsHold == \A p \in Requests : req[p].pc = "writing" => Decided(req[p])

IInv == /\ RequestsTyped /\ DataTyped /\ KnownUsers /\ LinksOfAccounts /\ BeforeSetup
        /\ WritersHoldAll /\ ExclusiveLocks /\ DecisionsHold
        /\ ActiveAdminRemains /\ SetupOnce /\ PolicyIsConsistent /\ VerifiedIsProven
        /\ LinkIsCurrent

\* Without links over thirty days old, a resend has nothing to delete first.
NoOldLinks ==
    /\ \A u \in Users : link[u] # None => ~link[u].old
    /\ \A p \in Requests : req[p].pc \in {"locking", "writing"} /\ req[p].op = "send"
          => req[p].arg = <<>>

----------------------------------------------------------------------------
(* Locks taken one after the other *)

\* Whoever holds an exclusive lock holds it alone (pg_advisory_xact_lock,
\* SELECT ... FOR UPDATE).
LEMMA ExclusiveHolder ==
  ASSUME NEW held, Exclusion(held), NEW p \in DOMAIN held, NEW q \in DOMAIN held,
         NEW l \in held[p], NEW h \in held[q], l.lock = h.lock, l.mode = "exclusive"
  PROVE  p = q
  BY DEF Exclusion, Compatible

\* A lock that is granted while another process holds a conflicting one is a
\* contradiction: the statement would have waited.
LEMMA GrantedIsFree ==
  ASSUME NEW held, NEW p, NEW l, MayTake(held, p, l),
         NEW q \in DOMAIN held, q # p, NEW h \in held[q], l.lock = h.lock, h.mode = "exclusive"
  PROVE  FALSE
  BY DEF MayTake, Compatible

\* Taking one more lock under MayTake, while the others keep or release theirs,
\* preserves the exclusion.
LEMMA TakeKeepsExclusion ==
  ASSUME NEW held, NEW after, NEW p, NEW l, Exclusion(held), MayTake(held, p, l),
         DOMAIN after = DOMAIN held,
         \A q \in DOMAIN held : after[q] \subseteq held[q] \cup (IF q = p THEN {l} ELSE {})
  PROVE  Exclusion(after)
<1> SUFFICES ASSUME NEW a \in DOMAIN held, NEW b \in DOMAIN held, a # b,
                    NEW x \in after[a], NEW y \in after[b]
             PROVE  Compatible(x, y)
  BY DEF Exclusion
<1>1. CASE x \in held[a] /\ y \in held[b] BY <1>1 DEF Exclusion
<1>2. CASE x \notin held[a]
  <2>1. a = p /\ x = l /\ y \in held[b] BY <1>2
  <2>2. {x.mode, y.mode} = {y.mode, x.mode} OBVIOUS
  <2> QED BY <2>1, <2>2 DEF MayTake, Compatible
<1>3. CASE y \notin held[b] BY <1>3 DEF MayTake
<1> QED BY <1>1, <1>2, <1>3

\* Releasing locks, by committing or rolling back, preserves the exclusion.
LEMMA ReleaseKeepsExclusion ==
  ASSUME NEW held, NEW after, Exclusion(held), DOMAIN after = DOMAIN held,
         \A q \in DOMAIN held : after[q] \subseteq held[q]
  PROVE  Exclusion(after)
  BY DEF Exclusion

\* The locks of a transaction as it takes them one after the other.
LEMMA TakenNext ==
  ASSUME NEW seq, NEW n \in Nat
  PROVE  Taken(seq, n + 1) = Taken(seq, n) \cup {seq[n + 1]}
<1>1. 1..(n + 1) = (1..n) \cup {n + 1} OBVIOUS
<1> QED BY <1>1 DEF Taken

\* Nothing is held before the first lock.
LEMMA TakenNone == ASSUME NEW seq PROVE Taken(seq, 0) = {}
<1>1. 1..0 = {} OBVIOUS
<1> QED BY <1>1 DEF Taken

\* A lock sequence put together from short ones, written out.
LEMMA ConcatLiterals ==
  ASSUME NEW a, NEW b, NEW c
  PROVE  <<a>> \o <<b>> = <<a, b>> /\ <<a, b>> \o <<c>> = <<a, b, c>>
<1> DEFINE S == {a, b, c}
<1>1. a \in S /\ b \in S /\ c \in S OBVIOUS
<1> HIDE DEF S
<1>2. <<a>> \in Seq(S) /\ <<b>> \in Seq(S) /\ <<c>> \in Seq(S) /\ <<a, b>> \in Seq(S) /\ <<a, b, c>> \in Seq(S) BY <1>1
<1>3. PICK s, t : s = <<a>> \o <<b>> /\ t = <<a, b>> OBVIOUS
<1>4. s = t
  <2>1. s \in Seq(S) /\ Len(s) = 2 /\ s[1] = a /\ s[2] = b BY <1>2, <1>3
  <2>2. t \in Seq(S) /\ Len(t) = 2 /\ t[1] = a /\ t[2] = b BY <1>2, <1>3
  <2>3. \A i \in 1..Len(s) : s[i] = t[i] BY <2>1, <2>2
  <2> QED BY <2>1, <2>2, <2>3, SeqEqual
<1>5. PICK u, v : u = <<a, b>> \o <<c>> /\ v = <<a, b, c>> OBVIOUS
<1>6. u = v
  <2>1. u \in Seq(S) /\ Len(u) = 3 /\ u[1] = a /\ u[2] = b /\ u[3] = c BY <1>2, <1>5
  <2>2. v \in Seq(S) /\ Len(v) = 3 /\ v[1] = a /\ v[2] = b /\ v[3] = c BY <1>2, <1>5
  <2>3. \A i \in 1..Len(u) : u[i] = v[i] BY <2>1, <2>2
  <2> QED BY <2>1, <2>2, <2>3, SeqEqual
<1> QED BY <1>3, <1>4, <1>5, <1>6

----------------------------------------------------------------------------
(* The locks of the handlers *)

InvariantOps == {"setup", "update", "delete"}
UserRowOps   == {"update", "update_self", "delete", "send", "confirm"}
ConfigOps    == {"register", "login", "logout", "create_token", "delete_token", "revoke",
                 "create", "update", "update_self", "delete"}

\* The handlers that change the number of accounts, and those that count them.
NeedsCapacity(r) ==
    \/ r.op = "register" /\ policy.mode # "email_allowlist" /\ NumUsers > 0
    \/ r.op = "create" /\ ~r.arg.hidden /\ ~r.arg.banned
    \/ r.op = "update" /\ DOMAIN r.arg \cap {"kind", "hidden", "banned"} # {}
NeedsEmail(r) == r.op = "unlist" \/ (r.op = "register" /\ policy.mode = "email_allowlist")

\* The locks that matter here.
Needed(r) ==
    (IF r.op \in ConfigOps THEN {Configuration} ELSE {})
    \cup (IF r.op = "configure" THEN {Exclusive("configuration")} ELSE {})
    \cup (IF NeedsCapacity(r) THEN {Capacity} ELSE {})
    \cup (IF r.op \in InvariantOps THEN {Invariant} ELSE {})
    \cup (IF r.op \in UserRowOps THEN {ForUpdate("user", r.user)} ELSE {})
    \cup (IF NeedsEmail(r) THEN {ForUpdate("listed", r.email)} ELSE {})

\* Short sequences, by their elements.
IsOne(m, a) == Len(m) = 1 /\ m[1] = a
IsTwo(m, a, b) == Len(m) = 2 /\ m[1] = a /\ m[2] = b
IsThree(m, a, b, c) == Len(m) = 3 /\ m[1] = a /\ m[2] = b /\ m[3] = c
IsFour(m, a, b, c, d) == Len(m) = 4 /\ m[1] = a /\ m[2] = b /\ m[3] = c /\ m[4] = d
IsFive(m, a, b, c, d, e) ==
    Len(m) = 5 /\ m[1] = a /\ m[2] = b /\ m[3] = c /\ m[4] = d /\ m[5] = e

\* Sequences written out have these elements.
LEMMA Literals ==
  ASSUME NEW a, NEW b, NEW c, NEW d, NEW e
  PROVE  /\ IsOne(<<a>>, a) /\ IsTwo(<<a, b>>, a, b) /\ IsThree(<<a, b, c>>, a, b, c)
         /\ IsFour(<<a, b, c, d>>, a, b, c, d) /\ IsFive(<<a, b, c, d, e>>, a, b, c, d, e)
  BY DEF IsOne, IsTwo, IsThree, IsFour, IsFive

\* What each handler locks, in its order, but for a resend.
LEMMA LocksWritten ==
  ASSUME NEW r, r.op \in Ops, r.op # "send"
  PROVE  LET m   == Locks(r)
             row == ForUpdate("user", r.user)
             e   == ForUpdate("listed", r.email)
         IN  \/ r.op = "setup" /\ IsOne(m, Invariant)
             \/ r.op = "register" /\ policy.mode = "email_allowlist" /\ IsTwo(m, Configuration, e)
             \/ /\ r.op = "register" /\ policy.mode # "email_allowlist" /\ NumUsers > 0
                /\ IsTwo(m, Configuration, Capacity)
             \/ /\ r.op = "register" /\ policy.mode # "email_allowlist" /\ ~(NumUsers > 0)
                /\ IsOne(m, Configuration)
             \/ /\ r.op \in {"login", "logout", "create_token", "delete_token", "revoke"}
                /\ IsOne(m, Configuration)
             \/ r.op = "create" /\ (r.arg.hidden \/ r.arg.banned) /\ IsOne(m, Configuration)
             \/ r.op = "create" /\ IsTwo(m, Configuration, Capacity)
             \/ /\ r.op = "update"
                /\ IsFive(m, Configuration, Capacity, Membership, Invariant, row)
             \/ r.op = "update" /\ IsFour(m, Configuration, Capacity, Invariant, row)
             \/ /\ r.op = "update" /\ DOMAIN r.arg \cap {"kind", "hidden", "banned"} = {}
                /\ IsThree(m, Configuration, Invariant, row)
             \/ r.op = "update_self" /\ IsTwo(m, Configuration, row)
             \/ r.op = "delete" /\ IsFive(m, Configuration, Capacity, Membership, Invariant, row)
             \/ r.op = "configure" /\ IsOne(m, Exclusive("configuration"))
             \/ r.op = "confirm" /\ IsTwo(m, row, LinkRow(r.user, r.arg))
             \/ r.op = "unlist" /\ IsOne(m, e)
             \/ r.op = "list" /\ Len(m) = 0
<1> DEFINE row == ForUpdate("user", r.user)
           e   == ForUpdate("listed", r.email)
<1>1. CASE r.op = "register"
  <2>1. Locks(r) = RegisterLocks(r) BY <1>1 DEF Locks
  <2>2. <<Configuration>> \o <<e>> = <<Configuration, e>> BY ConcatLiterals
  <2>3. IsTwo(<<Configuration, e>>, Configuration, e) /\ IsOne(<<Configuration>>, Configuration)
        /\ IsTwo(<<Configuration, Capacity>>, Configuration, Capacity)
    BY Literals
  <2> QED BY <1>1, <2>1, <2>2, <2>3 DEF RegisterLocks, EmailLocks
<1>2. CASE r.op = "update"
  <2>1. Locks(r) = UpdateLocks(r) BY <1>2 DEF Locks
  <2>2. /\ IsThree(<<Configuration, Invariant, row>>, Configuration, Invariant, row)
        /\ IsFour(<<Configuration, Capacity, Invariant, row>>, Configuration, Capacity, Invariant, row)
        /\ IsFive(<<Configuration, Capacity, Membership, Invariant, row>>,
                  Configuration, Capacity, Membership, Invariant, row)
    BY Literals
  <2>3. CASE "kind" \in DOMAIN r.arg BY <1>2, <2>1, <2>2, <2>3 DEF UpdateLocks
  <2>4. CASE "kind" \notin DOMAIN r.arg /\ DOMAIN r.arg \cap {"hidden", "banned"} # {}
    BY <1>2, <2>1, <2>2, <2>4 DEF UpdateLocks
  <2>5. CASE "kind" \notin DOMAIN r.arg /\ DOMAIN r.arg \cap {"hidden", "banned"} = {}
    <3>1. DOMAIN r.arg \cap {"kind", "hidden", "banned"} = {} BY <2>5
    <3> QED BY <1>2, <2>1, <2>2, <2>5, <3>1 DEF UpdateLocks
  <2> QED BY <2>3, <2>4, <2>5
<1>3. CASE r.op = "create"
  <2>1. Locks(r) = CreateLocks(r) BY <1>3 DEF Locks
  <2>2. IsOne(<<Configuration>>, Configuration)
        /\ IsTwo(<<Configuration, Capacity>>, Configuration, Capacity)
    BY Literals
  <2> QED BY <1>3, <2>1, <2>2 DEF CreateLocks
<1>4. CASE r.op \in {"login", "logout", "create_token", "delete_token", "revoke"}
  <2>1. Locks(r) = <<Configuration>> BY <1>4 DEF Locks, SessionLocks
  <2>2. IsOne(<<Configuration>>, Configuration) BY Literals
  <2> QED BY <1>4, <2>1, <2>2
<1>5. CASE r.op = "setup"
  <2>1. Locks(r) = <<Invariant>> BY <1>5 DEF Locks, SetupLocks
  <2>2. IsOne(<<Invariant>>, Invariant) BY Literals
  <2> QED BY <1>5, <2>1, <2>2
<1>6. CASE r.op = "update_self"
  <2>1. Locks(r) = <<Configuration, row>> BY <1>6 DEF Locks, SelfLocks
  <2>2. IsTwo(<<Configuration, row>>, Configuration, row) BY Literals
  <2> QED BY <1>6, <2>1, <2>2
<1>7. CASE r.op = "delete"
  <2>1. Locks(r) = <<Configuration, Capacity, Membership, Invariant, row>>
    BY <1>7 DEF Locks, DeleteLocks
  <2>2. IsFive(<<Configuration, Capacity, Membership, Invariant, row>>,
               Configuration, Capacity, Membership, Invariant, row)
    BY Literals
  <2> QED BY <1>7, <2>1, <2>2
<1>8. CASE r.op = "configure"
  <2>1. Locks(r) = <<Exclusive("configuration")>> BY <1>8 DEF Locks, ConfigureLocks
  <2>2. IsOne(<<Exclusive("configuration")>>, Exclusive("configuration")) BY Literals
  <2> QED BY <1>8, <2>1, <2>2
<1>9. CASE r.op = "confirm"
  <2>1. Locks(r) = <<row, LinkRow(r.user, r.arg)>> BY <1>9 DEF Locks, ConfirmLocks
  <2>2. IsTwo(<<row, LinkRow(r.user, r.arg)>>, row, LinkRow(r.user, r.arg)) BY Literals
  <2> QED BY <1>9, <2>1, <2>2
<1>10. CASE r.op = "unlist"
  <2>1. Locks(r) = <<e>> BY <1>10 DEF Locks, EmailLocks
  <2>2. IsOne(<<e>>, e) BY Literals
  <2> QED BY <1>10, <2>1, <2>2
<1>11. CASE r.op = "list"
  <2>1. Locks(r) = <<>> BY <1>11 DEF Locks
  <2>2. Len(<<>>) = 0 OBVIOUS
  <2> QED BY <1>11, <2>1, <2>2
<1> QED BY <1>1, <1>2, <1>3, <1>4, <1>5, <1>6, <1>7, <1>8, <1>9, <1>10, <1>11 DEF Ops

\* Every handler takes the locks it needs, and the configuration lock first.
LEMMA LocksShape ==
  ASSUME NEW r, r.op \in Ops, r.op = "send" => r.arg \in Seq(LinkLock)
  PROVE  LET m == Locks(r) IN
         /\ Len(m) \in Nat
         /\ Needed(r) \subseteq Taken(m, Len(m))
         /\ r.op \in ConfigOps => Len(m) >= 1 /\ m[1] = Configuration
         /\ r.op = "configure" => Len(m) = 1 /\ m[1] = Exclusive("configuration")
         /\ r.op = "setup" => Len(m) = 1 /\ m[1] = Invariant
<1> DEFINE m == Locks(r)
           row == ForUpdate("user", r.user)
           e == ForUpdate("listed", r.email)
           x == Exclusive("configuration")
           l == LinkRow(r.user, r.arg)
<1>1. CASE r.op = "send"
  <2>1. r.arg \in Seq(LinkLock \cup {row}) /\ <<row>> \in Seq(LinkLock \cup {row}) /\ Len(<<row>>) = 1
        /\ <<row>>[1] = row
    BY <1>1
  <2> HIDE DEF row
  <2>2. m = r.arg \o <<row>> BY <1>1 DEF Locks, SendLocks, row
  <2>3. Len(m) \in Nat /\ Len(m) >= 1 /\ m[Len(m)] = row BY <2>1, <2>2
  <2>4. row \in Taken(m, Len(m)) BY <2>3 DEF Taken
  <2>5. Needed(r) \subseteq {row}
    BY <1>1 DEF Needed, NeedsCapacity, NeedsEmail, ConfigOps, InvariantOps, UserRowOps, row
  <2> QED BY <1>1, <2>3, <2>4, <2>5 DEF ConfigOps
<1>2. CASE r.op # "send"
  <2> USE DEF IsOne, IsTwo, IsThree, IsFour, IsFive
  <2>1. \/ r.op = "setup" /\ IsOne(m, Invariant)
        \/ r.op = "register" /\ policy.mode = "email_allowlist" /\ IsTwo(m, Configuration, e)
        \/ /\ r.op = "register" /\ policy.mode # "email_allowlist" /\ NumUsers > 0
           /\ IsTwo(m, Configuration, Capacity)
        \/ /\ r.op = "register" /\ policy.mode # "email_allowlist" /\ ~(NumUsers > 0)
           /\ IsOne(m, Configuration)
        \/ /\ r.op \in {"login", "logout", "create_token", "delete_token", "revoke"}
           /\ IsOne(m, Configuration)
        \/ r.op = "create" /\ (r.arg.hidden \/ r.arg.banned) /\ IsOne(m, Configuration)
        \/ r.op = "create" /\ IsTwo(m, Configuration, Capacity)
        \/ /\ r.op = "update"
           /\ IsFive(m, Configuration, Capacity, Membership, Invariant, row)
        \/ r.op = "update" /\ IsFour(m, Configuration, Capacity, Invariant, row)
        \/ /\ r.op = "update" /\ DOMAIN r.arg \cap {"kind", "hidden", "banned"} = {}
           /\ IsThree(m, Configuration, Invariant, row)
        \/ r.op = "update_self" /\ IsTwo(m, Configuration, row)
        \/ r.op = "delete" /\ IsFive(m, Configuration, Capacity, Membership, Invariant, row)
        \/ r.op = "configure" /\ IsOne(m, x)
        \/ r.op = "confirm" /\ IsTwo(m, row, l)
        \/ r.op = "unlist" /\ IsOne(m, e)
        \/ r.op = "list" /\ Len(m) = 0
    BY <1>2, LocksWritten
  <2> HIDE DEF m, row, e, x, l
  <2>2. Len(m) \in Nat /\ \A n \in 1..Len(m) : m[n] \in Taken(m, Len(m))
    <3>1. Len(m) \in Nat BY <2>1
    <3> QED BY <3>1 DEF Taken
  <2>3. /\ r.op \in ConfigOps => Len(m) >= 1 /\ m[1] = Configuration
        /\ r.op = "configure" => Len(m) = 1 /\ m[1] = x
        /\ r.op = "setup" => Len(m) = 1 /\ m[1] = Invariant
    BY <2>1 DEF ConfigOps
  <2>4. NeedsCapacity(r) => \E n \in 1..Len(m) : m[n] = Capacity
    BY <2>1 DEF NeedsCapacity
  <2>5. r.op \in InvariantOps => \E n \in 1..Len(m) : m[n] = Invariant
    BY <2>1 DEF InvariantOps
  <2>6. r.op \in UserRowOps => \E n \in 1..Len(m) : m[n] = row
    BY <1>2, <2>1 DEF UserRowOps
  <2>7. NeedsEmail(r) => \E n \in 1..Len(m) : m[n] = e
    BY <2>1 DEF NeedsEmail
  <2>8. r.op \in ConfigOps => Configuration \in Taken(m, Len(m))
    <3>1. r.op \in ConfigOps => 1 \in 1..Len(m) BY <2>2, <2>3
    <3> QED BY <2>2, <2>3, <3>1
  <2>9. r.op = "configure" => x \in Taken(m, Len(m))
    <3>1. r.op = "configure" => 1 \in 1..Len(m) BY <2>3
    <3> QED BY <2>2, <2>3, <3>1
  <2> QED BY <2>2, <2>3, <2>4, <2>5, <2>6, <2>7, <2>8, <2>9 DEF Needed, m, row, e, x
<1> QED BY <1>1, <1>2

----------------------------------------------------------------------------
(* Who holds what *)

\* The fields of a request, and the locks it holds.
LEMMA RequestFields ==
  ASSUME RequestsTyped, NEW p \in Requests
  PROVE  /\ IsRequest(req[p]) /\ req[p].taken \in Nat
         /\ req[p].pc \in {"idle", "locking", "writing", "delivering"}
         /\ req[p].pc = "idle" => req[p].taken = 0
         /\ req[p].pc # "idle" => WellFormed(req[p]) /\ req[p].op \in Ops
         /\ Held[p] = IF req[p].pc = "delivering" THEN {} ELSE Taken(Locks(req[p]), req[p].taken)
  BY DEF RequestsTyped, IsRequest, WellFormed, Held

\* Only a transaction between its first lock and its end holds any.
LEMMA Holder ==
  ASSUME RequestsTyped, NEW p \in Requests, Held[p] # {}
  PROVE  /\ req[p].pc \in {"locking", "writing"} /\ req[p].taken # 0 /\ req[p].op \in Ops
         /\ Held[p] = Taken(Locks(req[p]), req[p].taken)
<1>1. req[p].pc # "delivering" BY RequestFields
<1>2. Held[p] = Taken(Locks(req[p]), req[p].taken) BY <1>1, RequestFields
<1>3. req[p].taken # 0 BY <1>2, TakenNone
<1> QED BY <1>1, <1>2, <1>3, RequestFields

\* A transaction that writes has the locks its handler needs.
LEMMA WriterHolds ==
  ASSUME RequestsTyped, WritersHoldAll, NEW p \in Requests, req[p].pc = "writing"
  PROVE  Needed(req[p]) \subseteq Held[p]
<1>1. WellFormed(req[p]) /\ Held[p] = Taken(Locks(req[p]), Len(Locks(req[p])))
  BY RequestFields DEF WritersHoldAll
<1> QED BY <1>1, LocksShape DEF WellFormed

\* A transaction with any lock of its handler has the configuration lock, if its
\* handler takes that.
LEMMA FirstIsConfiguration ==
  ASSUME RequestsTyped, NEW q \in Requests, Held[q] # {}
  PROVE  /\ req[q].op \in ConfigOps => Configuration \in Held[q]
         /\ req[q].op = "configure" => Exclusive("configuration") \in Held[q]
         /\ req[q].op = "setup" => Invariant \in Held[q]
<1>1. PICK r : r = req[q] OBVIOUS
<1>2. /\ r.pc \in {"locking", "writing"} /\ r.taken # 0 /\ r.op \in Ops /\ r.taken \in Nat
      /\ Held[q] = Taken(Locks(r), r.taken) /\ WellFormed(r)
  BY <1>1, Holder, RequestFields
<1>3. Locks(r)[1] \in Held[q]
  <2>1. 1 \in 1..r.taken BY <1>2
  <2> QED BY <1>2, <2>1 DEF Taken
<1> QED BY <1>1, <1>2, <1>3, LocksShape DEF WellFormed

\* Whoever holds an exclusive lock keeps all others away.
LEMMA HeldAlone ==
  ASSUME ExclusiveLocks, NEW p \in Requests, NEW q \in Requests, p # q,
         NEW l \in Held[p], NEW h \in Held[q], l.lock = h.lock
  PROVE  l.mode # "exclusive"
<1>1. p \in DOMAIN Held /\ q \in DOMAIN Held BY DEF Held
<1> HIDE DEF Held
<1> QED BY <1>1, ExclusiveHolder DEF ExclusiveLocks

\* The locks q does not have while p writes.
ShutOut(p, q) ==
    /\ req[p].op \in ConfigOps => Exclusive("configuration") \notin Held[q]
    /\ req[p].op = "configure" =>
         Configuration \notin Held[q] /\ Exclusive("configuration") \notin Held[q]
    /\ NeedsCapacity(req[p]) => Capacity \notin Held[q]
    /\ req[p].op \in InvariantOps => Invariant \notin Held[q]
    /\ req[p].op \in UserRowOps => ForUpdate("user", req[p].user) \notin Held[q]
    /\ NeedsEmail(req[p]) => ForUpdate("listed", req[p].email) \notin Held[q]

\* A transaction that writes shuts the others out.
LEMMA WriterShutsOut ==
  ASSUME RequestsTyped, WritersHoldAll, ExclusiveLocks,
         NEW p \in Requests, NEW q \in Requests, p # q, req[p].pc = "writing"
  PROVE  ShutOut(p, q)
<1>1. Needed(req[p]) \subseteq Held[p] BY WriterHolds
<1>2. ASSUME NEW l \in Held[p], l.mode = "exclusive" PROVE l \notin Held[q]
  BY <1>2, HeldAlone
<1>3. /\ Capacity.mode = "exclusive" /\ Invariant.mode = "exclusive"
      /\ \A k, id : ForUpdate(k, id).mode = "exclusive"
  BY DEF Capacity, Invariant, Exclusive, ForUpdate
<1>4. req[p].op \in ConfigOps => Exclusive("configuration") \notin Held[q]
  <2> SUFFICES ASSUME Configuration \in Held[p], Exclusive("configuration") \in Held[q]
               PROVE  FALSE
    BY <1>1 DEF Needed
  <2> QED BY HeldAlone DEF Configuration, Shared, Exclusive
<1>5. req[p].op = "configure" =>
        Configuration \notin Held[q] /\ Exclusive("configuration") \notin Held[q]
  <2> SUFFICES ASSUME Exclusive("configuration") \in Held[p],
                      Configuration \in Held[q] \/ Exclusive("configuration") \in Held[q]
               PROVE  FALSE
    BY <1>1 DEF Needed
  <2> QED BY HeldAlone DEF Configuration, Shared, Exclusive
<1> QED BY <1>1, <1>2, <1>3, <1>4, <1>5 DEF ShutOut, Needed

----------------------------------------------------------------------------
(* What a step leaves a transaction that does not take part in it *)

Undisturbed(q) ==
    /\ req'[q] = req[q]
    /\ Configuration \in Held[q] \/ Exclusive("configuration") \in Held[q] => policy' = policy
    /\ Capacity \in Held[q] /\ policy.mode # "email_allowlist" /\ NumUsers > 0
         => \A u \in Users : u \in Counted' => u \in Counted
    /\ Invariant \in Held[q] =>
         (\A u \in ActiveAdmins : u \in ActiveAdmins') /\ (~Complete => ~Complete')
    /\ \A u \in Users : ForUpdate("user", u) \in Held[q] /\ acct[u].kind # "none"
         => acct'[u] = acct[u]
    /\ \A e \in listed : ForUpdate("listed", e) \in Held[q] => e \in listed'
    /\ \A u \in Users : acct[u].kind # "none" => acct'[u].kind # "none"

\* A step that leaves these tables alone disturbs nobody.
LEMMA QuietStep ==
  ASSUME UNCHANGED <<acct, installs, policy, listed>>, NEW q \in Requests, req'[q] = req[q]
  PROVE  Undisturbed(q)
  BY DEF Undisturbed, Counted, ActiveAdmins, Administrators, Complete, Exists

\* Replacing the request of p leaves those of the others.
LEMMA OthersKept ==
  ASSUME RequestsTyped, NEW p \in Requests, NEW q \in Requests, p # q, NEW r,
         req' = [req EXCEPT ![p] = r]
  PROVE  req'[q] = req[q]
  BY DEF RequestsTyped

\* The steps that leave accounts, settings and allowlist alone, and all steps of a
\* transaction.
Starts(p) == StartPublic(p) \/ StartOwn(p) \/ StartAdmin(p)
Calm(p) ==
    \/ Starts(p) \/ TakeLock(p) \/ Check(p) \/ LockSession(p) \/ Fail(p)
    \/ Delivered(p) \/ DeliveryFailed(p) \/ Send(p)
    \/ Login(p) \/ Logout(p) \/ Revoke(p) \/ CreateToken(p) \/ DeleteToken(p)
Steps(p) ==
    \/ Calm(p) \/ SetUp(p) \/ Register(p) \/ Create(p)
    \/ Edit(p, "update") \/ Edit(p, "update_self") \/ Delete(p)
    \/ Configure(p) \/ List(p) \/ Unlist(p) \/ Confirm(p)

\* Requests that start, take a lock, check, fail or have a mail delivered, the
\* handlers that only write credentials, and the ones that only write links.
LEMMA QuietSteps ==
  ASSUME IInv, NEW p \in Requests, NEW q \in Requests, p # q,
         Calm(p)
  PROVE  Undisturbed(q)
<1> USE DEF Calm
<1>1. UNCHANGED <<acct, installs, policy, listed>> /\ \E r : req' = [req EXCEPT ![p] = r]
  <2>1. CASE Starts(p)
    <3>1. \E op, c, user, email, arg : Start(p, op, c, user, email, arg)
      <4>1. CASE StartPublic(p) BY <4>1 DEF StartPublic
      <4>2. CASE StartOwn(p) BY <4>2 DEF StartOwn
      <4>3. CASE StartAdmin(p) BY <4>3 DEF StartAdmin
      <4> QED BY <2>1, <4>1, <4>2, <4>3 DEF Starts
    <3> QED BY <3>1 DEF Start, data
  <2>2. CASE TakeLock(p) BY <2>2 DEF TakeLock, data
  <2>3. CASE Check(p) \/ Fail(p) BY <2>3 DEF Check, Fail, Done, data
  <2>8. CASE LockSession(p)
    <3>1. req' = req /\ UNCHANGED data BY <2>8 DEF LockSession
    <3>2. req' = [req EXCEPT ![p] = req[p]] BY <3>1 DEF IInv, RequestsTyped
    <3> QED BY <3>1, <3>2 DEF data
  <2>4. CASE Delivered(p) \/ DeliveryFailed(p)
    BY <2>4 DEF Delivered, DeliveryFailed, Done, data
  <2>5. CASE Send(p) BY <2>5 DEF Send
  <2>6. CASE Login(p) \/ Logout(p) \/ Revoke(p) BY <2>6 DEF Login, Logout, Revoke, Done
  <2>7. CASE CreateToken(p) \/ DeleteToken(p) BY <2>7 DEF CreateToken, DeleteToken, Done
  <2> QED BY <2>1, <2>2, <2>3, <2>4, <2>5, <2>6, <2>7, <2>8
<1>2. req'[q] = req[q] BY <1>1, OthersKept DEF IInv
<1> QED BY <1>1, <1>2, QuietStep

\* The types a writing transaction relies on.
LEMMA Writer ==
  ASSUME IInv, NEW p \in Requests, req[p].pc = "writing"
  PROVE  /\ WellFormed(req[p]) /\ IsRequest(req[p]) /\ Decided(req[p])
         /\ acct \in [Users -> Account] /\ listed \subseteq Emails /\ policy \in Policy
         /\ link \in [Users -> Link \cup {None}]
  BY RequestFields DEF IInv, DataTyped, TypeOK, DecisionsHold

\* The insert of a new account.
LEMMA InsertOne ==
  ASSUME acct \in [Users -> Account], NEW r, r.user \in Users, r.email \in Emails,
         NEW kind \in {"user", "admin"}, NEW hidden \in BOOLEAN, NEW banned \in BOOLEAN,
         Insert(r, kind, hidden, banned)
  PROVE  /\ acct' \in [Users -> Account] /\ acct[r.user].kind = "none" /\ ~Registered(r.email)
         /\ acct'[r.user] = NewAccount(kind, r.email, hidden, banned)
         /\ acct'[r.user] =
              [kind |-> kind, email |-> r.email, hidden |-> hidden, banned |-> banned,
               must |-> FALSE, verified |-> FALSE]
         /\ \A u \in Users : u # r.user => acct'[u] = acct[u]
<1>1. NewAccount(kind, r.email, hidden, banned) \in Account BY DEF NewAccount, Account
<1>2. /\ acct[r.user].kind = "none" /\ ~Registered(r.email)
      /\ acct' = [acct EXCEPT ![r.user] = NewAccount(kind, r.email, hidden, banned)]
  BY DEF Insert
<1>3. acct'[r.user] = NewAccount(kind, r.email, hidden, banned) BY <1>2
<1>4. acct' \in [Users -> Account] /\ \A u \in Users : u # r.user => acct'[u] = acct[u]
  <2> HIDE DEF Account
  <2> QED BY <1>1, <1>2
<1> QED BY <1>2, <1>3, <1>4 DEF NewAccount

\* The first installation finds nobody else with a lock.
LEMMA SetUpUndisturbs ==
  ASSUME IInv, NEW p \in Requests, NEW q \in Requests, p # q, SetUp(p)
  PROVE  Undisturbed(q)
<1>1. req[p].pc = "writing" /\ req[p].op = "setup" BY DEF SetUp, Writes
<1>2. WellFormed(req[p]) /\ Decided(req[p]) /\ acct \in [Users -> Account] BY <1>1, Writer
<1>3. installs = 0
  <2>1. ~Complete /\ installs \in Nat BY <1>1, <1>2 DEF Decided, IInv, DataTyped
  <2> QED BY <2>1 DEF Complete
<1>4. Held[q] = {}
  <2> SUFFICES ASSUME Held[q] # {} PROVE FALSE OBVIOUS
  <2>1. req[q].pc # "idle" BY Holder DEF IInv
  <2>2. req[q].op = "setup" BY <1>3, <2>1 DEF IInv, BeforeSetup
  <2>3. Invariant \in Held[q] BY <2>2, FirstIsConfiguration DEF IInv
  <2>4. ShutOut(p, q) BY <1>1, WriterShutsOut DEF IInv
  <2> QED BY <1>1, <2>3, <2>4 DEF ShutOut, InvariantOps
<1>5. req'[q] = req[q]
  <2>1. req' = [req EXCEPT ![p] = Idle] BY DEF SetUp, Done
  <2> QED BY <2>1, OthersKept DEF IInv
<1>6. \A u \in Users : acct[u].kind = "none" BY <1>3 DEF IInv, BeforeSetup
<1> QED BY <1>4, <1>5, <1>6 DEF Undisturbed

\* New accounts do not count unless the capacity lock is held.
LEMMA InsertUndisturbs ==
  ASSUME IInv, NEW p \in Requests, NEW q \in Requests, p # q, Register(p) \/ Create(p)
  PROVE  Undisturbed(q)
<1> DEFINE r == req[p]
<1>1. r.pc = "writing" /\ r.op \in {"register", "create"} BY DEF Register, Create, Writes
<1>2. WellFormed(r) /\ Decided(r) /\ acct \in [Users -> Account] BY <1>1, Writer
<1>3. ShutOut(p, q) BY <1>1, WriterShutsOut DEF IInv
<1>4. r.user \in Users /\ r.email \in Emails BY <1>1, <1>2 DEF WellFormed, UserOps, Ops
<1>5. PICK kind \in {"user", "admin"}, hidden \in BOOLEAN, banned \in BOOLEAN :
        /\ Insert(r, kind, hidden, banned)
        /\ ~hidden /\ ~banned /\ policy.mode # "email_allowlist" /\ NumUsers > 0 => NeedsCapacity(r)
  <2>1. CASE Register(p)
    <3>1. r.op = "register" BY <2>1 DEF Register, Writes
    <3> QED BY <2>1, <3>1 DEF Register, NeedsCapacity
  <2>2. CASE Create(p)
    <3>1. r.op = "create" BY <2>2 DEF Create, Writes
    <3>2. r.arg.kind \in {"user", "admin"} /\ r.arg.hidden \in BOOLEAN /\ r.arg.banned \in BOOLEAN
      BY <1>2, <3>1 DEF WellFormed
    <3> QED BY <2>2, <3>1, <3>2 DEF Create, NeedsCapacity
  <2> QED BY <2>1, <2>2
<1>6. /\ acct' \in [Users -> Account] /\ acct[r.user].kind = "none"
      /\ acct'[r.user] = [kind |-> kind, email |-> r.email, hidden |-> hidden, banned |-> banned,
                          must |-> FALSE, verified |-> FALSE]
      /\ \A u \in Users : u # r.user => acct'[u] = acct[u]
  BY <1>2, <1>4, <1>5, InsertOne
<1>7. req'[q] = req[q] /\ policy' = policy /\ installs' = installs
      /\ \A e \in listed : e \in listed'
  <2>1. req' = [req EXCEPT ![p] = Idle] BY DEF Register, Create, Done
  <2>2. req'[q] = req[q] BY <2>1, OthersKept DEF IInv
  <2> QED BY <2>2 DEF Register, Create
<1>8. Capacity \in Held[q] /\ policy.mode # "email_allowlist" /\ NumUsers > 0
        => \A u \in Users : u \in Counted' => u \in Counted
  <2> SUFFICES ASSUME Capacity \in Held[q], policy.mode # "email_allowlist", NumUsers > 0,
                      NEW u \in Users, u \in Counted'
               PROVE  u \in Counted
    OBVIOUS
  <2>1. hidden \/ banned BY <1>3, <1>5 DEF ShutOut
  <2>2. u # r.user BY <1>4, <1>6, <2>1 DEF Counted
  <2> QED BY <1>6, <2>2 DEF Counted, Exists
<1>9. \A u \in ActiveAdmins : u \in ActiveAdmins'
  BY <1>6 DEF ActiveAdmins, Administrators
<1>10. Complete
  <2>1. installs # 0 BY <1>1 DEF IInv, BeforeSetup
  <2>2. installs \in Nat BY DEF IInv, DataTyped
  <2> QED BY <2>1, <2>2 DEF Complete
<1>11. \A u \in Users : acct[u].kind # "none" => acct'[u] = acct[u] BY <1>6
<1> QED BY <1>7, <1>8, <1>9, <1>10, <1>11 DEF Undisturbed

\* An edit sets columns to values of their types, and a new address is not verified.
LEMMA PatchedRow ==
  ASSUME NEW old \in Account, NEW a, IsPatch(a, Fields)
  PROVE  LET new == Patched(old, a) IN
         /\ new \in Account
         /\ new.kind = (IF "kind" \in DOMAIN a THEN a.kind ELSE old.kind)
         /\ new.email = (IF "email" \in DOMAIN a THEN a.email ELSE old.email)
         /\ new.hidden = (IF "hidden" \in DOMAIN a THEN a.hidden ELSE old.hidden)
         /\ new.banned = (IF "banned" \in DOMAIN a THEN a.banned ELSE old.banned)
         /\ new.verified => old.verified /\ new.email = old.email
         /\ "kind" \in DOMAIN a => a.kind \in {"user", "admin"}
         /\ "email" \in DOMAIN a => a.email \in Emails
<1>1. PICK f \in Fields : a \in [{f} -> Values(f)] BY DEF IsPatch
<1>2. DOMAIN a = {f} /\ a[f] \in Values(f) BY <1>1
<1>3. /\ "kind" \in DOMAIN a => a["kind"] \in {"user", "admin"}
      /\ "email" \in DOMAIN a => a["email"] \in Emails
      /\ "hidden" \in DOMAIN a => a["hidden"] \in BOOLEAN
      /\ "banned" \in DOMAIN a => a["banned"] \in BOOLEAN
      /\ "must" \in DOMAIN a => a["must"] \in BOOLEAN
  BY <1>2 DEF Values
<1> DEFINE new == Patched(old, a)
           New(x) == IF x \in DOMAIN a THEN a[x] ELSE old[x]
<1>4. new = [kind |-> New("kind"), email |-> New("email"), hidden |-> New("hidden"),
             banned |-> New("banned"), must |-> New("must"),
             verified |-> old.verified /\ New("email") = old.email]
  BY DEF Patched
<1>5. /\ new.kind = New("kind") /\ new.email = New("email") /\ new.hidden = New("hidden")
      /\ new.banned = New("banned") /\ new.verified = (old.verified /\ New("email") = old.email)
  BY <1>4
<1>6. new \in Account
  <2>1. /\ New("kind") \in {"none", "user", "admin", "gone"}
        /\ New("email") \in Emails \cup {None}
        /\ New("hidden") \in BOOLEAN /\ New("banned") \in BOOLEAN /\ New("must") \in BOOLEAN
    BY <1>3 DEF Account
  <2> HIDE DEF New, new
  <2> QED BY <2>1, <1>4 DEF Account
<1> QED BY <1>3, <1>5, <1>6

\* What an edit needs, and which row it writes.
LEMMA Edits ==
  ASSUME IInv, NEW p \in Requests, NEW op \in {"update", "update_self"}, Edit(p, op)
  PROVE  LET r == req[p]
             new == Patched(acct[r.user], r.arg)
         IN  /\ r.pc = "writing" /\ r.op = op /\ r.user \in Users /\ Decided(r) /\ WellFormed(r)
             /\ acct \in [Users -> Account] /\ acct[r.user] \in Account
             /\ IsPatch(r.arg, Fields) /\ Exists(r.user)
             /\ acct' = [acct EXCEPT ![r.user] = new] /\ acct'[r.user] = new /\ new \in Account
             /\ \A u \in Users : u # r.user => acct'[u] = acct[u]
             /\ req' = [req EXCEPT ![p] = Idle]
             /\ listed' = Synced(acct[r.user], new)
             /\ UNCHANGED <<installs, policy, proved, serial, started>>
<1> DEFINE r == req[p]
           new == Patched(acct[r.user], r.arg)
<1>1. r.pc = "writing" /\ r.op = op BY DEF Edit, Writes
<1>2. WellFormed(r) /\ Decided(r) /\ acct \in [Users -> Account] BY <1>1, Writer
<1>3. r.user \in Users /\ acct[r.user] \in Account BY <1>1, <1>2 DEF WellFormed, UserOps, Ops
<1>4. IsPatch(r.arg, Fields) BY <1>1, <1>2 DEF WellFormed, IsPatch, Fields
<1>5. new \in Account BY <1>3, <1>4, PatchedRow
<1>6. /\ acct' = [acct EXCEPT ![r.user] = new] /\ listed' = Synced(acct[r.user], new)
      /\ req' = [req EXCEPT ![p] = Idle] /\ UNCHANGED <<installs, policy, proved, serial, started>>
  BY DEF Edit, Done
<1>7. acct'[r.user] = new /\ \A u \in Users : u # r.user => acct'[u] = acct[u]
  BY <1>2, <1>3, <1>6
<1>8. Exists(r.user) BY <1>1, <1>2 DEF Decided
<1> QED BY <1>1, <1>2, <1>3, <1>4, <1>5, <1>6, <1>7, <1>8

\* The entries an edit or a deletion removes from the allowlist are locked.
LEMMA ListedRowWanted ==
  ASSUME IInv, NEW p \in Requests, NEW q \in Requests, p # q, NEW op \in {"update", "update_self", "delete"},
         Writes(p, op)
  PROVE  ForUpdate("listed", acct[req[p].user].email) \notin Held[q]
<1>1. ForUpdate("listed", acct[req[p].user].email) \in Wanted(p) BY DEF Wanted, Writes
<1>2. MayTake(Held, p, ForUpdate("listed", acct[req[p].user].email)) BY <1>1 DEF Writes
<1>3. q \in DOMAIN Held /\ ForUpdate("listed", acct[req[p].user].email).mode = "exclusive"
  BY DEF Held, ForUpdate
<1> HIDE DEF Held
<1> QED BY <1>2, <1>3, GrantedIsFree

\* An edit changes one account whose row it holds, the number of accounts and the
\* administrators only under their locks.
LEMMA EditUndisturbs ==
  ASSUME IInv, NEW p \in Requests, NEW q \in Requests, p # q,
         NEW op \in {"update", "update_self"}, Edit(p, op)
  PROVE  Undisturbed(q)
<1>1. PICK r : r = req[p] OBVIOUS
<1>2. PICK old : old = acct[r.user] OBVIOUS
<1>3. PICK new : new = Patched(old, r.arg) OBVIOUS
<1>4. /\ r.pc = "writing" /\ r.op = op /\ r.user \in Users /\ WellFormed(r)
      /\ acct \in [Users -> Account] /\ old \in Account /\ IsPatch(r.arg, Fields) /\ Exists(r.user)
      /\ acct'[r.user] = new /\ new \in Account
      /\ \A u \in Users : u # r.user => acct'[u] = acct[u]
      /\ req' = [req EXCEPT ![p] = Idle] /\ listed' = Synced(old, new)
      /\ UNCHANGED <<installs, policy>>
  BY <1>1, <1>2, <1>3, Edits
<1>5. /\ new.kind = (IF "kind" \in DOMAIN r.arg THEN r.arg.kind ELSE old.kind)
      /\ new.email = (IF "email" \in DOMAIN r.arg THEN r.arg.email ELSE old.email)
      /\ new.hidden = (IF "hidden" \in DOMAIN r.arg THEN r.arg.hidden ELSE old.hidden)
      /\ new.banned = (IF "banned" \in DOMAIN r.arg THEN r.arg.banned ELSE old.banned)
      /\ "kind" \in DOMAIN r.arg => r.arg.kind \in {"user", "admin"}
  BY <1>3, <1>4, PatchedRow
<1>6. ShutOut(p, q) BY <1>1, <1>4, WriterShutsOut DEF IInv
<1>7. req'[q] = req[q] BY <1>4, OthersKept DEF IInv
<1>8. r.op = "update_self" => DOMAIN r.arg \cap {"kind", "hidden", "banned"} = {}
  BY <1>4 DEF WellFormed, IsPatch
<1>9. NeedsCapacity(r) \/ (new.kind = old.kind /\ new.hidden = old.hidden /\ new.banned = old.banned)
  <2>1. CASE r.op = "update" /\ DOMAIN r.arg \cap {"kind", "hidden", "banned"} # {}
    BY <2>1 DEF NeedsCapacity
  <2>2. CASE DOMAIN r.arg \cap {"kind", "hidden", "banned"} = {} BY <1>5, <2>2
  <2> QED BY <1>4, <1>8, <2>1, <2>2
<1>10. Capacity \in Held[q] => \A u \in Users : u \in Counted' => u \in Counted
  <2> SUFFICES ASSUME Capacity \in Held[q], NEW u \in Users, u \in Counted' PROVE u \in Counted
    OBVIOUS
  <2>1. new.kind = old.kind /\ new.hidden = old.hidden /\ new.banned = old.banned
    BY <1>1, <1>6, <1>9 DEF ShutOut
  <2> QED BY <1>2, <1>4, <2>1 DEF Counted, Exists
<1>11. Invariant \in Held[q] =>
         (\A u \in ActiveAdmins : u \in ActiveAdmins') /\ (~Complete => ~Complete')
  <2> SUFFICES ASSUME Invariant \in Held[q]
               PROVE  (\A u \in ActiveAdmins : u \in ActiveAdmins') /\ (~Complete => ~Complete')
    OBVIOUS
  <2>1. r.op = "update_self" BY <1>1, <1>4, <1>6 DEF ShutOut, InvariantOps
  <2>2. new.kind = old.kind /\ new.banned = old.banned BY <1>5, <1>8, <2>1
  <2>3. \A u \in Users : acct'[u].kind = acct[u].kind /\ acct'[u].banned = acct[u].banned
    BY <1>2, <1>4, <2>2
  <2> QED BY <1>4, <2>3 DEF ActiveAdmins, Administrators, Complete
<1>12. \A u \in Users : ForUpdate("user", u) \in Held[q] => acct'[u] = acct[u]
  BY <1>1, <1>4, <1>6 DEF ShutOut, UserRowOps
<1>13. \A e \in listed : ForUpdate("listed", e) \in Held[q] => e \in listed'
  <2>1. ForUpdate("listed", old.email) \notin Held[q]
    BY <1>1, <1>2, <1>4, ListedRowWanted DEF Edit
  <2>2. \A e \in listed : e # old.email => e \in Synced(old, new) BY DEF Synced
  <2> QED BY <1>4, <2>1, <2>2
<1>14. \A u \in Users : acct[u].kind # "none" => acct'[u].kind # "none"
  <2>1. old.kind # "none" BY <1>2, <1>4 DEF Exists
  <2>2. new.kind # "none" BY <1>5, <2>1
  <2> QED BY <1>4, <2>2
<1> QED BY <1>4, <1>7, <1>10, <1>11, <1>12, <1>13, <1>14 DEF Undisturbed

\* A deletion holds the row of the account, and everything the account counted for.
LEMMA DeleteUndisturbs ==
  ASSUME IInv, NEW p \in Requests, NEW q \in Requests, p # q, Delete(p)
  PROVE  Undisturbed(q)
<1>1. PICK r : r = req[p] OBVIOUS
<1>2. r.pc = "writing" /\ r.op = "delete" BY <1>1 DEF Delete, Writes
<1>3. WellFormed(r) /\ acct \in [Users -> Account] BY <1>1, <1>2, Writer
<1>4. r.user \in Users BY <1>2, <1>3 DEF WellFormed, UserOps, Ops
<1>5. ShutOut(p, q) BY <1>1, <1>2, WriterShutsOut DEF IInv
<1>6. /\ \A u \in Users : u # r.user => acct'[u] = acct[u]
      /\ acct'[r.user] = IF Exists(r.user) THEN [NoAccount EXCEPT !.kind = "gone"] ELSE acct[r.user]
      /\ acct[r.user].kind # "none" => acct'[r.user].kind # "none"
      /\ acct'[r.user].kind # "admin"
  <2>1. acct' = [acct EXCEPT ![r.user] =
                   IF Exists(r.user) THEN [NoAccount EXCEPT !.kind = "gone"] ELSE @]
    BY <1>1 DEF Delete
  <2>2. acct'[r.user] = IF Exists(r.user) THEN [NoAccount EXCEPT !.kind = "gone"] ELSE acct[r.user]
    BY <1>3, <1>4, <2>1
  <2>3. [NoAccount EXCEPT !.kind = "gone"].kind = "gone" BY DEF NoAccount
  <2> QED BY <1>3, <1>4, <2>1, <2>2, <2>3 DEF Exists
<1>7. /\ req' = [req EXCEPT ![p] = Idle] /\ listed' = listed \ {acct[r.user].email}
      /\ UNCHANGED <<installs, policy>>
  BY <1>1 DEF Delete, Done
<1>8. req'[q] = req[q] BY <1>7, OthersKept DEF IInv
<1>9. \A u \in Users : u \in Counted' => u \in Counted
  <2> SUFFICES ASSUME NEW u \in Users, u \in Counted' PROVE u \in Counted OBVIOUS
  <2>1. u = r.user => ~Exists(r.user)'
    <3>1. [NoAccount EXCEPT !.kind = "gone"].kind = "gone" BY DEF NoAccount
    <3> QED BY <1>6, <3>1 DEF Exists
  <2>2. u # r.user BY <2>1 DEF Counted, Exists
  <2> QED BY <1>6, <2>2 DEF Counted, Exists
<1>10. Invariant \notin Held[q] BY <1>1, <1>2, <1>5 DEF ShutOut, InvariantOps
<1>11. \A u \in Users : ForUpdate("user", u) \in Held[q] => acct'[u] = acct[u]
  BY <1>1, <1>2, <1>5, <1>6 DEF ShutOut, UserRowOps
<1>12. \A e \in listed : ForUpdate("listed", e) \in Held[q] => e \in listed'
  <2>1. ForUpdate("listed", acct[r.user].email) \notin Held[q]
    BY <1>1, ListedRowWanted DEF Delete
  <2> QED BY <1>7, <2>1
<1>13. \A u \in Users : acct[u].kind # "none" => acct'[u].kind # "none" BY <1>4, <1>6
<1> QED BY <1>7, <1>8, <1>9, <1>10, <1>11, <1>12, <1>13 DEF Undisturbed

\* The settings and the allowlist change under their locks.
LEMMA PolicyUndisturbs ==
  ASSUME IInv, NEW p \in Requests, NEW q \in Requests, p # q, Configure(p) \/ List(p) \/ Unlist(p)
  PROVE  Undisturbed(q)
<1>1. req'[q] = req[q]
  <2>1. req' = [req EXCEPT ![p] = Idle] BY DEF Configure, List, Unlist, Done
  <2> QED BY <2>1, OthersKept DEF IInv
<1>2. UNCHANGED <<acct, installs>> BY DEF Configure, List, Unlist
<1>3. ShutOut(p, q)
  <2>1. req[p].pc = "writing" BY DEF Configure, List, Unlist, Writes
  <2> QED BY <2>1, WriterShutsOut DEF IInv
<1>4. Configuration \in Held[q] \/ Exclusive("configuration") \in Held[q] => policy' = policy
  <2>1. CASE Configure(p)
    <3>1. req[p].op = "configure" BY <2>1 DEF Configure, Writes
    <3> QED BY <1>3, <3>1 DEF ShutOut
  <2>2. CASE List(p) \/ Unlist(p) BY <2>2 DEF List, Unlist
  <2> QED BY <2>1, <2>2
<1>5. \A e \in listed : ForUpdate("listed", e) \in Held[q] => e \in listed'
  <2>1. CASE Unlist(p)
    <3>1. req[p].op = "unlist" /\ listed' = listed \ {req[p].email} BY <2>1 DEF Unlist, Writes
    <3>2. ForUpdate("listed", req[p].email) \notin Held[q] BY <1>3, <3>1 DEF ShutOut, NeedsEmail
    <3> QED BY <3>1, <3>2
  <2>2. CASE Configure(p) \/ List(p) BY <2>2 DEF Configure, List
  <2> QED BY <2>1, <2>2
<1> QED BY <1>1, <1>2, <1>4, <1>5 DEF Undisturbed, Counted, ActiveAdmins, Administrators, Complete, Exists

\* A verification changes nothing that other handlers look at.
LEMMA ConfirmUndisturbs ==
  ASSUME IInv, NEW p \in Requests, NEW q \in Requests, p # q, Confirm(p)
  PROVE  Undisturbed(q)
<1>1. PICK r : r = req[p] OBVIOUS
<1>2. r.pc = "writing" /\ r.op = "confirm" BY <1>1 DEF Confirm, Writes
<1>3. WellFormed(r) /\ acct \in [Users -> Account] BY <1>1, <1>2, Writer
<1>4. r.user \in Users BY <1>2, <1>3 DEF WellFormed, UserOps, Ops
<1>5. ShutOut(p, q) BY <1>1, <1>2, WriterShutsOut DEF IInv
<1>6. /\ acct' = [acct EXCEPT ![r.user].verified = TRUE] /\ req' = [req EXCEPT ![p] = Idle]
      /\ UNCHANGED <<installs, policy, listed>>
  BY <1>1 DEF Confirm, Done
<1>7. /\ \A u \in Users : u # r.user => acct'[u] = acct[u]
      /\ \A u \in Users : /\ acct'[u].kind = acct[u].kind /\ acct'[u].banned = acct[u].banned
                          /\ acct'[u].hidden = acct[u].hidden
  BY <1>3, <1>4, <1>6 DEF Account
<1>8. req'[q] = req[q] BY <1>6, OthersKept DEF IInv
<1>9. \A u \in Users : ForUpdate("user", u) \in Held[q] => acct'[u] = acct[u]
  BY <1>1, <1>2, <1>5, <1>7 DEF ShutOut, UserRowOps
<1>10. \A u \in Users : u \in Counted' => u \in Counted BY <1>7 DEF Counted, Exists
<1>11. (\A u \in ActiveAdmins : u \in ActiveAdmins') /\ (~Complete => ~Complete')
  BY <1>6, <1>7 DEF ActiveAdmins, Administrators, Complete
<1> QED BY <1>6, <1>7, <1>8, <1>9, <1>10, <1>11 DEF Undisturbed

\* Every step leaves alone what the locks of the other transactions protect.
LEMMA StepUndisturbs ==
  ASSUME IInv, NEW p \in Requests, NEW q \in Requests, p # q, Steps(p)
  PROVE  Undisturbed(q)
<1>1. CASE Calm(p) BY <1>1, QuietSteps DEF Calm
<1>2. CASE SetUp(p) BY <1>2, SetUpUndisturbs
<1>3. CASE Register(p) \/ Create(p) BY <1>3, InsertUndisturbs
<1>4. CASE Edit(p, "update") \/ Edit(p, "update_self") BY <1>4, EditUndisturbs
<1>5. CASE Delete(p) BY <1>5, DeleteUndisturbs
<1>6. CASE Configure(p) \/ List(p) \/ Unlist(p) BY <1>6, PolicyUndisturbs
<1>7. CASE Confirm(p) BY <1>7, ConfirmUndisturbs
<1> QED BY <1>1, <1>2, <1>3, <1>4, <1>5, <1>6, <1>7 DEF Steps

----------------------------------------------------------------------------
(* A transaction that does not take part in a step *)

\* It keeps its request, its locks, and the locks it still has to take.
LEMMA BystanderLocks ==
  ASSUME IInv, NEW p \in Requests, NEW q \in Requests, p # q, Steps(p)
  PROVE  /\ req'[q] = req[q] /\ Held'[q] = Held[q]
         /\ req[q].taken # 0 /\ req[q].pc # "delivering" => Locks(req[q])' = Locks(req[q])
<1>1. PICK r : r = req[q] OBVIOUS
<1>2. Undisturbed(q) BY StepUndisturbs
<1>3. req'[q] = r BY <1>1, <1>2 DEF Undisturbed
<1>4. /\ r.taken \in Nat /\ r.pc \in {"idle", "locking", "writing", "delivering"}
      /\ Held[q] = IF r.pc = "delivering" THEN {} ELSE Taken(Locks(r), r.taken)
      /\ r.pc = "idle" => r.taken = 0
  BY <1>1, RequestFields DEF IInv
<1>5. Held'[q] = IF r.pc = "delivering" THEN {} ELSE Taken(Locks(r)', r.taken)
  BY <1>3 DEF Held
<1>6. CASE r.pc = "delivering" \/ r.taken = 0
  <2>1. Held[q] = {} /\ Held'[q] = {} BY <1>4, <1>5, <1>6, TakenNone
  <2> QED BY <1>1, <1>3, <1>6, <2>1
<1>7. CASE r.pc # "delivering" /\ r.taken # 0
  <2>1. Held[q] # {}
    <3>1. 1 \in 1..r.taken BY <1>4, <1>7
    <3> QED BY <1>4, <1>7, <3>1 DEF Taken
  <2>2. r.op = "register" => Configuration \in Held[q]
    BY <1>1, <2>1, FirstIsConfiguration DEF IInv, ConfigOps
  <2>3. r.op # "register" \/ policy' = policy BY <1>2, <2>2 DEF Undisturbed
  <2>4. Locks(r)' = Locks(r)
    <3>1. CASE r.op = "register" BY <2>3, <3>1 DEF Locks, RegisterLocks
    <3>2. CASE r.op # "register" BY <3>2 DEF Locks
    <3> QED BY <3>1, <3>2
  <2>5. Locks(req[q])' = Locks(r)' BY <1>3
  <2>6. Held'[q] = Held[q] BY <1>4, <1>5, <1>7, <2>4
  <2> QED BY <1>1, <1>3, <2>4, <2>5, <2>6
<1> QED BY <1>4, <1>6, <1>7

\* What it checked is still true.
LEMMA BystanderDecided ==
  ASSUME IInv, NEW p \in Requests, NEW q \in Requests, p # q, Steps(p), req[q].pc = "writing"
  PROVE  Decided(req[q])'
<1>1. PICK r : r = req[q] OBVIOUS
<1>2. Undisturbed(q) BY StepUndisturbs
<1>3. req'[q] = r BY <1>1, <1>2 DEF Undisturbed
<1>4. Needed(r) \subseteq Held[q] BY <1>1, WriterHolds DEF IInv
<1>5. Decided(r) /\ WellFormed(r) /\ r.op \in Ops BY <1>1, RequestFields DEF IInv, DecisionsHold
<1>6. r.op = "setup" => ~Complete'
  BY <1>2, <1>4, <1>5 DEF Undisturbed, Needed, InvariantOps, Decided
<1>7. r.op = "register" => Admits(r)'
  <2> SUFFICES ASSUME r.op = "register" PROVE Admits(r)' OBVIOUS
  <2>1. Configuration \in Held[q] BY <1>4 DEF Needed, ConfigOps
  <2>2. policy' = policy BY <1>2, <2>1 DEF Undisturbed
  <2>3. policy.mode = "email_allowlist" => r.email \in listed'
    <3>1. policy.mode = "email_allowlist" => ForUpdate("listed", r.email) \in Held[q]
      BY <1>4 DEF Needed, NeedsEmail
    <3> QED BY <1>2, <1>5, <3>1 DEF Undisturbed, Decided, Admits
  <2>4. policy.mode # "email_allowlist" /\ NumUsers > 0 => Cardinality(Counted') < NumUsers
    <3> SUFFICES ASSUME policy.mode # "email_allowlist", NumUsers > 0
                 PROVE  Cardinality(Counted') < NumUsers
      OBVIOUS
    <3>1. Capacity \in Held[q] BY <1>4 DEF Needed, NeedsCapacity
    <3>2. Counted' \subseteq Counted BY <1>2, <3>1 DEF Undisturbed, Counted
    <3>3. IsFiniteSet(Counted) BY AccountsAssumption, FS_Subset DEF Counted
    <3>4. /\ Cardinality(Counted') <= Cardinality(Counted)
          /\ Cardinality(Counted') \in Nat /\ Cardinality(Counted) \in Nat
      BY <3>2, <3>3, FS_Subset, FS_CardinalityType
    <3>5. Cardinality(Counted) < NumUsers BY <1>5 DEF Decided, Admits
    <3> QED BY <3>4, <3>5, AccountsAssumption
  <2> QED BY <1>5, <2>2, <2>3, <2>4 DEF Decided, Admits
<1>8. r.op \in KnownOps => r.user \in Users /\ acct'[r.user] = acct[r.user]
  <2> SUFFICES ASSUME r.op \in KnownOps PROVE r.user \in Users /\ acct'[r.user] = acct[r.user]
    OBVIOUS
  <2>1. r.user \in Users BY <1>5 DEF WellFormed, UserOps, KnownOps, Ops
  <2>2. acct[r.user].kind # "none" BY <1>1 DEF IInv, KnownUsers
  <2>3. ForUpdate("user", r.user) \in Held[q] BY <1>4 DEF Needed, UserRowOps, KnownOps
  <2> QED BY <1>2, <2>1, <2>2, <2>3 DEF Undisturbed
<1>9. r.op \in {"update", "update_self", "send"} => Exists(r.user)'
  BY <1>5, <1>8 DEF Decided, Exists, KnownOps
<1>10. r.op \in {"update", "delete"} => MayDeactivate(r)'
  <2> SUFFICES ASSUME r.op \in {"update", "delete"}, Deactivates(r)'
               PROVE  ActiveAdmins' \ {r.user} # {}
    BY DEF MayDeactivate
  <2>1. acct'[r.user] = acct[r.user] /\ r.user \in Users BY <1>8 DEF KnownOps
  <2>2. Deactivates(r) BY <2>1 DEF Deactivates, ActiveAdmins, Administrators
  <2>3. ActiveAdmins \ {r.user} # {} BY <1>5, <2>2 DEF Decided, MayDeactivate
  <2>4. Invariant \in Held[q] BY <1>4 DEF Needed, InvariantOps
  <2> QED BY <1>2, <2>3, <2>4 DEF Undisturbed
<1>11. r.op = "configure" => MayConfigure(r)'
  <2> SUFFICES ASSUME r.op = "configure" PROVE MayConfigure(r)' OBVIOUS
  <2>1. Exclusive("configuration") \in Held[q] BY <1>4 DEF Needed
  <2>2. policy' = policy BY <1>2, <2>1 DEF Undisturbed
  <2> QED BY <1>5, <2>2 DEF Decided, MayConfigure, Configured
<1>12. r.op = "send" => r.email = acct'[r.user].email
  BY <1>5, <1>8 DEF Decided, KnownOps
<1>13. Decided(r)' BY <1>6, <1>7, <1>9, <1>10, <1>11, <1>12 DEF Decided
<1> QED BY <1>3, <1>13

----------------------------------------------------------------------------
(* The transaction that takes a step *)

\* What its new request has to satisfy.
Moved(p) ==
    /\ \E r : req' = [req EXCEPT ![p] = r]
    /\ IsRequest(req'[p])
    /\ req'[p].pc = "idle" => req'[p].taken = 0
    /\ req'[p].pc # "idle" =>
         /\ WellFormed(req'[p])
         /\ req'[p].op # "setup" => installs' # 0
         /\ req'[p].op \in KnownOps => acct'[req'[p].user].kind # "none"
    /\ req'[p].pc = "writing" => req'[p].taken = Len(Locks(req[p])') /\ Decided(req[p])'
    /\ Exclusion(Held')

\* Giving locks back keeps them exclusive.
LEMMA Released ==
  ASSUME IInv, NEW p \in Requests, Steps(p), Held'[p] \subseteq Held[p]
  PROVE  Exclusion(Held')
<1>1. \A q \in Requests : Held'[q] \subseteq Held[q] BY BystanderLocks
<1>2. DOMAIN Held = Requests /\ DOMAIN Held' = Requests BY DEF Held
<1>3. Exclusion(Held) BY DEF IInv, ExclusiveLocks
<1> HIDE DEF Held
<1> QED BY <1>1, <1>2, <1>3, ReleaseKeepsExclusion

\* A transaction that commits, is refused or rolls back.
LEMMA EndMoves ==
  ASSUME IInv, NEW p \in Requests, Steps(p), req' = [req EXCEPT ![p] = Idle]
  PROVE  Moved(p)
<1>1. req'[p] = Idle BY DEF IInv, RequestsTyped
<1>2. Idle.pc = "idle" /\ Idle.taken = 0 /\ IsRequest(Idle) BY DEF Idle, IsRequest
<1>3. Held'[p] = {}
  <2>1. Held'[p] = Taken(Locks(req[p])', 0) BY <1>1, <1>2 DEF Held
  <2> QED BY <2>1, TakenNone
<1>4. Exclusion(Held') BY <1>3, Released
<1> QED BY <1>1, <1>2, <1>4 DEF Moved

\* The next lock.
LEMMA TakeMoves ==
  ASSUME IInv, NEW p \in Requests, TakeLock(p)
  PROVE  Moved(p)
<1>1. PICK r : r = req[p] OBVIOUS
<1>2. PICK n : n = [r EXCEPT !.taken = @ + 1] OBVIOUS
<1>3. r.pc = "locking" /\ r.taken < Len(Locks(r)) /\ MayTake(Held, p, Locks(r)[r.taken + 1])
      /\ UNCHANGED data /\ (req' = [req EXCEPT ![p] = Idle] \/ req' = [req EXCEPT ![p] = n])
  BY <1>1, <1>2 DEF TakeLock
<1>4. Steps(p) BY DEF Steps, Calm
<1>5. CASE req' = [req EXCEPT ![p] = Idle] BY <1>4, <1>5, EndMoves
<1>6. CASE req' = [req EXCEPT ![p] = n]
  <2>1. IsRequest(r) /\ WellFormed(r) /\ r.taken \in Nat /\ r.op \in Ops
        /\ Held[p] = Taken(Locks(r), r.taken)
    BY <1>1, <1>3, RequestFields DEF IInv
  <2>2. req'[p] = n BY <1>6 DEF IInv, RequestsTyped
  <2>3. n = [pc |-> r.pc, op |-> r.op, cred |-> r.cred, actor |-> r.actor, role |-> r.role,
             user |-> r.user, email |-> r.email, arg |-> r.arg, taken |-> r.taken + 1]
    <3>1. r = [pc |-> r.pc, op |-> r.op, cred |-> r.cred, actor |-> r.actor, role |-> r.role,
               user |-> r.user, email |-> r.email, arg |-> r.arg, taken |-> r.taken]
      BY <2>1 DEF IsRequest
    <3> QED BY <1>2, <3>1
  <2>4. /\ n.pc = "locking" /\ n.op = r.op /\ n.cred = r.cred /\ n.actor = r.actor /\ n.role = r.role
        /\ n.user = r.user /\ n.email = r.email /\ n.arg = r.arg /\ n.taken = r.taken + 1
    BY <1>3, <2>3
  <2>5. IsRequest(n) BY <2>1, <2>3, <2>4 DEF IsRequest
  <2>6. WellFormed(n) BY <1>3, <2>1, <2>4 DEF WellFormed
  <2>7. Locks(n) = Locks(r)
    BY <2>4 DEF Locks, SetupLocks, RegisterLocks, SessionLocks, CreateLocks, UpdateLocks, SelfLocks,
                DeleteLocks, ConfigureLocks, SendLocks, ConfirmLocks, EmailLocks
  <2>8. Locks(n)' = Locks(n)
    <3>1. policy' = policy BY <1>3 DEF data
    <3> QED BY <3>1 DEF Locks, RegisterLocks
  <2>9. Held'[p] = Held[p] \cup {Locks(r)[r.taken + 1]}
    <3>1. Held'[p] = Taken(Locks(n)', n.taken) BY <2>2, <2>4 DEF Held
    <3>2. Held'[p] = Taken(Locks(r), r.taken + 1) BY <2>4, <2>7, <2>8, <3>1
    <3> QED BY <2>1, <3>2, TakenNext
  <2>10. Exclusion(Held')
    <3>1. DOMAIN Held = Requests /\ DOMAIN Held' = Requests BY DEF Held
    <3>2. \A q \in Requests :
             Held'[q] \subseteq Held[q] \cup (IF q = p THEN {Locks(r)[r.taken + 1]} ELSE {})
      BY <1>4, <2>9, BystanderLocks
    <3>3. Exclusion(Held) BY DEF IInv, ExclusiveLocks
    <3> HIDE DEF Held
    <3> QED BY <1>3, <3>1, <3>2, <3>3, TakeKeepsExclusion
  <2>11. r.op # "setup" => installs' # 0
    BY <1>1, <1>3 DEF IInv, BeforeSetup, data
  <2>12. r.op \in KnownOps => acct'[r.user].kind # "none"
    BY <1>1, <1>3 DEF IInv, KnownUsers, data
  <2> QED BY <1>6, <2>2, <2>4, <2>5, <2>6, <2>10, <2>11, <2>12 DEF Moved
<1> QED BY <1>3, <1>5, <1>6

\* The request that was checked, the address of a resend, the sessions of an UPDATE.
LEMMA DecidesFields ==
  ASSUME NEW r, IsRequest(r)
  PROVE  LET n == Decides(r) IN
         /\ n = [pc |-> "writing", op |-> r.op, cred |-> r.cred, actor |-> r.actor, role |-> r.role,
                 user |-> r.user, email |-> n.email, arg |-> n.arg, taken |-> r.taken]
         /\ n.email = IF r.op = "send" THEN acct[r.user].email ELSE r.email
         /\ n.arg = IF r.op \in SessionOps THEN Ending(r) ELSE r.arg
         /\ n.pc = "writing" /\ n.op = r.op /\ n.cred = r.cred /\ n.actor = r.actor /\ n.role = r.role
         /\ n.user = r.user /\ n.taken = r.taken
<1>1. r = [pc |-> r.pc, op |-> r.op, cred |-> r.cred, actor |-> r.actor, role |-> r.role,
           user |-> r.user, email |-> r.email, arg |-> r.arg, taken |-> r.taken]
  BY DEF IsRequest
<1>2. PICK e : e = IF r.op = "send" THEN acct[r.user].email ELSE r.email OBVIOUS
<1>3. PICK x : x = IF r.op \in SessionOps THEN Ending(r) ELSE r.arg OBVIOUS
<1>4. PICK a : a = [r EXCEPT !.pc = "writing"] OBVIOUS
<1>5. a = [pc |-> "writing", op |-> r.op, cred |-> r.cred, actor |-> r.actor, role |-> r.role,
           user |-> r.user, email |-> r.email, arg |-> r.arg, taken |-> r.taken]
  BY <1>1, <1>4
<1>6. PICK b : b = [a EXCEPT !.email = e] OBVIOUS
<1>7. b = [pc |-> "writing", op |-> r.op, cred |-> r.cred, actor |-> r.actor, role |-> r.role,
           user |-> r.user, email |-> e, arg |-> r.arg, taken |-> r.taken]
  BY <1>5, <1>6
<1>8. PICK n : n = [b EXCEPT !.arg = x] OBVIOUS
<1>9. n = [pc |-> "writing", op |-> r.op, cred |-> r.cred, actor |-> r.actor, role |-> r.role,
           user |-> r.user, email |-> e, arg |-> x, taken |-> r.taken]
  BY <1>7, <1>8
<1>10. n = Decides(r)
  <2>1. a.email = r.email /\ b.arg = r.arg BY <1>5, <1>7
  <2> QED BY <1>2, <1>3, <1>4, <1>6, <1>8, <2>1 DEF Decides
<1>11. n.email = e /\ n.arg = x BY <1>9
<1>12. /\ n.pc = "writing" /\ n.op = r.op /\ n.cred = r.cred /\ n.actor = r.actor /\ n.role = r.role
       /\ n.user = r.user /\ n.taken = r.taken
  BY <1>9
<1> QED BY <1>2, <1>3, <1>9, <1>10, <1>11, <1>12

\* The checks of a handler.
LEMMA CheckMoves ==
  ASSUME IInv, NEW p \in Requests, Check(p)
  PROVE  Moved(p)
<1>1. PICK r : r = req[p] OBVIOUS
<1>2. PICK n : n = Decides(r) OBVIOUS
<1>3. /\ r.pc = "locking" /\ r.taken = Len(Locks(r)) /\ UNCHANGED data
      /\ req' = [req EXCEPT ![p] = Idle] \/ (Permitted(r) /\ req' = [req EXCEPT ![p] = n])
  BY <1>1, <1>2 DEF Check
<1>4. Steps(p) BY DEF Steps, Calm
<1>5. CASE req' = [req EXCEPT ![p] = Idle] BY <1>4, <1>5, EndMoves
<1>6. CASE Permitted(r) /\ req' = [req EXCEPT ![p] = n]
  <2>1. IsRequest(r) /\ WellFormed(r) /\ r.taken \in Nat /\ r.op \in Ops
        /\ Held[p] = Taken(Locks(r), r.taken)
    BY <1>1, <1>3, RequestFields DEF IInv
  <2>2. req'[p] = n BY <1>6 DEF IInv, RequestsTyped
  <2>3. /\ n = [pc |-> "writing", op |-> r.op, cred |-> r.cred, actor |-> r.actor, role |-> r.role,
                user |-> r.user, email |-> n.email, arg |-> n.arg, taken |-> r.taken]
        /\ n.email = IF r.op = "send" THEN acct[r.user].email ELSE r.email
        /\ r.op \notin {"login", "logout", "revoke"} => n.arg = r.arg
        /\ n.pc = "writing" /\ n.op = r.op /\ n.cred = r.cred /\ n.actor = r.actor /\ n.role = r.role
        /\ n.user = r.user /\ n.taken = r.taken
    BY <1>2, <2>1, DecidesFields DEF SessionOps
  <2>4. IsRequest(n) BY <2>1, <2>3 DEF IsRequest
  <2>5. WellFormed(n) BY <1>3, <2>1, <2>3 DEF WellFormed
  <2>6. Locks(n) = Locks(r)
    <3>1. CASE r.op = "send" BY <2>3, <3>1 DEF Locks, SendLocks
    <3>2. CASE r.op # "send"
      BY <2>3, <3>2 DEF Locks, SetupLocks, RegisterLocks, SessionLocks, CreateLocks, UpdateLocks,
                        SelfLocks, DeleteLocks, ConfigureLocks, ConfirmLocks, EmailLocks
    <3> QED BY <3>1, <3>2
  <2>7. Locks(n)' = Locks(n)
    <3>1. policy' = policy BY <1>3 DEF data
    <3> QED BY <3>1 DEF Locks, RegisterLocks
  <2>8. Held'[p] = Held[p]
    <3>1. Held'[p] = Taken(Locks(n)', n.taken) BY <2>2, <2>3 DEF Held
    <3> QED BY <2>1, <2>3, <2>6, <2>7, <3>1
  <2>9. Exclusion(Held') BY <1>4, <2>8, Released
  <2>10. Decided(n)
    <3>1. n.op = "setup" => ~Complete BY <1>6, <2>3 DEF Permitted, MaySetUp
    <3>2. n.op = "register" => Admits(n) BY <1>6, <2>3 DEF Permitted, MayRegister, Admits
    <3>3. n.op \in {"update", "update_self", "send"} => Exists(n.user)
      BY <1>6, <2>3 DEF Permitted
    <3>4. n.op \in {"update", "delete"} => MayDeactivate(n)
      <4>1. n.op \in {"update", "delete"} => MayDeactivate(r) BY <1>6, <2>3 DEF Permitted
      <4> QED BY <2>3, <4>1 DEF MayDeactivate, Deactivates
    <3>5. n.op = "configure" => MayConfigure(n)
      BY <1>6, <2>3 DEF Permitted, MayConfigure, Configured
    <3>6. n.op = "send" => n.email = acct[n.user].email BY <2>3
    <3> QED BY <3>1, <3>2, <3>3, <3>4, <3>5, <3>6 DEF Decided
  <2>11. Decided(n)'
    <3>1. UNCHANGED <<acct, installs, policy, listed>> BY <1>3 DEF data
    <3> QED BY <2>10, <3>1 DEF Decided, Complete, Administrators, Admits, Counted, Exists,
                               MayDeactivate, Deactivates, ActiveAdmins, MayConfigure, Configured
  <2>12. Locks(req[p])' = Locks(n)' /\ (Decided(req[p])' <=> Decided(n)') BY <2>2
  <2>13. r.op # "setup" => installs' # 0
    BY <1>1, <1>3 DEF IInv, BeforeSetup, data
  <2>14. r.op \in KnownOps => acct'[r.user].kind # "none"
    BY <1>1, <1>3 DEF IInv, KnownUsers, data
  <2>15. req'[p].taken = Len(Locks(req[p])') BY <1>3, <2>2, <2>3, <2>6, <2>7, <2>12
  <2>16. Decided(req[p])' BY <2>11, <2>12
  <2>17. \E x : req' = [req EXCEPT ![p] = x] BY <1>6
  <2>18. req'[p].pc = "writing" /\ req'[p].op = r.op /\ req'[p].user = r.user BY <2>2, <2>3
  <2>19. IsRequest(req'[p]) /\ WellFormed(req'[p]) BY <2>2, <2>4, <2>5
  <2> QED BY <2>9, <2>13, <2>14, <2>15, <2>16, <2>17, <2>18, <2>19 DEF Moved
<1> QED BY <1>3, <1>5, <1>6

\* The row of a session: the request stays as it is.
LEMMA LockMoves ==
  ASSUME IInv, NEW p \in Requests, LockSession(p)
  PROVE  Moved(p)
<1>1. PICK r : r = req[p] OBVIOUS
<1>2. req' = req /\ UNCHANGED data /\ r.op \in {"login", "logout", "revoke"}
      /\ req[p].pc = "writing"
  <2>1. req' = req /\ UNCHANGED data /\ r.op \in SessionOps /\ Unlocked(p) # {}
    BY <1>1 DEF LockSession
  <2>2. req[p].op # "update" /\ req[p].op # "update_self" /\ req[p].op # "delete"
    BY <1>1, <2>1 DEF SessionOps
  <2>3. req[p].pc = "writing" BY <2>1, <2>2 DEF Unlocked
  <2> QED BY <2>1, <2>3 DEF SessionOps
<1>3. Steps(p) BY DEF Steps, Calm
<1>4. req' = [req EXCEPT ![p] = r] /\ req'[p] = r BY <1>1, <1>2 DEF IInv, RequestsTyped
<1>5. UNCHANGED <<acct, installs, policy, listed>> BY <1>2 DEF data
<1>6. IsRequest(r) /\ WellFormed(r) BY <1>1, <1>2, RequestFields DEF IInv
<1>7. Locks(r)' = Locks(r) BY <1>5 DEF Locks, RegisterLocks
<1>8. r.taken = Len(Locks(r)) BY <1>1, <1>2 DEF IInv, WritersHoldAll
<1>9. Held'[p] = Held[p] BY <1>1, <1>4, <1>7 DEF Held
<1>10. Exclusion(Held') BY <1>3, <1>9, Released
<1>11. Decided(r)' BY <1>2 DEF Decided
<1>12. installs' # 0 BY <1>1, <1>2, <1>5 DEF IInv, BeforeSetup
<1>13. \E x : req' = [req EXCEPT ![p] = x] BY <1>4
<1>14. Locks(req[p])' = Locks(r)' /\ (Decided(req[p])' <=> Decided(r)') BY <1>4
<1>15. r.op \notin KnownOps /\ r.op # "setup" BY <1>2 DEF KnownOps
<1>16. req'[p].taken = Len(Locks(req[p])') BY <1>4, <1>7, <1>8, <1>14
<1>17. req'[p].pc = "writing" BY <1>1, <1>2
<1> QED BY <1>1, <1>4, <1>6, <1>10, <1>11, <1>12, <1>13, <1>14, <1>15, <1>16, <1>17 DEF Moved

\* The link that was written is on its way to the provider.
LEMMA SendMoves ==
  ASSUME IInv, NEW p \in Requests, Send(p)
  PROVE  Moved(p)
<1>1. PICK r : r = req[p] OBVIOUS
<1>2. PICK n : n = Delivers(r) OBVIOUS
<1>3. /\ r.pc = "writing" /\ r.op = "send" /\ req' = [req EXCEPT ![p] = n]
      /\ UNCHANGED <<acct, installs>>
  BY <1>1, <1>2 DEF Send, Writes
<1>4. Steps(p) BY DEF Steps, Calm
<1>5. IsRequest(r) /\ WellFormed(r) /\ r.taken \in Nat
  BY <1>1, <1>3, RequestFields DEF IInv
<1>6. req'[p] = n BY <1>3 DEF IInv, RequestsTyped
<1>7. n = [pc |-> "delivering", op |-> r.op, cred |-> r.cred, actor |-> r.actor, role |-> r.role,
           user |-> r.user, email |-> r.email, arg |-> serial + 1, taken |-> r.taken]
  <2>1. PICK s : s = serial + 1 OBVIOUS
  <2>2. n = [r EXCEPT !.pc = "delivering", !.arg = s] BY <1>2, <2>1 DEF Delivers
  <2>3. r = [pc |-> r.pc, op |-> r.op, cred |-> r.cred, actor |-> r.actor, role |-> r.role,
             user |-> r.user, email |-> r.email, arg |-> r.arg, taken |-> r.taken]
    BY <1>5 DEF IsRequest
  <2>4. PICK a : a = [r EXCEPT !.pc = "delivering"] OBVIOUS
  <2>5. a = [pc |-> "delivering", op |-> r.op, cred |-> r.cred, actor |-> r.actor, role |-> r.role,
             user |-> r.user, email |-> r.email, arg |-> r.arg, taken |-> r.taken]
    BY <2>3, <2>4
  <2>6. n = [a EXCEPT !.arg = s] BY <2>2, <2>4
  <2>7. n = [pc |-> "delivering", op |-> r.op, cred |-> r.cred, actor |-> r.actor, role |-> r.role,
             user |-> r.user, email |-> r.email, arg |-> s, taken |-> r.taken]
    BY <2>5, <2>6
  <2> QED BY <2>1, <2>7
<1>8. n.pc = "delivering" /\ n.op = "send" /\ n.user = r.user /\ n.taken = r.taken BY <1>3, <1>7
<1>9. IsRequest(n)
  <2>1. PICK s : s = serial + 1 OBVIOUS
  <2> QED BY <1>5, <1>7, <2>1 DEF IsRequest
<1>10. WellFormed(n) BY <1>3, <1>5, <1>8 DEF WellFormed, Ops
<1>11. Held'[p] = {} BY <1>6, <1>8 DEF Held
<1>12. Exclusion(Held') BY <1>4, <1>11, Released
<1>13. installs' # 0 /\ acct'[r.user].kind # "none"
  BY <1>1, <1>3 DEF IInv, BeforeSetup, KnownUsers, KnownOps
<1> QED BY <1>3, <1>6, <1>8, <1>9, <1>10, <1>12, <1>13 DEF Moved

\* The rows a resend purges are locked links, whatever their order.
LEMMA PurgesAreLinks ==
  ASSUME IInv, NEW rows \in Purges
  PROVE  rows \in Seq(LinkLock)
<1> DEFINE S == {v \in Users : link[v] # None /\ link[v].old}
           f == [u \in S |-> LinkRow(u, link[u].id)]
<1>1. IsFiniteSet(S) BY AccountsAssumption, FS_Subset
<1>2. f \in Surjection(S, OldRows)
  <2>1. OldRows = {LinkRow(u, link[u].id) : u \in S} BY DEF OldRows
  <2> HIDE DEF S
  <2> QED BY <2>1 DEF Surjection
<1>3. IsFiniteSet(OldRows) BY <1>1, <1>2, FS_Surjection
<1>4. Cardinality(OldRows) \in Nat BY <1>3, FS_CardinalityType
<1>5. OldRows \subseteq LinkLock
  <2> SUFFICES ASSUME NEW u \in Users, link[u] # None PROVE LinkRow(u, link[u].id) \in LinkLock
    BY DEF OldRows
  <2>1. link[u] \in Link BY DEF IInv, DataTyped, TypeOK
  <2>2. link[u].id \in Nat BY <2>1 DEF Link
  <2> QED BY <2>2 DEF LinkRow, ForUpdate, LinkLock
<1>6. rows \in [1..Cardinality(OldRows) -> OldRows] BY DEF Purges, Surjection
<1>7. rows \in [1..Cardinality(OldRows) -> LinkLock] BY <1>5, <1>6
<1> HIDE DEF OldRows
<1> QED BY <1>4, <1>7

\* A request that starts holds nothing yet.
LEMMA StartMoves ==
  ASSUME IInv, NEW p \in Requests, Steps(p), NEW op \in Ops, NEW c, NEW user, NEW email, NEW arg,
         Start(p, op, c, user, email, arg),
         op \in UserOps => user \in Users,
         op \in {"setup", "register", "create", "list"} => email \in Emails,
         op = "create" => arg \in [kind : {"user", "admin"}, hidden : BOOLEAN, banned : BOOLEAN],
         op = "update" => IsPatch(arg, Fields),
         op = "update_self" => IsPatch(arg, {"email", "password"}),
         op = "configure" => arg \in [mode : {"closed", "open", "access_code", "email_allowlist"}]
                                      \cup [code : BOOLEAN],
         op = "create_token" /\ c # None => acct[c.user].kind \in {"user", "admin"},
         op = "send" => arg \in Seq(LinkLock),
         op # "setup" => installs # 0,
         op \in KnownOps => acct[user].kind # "none"
  PROVE  Moved(p)
<1>1. PICK actor : actor = IF c = None THEN None ELSE c.user OBVIOUS
<1>2. PICK role : role = IF c = None THEN None ELSE acct[c.user].kind OBVIOUS
<1>3. PICK n : n = [pc |-> "locking", op |-> op, cred |-> c, actor |-> actor, role |-> role,
                    user |-> user, email |-> email, arg |-> arg, taken |-> 0]
  OBVIOUS
<1>4. req' = [req EXCEPT ![p] = n] /\ UNCHANGED <<acct, installs>>
  BY <1>1, <1>2, <1>3 DEF Start, data
<1>5. req'[p] = n BY <1>4 DEF IInv, RequestsTyped
<1>6. /\ n.pc = "locking" /\ n.op = op /\ n.cred = c /\ n.role = role /\ n.user = user
      /\ n.email = email /\ n.arg = arg /\ n.taken = 0
  BY <1>3
<1>7. IsRequest(n) BY <1>3 DEF IsRequest
<1>8. WellFormed(n) BY <1>2, <1>6 DEF WellFormed
<1>9. Held'[p] = {}
  <2>1. Held'[p] = Taken(Locks(req[p])', 0) BY <1>5, <1>6 DEF Held
  <2> QED BY <2>1, TakenNone
<1>10. Exclusion(Held') BY <1>9, Released
<1>11. \E x : req' = [req EXCEPT ![p] = x] BY <1>4
<1>12. req'[p].pc = "locking" /\ req'[p].op = op /\ req'[p].user = user BY <1>5, <1>6
<1>13. IsRequest(req'[p]) /\ WellFormed(req'[p]) BY <1>5, <1>7, <1>8
<1> QED BY <1>4, <1>10, <1>11, <1>12, <1>13 DEF Moved

\* Accounts that exist, credentials and links mean that setup was completed.
LEMMA Installed ==
  ASSUME IInv
  PROVE  /\ \A u \in Users : Exists(u) => installs # 0 /\ acct[u].kind # "none"
         /\ Complete => installs # 0
         /\ \A c \in creds : /\ c.user \in Users /\ Exists(c.user) /\ installs # 0
                             /\ acct[c.user].kind \in {"user", "admin"}
         /\ \A u \in Users : link[u] # None => Exists(u) /\ installs # 0
<1>1. \A u \in Users : Exists(u) => installs # 0 /\ acct[u].kind # "none"
  BY DEF IInv, BeforeSetup, Exists
<1>2. Complete => installs # 0
  <2> SUFFICES ASSUME Complete, installs = 0 PROVE FALSE OBVIOUS
  <2>1. \A u \in Users : acct[u].kind = "none" BY DEF IInv, BeforeSetup
  <2> QED BY <2>1 DEF Complete, Administrators
<1>3. \A c \in creds : c.user \in Users /\ Exists(c.user) /\ acct[c.user].kind \in {"user", "admin"}
  BY DEF IInv, DataTyped, TypeOK, Credential, Exists
<1>4. \A u \in Users : link[u] # None => Exists(u) BY DEF IInv, LinksOfAccounts
<1> QED BY <1>1, <1>2, <1>3, <1>4

\* Anybody: setup, registration, login, logout and verification.
LEMMA PublicMoves ==
  ASSUME IInv, NEW p \in Requests, StartPublic(p)
  PROVE  Moved(p)
<1>0. Steps(p) BY DEF Steps, Calm, Starts
<1> USE DEF UserOps, KnownOps, Ops
<1>1. CASE \E u \in Users, e \in Emails : Start(p, "setup", None, u, e, None)
  BY <1>0, <1>1, StartMoves
<1>2. CASE Complete /\ \E u \in Users, e \in Emails : Start(p, "register", None, u, e, None)
  <2>1. installs # 0 BY <1>2, Installed
  <2> QED BY <1>0, <1>2, <2>1, StartMoves
<1>3. CASE \E u \in Users : Exists(u) /\ \E c \in creds \cup {None} : Start(p, "login", c, u, None, None)
  <2>1. installs # 0 BY <1>3, Installed
  <2> QED BY <1>0, <1>3, <2>1, StartMoves
<1>4. CASE \E c \in creds : Start(p, "logout", c, c.user, None, None)
  <2>1. PICK c \in creds : Start(p, "logout", c, c.user, None, None) BY <1>4
  <2>2. installs # 0 /\ c.user \in Users BY Installed
  <2> QED BY <1>0, <2>1, <2>2, StartMoves
<1>5. CASE \E u \in Users : link[u] # None /\ Start(p, "confirm", None, u, None, link[u].id)
  <2>1. installs # 0 BY <1>5, Installed
  <2> QED BY <1>0, <1>5, <2>1, StartMoves
<1> QED BY <1>1, <1>2, <1>3, <1>4, <1>5 DEF StartPublic

\* The owner of a credential: tokens, the own account and the own link.
LEMMA OwnMoves ==
  ASSUME IInv, NEW p \in Requests, StartOwn(p)
  PROVE  Moved(p)
<1>0. Steps(p) BY DEF Steps, Calm, Starts
<1> USE DEF UserOps, KnownOps, Ops
<1>1. PICK c \in creds :
        \/ Start(p, "create_token", c, c.user, None, None)
        \/ \E t \in creds : Start(p, "delete_token", c, t.user, None, t)
        \/ \E patch \in Patches(c.user, {"email", "password"}) :
             Start(p, "update_self", c, c.user, None, patch)
        \/ \E rows \in Purges : Start(p, "send", c, c.user, None, rows)
  BY DEF StartOwn
<1>2. /\ c.user \in Users /\ acct[c.user].kind \in {"user", "admin"} /\ acct[c.user].kind # "none"
      /\ installs # 0 /\ \A t \in creds : t.user \in Users
  BY Installed
<1>3. CASE Start(p, "create_token", c, c.user, None, None) BY <1>0, <1>2, <1>3, StartMoves
<1>4. CASE \E t \in creds : Start(p, "delete_token", c, t.user, None, t)
  BY <1>0, <1>2, <1>4, StartMoves
<1>5. CASE \E patch \in Patches(c.user, {"email", "password"}) :
             Start(p, "update_self", c, c.user, None, patch)
  <2>1. PICK patch \in Patches(c.user, {"email", "password"}) :
             Start(p, "update_self", c, c.user, None, patch)
    BY <1>5
  <2>2. IsPatch(patch, {"email", "password"}) BY DEF Patches, IsPatch
  <2> QED BY <1>0, <1>2, <2>1, <2>2, StartMoves
<1>6. CASE \E rows \in Purges : Start(p, "send", c, c.user, None, rows)
  <2>1. PICK rows \in Purges : Start(p, "send", c, c.user, None, rows) BY <1>6
  <2>2. rows \in Seq(LinkLock) BY PurgesAreLinks
  <2> QED BY <1>0, <1>2, <2>1, <2>2, StartMoves
<1> QED BY <1>1, <1>3, <1>4, <1>5, <1>6

\* Administrators: accounts, sessions, the settings and the allowlist.
LEMMA AdminMoves ==
  ASSUME IInv, NEW p \in Requests, StartAdmin(p)
  PROVE  Moved(p)
<1>0. Steps(p) BY DEF Steps, Calm, Starts
<1> USE DEF UserOps, KnownOps, Ops
<1> DEFINE Modes == {"closed", "open", "access_code", "email_allowlist"}
           All   == {"kind", "email", "hidden", "banned", "must", "password"}
<1>1. PICK c \in creds :
        \/ \E u \in Users \cup {None} : Start(p, "revoke", c, u, None, None)
        \/ \E s \in creds : Start(p, "revoke", c, s.user, None, s)
        \/ \E u \in Users, e \in Emails : \E k \in {"user", "admin"}, hidden \in BOOLEAN :
               Start(p, "create", c, u, e, [kind |-> k, hidden |-> hidden, banned |-> FALSE])
        \/ \E u \in Users : Exists(u) /\ \E patch \in Patches(u, All) :
               Start(p, "update", c, u, None, patch)
        \/ \E u \in Users : Exists(u) /\ Start(p, "delete", c, u, None, None)
        \/ \E m \in Modes : Start(p, "configure", c, None, None, [mode |-> m])
        \/ \E b \in BOOLEAN : Start(p, "configure", c, None, None, [code |-> b])
        \/ \E e \in Emails : Start(p, "list", c, None, e, None)
        \/ \E e \in Emails : Start(p, "unlist", c, None, e, None)
  BY DEF StartAdmin
<1>2. installs # 0 /\ \A u \in Users : Exists(u) => acct[u].kind # "none" BY Installed
<1>3. CASE \/ \E u \in Users \cup {None} : Start(p, "revoke", c, u, None, None)
           \/ \E s \in creds : Start(p, "revoke", c, s.user, None, s)
  BY <1>0, <1>2, <1>3, StartMoves
<1>4. CASE \E u \in Users, e \in Emails : \E k \in {"user", "admin"}, hidden \in BOOLEAN :
               Start(p, "create", c, u, e, [kind |-> k, hidden |-> hidden, banned |-> FALSE])
  <2>1. PICK u \in Users, e \in Emails, k \in {"user", "admin"}, hidden \in BOOLEAN :
               Start(p, "create", c, u, e, [kind |-> k, hidden |-> hidden, banned |-> FALSE])
    BY <1>4
  <2>2. PICK a : a = [kind |-> k, hidden |-> hidden, banned |-> FALSE] OBVIOUS
  <2>3. a \in [kind : {"user", "admin"}, hidden : BOOLEAN, banned : BOOLEAN] BY <2>2
  <2> QED BY <1>0, <1>2, <2>1, <2>2, <2>3, StartMoves
<1>5. CASE \E u \in Users : Exists(u) /\ \E patch \in Patches(u, All) :
               Start(p, "update", c, u, None, patch)
  <2>1. PICK u \in Users : Exists(u) /\ \E patch \in Patches(u, All) :
               Start(p, "update", c, u, None, patch)
    BY <1>5
  <2>2. PICK patch \in Patches(u, All) : Start(p, "update", c, u, None, patch) BY <2>1
  <2>3. IsPatch(patch, Fields) BY DEF Patches, IsPatch, Fields
  <2> QED BY <1>0, <1>2, <2>1, <2>2, <2>3, StartMoves
<1>6. CASE \E u \in Users : Exists(u) /\ Start(p, "delete", c, u, None, None)
  BY <1>0, <1>2, <1>6, StartMoves
<1>7. CASE \/ \E m \in Modes : Start(p, "configure", c, None, None, [mode |-> m])
           \/ \E b \in BOOLEAN : Start(p, "configure", c, None, None, [code |-> b])
  <2>1. PICK a \in [mode : Modes] \cup [code : BOOLEAN] : Start(p, "configure", c, None, None, a)
    BY <1>7
  <2> QED BY <1>0, <1>2, <2>1, StartMoves
<1>8. CASE \E e \in Emails : Start(p, "list", c, None, e, None)
  BY <1>0, <1>2, <1>8, StartMoves
<1>9. CASE \E e \in Emails : Start(p, "unlist", c, None, e, None)
  BY <1>0, <1>2, <1>9, StartMoves
<1> QED BY <1>1, <1>3, <1>4, <1>5, <1>6, <1>7, <1>8, <1>9

\* Every step leaves its transaction in order.
LEMMA StepMoves ==
  ASSUME IInv, NEW p \in Requests, Steps(p)
  PROVE  Moved(p)
<1>1. CASE Starts(p) BY <1>1, PublicMoves, OwnMoves, AdminMoves DEF Starts
<1>2. CASE TakeLock(p) BY <1>2, TakeMoves
<1>3. CASE Check(p) BY <1>3, CheckMoves
<1>4. CASE Send(p) BY <1>4, SendMoves
<1>6. CASE LockSession(p) BY <1>6, LockMoves
<1>5. CASE \/ Fail(p) \/ Delivered(p) \/ DeliveryFailed(p) \/ Login(p) \/ Logout(p) \/ Revoke(p)
           \/ CreateToken(p) \/ DeleteToken(p) \/ SetUp(p) \/ Register(p) \/ Create(p)
           \/ Edit(p, "update") \/ Edit(p, "update_self") \/ Delete(p)
           \/ Configure(p) \/ List(p) \/ Unlist(p) \/ Confirm(p)
  <2>1. req' = [req EXCEPT ![p] = Idle]
    BY <1>5 DEF Fail, Delivered, DeliveryFailed, Login, Logout, Revoke, CreateToken, DeleteToken,
                SetUp, Register, Create, Edit, Delete, Configure, List, Unlist, Confirm, Done
  <2> QED BY <2>1, EndMoves
<1> QED BY <1>1, <1>2, <1>3, <1>4, <1>5, <1>6 DEF Steps, Calm

----------------------------------------------------------------------------
(* The requests stay in order *)

\* Setups are only counted up.
LEMMA InstallsGrow ==
  ASSUME IInv, NEW p \in Requests, Steps(p)
  PROVE  /\ installs' \in Nat /\ (installs # 0 => installs' # 0)
         /\ installs' = installs \/ SetUp(p)
<1>1. installs' = installs \/ (SetUp(p) /\ installs' = installs + 1)
  <2>1. CASE SetUp(p) BY <2>1 DEF SetUp
  <2>2. CASE Starts(p)
    <3>1. UNCHANGED data BY <2>2 DEF Starts, StartPublic, StartOwn, StartAdmin, Start
    <3> QED BY <3>1 DEF data
  <2>3. CASE TakeLock(p) \/ Check(p) \/ LockSession(p) \/ Fail(p) \/ Delivered(p)
    BY <2>3 DEF TakeLock, Check, LockSession, Fail, Delivered, data
  <2>4. CASE \/ DeliveryFailed(p) \/ Send(p) \/ Login(p) \/ Logout(p) \/ Revoke(p)
             \/ CreateToken(p) \/ DeleteToken(p)
    BY <2>4 DEF DeliveryFailed, Send, Login, Logout, Revoke, CreateToken, DeleteToken
  <2>5. CASE \/ Register(p) \/ Create(p) \/ Edit(p, "update") \/ Edit(p, "update_self")
             \/ Delete(p) \/ Configure(p) \/ List(p) \/ Unlist(p) \/ Confirm(p)
    BY <2>5 DEF Register, Create, Edit, Delete, Configure, List, Unlist, Confirm
  <2> QED BY <2>1, <2>2, <2>3, <2>4, <2>5 DEF Steps, Calm
<1>2. installs \in Nat BY DEF IInv, DataTyped
<1> QED BY <1>1, <1>2

\* Whoever takes a step, every transaction is in order afterwards.
LEMMA RequestsKept ==
  ASSUME IInv, NEW p \in Requests, Steps(p)
  PROVE  /\ RequestsTyped' /\ KnownUsers' /\ WritersHoldAll' /\ ExclusiveLocks' /\ DecisionsHold'
         /\ \A q \in Requests : req'[q].pc # "idle" /\ req'[q].op # "setup" => installs' # 0
<1>1. Moved(p) BY StepMoves
<1>2. ASSUME NEW q \in Requests, q # p
      PROVE  /\ IsRequest(req'[q])
             /\ req'[q].pc = "idle" => req'[q].taken = 0
             /\ req'[q].pc # "idle" =>
                  /\ WellFormed(req'[q])
                  /\ req'[q].op # "setup" => installs' # 0
                  /\ req'[q].op \in KnownOps => acct'[req'[q].user].kind # "none"
             /\ req'[q].pc = "writing" =>
                  req'[q].taken = Len(Locks(req[q])') /\ Decided(req[q])'
  <2>1. /\ req'[q] = req[q]
        /\ req[q].taken # 0 /\ req[q].pc # "delivering" => Locks(req[q])' = Locks(req[q])
    BY <1>2, BystanderLocks
  <2>2. /\ IsRequest(req[q])
        /\ req[q].pc = "idle" => req[q].taken = 0
        /\ req[q].pc # "idle" => WellFormed(req[q]) /\ req[q].op \in Ops
        /\ req[q].taken \in Nat
    BY RequestFields DEF IInv
  <2>3. req[q].pc # "idle" /\ req[q].op # "setup" => installs' # 0
    BY InstallsGrow DEF IInv, BeforeSetup
  <2>4. req[q].pc # "idle" /\ req[q].op \in KnownOps => acct'[req[q].user].kind # "none"
    <3> SUFFICES ASSUME req[q].pc # "idle", req[q].op \in KnownOps
                 PROVE  acct'[req[q].user].kind # "none"
      OBVIOUS
    <3>1. req[q].user \in Users BY <2>2 DEF WellFormed, KnownOps, UserOps, Ops
    <3>2. acct[req[q].user].kind # "none" BY DEF IInv, KnownUsers
    <3>3. Undisturbed(q) BY <1>2, StepUndisturbs
    <3> QED BY <3>1, <3>2, <3>3 DEF Undisturbed
  <2>5. req[q].pc = "writing" => req[q].taken = Len(Locks(req[q])') /\ Decided(req[q])'
    <3> SUFFICES ASSUME req[q].pc = "writing"
                 PROVE  req[q].taken = Len(Locks(req[q])') /\ Decided(req[q])'
      OBVIOUS
    <3>1. Decided(req[q])' BY <1>2, BystanderDecided
    <3>2. req[q].taken = Len(Locks(req[q])) BY DEF IInv, WritersHoldAll
    <3>3. CASE req[q].taken # 0 BY <2>1, <3>1, <3>2, <3>3
    <3>4. CASE req[q].taken = 0
      <4>1. req[q].op # "register"
        <5> SUFFICES ASSUME req[q].op = "register" PROVE FALSE OBVIOUS
        <5>1. Len(Locks(req[q])) \in Nat /\ Len(Locks(req[q])) >= 1
          BY <2>2, LocksShape DEF ConfigOps
        <5> QED BY <3>2, <3>4, <5>1
      <4>2. PICK r : r = req[q] OBVIOUS
      <4>3. Locks(r)' = Locks(r) BY <4>1, <4>2 DEF Locks
      <4>4. Locks(req[q])' = Locks(r)' BY <2>1, <4>2
      <4> QED BY <3>1, <3>2, <4>2, <4>3, <4>4
    <3> QED BY <3>3, <3>4
  <2> QED BY <2>1, <2>2, <2>3, <2>4, <2>5
<1>3. \A q \in Requests :
             /\ IsRequest(req'[q])
             /\ req'[q].pc = "idle" => req'[q].taken = 0
             /\ req'[q].pc # "idle" =>
                  /\ WellFormed(req'[q])
                  /\ req'[q].op # "setup" => installs' # 0
                  /\ req'[q].op \in KnownOps => acct'[req'[q].user].kind # "none"
             /\ req'[q].pc = "writing" =>
                  req'[q].taken = Len(Locks(req[q])') /\ Decided(req[q])'
  BY <1>1, <1>2 DEF Moved
<1>4. RequestsTyped'
  <2>1. req' = [q \in Requests |-> req'[q]] BY <1>1 DEF Moved, IInv, RequestsTyped
  <2> QED BY <1>3, <2>1 DEF RequestsTyped
<1>5. KnownUsers' BY <1>3 DEF KnownUsers
<1>6. WritersHoldAll' /\ DecisionsHold' BY <1>3 DEF WritersHoldAll, DecisionsHold
<1>7. ExclusiveLocks' BY <1>1 DEF Moved, ExclusiveLocks
<1> QED BY <1>3, <1>4, <1>5, <1>6, <1>7

----------------------------------------------------------------------------
(* The data stay consistent *)

\* The invariant of the tables, by table.
AccountsOK ==
    /\ acct \in [Users -> Account]
    /\ \A u \in Users : Exists(u) <=> acct[u].email # None
    /\ \A u, v \in Users : Exists(u) /\ Exists(v) /\ acct[u].email = acct[v].email => u = v
CredsOK    == creds \subseteq Credential /\ \A c \in creds : Exists(c.user)
LinksOK    == link \in [Users -> Link \cup {None}] /\ LinksOfAccounts /\ LinkIsCurrent
SettingsOK == policy \in Policy /\ listed \subseteq Emails /\ PolicyIsConsistent
ProvedOK   == proved \in [Users -> SUBSET Emails] /\ VerifiedIsProven
SetupOK    == /\ installs \in Nat /\ SetupOnce /\ ActiveAdminRemains
              /\ installs = 0 => (\A u \in Users : acct[u].kind = "none") /\ creds = {}
CountsOK   == serial \in Nat /\ started \in Nat
DataOK     == AccountsOK /\ CredsOK /\ LinksOK /\ SettingsOK /\ ProvedOK /\ SetupOK /\ CountsOK

\* The rows of sessions that are locked.
RowsOK == locked \in [Requests -> SUBSET Credential]

\* They are the part of the invariant that is about tables.
LEMMA Tables == ASSUME IInv PROVE DataOK /\ RowsOK
  BY DEF IInv, DataTyped, TypeOK, BeforeSetup, DataOK, AccountsOK, CredsOK, LinksOK, SettingsOK,
         ProvedOK, SetupOK, CountsOK, RowsOK

\* And with the requests they make up all of it.
LEMMA TablesNext ==
  ASSUME DataOK', RowsOK', RequestsTyped', KnownUsers', WritersHoldAll', ExclusiveLocks', DecisionsHold',
         \A q \in Requests : req'[q].pc # "idle" /\ req'[q].op # "setup" => installs' # 0
  PROVE  IInv'
  BY DEF IInv, DataTyped, TypeOK, BeforeSetup, DataOK, AccountsOK, CredsOK, LinksOK, SettingsOK,
         ProvedOK, SetupOK, CountsOK, RowsOK

\* A table that stays the same stays consistent.
LEMMA SameTables ==
  /\ AccountsOK /\ UNCHANGED acct => AccountsOK'
  /\ LinksOK /\ UNCHANGED <<acct, link>> => LinksOK'
  /\ SettingsOK /\ UNCHANGED <<policy, listed>> => SettingsOK'
  /\ ProvedOK /\ UNCHANGED <<acct, proved>> => ProvedOK'
  /\ SetupOK /\ UNCHANGED <<acct, installs, creds>> => SetupOK'
<1>1. AccountsOK /\ UNCHANGED acct => AccountsOK' BY DEF AccountsOK, Exists
<1>2. LinksOK /\ UNCHANGED <<acct, link>> => LinksOK'
  BY DEF LinksOK, LinksOfAccounts, LinkIsCurrent, Exists
<1>3. SettingsOK /\ UNCHANGED <<policy, listed>> => SettingsOK'
  BY DEF SettingsOK, PolicyIsConsistent
<1>4. ProvedOK /\ UNCHANGED <<acct, proved>> => ProvedOK' BY DEF ProvedOK, VerifiedIsProven
<1>5. SetupOK /\ UNCHANGED <<acct, installs, creds>> => SetupOK'
  BY DEF SetupOK, SetupOnce, ActiveAdminRemains, ActiveAdmins, Administrators
<1> QED BY <1>1, <1>2, <1>3, <1>4, <1>5

\* The sessions whose rows a transaction has locked.
LEMMA RowsKept ==
  ASSUME IInv, NEW p \in Requests, Steps(p)
  PROVE  RowsOK'
<1>1. locked \in [Requests -> SUBSET Credential] /\ creds \subseteq Credential
  BY DEF IInv, DataTyped, TypeOK
<1>2. CASE UNCHANGED locked BY <1>1, <1>2 DEF RowsOK
<1>3. CASE locked' = [locked EXCEPT ![p] = {}] BY <1>1, <1>3 DEF RowsOK
<1>4. CASE LockSession(p)
  <2>1. PICK c \in Unlocked(p) : locked' = [locked EXCEPT ![p] = @ \cup {c}]
    BY <1>4 DEF LockSession
  <2>2. Unlocked(p) \subseteq creds BY DEF Unlocked, Ended
  <2>3. locked[p] \cup {c} \in SUBSET Credential BY <1>1, <2>2
  <2>4. locked' = [locked EXCEPT ![p] = locked[p] \cup {c}] BY <2>1
  <2> QED BY <1>1, <2>3, <2>4 DEF RowsOK
<1>5. CASE Starts(p)
  <2>1. ASSUME NEW op, NEW c, NEW user, NEW email, NEW arg, Start(p, op, c, user, email, arg)
        PROVE  UNCHANGED locked
    BY <2>1 DEF Start
  <2>2. \E op, c, user, email, arg : Start(p, op, c, user, email, arg)
    <3>1. CASE StartPublic(p) BY <3>1 DEF StartPublic
    <3>2. CASE StartOwn(p) BY <3>2 DEF StartOwn
    <3>3. CASE StartAdmin(p) BY <3>3 DEF StartAdmin
    <3> QED BY <1>5, <3>1, <3>2, <3>3 DEF Starts
  <2> QED BY <1>2, <2>1, <2>2
<1>6. CASE TakeLock(p) \/ Check(p) \/ Send(p) BY <1>2, <1>6 DEF TakeLock, Check, Send
<1>7. CASE \/ Fail(p) \/ Delivered(p) \/ DeliveryFailed(p) \/ Login(p) \/ Logout(p) \/ Revoke(p)
           \/ CreateToken(p) \/ DeleteToken(p) \/ SetUp(p) \/ Register(p) \/ Create(p)
           \/ Edit(p, "update") \/ Edit(p, "update_self") \/ Delete(p)
           \/ Configure(p) \/ List(p) \/ Unlist(p) \/ Confirm(p)
  <2>1. Done(p)
    BY <1>7 DEF Fail, Delivered, DeliveryFailed, Login, Logout, Revoke, CreateToken, DeleteToken,
                SetUp, Register, Create, Edit, Delete, Configure, List, Unlist, Confirm
  <2> QED BY <1>3, <2>1 DEF Done
<1> QED BY <1>4, <1>5, <1>6, <1>7 DEF Steps, Calm

\* A new request changes no table.
LEMMA StartsQuietly ==
  ASSUME NEW p, Starts(p)
  PROVE  UNCHANGED data /\ started' = started + 1
<1>1. ASSUME NEW op, NEW c, NEW user, NEW email, NEW arg, Start(p, op, c, user, email, arg)
      PROVE  UNCHANGED data /\ started' = started + 1
  BY <1>1 DEF Start
<1>2. CASE StartPublic(p) BY <1>1, <1>2 DEF StartPublic
<1>3. CASE StartOwn(p) BY <1>1, <1>3 DEF StartOwn
<1>4. CASE StartAdmin(p)
  <2>1. \E op, c, user, email, arg : Start(p, op, c, user, email, arg) BY <1>4 DEF StartAdmin
  <2> QED BY <1>1, <2>1
<1> QED BY <1>2, <1>3, <1>4 DEF Starts

\* Steps of the transaction alone.
LEMMA QuietData ==
  ASSUME IInv, NEW p \in Requests,
         Starts(p) \/ TakeLock(p) \/ Check(p) \/ LockSession(p) \/ Fail(p) \/ Delivered(p)
  PROVE  DataOK'
<1>1. DataOK BY Tables
<1>2. UNCHANGED data /\ started' \in Nat
  <2>1. started \in Nat BY <1>1 DEF DataOK, CountsOK
  <2>2. CASE Starts(p)
    <3>1. UNCHANGED data /\ started' = started + 1 BY <2>2, StartsQuietly
    <3> QED BY <2>1, <3>1
  <2>3. CASE TakeLock(p) \/ Check(p) \/ LockSession(p) \/ Fail(p) \/ Delivered(p)
    BY <2>1, <2>3 DEF TakeLock, Check, LockSession, Fail, Delivered
  <2> QED BY <2>2, <2>3
<1>3. UNCHANGED <<acct, installs, policy, listed, creds, link, proved, serial>> BY <1>2 DEF data
<1>4. CredsOK' BY <1>1, <1>3 DEF DataOK, CredsOK, Exists
<1>5. CountsOK' BY <1>1, <1>2, <1>3 DEF DataOK, CountsOK
<1> QED BY <1>1, <1>3, <1>4, <1>5, SameTables DEF DataOK

\* Sessions and tokens are opened for accounts that exist.
LEMMA CredentialData ==
  ASSUME IInv, NEW p \in Requests,
         Login(p) \/ Logout(p) \/ Revoke(p) \/ CreateToken(p) \/ DeleteToken(p)
  PROVE  DataOK'
<1>1. DataOK BY Tables
<1>2. PICK r : r = req[p] OBVIOUS
<1>3. UNCHANGED <<acct, installs, policy, listed, link, proved, started>>
  BY DEF Login, Logout, Revoke, CreateToken, DeleteToken
<1>4. r.pc = "writing" /\ WellFormed(r) /\ r.op # "setup"
  <2>1. r.pc = "writing" /\ r.op # "setup"
    BY <1>2 DEF Login, Logout, Revoke, CreateToken, DeleteToken, Writes
  <2> QED BY <1>2, <2>1, Writer
<1>5. installs # 0 BY <1>2, <1>4 DEF IInv, BeforeSetup
<1>6. serial' \in Nat /\ creds' \subseteq Credential /\ \A c \in creds' : Exists(c.user)
  <2>0. serial \in Nat /\ creds \subseteq Credential /\ \A c \in creds : Exists(c.user)
    BY <1>1 DEF DataOK, CredsOK, CountsOK
  <2>1. CASE Logout(p) \/ Revoke(p) \/ DeleteToken(p)
    <3>1. serial' = serial /\ creds' \subseteq creds
      BY <2>1 DEF Logout, Revoke, DeleteToken
    <3> QED BY <2>0, <3>1
  <2>2. CASE Login(p) \/ CreateToken(p)
    <3>1. PICK c : /\ serial' = serial + 1 /\ creds' \subseteq creds \cup {c}
                   /\ \/ c = [type |-> "session", user |-> r.user, id |-> serial + 1, role |-> None]
                      \/ /\ r.op = "create_token"
                         /\ c = [type |-> "token", user |-> r.user, id |-> serial + 1, role |-> r.role]
      BY <1>2, <2>2 DEF Login, CreateToken, OpenSession, Session, Writes
    <3>2. r.user \in Users /\ Exists(r.user)
      <4>1. r.op \in {"login", "create_token"} /\ Exists(r.user)
        BY <1>2, <2>2 DEF Login, CreateToken, Writes
      <4> QED BY <1>4, <4>1 DEF WellFormed, UserOps, Ops
    <3>3. c \in Credential /\ c.user = r.user
      <4>1. r.op = "create_token" => r.role \in {"user", "admin", None} BY <1>4 DEF WellFormed
      <4>2. serial + 1 \in Nat BY <2>0
      <4> QED BY <3>1, <3>2, <4>1, <4>2 DEF Credential
    <3> QED BY <2>0, <3>1, <3>2, <3>3
  <2> QED BY <2>1, <2>2
<1>7. CredsOK' BY <1>3, <1>6 DEF CredsOK, Exists
<1>8. CountsOK' BY <1>1, <1>3, <1>6 DEF DataOK, CountsOK
<1>9. SetupOK'
  BY <1>1, <1>3, <1>5 DEF DataOK, SetupOK, SetupOnce, ActiveAdminRemains, ActiveAdmins, Administrators
<1> QED BY <1>1, <1>3, <1>7, <1>8, <1>9, SameTables DEF DataOK

\* The settings are checked together under the configuration lock.
LEMMA SettingsData ==
  ASSUME IInv, NEW p \in Requests, Configure(p) \/ List(p) \/ Unlist(p)
  PROVE  DataOK'
<1>1. DataOK BY Tables
<1>2. PICK r : r = req[p] OBVIOUS
<1>3. UNCHANGED <<acct, installs, creds, link, proved, serial, started>>
  BY DEF Configure, List, Unlist
<1>4. r.pc = "writing" /\ WellFormed(r) /\ Decided(r)
  <2>1. r.pc = "writing" BY <1>2 DEF Configure, List, Unlist, Writes
  <2> QED BY <1>2, <2>1, Writer
<1>5. policy \in Policy /\ listed \subseteq Emails /\ PolicyIsConsistent
  BY <1>1 DEF DataOK, SettingsOK
<1>6. SettingsOK'
  <2>1. CASE Configure(p)
    <3>1. policy' = Configured(r) /\ listed' = listed /\ r.op = "configure"
      BY <1>2, <2>1 DEF Configure, Writes
    <3>2. r.arg \in [mode : {"closed", "open", "access_code", "email_allowlist"}]
                    \cup [code : BOOLEAN]
      BY <1>4, <3>1 DEF WellFormed
    <3>3. Configured(r) \in Policy
      <4>1. "mode" \in DOMAIN r.arg => r.arg.mode \in {"closed", "open", "access_code", "email_allowlist"}
        BY <3>2
      <4>2. "code" \in DOMAIN r.arg => r.arg.code \in BOOLEAN BY <3>2
      <4>3. policy.mode \in {"closed", "open", "access_code", "email_allowlist"} /\ policy.code \in BOOLEAN
        BY <1>5 DEF Policy
      <4> QED BY <4>1, <4>2, <4>3 DEF Configured, Policy
    <3>4. MayConfigure(r) BY <1>4, <3>1 DEF Decided
    <3> QED BY <1>5, <3>1, <3>3, <3>4 DEF SettingsOK, PolicyIsConsistent, MayConfigure
  <2>2. CASE List(p)
    <3>1. r.op = "list" /\ listed' = listed \cup {r.email} /\ policy' = policy
      BY <1>2, <2>2 DEF List, Writes
    <3>2. r.email \in Emails BY <1>4, <3>1 DEF WellFormed
    <3> QED BY <1>5, <3>1, <3>2 DEF SettingsOK, PolicyIsConsistent
  <2>3. CASE Unlist(p)
    <3>1. listed' \subseteq listed /\ policy' = policy BY <2>3 DEF Unlist
    <3> QED BY <1>5, <3>1 DEF SettingsOK, PolicyIsConsistent
  <2> QED BY <2>1, <2>2, <2>3
<1>7. CredsOK' BY <1>1, <1>3 DEF DataOK, CredsOK, Exists
<1>8. CountsOK' BY <1>1, <1>3 DEF DataOK, CountsOK
<1> QED BY <1>1, <1>3, <1>6, <1>7, <1>8, SameTables DEF DataOK

\* A resend replaces the link by one to the address of the account.
LEMMA LinkData ==
  ASSUME IInv, NEW p \in Requests, Send(p) \/ DeliveryFailed(p)
  PROVE  DataOK'
<1>1. DataOK BY Tables
<1>2. PICK r : r = req[p] OBVIOUS
<1>3. UNCHANGED <<acct, installs, policy, listed, creds, proved, started>>
  BY DEF Send, DeliveryFailed
<1>4. /\ acct \in [Users -> Account] /\ link \in [Users -> Link \cup {None}] /\ serial \in Nat
      /\ \A u \in Users : ~Exists(u) => link[u] = None
      /\ \A u \in Users : link[u] # None => link[u].email = acct[u].email
      /\ \A u \in Users : Exists(u) <=> acct[u].email # None
  BY <1>1 DEF DataOK, AccountsOK, LinksOK, CountsOK, LinksOfAccounts, LinkIsCurrent
<1>5. /\ serial' \in Nat /\ link' = [u \in Users |-> link'[u]]
      /\ \A u \in Users :
           \/ link'[u] = link[u] \/ link'[u] = None
           \/ Exists(u) /\ link'[u] \in Link /\ link'[u].email = acct[u].email
  <2>1. CASE Send(p)
    <3>1. PICK n : n = [id |-> serial + 1, email |-> r.email, old |-> FALSE] OBVIOUS
    <3>2. /\ r.pc = "writing" /\ r.op = "send" /\ serial' = serial + 1
          /\ link' = [u \in Users |->
                        CASE u = r.user -> n
                          [] u # r.user /\ link[u] # None
                               /\ <<u, link[u].id>> \in {l.lock[2] : l \in Range(r.arg)} -> None
                          [] OTHER -> link[u]]
      BY <1>2, <2>1, <3>1 DEF Send, Writes
    <3>3. WellFormed(r) /\ Decided(r) BY <1>2, <3>2, Writer
    <3>4. r.user \in Users BY <3>2, <3>3 DEF WellFormed, UserOps, Ops
    <3>5. Exists(r.user) /\ r.email = acct[r.user].email BY <3>2, <3>3 DEF Decided
    <3>6. r.email \in Emails
      <4>1. acct[r.user].email \in Emails \cup {None} BY <1>4, <3>4 DEF Account
      <4> QED BY <1>4, <3>4, <3>5, <4>1
    <3>7. n \in Link /\ n.email = r.email
      <4>1. serial + 1 \in Nat BY <1>4
      <4> QED BY <3>1, <3>6, <4>1 DEF Link
    <3>8. \A u \in Users : \/ link'[u] = link[u] \/ link'[u] = None
                           \/ u = r.user /\ link'[u] = n
      BY <3>2
    <3> QED BY <1>4, <3>2, <3>5, <3>7, <3>8
  <2>2. CASE DeliveryFailed(p)
    <3>1. /\ serial' = serial
          /\ link' = [link EXCEPT ![r.user] = IF @ # None /\ @.id = r.arg THEN None ELSE @]
      BY <1>2, <2>2 DEF DeliveryFailed
    <3>2. \A u \in Users : link'[u] = link[u] \/ link'[u] = None BY <1>4, <3>1
    <3> QED BY <1>4, <3>1, <3>2
  <2> QED BY <2>1, <2>2
<1>6. LinksOK'
  <2>1. link' \in [Users -> Link \cup {None}]
    <3>1. \A u \in Users : link'[u] \in Link \cup {None} BY <1>4, <1>5
    <3> QED BY <1>5, <3>1
  <2>2. \A u \in Users : ~Exists(u) => link'[u] = None
    <3> SUFFICES ASSUME NEW u \in Users, ~Exists(u) PROVE link'[u] = None OBVIOUS
    <3> QED BY <1>4, <1>5
  <2>3. \A u \in Users : link'[u] # None => link'[u].email = acct[u].email BY <1>4, <1>5
  <2> QED BY <1>3, <2>1, <2>2, <2>3 DEF LinksOK, LinksOfAccounts, LinkIsCurrent, Exists
<1>7. CredsOK' BY <1>1, <1>3 DEF DataOK, CredsOK, Exists
<1>8. CountsOK' BY <1>1, <1>3, <1>5 DEF DataOK, CountsOK
<1> QED BY <1>1, <1>3, <1>6, <1>7, <1>8, SameTables DEF DataOK

\* A new account has an address of its own, no credential and no link.
LEMMA InsertData ==
  ASSUME IInv, NEW p \in Requests, SetUp(p) \/ Register(p) \/ Create(p)
  PROVE  DataOK'
<1>1. DataOK BY Tables
<1>2. PICK r : r = req[p] OBVIOUS
<1>3. UNCHANGED <<link, proved, started>> BY DEF SetUp, Register, Create
<1>4. r.pc = "writing" /\ r.op \in {"setup", "register", "create"} /\ WellFormed(r) /\ Decided(r)
  <2>1. r.pc = "writing" /\ r.op \in {"setup", "register", "create"}
    BY <1>2 DEF SetUp, Register, Create, Writes
  <2> QED BY <1>2, <2>1, Writer
<1>5. r.user \in Users /\ r.email \in Emails BY <1>4 DEF WellFormed, UserOps, Ops
<1>6. PICK kind \in {"user", "admin"}, hidden \in BOOLEAN, banned \in BOOLEAN :
        Insert(r, kind, hidden, banned) /\ (SetUp(p) => kind = "admin" /\ ~banned)
  <2>1. CASE SetUp(p) BY <1>2, <2>1 DEF SetUp
  <2>2. CASE Register(p) /\ ~SetUp(p) BY <1>2, <2>2 DEF Register
  <2>3. CASE Create(p) /\ ~SetUp(p)
    <3>1. r.op = "create" BY <1>2, <2>3 DEF Create, Writes
    <3>2. r.arg.kind \in {"user", "admin"} /\ r.arg.hidden \in BOOLEAN /\ r.arg.banned \in BOOLEAN
      BY <1>4, <3>1 DEF WellFormed
    <3> QED BY <1>2, <2>3, <3>2 DEF Create
  <2> QED BY <2>1, <2>2, <2>3
<1>7. acct \in [Users -> Account] BY <1>1 DEF DataOK, AccountsOK
<1>8. /\ acct' \in [Users -> Account] /\ acct[r.user].kind = "none" /\ ~Registered(r.email)
      /\ acct'[r.user] = [kind |-> kind, email |-> r.email, hidden |-> hidden, banned |-> banned,
                          must |-> FALSE, verified |-> FALSE]
      /\ \A u \in Users : u # r.user => acct'[u] = acct[u]
  BY <1>5, <1>6, <1>7, InsertOne
<1>9. acct'[r.user].kind = kind /\ acct'[r.user].email = r.email /\ acct'[r.user].banned = banned
      /\ acct'[r.user].verified = FALSE
  BY <1>8
<1>10. Exists(r.user)' /\ ~Exists(r.user) /\ \A u \in Users : u # r.user => (Exists(u)' <=> Exists(u))
  BY <1>8, <1>9 DEF Exists
<1>11. AccountsOK'
  <2>1. /\ \A u \in Users : Exists(u) <=> acct[u].email # None
        /\ \A u, v \in Users : Exists(u) /\ Exists(v) /\ acct[u].email = acct[v].email => u = v
    BY <1>1 DEF DataOK, AccountsOK
  <2>2. r.email # None BY <1>5, AccountsAssumption
  <2>3. \A u \in Users : Exists(u)' <=> acct'[u].email # None BY <1>8, <1>9, <1>10, <2>1, <2>2
  <2>4. \A u \in Users : Exists(u) => acct[u].email # r.email BY <1>8 DEF Registered
  <2>5. \A u, v \in Users : Exists(u)' /\ Exists(v)' /\ acct'[u].email = acct'[v].email => u = v
    BY <1>8, <1>9, <1>10, <2>1, <2>4
  <2> QED BY <1>8, <2>3, <2>5 DEF AccountsOK
<1>12. serial' \in Nat /\ creds' \subseteq Credential
       /\ \A c \in creds' : c \in creds \/ c.user = r.user
  <2>0. serial \in Nat /\ creds \subseteq Credential BY <1>1 DEF DataOK, CredsOK, CountsOK
  <2>1. CASE Create(p) BY <2>0, <2>1 DEF Create
  <2>2. CASE SetUp(p) \/ Register(p)
    <3>1. /\ serial' = serial + 1
          /\ creds' = creds \cup {[type |-> "session", user |-> r.user, id |-> serial + 1, role |-> None]}
      BY <1>2, <2>2 DEF SetUp, Register, OpenSession, Session
    <3>2. [type |-> "session", user |-> r.user, id |-> serial + 1, role |-> None] \in Credential
      <4>1. serial + 1 \in Nat BY <2>0
      <4> QED BY <1>5, <4>1 DEF Credential
    <3> QED BY <2>0, <3>1, <3>2
  <2> QED BY <2>1, <2>2
<1>13. CredsOK'
  <2>1. \A c \in creds : c.user \in Users /\ Exists(c.user)
    BY <1>1 DEF DataOK, CredsOK, Credential
  <2>2. \A c \in creds' : Exists(c.user)' BY <1>10, <1>12, <2>1
  <2> QED BY <1>12, <2>2 DEF CredsOK
<1>14. LinksOK'
  <2>1. /\ link \in [Users -> Link \cup {None}] /\ \A u \in Users : ~Exists(u) => link[u] = None
        /\ \A u \in Users : link[u] # None => link[u].email = acct[u].email
    BY <1>1 DEF DataOK, LinksOK, LinksOfAccounts, LinkIsCurrent
  <2>2. \A u \in Users : ~Exists(u)' => link[u] = None BY <1>10, <2>1
  <2>3. \A u \in Users : link[u] # None => link[u].email = acct'[u].email BY <1>8, <1>10, <2>1
  <2> QED BY <1>3, <2>1, <2>2, <2>3 DEF LinksOK, LinksOfAccounts, LinkIsCurrent
<1>15. SettingsOK'
  <2>0. policy \in Policy /\ listed \subseteq Emails /\ PolicyIsConsistent
    BY <1>1 DEF DataOK, SettingsOK
  <2>1. listed' \subseteq Emails BY <1>2, <1>5, <2>0 DEF SetUp, Register, Create
  <2>2. CASE SetUp(p)
    <3>1. policy' = [policy EXCEPT !.mode = "open"] BY <2>2 DEF SetUp
    <3>2. policy' \in Policy /\ policy'.mode = "open" BY <2>0, <3>1 DEF Policy
    <3> QED BY <2>1, <3>2 DEF SettingsOK, PolicyIsConsistent
  <2>3. CASE Register(p) \/ Create(p)
    <3>1. policy' = policy BY <2>3 DEF Register, Create
    <3> QED BY <2>0, <2>1, <3>1 DEF SettingsOK, PolicyIsConsistent
  <2> QED BY <2>2, <2>3
<1>16. ProvedOK'
  <2>1. proved \in [Users -> SUBSET Emails] /\ VerifiedIsProven BY <1>1 DEF DataOK, ProvedOK
  <2> QED BY <1>3, <1>8, <1>9, <2>1 DEF ProvedOK, VerifiedIsProven
<1>17. SetupOK'
  <2>0. installs \in Nat /\ installs <= 1 /\ ActiveAdminRemains
    BY <1>1 DEF DataOK, SetupOK, SetupOnce
  <2>1. CASE SetUp(p)
    <3>1. r.op = "setup" /\ installs' = installs + 1 BY <1>2, <2>1 DEF SetUp, Writes
    <3>2. installs = 0 BY <1>4, <2>0, <3>1 DEF Decided, Complete
    <3>3. r.user \in ActiveAdmins' BY <1>5, <1>6, <1>9, <2>1 DEF ActiveAdmins, Administrators
    <3>4. installs' = 1 BY <3>1, <3>2
    <3> QED BY <3>3, <3>4 DEF SetupOK, SetupOnce, ActiveAdminRemains
  <2>2. CASE Register(p) \/ Create(p)
    <3>1. installs' = installs /\ r.op # "setup" BY <1>2, <2>2 DEF Register, Create, Writes
    <3>2. installs # 0 BY <1>2, <1>4, <3>1 DEF IInv, BeforeSetup
    <3>3. ActiveAdmins # {} BY <2>0, <3>2 DEF ActiveAdminRemains
    <3>4. \A u \in ActiveAdmins : u \in ActiveAdmins'
      BY <1>8 DEF ActiveAdmins, Administrators
    <3> QED BY <2>0, <3>1, <3>2, <3>3, <3>4 DEF SetupOK, SetupOnce, ActiveAdminRemains
  <2> QED BY <2>1, <2>2
<1>18. CountsOK' BY <1>1, <1>3, <1>12 DEF DataOK, CountsOK
<1> QED BY <1>11, <1>13, <1>14, <1>15, <1>16, <1>17, <1>18 DEF DataOK

\* An edit keeps addresses apart, ends the link of a changed one, and leaves an
\* active administrator.
LEMMA EditData ==
  ASSUME IInv, NEW p \in Requests, NEW op \in {"update", "update_self"}, Edit(p, op)
  PROVE  DataOK'
<1>0. DataOK BY Tables
<1>1. PICK r : r = req[p] OBVIOUS
<1>2. PICK old : old = acct[r.user] OBVIOUS
<1>3. PICK new : new = Patched(old, r.arg) OBVIOUS
<1>4. /\ r.pc = "writing" /\ r.op = op /\ r.user \in Users /\ WellFormed(r) /\ Decided(r)
      /\ acct \in [Users -> Account] /\ old \in Account /\ IsPatch(r.arg, Fields) /\ Exists(r.user)
      /\ acct' = [acct EXCEPT ![r.user] = new] /\ acct'[r.user] = new /\ new \in Account
      /\ \A u \in Users : u # r.user => acct'[u] = acct[u]
      /\ listed' = Synced(old, new) /\ UNCHANGED <<installs, policy, proved, serial, started>>
  BY <1>1, <1>2, <1>3, Edits
<1>5. /\ FreeAddress(r) /\ creds' \subseteq creds
      /\ link' = [link EXCEPT ![r.user] = IF old.email # new.email THEN None ELSE @]
  BY <1>1, <1>2, <1>3 DEF Edit
<1>6. /\ new.kind = (IF "kind" \in DOMAIN r.arg THEN r.arg.kind ELSE old.kind)
      /\ new.email = (IF "email" \in DOMAIN r.arg THEN r.arg.email ELSE old.email)
      /\ new.banned = (IF "banned" \in DOMAIN r.arg THEN r.arg.banned ELSE old.banned)
      /\ new.verified => old.verified /\ new.email = old.email
      /\ "kind" \in DOMAIN r.arg => r.arg.kind \in {"user", "admin"}
      /\ "email" \in DOMAIN r.arg => r.arg.email \in Emails
  BY <1>3, <1>4, PatchedRow
<1>7. /\ \A u \in Users : Exists(u) <=> acct[u].email # None
      /\ \A u, v \in Users : Exists(u) /\ Exists(v) /\ acct[u].email = acct[v].email => u = v
  BY <1>0 DEF DataOK, AccountsOK
<1>8. old.email \in Emails /\ new.email \in Emails
  <2>1. old.email # None BY <1>2, <1>4, <1>7
  <2>2. old.email \in Emails \cup {None} BY <1>4 DEF Account
  <2> QED BY <1>6, <2>1, <2>2
<1>9. \A u \in Users : Exists(u)' <=> Exists(u)
  <2>1. old.kind \in {"user", "admin"} BY <1>2, <1>4 DEF Exists
  <2>2. new.kind \in {"user", "admin"} BY <1>6, <2>1
  <2> QED BY <1>2, <1>4, <2>1, <2>2 DEF Exists
<1>10. AccountsOK'
  <2>1. acct' \in [Users -> Account]
    <3> HIDE DEF Account
    <3> QED BY <1>4
  <2>2. \A u \in Users : Exists(u)' <=> acct'[u].email # None
    BY <1>4, <1>7, <1>8, <1>9, AccountsAssumption
  <2>3. \A u \in Users : u # r.user /\ Exists(u) => acct[u].email # new.email
    <3> SUFFICES ASSUME NEW u \in Users, u # r.user, Exists(u) PROVE acct[u].email # new.email
      OBVIOUS
    <3>1. CASE "email" \in DOMAIN r.arg BY <1>5, <1>6, <3>1 DEF FreeAddress
    <3>2. CASE "email" \notin DOMAIN r.arg BY <1>2, <1>4, <1>6, <1>7, <3>2
    <3> QED BY <3>1, <3>2
  <2>4. \A u, v \in Users : Exists(u)' /\ Exists(v)' /\ acct'[u].email = acct'[v].email => u = v
    BY <1>4, <1>7, <1>9, <2>3
  <2> QED BY <2>1, <2>2, <2>4 DEF AccountsOK
<1>11. CredsOK'
  <2>1. creds \subseteq Credential /\ \A c \in creds : c.user \in Users /\ Exists(c.user)
    BY <1>0 DEF DataOK, CredsOK, Credential
  <2>2. \A c \in creds' : Exists(c.user)' BY <1>5, <1>9, <2>1
  <2> QED BY <1>5, <2>1, <2>2 DEF CredsOK
<1>12. LinksOK'
  <2>1. /\ link \in [Users -> Link \cup {None}] /\ \A u \in Users : ~Exists(u) => link[u] = None
        /\ \A u \in Users : link[u] # None => link[u].email = acct[u].email
    BY <1>0 DEF DataOK, LinksOK, LinksOfAccounts, LinkIsCurrent
  <2>2. /\ link' \in [Users -> Link \cup {None}]
        /\ \A u \in Users : link'[u] = link[u] \/ link'[u] = None
        /\ old.email # new.email => link'[r.user] = None
    BY <1>4, <1>5, <2>1
  <2>3. \A u \in Users : ~Exists(u)' => link'[u] = None BY <1>9, <2>1, <2>2
  <2>4. \A u \in Users : link'[u] # None => link'[u].email = acct'[u].email
    BY <1>2, <1>4, <2>1, <2>2
  <2> QED BY <2>2, <2>3, <2>4 DEF LinksOK, LinksOfAccounts, LinkIsCurrent
<1>13. SettingsOK'
  <2>1. policy \in Policy /\ listed \subseteq Emails /\ PolicyIsConsistent
    BY <1>0 DEF DataOK, SettingsOK
  <2>2. Synced(old, new) \subseteq Emails BY <1>8, <2>1 DEF Synced
  <2> QED BY <1>4, <2>1, <2>2 DEF SettingsOK, PolicyIsConsistent
<1>14. ProvedOK'
  <2>1. /\ proved \in [Users -> SUBSET Emails]
        /\ \A u \in Users : acct[u].verified => acct[u].email \in proved[u]
    BY <1>0 DEF DataOK, ProvedOK, VerifiedIsProven
  <2>2. \A u \in Users : acct'[u].verified => acct'[u].email \in proved[u]
    BY <1>2, <1>4, <1>6, <2>1
  <2> QED BY <1>4, <2>1, <2>2 DEF ProvedOK, VerifiedIsProven
<1>15. SetupOK'
  <2>1. installs \in Nat /\ installs <= 1 /\ ActiveAdminRemains
    BY <1>0 DEF DataOK, SetupOK, SetupOnce
  <2>2. installs # 0 BY <1>1, <1>4 DEF IInv, BeforeSetup
  <2>3. ActiveAdmins # {} BY <2>1, <2>2 DEF ActiveAdminRemains
  <2>4. \A u \in ActiveAdmins : u # r.user => u \in ActiveAdmins'
    BY <1>4 DEF ActiveAdmins, Administrators
  <2>5. r.user \in ActiveAdmins /\ r.user \notin ActiveAdmins' => ActiveAdmins \ {r.user} # {}
    <3> SUFFICES ASSUME r.user \in ActiveAdmins, r.user \notin ActiveAdmins'
                 PROVE  ActiveAdmins \ {r.user} # {}
      OBVIOUS
    <3>1. old.kind = "admin" /\ ~old.banned BY <1>2 DEF ActiveAdmins, Administrators
    <3>2. new.kind # "admin" \/ new.banned BY <1>4 DEF ActiveAdmins, Administrators
    <3>3. \/ "kind" \in DOMAIN r.arg /\ r.arg.kind # "admin"
          \/ "banned" \in DOMAIN r.arg /\ r.arg.banned
      BY <1>6, <3>1, <3>2
    <3>4. r.op # "update_self"
      BY <1>4, <3>3 DEF WellFormed, IsPatch
    <3>5. MayDeactivate(r) BY <1>4, <3>4 DEF Decided
    <3> QED BY <3>3, <3>5 DEF MayDeactivate, Deactivates
  <2>6. ActiveAdmins' # {} BY <2>3, <2>4, <2>5
  <2> QED BY <1>4, <2>1, <2>2, <2>6 DEF SetupOK, SetupOnce, ActiveAdminRemains
<1>16. CountsOK' BY <1>0, <1>4 DEF DataOK, CountsOK
<1> QED BY <1>10, <1>11, <1>12, <1>13, <1>14, <1>15, <1>16 DEF DataOK

\* A deletion takes everything of the account with it.
LEMMA DeleteData ==
  ASSUME IInv, NEW p \in Requests, Delete(p)
  PROVE  DataOK'
<1>0. DataOK BY Tables
<1>1. PICK r : r = req[p] OBVIOUS
<1>2. PICK gone : gone = [NoAccount EXCEPT !.kind = "gone"] OBVIOUS
<1>3. r.pc = "writing" /\ r.op = "delete" BY <1>1 DEF Delete, Writes
<1>4. WellFormed(r) /\ Decided(r) /\ acct \in [Users -> Account] BY <1>1, <1>3, Writer
<1>5. r.user \in Users BY <1>3, <1>4 DEF WellFormed, UserOps, Ops
<1>6. /\ acct' = [acct EXCEPT ![r.user] = IF Exists(r.user) THEN gone ELSE @]
      /\ listed' = listed \ {acct[r.user].email} /\ creds' = {c \in creds : c.user # r.user}
      /\ link' = [link EXCEPT ![r.user] = None] /\ UNCHANGED <<installs, policy, proved, serial, started>>
  BY <1>1, <1>2 DEF Delete
<1>7. /\ gone \in Account /\ gone.kind = "gone" /\ gone.email = None /\ gone.verified = FALSE
  BY <1>2 DEF NoAccount, Account
<1>8. /\ acct' \in [Users -> Account] /\ ~Exists(r.user)'
      /\ acct'[r.user] = acct[r.user] \/ acct'[r.user] = gone
      /\ \A u \in Users : u # r.user => acct'[u] = acct[u] /\ (Exists(u)' <=> Exists(u))
  <2>1. acct' \in [Users -> Account]
    <3> HIDE DEF Account
    <3> QED BY <1>4, <1>5, <1>6, <1>7
  <2>2. acct'[r.user] = IF Exists(r.user) THEN gone ELSE acct[r.user] BY <1>4, <1>5, <1>6
  <2>3. ~Exists(r.user)' BY <1>7, <2>2 DEF Exists
  <2>4. \A u \in Users : u # r.user => acct'[u] = acct[u] BY <1>4, <1>6
  <2> QED BY <2>1, <2>2, <2>3, <2>4 DEF Exists
<1>9. AccountsOK'
  <2>1. /\ \A u \in Users : Exists(u) <=> acct[u].email # None
        /\ \A u, v \in Users : Exists(u) /\ Exists(v) /\ acct[u].email = acct[v].email => u = v
    BY <1>0 DEF DataOK, AccountsOK
  <2>2. acct'[r.user].email = None
    <3>1. CASE Exists(r.user) BY <1>4, <1>5, <1>6, <1>7, <3>1
    <3>2. CASE ~Exists(r.user) BY <1>4, <1>5, <1>6, <2>1, <3>2
    <3> QED BY <3>1, <3>2
  <2>3. \A u \in Users : Exists(u)' <=> acct'[u].email # None BY <1>8, <2>1, <2>2
  <2>4. \A u, v \in Users : Exists(u)' /\ Exists(v)' /\ acct'[u].email = acct'[v].email => u = v
    BY <1>8, <2>1
  <2> QED BY <1>8, <2>3, <2>4 DEF AccountsOK
<1>10. CredsOK'
  <2>1. creds \subseteq Credential /\ \A c \in creds : c.user \in Users /\ Exists(c.user)
    BY <1>0 DEF DataOK, CredsOK, Credential
  <2>2. \A c \in creds' : Exists(c.user)' BY <1>6, <1>8, <2>1
  <2> QED BY <1>6, <2>1, <2>2 DEF CredsOK
<1>11. LinksOK'
  <2>1. /\ link \in [Users -> Link \cup {None}] /\ \A u \in Users : ~Exists(u) => link[u] = None
        /\ \A u \in Users : link[u] # None => link[u].email = acct[u].email
    BY <1>0 DEF DataOK, LinksOK, LinksOfAccounts, LinkIsCurrent
  <2>2. /\ link' \in [Users -> Link \cup {None}] /\ link'[r.user] = None
        /\ \A u \in Users : u # r.user => link'[u] = link[u]
    BY <1>5, <1>6, <2>1
  <2>3. \A u \in Users : ~Exists(u)' => link'[u] = None BY <1>8, <2>1, <2>2
  <2>4. \A u \in Users : link'[u] # None => link'[u].email = acct'[u].email
    BY <1>8, <2>1, <2>2
  <2> QED BY <2>2, <2>3, <2>4 DEF LinksOK, LinksOfAccounts, LinkIsCurrent
<1>12. SettingsOK' BY <1>0, <1>6 DEF DataOK, SettingsOK, PolicyIsConsistent
<1>13. ProvedOK'
  <2>1. /\ proved \in [Users -> SUBSET Emails]
        /\ \A u \in Users : acct[u].verified => acct[u].email \in proved[u]
    BY <1>0 DEF DataOK, ProvedOK, VerifiedIsProven
  <2>2. \A u \in Users : acct'[u].verified => acct'[u].email \in proved[u]
    BY <1>7, <1>8, <2>1
  <2> QED BY <1>6, <2>1, <2>2 DEF ProvedOK, VerifiedIsProven
<1>14. SetupOK'
  <2>1. installs \in Nat /\ installs <= 1 /\ ActiveAdminRemains
    BY <1>0 DEF DataOK, SetupOK, SetupOnce
  <2>2. installs # 0 BY <1>1, <1>3 DEF IInv, BeforeSetup
  <2>3. ActiveAdmins # {} BY <2>1, <2>2 DEF ActiveAdminRemains
  <2>4. \A u \in ActiveAdmins : u # r.user => u \in ActiveAdmins'
    BY <1>8 DEF ActiveAdmins, Administrators
  <2>5. r.user \in ActiveAdmins => ActiveAdmins \ {r.user} # {}
    BY <1>3, <1>4 DEF Decided, MayDeactivate, Deactivates
  <2>6. ActiveAdmins' # {} BY <2>3, <2>4, <2>5
  <2> QED BY <1>6, <2>1, <2>2, <2>6 DEF SetupOK, SetupOnce, ActiveAdminRemains
<1>15. CountsOK' BY <1>0, <1>6 DEF DataOK, CountsOK
<1> QED BY <1>9, <1>10, <1>11, <1>12, <1>13, <1>14, <1>15 DEF DataOK

\* A verification confirms the address the link was sent to.
LEMMA ConfirmData ==
  ASSUME IInv, NEW p \in Requests, Confirm(p)
  PROVE  DataOK'
<1>0. DataOK BY Tables
<1>1. PICK r : r = req[p] OBVIOUS
<1>3. r.pc = "writing" /\ r.op = "confirm" /\ MayConfirm(r) BY <1>1 DEF Confirm, Writes
<1>4. WellFormed(r) /\ acct \in [Users -> Account] BY <1>1, <1>3, Writer
<1>5. r.user \in Users BY <1>3, <1>4 DEF WellFormed, UserOps, Ops
<1>6. /\ acct' = [acct EXCEPT ![r.user].verified = TRUE]
      /\ proved' = [proved EXCEPT ![r.user] = @ \cup {link[r.user].email}]
      /\ link' = [link EXCEPT ![r.user] = None]
      /\ UNCHANGED <<installs, policy, listed, creds, serial, started>>
  BY <1>1 DEF Confirm
<1>7. /\ Exists(r.user) /\ link[r.user] # None /\ link[r.user].email = acct[r.user].email
  BY <1>3 DEF MayConfirm
<1>8. /\ acct' \in [Users -> Account]
      /\ \A u \in Users : /\ acct'[u].kind = acct[u].kind /\ acct'[u].banned = acct[u].banned
                          /\ acct'[u].email = acct[u].email
                          /\ u # r.user => acct'[u].verified = acct[u].verified
  <2>1. PICK n : n = [acct[r.user] EXCEPT !.verified = TRUE] OBVIOUS
  <2>2. acct[r.user] \in Account BY <1>4, <1>5
  <2>3. /\ n \in Account /\ n.kind = acct[r.user].kind /\ n.banned = acct[r.user].banned
        /\ n.email = acct[r.user].email
    BY <2>1, <2>2 DEF Account
  <2>4. acct' = [acct EXCEPT ![r.user] = n] BY <1>6, <2>1
  <2> QED BY <1>4, <1>5, <2>3, <2>4
<1>9. \A u \in Users : Exists(u)' <=> Exists(u) BY <1>8 DEF Exists
<1>10. AccountsOK'
  <2>1. /\ \A u \in Users : Exists(u) <=> acct[u].email # None
        /\ \A u, v \in Users : Exists(u) /\ Exists(v) /\ acct[u].email = acct[v].email => u = v
    BY <1>0 DEF DataOK, AccountsOK
  <2> QED BY <1>8, <1>9, <2>1 DEF AccountsOK
<1>11. CredsOK'
  <2>1. creds \subseteq Credential /\ \A c \in creds : c.user \in Users /\ Exists(c.user)
    BY <1>0 DEF DataOK, CredsOK, Credential
  <2>2. \A c \in creds : Exists(c.user)' BY <1>9, <2>1
  <2> QED BY <1>6, <2>1, <2>2 DEF CredsOK
<1>12. LinksOK' /\ link[r.user] \in Link
  <2>1. /\ link \in [Users -> Link \cup {None}] /\ \A u \in Users : ~Exists(u) => link[u] = None
        /\ \A u \in Users : link[u] # None => link[u].email = acct[u].email
    BY <1>0 DEF DataOK, LinksOK, LinksOfAccounts, LinkIsCurrent
  <2>2. /\ link' \in [Users -> Link \cup {None}]
        /\ \A u \in Users : link'[u] = link[u] \/ link'[u] = None
    BY <1>5, <1>6, <2>1
  <2>3. \A u \in Users : ~Exists(u)' => link'[u] = None BY <1>9, <2>1, <2>2
  <2>4. \A u \in Users : link'[u] # None => link'[u].email = acct'[u].email
    BY <1>8, <2>1, <2>2
  <2>5. link[r.user] \in Link BY <1>5, <1>7, <2>1
  <2> QED BY <2>2, <2>3, <2>4, <2>5 DEF LinksOK, LinksOfAccounts, LinkIsCurrent
<1>13. ProvedOK'
  <2>1. /\ proved \in [Users -> SUBSET Emails]
        /\ \A u \in Users : acct[u].verified => acct[u].email \in proved[u]
    BY <1>0 DEF DataOK, ProvedOK, VerifiedIsProven
  <2>2. link[r.user].email \in Emails BY <1>12 DEF Link
  <2>3. /\ proved' \in [Users -> SUBSET Emails] /\ acct[r.user].email \in proved'[r.user]
        /\ \A u \in Users : proved[u] \subseteq proved'[u]
    BY <1>5, <1>6, <1>7, <2>1, <2>2
  <2>4. \A u \in Users : acct'[u].verified => acct'[u].email \in proved'[u]
    BY <1>8, <2>1, <2>3
  <2> QED BY <2>3, <2>4 DEF ProvedOK, VerifiedIsProven
<1>14. SettingsOK' BY <1>0, <1>6, SameTables DEF DataOK
<1>15. SetupOK'
  <2>1. installs \in Nat /\ installs <= 1 /\ ActiveAdminRemains
    BY <1>0 DEF DataOK, SetupOK, SetupOnce
  <2>2. installs # 0 BY <1>1, <1>3 DEF IInv, BeforeSetup
  <2>3. ActiveAdmins' = ActiveAdmins BY <1>8 DEF ActiveAdmins, Administrators
  <2> QED BY <1>6, <2>1, <2>2, <2>3 DEF SetupOK, SetupOnce, ActiveAdminRemains
<1>16. CountsOK' BY <1>0, <1>6 DEF DataOK, CountsOK
<1> QED BY <1>10, <1>11, <1>12, <1>13, <1>14, <1>15, <1>16 DEF DataOK

----------------------------------------------------------------------------
(* The invariant *)

\* Every step of a transaction preserves the invariant.
LEMMA StepInvariant ==
  ASSUME IInv, NEW p \in Requests, Steps(p)
  PROVE  IInv'
<1>1. DataOK'
  <2>1. CASE Starts(p) \/ TakeLock(p) \/ Check(p) \/ LockSession(p) \/ Fail(p) \/ Delivered(p)
    BY <2>1, QuietData
  <2>2. CASE Login(p) \/ Logout(p) \/ Revoke(p) \/ CreateToken(p) \/ DeleteToken(p)
    BY <2>2, CredentialData
  <2>3. CASE Send(p) \/ DeliveryFailed(p) BY <2>3, LinkData
  <2>4. CASE SetUp(p) \/ Register(p) \/ Create(p) BY <2>4, InsertData
  <2>5. CASE Edit(p, "update") \/ Edit(p, "update_self") BY <2>5, EditData
  <2>6. CASE Delete(p) BY <2>6, DeleteData
  <2>7. CASE Configure(p) \/ List(p) \/ Unlist(p) BY <2>7, SettingsData
  <2>8. CASE Confirm(p) BY <2>8, ConfirmData
  <2> QED BY <2>1, <2>2, <2>3, <2>4, <2>5, <2>6, <2>7, <2>8 DEF Steps, Calm
<1>2. /\ RequestsTyped' /\ KnownUsers' /\ WritersHoldAll' /\ ExclusiveLocks' /\ DecisionsHold'
      /\ \A q \in Requests : req'[q].pc # "idle" /\ req'[q].op # "setup" => installs' # 0
  BY RequestsKept
<1>3. RowsOK' BY RowsKept
<1> QED BY <1>1, <1>2, <1>3, TablesNext

\* Every step of the system is a step of one transaction.
LEMMA NextSteps == ASSUME Next PROVE \E p \in Requests : Steps(p)
  BY DEF Next, Steps, Calm, Starts

\* A fresh database and an installation in use are consistent.
LEMMA InitData == ASSUME Init PROVE DataOK
<1>0. None \notin Emails BY AccountsAssumption
<1>1. proved = [u \in Users |-> {}] /\ serial = 0 /\ started = 0 BY DEF Init
<1>2. CASE Fresh
  <2>1. /\ acct = [u \in Users |-> NoAccount] /\ installs = 0 /\ listed = {} /\ creds = {}
        /\ policy = [mode |-> "open", code |-> FALSE] /\ link = [u \in Users |-> None]
    BY <1>2 DEF Fresh
  <2>2. NoAccount \in Account /\ NoAccount.kind = "none" /\ NoAccount.email = None
        /\ NoAccount.verified = FALSE
    BY DEF NoAccount, Account
  <2>3. \A u \in Users : acct[u] = NoAccount /\ ~Exists(u) BY <2>1, <2>2 DEF Exists
  <2>4. AccountsOK
    <3> HIDE DEF Account
    <3> QED BY <2>1, <2>2, <2>3 DEF AccountsOK
  <2>5. CredsOK /\ CountsOK BY <1>1, <2>1 DEF CredsOK, CountsOK
  <2>6. LinksOK BY <2>1 DEF LinksOK, LinksOfAccounts, LinkIsCurrent
  <2>7. SettingsOK BY <2>1 DEF SettingsOK, Policy, PolicyIsConsistent
  <2>8. ProvedOK BY <1>1, <2>2, <2>3 DEF ProvedOK, VerifiedIsProven
  <2>9. SetupOK BY <2>1, <2>2, <2>3 DEF SetupOK, SetupOnce, ActiveAdminRemains
  <2> QED BY <2>4, <2>5, <2>6, <2>7, <2>8, <2>9 DEF DataOK
<1>3. CASE InUse
  <2> DEFINE Member == [kind : {"user"}, email : Emails, hidden : {FALSE}, banned : {FALSE},
                        must : {FALSE}, verified : {FALSE}]
             Admin  == [kind : {"admin"}, email : Emails, hidden : {TRUE}, banned : {FALSE},
                        must : {FALSE}, verified : {FALSE}]
  <2>1. /\ acct \in [Users -> {NoAccount} \cup Member \cup Admin]
        /\ \A u, v \in Users : u # v /\ acct[u].email = acct[v].email => acct[u].email = None
        /\ ActiveAdmins # {} /\ installs = 1 /\ listed \in {{}, Emails}
        /\ policy \in [mode : {"open", "access_code", "email_allowlist"}, code : {TRUE}]
        /\ creds = {Session(u, 0) : u \in {v \in Users : Exists(v)}}
        /\ link = [u \in Users |-> IF Exists(u)
                                   THEN [id |-> 0, email |-> acct[u].email, old |-> u \in OldLinks]
                                   ELSE None]
    BY <1>3 DEF InUse
  <2>2. ASSUME NEW a \in {NoAccount} \cup Member \cup Admin
        PROVE  /\ a \in Account /\ (a.kind \in {"user", "admin"} <=> a.email # None)
               /\ (a.email # None => a.email \in Emails) /\ a.verified = FALSE
    <3>1. CASE a = NoAccount BY <1>0, <3>1 DEF NoAccount, Account
    <3>2. CASE a \in Member BY <1>0, <3>2 DEF Account
    <3>3. CASE a \in Admin BY <1>0, <3>3 DEF Account
    <3> QED BY <2>2, <3>1, <3>2, <3>3
  <2>3. \A u \in Users : /\ acct[u] \in Account /\ (Exists(u) <=> acct[u].email # None)
                         /\ (acct[u].email # None => acct[u].email \in Emails)
                         /\ acct[u].verified = FALSE
    <3> HIDE DEF Member, Admin
    <3> QED BY <2>1, <2>2 DEF Exists
  <2>4. AccountsOK
    <3>1. acct = [u \in Users |-> acct[u]] BY <2>1
    <3>2. acct \in [Users -> Account]
      <4> HIDE DEF Account
      <4> QED BY <2>3, <3>1
    <3> QED BY <2>1, <2>3, <3>2 DEF AccountsOK
  <2>5. CredsOK
    <3>1. \A u \in Users : Session(u, 0) \in Credential /\ Session(u, 0).user = u
      BY DEF Session, Credential
    <3> QED BY <2>1, <3>1 DEF CredsOK
  <2>6. LinksOK
    <3>1. \A u \in Users : Exists(u) =>
             [id |-> 0, email |-> acct[u].email, old |-> u \in OldLinks] \in Link
      BY <2>3 DEF Link
    <3>2. \A u \in Users : IF Exists(u)
             THEN link[u] \in Link /\ link[u].email = acct[u].email
             ELSE link[u] = None
      BY <2>1, <3>1
    <3>3. link \in [Users -> Link \cup {None}]
      <4>1. link = [u \in Users |-> link[u]] BY <2>1
      <4>2. \A u \in Users : link[u] \in Link \cup {None} BY <3>2
      <4> QED BY <4>1, <4>2
    <3> QED BY <3>2, <3>3 DEF LinksOK, LinksOfAccounts, LinkIsCurrent
  <2>7. SettingsOK BY <2>1 DEF SettingsOK, Policy, PolicyIsConsistent
  <2>8. ProvedOK BY <1>1, <2>3 DEF ProvedOK, VerifiedIsProven
  <2>9. SetupOK BY <2>1 DEF SetupOK, SetupOnce, ActiveAdminRemains
  <2>10. CountsOK BY <1>1 DEF CountsOK
  <2> QED BY <2>4, <2>5, <2>6, <2>7, <2>8, <2>9, <2>10 DEF DataOK
<1> QED BY <1>2, <1>3 DEF Init

\* No transaction is open at the start.
LEMMA InitInvariant == ASSUME Init PROVE IInv
<1>1. DataOK BY InitData
<1>2. req = [p \in Requests |-> Idle] BY DEF Init
<1>3. Idle.pc = "idle" /\ Idle.taken = 0 /\ IsRequest(Idle) BY DEF Idle, IsRequest
<1>4. \A p \in Requests : req[p] = Idle /\ req[p].pc = "idle" /\ Held[p] = {}
  <2> SUFFICES ASSUME NEW p \in Requests PROVE req[p] = Idle /\ req[p].pc = "idle" /\ Held[p] = {}
    OBVIOUS
  <2>1. req[p] = Idle BY <1>2
  <2>2. Held[p] = Taken(Locks(req[p]), 0) BY <1>3, <2>1 DEF Held
  <2> QED BY <1>3, <2>1, <2>2, TakenNone
<1>5. RequestsTyped BY <1>2, <1>3, <1>4 DEF RequestsTyped
<1>6. KnownUsers /\ WritersHoldAll /\ DecisionsHold
  BY <1>4 DEF KnownUsers, WritersHoldAll, DecisionsHold
<1>7. ExclusiveLocks
  <2>1. DOMAIN Held = Requests BY DEF Held
  <2> HIDE DEF Held
  <2> QED BY <1>4, <2>1 DEF ExclusiveLocks, Exclusion
<1>8. RowsOK BY DEF Init, RowsOK
<1> QED BY <1>1, <1>4, <1>5, <1>6, <1>7, <1>8
        DEF IInv, DataTyped, TypeOK, BeforeSetup, DataOK, AccountsOK, CredsOK, LinksOK, SettingsOK,
            ProvedOK, SetupOK, CountsOK, RowsOK

\* Steps that change nothing preserve the invariant.
LEMMA StutterInvariant == ASSUME IInv, UNCHANGED vars PROVE IInv'
<1>1. UNCHANGED <<acct, installs, policy, listed, creds, link, proved, serial, req, locked, started>>
  BY DEF vars, data
<1>9. RowsOK'
  <2>1. RowsOK BY Tables
  <2> QED BY <1>1, <2>1 DEF RowsOK
<1>2. DataOK'
  <2>1. DataOK BY Tables
  <2>2. CredsOK' /\ CountsOK' BY <1>1, <2>1 DEF DataOK, CredsOK, CountsOK, Exists
  <2> QED BY <1>1, <2>1, <2>2, SameTables DEF DataOK
<1>3. Held' = Held
  <2>1. ASSUME NEW p \in Requests PROVE Locks(req[p])' = Locks(req[p])
    BY <1>1 DEF Locks, SetupLocks, RegisterLocks, SessionLocks, CreateLocks, UpdateLocks, SelfLocks,
                DeleteLocks, ConfigureLocks, SendLocks, ConfirmLocks, EmailLocks
  <2> QED BY <1>1, <2>1 DEF Held
<1>4. ASSUME NEW p \in Requests, req[p].pc = "writing"
      PROVE  req'[p].taken = Len(Locks(req[p])') /\ Decided(req[p])'
  <2>1. Locks(req[p])' = Locks(req[p])
    BY <1>1 DEF Locks, SetupLocks, RegisterLocks, SessionLocks, CreateLocks, UpdateLocks, SelfLocks,
                DeleteLocks, ConfigureLocks, SendLocks, ConfirmLocks, EmailLocks
  <2>2. Decided(req[p]) BY <1>4 DEF IInv, DecisionsHold
  <2>3. Decided(req[p])'
    BY <1>1, <2>2 DEF Decided, Complete, Administrators, Admits, Counted, Exists,
                      MayDeactivate, Deactivates, ActiveAdmins, MayConfigure, Configured
  <2> QED BY <1>1, <1>4, <2>1, <2>3 DEF IInv, WritersHoldAll
<1>5. WritersHoldAll' /\ DecisionsHold' BY <1>1, <1>4 DEF WritersHoldAll, DecisionsHold
<1>6. RequestsTyped' /\ KnownUsers'
  BY <1>1 DEF IInv, RequestsTyped, KnownUsers
<1>7. ExclusiveLocks' BY <1>3 DEF IInv, ExclusiveLocks
<1>8. \A q \in Requests : req'[q].pc # "idle" /\ req'[q].op # "setup" => installs' # 0
  BY <1>1 DEF IInv, BeforeSetup
<1> QED BY <1>2, <1>5, <1>6, <1>7, <1>8, <1>9, TablesNext

\* The inductive invariant: the locks keep what was checked true, so that the tables
\* stay consistent.
THEOREM Invariant_Correct == Spec => []IInv
<1>1. IInv /\ [Next]_vars => IInv' BY NextSteps, StepInvariant, StutterInvariant
<1> QED BY <1>1, InitInvariant, PTL DEF Spec

----------------------------------------------------------------------------
(* What it means for the portal *)

\* users_email_key, the foreign keys of sessions and tokens, and the columns' types.
THEOREM AccountsTypeCorrect == Spec => []TypeOK
<1>1. IInv => TypeOK BY DEF IInv, DataTyped
<1> QED BY <1>1, Invariant_Correct, PTL

\* guard_admin_update and guard_admin_delete keep an administrator who can log in,
\* whatever runs at the same time.
THEOREM AnAdministratorRemains == Spec => []ActiveAdminRemains
<1>1. IInv => ActiveAdminRemains BY DEF IInv
<1> QED BY <1>1, Invariant_Correct, PTL

\* The setup invariant's lock makes the first installation the only one.
THEOREM SetupHappensOnce == Spec => []SetupOnce
<1>1. IInv => SetupOnce BY DEF IInv
<1> QED BY <1>1, Invariant_Correct, PTL

\* normalize_mutations under the exclusive configuration lock.
THEOREM SettingsAreConsistent == Spec => []PolicyIsConsistent
<1>1. IInv => PolicyIsConsistent BY DEF IInv
<1> QED BY <1>1, Invariant_Correct, PTL

\* Verification and edits of the address exclude each other on the user's row.
THEOREM VerifiedAddressesAreProven == Spec => []VerifiedIsProven
<1>1. IInv => VerifiedIsProven BY DEF IInv
<1> QED BY <1>1, Invariant_Correct, PTL

\* A resend in progress and an edit of the address exclude each other as well.
THEOREM LinksAreCurrent == Spec => []LinkIsCurrent
<1>1. IInv => LinkIsCurrent BY DEF IInv
<1> QED BY <1>1, Invariant_Correct, PTL

\* Registration: the policy it was checked against is the one it commits under.
THEOREM RegistrationsAreAdmitted == Spec => RegistrationAdmitted
<1>1. ASSUME IInv, NEW p \in Requests, Register(p)
      PROVE  MayRegister(req[p])
  <2>1. req[p].pc = "writing" /\ req[p].op = "register" /\ ~Registered(req[p].email)
    BY <1>1 DEF Register, Writes, Insert
  <2>2. Admits(req[p]) BY <1>1, <2>1, Writer DEF Decided
  <2> QED BY <2>1, <2>2 DEF Admits, MayRegister
<1>2. IInv /\ [Next]_vars => [\A p \in Requests : Register(p) => MayRegister(req[p])]_vars
  BY <1>1
<1> QED BY <1>2, Invariant_Correct, PTL DEF Spec, RegistrationAdmitted

\* num_users: the capacity lock keeps the accounts that were counted the only ones.
THEOREM RegistrationsFit == Spec => RegistrationFits
<1>1. ASSUME IInv, NEW p \in Requests, Register(p), NumUsers > 0, policy.mode # "email_allowlist"
      PROVE  Cardinality(Counted') <= NumUsers
  <2>1. PICK r : r = req[p] OBVIOUS
  <2>2. r.pc = "writing" /\ r.op = "register" /\ Insert(r, "user", FALSE, FALSE)
    BY <1>1, <2>1 DEF Register, Writes
  <2>3. WellFormed(r) /\ Decided(r) /\ acct \in [Users -> Account] BY <1>1, <2>1, <2>2, Writer
  <2>4. r.user \in Users BY <2>2, <2>3 DEF WellFormed, UserOps, Ops
  <2>5. \A u \in Users : u # r.user => acct'[u] = acct[u] BY <2>2, <2>3 DEF Insert
  <2>6. Counted' \subseteq Counted \cup {r.user} BY <2>5 DEF Counted, Exists
  <2>7. IsFiniteSet(Counted) BY AccountsAssumption, FS_Subset DEF Counted
  <2>8. /\ IsFiniteSet(Counted \cup {r.user})
        /\ Cardinality(Counted \cup {r.user}) =
             IF r.user \in Counted THEN Cardinality(Counted) ELSE Cardinality(Counted) + 1
    BY <2>7, FS_AddElement
  <2>9. Cardinality(Counted') <= Cardinality(Counted \cup {r.user}) BY <2>6, <2>8, FS_Subset
  <2>10. Cardinality(Counted) < NumUsers BY <1>1, <2>2, <2>3 DEF Decided, Admits
  <2>11. IsFiniteSet(Counted') BY <2>6, <2>8, FS_Subset
  <2>12. Cardinality(Counted) \in Nat /\ Cardinality(Counted') \in Nat /\ NumUsers \in Nat
    BY <2>7, <2>11, FS_CardinalityType, AccountsAssumption
  <2> QED BY <2>8, <2>9, <2>10, <2>12
<1>2. IInv /\ [Next]_vars =>
        [\A p \in Requests : Register(p) /\ NumUsers > 0 /\ policy.mode # "email_allowlist"
            => Cardinality(Counted') <= NumUsers]_vars
  BY <1>1
<1> QED BY <1>2, Invariant_Correct, PTL DEF Spec, RegistrationFits

----------------------------------------------------------------------------
(* No circle of waiting transactions, as long as no resend has links to purge *)

\* A resend that finds no link over thirty days old deletes none first.
LEMMA NothingToPurge ==
  ASSUME IInv, NoOldLinks, NEW rows \in Purges
  PROVE  rows = <<>>
<1>1. OldRows = {} BY DEF OldRows, NoOldLinks
<1>2. Cardinality(OldRows) = 0 BY <1>1, FS_EmptySet
<1>3. rows \in [1..0 -> {}] BY <1>1, <1>2 DEF Purges, Surjection
<1>4. rows \in Seq(LinkLock) BY PurgesAreLinks
<1>5. Len(rows) = 0
  <2>1. Len(rows) \in Nat /\ DOMAIN rows = 1..Len(rows) BY <1>4
  <2>2. DOMAIN rows = 1..0 BY <1>3
  <2> QED BY <2>1, <2>2
<1> QED BY <1>4, <1>5, EmptySeq

\* The arguments of a request that starts.
LEMMA StartedSend ==
  ASSUME IInv, NEW p \in Requests, Starts(p), req'[p].op = "send"
  PROVE  req'[p].arg \in Purges
<1>1. ASSUME NEW op, NEW c, NEW user, NEW email, NEW arg, Start(p, op, c, user, email, arg)
      PROVE  req'[p].op = op /\ req'[p].arg = arg
  BY <1>1 DEF Start, IInv, RequestsTyped
<1>2. CASE StartPublic(p) BY <1>1, <1>2 DEF StartPublic
<1>3. CASE StartOwn(p) BY <1>1, <1>3 DEF StartOwn
<1>4. CASE StartAdmin(p)
  <2>1. \E op, c, user, email, arg : op # "send" /\ Start(p, op, c, user, email, arg)
    BY <1>4 DEF StartAdmin
  <2> QED BY <1>1, <2>1
<1> QED BY <1>2, <1>3, <1>4 DEF Starts

\* Links do not grow old while the model runs.
LEMMA NoOldLinksKept ==
  ASSUME IInv, NoOldLinks, NEW p \in Requests, Steps(p)
  PROVE  NoOldLinks'
<1>1. \A u \in Users : \/ link'[u] = link[u] \/ link'[u] = None
                       \/ link'[u].old = FALSE
  <2>0. link \in [Users -> Link \cup {None}] BY DEF IInv, DataTyped, TypeOK
  <2>1. CASE Starts(p) \/ TakeLock(p) \/ Check(p) \/ LockSession(p) \/ Fail(p) \/ Delivered(p)
    <3>1. UNCHANGED data
      BY <2>1, StartsQuietly DEF TakeLock, Check, LockSession, Fail, Delivered
    <3> QED BY <3>1 DEF data
  <2>2. CASE \/ Login(p) \/ Logout(p) \/ Revoke(p) \/ CreateToken(p) \/ DeleteToken(p)
             \/ SetUp(p) \/ Register(p) \/ Create(p) \/ Configure(p) \/ List(p) \/ Unlist(p)
    BY <2>2 DEF Login, Logout, Revoke, CreateToken, DeleteToken, SetUp, Register, Create,
                Configure, List, Unlist
  <2>3. CASE Send(p)
    <3>1. PICK n : n = [id |-> serial + 1, email |-> req[p].email, old |-> FALSE] OBVIOUS
    <3>2. n.old = FALSE BY <3>1
    <3>3. link' = [u \in Users |->
                     CASE u = req[p].user -> n
                       [] u # req[p].user /\ link[u] # None
                            /\ <<u, link[u].id>> \in {l.lock[2] : l \in Range(req[p].arg)} -> None
                       [] OTHER -> link[u]]
      BY <2>3, <3>1 DEF Send
    <3> QED BY <3>2, <3>3
  <2>4. CASE DeliveryFailed(p)
    <3>1. link' = [link EXCEPT ![req[p].user] = IF @ # None /\ @.id = req[p].arg THEN None ELSE @]
      BY <2>4 DEF DeliveryFailed
    <3> QED BY <2>0, <3>1
  <2>5. CASE Edit(p, "update") \/ Edit(p, "update_self")
    <3>1. \E x : link' = [link EXCEPT ![req[p].user] = IF x THEN None ELSE @] BY <2>5 DEF Edit
    <3> QED BY <2>0, <3>1
  <2>6. CASE Delete(p) \/ Confirm(p)
    <3>1. link' = [link EXCEPT ![req[p].user] = None] BY <2>6 DEF Delete, Confirm
    <3> QED BY <2>0, <3>1
  <2> QED BY <2>1, <2>2, <2>3, <2>4, <2>5, <2>6 DEF Steps, Calm
<1>2. \A u \in Users : link'[u] # None => ~link'[u].old BY <1>1 DEF NoOldLinks
<1>3. ASSUME req'[p].pc \in {"locking", "writing"}, req'[p].op = "send"
      PROVE  req'[p].arg = <<>>
  <2>1. CASE Starts(p) BY <1>3, <2>1, StartedSend, NothingToPurge
  <2>2. CASE TakeLock(p) \/ Check(p)
    <3>1. PICK r : r = req[p] OBVIOUS
    <3>2. r.pc = "locking" /\ IsRequest(r)
      BY <2>2, <3>1, RequestFields DEF TakeLock, Check, IInv
    <3>3. Idle.pc = "idle" BY DEF Idle
    <3>4. PICK n : n = [r EXCEPT !.taken = @ + 1] OBVIOUS
    <3>5. PICK d : d = Decides(r) OBVIOUS
    <3>6. req'[p] \in {n, d}
      <4>1. req' = [req EXCEPT ![p] = Idle] \/ req' = [req EXCEPT ![p] = n]
            \/ req' = [req EXCEPT ![p] = d]
        BY <2>2, <3>1, <3>4, <3>5 DEF TakeLock, Check
      <4>2. req'[p] \in {Idle, n, d} BY <4>1 DEF IInv, RequestsTyped
      <4> QED BY <1>3, <3>3, <4>2
    <3>7. n.op = r.op /\ n.arg = r.arg
      <4>1. r = [pc |-> r.pc, op |-> r.op, cred |-> r.cred, actor |-> r.actor, role |-> r.role,
                 user |-> r.user, email |-> r.email, arg |-> r.arg, taken |-> r.taken]
        BY <3>2 DEF IsRequest
      <4> QED BY <3>4, <4>1
    <3>8. d.op = r.op /\ (r.op = "send" => d.arg = r.arg)
      BY <3>2, <3>5, DecidesFields DEF SessionOps
    <3>9. r.op = "send" /\ req'[p].arg = r.arg BY <1>3, <3>6, <3>7, <3>8
    <3> QED BY <3>1, <3>2, <3>9 DEF NoOldLinks
  <2>3. CASE Send(p)
    <3>1. PICK r : r = req[p] OBVIOUS
    <3>2. req'[p].pc = "delivering"
      <4>1. IsRequest(r) BY <3>1, RequestFields DEF IInv
      <4>2. r = [pc |-> r.pc, op |-> r.op, cred |-> r.cred, actor |-> r.actor, role |-> r.role,
                 user |-> r.user, email |-> r.email, arg |-> r.arg, taken |-> r.taken]
        BY <4>1 DEF IsRequest
      <4>3. PICK a : a = [r EXCEPT !.pc = "delivering"] OBVIOUS
      <4>4. a = [pc |-> "delivering", op |-> r.op, cred |-> r.cred, actor |-> r.actor, role |-> r.role,
                 user |-> r.user, email |-> r.email, arg |-> r.arg, taken |-> r.taken]
        BY <4>2, <4>3
      <4>5. PICK s : s = serial + 1 OBVIOUS
      <4>6. PICK d : d = [a EXCEPT !.arg = s] OBVIOUS
      <4>7. d.pc = "delivering" BY <4>4, <4>6
      <4>8. Delivers(r) = d BY <4>3, <4>5, <4>6 DEF Delivers
      <4>9. req' = [req EXCEPT ![p] = d] BY <2>3, <3>1, <4>8 DEF Send
      <4> QED BY <4>7, <4>9 DEF IInv, RequestsTyped
    <3> QED BY <1>3, <3>2
  <2>5. CASE LockSession(p)
    <3>1. req' = req BY <2>5 DEF LockSession
    <3> QED BY <1>3, <3>1 DEF NoOldLinks
  <2>4. CASE ~(Starts(p) \/ TakeLock(p) \/ Check(p) \/ LockSession(p) \/ Send(p))
    <3>1. req' = [req EXCEPT ![p] = Idle]
      BY <2>4 DEF Steps, Calm, Fail, Delivered, DeliveryFailed, Login, Logout, Revoke, CreateToken,
                  DeleteToken, SetUp, Register, Create, Edit, Delete, Configure, List, Unlist,
                  Confirm, Done
    <3>2. req'[p] = Idle BY <3>1 DEF IInv, RequestsTyped
    <3>3. Idle.pc = "idle" BY DEF Idle
    <3> QED BY <1>3, <3>2, <3>3
  <2> QED BY <2>1, <2>2, <2>3, <2>4, <2>5
<1>4. \A q \in Requests : q # p => req'[q] = req[q] BY BystanderLocks
<1> QED BY <1>2, <1>3, <1>4 DEF NoOldLinks

\* The order in which the handlers take their locks.
Rank(l) ==
    LET kind == l.lock[1] IN
    CASE kind = "configuration" -> 1
      [] kind = "registration_capacity" -> 2
      [] kind = "team_membership" -> 3
      [] kind = "setup_invariant" -> 4
      [] kind = "user" -> 5
      [] kind = "session" -> 7
      [] OTHER -> 6

\* The locks of the handlers in that order.
LEMMA Ranks ==
  /\ Rank(Configuration) = 1 /\ Rank(Exclusive("configuration")) = 1 /\ Rank(Capacity) = 2
  /\ Rank(Membership) = 3 /\ Rank(Invariant) = 4
  /\ \A u : Rank(ForUpdate("user", u)) = 5 /\ Rank(KeyShare("user", u)) = 5
  /\ \A e : Rank(ForUpdate("listed", e)) = 6
  /\ \A u, id : Rank(LinkRow(u, id)) = 6
  /\ \A c : Rank(SessionRow(c)) = 7
  /\ \A l : Rank(l) \in 1..7
<1>1. \A l : Rank(l) \in 1..7 BY DEF Rank
<1>2. /\ Rank(Configuration) = 1 /\ Rank(Exclusive("configuration")) = 1 /\ Rank(Capacity) = 2
      /\ Rank(Membership) = 3 /\ Rank(Invariant) = 4
  BY DEF Rank, Configuration, Capacity, Membership, Invariant, Shared, Exclusive
<1>3. \A u : Rank(ForUpdate("user", u)) = 5 /\ Rank(KeyShare("user", u)) = 5
  BY DEF Rank, ForUpdate, KeyShare
<1>4. \A e : Rank(ForUpdate("listed", e)) = 6 BY DEF Rank, ForUpdate
<1>5. \A u, id : Rank(LinkRow(u, id)) = 6 BY DEF Rank, LinkRow, ForUpdate
<1>6. \A c : Rank(SessionRow(c)) = 7 BY DEF Rank, SessionRow, NoKeyUpdate
<1> QED BY <1>1, <1>2, <1>3, <1>4, <1>5, <1>6

\* A lock sequence that rises.
Rising(m) ==
    /\ Len(m) \in Nat
    /\ \A i, j \in 1..Len(m) : i < j => Rank(m[i]) < Rank(m[j])

\* Every handler takes its locks in the common order, and the rows it locks as it
\* writes come after them.
LEMMA LocksRise ==
  ASSUME NEW r, r.op \in Ops, r.op = "send" => r.arg = <<>>
  PROVE  /\ Rising(Locks(r))
         /\ r.op \in {"login", "create_token", "revoke"} =>
              \A i \in 1..Len(Locks(r)) : Rank(Locks(r)[i]) < 5
         /\ \A i \in 1..Len(Locks(r)) : Rank(Locks(r)[i]) <= 6
         /\ r.op \in KnownOps => \A i \in 1..Len(Locks(r)) : Rank(Locks(r)[i]) < 6
<1>1. PICK m : m = Locks(r) OBVIOUS
<1>2. PICK row : row = ForUpdate("user", r.user) OBVIOUS
<1>3. PICK e : e = ForUpdate("listed", r.email) OBVIOUS
<1>4. PICK x : x = Exclusive("configuration") OBVIOUS
<1>5. PICK l : l = LinkRow(r.user, r.arg) OBVIOUS
<1>6. /\ Rank(Configuration) = 1 /\ Rank(x) = 1 /\ Rank(Capacity) = 2 /\ Rank(Membership) = 3
      /\ Rank(Invariant) = 4 /\ Rank(row) = 5 /\ Rank(e) = 6 /\ Rank(l) = 6
  BY <1>2, <1>3, <1>4, <1>5, Ranks
<1> USE DEF IsOne, IsTwo, IsThree, IsFour, IsFive
<1>7. CASE r.op = "send"
  <2>1. m = <<>> \o <<row>> BY <1>1, <1>2, <1>7 DEF Locks, SendLocks
  <2>2. <<row>> \in Seq({row}) /\ Len(<<row>>) = 1 /\ <<row>>[1] = row OBVIOUS
  <2>3. Len(m) = 1 /\ m[1] = row BY <2>1, <2>2, ConcatEmptySeq
  <2>4. \A i \in 1..Len(m) : Rank(m[i]) = 5 BY <1>6, <2>3
  <2> QED BY <1>1, <1>7, <2>3, <2>4 DEF Rising
<1>8. CASE r.op # "send"
  <2>1. \/ r.op = "setup" /\ IsOne(m, Invariant)
        \/ r.op = "register" /\ IsTwo(m, Configuration, e)
        \/ r.op = "register" /\ IsTwo(m, Configuration, Capacity)
        \/ r.op = "register" /\ IsOne(m, Configuration)
        \/ /\ r.op \in {"login", "logout", "create_token", "delete_token", "revoke"}
           /\ IsOne(m, Configuration)
        \/ r.op = "create" /\ IsOne(m, Configuration)
        \/ r.op = "create" /\ IsTwo(m, Configuration, Capacity)
        \/ r.op = "update" /\ IsFive(m, Configuration, Capacity, Membership, Invariant, row)
        \/ r.op = "update" /\ IsFour(m, Configuration, Capacity, Invariant, row)
        \/ r.op = "update" /\ IsThree(m, Configuration, Invariant, row)
        \/ r.op = "update_self" /\ IsTwo(m, Configuration, row)
        \/ r.op = "delete" /\ IsFive(m, Configuration, Capacity, Membership, Invariant, row)
        \/ r.op = "configure" /\ IsOne(m, x)
        \/ r.op = "confirm" /\ IsTwo(m, row, l)
        \/ r.op = "unlist" /\ IsOne(m, e)
        \/ r.op = "list" /\ Len(m) = 0
    <3> HIDE DEF IsOne, IsTwo, IsThree, IsFour, IsFive
    <3> QED BY <1>1, <1>2, <1>3, <1>4, <1>5, <1>8, LocksWritten
  <2>2. Rising(m)
    <3>1. CASE Len(m) = 0 BY <3>1 DEF Rising
    <3>2. CASE Len(m) = 1 BY <3>2 DEF Rising
    <3>3. CASE Len(m) = 2 BY <1>6, <2>1, <3>3 DEF Rising
    <3>4. CASE Len(m) = 3
      <4>1. Rank(m[1]) = 1 /\ Rank(m[2]) = 4 /\ Rank(m[3]) = 5 BY <1>6, <2>1, <3>4
      <4> QED BY <3>4, <4>1 DEF Rising
    <3>5. CASE Len(m) = 4
      <4>1. Rank(m[1]) = 1 /\ Rank(m[2]) = 2 /\ Rank(m[3]) = 4 /\ Rank(m[4]) = 5
        BY <1>6, <2>1, <3>5
      <4> QED BY <3>5, <4>1 DEF Rising
    <3>6. CASE Len(m) = 5
      <4>1. /\ Rank(m[1]) = 1 /\ Rank(m[2]) = 2 /\ Rank(m[3]) = 3 /\ Rank(m[4]) = 4
            /\ Rank(m[5]) = 5
        BY <1>6, <2>1, <3>6
      <4> QED BY <3>6, <4>1 DEF Rising
    <3> QED BY <2>1, <3>1, <3>2, <3>3, <3>4, <3>5, <3>6
  <2>3. r.op \in {"login", "create_token", "revoke"} => \A i \in 1..Len(m) : Rank(m[i]) < 5
    BY <1>6, <2>1
  <2>5. \A i \in 1..Len(m) : Rank(m[i]) <= 6
    <3> SUFFICES ASSUME NEW i \in 1..Len(m) PROVE Rank(m[i]) <= 6 OBVIOUS
    <3>1. m[i] \in {Configuration, x, Capacity, Membership, Invariant, row, e, l}
      BY <1>8, <2>1
    <3> QED BY <1>6, <3>1
  <2>4. r.op \in KnownOps => \A i \in 1..Len(m) : Rank(m[i]) < 6
    <3> SUFFICES ASSUME r.op \in KnownOps, NEW i \in 1..Len(m) PROVE Rank(m[i]) < 6 OBVIOUS
    <3>1. m[i] \in {Configuration, Capacity, Membership, Invariant, row}
      BY <1>8, <2>1 DEF KnownOps
    <3> QED BY <1>6, <3>1
  <2> QED BY <1>1, <2>2, <2>3, <2>4, <2>5
<1> QED BY <1>7, <1>8

\* Neither a transaction that waits for a lock nor one that writes has the row of a
\* session among the locks of its handler.
LEMMA HeldRanks ==
  ASSUME IInv, NoOldLinks, NEW p \in Requests, Waits(p) # {}, NEW h \in Held[p]
  PROVE  /\ req[p].pc \in {"locking", "writing"} /\ req[p].op \in Ops /\ req[p].taken \in Nat
         /\ req[p].op = "send" => req[p].arg = <<>>
         /\ \E i \in 1..Len(Locks(req[p])) : i <= req[p].taken /\ h = Locks(req[p])[i]
         /\ Rank(h) <= 6
<1>1. PICK r : r = req[p] OBVIOUS
<1>2. PICK m : m = Locks(r) OBVIOUS
<1>3. /\ r.pc \in {"locking", "writing"} /\ r.taken \in Nat /\ r.op \in Ops
      /\ Held[p] = Taken(m, r.taken)
  BY <1>1, <1>2, Holder, RequestFields DEF IInv
<1>4. r.op = "send" => r.arg = <<>> BY <1>1, <1>3 DEF NoOldLinks
<1>5. Len(m) \in Nat /\ \A i \in 1..Len(m) : Rank(m[i]) <= 6
  BY <1>2, <1>3, <1>4, LocksRise DEF Rising
<1>6. r.taken <= Len(m)
  <2>1. r.pc = "writing" => r.taken = Len(m) BY <1>1, <1>2 DEF IInv, WritersHoldAll
  <2>2. CASE r.pc = "locking"
    <3>1. Unlocked(p) = {} BY <1>1, <2>2 DEF Unlocked
    <3>2. Wanted(p) # {} BY <3>1 DEF Waits
    <3>3. r.taken < Len(m) BY <1>1, <1>2, <2>2, <3>2 DEF Wanted
    <3> QED BY <1>3, <1>5, <3>3
  <2> QED BY <1>3, <1>5, <2>1, <2>2
<1>7. PICK i \in 1..r.taken : h = m[i] BY <1>3 DEF Taken
<1>8. i \in 1..Len(m) /\ i <= r.taken BY <1>3, <1>5, <1>6, <1>7
<1> QED BY <1>1, <1>2, <1>3, <1>4, <1>5, <1>7, <1>8

\* What a transaction waits for comes after what it has.  An account edit that ends
\* sessions has locked one row of users and waits for another, its administrator's.
LEMMA WantedIsHigher ==
  ASSUME IInv, NoOldLinks, NEW p \in Requests, NEW w \in Waits(p), NEW h \in Held[p]
  PROVE  /\ Rank(h) <= 6 /\ Rank(h) <= Rank(w)
         /\ Rank(h) < Rank(w) \/ (req[p].pc = "writing" /\ req[p].op = "update")
<1>1. PICK r : r = req[p] OBVIOUS
<1>2. PICK m : m = Locks(r) OBVIOUS
<1>3. /\ r.pc \in {"locking", "writing"} /\ r.taken \in Nat /\ r.op \in Ops
      /\ r.op = "send" => r.arg = <<>>
      /\ Rank(h) <= 6 /\ Rank(h) \in 1..7 /\ Rank(w) \in 1..7
  BY <1>1, HeldRanks, Ranks
<1>4. PICK i \in 1..Len(m) : i <= r.taken /\ h = m[i] BY <1>1, <1>2, HeldRanks
<1>5. /\ Rising(m) /\ Len(m) \in Nat
      /\ r.op \in {"login", "create_token", "revoke"} => \A k \in 1..Len(m) : Rank(m[k]) < 5
      /\ r.op \in KnownOps => \A k \in 1..Len(m) : Rank(m[k]) < 6
  BY <1>2, <1>3, LocksRise DEF Rising
<1>6. CASE w \notin Wanted(p)
  <2>1. Rank(w) = 7 BY <1>6, Ranks DEF Waits
  <2> QED BY <1>3, <2>1
<1>7. CASE r.pc = "locking" /\ w \in Wanted(p)
  <2>1. r.taken < Len(m) /\ w = m[r.taken + 1] BY <1>1, <1>2, <1>7 DEF Wanted
  <2>2. r.taken + 1 \in 1..Len(m) /\ i < r.taken + 1
    BY <1>3, <1>4, <1>5, <2>1
  <2>3. Rank(h) < Rank(w) BY <1>4, <1>5, <2>1, <2>2 DEF Rising
  <2> QED BY <1>3, <2>3
<1>8. CASE r.pc = "writing" /\ w \in Wanted(p)
  <2>1. \A x \in ByRows(p) : r.op \in {"revoke", "update"} /\ x = KeyShare("user", r.actor)
    BY <1>1 DEF ByRows
  <2>2. \/ r.op \in {"login", "create_token"} /\ w = KeyShare("user", r.user)
        \/ r.op \in {"revoke", "update"} /\ w = KeyShare("user", r.actor)
        \/ r.op \in KnownOps /\ \E x : w = ForUpdate("listed", x)
        \/ r.op \in KnownOps /\ \E id : w = LinkRow(r.user, id)
    BY <1>1, <1>8, <2>1 DEF Wanted, LinkRows, KnownOps
  <2>3. \/ r.op \in {"login", "create_token", "revoke"} /\ Rank(w) = 5
        \/ r.op = "update" /\ Rank(w) = 5
        \/ r.op \in KnownOps /\ Rank(w) = 6
    BY <2>2, Ranks
  <2>4. \/ Rank(h) < Rank(w)
        \/ r.op = "update" /\ Rank(w) = 5 /\ Rank(h) < 6
    BY <1>4, <1>5, <2>3 DEF KnownOps
  <2> QED BY <1>1, <1>3, <1>8, <2>4
<1> QED BY <1>3, <1>6, <1>7, <1>8

\* Two account edits do not write at once: both have the setup invariant.
LEMMA OneEditWrites ==
  ASSUME IInv, NEW p \in Requests, NEW q \in Requests, p # q,
         req[p].pc = "writing", req[p].op = "update", req[q].pc = "writing"
  PROVE  req[q].op # "update"
<1> SUFFICES ASSUME req[q].op = "update" PROVE FALSE OBVIOUS
<1>1. Needed(req[p]) \subseteq Held[p] /\ Needed(req[q]) \subseteq Held[q]
  BY WriterHolds DEF IInv
<1>2. Invariant \in Held[p] /\ Invariant \in Held[q] BY <1>1 DEF Needed, InvariantOps
<1>3. Invariant.mode = "exclusive" BY DEF Invariant, Exclusive
<1> QED BY <1>2, <1>3, HeldAlone DEF IInv

\* No handlers wait for each other in a circle, those left out that wait with rows
\* of sessions: the transaction that is waited for at the highest rank would wait
\* itself at a higher one.  Only an account edit waits for one row of a user with
\* another one, and the next transaction in the circle is not such an edit.  A
\* resend that has expired links to delete takes rows before and after the user's
\* and is left out.
THEOREM NobodyWaitsInACircle == ASSUME OldLinks = {} PROVE Spec => []NoCircularWait
<1>1. ASSUME IInv, NoOldLinks PROVE NoCircularWait
  <2> DEFINE all    == [p \in Requests |-> Held[p] \cup SessionsHeld[p]]
             wanted == [p \in Requests |-> IF locked[p] = {} THEN Waits(p) ELSE {}]
  <2> SUFFICES ASSUME NEW S \in SUBSET Requests, S # {},
                      \A p \in S : \E q \in S : Blocks(all, wanted, q, p)
               PROVE  FALSE
    <3>1. DOMAIN all = Requests OBVIOUS
    <3> QED BY <3>1 DEF NoCircularWait, CircularWait
  <2>1. \A p \in S : all[p] = Held[p] /\ wanted[p] = Waits(p)
    <3> SUFFICES ASSUME NEW p \in S PROVE all[p] = Held[p] /\ wanted[p] = Waits(p)
      OBVIOUS
    <3>1. wanted[p] # {} BY DEF Blocks
    <3>2. locked[p] = {} BY <3>1
    <3>3. SessionsHeld[p] = {} BY <3>2 DEF SessionsHeld
    <3> QED BY <3>2, <3>3
  <2> HIDE DEF all, wanted
  <2> DEFINE At(k) == \E p, q \in S : /\ q # p
                                      /\ \E w \in Waits(p) : \E h \in Held[q] :
                                           Rank(h) = k /\ Rank(w) = k
  <2>2. \A p \in S : \E q \in S : /\ q # p
                                  /\ \E w \in Waits(p) : \E h \in Held[q] :
                                        Rank(h) = Rank(w) /\ Rank(w) \in 1..7
    <3> SUFFICES ASSUME NEW p \in S
                 PROVE  \E q \in S : /\ q # p
                                     /\ \E w \in Waits(p) : \E h \in Held[q] :
                                           Rank(h) = Rank(w) /\ Rank(w) \in 1..7
      OBVIOUS
    <3>1. PICK q \in S : Blocks(all, wanted, q, p) OBVIOUS
    <3>2. PICK w, h : q # p /\ w \in Waits(p) /\ h \in Held[q] /\ ~Compatible(h, w)
      BY <2>1, <3>1 DEF Blocks
    <3>3. Rank(h) = Rank(w) /\ Rank(w) \in 1..7 BY <3>2, Ranks DEF Rank, Compatible
    <3> QED BY <3>2, <3>3
  <2>3. ASSUME NEW k \in 1..7, At(k) PROVE k <= 6 /\ \E j \in 1..7 : j > k /\ At(j)
    <3>1. PICK p, q, w, h : /\ p \in S /\ q \in S /\ w \in Waits(p) /\ h \in Held[q]
                            /\ Rank(h) = k /\ Rank(w) = k
      BY <2>3
    <3>2. PICK x, v, g : /\ x \in S /\ x # q /\ v \in Waits(q) /\ g \in Held[x]
                         /\ Rank(g) = Rank(v) /\ Rank(v) \in 1..7
      BY <2>2, <3>1
    <3>3. At(Rank(v)) BY <3>1, <3>2
    <3>4. /\ Rank(h) <= 6 /\ Rank(h) <= Rank(v)
          /\ Rank(h) < Rank(v) \/ (req[q].pc = "writing" /\ req[q].op = "update")
      BY <1>1, <3>1, <3>2, WantedIsHigher
    <3>5. CASE Rank(h) < Rank(v)
      <4> HIDE DEF At
      <4> QED BY <3>1, <3>2, <3>3, <3>4, <3>5
    <3>6. CASE req[q].pc = "writing" /\ req[q].op = "update"
      <4>1. PICK y, u, f : /\ y \in S /\ y # x /\ u \in Waits(x) /\ f \in Held[y]
                           /\ Rank(f) = Rank(u) /\ Rank(u) \in 1..7
        BY <2>2, <3>2
      <4>2. At(Rank(u)) BY <3>2, <4>1
      <4>3. Rank(g) < Rank(u) \/ (req[x].pc = "writing" /\ req[x].op = "update")
        BY <1>1, <3>2, <4>1, WantedIsHigher
      <4>4. ~(req[x].pc = "writing" /\ req[x].op = "update")
        BY <1>1, <3>1, <3>2, <3>6, OneEditWrites
      <4> HIDE DEF At
      <4> QED BY <3>1, <3>2, <3>4, <4>1, <4>2, <4>3, <4>4
    <3> QED BY <3>4, <3>5, <3>6
  <2>4. \E k \in 1..7 : At(k)
    <3>1. PICK p \in S : TRUE OBVIOUS
    <3>2. PICK q, w, h : /\ q \in S /\ q # p /\ w \in Waits(p) /\ h \in Held[q]
                         /\ Rank(h) = Rank(w) /\ Rank(w) \in 1..7
      BY <2>2
    <3> QED BY <3>2
  <2> HIDE DEF At
  <2>5. ~At(7) /\ ~At(6) BY <2>3
  <2>6. ~At(5) BY <2>3, <2>5
  <2>7. ~At(4) BY <2>3, <2>5, <2>6
  <2>8. ~At(3) BY <2>3, <2>5, <2>6, <2>7
  <2>9. ~At(2) BY <2>3, <2>5, <2>6, <2>7, <2>8
  <2>10. ~At(1) BY <2>3, <2>5, <2>6, <2>7, <2>8, <2>9
  <2>11. \A k \in 1..7 : k = 1 \/ k = 2 \/ k = 3 \/ k = 4 \/ k = 5 \/ k = 6 \/ k = 7 OBVIOUS
  <2> QED BY <2>4, <2>5, <2>6, <2>7, <2>8, <2>9, <2>10, <2>11
<1>2. Init => NoOldLinks
  <2> SUFFICES ASSUME Init PROVE NoOldLinks OBVIOUS
  <2>1. req = [p \in Requests |-> Idle] /\ Idle.pc = "idle" BY DEF Init, Idle
  <2>2. \A u \in Users : link[u] # None => ~link[u].old
    <3>1. CASE Fresh BY <3>1 DEF Fresh
    <3>2. CASE InUse
      <4>1. link = [u \in Users |-> IF Exists(u)
                                    THEN [id |-> 0, email |-> acct[u].email, old |-> u \in OldLinks]
                                    ELSE None]
        BY <3>2 DEF InUse
      <4> QED BY <4>1
    <3> QED BY <3>1, <3>2 DEF Init
  <2> QED BY <2>1, <2>2 DEF NoOldLinks
<1>3. IInv /\ NoOldLinks /\ [Next]_vars => NoOldLinks'
  <2>1. IInv /\ NoOldLinks /\ Next => NoOldLinks' BY NextSteps, NoOldLinksKept
  <2>2. NoOldLinks /\ UNCHANGED vars => NoOldLinks' BY DEF vars, data, NoOldLinks
  <2> QED BY <2>1, <2>2
<1> QED BY <1>1, <1>2, <1>3, Invariant_Correct, PTL DEF Spec
=============================================================================
