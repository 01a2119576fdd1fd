----------------------------- MODULE TeamsProofs -----------------------------
(***************************************************************************)
(* What the locks of the team handlers guarantee, for any number of users, *)
(* teams and transactions.                                                 *)
(*                                                                         *)
(* The argument.  No two transactions hold conflicting locks (Exclusive-   *)
(* Locks).  So while a transaction holds a lock, what the lock protects    *)
(* does not change under it (Undisturbed), and what its handler checked is *)
(* still true when it writes (DecisionsHold).  Given that, every write     *)
(* leaves the teams and their competition data consistent.                 *)
(***************************************************************************)
EXTENDS Teams, SequenceTheorems, FiniteSetTheorems, TLAPS

Ops == ParticipantOps \cup AdminOps

\* A transaction has the fields of Idle; what arg is depends on the operation.
IsRequest(r) ==
    /\ r = [pc |-> r.pc, op |-> r.op, user |-> r.user, team |-> r.team,
            session |-> r.session, arg |-> r.arg, taken |-> r.taken, born |-> r.born]
    /\ r.pc \in {"idle", "locking", "writing"}
    /\ r.user \in Users \cup {None} /\ r.team \in TeamIds \cup {None}
    /\ r.session \in Nat /\ r.taken \in Nat /\ r.born \in Nat

UserOps == {"create_current", "join_current", "update_current", "delete_current",
            "current_invite", "compete", "launch", "add_member", "remove_member",
            "move_user", "change_role", "delete_user"}
TeamOps == {"join_current", "update_current", "delete_current", "current_invite",
            "add_member", "remove_member", "update_captain", "update_state", "delete_admin"}

\* A request names what its handler needs.
WellFormed(r) ==
    /\ r.op \in UserOps => r.user \in Users
    /\ r.op \in TeamOps => r.team \in TeamIds
    /\ r.op \in {"create", "create_current"} => r.arg \in TeamIds
    /\ r.op \in {"update_current", "update_captain"} => r.arg \in Users \cup {None}
    /\ r.op = "update_state" => r.arg \in BOOLEAN \X BOOLEAN
    /\ r.op = "change_role" => r.arg \in {"user", "admin"}
    /\ r.op = "transition" => r.arg \in DOMAIN previews

RequestsTyped ==
    /\ req = [p \in Requests |-> req[p]] /\ \A p \in Requests : IsRequest(req[p])
    /\ \A p \in Requests : req[p].pc # "idle" => req[p].op \in Ops /\ WellFormed(req[p])
    /\ \A p \in Requests : req[p].pc = "idle" => req[p].taken = 0

PreviewRow == [mode : {"users", "teams"}, audit : Nat, rows : SUBSET Nat,
               users : [Users -> {"user", "admin", "deleted"} \X (TeamIds \cup {None}) \X Nat],
               captains : UNION {[S -> Users \cup {None}] : S \in SUBSET TeamIds}]

Typed ==
    /\ TypeOK /\ RequestsTyped /\ started \in Nat
    /\ previews \in Seq(PreviewRow) /\ spent \in Seq(Nat)

\* An account of a team is a participant, and its team exists.
MembersAreUsers ==
    \A u \in Users : acct[u].team # None => Live(acct[u].team) /\ acct[u].kind = "user"

\* A transaction that writes has all its locks.
WritersHoldAll ==
    \A p \in Requests : req[p].pc = "writing" => req[p].taken = Len(Locks(req[p]))

\* No two transactions hold conflicting locks.
ExclusiveLocks == Exclusion(Held)

\* What a handler checked.  MaxRows bounds the model and is no check of the handler.
Decided(r) ==
    IF r.op = "compete"
    THEN MayCompete(r) /\ r.team = IF r.arg = "teams" THEN acct[r.user].team ELSE None
    ELSE Permitted(r)

\* What a handler checked is still true when it writes.
DecisionsHold == \A p \in Requests : req[p].pc = "writing" => Decided(req[p])

\* A participant's credential is from before the last transition only if it is no
\* longer valid, and a request that has its first lock has a valid one.
RequestsOfThisMode ==
    /\ \A u \in Users : acct[u].session <= acct[u].logins + 1
    /\ \A p \in Requests : req[p].pc # "idle" /\ req[p].op \in ParticipantOps =>
        LET r == req[p] IN
        /\ r.session \in 1..(acct[r.user].logins + 1)
        /\ r.taken = 0 /\ acct[r.user].session = r.session
             => r.born = audit /\ acct[r.user].kind = "user"
        /\ r.taken > 0 => r.born = audit
        /\ r.op \in {"compete", "launch"} /\ r.taken > 0 => r.arg = mode
        /\ r.op = "compete" /\ r.pc = "locking" => r.team = None

\* The previews that were carried out are from before the last transition.
SpentIsPast ==
    \A k \in DOMAIN spent : spent[k] \in DOMAIN previews /\ previews[spent[k]].audit < audit

IInv == /\ Typed /\ MembersAreUsers /\ CaptainIsMember /\ WritersHoldAll /\ ExclusiveLocks
        /\ DecisionsHold /\ RequestsOfThisMode /\ NothingOutlivesItsMode /\ SpentIsPast

----------------------------------------------------------------------------
(* Locks taken one after the other *)

\* Whoever holds an exclusive lock holds it alone (pg_advisory_xact_lock,
\* SELECT ... FOR UPDATE).
LEMMA ExclusiveHolder ==
  ASSUME NEW held, Exclusion(held), NEW p \in DOMAIN held, NEW q \in DOMAIN held,
         NEW l \in held[p], NEW h \in held[q], l.lock = h.lock, l.mode = "exclusive"
  PROVE  p = q
  BY DEF Exclusion, Compatible

\* A lock that is granted while another process holds a conflicting one is a
\* contradiction: the statement would have waited.
LEMMA GrantedIsFree ==
  ASSUME NEW held, NEW p, NEW l, MayTake(held, p, l),
         NEW q \in DOMAIN held, q # p, NEW h \in held[q], l.lock = h.lock, h.mode = "exclusive"
  PROVE  FALSE
  BY DEF MayTake, Compatible

\* Taking one more lock under MayTake, while the others keep or release theirs,
\* preserves the exclusion.
LEMMA TakeKeepsExclusion ==
  ASSUME NEW held, NEW after, NEW p, NEW l, Exclusion(held), MayTake(held, p, l),
         DOMAIN after = DOMAIN held,
         \A q \in DOMAIN held : after[q] \subseteq held[q] \cup (IF q = p THEN {l} ELSE {})
  PROVE  Exclusion(after)
<1> SUFFICES ASSUME NEW a \in DOMAIN held, NEW b \in DOMAIN held, a # b,
                    NEW x \in after[a], NEW y \in after[b]
             PROVE  Compatible(x, y)
  BY DEF Exclusion
<1>1. CASE x \in held[a] /\ y \in held[b] BY <1>1 DEF Exclusion
<1>2. CASE x \notin held[a]
  <2>1. a = p /\ x = l /\ y \in held[b] BY <1>2
  <2>2. {x.mode, y.mode} = {y.mode, x.mode} OBVIOUS
  <2> QED BY <2>1, <2>2 DEF MayTake, Compatible
<1>3. CASE y \notin held[b] BY <1>3 DEF MayTake
<1> QED BY <1>1, <1>2, <1>3

\* Releasing locks, by committing or rolling back, preserves the exclusion.
LEMMA ReleaseKeepsExclusion ==
  ASSUME NEW held, NEW after, Exclusion(held), DOMAIN after = DOMAIN held,
         \A q \in DOMAIN held : after[q] \subseteq held[q]
  PROVE  Exclusion(after)
  BY DEF Exclusion

\* The locks of a transaction as it takes them one after the other.
LEMMA TakenNext ==
  ASSUME NEW seq, NEW n \in Nat
  PROVE  Taken(seq, n + 1) = Taken(seq, n) \cup {seq[n + 1]}
<1>1. 1..(n + 1) = (1..n) \cup {n + 1} OBVIOUS
<1> QED BY <1>1 DEF Taken

\* Nothing is held before the first lock.
LEMMA TakenNone == ASSUME NEW seq PROVE Taken(seq, 0) = {}
<1>1. 1..0 = {} OBVIOUS
<1> QED BY <1>1 DEF Taken

----------------------------------------------------------------------------
(* The locks of the handlers *)

\* The elements of a lock sequence that is put together (MoveUserLocks,
\* ChangeRoleLocks, LaunchLocks).
LEMMA Join ==
  ASSUME NEW S, NEW s \in Seq(S), NEW t \in Seq(S)
  PROVE  /\ s \o t \in Seq(S) /\ Len(s \o t) = Len(s) + Len(t)
         /\ \A i \in 1..(Len(s) + Len(t)) :
               (s \o t)[i] = IF i <= Len(s) THEN s[i] ELSE t[i - Len(s)]
  OBVIOUS

\* The lock sequences the handlers write down are sequences.
LEMMA ShortSequences ==
  ASSUME NEW S, NEW a \in S, NEW b \in S, NEW c \in S, NEW d \in S, NEW e \in S
  PROVE  <<>> \in Seq(S) /\ <<a>> \in Seq(S) /\ <<a, b>> \in Seq(S)
         /\ <<a, b, c, d>> \in Seq(S) /\ <<a, b, c, d, e>> \in Seq(S)
  OBVIOUS

\* move_user locks the user before the teams, whatever the user's team is.
LEMMA MoveUserShape ==
  ASSUME NEW r, NEW t
  PROVE  LET m == MoveUserLocks(r, t) IN
         /\ Len(m) \in Nat /\ Len(m) >= 4
         /\ m[1] = Configuration /\ m[2] = Membership /\ m[3] = Invariant
         /\ m[4] = ForUpdate("user", r.user)
         /\ \A i \in 5..Len(m) : m[i] \in {ForUpdate("team", t), ForUpdate("team", r.team)}
<1> DEFINE a == <<Configuration, Membership, Invariant, ForUpdate("user", r.user)>>
           b == TeamRowLock(t)
           c == TeamRowLock(r.team)
           T == {ForUpdate("team", t), ForUpdate("team", r.team)}
           S == {Configuration, Membership, Invariant, ForUpdate("user", r.user)} \cup T
<1>1. a \in Seq(S) /\ Len(a) = 4
  <2>1. Configuration \in S /\ Membership \in S /\ Invariant \in S /\ ForUpdate("user", r.user) \in S
    OBVIOUS
  <2> HIDE DEF S
  <2> QED BY <2>1, ShortSequences
<1>2. /\ b \in Seq(S) /\ c \in Seq(S) /\ Len(b) \in Nat /\ Len(c) \in Nat
      /\ \A i \in 1..Len(b) : b[i] \in T
      /\ \A i \in 1..Len(c) : c[i] \in T
  <2>1. ForUpdate("team", t) \in T /\ ForUpdate("team", r.team) \in T /\ T \subseteq S
    OBVIOUS
  <2> HIDE DEF S, T
  <2>2. b \in Seq(T) /\ c \in Seq(T) BY <2>1, ShortSequences DEF TeamRowLock
  <2>3. \A s \in Seq(T) : s \in Seq(S) /\ Len(s) \in Nat /\ \A i \in 1..Len(s) : s[i] \in T
    BY <2>1
  <2> HIDE DEF b, c
  <2> QED BY <2>2, <2>3
<1> HIDE DEF T, S, b, c
<1>3. a \o b \in Seq(S) /\ Len(a \o b) = 4 + Len(b)
      /\ \A i \in 1..(4 + Len(b)) : (a \o b)[i] = IF i <= 4 THEN a[i] ELSE b[i - 4]
  <2> HIDE DEF a
  <2>1. a \o b \in Seq(S) /\ Len(a \o b) = Len(a) + Len(b)
        /\ \A i \in 1..(Len(a) + Len(b)) :
              (a \o b)[i] = IF i <= Len(a) THEN a[i] ELSE b[i - Len(a)]
    BY <1>1, <1>2, Join
  <2> QED BY <2>1, <1>1
<1>4. Len((a \o b) \o c) = Len(a \o b) + Len(c)
      /\ \A i \in 1..(Len(a \o b) + Len(c)) :
            ((a \o b) \o c)[i] = IF i <= Len(a \o b) THEN (a \o b)[i] ELSE c[i - Len(a \o b)]
  <2>1. a \o b \in Seq(S) /\ c \in Seq(S) BY <1>2, <1>3
  <2> HIDE DEF a
  <2> QED BY <2>1, Join
<1>5. PICK m : m = (a \o b) \o c OBVIOUS
<1>6. PICK ab : ab = a \o b OBVIOUS
<1>7. \A i \in 1..4 : m[i] = a[i]
  <2> HIDE DEF a
  <2> QED BY <1>2, <1>3, <1>4, <1>5
<1>8. \A i \in 5..Len(m) : m[i] \in T
  <2> SUFFICES ASSUME NEW i \in 5..Len(m) PROVE m[i] \in T OBVIOUS
  <2> HIDE DEF a
  <2>1. CASE i <= 4 + Len(b)
    <3>1. m[i] = b[i - 4] BY <1>2, <1>3, <1>4, <1>5, <2>1
    <3> QED BY <1>2, <2>1, <3>1
  <2>2. CASE i > 4 + Len(b)
    <3>1. m[i] = c[i - (4 + Len(b))] /\ i - (4 + Len(b)) \in 1..Len(c)
      BY <1>2, <1>3, <1>4, <1>5, <2>2
    <3> QED BY <1>2, <3>1
  <2> QED BY <1>2, <2>1, <2>2
<1>9. Len(m) \in Nat /\ Len(m) >= 4 BY <1>2, <1>3, <1>4, <1>5
<1>10. m = MoveUserLocks(r, t) BY <1>5 DEF MoveUserLocks, b, c
<1> QED BY <1>7, <1>8, <1>9, <1>10 DEF T

\* change_role takes the three advisory locks before the row of the user.
LEMMA ChangeRoleShape ==
  ASSUME NEW r, NEW t
  PROVE  LET m == ChangeRoleLocks(r, t) IN
         /\ Len(m) \in Nat /\ Len(m) >= 5
         /\ m[1] = Configuration /\ m[2] = Registration /\ m[3] = Membership
         /\ m[4] = Invariant /\ m[5] = ForUpdate("user", r.user)
         /\ \A i \in 6..Len(m) : m[i] = ForUpdate("team", t)
<1> DEFINE a == <<Configuration, Registration, Membership, Invariant, ForUpdate("user", r.user)>>
           b == TeamRowLock(t)
           T == {ForUpdate("team", t)}
           S == {Configuration, Registration, Membership, Invariant, ForUpdate("user", r.user)} \cup T
<1>1. a \in Seq(S) /\ Len(a) = 5
  <2>1. Configuration \in S /\ Registration \in S /\ Membership \in S /\ Invariant \in S
        /\ ForUpdate("user", r.user) \in S
    OBVIOUS
  <2> HIDE DEF S
  <2> QED BY <2>1, ShortSequences
<1>2. b \in Seq(S) /\ Len(b) \in Nat /\ \A i \in 1..Len(b) : b[i] \in T
  <2>1. ForUpdate("team", t) \in T /\ T \subseteq S OBVIOUS
  <2> HIDE DEF S, T
  <2>2. b \in Seq(T) BY <2>1, ShortSequences DEF TeamRowLock
  <2>3. \A s \in Seq(T) : s \in Seq(S) /\ Len(s) \in Nat /\ \A i \in 1..Len(s) : s[i] \in T
    BY <2>1
  <2> HIDE DEF b
  <2> QED BY <2>2, <2>3
<1>3. Len(a \o b) = 5 + Len(b)
      /\ \A i \in 1..(5 + Len(b)) : (a \o b)[i] = IF i <= 5 THEN a[i] ELSE b[i - 5]
  <2> HIDE DEF a, b, S, T
  <2>1. Len(a \o b) = Len(a) + Len(b)
        /\ \A i \in 1..(Len(a) + Len(b)) :
              (a \o b)[i] = IF i <= Len(a) THEN a[i] ELSE b[i - Len(a)]
    BY <1>1, <1>2, Join
  <2> QED BY <2>1, <1>1
<1> HIDE DEF b, S, T
<1>4. PICK m : m = a \o b OBVIOUS
<1>5. \A i \in 1..5 : m[i] = a[i]
  <2> HIDE DEF a
  <2> QED BY <1>2, <1>3, <1>4
<1>6. \A i \in 6..Len(m) : m[i] = ForUpdate("team", t)
  <2> HIDE DEF a
  <2> SUFFICES ASSUME NEW i \in 6..Len(m) PROVE m[i] \in T BY DEF T
  <2>1. m[i] = b[i - 5] /\ i - 5 \in 1..Len(b) BY <1>2, <1>3, <1>4
  <2> QED BY <1>2, <2>1
<1>7. Len(m) \in Nat /\ Len(m) >= 5 BY <1>2, <1>3, <1>4
<1>8. m = ChangeRoleLocks(r, t) BY <1>4 DEF ChangeRoleLocks, b
<1> QED BY <1>5, <1>6, <1>7, <1>8

\* ensure_instance locks the definition, then the team's membership, then the user.
LEMMA LaunchShape ==
  ASSUME NEW r
  PROVE  LET m == LaunchLocks(r) IN
         /\ r.arg = "teams" => Len(m) = 4 /\ m[3] = Membership /\ m[4] = ForUpdate("user", r.user)
         /\ r.arg # "teams" => Len(m) = 3 /\ m[3] = ForUpdate("user", r.user)
         /\ m[1] = Configuration /\ m[2] = Definition
<1> DEFINE a == <<Configuration, Definition>>
           b == IF r.arg = "teams" THEN <<Membership>> ELSE <<>>
           c == <<ForUpdate("user", r.user)>>
           S == {Configuration, Definition, Membership, ForUpdate("user", r.user)}
<1>1. Configuration \in S /\ Definition \in S /\ Membership \in S /\ ForUpdate("user", r.user) \in S
  OBVIOUS
<1>2. a \in Seq(S) /\ b \in Seq(S) /\ c \in Seq(S)
  <2> HIDE DEF S
  <2> QED BY <1>1, ShortSequences
<1>3. a \o b \in Seq(S) /\ Len(a \o b) = 2 + Len(b)
      /\ \A i \in 1..(2 + Len(b)) : (a \o b)[i] = IF i <= 2 THEN a[i] ELSE b[i - 2]
  <2>1. Len(a) = 2 OBVIOUS
  <2> HIDE DEF a, b, c, S
  <2>2. a \o b \in Seq(S) /\ Len(a \o b) = Len(a) + Len(b)
        /\ \A i \in 1..(Len(a) + Len(b)) :
              (a \o b)[i] = IF i <= Len(a) THEN a[i] ELSE b[i - Len(a)]
    BY <1>2, Join
  <2> QED BY <2>1, <2>2
<1>4. Len((a \o b) \o c) = Len(a \o b) + Len(c)
      /\ \A i \in 1..(Len(a \o b) + Len(c)) :
            ((a \o b) \o c)[i] = IF i <= Len(a \o b) THEN (a \o b)[i] ELSE c[i - Len(a \o b)]
  <2> HIDE DEF a, b, c, S
  <2>1. a \o b \in Seq(S) /\ c \in Seq(S) BY <1>2, <1>3
  <2> QED BY <2>1, Join
<1>5. Len(c) = 1 /\ c[1] = ForUpdate("user", r.user) OBVIOUS
<1>6. a[1] = Configuration /\ a[2] = Definition OBVIOUS
<1>7. CASE r.arg = "teams"
  <2>1. Len(b) = 1 /\ b[1] = Membership BY <1>7
  <2> HIDE DEF a, b, c, S
  <2> QED BY <2>1, <1>3, <1>4, <1>5, <1>6, <1>7 DEF LaunchLocks, a, b, c
<1>8. CASE r.arg # "teams"
  <2>1. Len(b) = 0 BY <1>8
  <2> HIDE DEF a, b, c, S
  <2> QED BY <2>1, <1>3, <1>4, <1>5, <1>6, <1>8 DEF LaunchLocks, a, b, c
<1> QED BY <1>7, <1>8

MembershipOps == {"create_current", "join_current", "add_member", "remove_member",
                  "current_invite", "update_current", "update_captain", "delete_admin",
                  "delete_current", "move_user", "change_role", "delete_user"}
CapacityOps == {"create", "create_current", "update_state", "delete_admin", "delete_current"}
UserRowOps  == UserOps \ {"compete"}
TeamRowOps  == {"join_current", "add_member", "remove_member", "current_invite",
                "update_current", "delete_admin", "delete_current"}
InTeams(r)  == r.op \in {"compete", "launch"} /\ r.arg = "teams"

\* locks that the handler of r is certain to take
Needed(r) ==
    {IF r.op = "transition" THEN Exclusive("configuration") ELSE Configuration}
    \cup (IF r.op \in MembershipOps \/ InTeams(r) THEN {Membership} ELSE {})
    \cup (IF r.op \in CapacityOps THEN {Capacity} ELSE {})
    \cup (IF r.op \in UserRowOps THEN {ForUpdate("user", r.user)} ELSE {})
    \cup (IF r.op \in TeamRowOps THEN {ForUpdate("team", r.team)} ELSE {})

\* Every handler takes the configuration lock first, and its other locks later.
LEMMA LocksShape ==
  ASSUME NEW r, NEW t, r.op \in Ops
  PROVE  LET m == LocksWith(r, t) IN
         /\ Len(m) \in Nat /\ Len(m) >= 1
         /\ m[1] = IF r.op = "transition" THEN Exclusive("configuration") ELSE Configuration
         /\ Needed(r) \subseteq Taken(m, Len(m))
<1> DEFINE m == LocksWith(r, t)
<1> USE DEF Needed, InTeams, Taken, MembershipOps, CapacityOps, UserRowOps, UserOps, TeamRowOps
<1>1. CASE r.op = "move_user"
  <2>1. m = MoveUserLocks(r, t) BY <1>1 DEF LocksWith
  <2>2. Len(m) \in Nat /\ Len(m) >= 4 /\ m[1] = Configuration /\ m[2] = Membership
        /\ m[4] = ForUpdate("user", r.user)
    BY <2>1, MoveUserShape
  <2>3. m[1] \in Taken(m, Len(m)) /\ m[2] \in Taken(m, Len(m)) /\ m[4] \in Taken(m, Len(m))
    BY <2>2
  <2> HIDE DEF Taken
  <2> QED BY <1>1, <2>2, <2>3
<1>2. CASE r.op = "change_role"
  <2>1. m = ChangeRoleLocks(r, t) BY <1>2 DEF LocksWith
  <2> QED BY <1>2, <2>1, ChangeRoleShape
<1>3. CASE r.op = "launch"
  <2>1. m = LaunchLocks(r) BY <1>3 DEF LocksWith
  <2>2. /\ Len(m) \in Nat /\ Len(m) >= 3 /\ m[1] = Configuration
        /\ r.arg = "teams" => Len(m) = 4 /\ m[3] = Membership /\ m[4] = ForUpdate("user", r.user)
        /\ r.arg # "teams" => Len(m) = 3 /\ m[3] = ForUpdate("user", r.user)
    BY <2>1, LaunchShape
  <2>3. m[1] \in Taken(m, Len(m)) /\ m[3] \in Taken(m, Len(m))
        /\ (r.arg = "teams" => m[4] \in Taken(m, Len(m)))
    BY <2>2
  <2> HIDE DEF Taken
  <2> QED BY <1>3, <2>2, <2>3
<1>4. CASE r.op = "create" \/ r.op = "update_state"
  <2>1. m = <<Configuration, Capacity>> BY <1>4 DEF LocksWith, CreateLocks, UpdateStateLocks
  <2> QED BY <1>4, <2>1
<1>5. CASE r.op = "create_current"
  <2>1. m = <<Configuration, Capacity, Membership, ForUpdate("user", r.user)>>
    BY <1>5 DEF LocksWith, CreateCurrentLocks
  <2> QED BY <1>5, <2>1
<1>6. CASE r.op = "delete_admin"
  <2>1. m = <<Configuration, Capacity, Membership, ForUpdate("team", r.team)>>
    BY <1>6 DEF LocksWith, DeleteAdminLocks
  <2> QED BY <1>6, <2>1
<1>7. CASE r.op = "delete_current"
  <2>1. m = <<Configuration, Capacity, Membership, ForUpdate("user", r.user), ForUpdate("team", r.team)>>
    BY <1>7 DEF LocksWith, DeleteCurrentLocks
  <2> QED BY <1>7, <2>1
<1>8. CASE r.op \in {"join_current", "add_member", "remove_member", "current_invite", "update_current"}
  <2>1. m = <<Configuration, Membership, ForUpdate("user", r.user), ForUpdate("team", r.team)>>
    BY <1>8 DEF LocksWith, JoinLocks, MemberLocks
  <2> QED BY <1>8, <2>1
<1>9. CASE r.op = "update_captain"
  <2>1. m = <<Configuration, Membership>> BY <1>9 DEF LocksWith, UpdateCaptainLocks
  <2> QED BY <1>9, <2>1
<1>10. CASE r.op = "delete_user"
  <2>1. m = <<Configuration, Registration, Membership, Invariant, ForUpdate("user", r.user)>>
    BY <1>10 DEF LocksWith, DeleteUserLocks
  <2> QED BY <1>10, <2>1
<1>11. CASE r.op = "compete"
  <2>1. m = IF r.arg = "teams" THEN <<Configuration, Membership>> ELSE <<Configuration>>
    BY <1>11 DEF LocksWith, CompeteLocks
  <2> QED BY <1>11, <2>1
<1>12. CASE r.op = "transition"
  <2>1. m = <<Exclusive("configuration")>> BY <1>12 DEF LocksWith, TransitionLocks
  <2> QED BY <1>12, <2>1
<1> QED BY <1>1, <1>2, <1>3, <1>4, <1>5, <1>6, <1>7, <1>8, <1>9, <1>10, <1>11, <1>12
        DEF Ops, ParticipantOps, AdminOps

----------------------------------------------------------------------------
(* What a lock keeps from changing *)

\* The fields of a request, for the provers.
LEMMA RequestFields ==
  ASSUME Typed, NEW p \in Requests
  PROVE  /\ IsRequest(req[p]) /\ req[p].taken \in Nat /\ p \in DOMAIN Held
         /\ Held[p] = Taken(Locks(req[p]), req[p].taken)
         /\ req[p].pc = "idle" => req[p].taken = 0 /\ Held[p] = {}
         /\ req[p].pc # "idle" => req[p].op \in Ops /\ WellFormed(req[p])
         /\ req[p].pc \in {"idle", "locking", "writing"}
  BY TakenNone DEF Typed, RequestsTyped, IsRequest, Held

\* A transaction that writes holds every lock its handler needs.
LEMMA WriterHolds ==
  ASSUME Typed, WritersHoldAll, NEW p \in Requests, req[p].pc = "writing"
  PROVE  Needed(req[p]) \subseteq Held[p]
<1>1. req[p].op \in Ops /\ Held[p] = Taken(Locks(req[p]), Len(Locks(req[p])))
  BY RequestFields DEF WritersHoldAll
<1> QED BY <1>1, LocksShape DEF Locks

\* A transaction that has taken a lock holds the configuration lock.
LEMMA FirstIsConfiguration ==
  ASSUME Typed, NEW q \in Requests, req[q].taken > 0
  PROVE  /\ req[q].op = "transition" => Exclusive("configuration") \in Held[q]
         /\ req[q].op # "transition" => Configuration \in Held[q]
<1>1. req[q].op \in Ops /\ req[q].taken \in Nat BY RequestFields
<1>2. Locks(req[q])[1] \in Taken(Locks(req[q]), req[q].taken) BY <1>1 DEF Taken
<1> QED BY <1>1, <1>2, LocksShape, RequestFields DEF Locks

\* Nobody else holds an exclusive lock of p, nor any lock on the same name.
LEMMA HeldAlone ==
  ASSUME ExclusiveLocks, NEW p \in Requests, NEW q \in Requests, p # q,
         NEW l \in Held[p], NEW h \in Held[q], l.lock = h.lock,
         l.mode = "exclusive" \/ h.mode = "exclusive"
  PROVE  FALSE
<1>1. p \in DOMAIN Held /\ q \in DOMAIN Held BY DEF Held
<1>2. Exclusion(Held) BY DEF ExclusiveLocks
<1> HIDE DEF Held
<1>3. CASE l.mode = "exclusive" BY <1>1, <1>2, <1>3, ExclusiveHolder
<1>4. CASE h.mode = "exclusive" BY <1>1, <1>2, <1>4, ExclusiveHolder
<1> QED BY <1>3, <1>4

\* What a writing transaction shuts out of the others.
ShutOut(p, q) ==
    /\ req[p].op \in MembershipOps \/ InTeams(req[p]) => Membership \notin Held[q]
    /\ req[p].op \in CapacityOps => Capacity \notin Held[q]
    /\ req[p].op \in UserRowOps => ForUpdate("user", req[p].user) \notin Held[q]
    /\ req[p].op \in TeamRowOps => ForUpdate("team", req[p].team) \notin Held[q]
    /\ Exclusive("configuration") \notin Held[q]
    /\ req[p].op = "transition" => req[q].taken = 0 /\ Held[q] = {}

\* A handler that writes shuts out whoever would change what it has read.
LEMMA WriterShutsOut ==
  ASSUME IInv, NEW p \in Requests, NEW q \in Requests, p # q, req[p].pc = "writing"
  PROVE  ShutOut(p, q)
<1>1. Typed /\ WritersHoldAll /\ ExclusiveLocks BY DEF IInv
<1>2. Needed(req[p]) \subseteq Held[p] BY <1>1, WriterHolds
<1>3. ASSUME NEW l \in Needed(req[p]), l.mode = "exclusive" PROVE l \notin Held[q]
  BY <1>1, <1>2, <1>3, HeldAlone
<1>4. Exclusive("configuration") \notin Held[q]
  <2>1. PICK l \in Held[p] : l.lock = <<"configuration">>
    BY <1>2 DEF Needed, Configuration, Shared, Exclusive
  <2> QED BY <1>1, <2>1, HeldAlone DEF Exclusive
<1>5. req[p].op = "transition" => req[q].taken = 0 /\ Held[q] = {}
  <2> SUFFICES ASSUME req[p].op = "transition", req[q].taken # 0 PROVE FALSE
    BY <1>1, RequestFields, TakenNone
  <2>1. req[q].taken > 0 BY <1>1, RequestFields
  <2>2. PICK h \in Held[q] : h.lock = <<"configuration">>
    BY <1>1, <2>1, FirstIsConfiguration DEF Configuration, Shared, Exclusive
  <2>3. Exclusive("configuration") \in Held[p] BY <1>2 DEF Needed
  <2> QED BY <1>1, <2>2, <2>3, HeldAlone DEF Exclusive
<1>6. /\ Membership.mode = "exclusive" /\ Capacity.mode = "exclusive"
      /\ \A k, id : ForUpdate(k, id).mode = "exclusive"
  BY DEF Membership, Capacity, Exclusive, ForUpdate
<1> QED BY <1>3, <1>4, <1>5, <1>6 DEF ShutOut, Needed

\* While q holds the membership lock, nobody else moves an account between teams,
\* changes its type, replaces a captain or writes a row of a team.
MembersKept ==
    /\ \A u \in Users : acct'[u].team = acct[u].team /\ acct'[u].kind = acct[u].kind
    /\ \A t \in TeamIds : Live(t) =>
          /\ team'[t].state = "live" /\ team'[t].captain = team[t].captain
          /\ team'[t].password = team[t].password
    /\ \A row \in rows' : row \in rows \/ row.team = None

\* While q holds the capacity lock, nobody else creates, deletes, hides or bans.
TeamsKept ==
    \A t \in TeamIds : /\ team'[t].state = team[t].state /\ team'[t].listed = team[t].listed
                       /\ team'[t].banned = team[t].banned

\* While q holds the row of u, u keeps its type and gets no other instance.
UserKept(u) ==
    acct'[u].kind = acct[u].kind /\ \A x \in running' : x.user = u => x \in running

\* While q holds the row of t, t is neither banned nor allowed again.
BanKept(t) == Live(t) => team'[t].banned = team[t].banned

\* While q holds the configuration lock exclusively, nothing of the competition
\* changes but that instances stop.
AllKept ==
    UNCHANGED <<mode, audit, acct, team, rows, serial>> /\ running' \subseteq running

\* What a step leaves a transaction that does not take part in it.
Undisturbed(q) ==
    /\ req'[q] = req[q]
    /\ req[q].taken > 0 => mode' = mode /\ audit' = audit
    /\ Membership \in Held[q] => MembersKept
    /\ Capacity \in Held[q] => TeamsKept
    /\ \A u \in Users : ForUpdate("user", u) \in Held[q] => UserKept(u)
    /\ \A t \in TeamIds : ForUpdate("team", t) \in Held[q] => BanKept(t)
    /\ Exclusive("configuration") \in Held[q] => AllKept
    /\ \A i \in DOMAIN previews : i \in DOMAIN previews' /\ previews'[i] = previews[i]

\* A step that leaves the data alone disturbs nobody.
LEMMA QuietStep ==
  ASSUME UNCHANGED <<data, previews>>, NEW q \in Requests, req'[q] = req[q]
  PROVE  Undisturbed(q)
  BY DEF data, Undisturbed, MembersKept, TeamsKept, UserKept, BanKept, AllKept, Live

\* Replacing the request of p leaves those of the others.
LEMMA OthersKept ==
  ASSUME Typed, NEW p \in Requests, NEW q \in Requests, p # q, NEW r,
         req' = [req EXCEPT ![p] = r]
  PROVE  req'[q] = req[q]
  BY DEF Typed, RequestsTyped

\* Reading steps, and the end of a transaction, leave the data alone.
LEMMA QuietSteps ==
  ASSUME IInv, NEW p \in Requests, NEW q \in Requests, p # q,
         StartParticipant(p) \/ StartAdmin(p) \/ TakeLock(p) \/ Fail(p) \/ Check(p) \/ IssueInvite(p)
  PROVE  Undisturbed(q)
<1>1. UNCHANGED <<data, previews>>
  BY DEF StartParticipant, StartAdmin, Start, TakeLock, Fail, Check, IssueInvite
<1>2. \E r : req' = [req EXCEPT ![p] = r]
  <2>1. CASE StartParticipant(p) \/ StartAdmin(p)
    <3>1. \E op, user, t, arg : Start(p, op, user, t, arg) BY <2>1 DEF StartParticipant, StartAdmin
    <3> QED BY <3>1 DEF Start
  <2>2. CASE TakeLock(p) BY <2>2 DEF TakeLock
  <2>3. CASE Fail(p) BY <2>3 DEF Fail
  <2>4. CASE Check(p) BY <2>4 DEF Check
  <2>5. CASE IssueInvite(p) BY <2>5 DEF IssueInvite, Done
  <2> QED BY <2>1, <2>2, <2>3, <2>4, <2>5
<1>3. req'[q] = req[q] BY <1>2, OthersKept DEF IInv
<1> QED BY <1>1, <1>3, QuietStep

\* The types of the rows a writing transaction names.
LEMMA WriterTyped ==
  ASSUME IInv, NEW p \in Requests, req[p].pc = "writing"
  PROVE  /\ req[p].op \in Ops /\ WellFormed(req[p]) /\ IsRequest(req[p])
         /\ acct \in [Users -> Account] /\ team \in [TeamIds -> TeamRow]
  BY RequestFields DEF IInv, Typed, TypeOK

\* What a handler has decided, for the operations that need more than its locks.
LEMMA WriterDecided ==
  ASSUME IInv, NEW p \in Requests, req[p].pc = "writing", req[p].op # "compete"
  PROVE  Permitted(req[p])
  BY DEF IInv, DecisionsHold, Decided

\* Transactions that create, hide, ban and delete teams.
LEMMA TeamWritesUndisturb ==
  ASSUME IInv, NEW p \in Requests, NEW q \in Requests, p # q,
         CreateTeam(p) \/ CreateCurrentTeam(p) \/ UpdateState(p) \/ DeleteTeam(p)
  PROVE  Undisturbed(q)
<1> DEFINE r == req[p]
<1>0. r.pc = "writing"
  BY DEF CreateTeam, CreateCurrentTeam, UpdateState, DeleteTeam, Writes
<1>1. ShutOut(p, q) BY <1>0, WriterShutsOut
<1>2. /\ r.op \in Ops /\ WellFormed(r) /\ IsRequest(r)
      /\ acct \in [Users -> Account] /\ team \in [TeamIds -> TeamRow]
  BY <1>0, WriterTyped
<1>3. req'[q] = req[q]
  <2>1. req' = [req EXCEPT ![p] = Idle]
    BY DEF CreateTeam, CreateCurrentTeam, UpdateState, DeleteTeam, Done
  <2> QED BY <2>1, OthersKept DEF IInv
<1>4. CASE CreateTeam(p)
  <2>1. r.op = "create" /\ r.arg \in TeamIds /\ team[r.arg].state = "none"
    BY <1>2, <1>4, <1>0, WriterDecided DEF CreateTeam, Writes, WellFormed, Permitted, MayCreate
  <2>2. Capacity \notin Held[q] /\ Exclusive("configuration") \notin Held[q]
    BY <1>1, <2>1 DEF ShutOut, CapacityOps
  <2>3. \A t \in TeamIds : Live(t) => team'[t] = team[t]
    BY <1>2, <1>4, <2>1 DEF CreateTeam, Live
  <2> QED BY <1>3, <1>4, <2>2, <2>3 DEF CreateTeam, Undisturbed, MembersKept, UserKept, BanKept, Live
<1>5. CASE CreateCurrentTeam(p)
  <2>1. r.op = "create_current" /\ r.arg \in TeamIds /\ r.user \in Users /\ team[r.arg].state = "none"
    BY <1>2, <1>5, <1>0, WriterDecided
       DEF CreateCurrentTeam, Writes, WellFormed, Permitted, MayCreateCurrent, UserOps
  <2>2. /\ Capacity \notin Held[q] /\ Membership \notin Held[q]
        /\ Exclusive("configuration") \notin Held[q]
    BY <1>1, <2>1 DEF ShutOut, CapacityOps, MembershipOps
  <2>3. \A t \in TeamIds : Live(t) => team'[t] = team[t]
    BY <1>2, <1>5, <2>1 DEF CreateCurrentTeam, Live
  <2>4. \A u \in Users : acct'[u].kind = acct[u].kind
    BY <1>2, <1>5, <2>1 DEF CreateCurrentTeam, Assign, Account
  <2> QED BY <1>3, <1>5, <2>2, <2>3, <2>4 DEF CreateCurrentTeam, Undisturbed, UserKept, BanKept, Live
<1>6. CASE UpdateState(p)
  <2>1. r.op = "update_state" /\ r.team \in TeamIds
    BY <1>2, <1>6 DEF UpdateState, Writes, WellFormed, TeamOps
  <2>2. Capacity \notin Held[q] /\ Exclusive("configuration") \notin Held[q]
    BY <1>1, <2>1 DEF ShutOut, CapacityOps
  <2>3. ForUpdate("team", r.team) \notin Held[q]
    <3> SUFFICES ASSUME ForUpdate("team", r.team) \in Held[q] PROVE FALSE OBVIOUS
    <3>1. MayTake(Held, p, NoKeyUpdate("team", r.team))
      BY <1>6, <1>0, <2>1 DEF UpdateState, Writes, Wanted
    <3>2. q \in DOMAIN Held BY DEF Held
    <3>3. /\ NoKeyUpdate("team", r.team).lock = ForUpdate("team", r.team).lock
          /\ ForUpdate("team", r.team).mode = "exclusive"
      BY DEF NoKeyUpdate, ForUpdate
    <3> HIDE DEF Held
    <3> QED BY <3>1, <3>2, <3>3, GrantedIsFree
  <2>4. \A t \in TeamIds : /\ team'[t].state = team[t].state /\ team'[t].captain = team[t].captain
                           /\ team'[t].password = team[t].password
                           /\ t # r.team => team'[t] = team[t]
    BY <1>2, <1>6, <2>1 DEF UpdateState, TeamRow
  <2> QED BY <1>3, <1>6, <2>1, <2>2, <2>3, <2>4
          DEF UpdateState, Undisturbed, MembersKept, UserKept, BanKept, Live
<1>7. CASE DeleteTeam(p)
  <2>1. r.op \in {"delete_admin", "delete_current"} /\ r.team \in TeamIds
    BY <1>2, <1>7 DEF DeleteTeam, Writes, WellFormed, TeamOps
  <2>2. /\ Capacity \notin Held[q] /\ Membership \notin Held[q]
        /\ Exclusive("configuration") \notin Held[q] /\ ForUpdate("team", r.team) \notin Held[q]
    BY <1>1, <2>1 DEF ShutOut, CapacityOps, MembershipOps, TeamRowOps
  <2>3. \A t \in TeamIds : t # r.team => team'[t] = team[t]
    BY <1>2, <1>7, <2>1 DEF DeleteTeam
  <2>4. \A u \in Users : acct'[u].kind = acct[u].kind
    BY <1>2, <1>7 DEF DeleteTeam, Account
  <2> QED BY <1>3, <1>7, <2>2, <2>3, <2>4 DEF DeleteTeam, Undisturbed, UserKept, BanKept, Live
<1> QED BY <1>4, <1>5, <1>6, <1>7

\* Transactions that replace a captain or move an account between teams.
LEMMA MemberWritesUndisturb ==
  ASSUME IInv, NEW p \in Requests, NEW q \in Requests, p # q,
         JoinTeam(p) \/ RemoveMember(p) \/ UpdateCaptain(p) \/ MoveUser(p)
  PROVE  Undisturbed(q)
<1> DEFINE r == req[p]
<1>0. /\ r.pc = "writing"
      /\ r.op \in {"join_current", "add_member", "remove_member", "update_captain",
                   "update_current", "move_user"}
  BY DEF JoinTeam, RemoveMember, UpdateCaptain, MoveUser, Writes
<1>1. ShutOut(p, q) BY <1>0, WriterShutsOut
<1>2. /\ r.op \in Ops /\ WellFormed(r) /\ IsRequest(r)
      /\ acct \in [Users -> Account] /\ team \in [TeamIds -> TeamRow]
  BY <1>0, WriterTyped
<1>3. req'[q] = req[q]
  <2>1. req' = [req EXCEPT ![p] = Idle]
    BY DEF JoinTeam, RemoveMember, UpdateCaptain, MoveUser, Done
  <2> QED BY <2>1, OthersKept DEF IInv
<1>4. Membership \notin Held[q] /\ Exclusive("configuration") \notin Held[q]
  BY <1>0, <1>1 DEF ShutOut, MembershipOps
<1>5. /\ \A t \in TeamIds : /\ team'[t].state = team[t].state /\ team'[t].listed = team[t].listed
                            /\ team'[t].banned = team[t].banned
      /\ \A u \in Users : acct'[u].kind = acct[u].kind
      /\ UNCHANGED <<mode, audit, running, previews>>
  <2>1. CASE JoinTeam(p) BY <1>2, <2>1 DEF JoinTeam, Assign, Account
  <2>2. CASE RemoveMember(p)
    BY <1>2, <2>2 DEF RemoveMember, Assign, Account, WithoutCaptain, TeamRow
  <2>3. CASE UpdateCaptain(p)
    <3>1. PICK w \in {team[r.team].password, 1} :
            team' = [team EXCEPT ![r.team].captain = r.arg, ![r.team].password = w]
      BY <2>3 DEF UpdateCaptain
    <3>2. UNCHANGED <<mode, audit, acct, running, previews>> BY <2>3 DEF UpdateCaptain
    <3>3. \A t \in TeamIds : /\ team'[t].state = team[t].state
                            /\ team'[t].listed = team[t].listed
                            /\ team'[t].banned = team[t].banned
      <4> HIDE DEF r
      <4> QED BY <1>2, <3>1 DEF TeamRow
    <3> QED BY <3>2, <3>3
  <2>4. CASE MoveUser(p)
    BY <1>2, <2>4 DEF MoveUser, Assign, Account, WithoutCaptain, TeamRow
  <2> QED BY <2>1, <2>2, <2>3, <2>4
<1> QED BY <1>3, <1>4, <1>5 DEF Undisturbed, TeamsKept, UserKept, BanKept

\* Transactions that change the type of an account.
LEMMA AccountWritesUndisturb ==
  ASSUME IInv, NEW p \in Requests, NEW q \in Requests, p # q, ChangeRole(p) \/ DeleteUser(p)
  PROVE  Undisturbed(q)
<1> DEFINE r == req[p]
<1>0. r.pc = "writing" /\ r.op \in {"change_role", "delete_user"}
  BY DEF ChangeRole, DeleteUser, Writes
<1>1. ShutOut(p, q) BY <1>0, WriterShutsOut
<1>2. /\ r.op \in Ops /\ WellFormed(r) /\ IsRequest(r)
      /\ acct \in [Users -> Account] /\ team \in [TeamIds -> TeamRow]
  BY <1>0, WriterTyped
<1>3. req'[q] = req[q]
  <2>1. req' = [req EXCEPT ![p] = Idle] BY DEF ChangeRole, DeleteUser, Done
  <2> QED BY <2>1, OthersKept DEF IInv
<1>4. /\ Membership \notin Held[q] /\ Exclusive("configuration") \notin Held[q]
      /\ ForUpdate("user", r.user) \notin Held[q]
  BY <1>0, <1>1 DEF ShutOut, MembershipOps, UserRowOps, UserOps
<1>5. /\ \A t \in TeamIds : /\ team'[t].state = team[t].state /\ team'[t].listed = team[t].listed
                            /\ team'[t].banned = team[t].banned
      /\ \A u \in Users : u # r.user => acct'[u].kind = acct[u].kind
      /\ UNCHANGED <<mode, audit, running, previews>>
  <2>1. CASE ChangeRole(p)
    BY <1>2, <2>1 DEF ChangeRole, Account, WithoutCaptain, TeamRow
  <2>2. CASE DeleteUser(p)
    BY <1>2, <2>2 DEF DeleteUser, Account, WithoutCaptain, TeamRow
  <2> QED BY <2>1, <2>2
<1> QED BY <1>3, <1>4, <1>5 DEF Undisturbed, TeamsKept, UserKept, BanKept

\* Transactions that write competition data, and the one that throws it away.
LEMMA CompetitionWritesUndisturb ==
  ASSUME IInv, NEW p \in Requests, NEW q \in Requests, p # q,
         Compete(p) \/ Launch(p) \/ Transition(p)
  PROVE  Undisturbed(q)
<1> DEFINE r == req[p]
<1>0. r.pc = "writing" /\ r.op \in {"compete", "launch", "transition"}
  BY DEF Compete, Launch, Transition, Writes
<1>1. ShutOut(p, q) BY <1>0, WriterShutsOut
<1>2. req'[q] = req[q]
  <2>1. req' = [req EXCEPT ![p] = Idle] BY DEF Compete, Launch, Transition, Done
  <2> QED BY <2>1, OthersKept DEF IInv
<1>3. CASE Compete(p)
  <2>1. r.op = "compete" /\ (r.arg = "teams" => Membership \notin Held[q])
        /\ Exclusive("configuration") \notin Held[q]
    BY <1>1, <1>3 DEF Compete, Writes, ShutOut, InTeams
  <2>2. r.arg # "teams" => r.team = None
    BY <1>0, <2>1 DEF IInv, DecisionsHold, Decided
  <2>3. \A row \in rows' : row \in rows \/ row.team = r.team
    BY <1>3 DEF Compete
  <2> QED BY <1>2, <1>3, <2>1, <2>2, <2>3
          DEF Compete, Undisturbed, MembersKept, TeamsKept, UserKept, BanKept, Live
<1>4. CASE Launch(p)
  <2>1. r.op = "launch" /\ ForUpdate("user", r.user) \notin Held[q]
        /\ Exclusive("configuration") \notin Held[q]
    BY <1>1, <1>4 DEF Launch, Writes, ShutOut, UserRowOps, UserOps
  <2> QED BY <1>2, <1>4, <2>1
          DEF Launch, Undisturbed, MembersKept, TeamsKept, UserKept, BanKept, Live
<1>5. CASE Transition(p)
  <2>1. req[q].taken = 0 /\ Held[q] = {} BY <1>1, <1>5 DEF Transition, Writes, ShutOut
  <2>2. previews' = previews BY <1>5 DEF Transition
  <2> QED BY <1>2, <2>1, <2>2 DEF Undisturbed
<1> QED BY <1>3, <1>4, <1>5

\* No step of one transaction disturbs another one.
LEMMA StepUndisturbs ==
  ASSUME IInv, NEW p \in Requests, Step(p), NEW q \in Requests, p # q
  PROVE  Undisturbed(q)
  BY QuietSteps, TeamWritesUndisturb, MemberWritesUndisturb, AccountWritesUndisturb,
     CompetitionWritesUndisturb DEF Step

\* Logins and the ends of instances wait for a transition under way; reading an
\* invite or taking a preview changes nothing.
LEMMA SurroundingsUndisturb ==
  ASSUME IInv, (\E u \in Users : Login(u)) \/ AdminInvite \/ Preview \/ RuntimeStops,
         NEW q \in Requests
  PROVE  Undisturbed(q)
<1>1. ConfigurationFree => Exclusive("configuration") \notin Held[q]
  <2> SUFFICES ASSUME ConfigurationFree, Exclusive("configuration") \in Held[q] PROVE FALSE
    OBVIOUS
  <2>1. q \in DOMAIN Held /\ q # None BY TeamsAssumption DEF Held
  <2>2. MayTake(Held, None, Configuration) BY DEF ConfigurationFree
  <2>3. Exclusive("configuration").lock = Configuration.lock
        /\ Exclusive("configuration").mode = "exclusive"
    BY DEF Exclusive, Configuration, Shared
  <2> HIDE DEF Held
  <2> QED BY <2>1, <2>2, <2>3, GrantedIsFree
<1>2. CASE \E u \in Users : Login(u)
  <2>1. PICK u \in Users : Login(u) BY <1>2
  <2>2. acct \in [Users -> Account] BY DEF IInv, Typed, TypeOK
  <2>3. \A w \in Users : acct'[w].team = acct[w].team /\ acct'[w].kind = acct[w].kind
    BY <2>1, <2>2 DEF Login, Account
  <2> QED BY <1>1, <2>1, <2>3
          DEF Login, Undisturbed, MembersKept, TeamsKept, UserKept, BanKept, Live
<1>3. CASE AdminInvite BY <1>3, QuietStep DEF AdminInvite, data
<1>4. CASE Preview
  <2>1. previews \in Seq(PreviewRow) /\ previews' = Append(previews, Snapshot)
    BY <1>4 DEF Preview, IInv, Typed
  <2>2. \A i \in DOMAIN previews : i \in DOMAIN previews' /\ previews'[i] = previews[i]
    <3> HIDE DEF Snapshot
    <3> QED BY <2>1
  <2> QED BY <1>4, <2>2
          DEF Preview, data, Undisturbed, MembersKept, TeamsKept, UserKept, BanKept, AllKept, Live
<1>5. CASE RuntimeStops
  BY <1>1, <1>5 DEF RuntimeStops, Undisturbed, MembersKept, TeamsKept, UserKept, BanKept, Live
<1> QED BY <1>2, <1>3, <1>4, <1>5

----------------------------------------------------------------------------
(* What a transaction that does not take part in a step keeps *)

\* Only a move and a change of role lock the row of the team the account has.
LEMMA LocksWithoutTeam ==
  ASSUME NEW r, NEW t, NEW w, r.op \notin {"move_user", "change_role"}
  PROVE  LocksWith(r, t) = LocksWith(r, w)
  BY DEF LocksWith

\* The locks a transaction holds stay its locks: before it has the membership lock
\* they do not depend on the account, and under that lock the account keeps its
\* team.
LEMMA HeldKept ==
  ASSUME Typed, NEW q \in Requests, Undisturbed(q)
  PROVE  /\ Held'[q] = Held[q] /\ req'[q].taken <= Len(Locks(req[q]))'
         /\ req[q].taken = Len(Locks(req[q])) /\ Membership \in Held[q]
              => req'[q].taken = Len(Locks(req[q]))'
         /\ req[q].taken = Len(Locks(req[q])) /\ req[q].op \notin {"move_user", "change_role"}
              => req'[q].taken = Len(Locks(req[q]))'
<1>1. PICK r : r = req[q] OBVIOUS
<1> DEFINE n == r.taken
           t == acct[r.user].team
           w == acct'[r.user].team
           m == LocksWith(r, t)
           o == LocksWith(r, w)
<1>2. /\ req'[q] = r /\ Held[q] = Taken(m, n) /\ n \in Nat /\ n <= Len(m)
      /\ Held'[q] = Taken(o, n) /\ Locks(req[q]) = m /\ Locks(req[q])' = o
      /\ r.pc = "idle" => n = 0
      /\ r.pc # "idle" /\ r.op \in UserOps => r.user \in Users
  <2>1. req'[q] = r BY <1>1 DEF Undisturbed
  <2>2. /\ Held[q] = Taken(Locks(req[q]), req[q].taken) /\ req[q].taken \in Nat
        /\ req[q].pc = "idle" => req[q].taken = 0
        /\ req[q].pc # "idle" => WellFormed(req[q])
        /\ req[q].taken <= Len(Locks(req[q]))
    BY RequestFields DEF Typed, TypeOK
  <2>3. Locks(req[q]) = m BY <1>1 DEF Locks
  <2>4. Locks(req[q])' = o BY <2>1 DEF Locks
  <2>5. Held'[q] = Taken(o, n)
    <3>1. Held'[q] = Taken(LocksWith(req'[q], acct'[req'[q].user].team), req'[q].taken)
      BY DEF Held, Locks
    <3> QED BY <2>1, <3>1
  <2> QED BY <1>1, <2>1, <2>2, <2>3, <2>4, <2>5 DEF WellFormed
<1>3. CASE o = m BY <1>1, <1>2, <1>3
<1>4. CASE o # m
  <2>1. r.op \in {"move_user", "change_role"} /\ t # w BY <1>4, LocksWithoutTeam
  <2>2. Membership \notin Held[q]
    <3>1. n = 0 => Membership \notin Held[q] BY <1>2, TakenNone
    <3>2. n # 0 => r.user \in Users BY <1>2, <2>1 DEF UserOps
    <3> QED BY <2>1, <3>1, <3>2 DEF Undisturbed, MembersKept
  <2>3. \E k \in 2..3 : /\ m[k] = Membership /\ \A i \in 1..(k - 1) : m[i] = o[i]
                        /\ Len(m) \in Nat /\ Len(m) > k /\ Len(o) \in Nat /\ Len(o) > k
    <3>1. CASE r.op = "move_user"
      <4>1. m = MoveUserLocks(r, t) /\ o = MoveUserLocks(r, w) BY <3>1 DEF LocksWith
      <4> HIDE DEF t, w, m, o
      <4> QED BY <4>1, MoveUserShape
    <3>2. CASE r.op = "change_role"
      <4>1. m = ChangeRoleLocks(r, t) /\ o = ChangeRoleLocks(r, w) BY <3>2 DEF LocksWith
      <4> HIDE DEF t, w, m, o
      <4> QED BY <4>1, ChangeRoleShape
    <3> QED BY <2>1, <3>1, <3>2
  <2> HIDE DEF m, o
  <2>4. PICK k \in 2..3 : /\ m[k] = Membership /\ \A i \in 1..(k - 1) : m[i] = o[i]
                         /\ Len(m) \in Nat /\ Len(m) > k /\ Len(o) \in Nat /\ Len(o) > k
    BY <2>3
  <2>5. n < k
    <3> SUFFICES ASSUME n >= k PROVE FALSE BY <1>2, <2>4
    <3>1. m[k] \in Taken(m, n) BY <1>2, <2>4 DEF Taken
    <3> QED BY <3>1, <1>2, <2>2, <2>4
  <2>6. Taken(m, n) = Taken(o, n) BY <1>2, <2>4, <2>5 DEF Taken
  <2> QED BY <1>1, <1>2, <2>1, <2>2, <2>4, <2>5, <2>6
<1> QED BY <1>3, <1>4

\* The same for its fields: nothing it names goes away.
LEMMA BystanderTyped ==
  ASSUME Typed, NEW q \in Requests, Undisturbed(q)
  PROVE  /\ IsRequest(req'[q]) /\ (req'[q].pc = "idle" => req'[q].taken = 0)
         /\ req'[q].pc # "idle" => req'[q].op \in Ops /\ WellFormed(req[q])'
  BY RequestFields DEF Undisturbed, WellFormed

\* What a handler checked under its locks stays true whatever the others do: the
\* check before the write (join_current and the other handlers) is not outrun.
LEMMA BystanderDecided ==
  ASSUME IInv, NEW q \in Requests, Undisturbed(q), req[q].pc = "writing"
  PROVE  Decided(req[q])'
<1> DEFINE r == req[q]
<1>1. Decided(r) /\ req'[q] = r BY DEF IInv, DecisionsHold, Undisturbed
<1>2. Needed(r) \subseteq Held[q] BY WriterHolds DEF IInv
<1>3. r.op \in Ops /\ WellFormed(r) /\ r.taken > 0
  <2>1. r.op \in Ops /\ WellFormed(r) BY WriterTyped
  <2>2. Len(Locks(r)) >= 1 BY <2>1, LocksShape DEF Locks
  <2> QED BY <2>1, <2>2 DEF IInv, WritersHoldAll
<1>4. mode' = mode BY <1>3 DEF Undisturbed
<1>5. r.op \in MembershipOps \/ InTeams(r) => MembersKept BY <1>2 DEF Needed, Undisturbed
<1>6. r.op \in CapacityOps => TeamsKept BY <1>2 DEF Needed, Undisturbed
<1>7. r.op \in UserRowOps => UserKept(r.user)
  BY <1>2, <1>3 DEF Needed, Undisturbed, WellFormed, UserRowOps
<1>8. r.op \in TeamRowOps => BanKept(r.team)
  BY <1>2, <1>3 DEF Needed, Undisturbed, WellFormed, TeamRowOps, TeamOps
<1>9. r.op = "transition" => AllKept /\ previews'[r.arg] = previews[r.arg]
  BY <1>2, <1>3 DEF Needed, Undisturbed, WellFormed
<1> USE <1>1, <1>3, <1>4 DEF Decided, WellFormed, MembershipOps, UserOps, TeamOps
<1>10. CASE r.op = "create" BY <1>6, <1>10 DEF Permitted, MayCreate, TeamsKept, CapacityOps
<1>11. CASE r.op = "create_current"
  <2>1. ActiveTeams' = ActiveTeams BY <1>6, <1>11 DEF ActiveTeams, Live, TeamsKept, CapacityOps
  <2> QED BY <1>5, <1>6, <1>11, <2>1
          DEF Permitted, MayCreateCurrent, Participant, MembersKept, TeamsKept, CapacityOps
<1>12. CASE r.op = "join_current"
  <2>1. Members(r.team)' = Members(r.team) BY <1>5, <1>12 DEF Members, MembersKept
  <2> QED BY <1>5, <1>8, <1>12, <2>1
          DEF Permitted, MayJoin, Participant, Live, MembersKept, BanKept, TeamRowOps
<1>13. CASE r.op = "add_member"
  BY <1>5, <1>13 DEF Permitted, MayAddMember, Participant, Live, MembersKept
<1>14. CASE r.op = "remove_member"
  BY <1>5, <1>14 DEF Permitted, MayRemoveMember, Live, MembersKept
<1>15. CASE r.op = "current_invite"
  BY <1>5, <1>15 DEF Permitted, IsCaptain, Participant, Live, MembersKept
<1>16. CASE r.op = "update_current"
  BY <1>5, <1>16 DEF Permitted, IsCaptain, MayBeCaptain, Participant, Live, MembersKept
<1>17. CASE r.op = "update_captain"
  BY <1>5, <1>17 DEF Permitted, MayBeCaptain, MembersKept
<1>18. CASE r.op = "update_state" BY <1>18 DEF Permitted
<1>19. CASE r.op = "delete_admin" BY <1>6, <1>19 DEF Permitted, Live, TeamsKept, CapacityOps
<1>20. CASE r.op = "delete_current"
  BY <1>5, <1>20, TeamsAssumption
     DEF Permitted, MayDisband, IsCaptain, Participant, Live, MembersKept
<1>21. CASE r.op = "move_user"
  <2>1. r.team \in TeamIds \cup {None} BY WriterTyped DEF IsRequest
  <2> QED BY <1>5, <1>21, <2>1 DEF Permitted, MayMoveUser, Participant, Live, MembersKept
<1>22. CASE r.op = "change_role" BY <1>5, <1>22 DEF Permitted, MembersKept
<1>23. CASE r.op = "compete" BY <1>5, <1>23 DEF MayCompete, MembersKept, InTeams
<1>24. CASE r.op = "launch"
  BY <1>5, <1>7, <1>24 DEF Permitted, MayLaunch, MembersKept, InTeams, UserKept, UserRowOps
<1>25. CASE r.op = "delete_user" BY <1>25 DEF Permitted
<1>26. CASE r.op = "transition"
  <2>1. Snapshot' = Snapshot BY <1>9, <1>26 DEF Snapshot, AllKept, Live
  <2> HIDE DEF Snapshot
  <2> QED BY <1>9, <1>26, <2>1 DEF Permitted, MayTransition, AllKept
<1> QED BY <1>10, <1>11, <1>12, <1>13, <1>14, <1>15, <1>16, <1>17, <1>18, <1>19, <1>20, <1>21,
           <1>22, <1>23, <1>24, <1>25, <1>26 DEF Ops, ParticipantOps, AdminOps

----------------------------------------------------------------------------
(* The transaction that makes a step *)

\* A transaction that ends holds nothing (COMMIT and ROLLBACK).
LEMMA Ended ==
  ASSUME Typed, NEW p \in Requests, Done(p)
  PROVE  /\ req'[p] = Idle /\ Held'[p] = {} /\ IsRequest(Idle) /\ Idle.taken = 0
         /\ Len(Locks(req[p]))' \in Nat
<1>1. req'[p] = Idle BY DEF Done, Typed, RequestsTyped
<1>2. Held'[p] = {} /\ IsRequest(Idle) /\ Idle.taken = 0
  BY <1>1, TakenNone DEF Held, Idle, IsRequest
<1>3. Len(Locks(req[p]))' \in Nat
  <2>1. PICK r : r = req'[p] OBVIOUS
  <2>2. PICK t : t = acct'[r.user].team OBVIOUS
  <2>3. Len(LocksWith(r, t)) \in Nat
    <3>1. CASE r.op \in Ops BY <3>1, LocksShape
    <3>2. CASE r.op \notin Ops BY <3>2 DEF LocksWith, Ops, ParticipantOps, AdminOps
    <3> QED BY <3>1, <3>2
  <2> QED BY <2>1, <2>2, <2>3 DEF Locks
<1> QED BY <1>1, <1>2, <1>3

\* One more lock is one that nobody else has in a conflicting mode.
LEMMA LockTaken ==
  ASSUME IInv, NEW p \in Requests, TakeLock(p), req'[p] # Idle
  PROVE  LET r == req[p] IN
         /\ r.pc = "locking" /\ r.op \in Ops /\ WellFormed(r)
         /\ req'[p] = [r EXCEPT !.taken = r.taken + 1,
                                !.arg = IF r.op \in {"compete", "launch"} /\ r.taken = 0
                                        THEN mode ELSE r.arg]
         /\ Held'[p] = Held[p] \cup {Locks(r)[r.taken + 1]}
         /\ MayTake(Held, p, Locks(r)[r.taken + 1])
         /\ Len(Locks(r))' \in Nat /\ req'[p].taken <= Len(Locks(r))'
<1>1. PICK r : r = req[p] OBVIOUS
<1>2. PICK s : s = req'[p] OBVIOUS
<1>3. PICK t : t = acct[r.user].team OBVIOUS
<1>4. /\ IsRequest(r) /\ r.pc = "locking" /\ r.op \in Ops /\ WellFormed(r)
      /\ Held[p] = Taken(LocksWith(r, t), r.taken) /\ r.taken < Len(Locks(r))
  BY <1>1, <1>3, RequestFields DEF TakeLock, IInv, Locks
<1>5. s = [r EXCEPT !.taken = r.taken + 1,
                    !.arg = IF r.op \in {"compete", "launch"} /\ r.taken = 0 THEN mode ELSE r.arg]
  <2>1. req = [x \in Requests |-> req[x]] BY DEF IInv, Typed, RequestsTyped
  <2> HIDE DEF Idle
  <2> QED BY <1>1, <1>2, <2>1 DEF TakeLock
<1>6. /\ s.op = r.op /\ s.user = r.user /\ s.team = r.team /\ s.taken = r.taken + 1
      /\ s.arg = IF r.op \in {"compete", "launch"} /\ r.taken = 0 THEN mode ELSE r.arg
  BY <1>4, <1>5 DEF IsRequest
<1>7. UNCHANGED acct BY DEF TakeLock, data
<1>8. Held'[p] = Taken(LocksWith(s, t), r.taken + 1) /\ Locks(req[p])' = LocksWith(s, t)
  BY <1>1, <1>2, <1>3, <1>6, <1>7 DEF Held, Locks
<1>9. r.taken \in Nat /\ Len(LocksWith(s, t)) \in Nat
  BY <1>4, <1>6, LocksShape DEF IsRequest
<1>10. /\ Taken(LocksWith(s, t), r.taken) = Taken(LocksWith(r, t), r.taken)
       /\ LocksWith(s, t)[r.taken + 1] = LocksWith(r, t)[r.taken + 1]
       /\ r.taken + 1 <= Len(LocksWith(s, t))
  <2>1. CASE s.arg = r.arg
    <3>1. LocksWith(s, t) = LocksWith(r, t)
      BY <1>6, <2>1 DEF LocksWith, CreateLocks, CreateCurrentLocks, JoinLocks, MemberLocks,
         UpdateCaptainLocks, UpdateStateLocks, DeleteAdminLocks, DeleteCurrentLocks, CompeteLocks,
         LaunchLocks, MoveUserLocks, ChangeRoleLocks, DeleteUserLocks, TransitionLocks
    <3> QED BY <1>1, <1>3, <1>4, <1>9, <3>1 DEF Locks
  <2>2. CASE s.arg # r.arg
    <3>1. r.taken = 0 BY <1>6, <2>2
    <3>2. LocksWith(s, t)[1] = LocksWith(r, t)[1] /\ Len(LocksWith(s, t)) >= 1
      BY <1>4, <1>6, LocksShape
    <3>3. r.taken + 1 = 1 BY <3>1
    <3>4. Taken(LocksWith(s, t), 0) = {} /\ Taken(LocksWith(r, t), 0) = {} BY TakenNone
    <3> QED BY <3>1, <3>2, <3>3, <3>4
  <2> QED BY <2>1, <2>2
<1>11. Taken(LocksWith(s, t), r.taken + 1)
       = Taken(LocksWith(s, t), r.taken) \cup {LocksWith(s, t)[r.taken + 1]}
  BY <1>9, TakenNext
<1>12. MayTake(Held, p, Locks(req[p])[req[p].taken + 1]) BY DEF TakeLock
<1>13. Locks(req[p]) = LocksWith(r, t) BY <1>1, <1>3 DEF Locks
<1> QED BY <1>1, <1>2, <1>4, <1>5, <1>6, <1>8, <1>9, <1>10, <1>11, <1>12, <1>13

\* A handler that passes its checks keeps its locks and writes.
LEMMA Checked ==
  ASSUME IInv, NEW p \in Requests, Check(p), req'[p] # Idle
  PROVE  LET r == req[p] IN
         /\ r.op \in Ops /\ WellFormed(r) /\ r.taken > 0 /\ r.pc = "locking"
         /\ Permitted(r) /\ UNCHANGED <<data, previews>>
         /\ req'[p] = [r EXCEPT !.pc = "writing",
                                !.team = IF r.op = "compete" /\ r.arg = "teams"
                                         THEN acct[r.user].team ELSE r.team]
         /\ Held'[p] = Held[p] /\ r.taken = Len(Locks(r))
         /\ req'[p].taken = Len(Locks(r))'
<1>1. PICK r : r = req[p] OBVIOUS
<1>2. PICK s : s = req'[p] OBVIOUS
<1>3. PICK t : t = acct[r.user].team OBVIOUS
<1>4. /\ IsRequest(r) /\ r.pc = "locking" /\ r.op \in Ops /\ WellFormed(r)
      /\ Held[p] = Taken(LocksWith(r, t), r.taken) /\ r.taken = Len(LocksWith(r, t))
      /\ UNCHANGED <<data, previews>>
  BY <1>1, <1>3, RequestFields DEF Check, IInv, Locks
<1>5. Permitted(req[p])
      /\ s = [r EXCEPT !.pc = "writing",
                       !.team = IF r.op = "compete" /\ r.arg = "teams"
                                THEN acct[r.user].team ELSE r.team]
  <2>1. req = [x \in Requests |-> req[x]] BY DEF IInv, Typed, RequestsTyped
  <2> HIDE DEF Idle
  <2> QED BY <1>1, <1>2, <2>1 DEF Check
<1>6. /\ s.op = r.op /\ s.user = r.user /\ s.taken = r.taken /\ s.arg = r.arg
      /\ s.team # r.team => r.op = "compete"
  BY <1>4, <1>5 DEF IsRequest
<1>7. UNCHANGED acct BY <1>4 DEF data
<1>8. Held'[p] = Taken(LocksWith(s, t), r.taken) /\ Locks(req[p])' = LocksWith(s, t)
  BY <1>1, <1>2, <1>3, <1>6, <1>7 DEF Held, Locks
<1>9. LocksWith(s, t) = LocksWith(r, t)
  <2>1. CASE s.team = r.team
    BY <1>6, <2>1 DEF LocksWith, CreateLocks, CreateCurrentLocks, JoinLocks, MemberLocks,
       UpdateCaptainLocks, UpdateStateLocks, DeleteAdminLocks, DeleteCurrentLocks, CompeteLocks,
       LaunchLocks, MoveUserLocks, ChangeRoleLocks, DeleteUserLocks, TransitionLocks
  <2>2. CASE s.team # r.team
    BY <1>6, <2>2 DEF LocksWith, CompeteLocks
  <2> QED BY <2>1, <2>2
<1>10. Len(LocksWith(r, t)) \in Nat /\ Len(LocksWith(r, t)) >= 1 BY <1>4, LocksShape
<1>11. Locks(req[p]) = LocksWith(r, t) BY <1>1, <1>3 DEF Locks
<1> QED BY <1>1, <1>2, <1>4, <1>5, <1>6, <1>8, <1>9, <1>10, <1>11

\* A request starts with the account and the team its handler needs.
LEMMA Started ==
  ASSUME IInv, NEW p \in Requests, StartParticipant(p) \/ StartAdmin(p)
  PROVE  /\ UNCHANGED <<data, invites, previews, spent>> /\ started' \in Nat
         /\ IsRequest(req'[p]) /\ req'[p].pc = "locking" /\ req'[p].taken = 0
         /\ req'[p].op \in Ops /\ WellFormed(req[p])' /\ req'[p].born = audit
         /\ Held'[p] = {} /\ Len(Locks(req[p]))' \in Nat
         /\ req'[p].op = "compete" => req'[p].team = None
         /\ req'[p].op \in ParticipantOps =>
              /\ acct[req'[p].user].kind = "user" /\ acct[req'[p].user].session > 0
              /\ req'[p].session = acct[req'[p].user].session
<1> DEFINE Fits(op, user, t, arg) ==
           /\ op \in Ops
           /\ user \in Users \cup {None} /\ t \in TeamIds \cup {None}
           /\ op \in UserOps => user \in Users
           /\ op \in TeamOps => t \in TeamIds
           /\ op \in {"create", "create_current"} => arg \in TeamIds
           /\ op \in {"update_current", "update_captain"} => arg \in Users \cup {None}
           /\ op = "update_state" => arg \in BOOLEAN \X BOOLEAN
           /\ op = "change_role" => arg \in {"user", "admin"}
           /\ op = "transition" => arg \in DOMAIN previews
           /\ op = "compete" => t = None
           /\ op \in ParticipantOps => acct[user].kind = "user" /\ acct[user].session > 0
<1>1. \E op, user, t, arg : Start(p, op, user, t, arg) /\ Fits(op, user, t, arg)
  <2>1. acct \in [Users -> Account] /\ invites \subseteq [team : TeamIds, password : Nat]
    BY DEF IInv, Typed, TypeOK
  <2> USE DEF Ops, UserOps, TeamOps
  <2>2. CASE StartParticipant(p)
    <3>1. PICK u \in Users : Authenticated(u) /\
        \/ \E t \in TeamIds : Start(p, "create_current", u, None, t)
        \/ \E code \in invites : Start(p, "join_current", u, code.team, code)
        \/ /\ acct[u].team # None
           /\ \/ Start(p, "current_invite", u, acct[u].team, None)
              \/ Start(p, "delete_current", u, acct[u].team, None)
              \/ \E c \in Users \cup {None} : Start(p, "update_current", u, acct[u].team, c)
        \/ Start(p, "compete", u, None, None)
        \/ Start(p, "launch", u, None, None)
      BY <2>2 DEF StartParticipant
    <3>2. acct[u].kind = "user" /\ acct[u].session > 0 BY <3>1 DEF Authenticated
    <3>3. acct[u].team \in TeamIds \cup {None} BY <2>1 DEF Account
    <3>4. CASE \E t \in TeamIds : Start(p, "create_current", u, None, t) BY <3>2, <3>4 DEF ParticipantOps
    <3>5. CASE \E code \in invites : Start(p, "join_current", u, code.team, code)
      <4>1. PICK code \in invites : Start(p, "join_current", u, code.team, code) BY <3>5
      <4>2. code.team \in TeamIds BY <2>1
      <4> QED BY <3>2, <4>1, <4>2 DEF ParticipantOps
    <3>6. CASE acct[u].team # None /\ Start(p, "current_invite", u, acct[u].team, None)
      BY <3>2, <3>3, <3>6 DEF ParticipantOps
    <3>7. CASE acct[u].team # None /\ Start(p, "delete_current", u, acct[u].team, None)
      BY <3>2, <3>3, <3>7 DEF ParticipantOps
    <3>8. CASE acct[u].team # None
               /\ \E c \in Users \cup {None} : Start(p, "update_current", u, acct[u].team, c)
      BY <3>2, <3>3, <3>8 DEF ParticipantOps
    <3>9. CASE Start(p, "compete", u, None, None) \/ Start(p, "launch", u, None, None)
      BY <3>2, <3>9 DEF ParticipantOps
    <3> QED BY <3>1, <3>4, <3>5, <3>6, <3>7, <3>8, <3>9
  <2>3. CASE StartAdmin(p)
    <3>1. CASE \E t \in TeamIds : Start(p, "create", None, None, t) \/ Start(p, "delete_admin", None, t, None)
      BY <3>1 DEF ParticipantOps, AdminOps
    <3>2. CASE \E t \in TeamIds, u \in Users :
                 \E op \in {"add_member", "remove_member"} : Start(p, op, u, t, None)
      BY <3>2 DEF ParticipantOps, AdminOps
    <3>3. CASE \E t \in TeamIds, c \in Users \cup {None} : Start(p, "update_captain", None, t, c)
      BY <3>3 DEF ParticipantOps, AdminOps
    <3>4. CASE \E t \in TeamIds, listed, banned \in BOOLEAN :
                 Start(p, "update_state", None, t, <<listed, banned>>)
      BY <3>4 DEF ParticipantOps, AdminOps
    <3>5. CASE \E u \in Users, t \in TeamIds \cup {None} : Start(p, "move_user", u, t, None)
      BY <3>5 DEF ParticipantOps, AdminOps
    <3>6. CASE \E u \in Users : \/ \E k \in {"user", "admin"} : Start(p, "change_role", u, None, k)
                               \/ Start(p, "delete_user", u, None, None)
      BY <3>6 DEF ParticipantOps, AdminOps
    <3>7. CASE \E i \in DOMAIN previews : Start(p, "transition", None, None, i)
      BY <3>7 DEF ParticipantOps, AdminOps
    <3> HIDE DEF Fits
    <3> QED BY <2>3, <3>1, <3>2, <3>3, <3>4, <3>5, <3>6, <3>7 DEF StartAdmin
  <2> QED BY <2>2, <2>3
<1>2. PICK op, user, t, arg : Start(p, op, user, t, arg) /\ Fits(op, user, t, arg)
  BY <1>1
<1>3. UNCHANGED <<data, invites, previews, spent>> /\ started' \in Nat
  BY <1>2 DEF Start, IInv, Typed
<1>4. req'[p] = [pc |-> "locking", op |-> op, user |-> user, team |-> t, arg |-> arg,
                 session |-> IF op \in ParticipantOps THEN acct[user].session ELSE 0,
                 taken |-> 0, born |-> audit]
  BY <1>2 DEF Start, IInv, Typed, RequestsTyped
<1>5. op \in ParticipantOps => acct[user].session \in Nat /\ user \in Users
  <2>1. ParticipantOps \subseteq UserOps BY DEF ParticipantOps, UserOps
  <2> QED BY <1>2, <2>1 DEF IInv, Typed, TypeOK, Account
<1>6. audit \in Nat BY DEF IInv, Typed, TypeOK
<1>7. IsRequest(req'[p]) BY <1>2, <1>4, <1>5, <1>6 DEF IsRequest
<1>8. WellFormed(req[p])' BY <1>2, <1>3, <1>4 DEF WellFormed
<1>9. Held'[p] = {} BY <1>4, TakenNone DEF Held
<1>10. Len(Locks(req[p]))' \in Nat
  <2>1. PICK r : r = req'[p] OBVIOUS
  <2>2. PICK w : w = acct'[r.user].team OBVIOUS
  <2>3. r.op \in Ops BY <1>2, <1>4, <2>1
  <2> QED BY <2>1, <2>2, <2>3, LocksShape DEF Locks
<1> QED BY <1>2, <1>3, <1>4, <1>5, <1>7, <1>8, <1>9, <1>10

\* What the invariant says of one transaction.
RequestOK(q) ==
    /\ IsRequest(req[q]) /\ (req[q].pc = "idle" => req[q].taken = 0)
    /\ req[q].pc # "idle" => req[q].op \in Ops /\ WellFormed(req[q])
    /\ req[q].taken <= Len(Locks(req[q]))
    /\ req[q].pc = "writing" => req[q].taken = Len(Locks(req[q])) /\ Decided(req[q])

\* The transactions that did not move are as before.
LEMMA BystanderOK ==
  ASSUME IInv, NEW q \in Requests, Undisturbed(q)
  PROVE  RequestOK(q)' /\ Held'[q] = Held[q]
<1>1. Typed /\ WritersHoldAll BY DEF IInv
<1>2. req'[q] = req[q] BY DEF Undisturbed
<1>3. req[q].pc = "writing" => req'[q].taken = Len(Locks(req[q]))'
  <2> SUFFICES ASSUME req[q].pc = "writing" PROVE req'[q].taken = Len(Locks(req[q]))' OBVIOUS
  <2>1. req[q].op \in {"move_user", "change_role"} => Membership \in Held[q]
    BY <1>1, WriterHolds DEF Needed, MembershipOps
  <2>2. req[q].taken = Len(Locks(req[q])) BY <1>1 DEF WritersHoldAll
  <2> QED BY <1>1, <2>1, <2>2, HeldKept
<1>4. req[q].pc = "writing" => Decided(req[q])' BY BystanderDecided
<1>5. Held'[q] = Held[q] /\ req'[q].taken <= Len(Locks(req[q]))' BY <1>1, HeldKept
<1> QED BY <1>1, <1>2, <1>3, <1>4, <1>5, BystanderTyped DEF RequestOK

\* A step of a transaction that is not about locks or checks ends it: it commits
\* or rolls back.
LEMMA EndingSteps ==
  ASSUME NEW p, Step(p)
  PROVE  StartParticipant(p) \/ StartAdmin(p) \/ TakeLock(p) \/ Check(p) \/ Done(p)
  BY DEF Step, Fail, Done, CreateTeam, CreateCurrentTeam, JoinTeam, RemoveMember, UpdateCaptain,
     UpdateState, DeleteTeam, IssueInvite, MoveUser, ChangeRole, DeleteUser, Compete, Launch,
     Transition

\* What a handler checks depends on the fields of its request and on the data.
LEMMA PermittedSame ==
  ASSUME NEW r, NEW s, s.op = r.op, s.user = r.user, s.team = r.team, s.arg = r.arg,
         UNCHANGED <<mode, audit, acct, team, rows, running, previews>>,
         r.op \in Ops, r.op # "compete", Permitted(r)
  PROVE  Permitted(s)'
<1> DEFINE Same(A, B) == A <=> B
<1>1. /\ Same(MayCreate(r), MayCreate(s)') /\ Same(MayAddMember(r), MayAddMember(s)')
      /\ Same(MayRemoveMember(r), MayRemoveMember(s)') /\ Same(IsCaptain(r), IsCaptain(s)')
      /\ Same(MayBeCaptain(r), MayBeCaptain(s)') /\ Same(MayMoveUser(r), MayMoveUser(s)')
      /\ Same(MayLaunch(r), MayLaunch(s)') /\ Same(Live(r.team), Live(s.team)')
  BY DEF MayCreate, MayAddMember, MayRemoveMember, IsCaptain, MayBeCaptain, MayMoveUser,
         MayLaunch, Live, Participant
<1>2. Same(MayDisband(r), MayDisband(s)') BY <1>1 DEF MayDisband
<1>3. Same(MayCreateCurrent(r), MayCreateCurrent(s)')
  <2>1. ActiveTeams' = ActiveTeams BY DEF ActiveTeams, Live
  <2> QED BY <2>1 DEF MayCreateCurrent, Participant
<1>4. Same(MayJoin(r), MayJoin(s)')
  <2>1. Members(s.team)' = Members(r.team) BY DEF Members
  <2> QED BY <2>1 DEF MayJoin, Participant, Live
<1>5. Same(MayTransition(r), MayTransition(s)')
  <2>1. Snapshot' = Snapshot BY DEF Snapshot, Live
  <2> QED BY <2>1 DEF MayTransition
<1>6. CASE r.op = "create" BY <1>1, <1>2, <1>3, <1>4, <1>5, <1>6 DEF Permitted
<1>7. CASE r.op = "create_current" BY <1>1, <1>2, <1>3, <1>4, <1>5, <1>7 DEF Permitted
<1>8. CASE r.op = "join_current" BY <1>1, <1>2, <1>3, <1>4, <1>5, <1>8 DEF Permitted
<1>9. CASE r.op = "add_member" BY <1>1, <1>2, <1>3, <1>4, <1>5, <1>9 DEF Permitted
<1>10. CASE r.op = "remove_member" BY <1>1, <1>2, <1>3, <1>4, <1>5, <1>10 DEF Permitted
<1>11. CASE r.op = "current_invite" BY <1>1, <1>2, <1>3, <1>4, <1>5, <1>11 DEF Permitted
<1>12. CASE r.op = "update_current" BY <1>1, <1>2, <1>3, <1>4, <1>5, <1>12 DEF Permitted
<1>13. CASE r.op = "update_captain" BY <1>1, <1>2, <1>3, <1>4, <1>5, <1>13 DEF Permitted
<1>14. CASE r.op = "update_state" BY <1>1, <1>2, <1>3, <1>4, <1>5, <1>14 DEF Permitted
<1>15. CASE r.op = "delete_admin" BY <1>1, <1>2, <1>3, <1>4, <1>5, <1>15 DEF Permitted
<1>16. CASE r.op = "delete_current" BY <1>1, <1>2, <1>3, <1>4, <1>5, <1>16 DEF Permitted
<1>17. CASE r.op = "move_user" BY <1>1, <1>2, <1>3, <1>4, <1>5, <1>17 DEF Permitted
<1>18. CASE r.op = "change_role" BY <1>1, <1>2, <1>3, <1>4, <1>5, <1>18 DEF Permitted
<1>19. CASE r.op = "launch" BY <1>1, <1>2, <1>3, <1>4, <1>5, <1>19 DEF Permitted
<1>20. CASE r.op = "delete_user" BY <1>1, <1>2, <1>3, <1>4, <1>5, <1>20 DEF Permitted
<1>21. CASE r.op = "transition" BY <1>1, <1>2, <1>3, <1>4, <1>5, <1>21 DEF Permitted
<1> QED BY <1>6, <1>7, <1>8, <1>9, <1>10, <1>11, <1>12, <1>13,
           <1>14, <1>15, <1>16, <1>17, <1>18, <1>19, <1>20, <1>21
        DEF Ops, ParticipantOps, AdminOps

\* The transaction that moved has its locks from MayTake, and writes only after its
\* checks.
LEMMA MoverOK ==
  ASSUME IInv, NEW p \in Requests, Step(p)
  PROVE  /\ RequestOK(p)'
         /\ \/ Held'[p] \subseteq Held[p]
            \/ \E l : Held'[p] = Held[p] \cup {l} /\ MayTake(Held, p, l)
<1>0. Typed BY DEF IInv
<1>1. CASE StartParticipant(p) \/ StartAdmin(p)
  <2>1. /\ IsRequest(req'[p]) /\ req'[p].pc = "locking" /\ req'[p].taken = 0
        /\ req'[p].op \in Ops /\ WellFormed(req[p])'
        /\ Held'[p] = {} /\ Len(Locks(req[p]))' \in Nat
    BY <1>1, Started
  <2> QED BY <2>1 DEF RequestOK
<1>2. CASE Done(p)
  <2>1. /\ req'[p] = Idle /\ Held'[p] = {} /\ IsRequest(Idle) /\ Idle.taken = 0
        /\ Len(Locks(req[p]))' \in Nat
    BY <1>0, <1>2, Ended
  <2> QED BY <2>1 DEF RequestOK, Idle
<1>3. CASE req'[p] = Idle /\ (TakeLock(p) \/ Check(p))
  <2>1. req' = [req EXCEPT ![p] = Idle]
    BY <1>0, <1>3 DEF TakeLock, Check, Typed, RequestsTyped
  <2> QED BY <1>2, <2>1 DEF Done
<1>4. CASE TakeLock(p) /\ req'[p] # Idle
  <2>1. LET r == req[p] IN
         /\ r.pc = "locking" /\ r.op \in Ops /\ WellFormed(r)
         /\ req'[p] = [r EXCEPT !.taken = r.taken + 1,
                                !.arg = IF r.op \in {"compete", "launch"} /\ r.taken = 0
                                        THEN mode ELSE r.arg]
         /\ Held'[p] = Held[p] \cup {Locks(r)[r.taken + 1]}
         /\ MayTake(Held, p, Locks(r)[r.taken + 1])
         /\ Len(Locks(r))' \in Nat /\ req'[p].taken <= Len(Locks(r))'
    BY <1>4, LockTaken
  <2>2. IsRequest(req[p]) BY <1>0, RequestFields
  <2>3. PICK r : r = req[p] OBVIOUS
  <2>4. PICK s : s = req'[p] OBVIOUS
  <2>5. s = [r EXCEPT !.taken = r.taken + 1,
                      !.arg = IF r.op \in {"compete", "launch"} /\ r.taken = 0
                              THEN mode ELSE r.arg]
    BY <2>1, <2>3, <2>4
  <2>6. IsRequest(r) /\ r.pc = "locking" /\ r.op \in Ops BY <2>1, <2>2, <2>3
  <2>7. /\ s.pc = "locking" /\ s.op = r.op /\ s.user = r.user /\ s.team = r.team
        /\ r.op \notin {"compete", "launch"} => s.arg = r.arg
    BY <2>5, <2>6 DEF IsRequest
  <2>8. IsRequest(s)
    <3>1. PICK v : v = IF r.op \in {"compete", "launch"} /\ r.taken = 0 THEN mode ELSE r.arg
      OBVIOUS
    <3>2. PICK n \in Nat : n = r.taken + 1 BY <2>6 DEF IsRequest
    <3>3. s = [r EXCEPT !.taken = n, !.arg = v] BY <2>5, <3>1, <3>2
    <3> QED BY <2>6, <3>3 DEF IsRequest
  <2>9. WellFormed(req[p])'
    BY <2>1, <2>3, <2>4, <2>7, <1>4 DEF WellFormed, TakeLock
  <2> QED BY <2>1, <2>4, <2>6, <2>7, <2>8, <2>9 DEF RequestOK
<1>5. CASE Check(p) /\ req'[p] # Idle
  <2>1. LET r == req[p] IN
         /\ r.op \in Ops /\ WellFormed(r) /\ r.taken > 0 /\ r.pc = "locking"
         /\ Permitted(r) /\ UNCHANGED <<data, previews>>
         /\ req'[p] = [r EXCEPT !.pc = "writing",
                                !.team = IF r.op = "compete" /\ r.arg = "teams"
                                         THEN acct[r.user].team ELSE r.team]
         /\ Held'[p] = Held[p] /\ r.taken = Len(Locks(r))
         /\ req'[p].taken = Len(Locks(r))'
    BY <1>5, Checked
  <2>2. IsRequest(req[p]) BY <1>0, RequestFields
  <2>3. PICK r : r = req[p] OBVIOUS
  <2>4. PICK s : s = req'[p] OBVIOUS
  <2>5. s = [r EXCEPT !.pc = "writing",
                      !.team = IF r.op = "compete" /\ r.arg = "teams"
                               THEN acct[r.user].team ELSE r.team]
    BY <2>1, <2>3, <2>4
  <2>6. IsRequest(r) /\ r.op \in Ops /\ r.taken > 0 BY <2>1, <2>2, <2>3
  <2>7. /\ s.pc = "writing" /\ s.op = r.op /\ s.user = r.user /\ s.arg = r.arg
        /\ s.taken = r.taken
        /\ s.team = IF r.op = "compete" /\ r.arg = "teams" THEN acct[r.user].team ELSE r.team
    BY <2>5, <2>6 DEF IsRequest
  <2>8. r.op = "compete" => r.user \in Users /\ acct[r.user].team \in TeamIds \cup {None}
    BY <1>0, <2>1, <2>3 DEF WellFormed, UserOps, Typed, TypeOK, Account
  <2>9. IsRequest(s) BY <2>5, <2>6, <2>7, <2>8 DEF IsRequest
  <2>10. WellFormed(req[p])'
    BY <2>1, <2>3, <2>4, <2>7 DEF WellFormed, TeamOps
  <2>11. Decided(req[p])'
    <3>1. CASE r.op = "compete"
      <4>1. r.team = None BY <2>1, <2>3, <3>1 DEF IInv, RequestsOfThisMode, ParticipantOps
      <4>2. MayCompete(r) BY <2>1, <2>3, <3>1 DEF Permitted
      <4> QED BY <2>1, <2>4, <2>7, <3>1, <4>1, <4>2 DEF Decided, MayCompete, data
    <3>2. CASE r.op # "compete"
      <4>1. s.team = r.team BY <2>7, <3>2
      <4>2. Permitted(r) BY <2>1, <2>3
      <4>3. UNCHANGED <<mode, audit, acct, team, rows, running, previews>> BY <2>1 DEF data
      <4>4. Permitted(s)' BY <2>6, <2>7, <3>2, <4>1, <4>2, <4>3, PermittedSame
      <4> QED BY <2>4, <2>7, <3>2, <4>4 DEF Decided
    <3> QED BY <3>1, <3>2
  <2> QED BY <2>1, <2>4, <2>6, <2>7, <2>9, <2>10, <2>11 DEF RequestOK
<1> QED BY <1>1, <1>2, <1>3, <1>4, <1>5, EndingSteps

----------------------------------------------------------------------------
(* The invariant: requests and locks *)

\* The locks of every transaction stay exclusive, its request typed and its
\* decision true (requests of all handlers, running together).
LEMMA RequestsKept ==
  ASSUME IInv, [Next]_vars
  PROVE  /\ RequestsTyped' /\ (\A q \in Requests : req'[q].taken <= Len(Locks(req[q]))')
         /\ WritersHoldAll' /\ ExclusiveLocks' /\ DecisionsHold'
<1>1. Exclusion(Held) /\ DOMAIN Held = Requests /\ DOMAIN Held' = Requests
  BY DEF IInv, ExclusiveLocks, Held
<1>2. CASE \E p \in Requests : Step(p)
  <2>1. PICK p \in Requests : Step(p) BY <1>2
  <2>2. RequestOK(p)' BY <2>1, MoverOK
  <2>3. \A q \in Requests : q # p => RequestOK(q)' /\ Held'[q] = Held[q]
    BY <2>1, StepUndisturbs, BystanderOK
  <2>4. \A q \in Requests : RequestOK(q)' BY <2>2, <2>3
  <2>5. Exclusion(Held')
    <3>1. CASE Held'[p] \subseteq Held[p]
      <4> \A q \in Requests : Held'[q] \subseteq Held[q] BY <2>3, <3>1
      <4> HIDE DEF Held
      <4> QED BY <1>1, ReleaseKeepsExclusion
    <3>2. CASE \E l : Held'[p] = Held[p] \cup {l} /\ MayTake(Held, p, l)
      <4>1. PICK l : Held'[p] = Held[p] \cup {l} /\ MayTake(Held, p, l) BY <3>2
      <4>2. \A q \in Requests : Held'[q] \subseteq Held[q] \cup (IF q = p THEN {l} ELSE {})
        BY <2>3, <4>1
      <4> HIDE DEF Held
      <4> QED BY <1>1, <4>1, <4>2, TakeKeepsExclusion
    <3> QED BY <2>1, <3>1, <3>2, MoverOK
  <2>6. \E r : req' = [req EXCEPT ![p] = r]
    <3>1. CASE StartParticipant(p) \/ StartAdmin(p)
      <4>1. \E op, user, t, arg : Start(p, op, user, t, arg) BY <3>1 DEF StartParticipant, StartAdmin
      <4> QED BY <4>1 DEF Start
    <3>2. CASE TakeLock(p) BY <3>2 DEF TakeLock
    <3>3. CASE Check(p) BY <3>3 DEF Check
    <3>4. CASE Done(p) BY <3>4 DEF Done
    <3> QED BY <2>1, <3>1, <3>2, <3>3, <3>4, EndingSteps
  <2>7. req' = [q \in Requests |-> req'[q]] BY <2>6 DEF IInv, Typed, RequestsTyped
  <2> QED BY <2>4, <2>5, <2>7 DEF RequestOK, RequestsTyped, WritersHoldAll, ExclusiveLocks, DecisionsHold
<1>3. CASE (\E u \in Users : Login(u)) \/ AdminInvite \/ Preview \/ RuntimeStops \/ UNCHANGED vars
  <2>1. \A q \in Requests : Undisturbed(q)
    <3>1. CASE UNCHANGED vars
      <4>1. UNCHANGED <<data, previews>> /\ \A q \in Requests : req'[q] = req[q] BY <3>1 DEF vars
      <4> QED BY <4>1, QuietStep
    <3> QED BY <1>3, <3>1, SurroundingsUndisturb
  <2>2. \A q \in Requests : RequestOK(q)' /\ Held'[q] = Held[q] BY <2>1, BystanderOK
  <2>3. Exclusion(Held')
    <3> \A q \in Requests : Held'[q] \subseteq Held[q] BY <2>2
    <3> HIDE DEF Held
    <3> QED BY <1>1, ReleaseKeepsExclusion
  <2>4. req' = req BY <1>3 DEF Login, AdminInvite, Preview, RuntimeStops, vars
  <2>5. req' = [q \in Requests |-> req'[q]] BY <2>4 DEF IInv, Typed, RequestsTyped
  <2> QED BY <2>2, <2>3, <2>5 DEF RequestOK, RequestsTyped, WritersHoldAll, ExclusiveLocks, DecisionsHold
<1> QED BY <1>2, <1>3 DEF Next

----------------------------------------------------------------------------
(* The invariant: teams, members and the competition's data *)

DataTyped ==
    /\ mode \in {"users", "teams"} /\ audit \in Nat /\ serial \in Nat
    /\ acct \in [Users -> Account] /\ team \in [TeamIds -> TeamRow]
    /\ rows \subseteq CompetitionRow /\ running \subseteq [user : Users, born : Nat]
    /\ invites \subseteq [team : TeamIds, password : Nat]
    /\ started \in Nat /\ previews \in Seq(PreviewRow) /\ spent \in Seq(Nat)

DataOK == DataTyped /\ MembersAreUsers /\ CaptainIsMember /\ NothingOutlivesItsMode

\* remove_member, move_user, change_role and delete_user clear the captain of a
\* team the account was captain of, and nothing else of the teams.
LEMMA WithoutCaptainShape ==
  ASSUME DataTyped, NEW u
  PROVE  /\ WithoutCaptain(u) \in [TeamIds -> TeamRow]
         /\ \A t \in TeamIds :
              /\ WithoutCaptain(u)[t].state = team[t].state
              /\ WithoutCaptain(u)[t].captain = IF team[t].captain = u THEN None ELSE team[t].captain
  BY DEF WithoutCaptain, DataTyped, TeamRow

\* What every write finds.
LEMMA WriterFinds ==
  ASSUME IInv, NEW p \in Requests, req[p].pc = "writing"
  PROVE  /\ DataOK /\ req[p].op \in Ops /\ WellFormed(req[p]) /\ IsRequest(req[p])
         /\ Decided(req[p]) /\ req[p].taken > 0
<1>1. req[p].op \in Ops /\ WellFormed(req[p]) /\ IsRequest(req[p]) BY WriterTyped
<1>2. Len(Locks(req[p])) >= 1 BY <1>1, LocksShape DEF Locks
<1> QED BY <1>1, <1>2
        DEF IInv, Typed, TypeOK, DataOK, DataTyped, DecisionsHold, WritersHoldAll

\* Creating a team: nobody was its captain or a member before.
LEMMA CreateKeepsData ==
  ASSUME IInv, NEW p \in Requests, CreateTeam(p) \/ CreateCurrentTeam(p)
  PROVE  DataOK'
<1> DEFINE r == req[p]
<1>0. r.pc = "writing" BY DEF CreateTeam, CreateCurrentTeam, Writes
<1>1. DataOK /\ WellFormed(r) /\ Decided(r) BY <1>0, WriterFinds
<1>2. CASE CreateTeam(p)
  <2>1. r.arg \in TeamIds /\ team[r.arg].state = "none" /\ mode = "teams" /\ r.op = "create"
    BY <1>1, <1>2 DEF CreateTeam, Writes, WellFormed, Decided, Permitted, MayCreate
  <2>2. NewTeam(None) \in TeamRow /\ NewTeam(None).state = "live" /\ NewTeam(None).captain = None
    BY DEF NewTeam, NoTeam, TeamRow
  <2> HIDE DEF r
  <2>3. /\ team' = [team EXCEPT ![r.arg] = NewTeam(None)]
        /\ UNCHANGED <<mode, audit, acct, rows, serial, running, invites, previews, spent, started>>
    BY <1>2 DEF CreateTeam, r
  <2>4. DataTyped' BY <1>1, <2>1, <2>2, <2>3 DEF DataOK, DataTyped
  <2>5. \A t \in TeamIds : team'[t] = IF t = r.arg THEN NewTeam(None) ELSE team[t]
    BY <1>1, <2>1, <2>3 DEF DataOK, DataTyped
  <2>6. MembersAreUsers'
    BY <1>1, <2>1, <2>2, <2>3, <2>5 DEF DataOK, DataTyped, MembersAreUsers, Live, Account
  <2>7. CaptainIsMember' BY <1>1, <2>2, <2>3, <2>5 DEF DataOK, CaptainIsMember
  <2>8. NothingOutlivesItsMode' BY <1>1, <2>1, <2>3 DEF DataOK, NothingOutlivesItsMode
  <2> QED BY <2>4, <2>6, <2>7, <2>8 DEF DataOK
<1>3. CASE CreateCurrentTeam(p)
  <2>1. /\ r.arg \in TeamIds /\ team[r.arg].state = "none" /\ mode = "teams"
        /\ r.user \in Users /\ acct[r.user].kind = "user" /\ acct[r.user].team = None
    BY <1>1, <1>3 DEF CreateCurrentTeam, Writes, WellFormed, Decided, Permitted,
       MayCreateCurrent, Participant, UserOps
  <2>2. /\ NewTeam(r.user) \in TeamRow /\ NewTeam(r.user).state = "live"
        /\ NewTeam(r.user).captain = r.user
    BY <2>1 DEF NewTeam, NoTeam, TeamRow
  <2>3. /\ team' = [team EXCEPT ![r.arg] = NewTeam(r.user)]
        /\ acct' = [acct EXCEPT ![r.user].team = r.arg]
        /\ UNCHANGED <<mode, audit, rows, serial, running, invites, previews, spent, started>>
    BY <1>3 DEF CreateCurrentTeam, Assign
  <2> HIDE DEF r
  <2>5. \A t \in TeamIds : team'[t] = IF t = r.arg THEN NewTeam(r.user) ELSE team[t]
    BY <1>1, <2>1, <2>3 DEF DataOK, DataTyped
  <2>6. /\ acct' \in [Users -> Account]
        /\ \A u \in Users : /\ acct'[u].kind = acct[u].kind
                            /\ acct'[u].team = IF u = r.user THEN r.arg ELSE acct[u].team
    <3>1. acct \in [Users -> Account] BY <1>1 DEF DataOK, DataTyped
    <3>2. r.arg \in TeamIds \cup {None} BY <2>1
    <3>3. PICK n : n = [acct[r.user] EXCEPT !.team = r.arg] OBVIOUS
    <3>4. acct' = [acct EXCEPT ![r.user] = n] BY <2>3, <3>3
    <3>5. acct[r.user] \in Account BY <2>1, <3>1
    <3>6. n \in Account /\ n.kind = acct[r.user].kind /\ n.team = r.arg
      BY <3>2, <3>3, <3>5 DEF Account
    <3> QED BY <3>1, <3>4, <3>6
  <2>4. DataTyped' BY <1>1, <2>1, <2>2, <2>3, <2>6 DEF DataOK, DataTyped
  <2>7. MembersAreUsers'
    <3> SUFFICES ASSUME NEW u \in Users, acct'[u].team # None
                 PROVE  team'[acct'[u].team].state = "live" /\ acct'[u].kind = "user"
      BY DEF MembersAreUsers, Live
    <3>1. CASE u = r.user BY <2>1, <2>2, <2>5, <2>6, <3>1
    <3>2. CASE u # r.user
      <4>1. acct'[u].team = acct[u].team /\ acct[u].team \in TeamIds
        BY <1>1, <2>6, <3>2 DEF DataOK, DataTyped, Account
      <4>2. team[acct[u].team].state = "live" /\ acct[u].kind = "user"
        BY <1>1, <4>1 DEF DataOK, MembersAreUsers, Live
      <4> QED BY <2>1, <2>5, <2>6, <4>1, <4>2
    <3> QED BY <3>1, <3>2
  <2>8. CaptainIsMember'
    <3>1. \A t \in TeamIds : team[t].captain # None =>
             /\ team[t].captain \in Users /\ acct[team[t].captain].team = t
             /\ acct[team[t].captain].kind = "user"
      BY <1>1 DEF DataOK, DataTyped, CaptainIsMember, TeamRow
    <3>2. None \notin TeamIds BY TeamsAssumption
    <3>3. ASSUME NEW t \in TeamIds, team'[t].captain # None
          PROVE  /\ acct'[team'[t].captain].team = t
                 /\ acct'[team'[t].captain].kind = "user"
      <4>1. CASE t = r.arg BY <2>1, <2>2, <2>5, <2>6, <4>1
      <4>2. CASE t # r.arg
        <5>1. team'[t] = team[t] BY <2>5, <4>2
        <5>2. /\ team[t].captain \in Users /\ acct[team[t].captain].team = t
              /\ acct[team[t].captain].kind = "user"
          BY <3>1, <3>3, <5>1
        <5>3. team[t].captain # r.user BY <2>1, <3>2, <5>2
        <5> QED BY <2>6, <5>1, <5>2, <5>3
      <4> QED BY <4>1, <4>2
    <3> QED BY <3>3 DEF CaptainIsMember
  <2>9. NothingOutlivesItsMode' BY <1>1, <2>1, <2>3 DEF DataOK, NothingOutlivesItsMode
  <2> QED BY <2>4, <2>7, <2>8, <2>9 DEF DataOK
<1> QED BY <1>2, <1>3

\* Joining, adding, removing and moving a member.
LEMMA MemberKeepsData ==
  ASSUME IInv, NEW p \in Requests, JoinTeam(p) \/ RemoveMember(p) \/ MoveUser(p)
  PROVE  DataOK'
<1> DEFINE r == req[p]
<1>0. r.pc = "writing" BY DEF JoinTeam, RemoveMember, MoveUser, Writes
<1>1. DataOK /\ WellFormed(r) /\ Decided(r) /\ IsRequest(r) BY <1>0, WriterFinds
<1>2. r.user \in Users /\ r.op # "compete" /\ r.team \in TeamIds \cup {None}
  BY <1>1 DEF JoinTeam, RemoveMember, MoveUser, Writes, WellFormed, UserOps, IsRequest
<1>3. \E t \in TeamIds \cup {None} :
        /\ acct' = [acct EXCEPT ![r.user].team = t]
        /\ t # None => Live(t) /\ acct[r.user].kind = "user"
        /\ \/ team' = WithoutCaptain(r.user)
           \/ team' = team /\ (acct[r.user].team = None \/ acct[r.user].team = t)
  <2>1. CASE JoinTeam(p)
    <3>1. /\ r.team \in TeamIds /\ Live(r.team) /\ acct[r.user].kind = "user"
          /\ acct[r.user].team = None
      BY <1>1, <2>1 DEF JoinTeam, Writes, WellFormed, TeamOps, Decided, Permitted, MayJoin,
         MayAddMember, Participant
    <3> QED BY <2>1, <3>1 DEF JoinTeam, Assign
  <2>2. CASE RemoveMember(p) BY <2>2 DEF RemoveMember, Assign
  <2>3. CASE MoveUser(p)
    <3>1. r.team # None => Live(r.team) /\ acct[r.user].kind = "user"
      BY <1>1, <2>3 DEF MoveUser, Writes, Decided, Permitted, MayMoveUser, Participant
    <3> QED BY <1>2, <2>3, <3>1 DEF MoveUser, Assign
  <2> QED BY <2>1, <2>2, <2>3
<1>4. /\ UNCHANGED <<mode, audit, serial, running, invites, previews, spent, started>>
      /\ rows' \subseteq rows
  BY DEF JoinTeam, RemoveMember, MoveUser
<1> HIDE DEF r
<1>5. PICK t \in TeamIds \cup {None} :
        /\ acct' = [acct EXCEPT ![r.user].team = t]
        /\ t # None => Live(t) /\ acct[r.user].kind = "user"
        /\ \/ team' = WithoutCaptain(r.user)
           \/ team' = team /\ (acct[r.user].team = None \/ acct[r.user].team = t)
  BY <1>3
<1>6. /\ acct' \in [Users -> Account]
      /\ \A u \in Users : /\ acct'[u].kind = acct[u].kind
                          /\ acct'[u].team = IF u = r.user THEN t ELSE acct[u].team
  <2>1. acct \in [Users -> Account] BY <1>1 DEF DataOK, DataTyped
  <2>2. PICK n : n = [acct[r.user] EXCEPT !.team = t] OBVIOUS
  <2>3. acct' = [acct EXCEPT ![r.user] = n] BY <1>5, <2>2
  <2>4. acct[r.user] \in Account BY <1>2, <2>1
  <2>5. n \in Account /\ n.kind = acct[r.user].kind /\ n.team = t BY <2>2, <2>4 DEF Account
  <2> QED BY <2>1, <2>3, <2>5
<1>7. team' \in [TeamIds -> TeamRow]
      /\ \A x \in TeamIds : /\ team'[x].state = team[x].state
                            /\ \/ team'[x].captain = team[x].captain
                               \/ team'[x].captain = None
                            /\ team'[x].captain = r.user => acct[r.user].team = t
  <2>1. \A x \in TeamIds : team[x].captain = r.user => acct[r.user].team = x
    BY <1>1, <1>2, TeamsAssumption DEF DataOK, CaptainIsMember
  <2>2. None \notin TeamIds /\ None \notin Users BY TeamsAssumption
  <2>3. CASE team' = WithoutCaptain(r.user)
    BY <1>1, <1>2, <2>2, <2>3, WithoutCaptainShape DEF DataOK
  <2>4. CASE team' = team /\ (acct[r.user].team = None \/ acct[r.user].team = t)
    BY <1>1, <2>1, <2>2, <2>4 DEF DataOK, DataTyped
  <2> QED BY <1>5, <2>3, <2>4
<1>8. DataTyped'
  BY <1>1, <1>4, <1>6, <1>7 DEF DataOK, DataTyped
<1>9. MembersAreUsers'
  <2> SUFFICES ASSUME NEW u \in Users, acct'[u].team # None
               PROVE  team'[acct'[u].team].state = "live" /\ acct'[u].kind = "user"
    BY DEF MembersAreUsers, Live
  <2>1. acct'[u].kind = acct[u].kind /\ acct'[u].team \in TeamIds
    BY <1>6 DEF Account
  <2>2. team'[acct'[u].team].state = team[acct'[u].team].state BY <1>7, <2>1
  <2>3. CASE u = r.user
    <3>1. acct'[u].team = t BY <1>6, <2>3
    <3>2. Live(t) /\ acct[u].kind = "user" BY <1>5, <2>3, <3>1
    <3> QED BY <2>1, <2>2, <3>1, <3>2 DEF Live
  <2>4. CASE u # r.user
    <3>1. acct'[u].team = acct[u].team BY <1>6, <2>4
    <3>2. team[acct[u].team].state = "live" /\ acct[u].kind = "user"
      BY <1>1, <3>1 DEF DataOK, MembersAreUsers, Live
    <3> QED BY <2>1, <2>2, <3>1, <3>2
  <2> QED BY <2>3, <2>4
<1>10. CaptainIsMember'
  <2> SUFFICES ASSUME NEW x \in TeamIds, team'[x].captain # None
               PROVE  acct'[team'[x].captain].team = x /\ acct'[team'[x].captain].kind = "user"
    BY DEF CaptainIsMember
  <2>1. team'[x].captain = team[x].captain /\ team[x].captain \in Users
    BY <1>1, <1>7 DEF DataOK, DataTyped, TeamRow
  <2>2. acct[team[x].captain].team = x /\ acct[team[x].captain].kind = "user"
    BY <1>1, <2>1 DEF DataOK, CaptainIsMember
  <2> QED BY <1>6, <1>7, <2>1, <2>2
<1>11. NothingOutlivesItsMode' BY <1>1, <1>4, <1>7 DEF DataOK, NothingOutlivesItsMode, Live
<1> QED BY <1>8, <1>9, <1>10, <1>11 DEF DataOK

\* Picking a captain: update_captain checks the membership in one statement and
\* writes in a later one; hiding and banning a team.
LEMMA TeamRowKeepsData ==
  ASSUME IInv, NEW p \in Requests, UpdateCaptain(p) \/ UpdateState(p)
  PROVE  DataOK'
<1> DEFINE r == req[p]
<1>0. r.pc = "writing" BY DEF UpdateCaptain, UpdateState, Writes
<1>1. DataOK /\ WellFormed(r) /\ Decided(r) BY <1>0, WriterFinds
<1>2. r.team \in TeamIds
  BY <1>1 DEF UpdateCaptain, UpdateState, Writes, WellFormed, TeamOps
<1>3. UNCHANGED <<mode, audit, acct, rows, serial, running, invites, previews, spent, started>>
  BY DEF UpdateCaptain, UpdateState
<1>4. /\ team' \in [TeamIds -> TeamRow]
      /\ \A x \in TeamIds :
            /\ team'[x].state = team[x].state
            /\ \/ team'[x].captain = team[x].captain
               \/ x = r.team /\ team'[x].captain = r.arg /\ r.arg \in Users \cup {None}
                  /\ (r.arg # None => acct[r.arg].team = r.team)
  <2>1. CASE UpdateCaptain(p)
    <3>1. r.arg \in Users \cup {None} /\ MayBeCaptain(r)
      BY <1>1, <2>1 DEF UpdateCaptain, Writes, WellFormed, Decided, Permitted
    <3>2. PICK w \in {team[r.team].password, 1} :
            team' = [team EXCEPT ![r.team].captain = r.arg, ![r.team].password = w]
      BY <2>1 DEF UpdateCaptain
    <3>3. w \in Nat BY <1>1, <1>2 DEF DataOK, DataTyped, TeamRow
    <3>4. team \in [TeamIds -> TeamRow] BY <1>1 DEF DataOK, DataTyped
    <3>5. r.arg # None => acct[r.arg].team = r.team BY <3>1 DEF MayBeCaptain
    <3>7. r.arg \in Users \cup {None} BY <3>1
    <3> HIDE DEF r
    <3>6. /\ team' \in [TeamIds -> TeamRow]
          /\ \A x \in TeamIds : /\ team'[x].state = team[x].state
                                /\ team'[x].captain = IF x = r.team THEN r.arg ELSE team[x].captain
      <4>1. PICK n : n = [team[r.team] EXCEPT !.captain = r.arg, !.password = w] OBVIOUS
      <4>2. team' = [team EXCEPT ![r.team] = n] BY <1>2, <3>2, <3>4, <4>1
      <4>3. team[r.team] \in TeamRow BY <1>2, <3>4
      <4>4. n \in TeamRow /\ n.state = team[r.team].state /\ n.captain = r.arg
        BY <3>3, <3>7, <4>1, <4>3 DEF TeamRow
      <4> QED BY <1>2, <3>4, <4>2, <4>4
    <3> QED BY <3>1, <3>5, <3>6
  <2>2. CASE UpdateState(p)
    <3>1. r.arg[1] \in BOOLEAN /\ r.arg[2] \in BOOLEAN
      BY <1>1, <2>2 DEF UpdateState, Writes, WellFormed
    <3>2. PICK a \in BOOLEAN, b \in BOOLEAN :
            team' = [team EXCEPT ![r.team].listed = a, ![r.team].banned = b]
      BY <2>2, <3>1 DEF UpdateState
    <3> HIDE DEF r
    <3>3. PICK row : row = team[r.team] OBVIOUS
    <3>4. row \in TeamRow BY <1>1, <1>2, <3>3 DEF DataOK, DataTyped
    <3>5. PICK new : new = [row EXCEPT !.listed = a, !.banned = b] OBVIOUS
    <3>6. new \in TeamRow /\ new.state = row.state /\ new.captain = row.captain
      BY <3>4, <3>5 DEF TeamRow
    <3>7. team' = [team EXCEPT ![r.team] = new]
      BY <1>1, <1>2, <3>2, <3>3, <3>5 DEF DataOK, DataTyped
    <3> QED BY <1>1, <1>2, <3>3, <3>6, <3>7 DEF DataOK, DataTyped
  <2> QED BY <2>1, <2>2
<1> HIDE DEF r
<1>5. DataTyped' BY <1>1, <1>3, <1>4 DEF DataOK, DataTyped
<1>6. MembersAreUsers'
  BY <1>1, <1>3, <1>4 DEF DataOK, DataTyped, MembersAreUsers, Live, Account
<1>7. CaptainIsMember'
  <2> SUFFICES ASSUME NEW x \in TeamIds, team'[x].captain # None
               PROVE  acct[team'[x].captain].team = x /\ acct[team'[x].captain].kind = "user"
    BY <1>3 DEF CaptainIsMember
  <2>1. CASE team'[x].captain = team[x].captain BY <1>1, <2>1 DEF DataOK, CaptainIsMember
  <2>2. CASE team'[x].captain # team[x].captain
    <3>1. x = r.team /\ team'[x].captain = r.arg /\ r.arg \in Users /\ acct[r.arg].team = r.team
      BY <1>4, <2>2
    <3> QED BY <1>1, <1>2, <3>1, TeamsAssumption DEF DataOK, MembersAreUsers
  <2> QED BY <2>1, <2>2
<1>8. NothingOutlivesItsMode' BY <1>1, <1>3, <1>4 DEF DataOK, NothingOutlivesItsMode, Live
<1> QED BY <1>5, <1>6, <1>7, <1>8 DEF DataOK

\* Deleting a team takes its members out and its rows away.
LEMMA DeleteTeamKeepsData ==
  ASSUME IInv, NEW p \in Requests, DeleteTeam(p)
  PROVE  DataOK'
<1> DEFINE r == req[p]
           gone == [NoTeam EXCEPT !.state = "gone"]
<1>0. r.pc = "writing" BY DEF DeleteTeam, Writes
<1>1. DataOK /\ WellFormed(r) BY <1>0, WriterFinds
<1>2. r.team \in TeamIds BY <1>1 DEF DeleteTeam, Writes, WellFormed, TeamOps
<1>3. /\ UNCHANGED <<mode, audit, serial, running, invites, previews, spent, started>>
      /\ rows' \subseteq rows /\ team' = [team EXCEPT ![r.team] = gone]
      /\ acct' = [u \in Users |-> IF acct[u].team = r.team
                                  THEN [acct[u] EXCEPT !.team = None] ELSE acct[u]]
  BY DEF DeleteTeam
<1>4. gone \in TeamRow /\ gone.state = "gone" /\ gone.captain = None
  BY DEF NoTeam, TeamRow
<1> HIDE DEF r, gone
<1>5. \A t \in TeamIds : team'[t] = IF t = r.team THEN gone ELSE team[t]
  BY <1>1, <1>2, <1>3 DEF DataOK, DataTyped
<1>6. \A u \in Users : /\ acct'[u].kind = acct[u].kind
                       /\ acct'[u].team = IF acct[u].team = r.team THEN None ELSE acct[u].team
  BY <1>1, <1>3 DEF DataOK, DataTyped, Account
<1>7. DataTyped'
  <2>1. acct' \in [Users -> Account] BY <1>1, <1>3 DEF DataOK, DataTyped, Account
  <2> QED BY <1>1, <1>2, <1>3, <1>4, <2>1 DEF DataOK, DataTyped
<1>8. MembersAreUsers'
  <2> SUFFICES ASSUME NEW u \in Users, acct'[u].team # None
               PROVE  team'[acct'[u].team].state = "live" /\ acct'[u].kind = "user"
    BY DEF MembersAreUsers, Live
  <2>1. acct'[u].team = acct[u].team /\ acct[u].team \in TeamIds /\ acct[u].team # r.team
    BY <1>1, <1>6 DEF DataOK, DataTyped, Account
  <2>2. team[acct[u].team].state = "live" /\ acct[u].kind = "user"
    BY <1>1, <2>1, TeamsAssumption DEF DataOK, MembersAreUsers, Live
  <2> QED BY <1>5, <1>6, <2>1, <2>2
<1>9. CaptainIsMember'
  <2> SUFFICES ASSUME NEW x \in TeamIds, team'[x].captain # None
               PROVE  acct'[team'[x].captain].team = x /\ acct'[team'[x].captain].kind = "user"
    BY DEF CaptainIsMember
  <2>1. x # r.team /\ team'[x].captain = team[x].captain /\ team[x].captain \in Users
    BY <1>1, <1>4, <1>5 DEF DataOK, DataTyped, TeamRow
  <2>2. acct[team[x].captain].team = x /\ acct[team[x].captain].kind = "user"
    BY <1>1, <2>1, TeamsAssumption DEF DataOK, CaptainIsMember
  <2> QED BY <1>6, <2>1, <2>2
<1>10. NothingOutlivesItsMode'
  BY <1>1, <1>3, <1>4, <1>5 DEF DataOK, NothingOutlivesItsMode, Live
<1> QED BY <1>7, <1>8, <1>9, <1>10 DEF DataOK

\* Changing the type of an account, and deleting it: an administrator and a deleted
\* account have no team and captain none.
LEMMA AccountKeepsData ==
  ASSUME IInv, NEW p \in Requests, ChangeRole(p) \/ DeleteUser(p)
  PROVE  DataOK'
<1> DEFINE r == req[p]
<1>0. r.pc = "writing" BY DEF ChangeRole, DeleteUser, Writes
<1>1. DataOK /\ WellFormed(r) BY <1>0, WriterFinds
<1>2. r.user \in Users BY <1>1 DEF ChangeRole, DeleteUser, Writes, WellFormed, UserOps
<1>3. /\ UNCHANGED <<mode, audit, serial, running, invites, previews, spent, started>>
      /\ rows' \subseteq rows
  BY DEF ChangeRole, DeleteUser
<1>4. /\ acct' \in [Users -> Account]
      /\ \A u \in Users : u # r.user => acct'[u] = acct[u]
      /\ \/ acct'[r.user].team = None /\ team' = WithoutCaptain(r.user)
         \/ acct'[r.user].team = acct[r.user].team /\ acct'[r.user].kind = "user" /\ team' = team
  <2>1. CASE ChangeRole(p)
    <3>1. r.arg \in {"user", "admin"} BY <1>1, <2>1 DEF ChangeRole, Writes, WellFormed
    <3>2. PICK w \in Nat :
            acct' = [acct EXCEPT ![r.user].kind = r.arg,
                                 ![r.user].team = IF r.arg = "admin" THEN None ELSE @,
                                 ![r.user].session = w]
      <4>1. acct[r.user].session \in Nat BY <1>1, <1>2 DEF DataOK, DataTyped, Account
      <4> QED BY <1>1, <1>2, <2>1, <4>1 DEF ChangeRole, DataOK, DataTyped, Account
    <3>3. team' = IF r.arg = "admin" THEN WithoutCaptain(r.user) ELSE team
      BY <2>1 DEF ChangeRole
    <3> HIDE DEF r
    <3>4. PICK a : a = acct[r.user] OBVIOUS
    <3>5. a \in Account BY <1>1, <1>2, <3>4 DEF DataOK, DataTyped
    <3>6. PICK t : t = IF r.arg = "admin" THEN None ELSE a.team OBVIOUS
    <3>7. PICK new : new = [a EXCEPT !.kind = r.arg, !.team = t, !.session = w] OBVIOUS
    <3>8. new \in Account /\ new.kind = r.arg /\ new.team = t
      BY <3>1, <3>5, <3>6, <3>7 DEF Account
    <3>9. acct' = [acct EXCEPT ![r.user] = new]
      BY <1>1, <1>2, <3>2, <3>4, <3>6, <3>7 DEF DataOK, DataTyped
    <3> QED BY <1>1, <1>2, <3>1, <3>3, <3>4, <3>6, <3>8, <3>9 DEF DataOK, DataTyped
  <2>2. CASE DeleteUser(p) BY <1>1, <1>2, <2>2 DEF DeleteUser, DataOK, DataTyped, Account
  <2> QED BY <2>1, <2>2
<1> HIDE DEF r
<1>5. team' \in [TeamIds -> TeamRow]
      /\ \A x \in TeamIds : /\ team'[x].state = team[x].state
                            /\ \/ team'[x].captain = team[x].captain
                               \/ team'[x].captain = None
                            /\ team'[x].captain = r.user => team' = team
  BY <1>1, <1>2, <1>4, WithoutCaptainShape, TeamsAssumption DEF DataOK, DataTyped
<1>6. DataTyped' BY <1>1, <1>3, <1>4, <1>5 DEF DataOK, DataTyped
<1>7. MembersAreUsers'
  <2> SUFFICES ASSUME NEW u \in Users, acct'[u].team # None
               PROVE  team'[acct'[u].team].state = "live" /\ acct'[u].kind = "user"
    BY DEF MembersAreUsers, Live
  <2>1. /\ acct'[u].team = acct[u].team /\ acct[u].team \in TeamIds
        /\ u # r.user => acct'[u].kind = acct[u].kind
        /\ u = r.user => acct'[u].kind = "user"
    BY <1>1, <1>4 DEF DataOK, DataTyped, Account
  <2>2. team[acct[u].team].state = "live" /\ acct[u].kind = "user"
    BY <1>1, <2>1, TeamsAssumption DEF DataOK, MembersAreUsers, Live
  <2> QED BY <1>5, <2>1, <2>2
<1>8. CaptainIsMember'
  <2> SUFFICES ASSUME NEW x \in TeamIds, team'[x].captain # None
               PROVE  acct'[team'[x].captain].team = x /\ acct'[team'[x].captain].kind = "user"
    BY DEF CaptainIsMember
  <2>1. team'[x].captain = team[x].captain /\ team[x].captain \in Users
    BY <1>1, <1>5 DEF DataOK, DataTyped, TeamRow
  <2>2. acct[team[x].captain].team = x /\ acct[team[x].captain].kind = "user"
    BY <1>1, <2>1 DEF DataOK, CaptainIsMember
  <2>3. team[x].captain = r.user => acct'[r.user].team = acct[r.user].team /\ acct'[r.user].kind = "user"
    <3>1. team' = WithoutCaptain(r.user) => team'[x].captain # r.user
      BY <1>1, <1>2, WithoutCaptainShape, TeamsAssumption DEF DataOK
    <3> QED BY <1>4, <2>1, <3>1
  <2> QED BY <1>4, <2>1, <2>2, <2>3
<1>9. NothingOutlivesItsMode' BY <1>1, <1>3, <1>5 DEF DataOK, NothingOutlivesItsMode, Live
<1> QED BY <1>6, <1>7, <1>8, <1>9 DEF DataOK

\* Playing: a request writes a row or starts an instance of the mode it was
\* authenticated in.
LEMMA PlayKeepsData ==
  ASSUME IInv, NEW p \in Requests, Compete(p) \/ Launch(p)
  PROVE  DataOK'
<1> DEFINE r == req[p]
<1>0. r.pc = "writing" BY DEF Compete, Launch, Writes
<1>1. DataOK /\ WellFormed(r) /\ Decided(r) /\ IsRequest(r) /\ r.taken > 0
  BY <1>0, WriterFinds
<1>2. r.op \in {"compete", "launch"} /\ r.user \in Users
  BY <1>1 DEF Compete, Launch, Writes, WellFormed, UserOps
<1>3. r.born = audit /\ r.arg = mode
  BY <1>0, <1>1, <1>2 DEF IInv, RequestsOfThisMode, ParticipantOps
<1>4. UNCHANGED <<mode, audit, acct, team, invites, previews, spent, started>>
  BY DEF Compete, Launch
<1>5. CASE Compete(p)
  <2>1. r.team \in TeamIds \cup {None} /\ (r.team = None <=> mode = "users")
    BY <1>1, <1>2, <1>3, <1>5, TeamsAssumption
       DEF Compete, Writes, Decided, MayCompete, DataOK, DataTyped, Account
  <2>2. running' = running
        /\ \/ UNCHANGED <<rows, serial>>
           \/ /\ rows' = rows \cup {[id |-> serial + 1, user |-> r.user, team |-> r.team,
                                     born |-> r.born]}
              /\ serial' = serial + 1
    BY <1>5 DEF Compete
  <2> HIDE DEF r
  <2>3. DataTyped' BY <1>1, <1>2, <1>3, <1>4, <2>1, <2>2 DEF DataOK, DataTyped, CompetitionRow
  <2>4. NothingOutlivesItsMode'
    BY <1>1, <1>3, <1>4, <2>1, <2>2 DEF DataOK, NothingOutlivesItsMode, Live
  <2> QED BY <1>1, <1>4, <2>3, <2>4 DEF DataOK, MembersAreUsers, CaptainIsMember, Live
<1>6. CASE Launch(p)
  <2>1. UNCHANGED <<rows, serial>> /\ running' = running \cup {[user |-> r.user, born |-> r.born]}
    BY <1>6 DEF Launch
  <2> HIDE DEF r
  <2>2. DataTyped' BY <1>1, <1>2, <1>3, <1>4, <2>1 DEF DataOK, DataTyped
  <2>3. NothingOutlivesItsMode'
    BY <1>1, <1>3, <1>4, <2>1 DEF DataOK, NothingOutlivesItsMode, Live
  <2> QED BY <1>1, <1>4, <2>2, <2>3 DEF DataOK, MembersAreUsers, CaptainIsMember, Live
<1> QED BY <1>5, <1>6

\* Changing the mode: nothing of the old competition is left.
LEMMA TransitionKeepsData ==
  ASSUME IInv, NEW p \in Requests, Transition(p)
  PROVE  DataOK'
<1> DEFINE r == req[p]
           gone == [NoTeam EXCEPT !.state = "gone"]
<1>0. r.pc = "writing" /\ r.op = "transition" BY DEF Transition, Writes
<1>1. DataOK /\ WellFormed(r) /\ Decided(r) BY <1>0, WriterFinds
<1>2. r.arg \in DOMAIN previews /\ running = {}
  BY <1>0, <1>1 DEF WellFormed, Decided, Permitted, MayTransition
<1>3. r.arg \in Nat BY <1>1, <1>2 DEF DataOK, DataTyped
<1>4. gone \in TeamRow /\ gone.state = "gone" /\ gone.captain = None
  BY DEF NoTeam, TeamRow
<1>5. /\ acct' = [u \in Users |-> [acct[u] EXCEPT !.team = None,
                       !.session = IF acct[u].kind = "admin" THEN @ ELSE 0]]
      /\ rows' = {} /\ team' = [t \in TeamIds |-> IF Live(t) THEN gone ELSE team[t]]
      /\ mode' = Other(mode) /\ audit' = audit + 1 /\ spent' = Append(spent, r.arg)
      /\ UNCHANGED <<serial, running, invites, previews, started>>
  BY DEF Transition
<1> HIDE DEF r, gone
<1>6. \A u \in Users : acct'[u].kind = acct[u].kind /\ acct'[u].team = None
  BY <1>1, <1>5 DEF DataOK, DataTyped, Account
<1>7. \A t \in TeamIds : team'[t] = IF Live(t) THEN gone ELSE team[t] BY <1>5
<1>8. DataTyped'
  <2>1. acct' \in [Users -> Account] BY <1>1, <1>5 DEF DataOK, DataTyped, Account
  <2>2. team' \in [TeamIds -> TeamRow] BY <1>1, <1>4, <1>5 DEF DataOK, DataTyped
  <2>3. mode' \in {"users", "teams"} BY <1>5 DEF Other
  <2>4. spent' \in Seq(Nat) /\ audit' \in Nat
    <3>1. spent \in Seq(Nat) /\ audit \in Nat BY <1>1 DEF DataOK, DataTyped
    <3>2. spent' = Append(spent, r.arg) /\ audit' = audit + 1 BY <1>5
    <3> QED BY <1>3, <3>1, <3>2
  <2>5. rows' \subseteq CompetitionRow BY <1>5
  <2> QED BY <1>1, <1>5, <2>1, <2>2, <2>3, <2>4, <2>5 DEF DataOK, DataTyped
<1>9. MembersAreUsers' BY <1>6 DEF MembersAreUsers
<1>10. CaptainIsMember'
  <2> SUFFICES ASSUME NEW t \in TeamIds PROVE team'[t].captain = None BY DEF CaptainIsMember
  <2>1. CASE Live(t) BY <1>4, <1>7, <2>1
  <2>2. CASE ~Live(t)
    <3>1. team[t].captain # None => acct[team[t].captain].team = t /\ team[t].captain \in Users
      BY <1>1 DEF DataOK, DataTyped, CaptainIsMember, TeamRow
    <3>2. t # None BY TeamsAssumption
    <3> QED BY <1>1, <1>7, <2>2, <3>1, <3>2 DEF DataOK, MembersAreUsers
  <2> QED BY <2>1, <2>2
<1>11. NothingOutlivesItsMode'
  BY <1>2, <1>4, <1>5, <1>7 DEF NothingOutlivesItsMode, Live
<1> QED BY <1>8, <1>9, <1>10, <1>11 DEF DataOK

\* A preview is a picture of the data (preview_transition).
LEMMA SnapshotTyped ==
  ASSUME DataTyped PROVE Snapshot \in PreviewRow
<1>1. [u \in Users |-> <<acct[u].kind, acct[u].team, acct[u].session>>]
        \in [Users -> {"user", "admin", "deleted"} \X (TeamIds \cup {None}) \X Nat]
  BY DEF DataTyped, Account
<1>2. [t \in {x \in TeamIds : Live(x)} |-> team[t].captain]
        \in UNION {[S -> Users \cup {None}] : S \in SUBSET TeamIds}
  <2>1. {x \in TeamIds : Live(x)} \in SUBSET TeamIds OBVIOUS
  <2>2. \A t \in TeamIds : team[t].captain \in Users \cup {None} BY DEF DataTyped, TeamRow
  <2>3. PICK S \in SUBSET TeamIds : S = {x \in TeamIds : Live(x)} BY <2>1
  <2>4. [t \in S |-> team[t].captain] \in [S -> Users \cup {None}] BY <2>2
  <2> QED BY <2>3, <2>4
<1>3. {row.id : row \in rows} \in SUBSET Nat BY DEF DataTyped, CompetitionRow
<1> QED BY <1>1, <1>2, <1>3 DEF Snapshot, PreviewRow, DataTyped

\* Steps that leave the teams and the competition's data alone, but for sessions
\* that open and instances that stop.
LEMMA QuietKeepsData ==
  ASSUME IInv, UNCHANGED <<mode, audit, team, rows, serial, spent>>, running' \subseteq running,
         acct' \in [Users -> Account], invites' \subseteq [team : TeamIds, password : Nat],
         started' \in Nat, previews' \in Seq(PreviewRow),
         \A u \in Users : acct'[u].team = acct[u].team /\ acct'[u].kind = acct[u].kind
  PROVE  DataOK'
<1>1. DataOK BY DEF IInv, Typed, TypeOK, DataOK, DataTyped
<1>2. DataTyped' BY <1>1 DEF DataOK, DataTyped
<1>3. MembersAreUsers' BY <1>1 DEF DataOK, MembersAreUsers, Live
<1>4. CaptainIsMember'
  BY <1>1, TeamsAssumption DEF DataOK, DataTyped, CaptainIsMember, TeamRow
<1>5. NothingOutlivesItsMode' BY <1>1 DEF DataOK, NothingOutlivesItsMode, Live
<1> QED BY <1>2, <1>3, <1>4, <1>5 DEF DataOK

\* Every step leaves the teams and the data consistent.
LEMMA DataKept ==
  ASSUME IInv, [Next]_vars
  PROVE  DataOK'
<1>1. DataOK BY DEF IInv, Typed, TypeOK, DataOK, DataTyped
<1>2. CASE \E p \in Requests : Step(p)
  <2>1. PICK p \in Requests : Step(p) BY <1>2
  <2>2. CASE StartParticipant(p) \/ StartAdmin(p)
    <3>1. UNCHANGED <<data, invites, previews, spent>> /\ started' \in Nat
      BY <2>2, Started
    <3> QED BY <1>1, <3>1, QuietKeepsData DEF data, DataOK, DataTyped
  <2>3. CASE TakeLock(p) \/ Fail(p) \/ Check(p)
    <3>1. UNCHANGED <<data, invites, previews, spent, started>>
      BY <2>3 DEF TakeLock, Fail, Check
    <3> QED BY <1>1, <3>1, QuietKeepsData DEF data, DataOK, DataTyped
  <2>4. CASE IssueInvite(p)
    <3>1. req[p].pc = "writing" /\ req[p].op = "current_invite" BY <2>4 DEF IssueInvite, Writes
    <3>2. req[p].team \in TeamIds BY <3>1, WriterFinds DEF WellFormed, TeamOps
    <3>3. team[req[p].team].password \in Nat BY <1>1, <3>2 DEF DataOK, DataTyped, TeamRow
    <3>4. UNCHANGED <<data, previews, spent, started>>
          /\ invites' = invites \cup {[team |-> req[p].team, password |-> team[req[p].team].password]}
      BY <2>4 DEF IssueInvite
    <3>5. invites' \subseteq [team : TeamIds, password : Nat]
      BY <1>1, <3>2, <3>3, <3>4 DEF DataOK, DataTyped
    <3> QED BY <1>1, <3>4, <3>5, QuietKeepsData DEF data, DataOK, DataTyped
  <2> QED BY <2>1, <2>2, <2>3, <2>4, CreateKeepsData, MemberKeepsData, TeamRowKeepsData,
             DeleteTeamKeepsData, AccountKeepsData, PlayKeepsData, TransitionKeepsData DEF Step
<1>3. CASE \E u \in Users : Login(u)
  <2>1. PICK u \in Users : Login(u) BY <1>3
  <2>2. acct' \in [Users -> Account]
        /\ \A w \in Users : acct'[w].team = acct[w].team /\ acct'[w].kind = acct[w].kind
    <3>1. acct[u] \in Account /\ acct \in [Users -> Account] BY <1>1 DEF DataOK, DataTyped
    <3>2. PICK a : a = acct[u] OBVIOUS
    <3>3. PICK n \in Nat, k \in Nat : n = a.logins + 2 /\ k = a.logins + 1
      BY <3>1, <3>2 DEF Account
    <3>4. PICK new : new = [a EXCEPT !.session = n, !.logins = k] OBVIOUS
    <3>5. new \in Account /\ new.team = a.team /\ new.kind = a.kind
      BY <3>1, <3>2, <3>4 DEF Account
    <3>6. acct' = [acct EXCEPT ![u] = new] BY <2>1, <3>1, <3>2, <3>3, <3>4 DEF Login
    <3> QED BY <3>1, <3>2, <3>5, <3>6
  <2>3. UNCHANGED <<mode, audit, team, rows, serial, running, invites, previews, spent, started>>
    BY <2>1 DEF Login
  <2> QED BY <1>1, <2>2, <2>3, QuietKeepsData DEF DataOK, DataTyped
<1>4. CASE AdminInvite
  <2>1. PICK t \in TeamIds : invites' = invites \cup {[team |-> t, password |-> team[t].password]}
    BY <1>4 DEF AdminInvite
  <2>2. invites' \subseteq [team : TeamIds, password : Nat]
    <3>1. team[t].password \in Nat BY <1>1 DEF DataOK, DataTyped, TeamRow
    <3> QED BY <1>1, <2>1, <3>1 DEF DataOK, DataTyped
  <2>3. UNCHANGED <<data, previews, spent, started>> BY <1>4 DEF AdminInvite
  <2> QED BY <1>1, <2>2, <2>3, QuietKeepsData DEF data, DataOK, DataTyped
<1>5. CASE Preview
  <2>1. Snapshot \in PreviewRow BY <1>1, SnapshotTyped DEF DataOK
  <2>2. previews' \in Seq(PreviewRow)
    <3>1. previews \in Seq(PreviewRow) /\ previews' = Append(previews, Snapshot)
      BY <1>1, <1>5 DEF Preview, DataOK, DataTyped
    <3> HIDE DEF Snapshot, PreviewRow
    <3> QED BY <2>1, <3>1
  <2>3. UNCHANGED <<data, invites, spent, started>> BY <1>5 DEF Preview
  <2> QED BY <1>1, <2>2, <2>3, QuietKeepsData DEF data, DataOK, DataTyped
<1>6. CASE RuntimeStops
  <2>1. running' \subseteq running
        /\ UNCHANGED <<mode, audit, acct, team, rows, serial, invites, previews, spent, started>>
    BY <1>6 DEF RuntimeStops
  <2> QED BY <1>1, <2>1, QuietKeepsData DEF DataOK, DataTyped
<1>7. CASE UNCHANGED vars
  <2>1. UNCHANGED <<data, invites, previews, spent, started>> BY <1>7 DEF vars
  <2> QED BY <1>1, <2>1, QuietKeepsData DEF data, DataOK, DataTyped
<1> QED BY <1>2, <1>3, <1>4, <1>5, <1>6, <1>7 DEF Next

\* Only a transition counts and spends a preview, and previews stay.
LEMMA OtherSteps ==
  ASSUME IInv, [Next]_vars, ~\E p \in Requests : Transition(p)
  PROVE  UNCHANGED <<audit, spent>> /\ (previews' = previews \/ previews' = Append(previews, Snapshot))
<1>1. CASE \E p \in Requests : Step(p)
  <2>1. PICK p \in Requests : Step(p) BY <1>1
  <2>2. CASE StartParticipant(p) \/ StartAdmin(p) BY <2>2, Started DEF data
  <2>3. CASE TakeLock(p) \/ Fail(p) \/ Check(p) BY <2>3 DEF TakeLock, Fail, Check, data
  <2>4. CASE CreateTeam(p) \/ CreateCurrentTeam(p) \/ JoinTeam(p) \/ RemoveMember(p)
             \/ UpdateCaptain(p) \/ UpdateState(p) \/ DeleteTeam(p) \/ IssueInvite(p)
    BY <2>4 DEF CreateTeam, CreateCurrentTeam, JoinTeam, RemoveMember, UpdateCaptain, UpdateState,
       DeleteTeam, IssueInvite, data
  <2>5. CASE MoveUser(p) \/ ChangeRole(p) \/ DeleteUser(p) \/ Compete(p) \/ Launch(p)
    BY <2>5 DEF MoveUser, ChangeRole, DeleteUser, Compete, Launch
  <2> QED BY <2>1, <2>2, <2>3, <2>4, <2>5 DEF Step
<1>2. CASE \E u \in Users : Login(u) BY <1>2 DEF Login
<1>3. CASE AdminInvite \/ Preview \/ RuntimeStops \/ UNCHANGED vars
  BY <1>3 DEF AdminInvite, Preview, RuntimeStops, vars, data
<1> QED BY <1>1, <1>2, <1>3 DEF Next

\* A preview is spent by the transition that dates it to the past.
LEMMA SpentKept ==
  ASSUME IInv, [Next]_vars
  PROVE  SpentIsPast'
<1>1. /\ SpentIsPast /\ audit \in Nat /\ previews \in Seq(PreviewRow) /\ spent \in Seq(Nat)
      /\ \A i \in DOMAIN previews : previews[i].audit \in Nat
  <2>1. previews \in Seq(PreviewRow) BY DEF IInv, Typed
  <2>2. \A i \in DOMAIN previews : previews[i] \in PreviewRow
    <3> HIDE DEF PreviewRow
    <3> QED BY <2>1
  <2> QED BY <2>1, <2>2 DEF IInv, Typed, TypeOK, PreviewRow
<1>2. CASE \E p \in Requests : Transition(p)
  <2>1. PICK p \in Requests : Transition(p) BY <1>2
  <2>2. req[p].pc = "writing" /\ req[p].op = "transition" BY <2>1 DEF Transition, Writes
  <2>3. WellFormed(req[p]) /\ Decided(req[p]) BY <2>2, WriterFinds
  <2>4. req[p].arg \in DOMAIN previews /\ previews[req[p].arg].audit = audit
    BY <2>2, <2>3 DEF WellFormed, Decided, Permitted, MayTransition, Snapshot
  <2>5. previews' = previews /\ audit' = audit + 1 /\ spent' = Append(spent, req[p].arg)
    BY <2>1 DEF Transition
  <2>6. PICK i : i = req[p].arg OBVIOUS
  <2>7. i \in Nat BY <1>1, <2>4, <2>6
  <2>8. \A k \in DOMAIN spent' : spent'[k] = i \/ (k \in DOMAIN spent /\ spent'[k] = spent[k])
    BY <1>1, <2>5, <2>6, <2>7
  <2>9. \A k \in DOMAIN spent : spent[k] \in DOMAIN previews /\ previews[spent[k]].audit < audit
    BY <1>1 DEF SpentIsPast
  <2>10. \A j \in DOMAIN previews : previews[j].audit < audit \/ previews[j].audit = audit
            => previews[j].audit < audit'
    BY <1>1, <2>5
  <2> QED BY <2>4, <2>5, <2>6, <2>8, <2>9, <2>10 DEF SpentIsPast
<1>3. CASE ~\E p \in Requests : Transition(p)
  <2>1. UNCHANGED <<audit, spent>> /\ (previews' = previews \/ previews' = Append(previews, Snapshot))
    BY <1>3, OtherSteps
  <2>2. \A i \in DOMAIN previews : i \in DOMAIN previews' /\ previews'[i] = previews[i]
    <3>1. CASE previews' = previews BY <3>1
    <3>2. CASE previews' = Append(previews, Snapshot)
      <4> HIDE DEF Snapshot
      <4> QED BY <1>1, <3>2
    <3> QED BY <2>1, <3>1, <3>2
  <2> QED BY <1>1, <2>1, <2>2 DEF SpentIsPast
<1> QED BY <1>2, <1>3

----------------------------------------------------------------------------
(* The invariant: credentials *)

\* A session that was valid before a step and still is has the same account behind
\* it, and no transition has happened: sessions get new numbers, and a change of
\* type, a deletion and a transition end them (the transition keeps those of
\* administrators, who do not play).
LEMMA SessionsKept ==
  ASSUME IInv, [Next]_vars, NEW u \in Users
  PROVE  /\ acct'[u].logins >= acct[u].logins /\ acct'[u].session <= acct'[u].logins + 1
         /\ acct'[u].session \in 1..(acct[u].logins + 1) =>
              /\ acct'[u].session = acct[u].session /\ acct'[u].kind = acct[u].kind
              /\ audit' = audit \/ acct[u].kind = "admin"
<1>0. /\ acct \in [Users -> Account] /\ acct[u].session \in Nat /\ acct[u].logins \in Nat
      /\ acct[u].session <= acct[u].logins + 1
  BY DEF IInv, Typed, TypeOK, RequestsOfThisMode, Account
<1>1. CASE /\ audit' = audit /\ acct'[u].session = acct[u].session
           /\ acct'[u].logins = acct[u].logins /\ acct'[u].kind = acct[u].kind
  BY <1>0, <1>1
<1>2. CASE acct'[u].session = 0 /\ acct'[u].logins = acct[u].logins
  BY <1>0, <1>2
<1>3. CASE UNCHANGED <<acct, audit>> BY <1>1, <1>3
<1>4. CASE \E p \in Requests : Step(p)
  <2>1. PICK p \in Requests : Step(p) BY <1>4
  <2> DEFINE r == req[p]
  <2>2. CASE StartParticipant(p) \/ StartAdmin(p)
    BY <1>3, <2>2, Started DEF data
  <2>3. CASE TakeLock(p) \/ Fail(p) \/ Check(p) \/ CreateTeam(p) \/ UpdateCaptain(p)
             \/ UpdateState(p) \/ IssueInvite(p) \/ Compete(p) \/ Launch(p)
    BY <1>3, <2>3 DEF TakeLock, Fail, Check, CreateTeam, UpdateCaptain, UpdateState, IssueInvite,
       Compete, Launch, data
  <2>4. CASE CreateCurrentTeam(p) \/ JoinTeam(p) \/ RemoveMember(p) \/ MoveUser(p)
    <3>1. /\ audit' = audit
          /\ \E t : acct' = [acct EXCEPT ![r.user].team = t]
      BY <2>4 DEF CreateCurrentTeam, JoinTeam, RemoveMember, MoveUser, Assign
    <3> QED BY <1>0, <1>1, <3>1 DEF Account
  <2>5. CASE DeleteTeam(p) BY <1>0, <1>1, <2>5 DEF DeleteTeam, Account
  <2>6. CASE ChangeRole(p)
    <3>0. audit' = audit BY <2>6 DEF ChangeRole
    <3>1. acct'[u].logins = acct[u].logins
          /\ \/ acct'[u].session = 0
             \/ acct'[u].session = acct[u].session /\ acct'[u].kind = acct[u].kind
      <4>1. PICK a : a = acct[u] OBVIOUS
      <4>2. PICK s : s = IF acct[r.user].kind # r.arg THEN 0 ELSE acct[r.user].session OBVIOUS
      <4>3. PICK t : t = IF r.arg = "admin" THEN None ELSE acct[r.user].team OBVIOUS
      <4>4. u = r.user => acct'[u] = [a EXCEPT !.kind = r.arg, !.team = t, !.session = s]
        BY <1>0, <2>6, <4>1, <4>2, <4>3 DEF ChangeRole
      <4>5. u # r.user => acct'[u] = acct[u] BY <1>0, <2>6 DEF ChangeRole
      <4>6. a \in Account BY <1>0, <4>1
      <4> HIDE DEF r
      <4> QED BY <4>1, <4>2, <4>4, <4>5, <4>6 DEF Account
    <3> QED BY <1>1, <1>2, <3>0, <3>1
  <2>7. CASE DeleteUser(p)
    <3>1. audit' = audit BY <2>7 DEF DeleteUser
    <3>2. u = r.user => acct'[u] = [acct[u] EXCEPT !.kind = "deleted", !.team = None, !.session = 0]
      BY <1>0, <2>7 DEF DeleteUser
    <3>3. u # r.user => acct'[u] = acct[u] BY <1>0, <2>7 DEF DeleteUser
    <3>4. acct[u] \in Account BY <1>0
    <3> HIDE DEF r
    <3> QED BY <1>1, <1>2, <3>1, <3>2, <3>3, <3>4 DEF Account
  <2>8. CASE Transition(p)
    <3>1. acct'[u] = [acct[u] EXCEPT !.team = None,
                        !.session = IF acct[u].kind = "admin" THEN acct[u].session ELSE 0]
      BY <2>8 DEF Transition
    <3>2. acct[u] \in Account BY <1>0
    <3>3. /\ acct'[u].logins = acct[u].logins /\ acct'[u].kind = acct[u].kind
          /\ acct'[u].session = IF acct[u].kind = "admin" THEN acct[u].session ELSE 0
      BY <3>1, <3>2 DEF Account
    <3> QED BY <1>0, <1>2, <3>3
  <2> QED BY <2>1, <2>2, <2>3, <2>4, <2>5, <2>6, <2>7, <2>8 DEF Step
<1>5. CASE \E w \in Users : Login(w)
  <2>1. PICK w \in Users : Login(w) BY <1>5
  <2>2. audit' = audit BY <2>1 DEF Login
  <2>3. CASE w = u
    <3>1. PICK n \in Nat, k \in Nat : n = acct[u].logins + 2 /\ k = acct[u].logins + 1 BY <1>0
    <3>2. acct'[u] = [acct[u] EXCEPT !.session = n, !.logins = k]
      BY <1>0, <2>1, <2>3, <3>1 DEF Login
    <3>3. acct[u] \in Account BY <1>0
    <3>4. acct'[u].session = n /\ acct'[u].logins = k BY <3>2, <3>3 DEF Account
    <3> QED BY <1>0, <3>1, <3>4
  <2>4. CASE w # u
    <3>1. acct'[u] = acct[u] BY <1>0, <2>1, <2>4 DEF Login
    <3> QED BY <1>1, <2>2, <3>1
  <2> QED BY <2>3, <2>4
<1>6. CASE AdminInvite \/ Preview \/ RuntimeStops \/ UNCHANGED vars
  BY <1>3, <1>6 DEF AdminInvite, Preview, RuntimeStops, vars, data
<1> QED BY <1>4, <1>5, <1>6 DEF Next

\* What the credential invariant says of one request.
OfThisMode(r) ==
    r.pc # "idle" /\ r.op \in ParticipantOps =>
        /\ r.session \in 1..(acct[r.user].logins + 1)
        /\ r.taken = 0 /\ acct[r.user].session = r.session
             => r.born = audit /\ acct[r.user].kind = "user"
        /\ r.taken > 0 => r.born = audit
        /\ r.op \in {"compete", "launch"} /\ r.taken > 0 => r.arg = mode
        /\ r.op = "compete" /\ r.pc = "locking" => r.team = None

\* A request that does not move is of the present mode or has lost its credential.
LEMMA BystanderOfThisMode ==
  ASSUME IInv, [Next]_vars, NEW q \in Requests, Undisturbed(q)
  PROVE  OfThisMode(req[q])'
<1> DEFINE r == req[q]
<1> SUFFICES ASSUME r.pc # "idle", r.op \in ParticipantOps PROVE OfThisMode(req[q])'
  BY DEF OfThisMode, Undisturbed
<1>1. req'[q] = r /\ (r.taken > 0 => mode' = mode /\ audit' = audit) BY DEF Undisturbed
<1>2. r.user \in Users /\ r.taken \in Nat
  BY RequestFields DEF IInv, WellFormed, ParticipantOps, UserOps
<1>3. OfThisMode(r) BY DEF IInv, RequestsOfThisMode, OfThisMode
<1>4. PICK u \in Users : u = r.user BY <1>2
<1>5. /\ acct[u].logins \in Nat /\ acct'[u].logins \in Nat /\ r.session \in Nat
  <2>1. DataTyped' BY DataKept DEF DataOK
  <2> QED BY <2>1, RequestFields DEF IInv, Typed, TypeOK, DataTyped, Account, IsRequest
<1>6. /\ acct'[u].logins >= acct[u].logins
      /\ acct'[u].session \in 1..(acct[u].logins + 1) =>
              /\ acct'[u].session = acct[u].session /\ acct'[u].kind = acct[u].kind
              /\ audit' = audit \/ acct[u].kind = "admin"
  BY SessionsKept
<1>7. r.session \in 1..(acct[u].logins + 1) /\ r.session \in 1..(acct'[u].logins + 1)
  BY <1>3, <1>4, <1>5, <1>6 DEF OfThisMode
<1>8. r.taken = 0 /\ acct'[u].session = r.session => r.born = audit' /\ acct'[u].kind = "user"
  BY <1>3, <1>4, <1>6, <1>7 DEF OfThisMode
<1> QED BY <1>1, <1>2, <1>3, <1>4, <1>7, <1>8 DEF OfThisMode

\* A request starts with a valid credential, and its first lock confirms it
\* (revalidate_current_credential).
LEMMA MoverOfThisMode ==
  ASSUME IInv, NEW p \in Requests, Step(p)
  PROVE  OfThisMode(req[p])'
<1>0. Typed /\ acct \in [Users -> Account] BY DEF IInv, Typed, TypeOK
<1>1. CASE StartParticipant(p) \/ StartAdmin(p)
  <2> SUFFICES ASSUME req'[p].op \in ParticipantOps PROVE OfThisMode(req[p])'
    BY DEF OfThisMode
  <2>1. PICK s : s = req'[p] OBVIOUS
  <2>2. /\ UNCHANGED data /\ s.taken = 0 /\ s.born = audit /\ (s.op = "compete" => s.team = None)
        /\ acct[s.user].kind = "user" /\ acct[s.user].session > 0
        /\ s.session = acct[s.user].session /\ s.op \in ParticipantOps
        /\ WellFormed(req[p])'
    BY <1>1, <2>1, Started
  <2>3. s.user \in Users BY <2>1, <2>2 DEF WellFormed, ParticipantOps, UserOps
  <2>4. acct[s.user].session \in Nat /\ acct[s.user].logins \in Nat
        /\ acct[s.user].session <= acct[s.user].logins + 1
    BY <1>0, <2>3 DEF IInv, RequestsOfThisMode, Account
  <2> QED BY <2>1, <2>2, <2>4 DEF OfThisMode, data
<1>2. CASE req'[p].pc = "idle" BY <1>2 DEF OfThisMode
<1>3. CASE Done(p) BY <1>0, <1>2, <1>3, Ended DEF Idle
<1>4. CASE TakeLock(p) /\ req'[p].pc # "idle"
  <2>1. req'[p] # Idle BY <1>4 DEF Idle
  <2>2. PICK r : r = req[p] OBVIOUS
  <2>3. PICK s : s = req'[p] OBVIOUS
  <2>4. /\ r.pc = "locking" /\ r.op \in Ops /\ WellFormed(req[p]) /\ IsRequest(r)
        /\ s = [r EXCEPT !.taken = r.taken + 1,
                         !.arg = IF r.op \in {"compete", "launch"} /\ r.taken = 0
                                 THEN mode ELSE r.arg]
    BY <1>0, <1>4, <2>1, <2>2, <2>3, LockTaken, RequestFields
  <2>5. /\ s.pc = r.pc /\ s.op = r.op /\ s.user = r.user /\ s.team = r.team /\ s.born = r.born
        /\ s.session = r.session /\ s.taken = r.taken + 1 /\ r.taken \in Nat
        /\ s.arg = IF r.op \in {"compete", "launch"} /\ r.taken = 0 THEN mode ELSE r.arg
    BY <2>4 DEF IsRequest
  <2>6. r.taken = 0 => CredentialValid(r)
    <3>1. req = [x \in Requests |-> req[x]] BY <1>0 DEF Typed, RequestsTyped
    <3>2. r.taken = 0 /\ ~CredentialValid(req[p]) => req'[p] = Idle
      BY <1>4, <2>2, <3>1 DEF TakeLock
    <3> QED BY <2>1, <2>2, <3>2
  <2>7. OfThisMode(r) BY <2>2 DEF IInv, RequestsOfThisMode, OfThisMode
  <2>8. UNCHANGED data BY <1>4 DEF TakeLock
  <2>9. ParticipantOps \cap AdminOps = {} BY DEF ParticipantOps, AdminOps
  <2> QED BY <2>3, <2>4, <2>5, <2>6, <2>7, <2>8, <2>9 DEF OfThisMode, CredentialValid, data
<1>5. CASE Check(p) /\ req'[p].pc # "idle"
  <2>1. req'[p] # Idle BY <1>5 DEF Idle
  <2>2. PICK r : r = req[p] OBVIOUS
  <2>3. PICK s : s = req'[p] OBVIOUS
  <2>4. /\ r.pc = "locking" /\ r.op \in Ops /\ IsRequest(r) /\ r.taken > 0 /\ UNCHANGED data
        /\ s = [r EXCEPT !.pc = "writing",
                         !.team = IF r.op = "compete" /\ r.arg = "teams"
                                  THEN acct[r.user].team ELSE r.team]
    BY <1>0, <1>5, <2>1, <2>2, <2>3, Checked, RequestFields
  <2>5. /\ s.pc = "writing" /\ s.op = r.op /\ s.user = r.user /\ s.born = r.born
        /\ s.session = r.session /\ s.taken = r.taken /\ s.arg = r.arg
    BY <2>4 DEF IsRequest
  <2>6. OfThisMode(r) BY <2>2 DEF IInv, RequestsOfThisMode, OfThisMode
  <2> QED BY <2>3, <2>4, <2>5, <2>6 DEF OfThisMode, data
<1> QED BY <1>1, <1>2, <1>3, <1>4, <1>5, EndingSteps

\* No request plays in a mode it was not authenticated in.
LEMMA CredentialsKept ==
  ASSUME IInv, [Next]_vars
  PROVE  RequestsOfThisMode'
<1>1. \A u \in Users : acct'[u].session <= acct'[u].logins + 1 BY SessionsKept
<1>2. ASSUME NEW q \in Requests PROVE OfThisMode(req[q])'
  <2>1. CASE \E p \in Requests : Step(p)
    <3>1. PICK p \in Requests : Step(p) BY <2>1
    <3>2. CASE p = q BY <3>1, <3>2, MoverOfThisMode
    <3>3. CASE p # q BY <3>1, <3>3, StepUndisturbs, BystanderOfThisMode
    <3> QED BY <3>2, <3>3
  <2>2. CASE (\E u \in Users : Login(u)) \/ AdminInvite \/ Preview \/ RuntimeStops
    BY <2>2, SurroundingsUndisturb, BystanderOfThisMode
  <2>3. CASE UNCHANGED vars
    <3>1. UNCHANGED <<data, previews>> /\ req'[q] = req[q] BY <2>3 DEF vars
    <3> QED BY <3>1, QuietStep, BystanderOfThisMode
  <2> QED BY <2>1, <2>2, <2>3 DEF Next
<1> QED BY <1>1, <1>2 DEF RequestsOfThisMode, OfThisMode

----------------------------------------------------------------------------
(* The invariant holds *)

\* A portal with any accounts and teams, before the first request, satisfies the
\* invariant.
LEMMA InitInvariant ==
  ASSUME Init PROVE IInv
<1>1. PICK of \in [Users -> TeamIds \cup {None}] :
        acct = [u \in Users |-> [kind |-> "user", team |-> of[u], session |-> 1, logins |-> 0]]
  BY DEF Init
<1>2. /\ acct \in [Users -> Account]
      /\ \A u \in Users : acct[u].kind = "user" /\ acct[u].session = 1 /\ acct[u].logins = 0
  BY <1>1 DEF Account
<1>3. team \in [TeamIds -> TeamRow]
  <2>1. PICK captains \in [TeamIds -> Users \cup {None}], live \in SUBSET TeamIds :
          team = [t \in TeamIds |-> IF t \in live THEN NewTeam(captains[t])
                                    ELSE [NoTeam EXCEPT !.captain = captains[t]]]
    BY DEF Init
  <2>2. ASSUME NEW c \in Users \cup {None}
        PROVE  NewTeam(c) \in TeamRow /\ [NoTeam EXCEPT !.captain = c] \in TeamRow
    BY DEF NewTeam, NoTeam, TeamRow
  <2>3. \A t \in TeamIds : (IF t \in live THEN NewTeam(captains[t])
                            ELSE [NoTeam EXCEPT !.captain = captains[t]]) \in TeamRow
    BY <2>2
  <2> HIDE DEF NewTeam, NoTeam, TeamRow
  <2> QED BY <2>1, <2>3
<1>4. /\ mode \in {"users", "teams"} /\ audit = 0 /\ running = {} /\ started = 0
      /\ previews = <<>> /\ spent = <<>>
      /\ \A t \in TeamIds : team[t].captain # None => acct[team[t].captain].team = t
      /\ \A u \in Users : acct[u].team # None => Live(acct[u].team)
      /\ mode = "users" => \A t \in TeamIds : ~Live(t)
      /\ req = [p \in Requests |-> Idle]
      /\ invites = [team : {t \in TeamIds : Live(t)}, password : {0}]
  BY DEF Init
<1>5. /\ rows \subseteq CompetitionRow /\ serial \in Nat
      /\ \A row \in rows : row.born = 0 /\ (row.team = None <=> mode = "users")
  <2>1. rows \in {{}} \cup {{[id |-> 1, user |-> u, team |-> acct[u].team, born |-> 0]} :
                            u \in {x \in Users : mode = "teams" => acct[x].team # None}}
        /\ serial = Cardinality(rows)
    BY DEF Init
  <2>2. CASE rows = {} BY <2>1, <2>2, FS_EmptySet
  <2>3. CASE rows # {}
    <3>1. PICK u \in Users : /\ mode = "teams" => acct[u].team # None
                             /\ rows = {[id |-> 1, user |-> u, team |-> acct[u].team, born |-> 0]}
      BY <2>1, <2>3
    <3>2. serial = 1 BY <2>1, <3>1, FS_Singleton
    <3>3. acct[u].team \in TeamIds \cup {None} BY <1>2 DEF Account
    <3> QED BY <1>4, <3>1, <3>2, <3>3 DEF CompetitionRow
  <2> QED BY <2>2, <2>3
<1>6. \A p \in Requests : Held[p] = {} /\ req[p] = Idle BY <1>4, TakenNone DEF Held, Idle
<1>7. RequestsTyped
  <2>1. IsRequest(Idle) /\ Idle.pc = "idle" /\ Idle.taken = 0 BY DEF Idle, IsRequest
  <2> QED BY <1>4, <2>1 DEF RequestsTyped
<1>8. TypeOK
  <2>1. ASSUME NEW p \in Requests PROVE req[p].taken <= Len(Locks(req[p]))
    <3>1. PICK t : t = acct[Idle.user].team OBVIOUS
    <3>2. Len(LocksWith(Idle, t)) \in Nat
      <4>1. CASE Idle.op \in Ops BY <4>1, LocksShape
      <4>2. CASE Idle.op \notin Ops BY <4>2 DEF LocksWith, Ops, ParticipantOps, AdminOps
      <4> QED BY <4>1, <4>2
    <3>3. Idle.taken = 0 BY DEF Idle
    <3> QED BY <1>6, <3>1, <3>2, <3>3 DEF Locks
  <2> QED BY <1>2, <1>3, <1>4, <1>5, <2>1 DEF TypeOK
<1>9. Typed BY <1>4, <1>7, <1>8 DEF Typed
<1>10. MembersAreUsers BY <1>2, <1>4 DEF MembersAreUsers
<1>11. CaptainIsMember BY <1>2, <1>3, <1>4 DEF CaptainIsMember, TeamRow
<1>12. WritersHoldAll /\ DecisionsHold BY <1>6 DEF WritersHoldAll, DecisionsHold, Idle
<1>13. ExclusiveLocks
  <2>1. DOMAIN Held = Requests BY DEF Held
  <2> HIDE DEF Held
  <2> QED BY <1>6, <2>1 DEF ExclusiveLocks, Exclusion
<1>14. RequestsOfThisMode BY <1>2, <1>6 DEF RequestsOfThisMode, Idle
<1>15. NothingOutlivesItsMode BY <1>4, <1>5 DEF NothingOutlivesItsMode
<1>16. SpentIsPast BY <1>4 DEF SpentIsPast
<1> QED BY <1>9, <1>10, <1>11, <1>12, <1>13, <1>14, <1>15, <1>16 DEF IInv

\* Every statement of every handler, and every other step of the team model, keeps
\* the invariant.
LEMMA StepInvariant ==
  ASSUME IInv, [Next]_vars PROVE IInv'
<1>1. /\ RequestsTyped' /\ (\A q \in Requests : req'[q].taken <= Len(Locks(req[q]))')
      /\ WritersHoldAll' /\ ExclusiveLocks' /\ DecisionsHold'
  BY RequestsKept
<1>2. DataOK' BY DataKept
<1>3. TypeOK' BY <1>1, <1>2 DEF TypeOK, DataOK, DataTyped, MembersAreUsers
<1>4. Typed' BY <1>1, <1>2, <1>3 DEF Typed, DataOK, DataTyped
<1> QED BY <1>1, <1>2, <1>4, CredentialsKept, SpentKept DEF IInv, DataOK

\* The inductive invariant of the team handlers.
THEOREM Invariant_Correct == Spec => []IInv
<1>1. Init => IInv BY InitInvariant
<1>2. IInv /\ [Next]_vars => IInv' BY StepInvariant
<1> QED BY <1>1, <1>2, PTL DEF Spec

\* Every variable keeps its type, and no handler takes more locks than it has.
THEOREM TeamsTypeCorrect == Spec => []TypeOK
<1>1. IInv => TypeOK BY DEF IInv, Typed
<1> QED BY <1>1, Invariant_Correct, PTL

\* The captain of a team is one of its members, for any number of users, teams and
\* concurrent handlers: update_captain checks and writes under the membership lock
\* that every handler takes before it takes a member out.
THEOREM CaptainStaysMember == Spec => []CaptainIsMember
<1>1. IInv => CaptainIsMember BY DEF IInv
<1> QED BY <1>1, Invariant_Correct, PTL

\* Nothing of a competition outlives the mode it was played in: the transition ends
\* the participants' sessions under the exclusive configuration lock, and a request
\* under way finds its session gone at its first lock.
THEOREM NothingLeftOver == Spec => []NothingOutlivesItsMode
<1>1. IInv => NothingOutlivesItsMode BY DEF IInv
<1> QED BY <1>1, Invariant_Correct, PTL

\* A commit that changes the data is the write of its handler.
LEMMA CommitIsWrite ==
  ASSUME IInv, [Next]_vars, NEW p \in Requests, NEW op, Commits(p, op)
  PROVE  Step(p) /\ ~(StartParticipant(p) \/ StartAdmin(p) \/ TakeLock(p) \/ Fail(p) \/ Check(p))
         /\ req[p].pc = "writing" /\ req[p].op = op
<1>1. req[p].pc = "writing" /\ req[p].op = op /\ req'[p] = Idle /\ data' # data
  BY DEF Commits, Writes
<1>2. req'[p] # req[p] BY <1>1 DEF Idle
<1>3. PICK q \in Requests : Step(q)
  BY <1>2 DEF Next, Login, AdminInvite, Preview, RuntimeStops, vars
<1>4. p = q BY <1>2, <1>3, StepUndisturbs DEF Undisturbed
<1>5. ~(StartParticipant(p) \/ StartAdmin(p) \/ TakeLock(p) \/ Fail(p) \/ Check(p))
  BY <1>1, Started DEF TakeLock, Fail, Check
<1> QED BY <1>1, <1>3, <1>4, <1>5

\* join_current: the membership lock is held from the count to the write.
THEOREM JoiningFits == Spec => JoinFits
<1>1. ASSUME IInv, [Next]_vars, NEW p \in Requests, Commits(p, "join_current"), TeamSize > 0
      PROVE  Cardinality({u \in Users : acct'[u].team = req[p].team}) <= TeamSize
  <2> DEFINE r == req[p]
             after == {u \in Users : acct'[u].team = r.team}
  <2>1. JoinTeam(p) /\ r.pc = "writing" /\ r.op = "join_current"
    <3>1. /\ Step(p) /\ r.pc = "writing" /\ r.op = "join_current"
          /\ ~(StartParticipant(p) \/ StartAdmin(p) \/ TakeLock(p) \/ Fail(p) \/ Check(p))
      BY <1>1, CommitIsWrite
    <3> QED BY <3>1 DEF Step, CreateTeam, CreateCurrentTeam, RemoveMember, UpdateCaptain, UpdateState,
               DeleteTeam, IssueInvite, MoveUser, ChangeRole, DeleteUser, Compete, Launch,
               Transition, Writes
  <2>2. WellFormed(r) /\ Decided(r) BY <1>1, <2>1, WriterFinds
  <2>3. /\ r.user \in Users /\ acct[r.user].team = None /\ r.team \in TeamIds
        /\ Cardinality(Members(r.team)) < TeamSize
    BY <1>1, <2>1, <2>2 DEF WellFormed, UserOps, TeamOps, Decided, Permitted, MayJoin
  <2>4. acct \in [Users -> Account] BY <1>1 DEF IInv, Typed, TypeOK
  <2>5. after = Members(r.team) \cup {r.user}
    BY <2>1, <2>3, <2>4 DEF JoinTeam, Assign, Members, Account
  <2>6. IsFiniteSet(Members(r.team))
    <3>1. Members(r.team) \subseteq Users BY DEF Members
    <3> QED BY <3>1, TeamsAssumption, FS_Subset
  <2>7. r.user \notin Members(r.team) BY <2>3, TeamsAssumption DEF Members
  <2>8. Cardinality(Members(r.team)) \in Nat BY <2>6, FS_CardinalityType
  <2>9. Cardinality(after) = Cardinality(Members(r.team)) + 1 BY <2>5, <2>6, <2>7, FS_AddElement
  <2>10. TeamSize \in Nat BY TeamsAssumption
  <2> QED BY <2>3, <2>8, <2>9, <2>10
<1>2. IInv /\ [Next]_vars =>
        [\A p \in Requests : Commits(p, "join_current") /\ TeamSize > 0 =>
            Cardinality({u \in Users : acct'[u].team = req[p].team}) <= TeamSize]_vars
  BY <1>1
<1> QED BY <1>2, Invariant_Correct, PTL DEF Spec, JoinFits

\* create_current: the capacity lock, which every handler that creates, lists or
\* allows a team takes, is held from the count to the write.
THEOREM FoundingStaysBelow == Spec => FoundingFits
<1>1. ASSUME IInv, [Next]_vars, NEW p \in Requests, Commits(p, "create_current"), NumTeams > 0
      PROVE  Cardinality(ActiveTeams') <= NumTeams
  <2> DEFINE r == req[p]
  <2>1. CreateCurrentTeam(p) /\ r.pc = "writing" /\ r.op = "create_current"
    <3>1. /\ Step(p) /\ r.pc = "writing" /\ r.op = "create_current"
          /\ ~(StartParticipant(p) \/ StartAdmin(p) \/ TakeLock(p) \/ Fail(p) \/ Check(p))
      BY <1>1, CommitIsWrite
    <3> QED BY <3>1 DEF Step, CreateTeam, JoinTeam, RemoveMember, UpdateCaptain, UpdateState,
               DeleteTeam, IssueInvite, MoveUser, ChangeRole, DeleteUser, Compete, Launch,
               Transition, Writes
  <2>2. WellFormed(r) /\ Decided(r) BY <1>1, <2>1, WriterFinds
  <2>3. /\ r.arg \in TeamIds /\ team[r.arg].state = "none"
        /\ Cardinality(ActiveTeams) < NumTeams
    BY <1>1, <2>1, <2>2 DEF WellFormed, Decided, Permitted, MayCreateCurrent
  <2>4. team \in [TeamIds -> TeamRow] BY <1>1 DEF IInv, Typed, TypeOK
  <2>5. \A t \in TeamIds : t # r.arg => team'[t] = team[t]
    BY <2>1, <2>3, <2>4 DEF CreateCurrentTeam
  <2>6. ActiveTeams' \subseteq ActiveTeams \cup {r.arg}
    BY <2>5 DEF ActiveTeams, Live
  <2>7. IsFiniteSet(ActiveTeams)
    <3>1. ActiveTeams \subseteq TeamIds BY DEF ActiveTeams
    <3> QED BY <3>1, TeamsAssumption, FS_Subset
  <2>8. r.arg \notin ActiveTeams BY <2>3 DEF ActiveTeams, Live
  <2>9. IsFiniteSet(ActiveTeams \cup {r.arg})
        /\ Cardinality(ActiveTeams \cup {r.arg}) = Cardinality(ActiveTeams) + 1
    BY <2>7, <2>8, FS_AddElement
  <2>10. Cardinality(ActiveTeams') <= Cardinality(ActiveTeams \cup {r.arg})
         /\ Cardinality(ActiveTeams') \in Nat
    BY <2>6, <2>9, FS_Subset, FS_CardinalityType
  <2>11. Cardinality(ActiveTeams) \in Nat /\ NumTeams \in Nat
    BY <2>7, FS_CardinalityType, TeamsAssumption
  <2> QED BY <2>3, <2>9, <2>10, <2>11
<1>2. IInv /\ [Next]_vars =>
        [\A p \in Requests : Commits(p, "create_current") /\ NumTeams > 0 =>
            Cardinality(ActiveTeams') <= NumTeams]_vars
  BY <1>1
<1> QED BY <1>2, Invariant_Correct, PTL DEF Spec, FoundingFits

\* delete_current: no submission, award or unlock of the team is recorded between
\* the check and the write.
THEOREM DisbandingUnused == Spec => DisbandsUnused
<1>1. ASSUME IInv, [Next]_vars, NEW p \in Requests, Commits(p, "delete_current")
      PROVE  \A row \in rows : row.team # req[p].team
  <2>1. req[p].pc = "writing" /\ req[p].op = "delete_current" BY <1>1 DEF Commits, Writes
  <2> QED BY <1>1, <2>1, WriterFinds DEF Decided, Permitted, MayDisband
<1>2. IInv /\ [Next]_vars =>
        [\A p \in Requests :
           Commits(p, "delete_current") => \A row \in rows : row.team # req[p].team]_vars
  BY <1>1
<1> QED BY <1>2, Invariant_Correct, PTL DEF Spec, DisbandsUnused

\* The transition deletes what its preview showed, and no preview twice: the audit
\* number in the fingerprint is older after each transition.
THEOREM TransitionMatchesPreview == Spec => TransitionAsPreviewed
<1>1. ASSUME IInv, [Next]_vars, audit' # audit
      PROVE  LET i == spent'[Len(spent')] IN
             previews[i] = Snapshot /\ \A k \in DOMAIN spent : spent[k] # i
  <2>1. PICK p \in Requests : Transition(p) BY <1>1, OtherSteps
  <2>2. req[p].pc = "writing" /\ req[p].op = "transition" BY <2>1 DEF Transition, Writes
  <2>3. Decided(req[p]) BY <1>1, <2>2, WriterFinds
  <2>4. PICK i : i = req[p].arg OBVIOUS
  <2>5. previews[i] = Snapshot BY <2>2, <2>3, <2>4 DEF Decided, Permitted, MayTransition
  <2>6. spent'[Len(spent')] = i
    <3>1. spent \in Seq(Nat) /\ spent' = Append(spent, i)
      BY <1>1, <2>1, <2>4 DEF IInv, Typed, Transition
    <3> QED BY <3>1
  <2>7. previews[i].audit = audit BY <2>5 DEF Snapshot
  <2>8. \A k \in DOMAIN spent : previews[spent[k]].audit < audit BY <1>1 DEF IInv, SpentIsPast
  <2>9. audit \in Nat BY <1>1 DEF IInv, Typed, TypeOK
  <2> HIDE DEF Snapshot
  <2> QED BY <2>5, <2>6, <2>7, <2>8, <2>9
<1>2. IInv /\ [Next]_vars =>
        [audit' # audit =>
           LET i == spent'[Len(spent')] IN
           previews[i] = Snapshot /\ \A k \in DOMAIN spent : spent[k] # i]_vars
  BY <1>1
<1> QED BY <1>2, Invariant_Correct, PTL DEF Spec, TransitionAsPreviewed

----------------------------------------------------------------------------
(* No circle of waiting transactions *)

\* The order in which the handlers take their locks.
Rank(l) ==
    LET kind == l.lock[1] IN
    CASE kind = "configuration" -> 1
      [] kind \in {"team_capacity", "challenge_definition", "registration_capacity"} -> 2
      [] kind = "team_membership" -> 3
      [] kind = "setup_invariant" -> 4
      [] kind = "user" -> 5
      [] OTHER -> 6

\* The locks of the handlers in that order.
LEMMA Ranks ==
  /\ Rank(Configuration) = 1 /\ Rank(Exclusive("configuration")) = 1
  /\ Rank(Capacity) = 2 /\ Rank(Definition) = 2 /\ Rank(Registration) = 2
  /\ Rank(Membership) = 3 /\ Rank(Invariant) = 4
  /\ \A u : Rank(ForUpdate("user", u)) = 5 /\ Rank(KeyShare("user", u)) = 5
  /\ \A t : /\ Rank(ForUpdate("team", t)) = 6 /\ Rank(KeyShare("team", t)) = 6
            /\ Rank(NoKeyUpdate("team", t)) = 6
  /\ \A l : Rank(l) \in 1..6
<1>1. \A l : Rank(l) \in 1..6 BY DEF Rank
<1>2. /\ Rank(Configuration) = 1 /\ Rank(Exclusive("configuration")) = 1
      /\ Rank(Capacity) = 2 /\ Rank(Definition) = 2 /\ Rank(Registration) = 2
      /\ Rank(Membership) = 3 /\ Rank(Invariant) = 4
  BY DEF Rank, Configuration, Capacity, Definition, Registration, Membership, Invariant,
         Shared, Exclusive
<1>3. \A u : Rank(ForUpdate("user", u)) = 5 /\ Rank(KeyShare("user", u)) = 5
  BY DEF Rank, ForUpdate, KeyShare
<1>4. \A t : /\ Rank(ForUpdate("team", t)) = 6 /\ Rank(KeyShare("team", t)) = 6
             /\ Rank(NoKeyUpdate("team", t)) = 6
  BY DEF Rank, ForUpdate, KeyShare, NoKeyUpdate
<1> QED BY <1>1, <1>2, <1>3, <1>4

\* A lock sequence rises, and reaches the teams' rows only after the membership
\* lock.
Rising(m) ==
    \A j \in 1..Len(m) :
        /\ \A i \in 1..(j - 1) : Rank(m[i]) < Rank(m[j]) \/ (Rank(m[i]) = 6 /\ Rank(m[j]) = 6)
        /\ Rank(m[j]) = 6 => \E i \in 1..(j - 1) : m[i] = Membership

\* Every handler takes its locks in the common order.
LEMMA LocksRise ==
  ASSUME NEW r, NEW t, r.op \in Ops
  PROVE  /\ Rising(LocksWith(r, t))
         /\ r.op \in {"compete", "update_captain", "update_state", "transition"} =>
              \A i \in 1..Len(LocksWith(r, t)) : Rank(LocksWith(r, t)[i]) <= 3
<1> DEFINE m == LocksWith(r, t)
<1>0. /\ Rank(Configuration) = 1 /\ Rank(Exclusive("configuration")) = 1
      /\ Rank(Capacity) = 2 /\ Rank(Definition) = 2 /\ Rank(Registration) = 2
      /\ Rank(Membership) = 3 /\ Rank(Invariant) = 4
      /\ Rank(ForUpdate("user", r.user)) = 5 /\ Rank(ForUpdate("team", r.team)) = 6
      /\ Rank(ForUpdate("team", t)) = 6
  BY Ranks
<1>1. CASE r.op = "move_user"
  <2>1. m = MoveUserLocks(r, t) BY <1>1 DEF LocksWith
  <2>2. /\ Len(m) \in Nat /\ Len(m) >= 4 /\ Rank(m[1]) = 1 /\ m[2] = Membership /\ Rank(m[2]) = 3
        /\ Rank(m[3]) = 4 /\ Rank(m[4]) = 5
        /\ \A i \in 5..Len(m) : Rank(m[i]) = 6
    BY <1>0, <2>1, MoveUserShape
  <2> HIDE DEF m
  <2>3. \A j \in 1..Len(m) : j = 1 \/ j = 2 \/ j = 3 \/ j = 4 \/ j \in 5..Len(m) BY <2>2
  <2> QED BY <1>1, <2>2, <2>3 DEF Rising, m
<1>2. CASE r.op = "change_role"
  <2>1. m = ChangeRoleLocks(r, t) BY <1>2 DEF LocksWith
  <2>2. /\ Len(m) \in Nat /\ Len(m) >= 5 /\ Rank(m[1]) = 1 /\ Rank(m[2]) = 2
        /\ m[3] = Membership /\ Rank(m[3]) = 3 /\ Rank(m[4]) = 4 /\ Rank(m[5]) = 5
        /\ \A i \in 6..Len(m) : Rank(m[i]) = 6
    BY <1>0, <2>1, ChangeRoleShape
  <2> HIDE DEF m
  <2>3. \A j \in 1..Len(m) : j = 1 \/ j = 2 \/ j = 3 \/ j = 4 \/ j = 5 \/ j \in 6..Len(m) BY <2>2
  <2> QED BY <1>2, <2>2, <2>3 DEF Rising, m
<1>3. CASE r.op = "launch"
  <2>1. m = LaunchLocks(r) BY <1>3 DEF LocksWith
  <2>2. \/ Len(m) = 4 /\ Rank(m[1]) = 1 /\ Rank(m[2]) = 2 /\ Rank(m[3]) = 3 /\ Rank(m[4]) = 5
        \/ Len(m) = 3 /\ Rank(m[1]) = 1 /\ Rank(m[2]) = 2 /\ Rank(m[3]) = 5
    BY <1>0, <2>1, LaunchShape
  <2> HIDE DEF m
  <2> QED BY <1>3, <2>2 DEF Rising, m
<1>4. CASE r.op \in {"create", "update_state"}
  <2>1. m = <<Configuration, Capacity>> BY <1>4 DEF LocksWith, CreateLocks, UpdateStateLocks
  <2>2. Len(m) = 2 /\ Rank(m[1]) = 1 /\ Rank(m[2]) = 2 BY <1>0, <2>1
  <2> HIDE DEF m
  <2> QED BY <1>4, <2>2 DEF Rising, m
<1>5. CASE r.op = "create_current"
  <2>1. m = <<Configuration, Capacity, Membership, ForUpdate("user", r.user)>>
    BY <1>5 DEF LocksWith, CreateCurrentLocks
  <2>2. Len(m) = 4 /\ Rank(m[1]) = 1 /\ Rank(m[2]) = 2 /\ Rank(m[3]) = 3 /\ Rank(m[4]) = 5
    BY <1>0, <2>1
  <2> HIDE DEF m
  <2> QED BY <1>5, <2>2 DEF Rising, m
<1>6. CASE r.op = "delete_admin"
  <2>1. m = <<Configuration, Capacity, Membership, ForUpdate("team", r.team)>>
    BY <1>6 DEF LocksWith, DeleteAdminLocks
  <2>2. /\ Len(m) = 4 /\ Rank(m[1]) = 1 /\ Rank(m[2]) = 2 /\ Rank(m[3]) = 3 /\ Rank(m[4]) = 6
        /\ m[3] = Membership
    BY <1>0, <2>1
  <2> HIDE DEF m
  <2> QED BY <1>6, <2>2 DEF Rising, m
<1>7. CASE r.op = "delete_current"
  <2>1. m = <<Configuration, Capacity, Membership, ForUpdate("user", r.user), ForUpdate("team", r.team)>>
    BY <1>7 DEF LocksWith, DeleteCurrentLocks
  <2>2. /\ Len(m) = 5 /\ Rank(m[1]) = 1 /\ Rank(m[2]) = 2 /\ Rank(m[3]) = 3 /\ Rank(m[4]) = 5
        /\ Rank(m[5]) = 6 /\ m[3] = Membership
    BY <1>0, <2>1
  <2> HIDE DEF m
  <2> QED BY <1>7, <2>2 DEF Rising, m
<1>8. CASE r.op \in {"join_current", "add_member", "remove_member", "current_invite", "update_current"}
  <2>1. m = <<Configuration, Membership, ForUpdate("user", r.user), ForUpdate("team", r.team)>>
    BY <1>8 DEF LocksWith, JoinLocks, MemberLocks
  <2>2. /\ Len(m) = 4 /\ Rank(m[1]) = 1 /\ Rank(m[2]) = 3 /\ Rank(m[3]) = 5 /\ Rank(m[4]) = 6
        /\ m[2] = Membership
    BY <1>0, <2>1
  <2> HIDE DEF m
  <2> QED BY <1>8, <2>2 DEF Rising, m
<1>9. CASE r.op = "update_captain"
  <2>1. m = <<Configuration, Membership>> BY <1>9 DEF LocksWith, UpdateCaptainLocks
  <2>2. Len(m) = 2 /\ Rank(m[1]) = 1 /\ Rank(m[2]) = 3 BY <1>0, <2>1
  <2> HIDE DEF m
  <2> QED BY <1>9, <2>2 DEF Rising, m
<1>10. CASE r.op = "delete_user"
  <2>1. m = <<Configuration, Registration, Membership, Invariant, ForUpdate("user", r.user)>>
    BY <1>10 DEF LocksWith, DeleteUserLocks
  <2>2. /\ Len(m) = 5 /\ Rank(m[1]) = 1 /\ Rank(m[2]) = 2 /\ Rank(m[3]) = 3 /\ Rank(m[4]) = 4
        /\ Rank(m[5]) = 5
    BY <1>0, <2>1
  <2> HIDE DEF m
  <2> QED BY <1>10, <2>2 DEF Rising, m
<1>11. CASE r.op = "compete"
  <2>1. m = IF r.arg = "teams" THEN <<Configuration, Membership>> ELSE <<Configuration>>
    BY <1>11 DEF LocksWith, CompeteLocks
  <2>2. \/ Len(m) = 2 /\ Rank(m[1]) = 1 /\ Rank(m[2]) = 3
        \/ Len(m) = 1 /\ Rank(m[1]) = 1
    BY <1>0, <2>1
  <2> HIDE DEF m
  <2> QED BY <1>11, <2>2 DEF Rising, m
<1>12. CASE r.op = "transition"
  <2>1. m = <<Exclusive("configuration")>> BY <1>12 DEF LocksWith, TransitionLocks
  <2>2. Len(m) = 1 /\ Rank(m[1]) = 1 BY <1>0, <2>1
  <2> HIDE DEF m
  <2> QED BY <1>12, <2>2 DEF Rising, m
<1> QED BY <1>1, <1>2, <1>3, <1>4, <1>5, <1>6, <1>7, <1>8, <1>9, <1>10, <1>11, <1>12
        DEF Ops, ParticipantOps, AdminOps

\* What a transaction waits for comes after what it has.
LEMMA WantedIsHigher ==
  ASSUME IInv, NEW p \in Requests, NEW w \in Wanted(p), NEW h \in Held[p]
  PROVE  /\ Rank(h) < Rank(w) \/ (Rank(h) = 6 /\ Rank(w) = 6)
         /\ Rank(h) = 6 => Membership \in Held[p]
<1>1. PICK r : r = req[p] OBVIOUS
<1>2. PICK m : m = LocksWith(r, acct[r.user].team) OBVIOUS
<1>3. /\ r.taken \in Nat /\ r.taken <= Len(m) /\ Held[p] = Taken(m, r.taken)
      /\ r.pc # "idle" => r.op \in Ops
      /\ Locks(req[p]) = m
  BY <1>1, <1>2, RequestFields DEF IInv, Typed, TypeOK, Locks
<1>4. r.taken # 0 BY <1>3, TakenNone
<1>5. r.op \in Ops BY <1>1, <1>3, <1>4, RequestFields DEF IInv
<1>6. /\ Rising(m) /\ Len(m) \in Nat
      /\ r.op \in {"compete", "update_captain", "update_state", "transition"} =>
            \A i \in 1..Len(m) : Rank(m[i]) <= 3
  BY <1>2, <1>5, LocksRise, LocksShape
<1>7. PICK i \in 1..r.taken : h = m[i] BY <1>3 DEF Taken
<1>8. Rank(h) \in 1..6 /\ Rank(w) \in 1..6 BY Ranks
<1>9. Rank(h) = 6 => Membership \in Held[p]
  <2> SUFFICES ASSUME Rank(h) = 6 PROVE Membership \in Held[p] OBVIOUS
  <2>1. PICK k \in 1..(i - 1) : m[k] = Membership BY <1>3, <1>6, <1>7 DEF Rising
  <2>2. k \in 1..r.taken BY <1>3, <1>7, <2>1
  <2> QED BY <1>3, <2>1, <2>2 DEF Taken
<1>10. CASE r.pc = "locking" /\ r.taken < Len(Locks(r))
  <2>1. w = m[r.taken + 1]
    <3>1. Wanted(p) = {Locks(req[p])[r.taken + 1]} BY <1>1, <1>10 DEF Wanted
    <3> QED BY <1>3, <3>1
  <2>2. r.taken < Len(m) BY <1>1, <1>3, <1>10
  <2>3. r.taken + 1 \in 1..Len(m) /\ i \in 1..((r.taken + 1) - 1)
    BY <1>3, <1>6, <1>7, <2>2
  <2> QED BY <1>6, <1>7, <1>9, <2>1, <2>3 DEF Rising
<1>11. CASE ~(r.pc = "locking" /\ r.taken < Len(Locks(r)))
  <2>1. /\ r.op \in {"compete", "update_captain", "update_state", "transition"}
        /\ Rank(w) \in {5, 6}
    <3>0. Locks(req[p]) = Locks(r) BY <1>1
    <3>1. r.pc = "writing" /\ r.op \in {"compete", "update_captain", "update_state", "transition"}
      BY <1>1, <1>11, <3>0 DEF Wanted
    <3>2. \/ \E u : w = KeyShare("user", u) \/ w = ForUpdate("user", u)
          \/ \E t : w = KeyShare("team", t) \/ w = ForUpdate("team", t) \/ w = NoKeyUpdate("team", t)
      BY <1>1, <3>1 DEF Wanted
    <3> QED BY <3>1, <3>2, Ranks
  <2>2. Rank(h) <= 3 BY <1>3, <1>6, <1>7, <2>1
  <2> QED BY <1>8, <1>9, <2>1, <2>2
<1> QED BY <1>10, <1>11

\* No handlers wait for each other in a circle.  The transaction of a circle that is
\* waited for at the highest rank would wait itself at a higher one; at the last
\* rank, the teams' rows, it would have to share the membership lock.
THEOREM NobodyWaitsInACircle == Spec => []NoCircularWait
<1>1. ASSUME IInv PROVE NoCircularWait
  <2> DEFINE wanted == [p \in Requests |-> Wanted(p)]
  <2> SUFFICES ASSUME NEW S \in SUBSET Requests, S # {},
                      \A p \in S : \E q \in S : Blocks(Held, wanted, q, p)
               PROVE  FALSE
    <3>1. DOMAIN Held = Requests BY DEF Held
    <3> QED BY <3>1 DEF NoCircularWait, CircularWait
  <2>1. \A p \in S : \E q \in S : q # p /\ \E w \in Wanted(p) : \E h \in Held[q] :
            Rank(h) = Rank(w) /\ Rank(w) \in 1..6
    <3> SUFFICES ASSUME NEW p \in S
                 PROVE  \E q \in S : q # p /\ \E w \in Wanted(p) : \E h \in Held[q] :
                            Rank(h) = Rank(w) /\ Rank(w) \in 1..6
      OBVIOUS
    <3>1. wanted[p] = Wanted(p) OBVIOUS
    <3>2. PICK q \in S : Blocks(Held, wanted, q, p) OBVIOUS
    <3> HIDE DEF wanted
    <3>3. PICK w, h : q # p /\ w \in Wanted(p) /\ h \in Held[q] /\ ~Compatible(h, w)
      BY <3>1, <3>2 DEF Blocks
    <3>4. Rank(h) = Rank(w) /\ Rank(w) \in 1..6 BY <3>3, Ranks DEF Rank, Compatible
    <3> QED BY <3>3, <3>4
  <2> DEFINE At(k) == \E p, q \in S : q # p /\ \E w \in Wanted(p) : \E h \in Held[q] :
                         Rank(h) = k /\ Rank(w) = k
  <2>2. ASSUME NEW k \in 1..6, At(k) PROVE \E j \in 1..6 : j > k /\ At(j)
    <3>1. PICK p, q, w, h : /\ p \in S /\ q \in S /\ w \in Wanted(p) /\ h \in Held[q]
                            /\ q # p /\ Rank(h) = k /\ Rank(w) = k
      BY <2>2
    <3>2. PICK x, v, g : /\ x \in S /\ v \in Wanted(q) /\ g \in Held[x]
                         /\ x # q /\ Rank(g) = Rank(v) /\ Rank(v) \in 1..6
      BY <2>1, <3>1
    <3>3. /\ Rank(h) < Rank(v) \/ (Rank(h) = 6 /\ Rank(v) = 6)
          /\ Rank(h) = 6 => Membership \in Held[q]
      BY <1>1, <3>1, <3>2, WantedIsHigher
    <3>4. \E y : y \in Wanted(x) BY <2>1, <3>2
    <3>5. Rank(g) = 6 => Membership \in Held[x] BY <1>1, <3>2, <3>4, WantedIsHigher
    <3>6. ~(Rank(h) = 6 /\ Rank(g) = 6)
      <4> SUFFICES ASSUME Membership \in Held[q], Membership \in Held[x] PROVE FALSE
        BY <3>3, <3>5
      <4>1. Membership.mode = "exclusive" BY DEF Membership, Exclusive
      <4> QED BY <1>1, <3>1, <3>2, <4>1, HeldAlone DEF IInv
    <3>7. Rank(v) > k BY <3>1, <3>2, <3>3, <3>6
    <3>8. At(Rank(v)) BY <3>1, <3>2
    <3> HIDE DEF At
    <3> QED BY <3>2, <3>7, <3>8
  <2>3. \E k \in 1..6 : At(k)
    <3>1. PICK p, q, w, h : /\ p \in S /\ q \in S /\ w \in Wanted(p) /\ h \in Held[q]
                            /\ q # p /\ Rank(h) = Rank(w) /\ Rank(w) \in 1..6
      BY <2>1
    <3> QED BY <3>1
  <2> HIDE DEF At
  <2>4. ~At(6) BY <2>2
  <2>5. ~At(5) BY <2>2, <2>4
  <2>6. ~At(4) BY <2>2, <2>4, <2>5
  <2>7. ~At(3) BY <2>2, <2>4, <2>5, <2>6
  <2>8. ~At(2) BY <2>2, <2>4, <2>5, <2>6, <2>7
  <2>9. ~At(1) BY <2>2, <2>4, <2>5, <2>6, <2>7, <2>8
  <2>10. \A k \in 1..6 : k = 1 \/ k = 2 \/ k = 3 \/ k = 4 \/ k = 5 \/ k = 6 OBVIOUS
  <2> QED BY <2>3, <2>4, <2>5, <2>6, <2>7, <2>8, <2>9, <2>10
<1> QED BY <1>1, Invariant_Correct, PTL
=============================================================================
