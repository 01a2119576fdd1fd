---------------------------- MODULE ScoringProofs ----------------------------
(***************************************************************************)
(* What the locks of attempts, purchases and edits guarantee, for any      *)
(* number of participants, challenges and transactions.                    *)
(*                                                                         *)
(* The argument is that of TeamsProofs: conflicting locks are not held     *)
(* together, so what a transaction concluded from the tables it read       *)
(* (Concluded) is still true when it writes.                               *)
(***************************************************************************)
EXTENDS Scoring, SequenceTheorems, FiniteSetTheorems, TLAPS

Ops     == {"attempt", "unlock", "edit", "submission", "award", "unaward"}
UserOps == Ops \ {"edit"}
ChalOps == {"attempt", "edit", "submission"}
Deciding == {"writing", "counted"}

\* A transaction has the fields of Idle.
IsRequest(r) ==
    /\ r = [pc |-> r.pc, op |-> r.op, user |-> r.user, chal |-> r.chal, hint |-> r.hint,
            flag |-> r.flag, edit |-> r.edit, outcome |-> r.outcome, read |-> r.read,
            count |-> r.count, seen |-> r.seen, taken |-> r.taken]
    /\ r.pc \in {"idle", "locking", "writing", "counted"} /\ r.taken \in Nat

\* A challenge keeps its kind: only a dynamic one has a dynamic value.
RowOf(c, row) == row \in ChallengeRow /\ (row.function = "static" <=> c \notin Dynamic)

\* A request names what its handler needs, and has read what it writes from.
WellFormed(r) ==
    /\ r.op \in Ops
    /\ r.op \in UserOps => r.user \in Users
    /\ r.op \in ChalOps => r.chal \in Challenges
    /\ r.op = "unlock" => r.hint \in Hints
    /\ r.op \in {"attempt", "submission"} => r.flag \in Flags \cup {None}
    /\ r.op = "edit" => RowOf(r.chal, r.edit)
    /\ r.pc \in Deciding /\ r.op = "attempt" => RowOf(r.chal, r.read)
    /\ r.pc \in Deciding /\ r.op = "edit" => r.read = r.edit
    /\ r.pc \in Deciding /\ r.outcome = "correct" => r.op = "attempt"
    /\ r.pc = "counted" =>
          /\ r.op \in {"attempt", "edit"} /\ r.chal \in Dynamic /\ r.count \in Nat
          /\ r.op = "attempt" => r.outcome = "correct"

RequestsTyped ==
    /\ req = [p \in Requests |-> req[p]] /\ \A p \in Requests : IsRequest(req[p])
    /\ \A p \in Requests : req[p].pc # "idle" => WellFormed(req[p])
    /\ \A p \in Requests : req[p].pc = "idle" => req[p].taken = 0

DataTyped ==
    /\ chal \in [Challenges -> ChallengeRow]
    /\ solves \subseteq Solve
    /\ partial \subseteq [user : Users, account : Accounts, chal : Challenges,
                         flag : Flags \cup {None}]
    /\ fails \in [Accounts \X Challenges -> Nat] /\ recent \in [Accounts -> Nat]
    /\ given \in [Accounts \X Challenges -> Nat]
    /\ unlocked \subseteq Accounts \X Hints
    /\ charges \in [Accounts -> Nat] /\ awards \subseteq Accounts
    /\ teams \in BOOLEAN /\ lockout \in BOOLEAN
    /\ touched \in [Challenges -> Nat] /\ counted \in [Challenges -> Nat]
    /\ overlapped \subseteq Challenges
    /\ \A c \in Challenges : RowOf(c, chal[c])

\* A solve is of the account its user plays for.
SolvesOfAccounts == \A s \in solves : s.account = Account(s.user)

\* Counted is what it was when the solves were counted.
CountedIsPast == \A c \in Challenges : counted[c] <= touched[c]

\* A transaction takes no more locks than its handler has, and writes with those
\* of the reading step; the value is computed with all of them.
LocksTaken ==
    \A p \in Requests :
        LET r == req[p] IN
        /\ r.taken <= Len(Locks(r))
        /\ r.pc \in Deciding => r.taken >= Len(ReadLocks(r))
        /\ r.pc = "counted" => r.taken = Len(Locks(r))

\* No two transactions hold conflicting locks.
ExclusiveLocks == Exclusion(Held)

Own(r) == IF r.op = "attempt" THEN {Account(r.user)} ELSE {}

\* There is room for a wrong answer under the limit that was read, but for what
\* administrators recorded since.
HasTry(r) ==
    LET k == <<Account(r.user), r.chal>> IN
    r.seen \in Nat /\ fails[k] < r.read.tries + (given[k] - r.seen)

\* What a handler concluded: a wrong answer is within the limit, a correct one is
\* the first, the points are there, the solves were counted.
Concluded(r) ==
    /\ r.pc \in Deciding /\ r.op = "attempt" /\ r.outcome = "incorrect" /\ r.read.tries > 0
         => HasTry(r)
    /\ r.pc \in Deciding /\ r.op = "attempt" /\ r.outcome = "correct" /\ Duplicate(r)
         => touched[r.chal] > 0
    /\ r.pc \in Deciding /\ r.op = "unlock" => charges[Account(r.user)] + Cost <= r.seen
    /\ r.pc = "counted" =>
         /\ r.seen \in Nat /\ r.seen <= touched[r.chal]
         /\ r.seen = touched[r.chal]
              => r.count = Cardinality(SolversOf(solves, r.chal) \cup Own(r))

ConclusionsHold == \A p \in Requests : Concluded(req[p])

IInv == /\ RequestsTyped /\ DataTyped /\ started \in Nat
        /\ SolvesOfAccounts /\ CountedIsPast /\ LocksTaken /\ ExclusiveLocks
        /\ ConclusionsHold /\ ValueFollowsSolves

----------------------------------------------------------------------------
(* Locks taken one after the other *)

\* Whoever holds an exclusive lock holds it alone (pg_advisory_xact_lock,
\* SELECT ... FOR UPDATE).
LEMMA ExclusiveHolder ==
  ASSUME NEW held, Exclusion(held), NEW p \in DOMAIN held, NEW q \in DOMAIN held,
         NEW l \in held[p], NEW h \in held[q], l.lock = h.lock, l.mode = "exclusive"
  PROVE  p = q
  BY DEF Exclusion, Compatible

\* Taking one more lock under MayTake, while the others keep or release theirs,
\* preserves the exclusion.
LEMMA TakeKeepsExclusion ==
  ASSUME NEW held, NEW after, NEW p, NEW l, Exclusion(held), MayTake(held, p, l),
         DOMAIN after = DOMAIN held,
         \A q \in DOMAIN held : after[q] \subseteq held[q] \cup (IF q = p THEN {l} ELSE {})
  PROVE  Exclusion(after)
<1> SUFFICES ASSUME NEW a \in DOMAIN held, NEW b \in DOMAIN held, a # b,
                    NEW x \in after[a], NEW y \in after[b]
             PROVE  Compatible(x, y)
  BY DEF Exclusion
<1>1. CASE x \in held[a] /\ y \in held[b] BY <1>1 DEF Exclusion
<1>2. CASE x \notin held[a]
  <2>1. a = p /\ x = l /\ y \in held[b] BY <1>2
  <2>2. {x.mode, y.mode} = {y.mode, x.mode} OBVIOUS
  <2> QED BY <2>1, <2>2 DEF MayTake, Compatible
<1>3. CASE y \notin held[b] BY <1>3 DEF MayTake
<1> QED BY <1>1, <1>2, <1>3

\* Releasing locks, by committing or rolling back, preserves the exclusion.
LEMMA ReleaseKeepsExclusion ==
  ASSUME NEW held, NEW after, Exclusion(held), DOMAIN after = DOMAIN held,
         \A q \in DOMAIN held : after[q] \subseteq held[q]
  PROVE  Exclusion(after)
  BY DEF Exclusion

\* The locks of a transaction as it takes them one after the other.
LEMMA TakenNext ==
  ASSUME NEW seq, NEW n \in Nat
  PROVE  Taken(seq, n + 1) = Taken(seq, n) \cup {seq[n + 1]}
<1>1. 1..(n + 1) = (1..n) \cup {n + 1} OBVIOUS
<1> QED BY <1>1 DEF Taken

\* Nothing is held before the first lock.
LEMMA TakenNone == ASSUME NEW seq PROVE Taken(seq, 0) = {}
<1>1. 1..0 = {} OBVIOUS
<1> QED BY <1>1 DEF Taken

\* A lock sequence put together from short ones, written out.
LEMMA ConcatLiterals ==
  ASSUME NEW a, NEW b, NEW c
  PROVE  <<a>> \o <<b>> = <<a, b>> /\ <<a, b>> \o <<c>> = <<a, b, c>>
<1> DEFINE S == {a, b, c}
<1>1. a \in S /\ b \in S /\ c \in S OBVIOUS
<1> HIDE DEF S
<1>2. <<a>> \in Seq(S) /\ <<b>> \in Seq(S) /\ <<c>> \in Seq(S) /\ <<a, b>> \in Seq(S) /\ <<a, b, c>> \in Seq(S) BY <1>1
<1>3. PICK s, t : s = <<a>> \o <<b>> /\ t = <<a, b>> OBVIOUS
<1>4. s = t
  <2>1. s \in Seq(S) /\ Len(s) = 2 /\ s[1] = a /\ s[2] = b BY <1>2, <1>3
  <2>2. t \in Seq(S) /\ Len(t) = 2 /\ t[1] = a /\ t[2] = b BY <1>2, <1>3
  <2>3. \A i \in 1..Len(s) : s[i] = t[i] BY <2>1, <2>2
  <2> QED BY <2>1, <2>2, <2>3, SeqEqual
<1>5. PICK u, v : u = <<a, b>> \o <<c>> /\ v = <<a, b, c>> OBVIOUS
<1>6. u = v
  <2>1. u \in Seq(S) /\ Len(u) = 3 /\ u[1] = a /\ u[2] = b /\ u[3] = c BY <1>2, <1>5
  <2>2. v \in Seq(S) /\ Len(v) = 3 /\ v[1] = a /\ v[2] = b /\ v[3] = c BY <1>2, <1>5
  <2>3. \A i \in 1..Len(u) : u[i] = v[i] BY <2>1, <2>2
  <2> QED BY <2>1, <2>2, <2>3, SeqEqual
<1> QED BY <1>3, <1>4, <1>5, <1>6

----------------------------------------------------------------------------
(* The locks of the handlers *)

\* The order in which the handlers take their locks.
Rank(l) ==
    LET kind == l.lock[1] IN
    CASE kind = "configuration" -> 1
      [] kind \in {"team_membership", "challenge_definition"} -> 2
      [] kind \in {"attempt", "content_unlock", "submission"} -> 3
      [] kind = "challenge" -> 4
      [] OTHER -> 5

\* The locks of the handlers in that order.
LEMMA Ranks ==
  /\ Rank(Configuration) = 1 /\ Rank(Membership) = 2 /\ \A c : Rank(Definition(c)) = 2
  /\ \A a, c : Rank(AccountLock(a, c)) = 3
  /\ \A a : Rank(UnlockLock(a)) = 3
  /\ \A r : Rank(SubmissionRow(r)) = 3
  /\ \A c : /\ Rank(ForUpdate("challenge", c)) = 4 /\ Rank(KeyShare("challenge", c)) = 4
            /\ Rank(NoKeyUpdate("challenge", c)) = 4
            /\ Rank(DynamicScore(c)) = 5
  /\ \A l : Rank(l) \in 1..5
<1>1. \A l : Rank(l) \in 1..5 BY DEF Rank
<1>2. Rank(Configuration) = 1 /\ Rank(Membership) = 2 /\ \A c : Rank(Definition(c)) = 2
  BY DEF Rank, Configuration, Membership, Definition, Shared, Exclusive, ExclusiveOn
<1>3. (\A a, c : Rank(AccountLock(a, c)) = 3) /\ \A a : Rank(UnlockLock(a)) = 3
  BY DEF Rank, AccountLock, UnlockLock, ExclusiveOn
<1>4. \A c : /\ Rank(ForUpdate("challenge", c)) = 4 /\ Rank(KeyShare("challenge", c)) = 4
             /\ Rank(NoKeyUpdate("challenge", c)) = 4
             /\ Rank(DynamicScore(c)) = 5
  BY DEF Rank, ForUpdate, KeyShare, NoKeyUpdate, DynamicScore, ExclusiveOn
<1>5. \A r : Rank(SubmissionRow(r)) = 3 BY DEF Rank, SubmissionRow, ForUpdate, ExclusiveOn
<1> QED BY <1>1, <1>2, <1>3, <1>4, <1>5

\* What the handlers lock before they read.
LEMMA ReadShape ==
  ASSUME NEW r, r.op \in Ops
  PROVE  LET R == ReadLocks(r) IN
         \/ /\ r.op = "attempt" /\ teams
            /\ R = <<Configuration, Membership, AccountLock(Account(r.user), r.chal)>>
         \/ /\ r.op = "attempt" /\ ~teams
            /\ R = <<Configuration, AccountLock(Account(r.user), r.chal)>>
         \/ /\ r.op = "unlock" /\ teams
            /\ R = <<Configuration, Membership, UnlockLock(Account(r.user))>>
         \/ /\ r.op = "unlock" /\ ~teams
            /\ R = <<Configuration, UnlockLock(Account(r.user))>>
         \/ r.op = "edit" /\ R = <<Configuration, Definition(r.chal), ForUpdate("challenge", r.chal)>>
         \/ r.op \in {"submission", "award"} /\ R = <<Configuration, Membership>>
         \/ r.op \in {"submission", "unaward"} /\ R = <<Configuration>>
         \/ r.op = "submission" /\ R = <<Configuration, Membership, SubmissionRow(r)>>
         \/ r.op = "submission" /\ R = <<Configuration, SubmissionRow(r)>>
<1>1. ASSUME NEW l
      PROVE  <<Configuration>> \o InTeam \o <<l>> =
               IF teams THEN <<Configuration, Membership, l>> ELSE <<Configuration, l>>
  <2>1. CASE teams
    <3>1. InTeam = <<Membership>> BY <2>1 DEF InTeam
    <3>2. <<Configuration>> \o <<Membership>> = <<Configuration, Membership>> BY ConcatLiterals
    <3>3. <<Configuration, Membership>> \o <<l>> = <<Configuration, Membership, l>> BY ConcatLiterals
    <3> QED BY <2>1, <3>1, <3>2, <3>3
  <2>2. CASE ~teams
    <3>1. InTeam = <<>> BY <2>2 DEF InTeam
    <3>2. <<Configuration>> \o <<>> = <<Configuration>> OBVIOUS
    <3>3. <<Configuration>> \o <<l>> = <<Configuration, l>> BY ConcatLiterals
    <3> QED BY <2>2, <3>1, <3>2, <3>3
  <2> QED BY <2>1, <2>2
<1>2. CASE r.op = "attempt"
  <2>1. ReadLocks(r) = <<Configuration>> \o InTeam \o <<AccountLock(Account(r.user), r.chal)>>
    BY <1>2 DEF ReadLocks, AttemptLocks
  <2> QED BY <1>1, <1>2, <2>1
<1>3. CASE r.op = "unlock"
  <2>1. ReadLocks(r) = <<Configuration>> \o InTeam \o <<UnlockLock(Account(r.user))>>
    BY <1>3 DEF ReadLocks, UnlockLocks
  <2> QED BY <1>1, <1>3, <2>1
<1>4. CASE r.op = "edit" BY <1>4 DEF ReadLocks, EditLocks
<1>5. CASE r.op \in {"award", "unaward"} BY <1>5 DEF ReadLocks, RecordLocks, RemoveLocks
<1>6. CASE r.op = "submission"
  <2>1. ReadLocks(r) = (IF r.edit.to = None THEN <<Configuration>> ELSE <<Configuration, Membership>>)
                         \o (IF r.edit.from = None THEN <<>> ELSE <<SubmissionRow(r)>>)
    BY <1>6 DEF ReadLocks, SubmissionLocks, RecordLocks, RemoveLocks
  <2>2. /\ <<Configuration>> \o <<>> = <<Configuration>>
        /\ <<Configuration, Membership>> \o <<>> = <<Configuration, Membership>>
    OBVIOUS
  <2>3. /\ <<Configuration>> \o <<SubmissionRow(r)>> = <<Configuration, SubmissionRow(r)>>
        /\ <<Configuration, Membership>> \o <<SubmissionRow(r)>>
              = <<Configuration, Membership, SubmissionRow(r)>>
    BY ConcatLiterals
  <2> QED BY <1>6, <2>1, <2>2, <2>3
<1> QED BY <1>2, <1>3, <1>4, <1>5, <1>6 DEF Ops

LateLocks(r) == IF r.pc \in Deciding THEN WriteLocks(r) ELSE <<>>

\* What they lock when they write.
LEMMA LateShape ==
  ASSUME NEW r, r.op \in Ops
  PROVE  LET W == LateLocks(r) IN
         \/ W = <<>>
         \/ /\ r.op = "attempt" /\ r.outcome = "correct" /\ r.read.function # "static"
            /\ r.pc \in Deciding
            /\ W = <<KeyShare("challenge", r.chal), DynamicScore(r.chal)>>
         \/ r.op \in {"attempt", "submission"} /\ W = <<KeyShare("challenge", r.chal)>>
         \/ r.op = "edit" /\ W = <<DynamicScore(r.chal)>>
<1>1. CASE r.pc \notin Deciding BY <1>1 DEF LateLocks
<1>2. CASE r.pc \in Deciding /\ r.op = "attempt" /\ r.outcome = "correct"
  <2>1. LateLocks(r) = <<KeyShare("challenge", r.chal)>> \o ScoreLocks(r)
    BY <1>2 DEF LateLocks, WriteLocks
  <2>2. CASE r.read.function = "static"
    <3>1. <<KeyShare("challenge", r.chal)>> \o <<>> = <<KeyShare("challenge", r.chal)>> OBVIOUS
    <3> QED BY <1>2, <2>1, <2>2, <3>1 DEF ScoreLocks
  <2>3. CASE r.read.function # "static"
    <3>1. <<KeyShare("challenge", r.chal)>> \o <<DynamicScore(r.chal)>>
            = <<KeyShare("challenge", r.chal), DynamicScore(r.chal)>>
      BY ConcatLiterals
    <3> QED BY <1>2, <2>1, <2>3, <3>1 DEF ScoreLocks
  <2> QED BY <2>2, <2>3
<1>3. CASE r.pc \in Deciding /\ ~(r.op = "attempt" /\ r.outcome = "correct")
  <2>1. LateLocks(r) = WriteLocks(r) BY <1>3 DEF LateLocks
  <2>2. CASE r.op \in {"attempt", "submission"} BY <1>3, <2>1, <2>2 DEF WriteLocks
  <2>3. CASE r.op = "edit"
    <3>1. LateLocks(r) = ScoreLocks(r) BY <2>1, <2>3 DEF WriteLocks
    <3> QED BY <2>3, <3>1 DEF ScoreLocks
  <2>4. CASE r.op \notin {"attempt", "submission", "edit"} BY <2>1, <2>4 DEF WriteLocks
  <2> QED BY <2>2, <2>3, <2>4
<1> QED BY <1>1, <1>2, <1>3

\* A lock sequence rises.
Rising(m) == \A j \in 1..Len(m) : \A i \in 1..(j - 1) : Rank(m[i]) < Rank(m[j])

\* Sequences of at most three locks.
LEMMA Short ==
  ASSUME NEW S, NEW x \in S, NEW y \in S, NEW z \in S, NEW m
  PROVE  /\ m = <<>> => m \in Seq(S) /\ Len(m) = 0
         /\ m = <<x>> => m \in Seq(S) /\ Len(m) = 1 /\ m[1] = x
         /\ m = <<x, y>> => m \in Seq(S) /\ Len(m) = 2 /\ m[1] = x /\ m[2] = y
         /\ m = <<x, y, z>> => m \in Seq(S) /\ Len(m) = 3 /\ m[1] = x /\ m[2] = y /\ m[3] = z
<1>1. <<>> \in Seq(S) /\ Len(<<>>) = 0 OBVIOUS
<1>2. <<x>> \in Seq(S) /\ Len(<<x>>) = 1 /\ <<x>>[1] = x OBVIOUS
<1>3. <<x, y>> \in Seq(S) /\ Len(<<x, y>>) = 2 /\ <<x, y>>[1] = x /\ <<x, y>>[2] = y OBVIOUS
<1>4. <<x, y, z>> \in Seq(S) /\ Len(<<x, y, z>>) = 3
      /\ <<x, y, z>>[1] = x /\ <<x, y, z>>[2] = y /\ <<x, y, z>>[3] = z
  OBVIOUS
<1> QED BY <1>1, <1>2, <1>3, <1>4

\* A sequence of at most three locks of rising rank rises.
LEMMA ShortRising ==
  ASSUME NEW m,
         \/ Len(m) \in {0, 1}
         \/ Len(m) = 2 /\ Rank(m[1]) < Rank(m[2])
         \/ Len(m) = 3 /\ Rank(m[1]) < Rank(m[2]) /\ Rank(m[2]) < Rank(m[3])
  PROVE  Rising(m)
<1>1. \A l : Rank(l) \in Nat BY Ranks
<1> HIDE DEF Rank
<1> QED BY <1>1 DEF Rising

\* A rising sequence followed by one that starts higher rises.
LEMMA RisingJoin ==
  ASSUME NEW S, NEW s \in Seq(S), NEW t \in Seq(S), NEW k \in Nat,
         Rising(s), Rising(t),
         \A i \in 1..Len(s) : Rank(s[i]) <= k, \A i \in 1..Len(t) : Rank(t[i]) > k
  PROVE  /\ Rising(s \o t) /\ s \o t \in Seq(S) /\ Len(s \o t) = Len(s) + Len(t)
         /\ \A i \in 1..(Len(s) + Len(t)) :
               (s \o t)[i] = IF i <= Len(s) THEN s[i] ELSE t[i - Len(s)]
<1>1. /\ s \o t \in Seq(S) /\ Len(s \o t) = Len(s) + Len(t)
      /\ \A i \in 1..(Len(s) + Len(t)) :
            (s \o t)[i] = IF i <= Len(s) THEN s[i] ELSE t[i - Len(s)]
  OBVIOUS
<1>2. Len(s) \in Nat /\ Len(t) \in Nat OBVIOUS
<1>3. \A l : Rank(l) \in Nat BY Ranks
<1>4. PICK m : m = s \o t OBVIOUS
<1>5. Rising(m)
  <2> SUFFICES ASSUME NEW j \in 1..Len(m), NEW i \in 1..(j - 1)
               PROVE  Rank(m[i]) < Rank(m[j])
    BY DEF Rising
  <2> HIDE DEF Rank
  <2>0. i \in 1..(Len(s) + Len(t)) /\ j \in 1..(Len(s) + Len(t)) /\ i < j BY <1>1, <1>2, <1>4
  <2>1. CASE j <= Len(s)
    <3>1. m[i] = s[i] /\ m[j] = s[j] /\ i \in 1..(j - 1) /\ j \in 1..Len(s)
      BY <1>1, <1>2, <1>4, <2>0, <2>1
    <3> QED BY <3>1 DEF Rising
  <2>2. CASE i <= Len(s) /\ j > Len(s)
    <3>1. m[i] = s[i] /\ m[j] = t[j - Len(s)] /\ i \in 1..Len(s) /\ j - Len(s) \in 1..Len(t)
      BY <1>1, <1>2, <1>4, <2>0, <2>2
    <3>2. Rank(m[i]) <= k /\ Rank(m[j]) > k BY <3>1
    <3> QED BY <1>3, <3>2
  <2>3. CASE i > Len(s)
    <3>1. m[i] = t[i - Len(s)] /\ m[j] = t[j - Len(s)] /\ j - Len(s) \in 1..Len(t)
          /\ i - Len(s) \in 1..((j - Len(s)) - 1)
      BY <1>1, <1>2, <1>4, <2>0, <2>3
    <3> QED BY <3>1 DEF Rising
  <2> QED BY <1>2, <2>0, <2>1, <2>2, <2>3
<1> QED BY <1>1, <1>4, <1>5

\* Where the locks of two joined sequences are.
LEMMA JoinedLocks ==
  ASSUME NEW m, NEW a, NEW b, Len(a) \in 1..3, Len(b) \in 0..2, Len(m) = Len(a) + Len(b),
         \A i \in 1..(Len(a) + Len(b)) : m[i] = IF i <= Len(a) THEN a[i] ELSE b[i - Len(a)]
  PROVE  /\ \A i \in 1..Len(a) : m[i] = a[i]
         /\ \A n \in Nat : n >= Len(a) => a[Len(a)] \in Taken(m, n)
         /\ \A i \in 1..Len(b) : b[i] \in Taken(m, Len(m))
<1>1. PICK x \in 1..3, y \in 0..2 : x = Len(a) /\ y = Len(b) OBVIOUS
<1>2. Len(m) = x + y /\ \A i \in 1..(x + y) : m[i] = IF i <= x THEN a[i] ELSE b[i - x] BY <1>1
<1>3. \A i \in 1..x : m[i] = a[i] BY <1>2
<1>4. ASSUME NEW n \in Nat, n >= x PROVE a[x] \in Taken(m, n)
  <2>1. m[x] = a[x] /\ x \in 1..n BY <1>3, <1>4
  <2> QED BY <2>1 DEF Taken
<1>5. ASSUME NEW i \in 1..y PROVE b[i] \in Taken(m, x + y)
  <2>1. i + x \in 1..(x + y) /\ ~(i + x <= x) /\ (i + x) - x = i OBVIOUS
  <2>2. m[i + x] = b[i] BY <1>2, <2>1
  <2> QED BY <2>1, <2>2 DEF Taken
<1> QED BY <1>1, <1>2, <1>3, <1>4, <1>5

\* The locks a handler may take.
LocksOf(r) ==
    {Configuration, Membership, Definition(r.chal), ForUpdate("challenge", r.chal),
     KeyShare("challenge", r.chal), AccountLock(Account(r.user), r.chal),
     UnlockLock(Account(r.user)), DynamicScore(r.chal), SubmissionRow(r)}

\* Every handler takes its locks in the common order, the configuration lock first
\* and those of its writes after those of its reading step.
LEMMA LocksShape ==
  ASSUME NEW r, r.op \in Ops
  PROVE  LET m == Locks(r)
             R == ReadLocks(r)
         IN  /\ Len(m) \in Nat /\ Len(R) \in Nat /\ Len(R) >= 1 /\ Len(R) <= Len(m)
             /\ Rising(m) /\ (\A i \in 1..Len(R) : m[i] = R[i]) /\ m \in Seq(LocksOf(r))
             /\ r.pc \notin Deciding => Len(m) = Len(R)
             /\ \A n \in Nat : n >= Len(R) /\ r.op = "attempt"
                  => AccountLock(Account(r.user), r.chal) \in Taken(m, n)
             /\ \A n \in Nat : n >= Len(R) /\ r.op = "unlock"
                  => UnlockLock(Account(r.user)) \in Taken(m, n)
             /\ LateLocks(r) = <<KeyShare("challenge", r.chal), DynamicScore(r.chal)>>
                  => /\ DynamicScore(r.chal) \in Taken(m, Len(m))
                     /\ KeyShare("challenge", r.chal) \in Taken(m, Len(m))
             /\ LateLocks(r) = <<DynamicScore(r.chal)>> => DynamicScore(r.chal) \in Taken(m, Len(m))
<1> DEFINE R == ReadLocks(r)
           W == LateLocks(r)
           S == LocksOf(r)
<1>0. Locks(r) = R \o W BY DEF Locks, LateLocks, Deciding
<1>r. /\ Rank(Configuration) = 1 /\ Rank(Membership) = 2 /\ Rank(Definition(r.chal)) = 2
      /\ Rank(AccountLock(Account(r.user), r.chal)) = 3 /\ Rank(UnlockLock(Account(r.user))) = 3
      /\ Rank(ForUpdate("challenge", r.chal)) = 4 /\ Rank(KeyShare("challenge", r.chal)) = 4
      /\ Rank(DynamicScore(r.chal)) = 5 /\ Rank(SubmissionRow(r)) = 3
  BY Ranks
<1>s. /\ Configuration \in S /\ Membership \in S /\ Definition(r.chal) \in S
      /\ ForUpdate("challenge", r.chal) \in S /\ KeyShare("challenge", r.chal) \in S
      /\ AccountLock(Account(r.user), r.chal) \in S /\ UnlockLock(Account(r.user)) \in S
      /\ DynamicScore(r.chal) \in S /\ SubmissionRow(r) \in S
  BY DEF LocksOf
<1> HIDE DEF S
<1>1. PICK a : /\ a = R /\ a \in Seq(S) /\ Len(a) \in 1..3 /\ Rising(a)
               /\ \A i \in 1..Len(a) : Rank(a[i]) <= IF r.op = "edit" THEN 4 ELSE 3
               /\ r.op = "attempt" => a[Len(a)] = AccountLock(Account(r.user), r.chal)
               /\ r.op = "unlock" => a[Len(a)] = UnlockLock(Account(r.user))
  <2>1. PICK x, y, z : /\ x = AccountLock(Account(r.user), r.chal)
                       /\ y = UnlockLock(Account(r.user)) /\ z = SubmissionRow(r)
    OBVIOUS
  <2>2. \/ r.op = "attempt" /\ R = <<Configuration, Membership, x>>
        \/ r.op = "attempt" /\ R = <<Configuration, x>>
        \/ r.op = "unlock" /\ R = <<Configuration, Membership, y>>
        \/ r.op = "unlock" /\ R = <<Configuration, y>>
        \/ r.op = "edit" /\ R = <<Configuration, Definition(r.chal), ForUpdate("challenge", r.chal)>>
        \/ r.op \in {"submission", "award"} /\ R = <<Configuration, Membership>>
        \/ r.op \in {"submission", "unaward"} /\ R = <<Configuration>>
        \/ r.op = "submission" /\ R = <<Configuration, Membership, z>>
        \/ r.op = "submission" /\ R = <<Configuration, z>>
    BY <2>1, ReadShape
  <2>3. PICK d, f : d = Definition(r.chal) /\ f = ForUpdate("challenge", r.chal) OBVIOUS
  <2>4. PICK c, e : c = Configuration /\ e = Membership OBVIOUS
  <2>5. /\ x \in S /\ y \in S /\ z \in S /\ Rank(z) = 3 /\ d \in S /\ f \in S /\ c \in S /\ e \in S
        /\ Rank(x) = 3 /\ Rank(y) = 3 /\ Rank(d) = 2 /\ Rank(f) = 4 /\ Rank(c) = 1 /\ Rank(e) = 2
    BY <1>r, <1>s, <2>1, <2>3, <2>4
  <2>6. PICK a : a = R OBVIOUS
  <2> HIDE DEF Rank, R
  <2>7. /\ a \in Seq(S)
        /\ \/ r.op = "attempt" /\ Len(a) = 3 /\ a[1] = c /\ a[2] = e /\ a[3] = x
           \/ r.op = "attempt" /\ Len(a) = 2 /\ a[1] = c /\ a[2] = x
           \/ r.op = "unlock" /\ Len(a) = 3 /\ a[1] = c /\ a[2] = e /\ a[3] = y
           \/ r.op = "unlock" /\ Len(a) = 2 /\ a[1] = c /\ a[2] = y
           \/ r.op = "edit" /\ Len(a) = 3 /\ a[1] = c /\ a[2] = d /\ a[3] = f
           \/ r.op \in {"submission", "award"} /\ Len(a) = 2 /\ a[1] = c /\ a[2] = e
           \/ r.op \in {"submission", "unaward"} /\ Len(a) = 1 /\ a[1] = c
           \/ r.op = "submission" /\ Len(a) = 3 /\ a[1] = c /\ a[2] = e /\ a[3] = z
           \/ r.op = "submission" /\ Len(a) = 2 /\ a[1] = c /\ a[2] = z
    <3>1. \/ r.op = "attempt" /\ a = <<c, e, x>>
          \/ r.op = "attempt" /\ a = <<c, x>>
          \/ r.op = "unlock" /\ a = <<c, e, y>>
          \/ r.op = "unlock" /\ a = <<c, y>>
          \/ r.op = "edit" /\ a = <<c, d, f>>
          \/ r.op \in {"submission", "award"} /\ a = <<c, e>>
          \/ r.op \in {"submission", "unaward"} /\ a = <<c>>
          \/ r.op = "submission" /\ a = <<c, e, z>>
          \/ r.op = "submission" /\ a = <<c, z>>
      BY <2>2, <2>3, <2>4, <2>6
    <3>2. a = <<c, e, x>> => a \in Seq(S) /\ Len(a) = 3 /\ a[1] = c /\ a[2] = e /\ a[3] = x
      BY <2>5, Short
    <3>3. a = <<c, x>> => a \in Seq(S) /\ Len(a) = 2 /\ a[1] = c /\ a[2] = x BY <2>5, Short
    <3>4. a = <<c, e, y>> => a \in Seq(S) /\ Len(a) = 3 /\ a[1] = c /\ a[2] = e /\ a[3] = y
      BY <2>5, Short
    <3>5. a = <<c, y>> => a \in Seq(S) /\ Len(a) = 2 /\ a[1] = c /\ a[2] = y BY <2>5, Short
    <3>6. a = <<c, d, f>> => a \in Seq(S) /\ Len(a) = 3 /\ a[1] = c /\ a[2] = d /\ a[3] = f
      BY <2>5, Short
    <3>7. a = <<c, e>> => a \in Seq(S) /\ Len(a) = 2 /\ a[1] = c /\ a[2] = e BY <2>5, Short
    <3>8. a = <<c>> => a \in Seq(S) /\ Len(a) = 1 /\ a[1] = c BY <2>5, Short
    <3>9. a = <<c, e, z>> => a \in Seq(S) /\ Len(a) = 3 /\ a[1] = c /\ a[2] = e /\ a[3] = z
      BY <2>5, Short
    <3>10. a = <<c, z>> => a \in Seq(S) /\ Len(a) = 2 /\ a[1] = c /\ a[2] = z BY <2>5, Short
    <3> QED BY <3>1, <3>2, <3>3, <3>4, <3>5, <3>6, <3>7, <3>8, <3>9, <3>10
  <2>8. Rising(a) BY <2>5, <2>7, ShortRising
  <2>9. Len(a) \in 1..3 BY <2>7
  <2>10. \A i \in 1..Len(a) : Rank(a[i]) <= IF r.op = "edit" THEN 4 ELSE 3 BY <2>5, <2>7
  <2>11. /\ r.op = "attempt" => a[Len(a)] = x
         /\ r.op = "unlock" => a[Len(a)] = y
    BY <2>7
  <2> QED BY <2>1, <2>6, <2>7, <2>8, <2>9, <2>10, <2>11
<1>2. PICK b : /\ b = W /\ b \in Seq(S) /\ Len(b) \in 0..2 /\ Rising(b)
               /\ \A i \in 1..Len(b) : Rank(b[i]) > IF r.op = "edit" THEN 4 ELSE 3
               /\ r.pc \notin Deciding => Len(b) = 0
               /\ W = <<KeyShare("challenge", r.chal), DynamicScore(r.chal)>> =>
                    Len(b) = 2 /\ b[1] = KeyShare("challenge", r.chal) /\ b[2] = DynamicScore(r.chal)
               /\ W = <<DynamicScore(r.chal)>> => Len(b) = 1 /\ b[1] = DynamicScore(r.chal)
  <2>1. PICK x, y : x = KeyShare("challenge", r.chal) /\ y = DynamicScore(r.chal) OBVIOUS
  <2>2. /\ \/ W = <<>>
           \/ r.op # "edit" /\ W = <<x, y>>
           \/ r.op # "edit" /\ W = <<x>>
           \/ r.op = "edit" /\ W = <<y>>
        /\ r.pc \notin Deciding => W = <<>>
    BY <2>1, LateShape DEF LateLocks
  <2>3. x \in S /\ y \in S /\ Rank(x) = 4 /\ Rank(y) = 5 BY <1>r, <1>s, <2>1
  <2>4. PICK b : b = W OBVIOUS
  <2> HIDE DEF W, Rank
  <2>5. /\ b = <<>> => b \in Seq(S) /\ Len(b) = 0
        /\ b = <<x>> => b \in Seq(S) /\ Len(b) = 1 /\ b[1] = x
        /\ b = <<y>> => b \in Seq(S) /\ Len(b) = 1 /\ b[1] = y
        /\ b = <<x, y>> => b \in Seq(S) /\ Len(b) = 2 /\ b[1] = x /\ b[2] = y
    BY <2>3, Short
  <2>6. /\ b \in Seq(S)
        /\ \/ Len(b) = 0
           \/ r.op # "edit" /\ Len(b) = 2 /\ b[1] = x /\ b[2] = y
           \/ r.op # "edit" /\ Len(b) = 1 /\ b[1] = x
           \/ r.op = "edit" /\ Len(b) = 1 /\ b[1] = y
    BY <2>2, <2>4, <2>5
  <2>7. Rising(b) BY <2>3, <2>6, ShortRising
  <2>8. \A i \in 1..Len(b) : Rank(b[i]) > IF r.op = "edit" THEN 4 ELSE 3 BY <2>3, <2>6
  <2>9. Len(b) \in 0..2 BY <2>6
  <2> QED BY <2>1, <2>2, <2>4, <2>5, <2>6, <2>7, <2>8, <2>9
<1>3. PICK k \in Nat : k = IF r.op = "edit" THEN 4 ELSE 3 OBVIOUS
<1>4. PICK m : m = Locks(r) OBVIOUS
<1> HIDE DEF R, W
<1>5. /\ Rising(m) /\ Len(m) = Len(a) + Len(b) /\ m \in Seq(S)
      /\ \A i \in 1..(Len(a) + Len(b)) : m[i] = IF i <= Len(a) THEN a[i] ELSE b[i - Len(a)]
  <2>1. m = a \o b BY <1>0, <1>1, <1>2, <1>4
  <2>2. /\ \A i \in 1..Len(a) : Rank(a[i]) <= k
        /\ \A i \in 1..Len(b) : Rank(b[i]) > k
    BY <1>1, <1>2, <1>3
  <2> HIDE DEF Rank
  <2> QED BY <1>1, <1>2, <2>1, <2>2, RisingJoin
<1>6. /\ \A i \in 1..Len(a) : m[i] = a[i]
      /\ \A n \in Nat : n >= Len(a) => a[Len(a)] \in Taken(m, n)
      /\ \A i \in 1..Len(b) : b[i] \in Taken(m, Len(m))
  <2>1. Len(a) \in 1..3 /\ Len(b) \in 0..2 BY <1>1, <1>2
  <2> QED BY <1>5, <2>1, JoinedLocks
<1>7. /\ Len(m) \in Nat /\ Len(a) \in Nat /\ Len(a) >= 1 /\ Len(a) <= Len(m)
      /\ Len(b) = 0 => Len(m) = Len(a)
  <2>1. Len(a) \in 1..3 /\ Len(b) \in 0..2 BY <1>1, <1>2
  <2>2. Len(m) = Len(a) + Len(b) BY <1>5
  <2>3. PICK x \in 1..3, y \in 0..2 : x = Len(a) /\ y = Len(b) BY <2>1
  <2>4. x + y \in Nat /\ x \in Nat /\ x >= 1 /\ x <= x + y /\ (y = 0 => x + y = x) BY <2>3
  <2> QED BY <2>2, <2>3, <2>4
<1>8. a = ReadLocks(r) /\ b = LateLocks(r) BY <1>1, <1>2 DEF R, W
<1>9. /\ \A n \in Nat : n >= Len(a) /\ r.op = "attempt"
           => AccountLock(Account(r.user), r.chal) \in Taken(m, n)
      /\ \A n \in Nat : n >= Len(a) /\ r.op = "unlock" => UnlockLock(Account(r.user)) \in Taken(m, n)
  BY <1>1, <1>6
<1>10. LateLocks(r) = <<KeyShare("challenge", r.chal), DynamicScore(r.chal)>>
         => /\ DynamicScore(r.chal) \in Taken(m, Len(m))
            /\ KeyShare("challenge", r.chal) \in Taken(m, Len(m))
  BY <1>2, <1>6 DEF W
<1>11. LateLocks(r) = <<DynamicScore(r.chal)>> => DynamicScore(r.chal) \in Taken(m, Len(m))
  BY <1>2, <1>6 DEF W
<1>12. r.pc \notin Deciding => Len(b) = 0 BY <1>2
<1>13. m \in Seq(LocksOf(r)) BY <1>5 DEF S
<1> QED BY <1>4, <1>5, <1>6, <1>7, <1>8, <1>9, <1>10, <1>11, <1>12, <1>13

\* Locks depend on the mode of the competition only, which does not change here.
LEMMA LocksStable ==
  ASSUME teams' = teams, NEW p \in Requests, NEW s, s = req'[p]
  PROVE  /\ Locks(req[p])' = Locks(s) /\ ReadLocks(req[p])' = ReadLocks(s)
         /\ Held'[p] = Taken(Locks(s), s.taken)
         /\ Account(req[p].user)' = Account(s.user)
<1>1. Locks(req[p])' = Locks(s) /\ ReadLocks(req[p])' = ReadLocks(s)
  BY DEF Locks, ReadLocks, AttemptLocks, UnlockLocks, EditLocks, RecordLocks, RemoveLocks,
         SubmissionLocks, SubmissionRow,
         InTeam, Account, WriteLocks, ScoreLocks
<1>2. Held'[p] = Taken(Locks(req[p])', req'[p].taken) BY DEF Held
<1> QED BY <1>1, <1>2 DEF Account

----------------------------------------------------------------------------
(* What a lock keeps from changing *)

\* The fields of a request, for the provers.
LEMMA RequestFields ==
  ASSUME IInv, NEW p \in Requests
  PROVE  /\ IsRequest(req[p]) /\ req[p].taken \in Nat /\ p \in DOMAIN Held
         /\ Held[p] = Taken(Locks(req[p]), req[p].taken)
         /\ req[p].taken <= Len(Locks(req[p]))
         /\ req[p].pc = "idle" => req[p].taken = 0 /\ Held[p] = {}
         /\ req[p].pc # "idle" => WellFormed(req[p]) /\ req[p].op \in Ops
         /\ req[p].pc \in {"idle", "locking", "writing", "counted"}
         /\ Concluded(req[p])
<1>1. RequestsTyped /\ LocksTaken /\ ConclusionsHold BY DEF IInv
<1> QED BY <1>1, TakenNone DEF RequestsTyped, LocksTaken, ConclusionsHold, IsRequest, WellFormed, Held

\* Nobody else holds an exclusive lock of p, nor any lock on the same name.
LEMMA HeldAlone ==
  ASSUME IInv, NEW p \in Requests, NEW q \in Requests, p # q,
         NEW l \in Held[p], NEW h \in Held[q], l.lock = h.lock,
         l.mode = "exclusive" \/ h.mode = "exclusive"
  PROVE  FALSE
<1>1. p \in DOMAIN Held /\ q \in DOMAIN Held BY DEF Held
<1>2. Exclusion(Held) BY DEF IInv, ExclusiveLocks
<1> HIDE DEF Held
<1>3. CASE l.mode = "exclusive" BY <1>1, <1>2, <1>3, ExclusiveHolder
<1>4. CASE h.mode = "exclusive" BY <1>1, <1>2, <1>4, ExclusiveHolder
<1> QED BY <1>3, <1>4

\* A transaction that writes holds what its conclusion is about: the account's
\* attempts at the challenge, its purchases, or the score of the challenge.
LEMMA WriterHolds ==
  ASSUME IInv, NEW p \in Requests, req[p].pc \in Deciding
  PROVE  /\ req[p].op = "attempt" => AccountLock(Account(req[p].user), req[p].chal) \in Held[p]
         /\ req[p].op = "unlock" => UnlockLock(Account(req[p].user)) \in Held[p]
         /\ req[p].pc = "counted" => DynamicScore(req[p].chal) \in Held[p]
         /\ req[p].pc = "counted" /\ req[p].op = "attempt"
              => KeyShare("challenge", req[p].chal) \in Held[p]
<1>1. PICK r : r = req[p] OBVIOUS
<1>2. /\ r.pc \in Deciding /\ WellFormed(r) /\ r.op \in Ops /\ r.taken \in Nat
      /\ Held[p] = Taken(Locks(r), r.taken)
      /\ r.taken >= Len(ReadLocks(r))
      /\ r.pc = "counted" => r.taken = Len(Locks(r))
  <2>1. LocksTaken BY DEF IInv
  <2> QED BY <1>1, <2>1, RequestFields DEF LocksTaken, Deciding
<1>3. ASSUME r.pc = "counted", r.op = "attempt"
      PROVE  LateLocks(r) = <<KeyShare("challenge", r.chal), DynamicScore(r.chal)>>
  <2>1. r.outcome = "correct" /\ r.read.function # "static"
    BY <1>2, <1>3 DEF WellFormed, RowOf, Deciding
  <2>2. LateLocks(r) = <<KeyShare("challenge", r.chal)>> \o <<DynamicScore(r.chal)>>
    BY <1>3, <2>1 DEF LateLocks, WriteLocks, ScoreLocks, Deciding
  <2> QED BY <2>2, ConcatLiterals
<1>4. ASSUME r.pc = "counted", r.op = "edit" PROVE LateLocks(r) = <<DynamicScore(r.chal)>>
  <2>1. r.read.function # "static" BY <1>2, <1>4 DEF WellFormed, RowOf, Deciding
  <2> QED BY <1>4, <2>1 DEF LateLocks, WriteLocks, ScoreLocks, Deciding
<1>5. r.pc = "counted" => r.op \in {"attempt", "edit"} BY <1>2 DEF WellFormed
<1> QED BY <1>1, <1>2, <1>3, <1>4, <1>5, LocksShape

\* Two attempts of one account at one challenge do not both write, nor two
\* purchases of one account, nor two transactions that counted the same solves.
LEMMA WritersApart ==
  ASSUME IInv, NEW p \in Requests, NEW q \in Requests, p # q,
         req[p].pc \in Deciding, req[q].pc \in Deciding
  PROVE  /\ req[p].op = "attempt" /\ req[q].op = "attempt" /\ req[p].chal = req[q].chal
              => Account(req[p].user) # Account(req[q].user)
         /\ req[p].op = "unlock" /\ req[q].op = "unlock"
              => Account(req[p].user) # Account(req[q].user)
         /\ req[p].pc = "counted" /\ req[q].pc = "counted" => req[p].chal # req[q].chal
<1>1. \A a, c : AccountLock(a, c).mode = "exclusive" BY DEF AccountLock, ExclusiveOn
<1>2. \A a : UnlockLock(a).mode = "exclusive" BY DEF UnlockLock, ExclusiveOn
<1>3. \A c : DynamicScore(c).mode = "exclusive" BY DEF DynamicScore, ExclusiveOn
<1>4. \A l : l \in Held[p] /\ l.mode = "exclusive" => l \notin Held[q] BY HeldAlone
<1> QED BY <1>1, <1>2, <1>3, <1>4, WriterHolds

\* Wrong answers are only added as administrators record them.
MoreOnlyGiven(k) ==
    fails'[k] \in Nat /\ given'[k] \in Nat /\ fails'[k] + given[k] <= fails[k] + given'[k]

\* None are added when neither count changes.
LEMMA SameTries ==
  ASSUME NEW k, fails[k] \in Nat, given[k] \in Nat, fails'[k] = fails[k], given'[k] = given[k]
  PROVE  MoreOnlyGiven(k)
<1>1. ASSUME NEW n \in Nat, NEW m \in Nat PROVE n + m <= n + m OBVIOUS
<1> QED BY <1>1 DEF MoreOnlyGiven

\* What a step leaves a transaction that does not take part in it.
Undisturbed(q) ==
    LET r == req[q]
        a == Account(r.user)
    IN  /\ req'[q] = r /\ teams' = teams
        /\ \A c \in Challenges : touched'[c] \in Nat /\ touched[c] <= touched'[c]
        /\ r.pc \in Deciding /\ r.op = "attempt" =>
              /\ MoreOnlyGiven(<<a, r.chal>>)
              /\ touched[r.chal] = touched'[r.chal] /\ Duplicate(r)' => Duplicate(r)
        /\ r.pc \in Deciding /\ r.op = "unlock" => charges'[a] = charges[a]
        /\ r.pc = "counted" /\ touched'[r.chal] = touched[r.chal] =>
              SolversOf(solves', r.chal) = SolversOf(solves, r.chal)

\* Its conclusion stays true then.
LEMMA ConclusionKept ==
  ASSUME IInv, NEW q \in Requests, Undisturbed(q)
  PROVE  Concluded(req[q])'
<1>1. PICK r : r = req[q] OBVIOUS
<1>2. PICK a : a = Account(r.user) OBVIOUS
<1>3. req'[q] = r /\ Account(r.user)' = a BY <1>1, <1>2 DEF Undisturbed, Account
<1>4. Concluded(r) /\ (r.pc # "idle" => WellFormed(r)) BY <1>1, RequestFields
<1>5. /\ touched \in [Challenges -> Nat] /\ fails \in [Accounts \X Challenges -> Nat]
      /\ given \in [Accounts \X Challenges -> Nat]
  BY DEF IInv, DataTyped
<1>6. r.pc \in Deciding => r.pc # "idle" BY DEF Deciding
<1>7. ASSUME r.pc \in Deciding, r.op = "attempt"
      PROVE  r.chal \in Challenges /\ a \in Accounts
  BY <1>2, <1>4, <1>6, <1>7 DEF WellFormed, UserOps, ChalOps, Ops, Account, Accounts
<1>8. ASSUME r.pc = "counted" PROVE r.chal \in Challenges
  BY <1>4, <1>8 DEF WellFormed, ChalOps
<1>9. ASSUME r.pc \in Deciding, r.op = "attempt", r.outcome = "incorrect", r.read.tries > 0
      PROVE  HasTry(r)'
  <2>1. PICK k : k = <<a, r.chal>> OBVIOUS
  <2>2. r.seen \in Nat /\ fails[k] < r.read.tries + (given[k] - r.seen)
    BY <1>2, <1>4, <1>9, <2>1 DEF Concluded, HasTry
  <2>3. fails[k] \in Nat /\ given[k] \in Nat BY <1>5, <1>7, <1>9, <2>1
  <2>4. fails'[k] \in Nat /\ given'[k] \in Nat /\ fails'[k] + given[k] <= fails[k] + given'[k]
    BY <1>1, <1>2, <1>9, <2>1 DEF Undisturbed, MoreOnlyGiven
  <2>5. r.read.tries \in Nat
    BY <1>4, <1>6, <1>9 DEF WellFormed, RowOf, ChallengeRow
  <2>6. fails'[k] < r.read.tries + (given'[k] - r.seen) BY <2>2, <2>3, <2>4, <2>5
  <2>7. Account(r.user)' = a BY <1>1, <1>2 DEF Undisturbed, Account
  <2> QED BY <2>1, <2>2, <2>6, <2>7 DEF HasTry
<1>10. ASSUME r.pc \in Deciding, r.op = "attempt", r.outcome = "correct", Duplicate(r)'
       PROVE  touched'[r.chal] > 0
  <2>1. r.chal \in Challenges BY <1>7, <1>10
  <2>2. touched'[r.chal] \in Nat /\ touched[r.chal] <= touched'[r.chal] /\ touched[r.chal] \in Nat
    BY <1>5, <2>1 DEF Undisturbed
  <2>3. CASE touched[r.chal] = touched'[r.chal]
    <3>1. Duplicate(r) BY <1>1, <1>10, <2>3 DEF Undisturbed
    <3> QED BY <1>4, <1>10, <2>3, <3>1 DEF Concluded
  <2> QED BY <2>2, <2>3
<1>11. ASSUME r.pc \in Deciding, r.op = "unlock" PROVE charges'[a] + Cost <= r.seen
  BY <1>1, <1>2, <1>4, <1>11 DEF Concluded, Undisturbed
<1>12. ASSUME r.pc = "counted"
       PROVE  /\ r.seen \in Nat /\ r.seen <= touched'[r.chal]
              /\ r.seen = touched'[r.chal] => r.count = Cardinality(SolversOf(solves', r.chal) \cup {a})
                                              \/ r.op # "attempt"
              /\ r.seen = touched'[r.chal] => r.count = Cardinality(SolversOf(solves', r.chal) \cup {})
                                              \/ r.op = "attempt"
  <2>1. /\ r.seen \in Nat /\ r.seen <= touched[r.chal]
        /\ r.seen = touched[r.chal] => r.count = Cardinality(SolversOf(solves, r.chal) \cup Own(r))
    BY <1>4, <1>12 DEF Concluded
  <2>2. /\ touched'[r.chal] \in Nat /\ touched[r.chal] <= touched'[r.chal] /\ touched[r.chal] \in Nat
    BY <1>5, <1>8, <1>12 DEF Undisturbed
  <2>3. r.seen = touched'[r.chal] =>
          touched'[r.chal] = touched[r.chal] /\ SolversOf(solves', r.chal) = SolversOf(solves, r.chal)
    BY <1>1, <1>12, <2>1, <2>2 DEF Undisturbed
  <2>4. /\ r.op = "attempt" => Own(r) = {a}
        /\ r.op # "attempt" => Own(r) = {}
    BY <1>2 DEF Own
  <2> QED BY <2>1, <2>2, <2>3, <2>4
<1>13. Own(req[q])' = IF r.op = "attempt" THEN {a} ELSE {} BY <1>3 DEF Own
<1>14. Duplicate(req[q])' = Duplicate(r)' /\ HasTry(req[q])' = HasTry(r)'
  BY <1>3 DEF Duplicate, HasTry
<1> QED BY <1>3, <1>9, <1>10, <1>11, <1>12, <1>13, <1>14 DEF Concluded

\* Replacing the request of p leaves those of the others.
LEMMA OthersKept ==
  ASSUME IInv, NEW p \in Requests, NEW q \in Requests, p # q, NEW r,
         req' = [req EXCEPT ![p] = r]
  PROVE  req'[q] = req[q]
  BY DEF IInv, RequestsTyped

\* The account and challenge of an attempt have a number of wrong answers.
LEMMA TriesTyped ==
  ASSUME IInv, NEW q \in Requests, req[q].pc # "idle", req[q].op = "attempt"
  PROVE  /\ Account(req[q].user) \in Accounts /\ req[q].chal \in Challenges
         /\ fails[<<Account(req[q].user), req[q].chal>>] \in Nat
         /\ given[<<Account(req[q].user), req[q].chal>>] \in Nat
<1>1. req[q].user \in Users /\ req[q].chal \in Challenges
  BY RequestFields DEF WellFormed, UserOps, ChalOps, Ops
<1>2. Account(req[q].user) \in Accounts BY <1>1 DEF Account, Accounts
<1> QED BY <1>1, <1>2 DEF IInv, DataTyped

\* A step that leaves the solves, the wrong answers and the purchases alone
\* disturbs nobody.
LEMMA QuietStep ==
  ASSUME IInv, UNCHANGED <<solves, fails, given, charges, touched, teams>>,
         NEW q \in Requests, req'[q] = req[q]
  PROVE  Undisturbed(q)
<1>1. touched \in [Challenges -> Nat] BY DEF IInv, DataTyped
<1>2. Duplicate(req[q])' => Duplicate(req[q]) BY DEF Duplicate, Account
<1>3. req[q].pc \in Deciding => req[q].pc # "idle" BY DEF Deciding
<1>4. ASSUME NEW n \in Nat PROVE n <= n OBVIOUS
<1>5. \A c \in Challenges : touched'[c] \in Nat /\ touched[c] <= touched'[c] BY <1>1, <1>4
<1>6. req[q].pc \in Deciding /\ req[q].op = "attempt" =>
        MoreOnlyGiven(<<Account(req[q].user), req[q].chal>>)
  BY <1>3, SameTries, TriesTyped
<1>7. PICK r : r = req[q] OBVIOUS
<1>8. Duplicate(r)' => Duplicate(r) BY <1>7 DEF Duplicate, Account
<1> QED BY <1>5, <1>6, <1>8, <1>7 DEF Undisturbed

\* One more solve, of an account that has no other transaction at the challenge,
\* disturbs nobody.
LEMMA SolveUndisturbs ==
  ASSUME IInv, NEW p \in Requests, NEW q \in Requests, p # q,
         req[p].pc \in Deciding, req[p].op = "attempt",
         req[p].pc = "counted" \/ req[p].chal \notin Dynamic,
         UNCHANGED <<fails, given, charges, touched, teams>>, req'[q] = req[q],
         solves' = solves \/ solves' = solves \cup {NewSolve(req[p])}
  PROVE  Undisturbed(q)
<1>1. CASE solves' = solves BY <1>1, QuietStep
<1>2. CASE solves' = solves \cup {NewSolve(req[p])}
  <2>1. PICK r, s : r = req[q] /\ s = req[p] OBVIOUS
  <2>2. PICK n : n = NewSolve(s) OBVIOUS
  <2>3. n.user = s.user /\ n.account = Account(s.user) /\ n.chal = s.chal BY <2>2 DEF NewSolve
  <2>4. touched \in [Challenges -> Nat] BY DEF IInv, DataTyped
  <2>5. ASSUME NEW k \in Nat PROVE k <= k OBVIOUS
  <2>6. \A c \in Challenges : touched'[c] \in Nat /\ touched[c] <= touched'[c] BY <2>4, <2>5
  <2>7. req[q].pc \in Deciding => req[q].pc # "idle" BY DEF Deciding
  <2>8. req[q].pc \in Deciding /\ req[q].op = "attempt" =>
          MoreOnlyGiven(<<Account(req[q].user), req[q].chal>>)
    BY <2>7, SameTries, TriesTyped
  <2>9. ASSUME r.pc \in Deciding, r.op = "attempt", Duplicate(r)' PROVE Duplicate(r)
    <3>1. PICK x \in solves' : x.chal = r.chal /\ (x.user = r.user \/ x.account = Account(r.user))
      BY <2>9 DEF Duplicate, Account
    <3>2. CASE x \in solves BY <3>1, <3>2 DEF Duplicate
    <3>3. CASE x \notin solves
      <4>1. x = n BY <1>2, <2>1, <2>2, <3>1, <3>3
      <4>2. s.chal = r.chal /\ Account(s.user) = Account(r.user)
        BY <2>3, <3>1, <4>1 DEF Account
      <4>3. s.chal = r.chal => Account(s.user) # Account(r.user)
        BY <2>1, <2>9, WritersApart
      <4> QED BY <4>2, <4>3
    <3> QED BY <3>2, <3>3
  <2>10. ASSUME r.pc = "counted" PROVE SolversOf(solves', r.chal) = SolversOf(solves, r.chal)
    <3>1. r.chal # s.chal
      <4>1. CASE s.pc = "counted"
        <5>1. r.pc \in Deciding BY <2>10 DEF Deciding
        <5> QED BY <2>1, <2>10, <4>1, <5>1, WritersApart
      <4>2. CASE s.chal \notin Dynamic
        <5>1. r.chal \in Dynamic BY <2>1, <2>10, RequestFields DEF WellFormed
        <5> QED BY <4>2, <5>1
      <4> QED BY <2>1, <4>1, <4>2
    <3> QED BY <1>2, <2>1, <2>2, <2>3, <3>1 DEF SolversOf
  <2> QED BY <2>1, <2>6, <2>8, <2>9, <2>10 DEF Undisturbed
<1> QED BY <1>1, <1>2

\* What an administrator's change of a submission does to the solves and the wrong
\* answers: those of one account at one challenge, and no more wrong answers than
\* it records.
LEMMA ChangeEffects ==
  ASSUME IInv, NEW p \in Requests, ChangeSubmission(p), NEW r, r = req[p],
         NEW k, k = <<Account(r.user), r.chal>>
  PROVE  /\ Done(p) /\ UNCHANGED <<teams, lockout, chal, unlocked, charges, awards, counted,
                                  overlapped>>
         /\ k \in Accounts \X Challenges /\ r.user \in Users /\ r.chal \in Challenges
         /\ \/ solves' = solves /\ touched' = touched
            \/ touched' = [touched EXCEPT ![r.chal] = touched[r.chal] + 1]
         /\ \A x \in solves' : x \in solves \/ x = NewSolve(r)
         /\ \A c : c # r.chal => SolversOf(solves', c) = SolversOf(solves, c)
         /\ \E n \in Nat, m \in Nat : /\ fails' = [fails EXCEPT ![k] = n]
                                      /\ given' = [given EXCEPT ![k] = given[k] + m]
                                      /\ n <= fails[k] + m
         /\ recent' \in [Accounts -> Nat]
         /\ \A x \in partial' : x \in partial \/ x = PartialOf(r)
<1> DEFINE a == Account(r.user)
<1>1. r.pc = "writing" /\ r.op = "submission" BY DEF ChangeSubmission, Ready
<1>2. r.user \in Users /\ r.chal \in Challenges
  BY <1>1, RequestFields DEF WellFormed, UserOps, ChalOps, Ops
<1>3. a \in Accounts BY <1>2 DEF Account, Accounts
<1>4. /\ fails \in [Accounts \X Challenges -> Nat] /\ given \in [Accounts \X Challenges -> Nat]
      /\ recent \in [Accounts -> Nat]
  BY DEF IInv, DataTyped
<1>5. k \in Accounts \X Challenges /\ fails[k] \in Nat /\ given[k] \in Nat BY <1>2, <1>3, <1>4
<1>6. Done(p) /\ UNCHANGED <<teams, lockout, chal, unlocked, charges, awards, counted, overlapped>>
  BY DEF ChangeSubmission, fixed, ledger
<1>7. CASE UNCHANGED <<solves, tries, touched, given>>
  <2>1. UNCHANGED <<solves, partial, fails, recent, touched, given>> BY <1>7 DEF tries
  <2>2. fails' = [fails EXCEPT ![k] = fails[k]] /\ given' = [given EXCEPT ![k] = given[k] + 0]
    BY <1>4, <1>5, <2>1
  <2>3. fails[k] <= fails[k] + 0 /\ 0 \in Nat BY <1>5
  <2> QED BY <1>2, <1>4, <1>5, <1>6, <2>1, <2>2, <2>3
<1>8. CASE ~UNCHANGED <<solves, tries, touched, given>>
  <2>1. PICK undone, windowed, lately :
          /\ undone = IF r.edit.from = "incorrect" THEN 1 ELSE 0
          /\ windowed = CASE r.edit.to # "incorrect" -> {0}
                         [] r.edit.to = "incorrect" -> IF lockout THEN {1} ELSE {0, 1}
          /\ lately = CASE r.edit.to = "incorrect" -> {0, 1}
                       [] r.edit.to # "incorrect" -> {0, 0 - undone}
    OBVIOUS
  <2>2. /\ solves' = CASE r.edit.to = "correct"   -> solves \cup {NewSolve(r)}
                      [] r.edit.from = "correct" ->
                           {x \in solves : x.user # r.user \/ x.chal # r.chal}
                      [] OTHER -> solves
        /\ partial' = (partial \ (IF r.edit.from = "partial" THEN {PartialOf(r)} ELSE {}))
                         \cup (IF r.edit.to = "partial" THEN {PartialOf(r)} ELSE {})
        /\ \E n \in windowed : /\ fails' = [fails EXCEPT ![k] = Maximum(fails[k] - undone, 0) + n]
                               /\ given' = [given EXCEPT ![k] = given[k] + n]
        /\ \E n \in lately : recent' = [recent EXCEPT ![a] = Maximum(recent[a] + n, 0)]
        /\ touched' = IF solves' = solves THEN touched
                      ELSE [touched EXCEPT ![r.chal] = touched[r.chal] + 1]
    BY <1>8, <2>1 DEF ChangeSubmission
  <2>3. windowed \subseteq Nat /\ lately \subseteq Int /\ undone \in {0, 1} BY <2>1
  <2>4. PICK m \in windowed : /\ fails' = [fails EXCEPT ![k] = Maximum(fails[k] - undone, 0) + m]
                              /\ given' = [given EXCEPT ![k] = given[k] + m]
    BY <2>2
  <2>5. PICK n : n = Maximum(fails[k] - undone, 0) + m OBVIOUS
  <2>6. n \in Nat /\ m \in Nat /\ n <= fails[k] + m
    <3>1. Maximum(fails[k] - undone, 0) \in Nat /\ Maximum(fails[k] - undone, 0) <= fails[k]
      BY <1>5, <2>3 DEF Maximum
    <3> QED BY <1>5, <2>3, <2>5, <3>1
  <2>7. recent' \in [Accounts -> Nat]
    <3>1. PICK d \in lately : recent' = [recent EXCEPT ![a] = Maximum(recent[a] + d, 0)] BY <2>2
    <3>2. recent[a] + d \in Int BY <1>3, <1>4, <2>3
    <3>3. Maximum(recent[a] + d, 0) \in Nat BY <3>2 DEF Maximum
    <3> HIDE DEF a
    <3> QED BY <1>3, <1>4, <3>1, <3>3
  <2>8. \A x \in solves' : x \in solves \/ x = NewSolve(r) BY <2>2
  <2>9. NewSolve(r).chal = r.chal BY DEF NewSolve
  <2>10. \A c : c # r.chal => SolversOf(solves', c) = SolversOf(solves, c)
    <3>1. CASE solves' = solves \cup {NewSolve(r)} BY <2>9, <3>1 DEF SolversOf
    <3>2. CASE solves' = {x \in solves : x.user # r.user \/ x.chal # r.chal} BY <3>2 DEF SolversOf
    <3>3. CASE solves' = solves BY <3>3
    <3>4. \/ solves' = solves \cup {NewSolve(r)}
          \/ solves' = {x \in solves : x.user # r.user \/ x.chal # r.chal}
          \/ solves' = solves
      BY <2>2
    <3> QED BY <3>1, <3>2, <3>3, <3>4
  <2>11. \A x \in partial' : x \in partial \/ x = PartialOf(r) BY <2>2
  <2>12. fails' = [fails EXCEPT ![k] = n] BY <2>4, <2>5
  <2>13. \/ solves' = solves /\ touched' = touched
         \/ touched' = [touched EXCEPT ![r.chal] = touched[r.chal] + 1]
    BY <2>2
  <2>14. \E i \in Nat, j \in Nat : /\ fails' = [fails EXCEPT ![k] = i]
                                   /\ given' = [given EXCEPT ![k] = given[k] + j]
                                   /\ i <= fails[k] + j
    BY <2>4, <2>6, <2>12
  <2> HIDE DEF a
  <2> QED BY <1>2, <1>5, <1>6, <2>7, <2>8, <2>10, <2>11, <2>13, <2>14
<1> QED BY <1>7, <1>8

\* No handler disturbs another one.
LEMMA StepUndisturbs ==
  ASSUME IInv, NEW p \in Requests, NEW q \in Requests, p # q, Step(p)
  PROVE  Undisturbed(q)
<1>1. ASSUME Begin(p) \/ TakeLock(p) \/ Fail(p) \/ Decide(p) \/ CountSolves(p)
      PROVE  Undisturbed(q)
  <2>1. UNCHANGED <<solves, fails, given, charges, touched, teams>>
    BY <1>1 DEF Begin, Start, TakeLock, Fail, Decide, CountSolves, fixed, tries, ledger, ghosts
  <2>2. \E r : req' = [req EXCEPT ![p] = r]
    <3>1. CASE Begin(p) BY <3>1 DEF Begin, Start
    <3>2. CASE TakeLock(p) BY <3>2 DEF TakeLock
    <3>3. CASE Fail(p) BY <3>3 DEF Fail
    <3>4. CASE Decide(p) BY <3>4 DEF Decide
    <3>5. CASE CountSolves(p) BY <3>5 DEF CountSolves
    <3> QED BY <1>1, <3>1, <3>2, <3>3, <3>4, <3>5
  <2>3. req'[q] = req[q] BY <2>2, OthersKept
  <2> QED BY <2>1, <2>3, QuietStep
<1>2. ASSUME Done(p) PROVE req'[q] = req[q] BY <1>2, OthersKept DEF Done
<1>3. CASE RecordSolve(p)
  <2>1. /\ req[p].pc \in Deciding /\ req[p].op = "attempt" /\ req[p].chal \notin Dynamic
    <3>1. req[p].pc = "writing" /\ req[p].op = "attempt" /\ req[p].read.function = "static"
      BY <1>3 DEF RecordSolve, Ready
    <3>2. WellFormed(req[p]) BY <3>1, RequestFields
    <3> QED BY <3>1, <3>2 DEF WellFormed, RowOf, Deciding
  <2>2. Done(p) /\ UNCHANGED <<fails, given, charges, touched, teams>>
        /\ (solves' = solves \/ solves' = solves \cup {NewSolve(req[p])})
    BY <1>3 DEF RecordSolve, fixed, tries, ledger, ghosts
  <2> QED BY <1>2, <2>1, <2>2, SolveUndisturbs
<1>4. CASE CommitSolve(p)
  <2>1. /\ req[p].pc = "counted" /\ req[p].op = "attempt" /\ req[p].pc \in Deciding
        /\ Done(p) /\ UNCHANGED <<fails, given, charges, touched, teams>>
        /\ solves' = solves \cup {NewSolve(req[p])}
    BY <1>4 DEF CommitSolve, Deciding, fixed, tries, ledger
  <2> QED BY <1>2, <2>1, SolveUndisturbs
<1>5. CASE CommitEdit(p) \/ Award(p)
  <2>1. Done(p) /\ UNCHANGED <<solves, fails, given, charges, touched, teams>>
    BY <1>5 DEF CommitEdit, Award, fixed, tries, ledger, ghosts
  <2> QED BY <1>2, <2>1, QuietStep
<1>6. CASE RecordAttempt(p)
  <2>1. PICK r, s : r = req[q] /\ s = req[p] OBVIOUS
  <2>2. PICK a, m : a = Account(s.user) /\ m = IF s.outcome = "incorrect" THEN 1 ELSE 0 OBVIOUS
  <2>3. /\ Done(p) /\ UNCHANGED <<solves, given, charges, touched, teams>>
        /\ fails' = [fails EXCEPT ![<<a, s.chal>>] = fails[<<a, s.chal>>] + m]
        /\ s.pc \in Deciding /\ s.op = "attempt"
    BY <1>6, <2>1, <2>2 DEF RecordAttempt, Ready, Deciding, fixed, tries, ledger, ghosts
  <2>4. req'[q] = r BY <1>2, <2>1, <2>3
  <2>5. touched \in [Challenges -> Nat] /\ fails \in [Accounts \X Challenges -> Nat]
    BY DEF IInv, DataTyped
  <2>6. ASSUME NEW k \in Nat PROVE k <= k OBVIOUS
  <2>7. \A c \in Challenges : touched'[c] \in Nat /\ touched[c] <= touched'[c] BY <2>3, <2>5, <2>6
  <2>8. ASSUME r.pc \in Deciding, r.op = "attempt"
        PROVE  MoreOnlyGiven(<<Account(r.user), r.chal>>)
    <3>1. s.chal = r.chal => a # Account(r.user) BY <2>1, <2>2, <2>3, <2>8, WritersApart
    <3>2. PICK k : k = <<Account(r.user), r.chal>> OBVIOUS
    <3>3. k # <<a, s.chal>> BY <3>1, <3>2
    <3>4. r.pc # "idle" BY <2>8 DEF Deciding
    <3>5. fails[k] \in Nat /\ given[k] \in Nat /\ k \in Accounts \X Challenges
      BY <2>1, <2>8, <3>2, <3>4, TriesTyped
    <3>6. fails'[k] = fails[k] BY <2>3, <2>5, <3>3, <3>5
    <3> QED BY <2>3, <3>2, <3>5, <3>6, SameTries
  <2>9. Duplicate(r)' => Duplicate(r) BY <2>3 DEF Duplicate, Account
  <2> QED BY <2>1, <2>3, <2>4, <2>7, <2>8, <2>9 DEF Undisturbed
<1>7. CASE Unlock(p)
  <2>1. PICK r, s : r = req[q] /\ s = req[p] OBVIOUS
  <2>2. PICK a : a = Account(s.user) OBVIOUS
  <2>3. /\ Done(p) /\ UNCHANGED <<solves, fails, given, touched, teams>>
        /\ charges' = charges \/ charges' = [charges EXCEPT ![a] = charges[a] + Cost]
        /\ s.pc \in Deciding /\ s.op = "unlock"
    BY <1>7, <2>1, <2>2 DEF Unlock, Ready, Deciding, fixed, tries, ghosts
  <2>4. req'[q] = r BY <1>2, <2>1, <2>3
  <2>5. touched \in [Challenges -> Nat] /\ charges \in [Accounts -> Nat] BY DEF IInv, DataTyped
  <2>6. ASSUME NEW k \in Nat PROVE k <= k OBVIOUS
  <2>7. \A c \in Challenges : touched'[c] \in Nat /\ touched[c] <= touched'[c] BY <2>3, <2>5, <2>6
  <2>8. ASSUME r.pc \in Deciding, r.op = "attempt"
        PROVE  MoreOnlyGiven(<<Account(r.user), r.chal>>)
    <3>1. r.pc # "idle" BY <2>8 DEF Deciding
    <3> QED BY <2>1, <2>3, <2>8, <3>1, SameTries, TriesTyped
  <2>9. Duplicate(r)' => Duplicate(r) BY <2>3 DEF Duplicate, Account
  <2>10. ASSUME r.pc \in Deciding, r.op = "unlock"
         PROVE  charges'[Account(r.user)] = charges[Account(r.user)]
    <3>1. a # Account(r.user) BY <2>1, <2>2, <2>3, <2>10, WritersApart
    <3>2. r.user \in Users
      BY <2>1, <2>10, RequestFields DEF Deciding, WellFormed, UserOps, Ops
    <3>3. Account(r.user) \in Accounts BY <3>2 DEF Account, Accounts
    <3> QED BY <2>3, <2>5, <3>1, <3>3
  <2> QED BY <2>1, <2>3, <2>4, <2>7, <2>8, <2>9, <2>10 DEF Undisturbed
<1>8. CASE ChangeSubmission(p)
  <2>1. PICK r, s : r = req[q] /\ s = req[p] OBVIOUS
  <2>2. PICK x : x = <<Account(s.user), s.chal>> OBVIOUS
  <2>3. /\ touched \in [Challenges -> Nat] /\ fails \in [Accounts \X Challenges -> Nat]
        /\ given \in [Accounts \X Challenges -> Nat]
    BY DEF IInv, DataTyped
  <2>4. /\ Done(p) /\ UNCHANGED <<charges, teams>>
        /\ \/ solves' = solves /\ touched' = touched
           \/ touched' = [touched EXCEPT ![s.chal] = touched[s.chal] + 1]
        /\ \A y \in solves' : y \in solves \/ y = NewSolve(s)
        /\ \A c : c # s.chal => SolversOf(solves', c) = SolversOf(solves, c)
        /\ \E n \in Nat, m \in Nat : /\ fails' = [fails EXCEPT ![x] = n]
                                     /\ given' = [given EXCEPT ![x] = given[x] + m]
                                     /\ n <= fails[x] + m
    BY <1>8, <2>1, <2>2, ChangeEffects
  <2>5. req'[q] = r BY <1>2, <2>1, <2>4
  <2>6. ASSUME NEW k \in Nat PROVE k <= k /\ k + 1 \in Nat /\ k <= k + 1 /\ k # k + 1 OBVIOUS
  <2>7. \A c \in Challenges : touched'[c] \in Nat /\ touched[c] <= touched'[c] BY <2>3, <2>4, <2>6
  <2>8. ASSUME r.pc \in Deciding, r.op = "attempt"
        PROVE  MoreOnlyGiven(<<Account(r.user), r.chal>>)
    <3>1. r.pc # "idle" BY <2>8 DEF Deciding
    <3>2. PICK k : k = <<Account(r.user), r.chal>> OBVIOUS
    <3>3. fails[k] \in Nat /\ given[k] \in Nat /\ k \in Accounts \X Challenges
      BY <2>1, <2>8, <3>1, <3>2, TriesTyped
    <3>4. PICK n \in Nat, m \in Nat : /\ fails' = [fails EXCEPT ![x] = n]
                                      /\ given' = [given EXCEPT ![x] = given[x] + m]
                                      /\ n <= fails[x] + m
      BY <2>4
    <3>5. CASE k = x
      <4>1. fails'[k] = n /\ given'[k] = given[k] + m BY <2>3, <3>3, <3>4, <3>5
      <4>2. n + given[k] <= fails[k] + (given[k] + m) /\ given[k] + m \in Nat
        BY <3>3, <3>4, <3>5
      <4> QED BY <3>2, <4>1, <4>2 DEF MoreOnlyGiven
    <3>6. CASE k # x
      <4>1. fails'[k] = fails[k] /\ given'[k] = given[k] BY <2>3, <3>3, <3>4, <3>6
      <4> QED BY <3>2, <3>3, <4>1, SameTries
    <3> QED BY <3>5, <3>6
  <2>9. ASSUME r.pc \in Deciding, r.op = "attempt", touched[r.chal] = touched'[r.chal], Duplicate(r)'
        PROVE  Duplicate(r)
    <3>1. r.pc # "idle" BY <2>9 DEF Deciding
    <3>2. r.chal \in Challenges BY <2>1, <2>9, <3>1, TriesTyped
    <3>3. CASE solves' = solves BY <2>4, <2>9, <3>3 DEF Duplicate, Account
    <3>4. CASE r.chal # s.chal
      <4>1. PICK y \in solves' : y.chal = r.chal /\ (y.user = r.user \/ y.account = Account(r.user))
        BY <2>4, <2>9 DEF Duplicate, Account
      <4>2. NewSolve(s).chal = s.chal BY DEF NewSolve
      <4>3. y \in solves BY <2>4, <3>4, <4>1, <4>2
      <4> QED BY <4>1, <4>3 DEF Duplicate
    <3>5. CASE solves' # solves /\ r.chal = s.chal
      <4>1. touched'[r.chal] = touched[r.chal] + 1 BY <2>3, <2>4, <3>2, <3>5
      <4> QED BY <2>3, <2>6, <2>9, <3>2, <4>1
    <3> QED BY <3>3, <3>4, <3>5
  <2>10. ASSUME r.pc = "counted", touched'[r.chal] = touched[r.chal]
         PROVE  SolversOf(solves', r.chal) = SolversOf(solves, r.chal)
    <3>1. r.chal \in Challenges BY <2>1, <2>10, RequestFields DEF WellFormed, ChalOps
    <3>2. CASE solves' = solves BY <3>2
    <3>3. CASE r.chal # s.chal BY <2>4, <3>3
    <3>4. CASE solves' # solves /\ r.chal = s.chal
      <4>1. touched'[r.chal] = touched[r.chal] + 1 BY <2>3, <2>4, <3>1, <3>4
      <4> QED BY <2>3, <2>6, <2>10, <3>1, <4>1
    <3> QED BY <3>2, <3>3, <3>4
  <2>11. charges' = charges /\ teams' = teams BY <2>4
  <2> QED BY <2>1, <2>5, <2>7, <2>8, <2>9, <2>10, <2>11 DEF Undisturbed
<1> QED BY <1>1, <1>3, <1>4, <1>5, <1>6, <1>7, <1>8 DEF Step

\* Nor does time.
LEMMA TimeUndisturbs ==
  ASSUME IInv, NEW q \in Requests,
         \/ \E a \in Accounts : MinutePasses(a)
         \/ \E a \in Accounts, c \in Challenges : WindowPasses(a, c)
         \/ UNCHANGED vars
  PROVE  Undisturbed(q)
<1>1. CASE (\E a \in Accounts : MinutePasses(a)) \/ UNCHANGED vars
  <2>1. UNCHANGED <<solves, fails, given, charges, touched, teams, req>>
    BY <1>1 DEF MinutePasses, vars, fixed, tries, ledger, ghosts
  <2> QED BY <2>1, QuietStep
<1>2. CASE \E a \in Accounts, c \in Challenges : WindowPasses(a, c)
  <2>1. PICK a \in Accounts, c \in Challenges : WindowPasses(a, c) BY <1>2
  <2>2. /\ UNCHANGED <<solves, given, charges, touched, teams, req>>
        /\ fails' = [fails EXCEPT ![<<a, c>>] = 0]
    BY <2>1 DEF WindowPasses, fixed, ledger, ghosts
  <2>3. touched \in [Challenges -> Nat] /\ fails \in [Accounts \X Challenges -> Nat]
    BY DEF IInv, DataTyped
  <2>4. PICK r : r = req[q] OBVIOUS
  <2>5. ASSUME NEW k \in Nat PROVE k <= k /\ 0 <= k OBVIOUS
  <2>6. \A d \in Challenges : touched'[d] \in Nat /\ touched[d] <= touched'[d] BY <2>2, <2>3, <2>5
  <2>7. ASSUME r.pc \in Deciding, r.op = "attempt"
        PROVE  MoreOnlyGiven(<<Account(r.user), r.chal>>)
    <3>1. r.pc # "idle" BY <2>7 DEF Deciding
    <3>2. PICK k : k = <<Account(r.user), r.chal>> OBVIOUS
    <3>3. fails[k] \in Nat /\ given[k] \in Nat /\ k \in Accounts \X Challenges
      BY <2>4, <2>7, <3>1, <3>2, TriesTyped
    <3>4. given'[k] = given[k] /\ (fails'[k] = fails[k] \/ fails'[k] = 0) BY <2>2, <2>3, <3>3
    <3> QED BY <3>2, <3>3, <3>4 DEF MoreOnlyGiven
  <2>8. Duplicate(r)' => Duplicate(r) BY <2>2 DEF Duplicate, Account
  <2> QED BY <2>2, <2>4, <2>6, <2>7, <2>8 DEF Undisturbed
<1> QED BY <1>1, <1>2

----------------------------------------------------------------------------
(* The invariant: requests, locks and conclusions *)

RequestOK(q) ==
    /\ IsRequest(req[q]) /\ (req[q].pc # "idle" => WellFormed(req[q]))
    /\ req[q].pc = "idle" => req[q].taken = 0
    /\ req[q].taken <= Len(Locks(req[q]))
    /\ req[q].pc \in Deciding => req[q].taken >= Len(ReadLocks(req[q]))
    /\ req[q].pc = "counted" => req[q].taken = Len(Locks(req[q]))
    /\ Concluded(req[q])

\* A transaction that does not take part in a step keeps its locks, its fields and
\* its conclusion.
LEMMA BystanderOK ==
  ASSUME IInv, NEW q \in Requests, Undisturbed(q)
  PROVE  RequestOK(q)' /\ Held'[q] = Held[q]
<1>1. PICK r : r = req[q] OBVIOUS
<1>2. req'[q] = r /\ teams' = teams BY <1>1 DEF Undisturbed
<1>3. /\ Locks(req[q])' = Locks(r) /\ ReadLocks(req[q])' = ReadLocks(r)
      /\ Held'[q] = Taken(Locks(r), r.taken)
  BY <1>2, LocksStable
<1>4. Held[q] = Taken(Locks(r), r.taken) BY <1>1, RequestFields
<1>5. Concluded(req[q])' BY ConclusionKept
<1>6. /\ IsRequest(r) /\ (r.pc # "idle" => WellFormed(r)) /\ (r.pc = "idle" => r.taken = 0)
      /\ r.taken <= Len(Locks(r))
      /\ r.pc \in Deciding => r.taken >= Len(ReadLocks(r))
      /\ r.pc = "counted" => r.taken = Len(Locks(r))
  BY <1>1, RequestFields DEF IInv, LocksTaken
<1> QED BY <1>2, <1>3, <1>4, <1>5, <1>6 DEF RequestOK

\* An edit keeps the kind of its challenge (the fields administrators send are
\* those of the challenge's type).
LEMMA EditsTyped ==
  ASSUME IInv, NEW c \in Challenges, NEW fields, NEW e \in Edits(c, fields)
  PROVE  RowOf(c, e)
<1>1. PICK row : row = chal[c] OBVIOUS
<1>2. /\ row.state \in {"visible", "hidden"} /\ row.logic \in Logics /\ row.tries \in Nat
      /\ row.initial \in Nat /\ row.value \in Nat
      /\ row.function \in {"static", "linear", "logarithmic"}
      /\ row.function = "static" <=> c \notin Dynamic
  BY <1>1 DEF IInv, DataTyped, RowOf, ChallengeRow
<1>3. Limits \subseteq Nat /\ Initials \subseteq Nat BY ScoringAssumption
<1>4. PICK scores, kept :
        /\ kept = <<row.function, row.initial, row.value>>
        /\ scores = IF c \in Dynamic THEN {"linear", "logarithmic"} \X Initials \X {row.value}
                    ELSE {"static"} \X {row.initial} \X Initials
  OBVIOUS
<1>5. PICK st \in IF "state" \in fields THEN {"visible", "hidden"} ELSE {row.state},
           lo \in IF "logic" \in fields THEN Logics ELSE {row.logic},
           n \in IF "limit" \in fields THEN Limits ELSE {row.tries},
           v \in IF "score" \in fields THEN scores ELSE {kept} :
        e = [state |-> st, logic |-> lo, tries |-> n, function |-> v[1], initial |-> v[2],
             value |-> v[3]]
  BY <1>1, <1>4 DEF Edits
<1>6. st \in {"visible", "hidden"} /\ lo \in Logics /\ n \in Nat BY <1>2, <1>3
<1>7. /\ v[1] \in {"static", "linear", "logarithmic"} /\ v[2] \in Nat /\ v[3] \in Nat
      /\ v[1] = "static" <=> c \notin Dynamic
  <2>1. CASE v = kept BY <1>2, <1>4, <2>1
  <2>2. CASE v \in scores /\ c \in Dynamic BY <1>2, <1>3, <1>4, <2>2
  <2>3. CASE v \in scores /\ c \notin Dynamic BY <1>2, <1>3, <1>4, <2>3
  <2> QED BY <2>1, <2>2, <2>3
<1> QED BY <1>5, <1>6, <1>7 DEF RowOf, ChallengeRow

\* No lock is taken by a transaction that is over.
LEMMA IdleLocks == Len(Locks(Idle)) \in Nat
<1>1. Idle.pc = "idle" BY DEF Idle
<1>2. CASE Idle.op \in Ops BY <1>2, LocksShape
<1>3. CASE Idle.op \notin Ops
  <2>1. PICK r : r = Idle OBVIOUS
  <2>2. ReadLocks(r) = <<>> BY <1>3, <2>1 DEF ReadLocks, Ops
  <2>3. Locks(r) = <<>> \o <<>> BY <1>1, <2>1, <2>2 DEF Locks
  <2>4. Locks(r) = <<>> BY <2>3
  <2> QED BY <2>1, <2>4
<1> QED BY <1>2, <1>3

\* A transaction that ends gives its locks back.
LEMMA Ended ==
  ASSUME IInv, NEW p \in Requests, Done(p), teams' = teams
  PROVE  RequestOK(p)' /\ Held'[p] = {}
<1>1. req'[p] = Idle BY DEF Done, IInv, RequestsTyped
<1>2. PICK s : s = Idle OBVIOUS
<1>3. /\ Locks(req[p])' = Locks(s) /\ Held'[p] = Taken(Locks(s), s.taken)
  BY <1>1, <1>2, LocksStable
<1>4. IsRequest(s) /\ s.pc = "idle" /\ s.taken = 0 BY <1>2 DEF Idle, IsRequest
<1>5. Len(Locks(s)) \in Nat BY <1>2, IdleLocks
<1>6. Concluded(req[p])' BY <1>1, <1>2, <1>4 DEF Concluded, Deciding
<1>7. Held'[p] = {} BY <1>3, <1>4, TakenNone
<1> QED BY <1>1, <1>2, <1>3, <1>4, <1>5, <1>6, <1>7 DEF RequestOK, Deciding

\* A transaction begins with no locks.
LEMMA Started ==
  ASSUME IInv, NEW p \in Requests, Begin(p)
  PROVE  RequestOK(p)' /\ Held'[p] = {} /\ started' \in Nat
<1> DEFINE Fits(op, u, c, h, f, e) ==
             /\ op \in Ops
             /\ op \in UserOps => u \in Users
             /\ op \in ChalOps => c \in Challenges
             /\ op = "unlock" => h \in Hints
             /\ op \in {"attempt", "submission"} => f \in Flags \cup {None}
             /\ op = "edit" => RowOf(c, e)
<1>1. \E op, u, c, h, f, e : Start(p, op, u, c, h, f, e) /\ Fits(op, u, c, h, f, e)
  <2> USE DEF Ops, UserOps, ChalOps
  <2>1. CASE \E u \in Users, c \in Challenges, f \in Flags \cup {None} :
               Start(p, "attempt", u, c, None, f, None)
    BY <2>1
  <2>2. CASE \E u \in Users, h \in Hints : Start(p, "unlock", u, None, h, None, None)
    BY <2>2
  <2>3. CASE \E c \in Challenges, fields \in Patches : \E e \in Edits(c, fields) :
               Start(p, "edit", None, c, None, None, e)
    BY <2>3, EditsTyped
  <2>4. CASE \E u \in Users, c \in Challenges, m \in Moves, f \in Flags \cup {None} :
               Start(p, "submission", u, c, None, f, m)
    BY <2>4
  <2>6. CASE \E u \in Users, op \in {"award", "unaward"} :
               Start(p, op, u, None, None, None, None)
    BY <2>6
  <2> HIDE DEF Fits
  <2> QED BY <2>1, <2>2, <2>3, <2>4, <2>6 DEF Begin
<1>2. PICK op, u, c, h, f, e : Start(p, op, u, c, h, f, e) /\ Fits(op, u, c, h, f, e) BY <1>1
<1>3. PICK s : s = [pc |-> "locking", op |-> op, user |-> u, chal |-> c, hint |-> h, flag |-> f,
                    edit |-> e, outcome |-> None, read |-> None, count |-> 0, seen |-> 0,
                    taken |-> 0]
  OBVIOUS
<1>4. req'[p] = s /\ teams' = teams /\ started' = started + 1
  BY <1>2, <1>3 DEF Start, fixed, IInv, RequestsTyped
<1>5. /\ IsRequest(s) /\ s.pc = "locking" /\ s.op = op /\ s.user = u /\ s.chal = c
      /\ s.hint = h /\ s.flag = f /\ s.edit = e /\ s.taken = 0
  BY <1>3 DEF IsRequest
<1>6. WellFormed(s) BY <1>2, <1>5 DEF WellFormed, Deciding
<1>7. Locks(req[p])' = Locks(s) /\ Held'[p] = Taken(Locks(s), s.taken) BY <1>4, LocksStable
<1>8. Len(Locks(s)) \in Nat BY <1>6, LocksShape DEF WellFormed
<1>9. Concluded(req[p])' BY <1>4, <1>5 DEF Concluded, Deciding
<1>10. Held'[p] = {} BY <1>5, <1>7, TakenNone
<1>11. started' \in Nat BY <1>4 DEF IInv
<1> QED BY <1>4, <1>5, <1>6, <1>7, <1>8, <1>9, <1>10, <1>11 DEF RequestOK, Deciding

\* A lock that was granted.
LEMMA LockTaken ==
  ASSUME IInv, NEW p \in Requests, TakeLock(p)
  PROVE  RequestOK(p)' /\ \E l : Held'[p] = Held[p] \cup {l} /\ MayTake(Held, p, l)
<1>1. PICK r : r = req[p] OBVIOUS
<1>2. /\ IsRequest(r) /\ WellFormed(r) /\ r.op \in Ops /\ r.taken \in Nat /\ Concluded(r)
      /\ r.pc # "idle" /\ r.taken <= Len(Locks(r)) /\ r.taken # Len(Locks(r))
      /\ MayTake(Held, p, Locks(r)[r.taken + 1])
      /\ Held[p] = Taken(Locks(r), r.taken)
      /\ r.pc \in Deciding => r.taken >= Len(ReadLocks(r))
      /\ r.pc # "counted"
  BY <1>1, RequestFields DEF TakeLock, AllTaken, IInv, LocksTaken
<1>3. PICK n \in Nat : n = r.taken + 1 BY <1>2
<1>4. PICK s : s = [r EXCEPT !.taken = n] OBVIOUS
<1>5. req'[p] = s /\ UNCHANGED <<teams, solves, fails, given, charges, touched>>
  BY <1>1, <1>3, <1>4 DEF TakeLock, fixed, tries, ledger, ghosts, IInv, RequestsTyped
<1>6. /\ IsRequest(s) /\ s.pc = r.pc /\ s.op = r.op /\ s.user = r.user /\ s.chal = r.chal
      /\ s.hint = r.hint /\ s.flag = r.flag /\ s.edit = r.edit /\ s.outcome = r.outcome
      /\ s.read = r.read /\ s.count = r.count /\ s.seen = r.seen /\ s.taken = n
  BY <1>2, <1>4 DEF IsRequest
<1>7. WellFormed(s) BY <1>2, <1>6 DEF WellFormed
<1>8. Locks(s) = Locks(r) /\ ReadLocks(s) = ReadLocks(r)
  BY <1>6 DEF Locks, ReadLocks, AttemptLocks, UnlockLocks, EditLocks, RecordLocks, RemoveLocks,
         SubmissionLocks, SubmissionRow,
         WriteLocks, ScoreLocks
<1>9. /\ Locks(req[p])' = Locks(s) /\ ReadLocks(req[p])' = ReadLocks(s)
      /\ Held'[p] = Taken(Locks(s), s.taken)
  BY <1>5, LocksStable
<1>10. Held'[p] = Held[p] \cup {Locks(r)[n]}
  <2>1. Held'[p] = Taken(Locks(r), r.taken + 1) BY <1>3, <1>6, <1>8, <1>9
  <2> QED BY <1>2, <1>3, <2>1, TakenNext
<1>11. Concluded(req[p])'
  BY <1>2, <1>5, <1>6 DEF Concluded, HasTry, Duplicate, Account, Own
<1>12. Len(Locks(r)) \in Nat /\ Len(ReadLocks(r)) \in Nat BY <1>2, LocksShape
<1>13. n <= Len(Locks(r)) /\ (r.taken >= Len(ReadLocks(r)) => n >= Len(ReadLocks(r)))
  BY <1>2, <1>3, <1>12
<1>14. RequestOK(p)'
  BY <1>2, <1>5, <1>6, <1>7, <1>8, <1>9, <1>11, <1>13 DEF RequestOK
<1> QED BY <1>2, <1>3, <1>10, <1>14

Decides(r, o, row, n) == [r EXCEPT !.pc = "writing", !.outcome = o, !.read = row, !.seen = n]
Counts(r, n, k)       == [r EXCEPT !.pc = "counted", !.seen = n, !.count = k]

\* The reading step records the outcome and the row it read.
LEMMA DecidedFields ==
  ASSUME NEW r, IsRequest(r), NEW o, NEW row, NEW n, NEW s, s = Decides(r, o, row, n)
  PROVE  /\ IsRequest(s) /\ s.pc = "writing" /\ s.outcome = o /\ s.read = row /\ s.seen = n
         /\ s.op = r.op /\ s.user = r.user /\ s.chal = r.chal /\ s.hint = r.hint
         /\ s.flag = r.flag /\ s.edit = r.edit /\ s.count = r.count /\ s.taken = r.taken
<1>1. PICK a : a = [r EXCEPT !.pc = "writing"] OBVIOUS
<1>2. /\ IsRequest(a) /\ a.pc = "writing" /\ a.outcome = r.outcome /\ a.read = r.read
      /\ a.seen = r.seen /\ a.op = r.op /\ a.user = r.user /\ a.chal = r.chal /\ a.hint = r.hint
      /\ a.flag = r.flag /\ a.edit = r.edit /\ a.count = r.count /\ a.taken = r.taken
  BY <1>1 DEF IsRequest
<1>3. PICK b : b = [a EXCEPT !.outcome = o] OBVIOUS
<1>4. /\ IsRequest(b) /\ b.pc = "writing" /\ b.outcome = o /\ b.read = r.read
      /\ b.seen = r.seen /\ b.op = r.op /\ b.user = r.user /\ b.chal = r.chal /\ b.hint = r.hint
      /\ b.flag = r.flag /\ b.edit = r.edit /\ b.count = r.count /\ b.taken = r.taken
  BY <1>2, <1>3 DEF IsRequest
<1>5. PICK c : c = [b EXCEPT !.read = row] OBVIOUS
<1>6. /\ IsRequest(c) /\ c.pc = "writing" /\ c.outcome = o /\ c.read = row
      /\ c.seen = r.seen /\ c.op = r.op /\ c.user = r.user /\ c.chal = r.chal /\ c.hint = r.hint
      /\ c.flag = r.flag /\ c.edit = r.edit /\ c.count = r.count /\ c.taken = r.taken
  BY <1>4, <1>5 DEF IsRequest
<1>7. s = [c EXCEPT !.seen = n] BY <1>1, <1>3, <1>5 DEF Decides
<1> QED BY <1>6, <1>7 DEF IsRequest

\* The counting step records the count and when it was made.
LEMMA CountedFields ==
  ASSUME NEW r, IsRequest(r), NEW n, NEW k, NEW s, s = Counts(r, n, k)
  PROVE  /\ IsRequest(s) /\ s.pc = "counted" /\ s.seen = n /\ s.count = k
         /\ s.op = r.op /\ s.user = r.user /\ s.chal = r.chal /\ s.hint = r.hint
         /\ s.flag = r.flag /\ s.edit = r.edit /\ s.outcome = r.outcome /\ s.read = r.read
         /\ s.taken = r.taken
<1>1. PICK a : a = [r EXCEPT !.pc = "counted"] OBVIOUS
<1>2. /\ IsRequest(a) /\ a.pc = "counted" /\ a.outcome = r.outcome /\ a.read = r.read
      /\ a.seen = r.seen /\ a.op = r.op /\ a.user = r.user /\ a.chal = r.chal /\ a.hint = r.hint
      /\ a.flag = r.flag /\ a.edit = r.edit /\ a.count = r.count /\ a.taken = r.taken
  BY <1>1 DEF IsRequest
<1>3. PICK b : b = [a EXCEPT !.seen = n] OBVIOUS
<1>4. /\ IsRequest(b) /\ b.pc = "counted" /\ b.outcome = r.outcome /\ b.read = r.read
      /\ b.seen = n /\ b.op = r.op /\ b.user = r.user /\ b.chal = r.chal /\ b.hint = r.hint
      /\ b.flag = r.flag /\ b.edit = r.edit /\ b.count = r.count /\ b.taken = r.taken
  BY <1>2, <1>3 DEF IsRequest
<1>5. s = [b EXCEPT !.count = k] BY <1>1, <1>3 DEF Counts
<1> QED BY <1>4, <1>5 DEF IsRequest

\* The outcome of an attempt says what its reading step found: a wrong answer is in
\* the limit, a correct one the first.
LEMMA Outcomes ==
  ASSUME NEW r
  PROVE  /\ Outcome(r) = "incorrect" => ~TriesUsed(r)
         /\ Outcome(r) = "correct" => ~HasSolved(Account(r.user), r.chal)
<1>1. Compared(r) \in {"correct", "partial", "incorrect"} BY DEF Compared
<1> QED BY <1>1 DEF Outcome

\* A transaction that has every lock of its reading step keeps them when it
\* decides, and those that remain are those of its writes.
LEMMA LocksOfDecided ==
  ASSUME NEW r, NEW s, r.op \in Ops, s.op = r.op, s.user = r.user, s.chal = r.chal,
         s.edit = r.edit,
         r.pc \notin Deciding, r.taken = Len(Locks(r)), s.taken = r.taken
  PROVE  /\ Taken(Locks(s), s.taken) = Taken(Locks(r), r.taken)
         /\ s.taken <= Len(Locks(s)) /\ s.taken = Len(ReadLocks(s))
<1>1. ReadLocks(s) = ReadLocks(r)
  BY DEF ReadLocks, AttemptLocks, UnlockLocks, EditLocks, RecordLocks, RemoveLocks,
         SubmissionLocks, SubmissionRow
<1>2. PICK m, n, R : m = Locks(r) /\ n = Locks(s) /\ R = ReadLocks(r) OBVIOUS
<1>3. /\ Len(m) \in Nat /\ Len(n) \in Nat /\ Len(R) \in Nat /\ Len(m) = Len(R) /\ Len(R) <= Len(n)
      /\ \A i \in 1..Len(R) : m[i] = R[i] /\ n[i] = R[i]
  BY <1>1, <1>2, LocksShape
<1>4. Taken(n, Len(R)) = Taken(m, Len(R)) BY <1>3 DEF Taken
<1> QED BY <1>1, <1>2, <1>3, <1>4

\* The reading step ends the transaction, or keeps its locks and concludes only
\* what it saw.
LEMMA Decided ==
  ASSUME IInv, NEW p \in Requests, Decide(p)
  PROVE  RequestOK(p)' /\ (Held'[p] = Held[p] \/ Held'[p] = {})
<1>1. PICK r : r = req[p] OBVIOUS
<1>2. PICK a : a = Account(r.user) OBVIOUS
<1>3. /\ r.pc = "locking" /\ r.taken = Len(Locks(r)) /\ r.op \in Ops /\ WellFormed(r)
      /\ IsRequest(r) /\ r.taken \in Nat /\ Held[p] = Taken(Locks(r), r.taken)
  BY <1>1, RequestFields DEF Decide, AllTaken
<1>4. UNCHANGED <<teams, solves, fails, given, charges, touched>>
  BY DEF Decide, fixed, tries, ledger, ghosts
<1>5. CASE Decision(r) = "refused"
  <2>1. Done(p) BY <1>1, <1>5 DEF Decide, Done
  <2> QED BY <1>4, <2>1, Ended
<1>6. CASE Decision(r) # "refused"
  <2>1. PICK o, row, n : /\ o = Decision(r)
                         /\ row = IF r.op = "attempt" THEN chal[r.chal] ELSE r.edit
                         /\ n = CASE r.op = "unlock" -> Earned(a)
                                  [] r.op = "attempt" -> given[a, r.chal]
                                  [] OTHER -> 0
    OBVIOUS
  <2>2. PICK s : s = Decides(r, o, row, n) OBVIOUS
  <2>3. req' = [req EXCEPT ![p] = s] BY <1>1, <1>2, <1>6, <2>1, <2>2 DEF Decide, Decides
  <2>4. req'[p] = s BY <2>3 DEF IInv, RequestsTyped
  <2>5. /\ IsRequest(s) /\ s.pc = "writing" /\ s.outcome = o /\ s.read = row /\ s.seen = n
        /\ s.op = r.op /\ s.user = r.user /\ s.chal = r.chal /\ s.hint = r.hint
        /\ s.flag = r.flag /\ s.edit = r.edit /\ s.count = r.count /\ s.taken = r.taken
    BY <1>3, <2>2, DecidedFields
  <2>6. /\ r.op = "attempt" => o = Outcome(r)
        /\ r.op = "unlock" => Affordable(r)
        /\ r.op # "attempt" => o # "correct"
    BY <1>6, <2>1 DEF Decision
  <2>7. r.op = "attempt" => RowOf(r.chal, row)
    <3>1. r.op = "attempt" => r.chal \in Challenges BY <1>3 DEF WellFormed, ChalOps
    <3> QED BY <2>1, <3>1 DEF IInv, DataTyped
  <2>8. WellFormed(s)
    BY <1>3, <2>1, <2>5, <2>6, <2>7 DEF WellFormed
  <2>9. /\ Taken(Locks(s), s.taken) = Taken(Locks(r), r.taken)
        /\ s.taken <= Len(Locks(s)) /\ s.taken = Len(ReadLocks(s))
    BY <1>3, <2>5, LocksOfDecided DEF Deciding
  <2>10. /\ Locks(req[p])' = Locks(s) /\ ReadLocks(req[p])' = ReadLocks(s)
         /\ Held'[p] = Taken(Locks(s), s.taken)
    BY <1>4, <2>4, LocksStable
  <2>11. Concluded(s)
    <3>2. ASSUME r.op = "attempt", o = "incorrect", row.tries > 0 PROVE HasTry(s)
      <4>1. PICK k : k = <<a, r.chal>> OBVIOUS
      <4>2. fails[k] \in Nat /\ given[k] \in Nat BY <1>1, <1>2, <1>3, <3>2, <4>1, TriesTyped
      <4>3. row = chal[r.chal] /\ n = given[k] BY <2>1, <3>2, <4>1
      <4>4. row.tries \in Nat BY <2>7, <3>2 DEF RowOf, ChallengeRow
      <4>5. ~(fails[k] >= row.tries) BY <1>2, <2>6, <3>2, <4>1, <4>3, Outcomes DEF TriesUsed
      <4>6. fails[k] < row.tries + (n - n) BY <4>2, <4>3, <4>4, <4>5
      <4> QED BY <1>2, <2>5, <4>1, <4>2, <4>3, <4>6 DEF HasTry
    <3>3. r.op = "attempt" /\ o = "correct" => ~Duplicate(s)
      <4>1. SUFFICES ASSUME r.op = "attempt", o = "correct", Duplicate(s) PROVE FALSE OBVIOUS
      <4>2. PICK x \in solves : x.chal = r.chal /\ (x.user = r.user \/ x.account = a)
        BY <1>2, <2>5, <4>1 DEF Duplicate
      <4>3. x.account = a BY <1>2, <4>2 DEF IInv, SolvesOfAccounts
      <4>4. HasSolved(a, r.chal) BY <4>2, <4>3 DEF HasSolved, SolversOf
      <4> QED BY <1>2, <2>6, <4>1, <4>4, Outcomes
    <3>4. r.op = "unlock" => charges[a] + Cost <= n
      BY <1>2, <2>1, <2>6 DEF Affordable, AccountScoreCovers
    <3> QED BY <1>2, <2>5, <3>2, <3>3, <3>4 DEF Concluded
  <2>12. Concluded(req[p])' BY <1>4, <2>4, <2>11 DEF Concluded, HasTry, Duplicate, Account, Own
  <2> QED BY <1>3, <2>4, <2>5, <2>8, <2>9, <2>10, <2>12 DEF RequestOK
<1> QED BY <1>5, <1>6

\* The accounts that can solve are finitely many, so solves can be counted.
LEMMA SolversCounted ==
  ASSUME IInv, NEW c, NEW A \in SUBSET Accounts
  PROVE  /\ IsFiniteSet(SolversOf(solves, c) \cup A)
         /\ Cardinality(SolversOf(solves, c) \cup A) \in Nat
<1>1. IsFiniteSet(Users \cup {Team}) BY ScoringAssumption, FS_AddElement
<1>2. SolversOf(solves, c) \cup A \in SUBSET (Users \cup {Team})
  BY DEF SolversOf, IInv, DataTyped, Solve, Accounts
<1>3. IsFiniteSet(SolversOf(solves, c) \cup A) BY <1>1, <1>2, FS_Subset
<1> QED BY <1>3, FS_CardinalityType

\* The counting step ends the transaction, or keeps its locks and counts the
\* solves as they are.
LEMMA Counted ==
  ASSUME IInv, NEW p \in Requests, CountSolves(p)
  PROVE  RequestOK(p)' /\ (Held'[p] = Held[p] \/ Held'[p] = {})
<1>1. PICK r : r = req[p] OBVIOUS
<1>2. PICK a : a = Account(r.user) OBVIOUS
<1>3. /\ r.pc = "writing" /\ r.taken = Len(Locks(r)) /\ WellFormed(r) /\ IsRequest(r)
      /\ (r.op = "attempt" /\ r.outcome = "correct") \/ r.op = "edit"
      /\ r.read.function # "static"
      /\ r.taken \in Nat /\ Held[p] = Taken(Locks(r), r.taken)
  BY <1>1, RequestFields DEF CountSolves, Ready, AllTaken
<1>4. UNCHANGED <<teams, solves, fails, given, charges, touched>>
  BY DEF CountSolves, fixed, tries, ledger, ghosts
<1>5. CASE r.op = "attempt" /\ Duplicate(r)
  <2>1. Done(p) BY <1>1, <1>5 DEF CountSolves, Done
  <2> QED BY <1>4, <2>1, Ended
<1>6. CASE ~(r.op = "attempt" /\ Duplicate(r))
  <2>1. PICK n, k : n = touched[r.chal] /\ k = Cardinality(SolversOf(solves, r.chal) \cup Own(r))
    OBVIOUS
  <2>2. PICK s : s = Counts(r, n, k) OBVIOUS
  <2>3. req' = [req EXCEPT ![p] = s] BY <1>1, <1>6, <2>1, <2>2 DEF CountSolves, Counts, Own
  <2>4. req'[p] = s BY <2>3 DEF IInv, RequestsTyped
  <2>5. /\ IsRequest(s) /\ s.pc = "counted" /\ s.seen = n /\ s.count = k
        /\ s.op = r.op /\ s.user = r.user /\ s.chal = r.chal /\ s.hint = r.hint
        /\ s.flag = r.flag /\ s.edit = r.edit /\ s.outcome = r.outcome /\ s.read = r.read
        /\ s.taken = r.taken
    BY <1>3, <2>2, CountedFields
  <2>6. r.chal \in Challenges /\ RowOf(r.chal, r.read) /\ (r.op = "attempt" => r.user \in Users)
    BY <1>3 DEF WellFormed, ChalOps, UserOps, Ops, Deciding
  <2>7. r.chal \in Dynamic BY <1>3, <2>6 DEF RowOf
  <2>8. k \in Nat
    <3>1. Own(r) \in SUBSET Accounts BY <2>6 DEF Own, Account, Accounts
    <3> QED BY <2>1, <3>1, SolversCounted
  <2>9. n \in Nat BY <2>1, <2>6 DEF IInv, DataTyped
  <2>10. WellFormed(s) BY <1>3, <2>5, <2>7, <2>8 DEF WellFormed, Deciding
  <2>11. Locks(s) = Locks(r) /\ ReadLocks(s) = ReadLocks(r)
    BY <1>3, <2>5 DEF Locks, ReadLocks, AttemptLocks, UnlockLocks, EditLocks, RecordLocks,
         RemoveLocks, SubmissionLocks, SubmissionRow, WriteLocks, ScoreLocks
  <2>12. /\ Locks(req[p])' = Locks(s) /\ ReadLocks(req[p])' = ReadLocks(s)
         /\ Held'[p] = Taken(Locks(s), s.taken)
    BY <1>4, <2>4, LocksStable
  <2>13. Len(Locks(r)) \in Nat /\ Len(ReadLocks(r)) \in Nat /\ Len(ReadLocks(r)) <= Len(Locks(r))
    BY <1>3, LocksShape DEF WellFormed
  <2>14. Concluded(s)
    <3>1. Own(s) = Own(r) BY <2>5 DEF Own
    <3>2. Duplicate(s) <=> Duplicate(r) BY <2>5 DEF Duplicate
    <3>3. n <= n BY <2>9
    <3> QED BY <1>3, <1>6, <2>1, <2>5, <2>9, <3>1, <3>2, <3>3 DEF Concluded
  <2>15. Concluded(req[p])' BY <1>4, <2>4, <2>14 DEF Concluded, HasTry, Duplicate, Account, Own
  <2> QED BY <1>3, <2>4, <2>5, <2>10, <2>11, <2>12, <2>13, <2>15 DEF RequestOK
<1> QED BY <1>5, <1>6

\* What a step does to the locks and the request of the transaction that takes it.
LEMMA MoverOK ==
  ASSUME IInv, NEW p \in Requests, Step(p)
  PROVE  /\ RequestOK(p)' /\ started' \in Nat
         /\ \/ Held'[p] = Held[p] \/ Held'[p] = {}
            \/ \E l : Held'[p] = Held[p] \cup {l} /\ MayTake(Held, p, l)
<1>1. ~Begin(p) => started' = started
  BY DEF Step, TakeLock, Fail, Decide, RecordAttempt, RecordSolve, CountSolves, CommitSolve,
         CommitEdit, ChangeSubmission, Award, Unlock
<1>2. started \in Nat BY DEF IInv
<1>3. CASE Begin(p) BY <1>3, Started
<1>4. CASE TakeLock(p) BY <1>1, <1>2, <1>4, LockTaken, Started
<1>5. CASE Decide(p) BY <1>1, <1>2, <1>5, Decided, Started
<1>6. CASE CountSolves(p) BY <1>1, <1>2, <1>6, Counted, Started
<1>7. CASE \/ Fail(p) \/ RecordAttempt(p) \/ RecordSolve(p) \/ CommitSolve(p) \/ CommitEdit(p)
           \/ ChangeSubmission(p) \/ Award(p) \/ Unlock(p)
  <2>1. Done(p) /\ teams' = teams
    BY <1>7 DEF Fail, RecordAttempt, RecordSolve, CommitSolve, CommitEdit, ChangeSubmission, Award,
         Unlock, Done, fixed
  <2> QED BY <1>1, <1>2, <2>1, Ended, Started
<1> QED BY <1>3, <1>4, <1>5, <1>6, <1>7 DEF Step

\* Every transaction keeps its conflicting locks to itself, its request typed and
\* its conclusion true (all the handlers, running together).
LEMMA RequestsKept ==
  ASSUME IInv, [Next]_vars
  PROVE  RequestsTyped' /\ LocksTaken' /\ ExclusiveLocks' /\ ConclusionsHold' /\ started' \in Nat
<1>1. Exclusion(Held) /\ DOMAIN Held = Requests /\ DOMAIN Held' = Requests
  BY DEF IInv, ExclusiveLocks, Held
<1>2. CASE \E p \in Requests : Step(p)
  <2>1. PICK p \in Requests : Step(p) BY <1>2
  <2>2. RequestOK(p)' /\ started' \in Nat BY <2>1, MoverOK
  <2>3. \A q \in Requests : q # p => RequestOK(q)' /\ Held'[q] = Held[q]
    BY <2>1, StepUndisturbs, BystanderOK
  <2>4. \A q \in Requests : RequestOK(q)' BY <2>2, <2>3
  <2>5. Exclusion(Held')
    <3>1. CASE Held'[p] \subseteq Held[p]
      <4> \A q \in Requests : Held'[q] \subseteq Held[q] BY <2>3, <3>1
      <4> HIDE DEF Held
      <4> QED BY <1>1, ReleaseKeepsExclusion
    <3>2. CASE \E l : Held'[p] = Held[p] \cup {l} /\ MayTake(Held, p, l)
      <4>1. PICK l : Held'[p] = Held[p] \cup {l} /\ MayTake(Held, p, l) BY <3>2
      <4>2. \A q \in Requests : Held'[q] \subseteq Held[q] \cup (IF q = p THEN {l} ELSE {})
        BY <2>3, <4>1
      <4> HIDE DEF Held
      <4> QED BY <1>1, <4>1, <4>2, TakeKeepsExclusion
    <3> QED BY <2>1, <3>1, <3>2, MoverOK
  <2>6. \E r : req' = [req EXCEPT ![p] = r]
    <3>1. CASE Begin(p) BY <3>1 DEF Begin, Start
    <3>2. CASE TakeLock(p) BY <3>2 DEF TakeLock
    <3>3. CASE Decide(p) BY <3>3 DEF Decide
    <3>4. CASE CountSolves(p) BY <3>4 DEF CountSolves
    <3>5. CASE \/ Fail(p) \/ RecordAttempt(p) \/ RecordSolve(p) \/ CommitSolve(p)
               \/ CommitEdit(p) \/ ChangeSubmission(p) \/ Award(p) \/ Unlock(p)
      BY <3>5 DEF Fail, RecordAttempt, RecordSolve, CommitSolve, CommitEdit, ChangeSubmission, Award,
           Unlock, Done
    <3> QED BY <2>1, <3>1, <3>2, <3>3, <3>4, <3>5 DEF Step
  <2>7. req' = [q \in Requests |-> req'[q]] BY <2>6 DEF IInv, RequestsTyped
  <2> QED BY <2>2, <2>4, <2>5, <2>7
        DEF RequestOK, RequestsTyped, LocksTaken, ExclusiveLocks, ConclusionsHold
<1>3. CASE \/ \E a \in Accounts : MinutePasses(a)
           \/ \E a \in Accounts, c \in Challenges : WindowPasses(a, c)
           \/ UNCHANGED vars
  <2>1. \A q \in Requests : Undisturbed(q) BY <1>3, TimeUndisturbs
  <2>2. \A q \in Requests : RequestOK(q)' /\ Held'[q] = Held[q] BY <2>1, BystanderOK
  <2>3. Exclusion(Held')
    <3> \A q \in Requests : Held'[q] \subseteq Held[q] BY <2>2
    <3> HIDE DEF Held
    <3> QED BY <1>1, ReleaseKeepsExclusion
  <2>4. req' = req /\ started' = started BY <1>3 DEF MinutePasses, WindowPasses, vars
  <2>5. req' = [q \in Requests |-> req'[q]] BY <2>4 DEF IInv, RequestsTyped
  <2>6. started' \in Nat BY <2>4 DEF IInv
  <2> QED BY <2>2, <2>3, <2>5, <2>6
        DEF RequestOK, RequestsTyped, LocksTaken, ExclusiveLocks, ConclusionsHold
<1> QED BY <1>2, <1>3 DEF Next

----------------------------------------------------------------------------
(* The invariant: attempts, solves and values *)

DataOK == DataTyped /\ SolvesOfAccounts /\ CountedIsPast /\ ValueFollowsSolves

\* recalculate_dynamic_value never goes below the minimum, so values are naturals.
LEMMA DecayedTyped ==
  ASSUME NEW f, NEW i \in Nat, NEW n \in Nat
  PROVE  Decayed(f, i, n) \in Nat
<1>1. Minimum \in Nat /\ Decay \in Nat \ {0} BY ScoringAssumption
<1>2. PICK k \in Nat : k = Maximum(n - 1, 0) BY DEF Maximum
<1>3. Decay * k \in Int /\ (i - Minimum) \in Int BY <1>1
<1>4. PICK x \in Int : x = (i - Minimum) * k * k BY <1>1, <1>3
<1>5. PICK y \in Nat \ {0} : y = Decay * Decay BY <1>1
<1>6. x \div y \in Int OBVIOUS
<1>7. Curve(f, i, n) \in Int
  <2>1. CASE f = "linear"
    <3>1. Curve(f, i, n) = i - Decay * k BY <1>2, <2>1 DEF Curve
    <3> QED BY <1>3, <3>1
  <2>2. CASE f # "linear"
    <3>1. Curve(f, i, n) = i - (((i - Minimum) * k * k) \div (Decay * Decay))
      BY <1>2, <2>2 DEF Curve
    <3>2. Curve(f, i, n) = i - (x \div y) BY <1>4, <1>5, <3>1
    <3> QED BY <1>6, <3>2
  <2> QED BY <2>1, <2>2
<1>8. PICK c \in Int : c = Curve(f, i, n) BY <1>7
<1> QED BY <1>1, <1>8 DEF Decayed, Maximum

\* The value of a challenge is that of its solves.
Follows(c) ==
    c \notin overlapped /\ touched[c] = counted[c] =>
        chal[c].value = Decayed(chal[c].function, chal[c].initial,
                                Cardinality(SolversOf(solves, c)))

\* It stays so when nothing it depends on changes.
LEMMA FollowsFrame ==
  ASSUME IInv, NEW c \in Dynamic, chal'[c] = chal[c], touched'[c] = touched[c],
         counted'[c] = counted[c], c \in overlapped => c \in overlapped',
         SolversOf(solves', c) = SolversOf(solves, c)
  PROVE  Follows(c)'
<1>1. Follows(c) BY DEF IInv, ValueFollowsSolves, Follows
<1> QED BY <1>1 DEF Follows

\* A challenge of which nothing changed keeps its value.
LEMMA FollowsAll ==
  ASSUME \A c \in Dynamic : Follows(c)'
  PROVE  ValueFollowsSolves'
  BY DEF Follows, ValueFollowsSolves

\* What a handler that writes finds.
LEMMA WriterFinds ==
  ASSUME IInv, NEW p \in Requests, req[p].pc \in Deciding
  PROVE  LET r == req[p]
             a == Account(r.user)
         IN  /\ DataOK /\ WellFormed(r) /\ Concluded(r) /\ ScoringAssumption
             /\ r.op \in UserOps => r.user \in Users /\ a \in Accounts
             /\ r.op \in ChalOps => r.chal \in Challenges
             /\ r.op \in {"attempt", "submission"} => NewSolve(r) \in Solve /\ <<a, r.chal>> \in Accounts \X Challenges
<1>1. WellFormed(req[p]) /\ Concluded(req[p]) BY RequestFields DEF Deciding
<1>2. \A u \in Users : Account(u) \in Accounts BY DEF Account, Accounts
<1>3. DataOK BY DEF IInv, DataOK
<1>4. PICK r : r = req[p] OBVIOUS
<1>5. r.op \in {"attempt", "submission"} => r.user \in Users /\ r.chal \in Challenges
  BY <1>1, <1>4 DEF WellFormed, UserOps, ChalOps, Ops
<1>6. r.op \in {"attempt", "submission"} => NewSolve(r) \in Solve BY <1>2, <1>5 DEF NewSolve, Solve
<1> QED BY <1>1, <1>2, <1>3, <1>4, <1>5, <1>6, ScoringAssumption DEF WellFormed

\* A step that leaves the tables alone.
LEMMA DataUnchanged ==
  ASSUME IInv, UNCHANGED <<teams, lockout, chal, solves, partial, fails, recent, unlocked,
                           charges, awards, touched, counted, overlapped, given>>
  PROVE  DataOK'
  BY DEF IInv, DataOK, DataTyped, SolvesOfAccounts, CountedIsPast,
         ValueFollowsSolves, SolversOf, Account

\* A wrong or partial answer, or none that counts (insert_submission).
LEMMA RecordAttemptData == ASSUME IInv, NEW p \in Requests, RecordAttempt(p) PROVE DataOK'
<1>1. PICK r : r = req[p] OBVIOUS
<1>2. PICK a : a = Account(r.user) OBVIOUS
<1>3. r.pc = "writing" /\ r.op = "attempt" BY <1>1 DEF RecordAttempt, Ready
<1>4. /\ DataOK /\ WellFormed(r) /\ Concluded(r) /\ r.user \in Users /\ a \in Accounts
      /\ r.chal \in Challenges /\ <<a, r.chal>> \in Accounts \X Challenges
  BY <1>1, <1>2, <1>3, WriterFinds DEF Deciding, UserOps, ChalOps, Ops
<1>5. PICK miss : miss = IF r.outcome = "incorrect" THEN 1 ELSE 0 OBVIOUS
<1>6. /\ partial' = IF r.outcome = "partial"
                    THEN partial \cup {[user |-> r.user, account |-> a, chal |-> r.chal,
                                        flag |-> r.flag]}
                    ELSE partial
      /\ fails' = [fails EXCEPT ![<<a, r.chal>>] = fails[<<a, r.chal>>] + miss]
      /\ recent' = [recent EXCEPT ![a] = recent[a] + miss]
      /\ UNCHANGED <<teams, lockout, chal, solves, unlocked, charges, awards, touched, counted,
                     overlapped, given>>
  BY <1>1, <1>2, <1>5 DEF RecordAttempt, PartialOf, fixed, ledger, ghosts
<1>7. /\ fails \in [Accounts \X Challenges -> Nat] /\ recent \in [Accounts -> Nat]
      /\ partial \subseteq [user : Users, account : Accounts, chal : Challenges,
                           flag : Flags \cup {None}]
  BY <1>4 DEF DataOK, DataTyped
<1>8. fails' \in [Accounts \X Challenges -> Nat] /\ recent' \in [Accounts -> Nat]
  BY <1>4, <1>5, <1>6, <1>7
<1>9. partial' \subseteq [user : Users, account : Accounts, chal : Challenges,
                         flag : Flags \cup {None}]
  <2>1. r.flag \in Flags \cup {None} BY <1>3, <1>4 DEF WellFormed
  <2> QED BY <1>4, <1>6, <1>7, <2>1
<1>10. DataTyped' BY <1>4, <1>6, <1>8, <1>9 DEF DataOK, DataTyped
<1> QED BY <1>4, <1>6, <1>10
     DEF DataOK, SolvesOfAccounts, CountedIsPast, ValueFollowsSolves, SolversOf, Account

\* A solve of a challenge with a fixed value.
LEMMA RecordSolveData == ASSUME IInv, NEW p \in Requests, RecordSolve(p) PROVE DataOK'
<1>1. PICK r : r = req[p] OBVIOUS
<1>2. r.pc = "writing" /\ r.op = "attempt" /\ r.read.function = "static"
  BY <1>1 DEF RecordSolve, Ready
<1>3. DataOK /\ WellFormed(r) /\ NewSolve(r) \in Solve /\ r.chal \in Challenges
  BY <1>1, <1>2, WriterFinds DEF Deciding, UserOps, ChalOps, Ops
<1>4. /\ solves' = solves \/ solves' = solves \cup {NewSolve(r)}
      /\ UNCHANGED <<teams, lockout, chal, partial, fails, recent, unlocked, charges, awards,
                     touched, counted, overlapped, given>>
  BY <1>1 DEF RecordSolve, fixed, tries, ledger, ghosts
<1>5. r.chal \notin Dynamic BY <1>2, <1>3 DEF WellFormed, RowOf, Deciding
<1>6. NewSolve(r).chal = r.chal /\ NewSolve(r).account = Account(NewSolve(r).user)
  BY DEF NewSolve
<1>7. \A c \in Dynamic : SolversOf(solves', c) = SolversOf(solves, c)
  BY <1>4, <1>5, <1>6 DEF SolversOf
<1>8. ValueFollowsSolves' BY <1>3, <1>4, <1>7 DEF DataOK, ValueFollowsSolves
<1>9. SolvesOfAccounts' BY <1>3, <1>4, <1>6 DEF DataOK, SolvesOfAccounts, Account
<1>10. DataTyped' BY <1>3, <1>4 DEF DataOK, DataTyped
<1> QED BY <1>3, <1>4, <1>8, <1>9, <1>10 DEF DataOK, CountedIsPast

\* What a recalculation writes is what the solves it counted give.
LEMMA RevaluedTyped ==
  ASSUME IInv, NEW p \in Requests, req[p].pc = "counted"
  PROVE  /\ Revalued(req[p]) \in Nat /\ req[p].chal \in Dynamic /\ req[p].chal \in Challenges
         /\ RowOf(req[p].chal, req[p].read)
<1>1. PICK r : r = req[p] OBVIOUS
<1>2. /\ r.pc \in Deciding /\ WellFormed(r) /\ r.chal \in Dynamic /\ r.count \in Nat
      /\ r.op \in {"attempt", "edit"}
  BY <1>1, RequestFields DEF WellFormed, Deciding
<1>3. RowOf(r.chal, r.read) BY <1>2 DEF WellFormed
<1>4. r.read.initial \in Nat BY <1>3 DEF RowOf, ChallengeRow
<1>5. Revalued(r) \in Nat BY <1>2, <1>4, DecayedTyped DEF Revalued
<1> QED BY <1>1, <1>2, <1>3, <1>5, ScoringAssumption

\* The solve of a dynamic challenge and the value its solves give.
LEMMA CommitSolveData == ASSUME IInv, NEW p \in Requests, CommitSolve(p) PROVE DataOK'
<1>1. PICK r : r = req[p] OBVIOUS
<1>2. r.pc = "counted" /\ r.op = "attempt" BY <1>1 DEF CommitSolve
<1>3. DataOK /\ Concluded(r) /\ NewSolve(r) \in Solve
  BY <1>1, <1>2, WriterFinds DEF Deciding
<1>4. PICK v : v = Revalued(r) OBVIOUS
<1>5. v \in Nat /\ r.chal \in Dynamic /\ r.chal \in Challenges
  BY <1>1, <1>2, <1>4, RevaluedTyped
<1>6. /\ solves' = solves \cup {NewSolve(r)}
      /\ chal' = [chal EXCEPT ![r.chal].value = v]
      /\ counted' = [counted EXCEPT ![r.chal] = r.seen]
      /\ overlapped' = IF r.read.function = chal[r.chal].function
                          /\ r.read.initial = chal[r.chal].initial
                       THEN overlapped \ {r.chal} ELSE overlapped \cup {r.chal}
      /\ UNCHANGED <<teams, lockout, partial, fails, recent, unlocked, charges, awards, touched,
                     given>>
  BY <1>1, <1>4 DEF CommitSolve, fixed, tries, ledger
<1>7. PICK old, new : old = chal[r.chal] /\ new = [old EXCEPT !.value = v] OBVIOUS
<1>8. /\ chal \in [Challenges -> ChallengeRow] /\ \A c \in Challenges : RowOf(c, chal[c])
      /\ counted \in [Challenges -> Nat] /\ touched \in [Challenges -> Nat]
      /\ \A c \in Challenges : counted[c] <= touched[c]
  BY <1>3 DEF DataOK, DataTyped, CountedIsPast
<1>9. /\ new \in ChallengeRow /\ new.value = v /\ new.function = old.function
      /\ new.initial = old.initial
  <2>1. old \in ChallengeRow BY <1>5, <1>7, <1>8
  <2> QED BY <1>5, <1>7, <2>1 DEF ChallengeRow
<1>10. chal' = [chal EXCEPT ![r.chal] = new] BY <1>6, <1>7
<1>11. /\ chal'[r.chal] = new
       /\ \A c \in Challenges : c # r.chal => chal'[c] = chal[c]
       /\ chal' \in [Challenges -> ChallengeRow]
  BY <1>5, <1>8, <1>9, <1>10
<1>12. /\ r.seen \in Nat /\ r.seen <= touched[r.chal]
       /\ r.seen = touched[r.chal] => r.count = Cardinality(SolversOf(solves, r.chal) \cup Own(r))
  BY <1>2, <1>3 DEF Concluded
<1>13. /\ counted' \in [Challenges -> Nat] /\ counted'[r.chal] = r.seen
       /\ \A c \in Challenges : c # r.chal => counted'[c] = counted[c]
  BY <1>5, <1>6, <1>8, <1>12
<1>14. /\ NewSolve(r).chal = r.chal /\ NewSolve(r).account = Account(r.user)
       /\ NewSolve(r).user = r.user
  BY DEF NewSolve
<1>15. \A c \in Challenges : RowOf(c, chal'[c])
  <2>1. RowOf(r.chal, old) BY <1>5, <1>7, <1>8
  <2>2. RowOf(r.chal, new) BY <1>9, <2>1 DEF RowOf
  <2> QED BY <1>8, <1>11, <2>2
<1>16. DataTyped'
  <2>1. overlapped' \subseteq Challenges BY <1>3, <1>5, <1>6 DEF DataOK, DataTyped
  <2>2. solves' \subseteq Solve BY <1>3, <1>6 DEF DataOK, DataTyped
  <2> QED BY <1>3, <1>6, <1>8, <1>11, <1>13, <1>15, <2>1, <2>2 DEF DataOK, DataTyped
<1>17. CountedIsPast' BY <1>6, <1>8, <1>12, <1>13 DEF CountedIsPast
<1>18. SolvesOfAccounts' BY <1>3, <1>6, <1>14 DEF DataOK, SolvesOfAccounts, Account
<1>19. ValueFollowsSolves'
  <2>1. SUFFICES ASSUME NEW c \in Dynamic PROVE Follows(c)' BY FollowsAll
  <2>2. c \in Challenges BY ScoringAssumption
  <2>3. CASE c # r.chal
    <3>1. SolversOf(solves', c) = SolversOf(solves, c) BY <1>6, <1>14, <2>3 DEF SolversOf
    <3>2. /\ chal'[c] = chal[c] /\ touched'[c] = touched[c] /\ counted'[c] = counted[c]
          /\ c \in overlapped => c \in overlapped'
      BY <1>6, <1>11, <1>13, <2>2, <2>3
    <3> QED BY <3>1, <3>2, FollowsFrame
  <2>4. CASE c = r.chal
    <3>1. SUFFICES ASSUME c \notin overlapped', touched'[c] = counted'[c]
                   PROVE  v = Decayed(old.function, old.initial,
                                      Cardinality(SolversOf(solves', c)))
      BY <1>9, <1>11, <2>4 DEF Follows
    <3>2. r.read.function = old.function /\ r.read.initial = old.initial
      BY <1>6, <1>7, <2>4, <3>1
    <3>3. r.count = Cardinality(SolversOf(solves, c) \cup Own(r)) BY <1>6, <1>12, <1>13, <2>4, <3>1
    <3>4. SolversOf(solves', c) = SolversOf(solves, c) \cup Own(r)
      BY <1>2, <1>6, <1>14, <2>4 DEF SolversOf, Own
    <3> QED BY <1>4, <3>2, <3>3, <3>4 DEF Revalued
  <2> QED BY <2>3, <2>4
<1> QED BY <1>3, <1>6, <1>16, <1>17, <1>18, <1>19 DEF DataOK

\* The new row of an edited challenge, its value recalculated from it.
LEMMA CommitEditData == ASSUME IInv, NEW p \in Requests, CommitEdit(p) PROVE DataOK'
<1>1. PICK r : r = req[p] OBVIOUS
<1>2. r.op = "edit" /\ (r.pc = "counted" \/ (r.pc = "writing" /\ r.edit.function = "static"))
  BY <1>1 DEF CommitEdit, Ready
<1>3. /\ DataOK /\ WellFormed(r) /\ Concluded(r) /\ r.chal \in Challenges
      /\ RowOf(r.chal, r.edit) /\ r.read = r.edit
  BY <1>1, <1>2, WriterFinds DEF Deciding, WellFormed, ChalOps
<1>4. PICK new : new = IF r.pc = "counted" THEN [r.edit EXCEPT !.value = Revalued(r)] ELSE r.edit
  OBVIOUS
<1>5. /\ chal' = [chal EXCEPT ![r.chal] = new]
      /\ counted' = IF r.pc = "counted" THEN [counted EXCEPT ![r.chal] = r.seen] ELSE counted
      /\ overlapped' = overlapped \ {r.chal}
      /\ UNCHANGED <<teams, lockout, solves, partial, fails, recent, unlocked, charges, awards,
                     touched, given>>
  BY <1>1, <1>4 DEF CommitEdit, fixed, tries, ledger
<1>6. /\ new \in ChallengeRow /\ new.function = r.edit.function /\ new.initial = r.edit.initial
      /\ r.pc = "counted" => new.value = Revalued(r)
  <2>1. CASE r.pc = "counted"
    <3>1. PICK v \in Nat : v = Revalued(r) BY <1>1, <2>1, RevaluedTyped
    <3>2. PICK e \in ChallengeRow : e = r.edit BY <1>3 DEF RowOf
    <3>3. new = [e EXCEPT !.value = v] BY <1>4, <2>1, <3>1, <3>2
    <3>4. new \in ChallengeRow /\ new.value = v /\ new.function = e.function /\ new.initial = e.initial
      BY <3>3 DEF ChallengeRow
    <3> QED BY <3>1, <3>2, <3>4
  <2>2. CASE r.pc # "counted" BY <1>3, <1>4, <2>2 DEF RowOf
  <2> QED BY <2>1, <2>2
<1>7. /\ chal \in [Challenges -> ChallengeRow] /\ \A c \in Challenges : RowOf(c, chal[c])
      /\ counted \in [Challenges -> Nat] /\ touched \in [Challenges -> Nat]
      /\ \A c \in Challenges : counted[c] <= touched[c]
  BY <1>3 DEF DataOK, DataTyped, CountedIsPast
<1>8. /\ chal'[r.chal] = new /\ chal' \in [Challenges -> ChallengeRow]
      /\ \A c \in Challenges : c # r.chal => chal'[c] = chal[c]
  BY <1>3, <1>5, <1>6, <1>7
<1>9. r.pc = "counted" =>
        /\ r.seen \in Nat /\ r.seen <= touched[r.chal]
        /\ r.seen = touched[r.chal] => r.count = Cardinality(SolversOf(solves, r.chal) \cup Own(r))
  BY <1>3 DEF Concluded
<1>10. /\ counted' \in [Challenges -> Nat] /\ \A c \in Challenges : counted'[c] <= touched[c]
       /\ r.pc = "counted" => counted'[r.chal] = r.seen
       /\ \A c \in Challenges : c # r.chal => counted'[c] = counted[c]
  BY <1>3, <1>5, <1>7, <1>9
<1>11. \A c \in Challenges : RowOf(c, chal'[c]) BY <1>3, <1>6, <1>7, <1>8 DEF RowOf
<1>12. DataTyped'
  <2>1. overlapped' \subseteq Challenges BY <1>3, <1>5 DEF DataOK, DataTyped
  <2> QED BY <1>3, <1>5, <1>8, <1>10, <1>11, <2>1 DEF DataOK, DataTyped
<1>13. CountedIsPast' BY <1>5, <1>10 DEF CountedIsPast
<1>14. ValueFollowsSolves'
  <2>1. SUFFICES ASSUME NEW c \in Dynamic PROVE Follows(c)' BY FollowsAll
  <2>2. c \in Challenges BY ScoringAssumption
  <2>3. CASE c # r.chal
    <3>1. /\ chal'[c] = chal[c] /\ touched'[c] = touched[c] /\ counted'[c] = counted[c]
          /\ solves' = solves /\ (c \in overlapped => c \in overlapped')
      BY <1>5, <1>8, <1>10, <2>2, <2>3
    <3>2. SolversOf(solves', c) = SolversOf(solves, c) BY <3>1
    <3> QED BY <3>1, <3>2, FollowsFrame
  <2>4. CASE c = r.chal
    <3>1. r.pc = "counted" BY <1>2, <1>3, <2>4 DEF RowOf
    <3>2. SUFFICES ASSUME touched'[c] = counted'[c]
                   PROVE  Revalued(r) = Decayed(r.edit.function, r.edit.initial,
                                                Cardinality(SolversOf(solves', c)))
      BY <1>6, <1>8, <2>4, <3>1 DEF Follows
    <3>3. r.count = Cardinality(SolversOf(solves, c) \cup Own(r))
      BY <1>5, <1>9, <1>10, <2>4, <3>1, <3>2
    <3>4. SolversOf(solves, c) \cup Own(r) = SolversOf(solves', c) BY <1>2, <1>5 DEF Own
    <3> QED BY <1>3, <3>3, <3>4 DEF Revalued
  <2> QED BY <2>3, <2>4
<1> QED BY <1>3, <1>5, <1>12, <1>13, <1>14 DEF DataOK, SolvesOfAccounts, Account

\* A submission an administrator records, changes or deletes.
LEMMA ChangeData == ASSUME IInv, NEW p \in Requests, ChangeSubmission(p) PROVE DataOK'
<1>1. PICK r : r = req[p] OBVIOUS
<1>2. PICK k : k = <<Account(r.user), r.chal>> OBVIOUS
<1>3. r.pc = "writing" /\ r.op = "submission" BY <1>1 DEF ChangeSubmission, Ready
<1>4. DataOK /\ WellFormed(r) /\ NewSolve(r) \in Solve /\ Account(r.user) \in Accounts
  BY <1>1, <1>3, WriterFinds DEF Deciding, UserOps, Ops
<1>5. /\ UNCHANGED <<teams, lockout, chal, unlocked, charges, awards, counted, overlapped>>
      /\ k \in Accounts \X Challenges /\ r.user \in Users /\ r.chal \in Challenges
      /\ \/ solves' = solves /\ touched' = touched
         \/ touched' = [touched EXCEPT ![r.chal] = touched[r.chal] + 1]
      /\ \A x \in solves' : x \in solves \/ x = NewSolve(r)
      /\ \A c : c # r.chal => SolversOf(solves', c) = SolversOf(solves, c)
      /\ \E n \in Nat, m \in Nat : /\ fails' = [fails EXCEPT ![k] = n]
                                   /\ given' = [given EXCEPT ![k] = given[k] + m]
                                   /\ n <= fails[k] + m
      /\ recent' \in [Accounts -> Nat]
      /\ \A x \in partial' : x \in partial \/ x = PartialOf(r)
  BY <1>1, <1>2, ChangeEffects
<1>6. /\ fails \in [Accounts \X Challenges -> Nat] /\ given \in [Accounts \X Challenges -> Nat]
      /\ touched \in [Challenges -> Nat] /\ counted \in [Challenges -> Nat]
      /\ \A c \in Challenges : counted[c] <= touched[c]
  BY <1>4 DEF DataOK, DataTyped, CountedIsPast
<1>7. fails' \in [Accounts \X Challenges -> Nat] /\ given' \in [Accounts \X Challenges -> Nat]
  <2>1. PICK n \in Nat, m \in Nat : /\ fails' = [fails EXCEPT ![k] = n]
                                    /\ given' = [given EXCEPT ![k] = given[k] + m]
    BY <1>5
  <2>2. given[k] + m \in Nat BY <1>5, <1>6
  <2> QED BY <1>5, <1>6, <2>1, <2>2
<1>8. /\ touched' \in [Challenges -> Nat]
      /\ \A c \in Challenges : (touched'[c] = touched[c] \/ touched'[c] = touched[c] + 1)
      /\ solves' # solves => touched'[r.chal] = touched[r.chal] + 1
  BY <1>5, <1>6
<1>9. \A c \in Challenges : (/\ counted[c] <= touched'[c]
                             /\ touched'[c] # touched[c] => counted[c] # touched'[c])
  <2> SUFFICES ASSUME NEW c \in Challenges
               PROVE  /\ counted[c] <= touched'[c]
                      /\ touched'[c] # touched[c] => counted[c] # touched'[c]
    OBVIOUS
  <2>1. counted[c] \in Nat /\ touched[c] \in Nat /\ counted[c] <= touched[c] BY <1>6
  <2> QED BY <1>8, <2>1
<1>10. solves' \subseteq Solve BY <1>4, <1>5 DEF DataOK, DataTyped
<1>11. partial' \subseteq [user : Users, account : Accounts, chal : Challenges,
                          flag : Flags \cup {None}]
  <2>1. r.flag \in Flags \cup {None} BY <1>3, <1>4 DEF WellFormed
  <2>2. PartialOf(r) \in [user : Users, account : Accounts, chal : Challenges,
                          flag : Flags \cup {None}]
    BY <1>4, <1>5, <2>1 DEF PartialOf
  <2> QED BY <1>4, <1>5, <2>2 DEF DataOK, DataTyped
<1>12. DataTyped' BY <1>4, <1>5, <1>7, <1>8, <1>10, <1>11 DEF DataOK, DataTyped
<1>13. SolvesOfAccounts'
  <2>1. NewSolve(r).account = Account(NewSolve(r).user) BY DEF NewSolve
  <2> QED BY <1>4, <1>5, <2>1 DEF DataOK, SolvesOfAccounts, Account
<1>14. CountedIsPast' BY <1>5, <1>9 DEF CountedIsPast
<1>15. ValueFollowsSolves'
  <2>1. SUFFICES ASSUME NEW c \in Dynamic PROVE Follows(c)' BY FollowsAll
  <2>2. c \in Challenges BY ScoringAssumption
  <2>3. CASE touched'[c] # touched[c]
    <3>1. counted'[c] = counted[c] /\ counted[c] # touched'[c] BY <1>5, <1>9, <2>2, <2>3
    <3> QED BY <3>1 DEF Follows
  <2>4. CASE touched'[c] = touched[c]
    <3>1. SolversOf(solves', c) = SolversOf(solves, c)
      <4>1. CASE solves' = solves BY <4>1
      <4>2. CASE solves' # solves
        <5>1. touched[c] \in Nat BY <1>6, <2>2
        <5>2. c # r.chal BY <1>8, <2>4, <4>2, <5>1
        <5> QED BY <1>5, <5>2
      <4> QED BY <4>1, <4>2
    <3>2. /\ chal'[c] = chal[c] /\ counted'[c] = counted[c]
          /\ c \in overlapped => c \in overlapped'
      BY <1>5
    <3> QED BY <2>4, <3>1, <3>2, FollowsFrame
  <2> QED BY <2>3, <2>4
<1> QED BY <1>12, <1>13, <1>14, <1>15 DEF DataOK

\* Awards, and hints that are bought.
LEMMA LedgerData == ASSUME IInv, NEW p \in Requests, Award(p) \/ Unlock(p) PROVE DataOK'
<1>1. PICK r : r = req[p] OBVIOUS
<1>2. PICK a : a = Account(r.user) OBVIOUS
<1>3. r.pc = "writing" /\ r.op \in {"award", "unaward", "unlock"}
  BY <1>1 DEF Award, Unlock, Ready
<1>4. DataOK /\ WellFormed(r) /\ a \in Accounts /\ (r.op = "unlock" => r.hint \in Hints)
  BY <1>1, <1>2, <1>3, WriterFinds DEF Deciding, UserOps, Ops, WellFormed
<1>5. UNCHANGED <<teams, lockout, chal, solves, partial, fails, recent, touched, counted,
                  overlapped, given>>
  BY DEF Award, Unlock, fixed, tries, ghosts
<1>6. /\ charges \in [Accounts -> Nat] /\ unlocked \subseteq Accounts \X Hints
      /\ awards \subseteq Accounts
  BY <1>4 DEF DataOK, DataTyped
<1>7. /\ charges' \in [Accounts -> Nat] /\ unlocked' \subseteq Accounts \X Hints
      /\ awards' \subseteq Accounts
  <2>1. CASE Award(p)
    <3>1. /\ UNCHANGED <<unlocked, charges>>
          /\ awards' = awards \cup {a} \/ awards' = awards \ {a}
      BY <1>1, <1>2, <2>1 DEF Award
    <3> QED BY <1>4, <1>6, <3>1
  <2>2. CASE Unlock(p)
    <3>1. /\ awards' = awards
          /\ \/ UNCHANGED <<charges, unlocked>>
             \/ /\ charges' = [charges EXCEPT ![a] = charges[a] + Cost]
                /\ unlocked' = unlocked \cup {<<a, r.hint>>}
      BY <1>1, <1>2, <2>2 DEF Unlock
    <3>2. r.op = "unlock" BY <1>1, <2>2 DEF Unlock, Ready
    <3>3. charges[a] + Cost \in Nat BY <1>4, <1>6, ScoringAssumption
    <3> QED BY <1>4, <1>6, <3>1, <3>2, <3>3
  <2> QED BY <2>1, <2>2
<1> QED BY <1>4, <1>5, <1>7
     DEF DataOK, DataTyped, SolvesOfAccounts, CountedIsPast, ValueFollowsSolves,
         SolversOf, Account

\* Limits that expire.
LEMMA TimeData ==
  ASSUME IInv, \/ \E a \in Accounts : MinutePasses(a)
               \/ \E a \in Accounts, c \in Challenges : WindowPasses(a, c)
  PROVE  DataOK'
<1>1. DataOK BY DEF IInv, DataOK
<1>2. UNCHANGED <<teams, lockout, chal, solves, partial, unlocked, charges, awards, touched,
                  counted, overlapped, given>>
  BY DEF MinutePasses, WindowPasses, fixed, ledger, ghosts
<1>3. fails \in [Accounts \X Challenges -> Nat] /\ recent \in [Accounts -> Nat]
  BY <1>1 DEF DataOK, DataTyped
<1>4. /\ fails' \in [Accounts \X Challenges -> Nat] /\ recent' \in [Accounts -> Nat]
      /\ \A x \in Accounts \X Challenges : fails'[x] = fails[x] \/ fails'[x] = 0
  <2>1. CASE \E a \in Accounts : MinutePasses(a) BY <1>3, <2>1 DEF MinutePasses
  <2>2. CASE \E a \in Accounts, c \in Challenges : WindowPasses(a, c)
    <3>1. PICK a \in Accounts, c \in Challenges : WindowPasses(a, c) BY <2>2
    <3>2. PICK k \in Accounts \X Challenges : k = <<a, c>> OBVIOUS
    <3>3. fails' = [fails EXCEPT ![k] = 0] /\ recent' = recent BY <3>1, <3>2 DEF WindowPasses
    <3> QED BY <1>3, <3>3
  <2> QED BY <2>1, <2>2
<1> QED BY <1>1, <1>2, <1>4
     DEF DataOK, DataTyped, SolvesOfAccounts, CountedIsPast, ValueFollowsSolves, SolversOf, Account

\* No handler writes anything that breaks the data.
LEMMA DataKept == ASSUME IInv, [Next]_vars PROVE DataOK'
<1>1. ASSUME NEW p \in Requests, Step(p) PROVE DataOK'
  <2>1. CASE Begin(p) \/ TakeLock(p) \/ Fail(p) \/ Decide(p) \/ CountSolves(p)
    <3>1. UNCHANGED <<teams, lockout, chal, solves, partial, fails, recent, unlocked, charges,
                      awards, touched, counted, overlapped, given>>
      BY <2>1 DEF Begin, Start, TakeLock, Fail, Decide, CountSolves, fixed, tries, ledger, ghosts
    <3> QED BY <3>1, DataUnchanged
  <2> QED BY <1>1, <2>1, RecordAttemptData, RecordSolveData, CommitSolveData, CommitEditData,
             ChangeData, LedgerData
       DEF Step
<1>2. CASE UNCHANGED vars
  <2>1. UNCHANGED <<teams, lockout, chal, solves, partial, fails, recent, unlocked, charges,
                    awards, touched, counted, overlapped, given>>
    BY <1>2 DEF vars, fixed, tries, ledger, ghosts
  <2> QED BY <2>1, DataUnchanged
<1> QED BY <1>1, <1>2, TimeData DEF Next

----------------------------------------------------------------------------
(* The theorems *)

\* The contest starts with values that follow its solves.
LEMMA InitData == ASSUME Init PROVE DataOK
<1>1. PICK logic \in Logics, limit \in Limits :
        chal = [c \in Challenges |->
                 LET i == CHOOSE x \in Initials : \A y \in Initials : x >= y
                     f == IF c \in Dynamic THEN "linear" ELSE "static"
                 IN  [state |-> "visible", logic |-> logic, tries |-> limit, function |-> f,
                      initial |-> i,
                      value |-> IF f = "static" THEN i
                                ELSE Decayed(f, i, Cardinality(SolversOf(solves, c)))]]
  BY DEF Init
<1>2. PICK i \in Nat : i = CHOOSE x \in Initials : \A y \in Initials : x >= y
  BY ScoringAssumption
<1>3. /\ chal = [c \in Challenges |-> chal[c]]
      /\ \A c \in Challenges : chal[c] =
           IF c \in Dynamic
           THEN [state |-> "visible", logic |-> logic, tries |-> limit, function |-> "linear",
                 initial |-> i,
                 value |-> Decayed("linear", i, Cardinality(SolversOf(solves, c)))]
           ELSE [state |-> "visible", logic |-> logic, tries |-> limit, function |-> "static",
                 initial |-> i, value |-> i]
  BY <1>1, <1>2
<1>4. \A u \in Users : Account(u) \in Accounts BY DEF Account, Accounts
<1>5. solves \subseteq Solve /\ \A s \in solves : s.account = Account(s.user)
  <2>1. /\ solves \subseteq [user : Users, account : {Account(u) : u \in Users}, chal : Dynamic]
        /\ \A s \in solves : s.account = Account(s.user)
    BY DEF Init
  <2> QED BY <1>4, <2>1, ScoringAssumption DEF Solve
<1>6. \A c \in Challenges : Cardinality(SolversOf(solves, c)) \in Nat
  <2> SUFFICES ASSUME NEW c \in Challenges PROVE Cardinality(SolversOf(solves, c)) \in Nat
    OBVIOUS
  <2>1. IsFiniteSet(Users \cup {Team}) BY ScoringAssumption, FS_AddElement
  <2>2. SolversOf(solves, c) \in SUBSET (Users \cup {Team})
    BY <1>5 DEF SolversOf, Solve, Accounts
  <2>3. IsFiniteSet(SolversOf(solves, c)) BY <2>1, <2>2, FS_Subset
  <2> QED BY <2>3, FS_CardinalityType
<1>7. \A c \in Challenges : /\ RowOf(c, chal[c])
                            /\ c \in Dynamic => chal[c].value = Decayed(chal[c].function,
                                  chal[c].initial, Cardinality(SolversOf(solves, c)))
  <2> SUFFICES ASSUME NEW c \in Challenges
               PROVE  /\ RowOf(c, chal[c])
                      /\ c \in Dynamic => chal[c].value = Decayed(chal[c].function,
                            chal[c].initial, Cardinality(SolversOf(solves, c)))
    OBVIOUS
  <2>1. PICK v : v = Decayed("linear", i, Cardinality(SolversOf(solves, c))) OBVIOUS
  <2>2. v \in Nat /\ limit \in Nat BY <1>6, <2>1, DecayedTyped, ScoringAssumption
  <2>3. CASE c \in Dynamic
    <3>1. chal[c] = [state |-> "visible", logic |-> logic, tries |-> limit,
                     function |-> "linear", initial |-> i, value |-> v]
      BY <1>3, <2>1, <2>3
    <3> QED BY <2>1, <2>2, <2>3, <3>1 DEF RowOf, ChallengeRow
  <2>4. CASE c \notin Dynamic
    <3>1. chal[c] = [state |-> "visible", logic |-> logic, tries |-> limit,
                     function |-> "static", initial |-> i, value |-> i]
      BY <1>3, <2>4
    <3> QED BY <2>2, <2>4, <3>1 DEF RowOf, ChallengeRow
  <2> QED BY <2>3, <2>4
<1>8. chal \in [Challenges -> ChallengeRow] BY <1>3, <1>7 DEF RowOf
<1>9. DataTyped BY <1>5, <1>7, <1>8 DEF DataTyped, Init
<1>10. ValueFollowsSolves BY <1>7, ScoringAssumption DEF ValueFollowsSolves
<1>11. CountedIsPast BY DEF CountedIsPast, Init
<1> QED BY <1>5, <1>9, <1>10, <1>11 DEF DataOK, SolvesOfAccounts

\* It starts with no transaction.
LEMMA InitInvariant == ASSUME Init PROVE IInv
<1>1. DataOK BY InitData
<1>2. req = [p \in Requests |-> Idle] /\ started = 0 BY DEF Init
<1>3. PICK s : s = Idle OBVIOUS
<1>4. IsRequest(s) /\ s.pc = "idle" /\ s.taken = 0 BY <1>3 DEF Idle, IsRequest
<1>5. \A p \in Requests : req[p] = s BY <1>2, <1>3
<1>6. Len(Locks(s)) \in Nat BY <1>3, IdleLocks
<1>7. RequestsTyped BY <1>2, <1>4, <1>5 DEF RequestsTyped
<1>8. LocksTaken BY <1>4, <1>5, <1>6 DEF LocksTaken, Deciding
<1>9. ConclusionsHold BY <1>4, <1>5 DEF ConclusionsHold, Concluded, Deciding
<1>10. ExclusiveLocks
  <2>1. \A p \in Requests : Held[p] = {} BY <1>4, <1>5, TakenNone DEF Held
  <2>2. DOMAIN Held = Requests BY DEF Held
  <2> HIDE DEF Held
  <2> QED BY <2>1, <2>2 DEF ExclusiveLocks, Exclusion
<1> QED BY <1>1, <1>2, <1>7, <1>8, <1>9, <1>10 DEF IInv, DataOK

\* What the proofs are about is an invariant of the scoring service.
THEOREM Invariant == Spec => []IInv
<1>1. Init => IInv BY InitInvariant
<1>2. IInv /\ [Next]_vars => IInv' BY RequestsKept, DataKept DEF IInv, DataOK
<1> QED BY <1>1, <1>2, PTL DEF Spec

\* The tables keep their types and no handler takes more locks than it has.
THEOREM ScoringTypeCorrect == Spec => []TypeOK
<1>1. IInv => TypeOK BY DEF IInv, DataTyped, LocksTaken, TypeOK
<1> QED BY <1>1, Invariant, PTL

\* A team cannot get more wrong answers than the max_attempts its attempts read by
\* answering from many connections at once: attempt counts them under the account's
\* lock, so only what administrators recorded since can add to them.
THEOREM LimitOfTriesHolds == Spec => TriesBounded
<1>1. ASSUME IInv, [Next]_vars, NEW p \in Requests, Ready(p, "attempt"), req'[p] = Idle,
             fails' # fails, req[p].read.tries > 0
      PROVE  LET r == req[p]
                 x == <<Account(r.user), r.chal>>
             IN  fails'[x] <= r.read.tries + (given[x] - r.seen)
  <2>1. PICK r : r = req[p] OBVIOUS
  <2>2. r.pc = "writing" /\ r.op = "attempt" /\ r.pc \in Deciding
    BY <1>1, <2>1 DEF Ready, Deciding
  <2>3. PICK s : s = Idle OBVIOUS
  <2>4. s.pc = "idle" BY <2>3 DEF Idle
  <2>5. ~\E a \in Accounts, c \in Challenges : WindowPasses(a, c)
    BY <1>1, <2>1, <2>2, <2>3, <2>4 DEF WindowPasses
  <2>6. PICK q \in Requests : RecordAttempt(q) \/ ChangeSubmission(q)
    <3>1. CASE \E q \in Requests : Begin(q) \/ TakeLock(q) \/ Fail(q) \/ Decide(q)
      BY <1>1, <3>1 DEF Begin, Start, TakeLock, Fail, Decide, tries
    <3>2. CASE \E q \in Requests : \/ RecordSolve(q) \/ CountSolves(q) \/ CommitSolve(q)
                                   \/ CommitEdit(q) \/ Award(q) \/ Unlock(q)
      BY <1>1, <3>2 DEF RecordSolve, CountSolves, CommitSolve, CommitEdit, Award, Unlock, tries
    <3>3. CASE UNCHANGED vars BY <1>1, <3>3 DEF vars, tries
    <3>4. CASE \E a \in Accounts : MinutePasses(a) BY <1>1, <3>4 DEF MinutePasses
    <3> QED BY <1>1, <2>5, <3>1, <3>2, <3>3, <3>4 DEF Next, Step
  <2>7. q = p
    <3>1. SUFFICES ASSUME q # p PROVE FALSE OBVIOUS
    <3>2. req' = [req EXCEPT ![q] = Idle] BY <2>6 DEF RecordAttempt, ChangeSubmission, Done
    <3>3. req'[p] = req[p] BY <1>1, <3>1, <3>2, OthersKept
    <3> QED BY <1>1, <2>1, <2>2, <2>3, <2>4, <3>3
  <2>8. RecordAttempt(p) BY <2>1, <2>2, <2>6, <2>7 DEF ChangeSubmission, Ready
  <2>9. PICK x : x = <<Account(r.user), r.chal>> OBVIOUS
  <2>10. PICK miss : miss = IF r.outcome = "incorrect" THEN 1 ELSE 0 OBVIOUS
  <2>11. fails' = [fails EXCEPT ![x] = fails[x] + miss]
    BY <2>1, <2>8, <2>9, <2>10 DEF RecordAttempt
  <2>12. /\ x \in Accounts \X Challenges /\ fails[x] \in Nat /\ given[x] \in Nat
         /\ fails \in [Accounts \X Challenges -> Nat]
    BY <1>1, <2>1, <2>2, <2>9, TriesTyped DEF IInv, DataTyped
  <2>13. r.outcome = "incorrect" /\ fails'[x] = fails[x] + 1
    <3>1. CASE miss = 0
      <4>1. fails[x] + miss = fails[x] BY <2>12, <3>1
      <4>2. [fails EXCEPT ![x] = fails[x]] = fails BY <2>12
      <4> QED BY <1>1, <2>11, <4>1, <4>2
    <3>2. CASE miss # 0 BY <2>10, <2>11, <2>12, <3>2
    <3> QED BY <3>1, <3>2
  <2>14. HasTry(r) /\ WellFormed(r)
    BY <1>1, <2>1, <2>2, <2>13, RequestFields DEF Concluded
  <2>15. r.read.tries \in Nat BY <2>2, <2>14 DEF WellFormed, RowOf, ChallengeRow
  <2>16. r.seen \in Nat /\ fails[x] < r.read.tries + (given[x] - r.seen)
    BY <2>9, <2>14 DEF HasTry
  <2>17. fails[x] + 1 <= r.read.tries + (given[x] - r.seen) BY <2>12, <2>15, <2>16
  <2> QED BY <2>1, <2>9, <2>13, <2>17
<1>2. IInv /\ [Next]_vars =>
        [\A p \in Requests :
          LET r == req[p]
              x == <<Account(r.user), r.chal>>
          IN  Ready(p, "attempt") /\ req'[p] = Idle /\ fails' # fails /\ r.read.tries > 0
                  => fails'[x] <= r.read.tries + (given[x] - r.seen)]_vars
  BY <1>1
<1> QED BY <1>2, Invariant, PTL DEF Spec, TriesBounded

\* recalculate_dynamic_value leaves a challenge at the value its solves give,
\* whichever solves and edits run together.
THEOREM ValuesFollowSolves == Spec => []ValueFollowsSolves
<1>1. IInv => ValueFollowsSolves BY DEF IInv
<1> QED BY <1>1, Invariant, PTL

\* A correct answer is not lost to another of the same account: only a solve an
\* administrator grants can be in its way (uq_solves).
THEOREM CorrectAnswersCount == Spec => []SolveIsFirst
<1>1. IInv => SolveIsFirst
  <2> SUFFICES ASSUME IInv, NEW p \in Requests, req[p].pc \in {"writing", "counted"},
                      req[p].outcome = "correct", Duplicate(req[p])
               PROVE  touched[req[p].chal] > 0
    BY DEF SolveIsFirst
  <2>1. req[p].pc \in Deciding /\ req[p].pc # "idle" BY DEF Deciding
  <2>2. req[p].op = "attempt" BY <2>1, RequestFields DEF WellFormed
  <2> QED BY <2>1, <2>2, RequestFields DEF Concluded
<1> QED BY <1>1, Invariant, PTL

\* Nobody pays with points another purchase of the account counts on: the charge is
\* covered by what the account earned when it was checked (unlock holds the
\* account's content_unlock lock).
THEOREM PurchasesAreCovered == Spec => NoOverspend
<1>1. ASSUME IInv, [Next]_vars, NEW p \in Requests, Ready(p, "unlock"), req'[p] = Idle,
             charges' # charges
      PROVE  charges'[Account(req[p].user)] <= req[p].seen
  <2>1. PICK q \in Requests : Unlock(q)
    <3>1. CASE \E q \in Requests : Begin(q) \/ TakeLock(q) \/ Fail(q) \/ Decide(q)
      BY <1>1, <3>1 DEF Begin, Start, TakeLock, Fail, Decide, ledger
    <3>2. CASE \E q \in Requests : \/ RecordAttempt(q) \/ RecordSolve(q) \/ CountSolves(q)
                                   \/ CommitSolve(q) \/ CommitEdit(q)
      BY <1>1, <3>2 DEF RecordAttempt, RecordSolve, CountSolves, CommitSolve, CommitEdit, ledger
    <3>3. CASE \E q \in Requests : ChangeSubmission(q) \/ Award(q)
      BY <1>1, <3>3 DEF ChangeSubmission, Award, ledger
    <3>4. CASE UNCHANGED vars BY <1>1, <3>4 DEF vars, ledger
    <3>5. CASE \E a \in Accounts : MinutePasses(a) BY <1>1, <3>5 DEF MinutePasses, ledger
    <3>6. CASE \E a \in Accounts, c \in Challenges : WindowPasses(a, c)
      BY <1>1, <3>6 DEF WindowPasses, ledger
    <3> QED BY <1>1, <3>1, <3>2, <3>3, <3>4, <3>5, <3>6 DEF Next, Step
  <2>2. q = p
    <3>1. SUFFICES ASSUME q # p PROVE FALSE OBVIOUS
    <3>2. req' = [req EXCEPT ![q] = Idle] BY <2>1 DEF Unlock, Done
    <3>3. req'[p] = req[p] BY <1>1, <3>1, <3>2, OthersKept
    <3>4. PICK s : s = Idle OBVIOUS
    <3>5. s.pc = "idle" BY <3>4 DEF Idle
    <3> QED BY <1>1, <3>3, <3>4, <3>5 DEF Ready
  <2>3. PICK r : r = req[p] OBVIOUS
  <2>4. PICK a : a = Account(r.user) OBVIOUS
  <2>5. charges' = [charges EXCEPT ![a] = charges[a] + Cost]
    BY <1>1, <2>1, <2>2, <2>3, <2>4 DEF Unlock
  <2>6. r.pc \in Deciding /\ r.op = "unlock" BY <1>1, <2>3 DEF Ready, Deciding
  <2>7. a \in Accounts /\ charges \in [Accounts -> Nat] /\ Concluded(r)
    BY <1>1, <2>3, <2>4, <2>6, WriterFinds DEF UserOps, Ops, DataOK, DataTyped
  <2>8. charges'[a] = charges[a] + Cost BY <2>5, <2>7
  <2>9. charges[a] + Cost <= r.seen BY <2>4, <2>6, <2>7 DEF Concluded
  <2> QED BY <2>3, <2>4, <2>8, <2>9
<1>2. IInv /\ [Next]_vars =>
        [\A p \in Requests :
          LET a == Account(req[p].user) IN
          Ready(p, "unlock") /\ req'[p] = Idle /\ charges' # charges => charges'[a] <= req[p].seen]_vars
  BY <1>1
<1> QED BY <1>2, Invariant, PTL DEF Spec, NoOverspend

\* Only the row of a challenge is ever locked in more than one way.
LEMMA HeldOfChallenge ==
  ASSUME IInv, NEW q \in Requests, NEW h \in Held[q], NEW c, h.lock = <<"challenge", c>>
  PROVE  h.mode \in {"exclusive", "key_share"}
<1>1. PICK r : r = req[q] OBVIOUS
<1>2. PICK m : m = Locks(r) OBVIOUS
<1>3. r.taken \in Nat /\ r.taken <= Len(m) /\ Held[q] = Taken(m, r.taken)
  BY <1>1, <1>2, RequestFields
<1>4. r.op \in Ops BY <1>1, <1>3, TakenNone, RequestFields
<1>5. m \in Seq(LocksOf(r)) /\ Len(m) \in Nat BY <1>2, <1>4, LocksShape
<1>6. PICK i \in 1..r.taken : h = m[i] BY <1>3 DEF Taken
<1>7. h \in LocksOf(r) BY <1>3, <1>5, <1>6
<1>8. h = Configuration \/ h.mode \in {"exclusive", "key_share"}
  BY <1>7 DEF LocksOf, Membership, Definition, ForUpdate, KeyShare, AccountLock, UnlockLock,
       DynamicScore, SubmissionRow, Exclusive, ExclusiveOn
<1>9. h # Configuration
  <2>1. Rank(Configuration) = 1 BY Ranks
  <2>2. Rank(h) = 4 BY DEF Rank
  <2> QED BY <2>1, <2>2
<1> QED BY <1>8, <1>9

\* What a transaction is made to wait for comes after what it has.  The last
\* UPDATE of an attempt does not: but the attempt holds KEY SHARE on that row, so
\* nobody makes it wait.
LEMMA BlockedIsHigher ==
  ASSUME IInv, NEW p \in Requests, NEW q \in Requests, p # q, NEW w \in Wanted(p),
         NEW x \in Held[q], ~Compatible(x, w)
  PROVE  \A h \in Held[p] : Rank(h) < Rank(w)
<1>1. PICK r : r = req[p] OBVIOUS
<1>2. PICK m : m = Locks(r) OBVIOUS
<1>3. r.taken \in Nat /\ r.taken <= Len(m) /\ Held[p] = Taken(m, r.taken)
  BY <1>1, <1>2, RequestFields
<1>4. CASE r.pc # "idle" /\ r.taken # Len(m)
  <2>1. w = m[r.taken + 1]
    <3>1. ~AllTaken(p) BY <1>1, <1>2, <1>4 DEF AllTaken
    <3>2. Wanted(p) = {Locks(r)[r.taken + 1]} BY <1>1, <1>4, <3>1 DEF Wanted
    <3> QED BY <1>2, <3>2
  <2>2. r.op \in Ops BY <1>1, <1>4, RequestFields
  <2>3. Rising(m) /\ Len(m) \in Nat BY <1>2, <2>2, LocksShape
  <2>4. r.taken + 1 \in 1..Len(m) BY <1>3, <1>4, <2>3
  <2> SUFFICES ASSUME NEW h \in Held[p] PROVE Rank(h) < Rank(w) OBVIOUS
  <2>5. PICK i \in 1..r.taken : h = m[i] BY <1>3 DEF Taken
  <2>6. i \in 1..((r.taken + 1) - 1) BY <1>3, <2>5
  <2> QED BY <2>1, <2>3, <2>4, <2>5, <2>6 DEF Rising
<1>5. CASE ~(r.pc # "idle" /\ r.taken # Len(m))
  <2>1. r.pc = "counted" /\ r.op = "attempt" /\ w = NoKeyUpdate("challenge", r.chal)
    BY <1>1, <1>2, <1>5 DEF Wanted, AllTaken
  <2>2. PICK k : k = KeyShare("challenge", r.chal) OBVIOUS
  <2>3. k \in Held[p] BY <1>1, <2>1, <2>2, WriterHolds DEF Deciding
  <2>4. x.lock = <<"challenge", r.chal>> /\ w.lock = x.lock
    BY <2>1 DEF Compatible, NoKeyUpdate
  <2>5. k.lock = x.lock BY <2>2, <2>4 DEF KeyShare
  <2>6. x.mode \in {"exclusive", "key_share"} BY <2>4, HeldOfChallenge
  <2>7. x.mode # "exclusive" BY <2>3, <2>5, HeldAlone
  <2>8. w.mode = "no_key_update" BY <2>1 DEF NoKeyUpdate
  <2> QED BY <2>6, <2>7, <2>8 DEF Compatible
<1> QED BY <1>4, <1>5

\* No transactions wait for each other in a circle: the one that is waited for at
\* the highest rank would wait itself at a higher one.
THEOREM NobodyWaitsInACircle == Spec => []NoCircularWait
<1>1. ASSUME IInv PROVE NoCircularWait
  <2> DEFINE wanted == [p \in Requests |-> Wanted(p)]
  <2> SUFFICES ASSUME NEW S \in SUBSET Requests, S # {},
                      \A p \in S : \E q \in S : Blocks(Held, wanted, q, p)
               PROVE  FALSE
    <3>1. DOMAIN Held = Requests BY DEF Held
    <3> QED BY <3>1 DEF NoCircularWait, CircularWait
  <2> DEFINE Waits(p, q, w, h) ==
               p # q /\ w \in Wanted(p) /\ h \in Held[q] /\ ~Compatible(h, w)
             At(k) == \E p, q \in S : \E w, h : Waits(p, q, w, h) /\ Rank(w) = k
  <2>1. ASSUME NEW p \in S PROVE \E q \in S : \E w, h : Waits(p, q, w, h)
    <3>1. wanted[p] = Wanted(p) OBVIOUS
    <3>2. PICK q \in S : Blocks(Held, wanted, q, p) OBVIOUS
    <3> HIDE DEF wanted
    <3> QED BY <3>1, <3>2 DEF Blocks
  <2>2. ASSUME NEW p, NEW q, NEW w, NEW h, Waits(p, q, w, h)
        PROVE  Rank(h) = Rank(w) /\ Rank(w) \in 1..5
    <3>1. h.lock = w.lock BY <2>2 DEF Compatible
    <3>2. Rank(h) = Rank(w) BY <3>1 DEF Rank
    <3> QED BY <3>2, Ranks
  <2>3. ASSUME NEW k \in 1..5, At(k) PROVE \E j \in 1..5 : j > k /\ At(j)
    <3>1. PICK p \in S, q \in S : \E w, h : Waits(p, q, w, h) /\ Rank(w) = k BY <2>3
    <3>a. PICK w, h : Waits(p, q, w, h) /\ Rank(w) = k BY <3>1
    <3>2. PICK x \in S : \E v, g : Waits(q, x, v, g) BY <2>1
    <3>b. PICK v, g : Waits(q, x, v, g) BY <3>2
    <3>3. Rank(h) = k BY <2>2, <3>a
    <3>4. Rank(h) < Rank(v) BY <1>1, <3>a, <3>b, BlockedIsHigher
    <3>5. Rank(v) \in 1..5 BY <2>2, <3>b
    <3>6. At(Rank(v)) BY <3>b
    <3> HIDE DEF At
    <3> QED BY <3>3, <3>4, <3>5, <3>6
  <2>4. \E k \in 1..5 : At(k)
    <3>1. PICK p : p \in S OBVIOUS
    <3>2. PICK q \in S : \E w, h : Waits(p, q, w, h) BY <2>1, <3>1
    <3>a. PICK w, h : Waits(p, q, w, h) BY <3>2
    <3>3. Rank(w) \in 1..5 BY <2>2, <3>a
    <3>4. At(Rank(w)) BY <3>1, <3>a
    <3> HIDE DEF At
    <3> QED BY <3>3, <3>4
  <2> HIDE DEF At
  <2>5. ~At(5) BY <2>3
  <2>6. ~At(4) BY <2>3, <2>5
  <2>7. ~At(3) BY <2>3, <2>5, <2>6
  <2>8. ~At(2) BY <2>3, <2>5, <2>6, <2>7
  <2>9. ~At(1) BY <2>3, <2>5, <2>6, <2>7, <2>8
  <2>10. \A k \in 1..5 : k = 1 \/ k = 2 \/ k = 3 \/ k = 4 \/ k = 5 OBVIOUS
  <2> QED BY <2>4, <2>5, <2>6, <2>7, <2>8, <2>9, <2>10
<1> QED BY <1>1, Invariant, PTL
=============================================================================
