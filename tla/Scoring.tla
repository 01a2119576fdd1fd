------------------------------ MODULE Scoring ------------------------------
(***************************************************************************)
(* Attempts at challenges, the solves they record, the value of dynamic    *)
(* challenges, hints bought with points, and what administrators do to     *)
(* these rows meanwhile.                                                   *)
(*                                                                         *)
(* A request is one transaction, as in Teams: locks in order, a step that  *)
(* reads and decides, the locks of the statements that follow, for a       *)
(* dynamic challenge the count of its solves, and the commit.  Competition *)
(* mode and team membership do not change here (Teams).                    *)
(***************************************************************************)
EXTENDS PortalLocks, Integers

CONSTANTS
    Users,           \* participants
    Team,            \* the team of all of them in teams mode
    Challenges,      \* identifiers of challenges
    Dynamic,         \* the challenges with a dynamic value
    Flags,           \* flags of a challenge
    Hints,           \* hints of the challenges
    Requests,        \* transactions open at the same time
    None,            \* SQL NULL, or no flag at all: a wrong answer
    Initials,        \* the initial values an administrator may give
    Minimum,         \* minimum of every dynamic challenge
    Decay,           \* decay of every dynamic challenge
    Logics,          \* challenges.logic explored
    Limits,          \* challenges.max_attempts explored, 0: no limit
    Patches,         \* what one edit changes explored: sets of "state", "logic", "limit"
                     \* and "score"
    Moves,           \* changes of a submission explored: the type it had, or None when
                     \* it is created, and the type it gets, or None when it is deleted
    PerMinute,       \* incorrect_submissions_per_min
    Cost,            \* cost of every hint
    Bonus,           \* value of an award an administrator gives
    MaxRequests      \* bound: requests started

\* Types of submissions; rate-limited ones count for as little as discarded ones.
SubmissionTypes == {"correct", "incorrect", "partial", "discard"}

ASSUME ScoringAssumption ==
    /\ None \notin Flags /\ Team \notin Users /\ IsFiniteSet(Users) /\ Flags # {}
    /\ Dynamic \subseteq Challenges
    /\ Initials \subseteq Nat /\ (\E x \in Initials : \A y \in Initials : x >= y)
    /\ Minimum \in Nat /\ Decay \in Nat \ {0}
    /\ Logics \subseteq {"any", "all", "team"}
    /\ Limits \subseteq Nat
    /\ Patches \subseteq SUBSET {"state", "logic", "limit", "score"}
    /\ Moves \subseteq [from : SubmissionTypes \cup {None}, to : SubmissionTypes \cup {None}]
    /\ \A m \in Moves : m.from # m.to
    /\ PerMinute \in Nat /\ Cost \in Nat /\ Bonus \in Nat
    /\ MaxRequests \in Nat

VARIABLES
    teams,       \* whether user_mode is teams
    lockout,     \* whether max_attempts_behavior is lockout, and not timeout
    chal,        \* challenges: state, logic, max_attempts, function, initial, value
    solves,      \* solves
    partial,     \* submissions of type partial
    fails,       \* submissions of type incorrect that count, per account and challenge
    recent,      \* incorrect submissions of the last minute, per account
    unlocked,    \* unlocks
    charges,     \* awards of category hints: what an account paid
    awards,      \* accounts an administrator gave an award
    touched,     \* times an administrator changed the solves of a challenge
    counted,     \* touched at the last recalculation (both for the properties)
    overlapped,  \* challenges recalculated with parameters that had been changed
                 \* meanwhile (for the properties)
    given,       \* incorrect submissions administrators recorded, per account and
                 \* challenge (for the properties)
    req,         \* the transactions in progress
    started      \* requests started

fixed  == <<teams, lockout>>
ledger == <<unlocked, charges, awards>>
tries  == <<partial, fails, recent>>
ghosts == <<touched, counted, overlapped, given>>
vars == <<fixed, chal, solves, tries, ledger, ghosts, req, started>>

----------------------------------------------------------------------------

Accounts   == Users \cup {Team}
Account(u) == IF teams THEN Team ELSE u

ChallengeRow == [state : {"visible", "hidden"}, logic : Logics, tries : Nat,
                 function : {"static", "linear", "logarithmic"},
                 initial : Nat, value : Nat]

Solve == [user : Users, account : Accounts, chal : Challenges]

SolversOf(S, c)  == {s.account : s \in {x \in S : x.chal = c}}
HasSolved(a, c)  == a \in SolversOf(solves, c)

Maximum(a, b) == IF a >= b THEN a ELSE b

Curve(function, initial, n) ==
    LET adjusted == Maximum(n - 1, 0) IN
    IF function = "linear" THEN initial - Decay * adjusted
    ELSE initial - ((initial - Minimum) * adjusted * adjusted) \div (Decay * Decay)

\* recalculate_dynamic_value: what a challenge is worth after n solves.
Decayed(function, initial, n) == Maximum(Curve(function, initial, n), Minimum)

\* account_score: the present value of what the account solved and its awards, and
\* whether they cover a price on top of what it paid for hints.
Earned(a) ==
    LET worth == [c \in Challenges |-> IF HasSolved(a, c) THEN chal[c].value ELSE 0]
        sum[S \in SUBSET Challenges] ==
            IF S = {} THEN 0
            ELSE LET c == CHOOSE x \in S : TRUE IN worth[c] + sum[S \ {c}]
    IN  sum[Challenges] + (IF a \in awards THEN Bonus ELSE 0)
AccountScoreCovers(a, price) == charges[a] + price <= Earned(a)

----------------------------------------------------------------------------
(* Requests *)

\* user, chal, hint: what the request names.  flag: the answer submitted.  edit:
\* the new row of an edited challenge, or the move of a submission.  outcome: what
\* the reading step decided.  read: the challenge's row as it was then.  count: the
\* solves counted.  seen: the earnings a purchase was checked against, given when
\* an attempt was decided, or touched when the solves were counted.
Idle == [pc |-> "idle", op |-> None, user |-> None, chal |-> None, hint |-> None,
         flag |-> None, edit |-> None, outcome |-> None, read |-> None, count |-> 0,
         seen |-> 0, taken |-> 0]

Configuration == Shared("configuration")
Membership    == Exclusive("team_membership")
Definition(c) == ExclusiveOn("challenge_definition", c)
DynamicScore(c)  == ExclusiveOn("dynamic_score", c)
AccountLock(a, c) == ExclusiveOn("attempt", <<a, c>>)
UnlockLock(a) == ExclusiveOn("content_unlock", a)

InTeam == IF teams THEN <<Membership>> ELSE <<>>

\* Faulty variants, for the sensitivity of the properties.
AttemptUnserialised(r) == <<Configuration>> \o InTeam
UnlockUnserialised(r)  == <<Configuration>>

\* The locks taken before the reading step.
AttemptLocks(r) == <<Configuration>> \o InTeam \o <<AccountLock(Account(r.user), r.chal)>>
UnlockLocks(r)  == <<Configuration>> \o InTeam \o <<UnlockLock(Account(r.user))>>
EditLocks(r)    == <<Configuration, Definition(r.chal), ForUpdate("challenge", r.chal)>>
RecordLocks(r)  == <<Configuration, Membership>>
RemoveLocks(r)  == <<Configuration>>

\* The row of a submission, named by what it counts for.
SubmissionRow(r) == ForUpdate("submission", <<r.user, r.chal, r.edit.from>>)
SubmissionLocks(r) ==
    (IF r.edit.to = None THEN RemoveLocks(r) ELSE RecordLocks(r))
        \o (IF r.edit.from = None THEN <<>> ELSE <<SubmissionRow(r)>>)

\* The locks of the statements that write: foreign keys to the challenge, and the
\* dynamic score.
ScoreUnlocked(r) == <<>>   \* faulty variant: the count is not serialised
ScoreLocks(r) == IF r.read.function = "static" THEN <<>> ELSE <<DynamicScore(r.chal)>>
WriteLocks(r) ==
    CASE r.op = "attempt" /\ r.outcome = "correct" ->
            <<KeyShare("challenge", r.chal)>> \o ScoreLocks(r)
      [] r.op = "attempt" /\ r.outcome # "correct" -> <<KeyShare("challenge", r.chal)>>
      [] r.op = "submission" /\ (r.edit.from = None \/ r.edit.to = "correct") ->
            <<KeyShare("challenge", r.chal)>>
      [] r.op = "edit" -> ScoreLocks(r)
      [] OTHER -> <<>>

ReadLocks(r) ==
    CASE r.op = "attempt" -> AttemptLocks(r)
      [] r.op = "unlock"  -> UnlockLocks(r)
      [] r.op = "edit"    -> EditLocks(r)
      [] r.op = "submission" -> SubmissionLocks(r)
      [] r.op = "award"   -> RecordLocks(r)
      [] r.op = "unaward" -> RemoveLocks(r)
      [] OTHER -> <<>>

Locks(r) == ReadLocks(r) \o (IF r.pc \in {"writing", "counted"} THEN WriteLocks(r) ELSE <<>>)

Held == [p \in Requests |-> Taken(Locks(req[p]), req[p].taken)]
AllTaken(p) == req[p].taken = Len(Locks(req[p]))

\* An UPDATE of the challenge's value is the last statement of an attempt.
Wanted(p) ==
    LET r == req[p] IN
    CASE r.pc # "idle" /\ ~AllTaken(p) -> {Locks(r)[r.taken + 1]}
      [] r.pc = "counted" /\ r.op = "attempt" /\ AllTaken(p) -> {NoKeyUpdate("challenge", r.chal)}
      [] OTHER -> {}

Start(p, op, u, c, h, f, e) ==
    /\ req[p].pc = "idle" /\ started < MaxRequests
    /\ started' = started + 1
    /\ req' = [req EXCEPT ![p] =
                [pc |-> "locking", op |-> op, user |-> u, chal |-> c, hint |-> h, flag |-> f,
                 edit |-> e, outcome |-> None, read |-> None, count |-> 0, seen |-> 0,
                 taken |-> 0]]
    /\ UNCHANGED <<fixed, chal, solves, tries, ledger, ghosts>>

\* The rows an administrator may write who changes these fields: any state, logic and
\* limit, for a dynamic challenge any function and initial value, for another one any
\* value.
Edits(c, fields) ==
    LET row == chal[c]
        among(f, new, old) == IF f \in fields THEN new ELSE {old}
        scores == IF c \in Dynamic THEN {"linear", "logarithmic"} \X Initials \X {row.value}
                  ELSE {"static"} \X {row.initial} \X Initials
    IN  {[state |-> st, logic |-> lo, tries |-> n, function |-> v[1], initial |-> v[2],
          value |-> v[3]] :
            st \in among("state", {"visible", "hidden"}, row.state),
            lo \in among("logic", Logics, row.logic), n \in among("limit", Limits, row.tries),
            v \in among("score", scores, <<row.function, row.initial, row.value>>)}

PartialOf(r) == [user |-> r.user, account |-> Account(r.user), chal |-> r.chal,
                 flag |-> r.flag]

\* The submission that an administrator changes or deletes is there.
Present(r) ==
    /\ r.edit.from = "correct" => \E s \in solves : s.user = r.user /\ s.chal = r.chal
    /\ r.edit.from = "incorrect" => fails[Account(r.user), r.chal] > 0
    /\ r.edit.from = "partial" => PartialOf(r) \in partial

Begin(p) ==
    \/ \E u \in Users, c \in Challenges, f \in Flags \cup {None} :
        Start(p, "attempt", u, c, None, f, None)
    \/ \E u \in Users, h \in Hints : Start(p, "unlock", u, None, h, None, None)
    \/ \E c \in Challenges, fields \in Patches : \E e \in Edits(c, fields) :
        Start(p, "edit", None, c, None, None, e)
    \/ \E u \in Users, c \in Challenges, m \in Moves, f \in Flags \cup {None} :
        /\ "partial" \in {m.from, m.to} \/ f = None
        /\ Present([user |-> u, chal |-> c, flag |-> f, edit |-> m])
        /\ Start(p, "submission", u, c, None, f, m)
    \/ \E u \in Users, op \in {"award", "unaward"} : Start(p, op, u, None, None, None, None)

\* The first lock is the configuration lock, under which the credential is
\* checked again; a refusal is a Fail.
TakeLock(p) ==
    /\ req[p].pc # "idle" /\ ~AllTaken(p)
    /\ MayTake(Held, p, Locks(req[p])[req[p].taken + 1])
    /\ req' = [req EXCEPT ![p].taken = @ + 1]
    /\ UNCHANGED <<fixed, chal, solves, tries, ledger, ghosts, started>>

\* A refusal not modelled here, a database error or a lost connection rolls back.
Fail(p) ==
    /\ req[p].pc # "idle"
    /\ req' = [req EXCEPT ![p] = Idle]
    /\ UNCHANGED <<fixed, chal, solves, tries, ledger, ghosts, started>>

----------------------------------------------------------------------------
(* What the handlers read and decide *)

PartialsOf(a, c) == {x \in partial : x.account = a /\ x.chal = c}

\* compare_submission
Compared(r) ==
    LET found == PartialsOf(Account(r.user), r.chal)
        logic == chal[r.chal].logic
        all   == Flags \subseteq {x.flag : x \in found} \cup {r.flag}
    IN  CASE logic = "all" /\ all -> "correct"
          [] logic = "all" /\ ~all /\ r.flag # None -> "partial"
          [] logic = "team" /\ teams /\ r.flag # None ->
                IF {x.user : x \in found} \cup {r.user} = Users THEN "correct" ELSE "partial"
          [] (logic = "any" \/ (logic = "team" /\ ~teams)) /\ r.flag # None -> "correct"
          [] OTHER -> "incorrect"

\* Faulty variant: one answer too many.
TriesUsedLate(r) ==
    chal[r.chal].tries > 0 /\ fails[Account(r.user), r.chal] > chal[r.chal].tries

TriesUsed(r) ==
    chal[r.chal].tries > 0 /\ fails[Account(r.user), r.chal] >= chal[r.chal].tries

\* attempt, from the challenge's row to the outcome.
Outcome(r) ==
    CASE chal[r.chal].state = "hidden" -> "refused"
      [] chal[r.chal].state # "hidden" /\ TriesUsed(r) ->
            IF lockout THEN "refused" ELSE "ratelimited"
      [] chal[r.chal].state # "hidden" /\ ~TriesUsed(r) ->
            CASE recent[Account(r.user)] >= PerMinute -> "ratelimited"
              [] OTHER -> IF HasSolved(Account(r.user), r.chal) THEN "discard"
                          ELSE Compared(r)

\* unlock: not unlocked yet, and the score covers the cost.
Affordable(r) ==
    /\ <<Account(r.user), r.hint>> \notin unlocked
    /\ AccountScoreCovers(Account(r.user), Cost)

Decision(r) ==
    CASE r.op = "attempt" -> Outcome(r)
      [] r.op = "unlock"  -> IF Affordable(r) THEN "buy" ELSE "refused"
      [] r.op = "submission" -> IF Present(r) THEN "record" ELSE "refused"
      [] OTHER -> "record"

Decide(p) ==
    LET r == req[p] IN
    /\ r.pc = "locking" /\ AllTaken(p)
    /\ req' = [req EXCEPT ![p] =
                IF Decision(r) = "refused" THEN Idle
                ELSE [r EXCEPT !.pc = "writing", !.outcome = Decision(r),
                         !.read = IF r.op = "attempt" THEN chal[r.chal] ELSE r.edit,
                         !.seen = CASE r.op = "unlock" -> Earned(Account(r.user))
                                    [] r.op = "attempt" -> given[Account(r.user), r.chal]
                                    [] OTHER -> 0]]
    /\ UNCHANGED <<fixed, chal, solves, tries, ledger, ghosts, started>>

----------------------------------------------------------------------------
(* What they write *)

Ready(p, op) == req[p].pc = "writing" /\ req[p].op = op /\ AllTaken(p)
Done(p)      == req' = [req EXCEPT ![p] = Idle]

NewSolve(r) == [user |-> r.user, account |-> Account(r.user), chal |-> r.chal]

\* uq_solves: one solve per challenge and user, and per challenge and team.
Duplicate(r) ==
    \E s \in solves : s.chal = r.chal /\ (s.user = r.user \/ s.account = Account(r.user))

\* insert_submission for an outcome that solves nothing.
RecordAttempt(p) ==
    LET r == req[p]
        a == Account(r.user)
        miss == IF r.outcome = "incorrect" THEN 1 ELSE 0
    IN
    /\ Ready(p, "attempt") /\ r.outcome # "correct"
    /\ partial' = IF r.outcome = "partial"
                  THEN partial \cup {PartialOf(r)} ELSE partial
    /\ fails' = [fails EXCEPT ![<<a, r.chal>>] = @ + miss]
    /\ recent' = [recent EXCEPT ![a] = @ + miss]
    /\ Done(p)
    /\ UNCHANGED <<fixed, chal, solves, ledger, ghosts, started>>

\* The solve of a challenge whose value is fixed.
RecordSolve(p) ==
    LET r == req[p] IN
    /\ Ready(p, "attempt") /\ r.outcome = "correct" /\ r.read.function = "static"
    /\ solves' = IF Duplicate(r) THEN solves ELSE solves \cup {NewSolve(r)}
    /\ Done(p)
    /\ UNCHANGED <<fixed, chal, tries, ledger, ghosts, started>>

\* recalculate_dynamic_value counts under the lock, its own new solve included.
CountSolves(p) ==
    LET r == req[p]
        own == IF r.op = "attempt" THEN {Account(r.user)} ELSE {}
    IN
    /\ (Ready(p, "attempt") /\ r.outcome = "correct") \/ Ready(p, "edit")
    /\ r.read.function # "static"
    /\ req' = [req EXCEPT ![p] =
                IF r.op = "attempt" /\ Duplicate(r) THEN Idle
                ELSE [r EXCEPT !.pc = "counted", !.seen = touched[r.chal],
                               !.count = Cardinality(SolversOf(solves, r.chal) \cup own)]]
    /\ UNCHANGED <<fixed, chal, solves, tries, ledger, ghosts, started>>

\* The value follows from the row that was read and the solves that were counted.
Revalued(r) == Decayed(r.read.function, r.read.initial, r.count)

CommitSolve(p) ==
    LET r == req[p] IN
    /\ r.pc = "counted" /\ r.op = "attempt"
    /\ \A l \in Wanted(p) : MayTake(Held, p, l)
    /\ ~Duplicate(r)
    /\ solves' = solves \cup {NewSolve(r)}
    /\ chal' = [chal EXCEPT ![r.chal].value = Revalued(r)]
    /\ counted' = [counted EXCEPT ![r.chal] = r.seen]
    /\ overlapped' = IF r.read.function = chal[r.chal].function
                        /\ r.read.initial = chal[r.chal].initial
                     THEN overlapped \ {r.chal} ELSE overlapped \cup {r.chal}
    /\ Done(p)
    /\ UNCHANGED <<fixed, tries, ledger, touched, given, started>>

\* update: the new row, its value recalculated from it.
CommitEdit(p) ==
    LET r == req[p] IN
    /\ r.op = "edit"
    /\ r.pc = "counted" \/ (Ready(p, "edit") /\ r.edit.function = "static")
    /\ chal' = [chal EXCEPT ![r.chal] =
                  IF r.pc = "counted" THEN [r.edit EXCEPT !.value = Revalued(r)] ELSE r.edit]
    /\ counted' = IF r.pc = "counted" THEN [counted EXCEPT ![r.chal] = r.seen] ELSE counted
    /\ overlapped' = overlapped \ {r.chal}
    /\ Done(p)
    /\ UNCHANGED <<fixed, solves, tries, ledger, touched, given, started>>

\* A submission an administrator records, gives another type, or deletes.  Its date
\* is the one the administrator or the participant gave it, so one of type incorrect
\* may be of the last minute or not, and in the window of a time-out or not.  No
\* limit is looked at, and the challenge's value is not recalculated.
ChangeSubmission(p) ==
    LET r == req[p]
        a == Account(r.user)
        k == <<a, r.chal>>
        undone   == IF r.edit.from = "incorrect" THEN 1 ELSE 0
        windowed == CASE r.edit.to # "incorrect" -> {0}
                      [] r.edit.to = "incorrect" -> IF lockout THEN {1} ELSE {0, 1}
        lately   == CASE r.edit.to = "incorrect" -> {0, 1}
                      [] r.edit.to # "incorrect" -> {0, 0 - undone}
    IN
    /\ Ready(p, "submission")
    /\ IF r.edit.to = "correct" /\ Duplicate(r)
       THEN UNCHANGED <<solves, tries, touched, given>>
       ELSE /\ solves' = CASE r.edit.to = "correct"   -> solves \cup {NewSolve(r)}
                           [] r.edit.from = "correct" ->
                                {s \in solves : s.user # r.user \/ s.chal # r.chal}
                           [] OTHER -> solves
            /\ partial' = (partial \ (IF r.edit.from = "partial" THEN {PartialOf(r)} ELSE {}))
                             \cup (IF r.edit.to = "partial" THEN {PartialOf(r)} ELSE {})
            /\ \E n \in windowed : /\ fails' = [fails EXCEPT ![k] = Maximum(@ - undone, 0) + n]
                                   /\ given' = [given EXCEPT ![k] = @ + n]
            /\ \E n \in lately : recent' = [recent EXCEPT ![a] = Maximum(@ + n, 0)]
            /\ touched' = IF solves' = solves THEN touched
                          ELSE [touched EXCEPT ![r.chal] = @ + 1]
    /\ Done(p)
    /\ UNCHANGED <<fixed, chal, ledger, counted, overlapped, started>>

Award(p) ==
    /\ Ready(p, "award") \/ Ready(p, "unaward")
    /\ awards' = IF req[p].op = "award" THEN awards \cup {Account(req[p].user)}
                 ELSE awards \ {Account(req[p].user)}
    /\ Done(p)
    /\ UNCHANGED <<fixed, chal, solves, tries, unlocked, charges, ghosts, started>>

\* The award that takes the points and the unlock; a second unlock of the same
\* content meets ON CONFLICT and rolls both back.
Unlock(p) ==
    LET a == Account(req[p].user) IN
    /\ Ready(p, "unlock")
    /\ IF <<a, req[p].hint>> \in unlocked THEN UNCHANGED <<charges, unlocked>>
       ELSE /\ charges' = [charges EXCEPT ![a] = @ + Cost]
            /\ unlocked' = unlocked \cup {<<a, req[p].hint>>}
    /\ Done(p)
    /\ UNCHANGED <<fixed, chal, solves, tries, awards, ghosts, started>>

\* Time: the minute of the general limit, and the window of max_attempts_timeout.
MinutePasses(a) ==
    /\ recent[a] > 0 /\ recent' = [recent EXCEPT ![a] = 0]
    /\ UNCHANGED <<fixed, chal, solves, partial, fails, ledger, ghosts, req, started>>

WindowPasses(a, c) ==
    /\ ~lockout /\ fails[a, c] > 0
    /\ fails' = [fails EXCEPT ![<<a, c>>] = 0]
    /\ UNCHANGED <<fixed, chal, solves, partial, recent, ledger, ghosts, req, started>>

----------------------------------------------------------------------------

\* A contest under way: any solves of the dynamic challenges, the values that
\* follow from them, and nothing bought yet.
Init ==
    /\ teams \in BOOLEAN /\ lockout \in BOOLEAN
    /\ solves \in {S \in SUBSET [user : Users, account : {Account(u) : u \in Users},
                                 chal : Dynamic] :
                    /\ \A s \in S : s.account = Account(s.user)
                    /\ \A s, t \in S : s.chal = t.chal /\ s.account = t.account => s = t}
    /\ \E logic \in Logics, limit \in Limits :
        chal = [c \in Challenges |->
                 LET i == CHOOSE x \in Initials : \A y \in Initials : x >= y
                     f == IF c \in Dynamic THEN "linear" ELSE "static"
                 IN  [state |-> "visible", logic |-> logic, tries |-> limit, function |-> f,
                      initial |-> i,
                      value |-> IF f = "static" THEN i
                                ELSE Decayed(f, i, Cardinality(SolversOf(solves, c)))]]
    /\ partial = {} /\ fails = [x \in Accounts \X Challenges |-> 0]
    /\ recent = [a \in Accounts |-> 0]
    /\ unlocked = {} /\ charges = [a \in Accounts |-> 0] /\ awards = {}
    /\ touched = [c \in Challenges |-> 0] /\ counted = touched /\ overlapped = {}
    /\ given = fails
    /\ req = [p \in Requests |-> Idle] /\ started = 0

Step(p) ==
    \/ Begin(p) \/ TakeLock(p) \/ Fail(p) \/ Decide(p)
    \/ RecordAttempt(p) \/ RecordSolve(p) \/ CountSolves(p) \/ CommitSolve(p) \/ CommitEdit(p)
    \/ ChangeSubmission(p) \/ Award(p) \/ Unlock(p)

Next ==
    \/ \E p \in Requests : Step(p)
    \/ \E a \in Accounts : MinutePasses(a)
    \/ \E a \in Accounts, c \in Challenges : WindowPasses(a, c)

Spec == Init /\ [][Next]_vars

----------------------------------------------------------------------------
(* Properties *)

\* Every variable has its type and no request has more locks than its handler
\* takes.
TypeOK ==
    /\ chal \in [Challenges -> ChallengeRow]
    /\ solves \subseteq Solve
    /\ partial \subseteq [user : Users, account : Accounts, chal : Challenges,
                     flag : Flags \cup {None}]
    /\ fails \in [Accounts \X Challenges -> Nat] /\ recent \in [Accounts -> Nat]
    /\ given \in [Accounts \X Challenges -> Nat]
    /\ unlocked \subseteq Accounts \X Hints
    /\ charges \in [Accounts -> Nat] /\ awards \subseteq Accounts
    /\ \A p \in Requests : req[p].taken <= Len(Locks(req[p]))

\* However many members answer at once, and from however many connections, an
\* account's wrong answers never pass the max_attempts that the attempt read (in
\* their window, when the limit is a time-out), but for the incorrect submissions
\* that administrators, who ask for no lock of the account, recorded since it looked.
TriesBounded ==
    [][\A p \in Requests :
        LET r == req[p]
            x == <<Account(r.user), r.chal>>
        IN  Ready(p, "attempt") /\ req'[p] = Idle /\ fails' # fails /\ r.read.tries > 0
                => fails'[x] <= r.read.tries + (given[x] - r.seen)]_vars

\* The value of a dynamic challenge is the one its solves and its parameters
\* give, after any interleaving of solves and edits, as long as administrators
\* leave its solves alone and no edit overlapped the last solve.
ValueFollowsSolves ==
    \A c \in Dynamic \ overlapped :
        touched[c] = counted[c] =>
            chal[c].value = Decayed(chal[c].function, chal[c].initial,
                                    Cardinality(SolversOf(solves, c)))

\* The same without the last condition: the lock of recalculate_dynamic_value is
\* said to serialise solves with administrator recalculations.
ValueFollowsEdits ==
    \A c \in Dynamic :
        touched[c] = counted[c] =>
            chal[c].value = Decayed(chal[c].function, chal[c].initial,
                                    Cardinality(SolversOf(solves, c)))

\* Nobody pays for hints more than what was there to pay with: purchases of one
\* account that run at the same time do not count the same points twice.
NoOverspend ==
    [][\A p \in Requests :
        LET a == Account(req[p].user) IN
        Ready(p, "unlock") /\ req'[p] = Idle /\ charges' # charges => charges'[a] <= req[p].seen]_vars

\* A correct answer is never lost to a duplicate: when an attempt gets to record
\* its solve, no other attempt of the same account has recorded one since it
\* looked, so only a solve that an administrator records can make it fail.
SolveIsFirst ==
    \A p \in Requests :
        req[p].pc \in {"writing", "counted"} /\ req[p].outcome = "correct" /\ Duplicate(req[p])
            => touched[req[p].chal] > 0

\* Attempts, edits and purchases never wait for each other in a circle: the
\* challenge's row comes before its score lock everywhere.
NoCircularWait == ~CircularWait(Held, [p \in Requests |-> Wanted(p)])
=============================================================================
