-------------------------- MODULE DefinitionsProofs --------------------------
(***************************************************************************)
(* What the locks of the challenge, flag, runtime and launch handlers      *)
(* guarantee, for any number of challenges, flags and transactions.        *)
(*                                                                         *)
(* The argument is that of TeamsProofs: conflicting locks are not held     *)
(* together (ExclusiveLocks), so what a handler checked under its locks    *)
(* (Decided) is still true when it writes, and the writes keep the         *)
(* definitions and what was handed out from them consistent.               *)
(***************************************************************************)
EXTENDS Definitions, SequenceTheorems, FiniteSetTheorems, WellFoundedInduction, TLAPS

Ops == {"create", "update", "delete", "put_runtime", "set_gate", "create_flag", "update_flag",
        "delete_flag", "launch", "rename_category", "delete_category"}
ChalOps == {"create", "update", "delete", "put_runtime", "create_flag", "update_flag", "launch"}
FlagOps == {"create", "create_flag", "update_flag", "delete_flag"}
Types   == {"static", "generated"}

\* A transaction has the fields of Idle.
IsRequest(r) ==
    /\ r = [pc |-> r.pc, op |-> r.op, user |-> r.user, chal |-> r.chal, flag |-> r.flag,
            cat |-> r.cat, key |-> r.key, arg |-> r.arg, from |-> r.from, pick |-> r.pick,
            taken |-> r.taken]
    /\ r.pc \in {"idle", "locking", "writing"} /\ r.taken \in Nat

\* A request names what its handler needs.
WellFormed(r) ==
    /\ r.op \in Ops
    /\ r.op \in ChalOps => r.chal \in Challenges
    /\ r.op \in FlagOps => r.flag \in Flags
    /\ r.op \in {"update_flag", "delete_flag"} => r.from \in Challenges
    /\ r.op = "create" => /\ r.key \in Keys /\ r.arg.def \in NewDefinitions
                          /\ r.arg.type \in Types /\ r.arg.enable \in BOOLEAN
                          /\ r.arg.type = "generated" => r.arg.def.exposure = "private"
    /\ r.op = "update" => r.arg.def \in Definition /\ r.arg.enable \in BOOLEAN
    /\ r.op \in {"put_runtime", "set_gate"} => r.arg \in BOOLEAN
    /\ r.op \in {"create_flag", "update_flag"} => r.arg \in Types
    /\ r.op = "launch" => r.user \in Users
    /\ r.op \in {"rename_category", "delete_category"} => r.cat \in Categories

RequestsTyped ==
    /\ req = [p \in Requests |-> req[p]] /\ \A p \in Requests : IsRequest(req[p])
    /\ \A p \in Requests : req[p].pc # "idle" => WellFormed(req[p])
    /\ \A p \in Requests : req[p].pc = "idle" => req[p].taken = 0

\* A transaction that writes has all its locks, and no other has more.
LocksTaken ==
    \A p \in Requests : /\ req[p].pc # "idle" => req[p].taken <= Len(Locks(req[p]))
                        /\ req[p].pc = "writing" => req[p].taken = Len(Locks(req[p]))

\* No two transactions hold conflicting locks.
ExclusiveLocks == Exclusion(Held)

\* Rows have their types, and what they refer to exists (foreign keys).
ChallengesOK ==
    /\ gate \in BOOLEAN /\ cat \in [Categories -> {"live", "gone"}]
    /\ chal \in [Challenges -> ChallengeRow]
    /\ \A c \in Challenges : Live(c) => chal[c].def \in Definition /\ cat[chal[c].def.cat] = "live"
    /\ PublishedHasRuntime
FlagsOK ==
    /\ flag \in [Flags -> FlagRow]
    /\ \A f \in Flags : flag[f].state = "live" => flag[f].chal \in Challenges /\ Live(flag[f].chal)
    /\ EveryChallengeKeepsAFlag /\ GeneratedIsPrivate

\* next_available_leet_mask never gives two users the same variation
\* (uq_user_challenge_flags_flag_mask).
VariationsAreUnique == \A a, b \in alloc : a.flag = b.flag /\ a.mask = b.mask => a.user = b.user
HandedOutOK ==
    /\ IsFiniteSet(alloc)
    /\ \A a \in alloc : a.flag \in Flags /\ a.chal \in Challenges
    /\ \A i \in inst : i.chal \in Challenges /\ i.flag \in Flags \cup {None}
    /\ AllocationMatchesDefinition /\ RunningMatchesDefinition /\ VariationsAreUnique

\* A live challenge that was created with a key is the one the key remembers.
KeysOK ==
    /\ idem \in [Keys -> Challenges \cup {None}] /\ OneChallengePerKey
    /\ \A c \in Challenges : Live(c) /\ chal[c].key # None => idem[chal[c].key] = c

DataOK == ChallengesOK /\ FlagsOK /\ HandedOutOK /\ KeysOK /\ started \in Nat

\* What a handler checked, as far as it still has to be true when it writes.
Decided(r) ==
    /\ r.op \in {"create", "update"} => cat[r.arg.def.cat] = "live"
    /\ r.op = "update" =>
         /\ Live(r.chal)
         /\ r.arg.def.exposure # chal[r.chal].def.exposure =>
              ~Running(r.chal) /\ (r.arg.def.exposure = "public" => Generated(r.chal) = {})
         /\ Published(r.arg.def) => chal[r.chal].def.runtime = TRUE
    /\ r.op = "delete" => MayDelete(r)
    /\ r.op = "put_runtime" => MayPutRuntime(r)
    /\ r.op = "create_flag" => MayCreateFlag(r)
    /\ r.op = "update_flag" => MayUpdateFlag(r)
    /\ r.op = "delete_flag" => MayDeleteFlag(r)
    /\ r.op = "launch" =>
         /\ Live(r.chal) /\ Private(r.chal) /\ r.pick.flag = GeneratedFlag(r.chal)
         /\ r.pick.flag # None =>
              /\ r.pick.revision = flag[r.pick.flag].revision
              /\ \A a \in alloc : a.flag = r.pick.flag /\ a.mask = r.pick.mask => a.user = r.user
    /\ r.op = "delete_category" => \A c \in Challenges : Live(c) => chal[c].def.cat # r.cat

DecisionsHold == \A p \in Requests : req[p].pc = "writing" => Decided(req[p])

IInv == RequestsTyped /\ LocksTaken /\ ExclusiveLocks /\ DecisionsHold /\ DataOK

----------------------------------------------------------------------------
(* Locks taken one after the other *)

\* Whoever holds an exclusive lock holds it alone (pg_advisory_xact_lock,
\* SELECT ... FOR UPDATE).
LEMMA ExclusiveHolder ==
  ASSUME NEW held, Exclusion(held), NEW p \in DOMAIN held, NEW q \in DOMAIN held,
         NEW l \in held[p], NEW h \in held[q], l.lock = h.lock, l.mode = "exclusive"
  PROVE  p = q
  BY DEF Exclusion, Compatible

\* Taking one more lock under MayTake, while the others keep or release theirs,
\* preserves the exclusion.
LEMMA TakeKeepsExclusion ==
  ASSUME NEW held, NEW after, NEW p, NEW l, Exclusion(held), MayTake(held, p, l),
         DOMAIN after = DOMAIN held,
         \A q \in DOMAIN held : after[q] \subseteq held[q] \cup (IF q = p THEN {l} ELSE {})
  PROVE  Exclusion(after)
<1> SUFFICES ASSUME NEW a \in DOMAIN held, NEW b \in DOMAIN held, a # b,
                    NEW x \in after[a], NEW y \in after[b]
             PROVE  Compatible(x, y)
  BY DEF Exclusion
<1>1. CASE x \in held[a] /\ y \in held[b] BY <1>1 DEF Exclusion
<1>2. CASE x \notin held[a]
  <2>1. a = p /\ x = l /\ y \in held[b] BY <1>2
  <2>2. {x.mode, y.mode} = {y.mode, x.mode} OBVIOUS
  <2> QED BY <2>1, <2>2 DEF MayTake, Compatible
<1>3. CASE y \notin held[b] BY <1>3 DEF MayTake
<1> QED BY <1>1, <1>2, <1>3

\* Releasing locks, by committing or rolling back, preserves the exclusion.
LEMMA ReleaseKeepsExclusion ==
  ASSUME NEW held, NEW after, Exclusion(held), DOMAIN after = DOMAIN held,
         \A q \in DOMAIN held : after[q] \subseteq held[q]
  PROVE  Exclusion(after)
  BY DEF Exclusion

\* The locks of a transaction as it takes them one after the other.
LEMMA TakenNext ==
  ASSUME NEW seq, NEW n \in Nat
  PROVE  Taken(seq, n + 1) = Taken(seq, n) \cup {seq[n + 1]}
<1>1. 1..(n + 1) = (1..n) \cup {n + 1} OBVIOUS
<1> QED BY <1>1 DEF Taken

\* Nothing is held before the first lock.
LEMMA TakenNone == ASSUME NEW seq PROVE Taken(seq, 0) = {}
<1>1. 1..0 = {} OBVIOUS
<1> QED BY <1>1 DEF Taken

----------------------------------------------------------------------------
(* The locks of the handlers *)

Category(g)  == KeyShare("category", g)
Row(c)       == ForUpdate("challenge", c)

\* The locks that matter here.
Needed(r) ==
    (IF r.op \in {"update", "delete", "create_flag", "update_flag", "launch"}
     THEN {DefinitionLock(r.chal)} ELSE {})
    \cup (IF r.op \in {"update_flag", "delete_flag"} THEN {DefinitionLock(r.from)} ELSE {})
    \cup (IF r.op \in {"update", "delete", "put_runtime"} THEN {Row(r.chal)} ELSE {})
    \cup (IF r.op \in {"create", "update"} THEN {Category(r.arg.def.cat)} ELSE {})
    \cup (IF r.op = "delete_category" THEN {ForUpdate("category", r.cat)} ELSE {})

\* Short sequences, by their elements.
IsOne(m, a) == Len(m) = 1 /\ m[1] = a
IsTwo(m, a, b) == Len(m) = 2 /\ m[1] = a /\ m[2] = b
IsThree(m, a, b, c) == Len(m) = 3 /\ m[1] = a /\ m[2] = b /\ m[3] = c
IsFour(m, a, b, c, d) == Len(m) = 4 /\ m[1] = a /\ m[2] = b /\ m[3] = c /\ m[4] = d
IsFive(m, a, b, c, d, e) ==
    Len(m) = 5 /\ m[1] = a /\ m[2] = b /\ m[3] = c /\ m[4] = d /\ m[5] = e

\* Sequences written out have these elements.
LEMMA Literals ==
  ASSUME NEW a, NEW b, NEW c, NEW d, NEW e
  PROVE  /\ IsOne(<<a>>, a) /\ IsTwo(<<a, b>>, a, b) /\ IsThree(<<a, b, c>>, a, b, c)
         /\ IsFour(<<a, b, c, d>>, a, b, c, d) /\ IsFive(<<a, b, c, d, e>>, a, b, c, d, e)
  BY DEF IsOne, IsTwo, IsThree, IsFour, IsFive

\* What each handler locks, in its order.
LEMMA LocksWritten ==
  ASSUME NEW r, WellFormed(r)
  PROVE  LET m == Locks(r)
             d == DefinitionLock(r.chal)
             o == DefinitionLock(r.from)
             f == ForUpdate("flag", r.flag)
             k == KeyShare("challenge", r.chal)
             g == Category(r.arg.def.cat)
         IN  \/ r.op = "create" /\ IsFour(m, Configuration, KeyLock(r.key), g, GateRow)
             \/ r.op = "create" /\ IsThree(m, Configuration, KeyLock(r.key), g)
             \/ r.op = "update" /\ IsFive(m, Configuration, d, Row(r.chal), g, GateRow)
             \/ r.op = "update" /\ IsFour(m, Configuration, d, Row(r.chal), g)
             \/ r.op = "delete" /\ IsThree(m, Configuration, d, Row(r.chal))
             \/ r.op = "put_runtime" /\ IsTwo(m, Configuration, Row(r.chal))
             \/ r.op = "create_flag" /\ IsTwo(m, d, k)
             \/ r.op = "update_flag" /\ r.from = r.chal /\ IsThree(m, d, f, k)
             \/ r.op = "update_flag" /\ r.from < r.chal /\ IsFour(m, o, d, f, k)
             \/ r.op = "update_flag" /\ r.from > r.chal /\ IsFour(m, d, o, f, k)
             \/ r.op = "delete_flag" /\ IsTwo(m, o, f)
             \/ /\ r.op = "launch"
                /\ IsFive(m, Configuration, d, k, KeyShare("setting", Gate), ForUpdate("user", r.user))
             \/ r.op \in {"rename_category", "delete_category"} /\ IsOne(m, ForUpdate("category", r.cat))
             \/ r.op = "set_gate" /\ Len(m) = 0
<1> DEFINE d == DefinitionLock(r.chal)
           o == DefinitionLock(r.from)
           f == ForUpdate("flag", r.flag)
           k == KeyShare("challenge", r.chal)
           g == Category(r.arg.def.cat)
<1>1. CASE r.op = "create"
  <2>1. Locks(r) = CreateLocks(r) BY <1>1 DEF Locks
  <2>2. /\ IsFour(<<Configuration, KeyLock(r.key), g, GateRow>>, Configuration, KeyLock(r.key), g, GateRow)
        /\ IsThree(<<Configuration, KeyLock(r.key), g>>, Configuration, KeyLock(r.key), g)
    BY Literals
  <2> QED BY <1>1, <2>1, <2>2 DEF CreateLocks, Category
<1>2. CASE r.op = "update"
  <2>1. Locks(r) = UpdateLocks(r) BY <1>2 DEF Locks
  <2>2. /\ IsFive(<<Configuration, d, Row(r.chal), g, GateRow>>, Configuration, d, Row(r.chal), g, GateRow)
        /\ IsFour(<<Configuration, d, Row(r.chal), g>>, Configuration, d, Row(r.chal), g)
    BY Literals
  <2> QED BY <1>2, <2>1, <2>2 DEF UpdateLocks, Category, Row
<1>3. CASE r.op = "delete"
  <2>1. Locks(r) = <<Configuration, d, Row(r.chal)>> BY <1>3 DEF Locks, DeleteLocks, Row
  <2>2. IsThree(<<Configuration, d, Row(r.chal)>>, Configuration, d, Row(r.chal)) BY Literals
  <2> QED BY <1>3, <2>1, <2>2
<1>4. CASE r.op = "put_runtime"
  <2>1. Locks(r) = <<Configuration, Row(r.chal)>> BY <1>4 DEF Locks, PutRuntimeLocks, Row
  <2>2. IsTwo(<<Configuration, Row(r.chal)>>, Configuration, Row(r.chal)) BY Literals
  <2> QED BY <1>4, <2>1, <2>2
<1>5. CASE r.op = "create_flag"
  <2>1. Locks(r) = <<d, k>> BY <1>5 DEF Locks, CreateFlagLocks
  <2>2. IsTwo(<<d, k>>, d, k) BY Literals
  <2> QED BY <1>5, <2>1, <2>2
<1>6. CASE r.op = "update_flag"
  <2>1. Locks(r) = UpdateFlagLocks(r) BY <1>6 DEF Locks
  <2>2. r.from \in Nat /\ r.chal \in Nat
    BY <1>6, DefinitionsAssumption DEF WellFormed, ChalOps
  <2>3. /\ IsThree(<<d, f, k>>, d, f, k)
        /\ IsFour(<<o, d, f, k>>, o, d, f, k) /\ IsFour(<<d, o, f, k>>, d, o, f, k)
    BY Literals
  <2>4. CASE r.from = r.chal
    <3>1. Locks(r) = <<d, f, k>> BY <2>1, <2>2, <2>4 DEF UpdateFlagLocks
    <3> QED BY <1>6, <2>3, <2>4, <3>1
  <2>5. CASE r.from < r.chal
    <3>1. r.from # r.chal /\ ~(r.from > r.chal) BY <2>2, <2>5
    <3>2. Locks(r) = <<o, d, f, k>> BY <2>1, <2>5, <3>1 DEF UpdateFlagLocks
    <3> QED BY <1>6, <2>3, <2>5, <3>2
  <2>6. CASE r.from > r.chal
    <3>1. r.from # r.chal /\ ~(r.from < r.chal) BY <2>2, <2>6
    <3>2. Locks(r) = <<d, o, f, k>> BY <2>1, <2>6, <3>1 DEF UpdateFlagLocks
    <3> QED BY <1>6, <2>3, <2>6, <3>2
  <2>7. r.from = r.chal \/ r.from < r.chal \/ r.from > r.chal BY <2>2
  <2> QED BY <2>4, <2>5, <2>6, <2>7
<1>7. CASE r.op = "delete_flag"
  <2>1. Locks(r) = <<o, f>> BY <1>7 DEF Locks, DeleteFlagLocks
  <2>2. IsTwo(<<o, f>>, o, f) BY Literals
  <2> QED BY <1>7, <2>1, <2>2
<1>8. CASE r.op = "launch"
  <2> DEFINE s == KeyShare("setting", Gate)
             u == ForUpdate("user", r.user)
  <2>1. Locks(r) = <<Configuration, d, k, s, u>> BY <1>8 DEF Locks, LaunchLocks
  <2>2. IsFive(<<Configuration, d, k, s, u>>, Configuration, d, k, s, u) BY Literals
  <2> QED BY <1>8, <2>1, <2>2
<1>9. CASE r.op \in {"rename_category", "delete_category"}
  <2> DEFINE c == ForUpdate("category", r.cat)
  <2>1. Locks(r) = <<c>> BY <1>9 DEF Locks
  <2>2. IsOne(<<c>>, c) BY Literals
  <2> QED BY <1>9, <2>1, <2>2
<1>10. CASE r.op = "set_gate"
  <2>1. Locks(r) = <<>> BY <1>10 DEF Locks
  <2>2. Len(<<>>) = 0 OBVIOUS
  <2> QED BY <1>10, <2>1, <2>2
<1>11. r.op \in Ops BY DEF WellFormed
<1> QED BY <1>1, <1>2, <1>3, <1>4, <1>5, <1>6, <1>7, <1>8, <1>9, <1>10, <1>11 DEF Ops

\* Every handler takes the locks it needs.
LEMMA LocksShape ==
  ASSUME NEW r, WellFormed(r)
  PROVE  Len(Locks(r)) \in Nat /\ Needed(r) \subseteq Taken(Locks(r), Len(Locks(r)))
<1> DEFINE m == Locks(r)
           d == DefinitionLock(r.chal)
           o == DefinitionLock(r.from)
           f == ForUpdate("flag", r.flag)
           k == KeyShare("challenge", r.chal)
           g == Category(r.arg.def.cat)
           c == ForUpdate("category", r.cat)
           y == KeyLock(r.key)
           s == KeyShare("setting", Gate)
           u == ForUpdate("user", r.user)
           row == Row(r.chal)
<1> USE DEF IsOne, IsTwo, IsThree, IsFour, IsFive
<1>1. \/ r.op = "create" /\ IsFour(m, Configuration, y, g, GateRow)
      \/ r.op = "create" /\ IsThree(m, Configuration, y, g)
      \/ r.op = "update" /\ IsFive(m, Configuration, d, row, g, GateRow)
      \/ r.op = "update" /\ IsFour(m, Configuration, d, row, g)
      \/ r.op = "delete" /\ IsThree(m, Configuration, d, row)
      \/ r.op = "put_runtime" /\ IsTwo(m, Configuration, row)
      \/ r.op = "create_flag" /\ IsTwo(m, d, k)
      \/ r.op = "update_flag" /\ r.from = r.chal /\ IsThree(m, d, f, k)
      \/ r.op = "update_flag" /\ IsFour(m, o, d, f, k)
      \/ r.op = "update_flag" /\ IsFour(m, d, o, f, k)
      \/ r.op = "delete_flag" /\ IsTwo(m, o, f)
      \/ r.op = "launch" /\ IsFive(m, Configuration, d, k, s, u)
      \/ r.op \in {"rename_category", "delete_category"} /\ IsOne(m, c)
      \/ r.op = "set_gate" /\ Len(m) = 0
  BY LocksWritten
<1>2. r.from = r.chal => o = d OBVIOUS
<1> HIDE DEF m, d, o, f, k, g, c, y, s, u, row
<1>3. Len(m) \in Nat /\ \A n \in 1..Len(m) : m[n] \in Taken(m, Len(m))
  <2>1. Len(m) \in Nat BY <1>1
  <2> QED BY <2>1 DEF Taken
<1>4. r.op \in {"update", "delete", "create_flag", "update_flag", "launch"}
        => \E n \in 1..Len(m) : m[n] = d
  BY <1>1
<1>5. r.op \in {"update_flag", "delete_flag"} => \E n \in 1..Len(m) : m[n] = o
  BY <1>1, <1>2
<1>6. r.op \in {"update", "delete", "put_runtime"} => \E n \in 1..Len(m) : m[n] = row
  BY <1>1
<1>7. r.op \in {"create", "update"} => \E n \in 1..Len(m) : m[n] = g
  BY <1>1
<1>8. r.op = "delete_category" => \E n \in 1..Len(m) : m[n] = c
  BY <1>1
<1> QED BY <1>3, <1>4, <1>5, <1>6, <1>7, <1>8 DEF Needed, m, d, o, row, g, c

----------------------------------------------------------------------------
(* Who holds what *)

\* The fields of a request, and the locks it holds.
LEMMA RequestFields ==
  ASSUME RequestsTyped, NEW p \in Requests
  PROVE  /\ IsRequest(req[p]) /\ req[p].taken \in Nat
         /\ req[p].pc \in {"idle", "locking", "writing"}
         /\ req[p].pc = "idle" => req[p].taken = 0
         /\ req[p].pc # "idle" => WellFormed(req[p]) /\ req[p].op \in Ops
         /\ Held[p] = Taken(Locks(req[p]), req[p].taken)
  BY DEF RequestsTyped, IsRequest, WellFormed, Held

\* A transaction that writes has the locks its handler needs.
LEMMA WriterHolds ==
  ASSUME RequestsTyped, LocksTaken, NEW p \in Requests, req[p].pc = "writing"
  PROVE  Needed(req[p]) \subseteq Held[p]
<1>1. WellFormed(req[p]) /\ Held[p] = Taken(Locks(req[p]), Len(Locks(req[p])))
  BY RequestFields DEF LocksTaken
<1> QED BY <1>1, LocksShape

\* What one transaction holds shuts the others out.
LEMMA ShutsOut ==
  ASSUME ExclusiveLocks, NEW p \in Requests, NEW q \in Requests, p # q
  PROVE  /\ \A c : DefinitionLock(c) \in Held[p] => DefinitionLock(c) \notin Held[q]
         /\ \A k, id : ForUpdate(k, id) \in Held[p] =>
               ForUpdate(k, id) \notin Held[q] /\ KeyShare(k, id) \notin Held[q]
         /\ \A k, id : KeyShare(k, id) \in Held[p] => ForUpdate(k, id) \notin Held[q]
<1>1. p \in DOMAIN Held /\ q \in DOMAIN Held /\ Exclusion(Held) BY DEF Held, ExclusiveLocks
<1> HIDE DEF Held
<1>2. ASSUME NEW l, NEW h, l \in Held[p], h \in Held[q], l.lock = h.lock
      PROVE  l.mode # "exclusive" /\ h.mode # "exclusive"
  BY <1>1, <1>2, ExclusiveHolder
<1>3. \A c : DefinitionLock(c).mode = "exclusive" BY DEF DefinitionLock, ExclusiveOn
<1>4. \A k, id : /\ ForUpdate(k, id).mode = "exclusive"
                 /\ ForUpdate(k, id).lock = KeyShare(k, id).lock
  BY DEF ForUpdate, KeyShare
<1> QED BY <1>2, <1>3, <1>4

----------------------------------------------------------------------------
(* What a step leaves a transaction that does not take part in it *)

\* The definition of c, as far as its lock protects it: its exposure, its flags,
\* and that nothing more is handed out from it.
Kept(c) ==
    /\ chal'[c].state = "live" /\ chal'[c].def.exposure = chal[c].def.exposure
    /\ \A f \in Flags : flag[f].state = "live" /\ flag[f].chal = c => flag'[f] = flag[f]
    /\ \A f \in Flags : flag'[f].state = "live" /\ flag'[f].chal = c => flag'[f] = flag[f]
    /\ \A i \in inst' : i.chal = c => i \in inst
    /\ \A a \in alloc' : a.chal = c \/ a.flag \in FlagsOf(c) => a \in alloc

Undisturbed(q) ==
    /\ req'[q] = req[q]
    /\ \A c \in Challenges : DefinitionLock(c) \in Held[q] /\ Live(c) => Kept(c)
    /\ \A c \in Challenges : Row(c) \in Held[q] /\ Live(c) => chal'[c] = chal[c]
    /\ \A g \in Categories : Category(g) \in Held[q] /\ cat[g] = "live" => cat'[g] = "live"
    /\ \A g \in Categories : ForUpdate("category", g) \in Held[q] =>
         \A c \in Challenges : chal'[c].state = "live" /\ chal'[c].def.cat = g
                                  => Live(c) /\ chal[c].def.cat = g

\* A step that leaves these tables alone disturbs nobody.
LEMMA QuietStep ==
  ASSUME UNCHANGED <<cat, chal, flag>>, inst' \subseteq inst, alloc' \subseteq alloc,
         NEW q \in Requests, req'[q] = req[q]
  PROVE  Undisturbed(q)
  BY DEF Undisturbed, Kept, Live

\* Replacing the request of p leaves those of the others.
LEMMA OthersKept ==
  ASSUME RequestsTyped, NEW p \in Requests, NEW q \in Requests, p # q, NEW r,
         req' = [req EXCEPT ![p] = r]
  PROVE  req'[q] = req[q]
  BY DEF RequestsTyped

\* The steps that write none of these tables.
Calm(p) ==
    \/ BeginChallenge(p) \/ BeginFlag(p) \/ TakeLock(p) \/ Fail(p) \/ Check(p)
    \/ SetGate(p) \/ RenameCategory(p)

\* What these steps leave alone.
LEMMA CalmSteps ==
  ASSUME NEW p \in Requests, Calm(p)
  PROVE  /\ UNCHANGED <<cat, chal, flag, alloc, inst, idem>>
         /\ gate' = gate \/ (SetGate(p) /\ req[p].op = "set_gate" /\ req[p].pc = "writing"
                                        /\ gate' = req[p].arg)
         /\ started' = started \/ started' = started + 1
         /\ \E r : req' = [req EXCEPT ![p] = r]
<1>1. CASE BeginChallenge(p)
  <2>1. PICK r : Start(p, r) BY <1>1 DEF BeginChallenge
  <2> QED BY <2>1 DEF Start, tables
<1>2. CASE BeginFlag(p)
  <2>1. PICK r : Start(p, r) BY <1>2 DEF BeginFlag
  <2> QED BY <2>1 DEF Start, tables
<1>3. CASE TakeLock(p) BY <1>3 DEF TakeLock, tables
<1>4. CASE Fail(p) \/ Check(p) BY <1>4 DEF Fail, Check, tables
<1>5. CASE SetGate(p) BY <1>5 DEF SetGate, Done, Writes
<1>6. CASE RenameCategory(p) BY <1>6 DEF RenameCategory, Done, tables
<1> QED BY <1>1, <1>2, <1>3, <1>4, <1>5, <1>6 DEF Calm

\* The types a writing transaction relies on.
LEMMA Writer ==
  ASSUME IInv, NEW p \in Requests, req[p].pc = "writing"
  PROVE  /\ WellFormed(req[p]) /\ IsRequest(req[p]) /\ Decided(req[p])
         /\ Needed(req[p]) \subseteq Held[p]
         /\ chal \in [Challenges -> ChallengeRow] /\ flag \in [Flags -> FlagRow]
         /\ cat \in [Categories -> {"live", "gone"}] /\ idem \in [Keys -> Challenges \cup {None}]
         /\ \A c \in Challenges : Live(c) => chal[c].def \in Definition
         /\ \A f \in Flags : flag[f].state = "live" => flag[f].chal \in Challenges /\ Live(flag[f].chal)
  BY RequestFields, WriterHolds
     DEF IInv, DecisionsHold, DataOK, ChallengesOK, FlagsOK, KeysOK

\* Fields of the parts of a definition.
LEMMA DefinitionFields ==
  ASSUME NEW d \in Definition
  PROVE  /\ d.exposure \in {"public", "private"} /\ d.hidden \in BOOLEAN
         /\ d.runtime \in BOOLEAN \cup {None} /\ d.cat \in Categories
  BY DEF Definition

\* A new challenge and its first flag concern nobody else.
LEMMA CreateUndisturbs ==
  ASSUME IInv, NEW p \in Requests, NEW q \in Requests, p # q, Create(p)
  PROVE  Undisturbed(q)
<1>1. PICK r : r = req[p] OBVIOUS
<1>2. PICK row : row = [state |-> "live", def |-> r.arg.def, key |-> r.key] OBVIOUS
<1>3. PICK new : new = NewFlag(r.chal, r.arg.type) OBVIOUS
<1>4. /\ r.pc = "writing" /\ r.op = "create" /\ chal[r.chal].state = "none"
      /\ flag[r.flag].state = "none"
      /\ chal' = [chal EXCEPT ![r.chal] = row] /\ flag' = [flag EXCEPT ![r.flag] = new]
      /\ req' = [req EXCEPT ![p] = Idle] /\ UNCHANGED <<cat, alloc, inst>>
  BY <1>1, <1>2, <1>3 DEF Create, Writes, Done
<1>5. /\ WellFormed(r) /\ Needed(r) \subseteq Held[p]
      /\ chal \in [Challenges -> ChallengeRow] /\ flag \in [Flags -> FlagRow]
  BY <1>1, <1>4, Writer
<1>6. r.chal \in Challenges /\ r.flag \in Flags BY <1>4, <1>5 DEF WellFormed, ChalOps, FlagOps
<1>7. req'[q] = req[q] BY <1>4, OthersKept DEF IInv
<1>8. new.chal = r.chal /\ row.def = r.arg.def BY <1>2, <1>3 DEF NewFlag
<1>9. \A c \in Challenges : c # r.chal => chal'[c] = chal[c] BY <1>4, <1>5
<1>10. chal'[r.chal] = row BY <1>4, <1>5, <1>6
<1>11. \A f \in Flags : flag'[f] = IF f = r.flag THEN new ELSE flag[f] BY <1>4, <1>5
<1>12. \A c \in Challenges : Live(c) => c # r.chal BY <1>4 DEF Live
<1>13. \A c \in Challenges : Live(c) => Kept(c)
  BY <1>4, <1>8, <1>9, <1>11, <1>12 DEF Kept, Live
<1>14. ForUpdate("category", r.arg.def.cat) \notin Held[q]
  BY <1>4, <1>5, ShutsOut DEF IInv, Needed, Category
<1> QED BY <1>4, <1>7, <1>8, <1>9, <1>10, <1>12, <1>13, <1>14 DEF Undisturbed, Live

\* A step that only writes the row of one live challenge, with its lock.
LEMMA RowUndisturbs ==
  ASSUME IInv, NEW p \in Requests, NEW q \in Requests, p # q,
         NEW c \in Challenges, NEW row, chal' = [chal EXCEPT ![c].def = row], Live(c),
         req'[q] = req[q], UNCHANGED <<cat, flag, alloc, inst>>,
         Row(c) \in Held[p],
         DefinitionLock(c) \in Held[p] \/ row.exposure = chal[c].def.exposure,
         Category(row.cat) \in Held[p] \/ row.cat = chal[c].def.cat
  PROVE  Undisturbed(q)
<1>1. chal \in [Challenges -> ChallengeRow] BY DEF IInv, DataOK, ChallengesOK
<1>2. \A d \in Challenges : d # c => chal'[d] = chal[d] BY <1>1
<1>3. chal'[c].state = "live" /\ chal'[c].def = row BY <1>1 DEF Live, ChallengeRow
<1>4. Row(c) \notin Held[q] BY ShutsOut DEF IInv, Row
<1>5. DefinitionLock(c) \in Held[p] => DefinitionLock(c) \notin Held[q] BY ShutsOut DEF IInv
<1>6. Category(row.cat) \in Held[p] => ForUpdate("category", row.cat) \notin Held[q]
  BY ShutsOut DEF IInv, Category
<1>7. ASSUME NEW d \in Challenges, DefinitionLock(d) \in Held[q], Live(d) PROVE Kept(d)
  BY <1>2, <1>3, <1>5, <1>7 DEF Kept, Live
<1> QED BY <1>2, <1>3, <1>4, <1>6, <1>7 DEF Undisturbed, Live

LEMMA UpdateUndisturbs ==
  ASSUME IInv, NEW p \in Requests, NEW q \in Requests, p # q, Update(p)
  PROVE  Undisturbed(q)
<1>1. PICK r : r = req[p] OBVIOUS
<1>2. PICK row : row = Updated(r) OBVIOUS
<1>3. /\ r.pc = "writing" /\ r.op = "update" /\ chal' = [chal EXCEPT ![r.chal].def = row]
      /\ req' = [req EXCEPT ![p] = Idle] /\ UNCHANGED <<cat, flag, alloc, inst>>
  BY <1>1, <1>2 DEF Update, Writes, Done
<1>4. WellFormed(r) /\ Needed(r) \subseteq Held[p] /\ Decided(r) BY <1>1, <1>3, Writer
<1>5. r.chal \in Challenges /\ r.arg.def \in Definition /\ Live(r.chal)
  BY <1>3, <1>4 DEF WellFormed, ChalOps, Decided
<1>6. row.cat = r.arg.def.cat BY <1>2, <1>5 DEF Updated, Definition
<1>7. Row(r.chal) \in Held[p] /\ DefinitionLock(r.chal) \in Held[p] /\ Category(row.cat) \in Held[p]
  BY <1>3, <1>4, <1>6 DEF Needed
<1>8. req'[q] = req[q] BY <1>3, OthersKept DEF IInv
<1> QED BY <1>3, <1>5, <1>7, <1>8, RowUndisturbs

LEMMA PutRuntimeUndisturbs ==
  ASSUME IInv, NEW p \in Requests, NEW q \in Requests, p # q, PutRuntime(p)
  PROVE  Undisturbed(q)
<1>1. PICK r : r = req[p] OBVIOUS
<1>2. PICK row : row = [chal[r.chal].def EXCEPT !.runtime = r.arg] OBVIOUS
<1>3. /\ r.pc = "writing" /\ r.op = "put_runtime" /\ Live(r.chal)
      /\ chal' = [chal EXCEPT ![r.chal].def.runtime = r.arg]
      /\ req' = [req EXCEPT ![p] = Idle] /\ UNCHANGED <<cat, flag, alloc, inst>>
  BY <1>1 DEF PutRuntime, Writes, Done
<1>4. WellFormed(r) /\ Needed(r) \subseteq Held[p] /\ chal \in [Challenges -> ChallengeRow]
  BY <1>1, <1>3, Writer
<1>5. r.chal \in Challenges /\ chal[r.chal].def \in Definition
  BY <1>1, <1>3, <1>4, Writer DEF WellFormed, ChalOps
<1>6. chal' = [chal EXCEPT ![r.chal].def = row] BY <1>2, <1>3, <1>4, <1>5
<1>7. row.cat = chal[r.chal].def.cat /\ row.exposure = chal[r.chal].def.exposure
  BY <1>2, <1>5 DEF Definition
<1>8. Row(r.chal) \in Held[p] BY <1>3, <1>4 DEF Needed
<1>9. req'[q] = req[q] BY <1>3, OthersKept DEF IInv
<1> QED BY <1>3, <1>5, <1>6, <1>7, <1>8, <1>9, RowUndisturbs

LEMMA DeleteUndisturbs ==
  ASSUME IInv, NEW p \in Requests, NEW q \in Requests, p # q, Delete(p)
  PROVE  Undisturbed(q)
<1>1. PICK r : r = req[p] OBVIOUS
<1>2. PICK row : row = [NoChallenge EXCEPT !.state = "gone"] OBVIOUS
<1>3. /\ r.pc = "writing" /\ r.op = "delete" /\ chal' = [chal EXCEPT ![r.chal] = row]
      /\ flag' = [f \in Flags |-> IF f \in FlagsOf(r.chal) THEN GoneFlag ELSE flag[f]]
      /\ req' = [req EXCEPT ![p] = Idle] /\ UNCHANGED <<cat, alloc, inst>>
  BY <1>1, <1>2 DEF Delete, Writes, Done
<1>4. /\ WellFormed(r) /\ Needed(r) \subseteq Held[p]
      /\ chal \in [Challenges -> ChallengeRow] /\ flag \in [Flags -> FlagRow]
  BY <1>1, <1>3, Writer
<1>5. r.chal \in Challenges BY <1>3, <1>4 DEF WellFormed, ChalOps
<1>6. DefinitionLock(r.chal) \notin Held[q] /\ Row(r.chal) \notin Held[q]
  BY <1>3, <1>4, ShutsOut DEF IInv, Needed, Row
<1>7. req'[q] = req[q] BY <1>3, OthersKept DEF IInv
<1>8. row.state = "gone" BY <1>2 DEF NoChallenge
<1>9. chal'[r.chal] = row /\ \A c \in Challenges : c # r.chal => chal'[c] = chal[c]
  BY <1>3, <1>4, <1>5
<1>10. GoneFlag.state = "gone" BY DEF GoneFlag, NoFlag
<1>11. ASSUME NEW c \in Challenges, c # r.chal, Live(c) PROVE Kept(c)
  <2>1. chal'[c] = chal[c] BY <1>9, <1>11
  <2>2. ASSUME NEW f \in Flags,
               \/ flag[f].state = "live" /\ flag[f].chal = c
               \/ flag'[f].state = "live" /\ flag'[f].chal = c
        PROVE  flag'[f] = flag[f]
    <3>1. flag'[f] = IF f \in FlagsOf(r.chal) THEN GoneFlag ELSE flag[f] BY <1>3
    <3> QED BY <1>10, <1>11, <2>2, <3>1 DEF FlagsOf
  <2> QED BY <1>3, <1>11, <2>1, <2>2 DEF Kept, Live
<1>12. \A c \in Challenges : DefinitionLock(c) \in Held[q] => c # r.chal BY <1>6
<1>13. \A c \in Challenges : Row(c) \in Held[q] => c # r.chal BY <1>6
<1>14. \A c \in Challenges : chal'[c].state = "live" => c # r.chal BY <1>8, <1>9
<1> QED BY <1>3, <1>7, <1>9, <1>11, <1>12, <1>13, <1>14 DEF Undisturbed, Live

\* A step that only writes one flag, with the definitions locked that it leaves and
\* that it joins.
LEMMA FlagUndisturbs ==
  ASSUME IInv, NEW p \in Requests, NEW q \in Requests, p # q,
         NEW f \in Flags, NEW row, flag' = [flag EXCEPT ![f] = row],
         req'[q] = req[q], UNCHANGED <<cat, chal, alloc, inst>>,
         flag[f].state = "live" => DefinitionLock(flag[f].chal) \in Held[p],
         row.state = "live" => DefinitionLock(row.chal) \in Held[p]
  PROVE  Undisturbed(q)
<1>1. flag \in [Flags -> FlagRow] BY DEF IInv, DataOK, FlagsOK
<1>2. \A g \in Flags : flag'[g] = IF g = f THEN row ELSE flag[g] BY <1>1
<1>3. \A c : DefinitionLock(c) \in Held[p] => DefinitionLock(c) \notin Held[q]
  BY ShutsOut DEF IInv
<1>4. ASSUME NEW c \in Challenges, DefinitionLock(c) \in Held[q], Live(c) PROVE Kept(c)
  BY <1>2, <1>3, <1>4 DEF Kept, Live
<1> QED BY <1>4 DEF Undisturbed, Live

LEMMA FlagStepUndisturbs ==
  ASSUME IInv, NEW p \in Requests, NEW q \in Requests, p # q,
         CreateFlag(p) \/ UpdateFlag(p) \/ DeleteFlag(p)
  PROVE  Undisturbed(q)
<1>1. PICK r : r = req[p] OBVIOUS
<1>2. req' = [req EXCEPT ![p] = Idle] /\ UNCHANGED <<cat, chal, alloc, inst>> /\ r.pc = "writing"
  BY <1>1 DEF CreateFlag, UpdateFlag, DeleteFlag, Done, Writes
<1>3. req'[q] = req[q] BY <1>2, OthersKept DEF IInv
<1>4. /\ WellFormed(r) /\ Needed(r) \subseteq Held[p] /\ Decided(r)
      /\ flag \in [Flags -> FlagRow]
  BY <1>1, <1>2, Writer
<1>5. CASE CreateFlag(p)
  <2>1. PICK row : row = NewFlag(r.chal, r.arg) OBVIOUS
  <2>2. r.op = "create_flag" /\ flag[r.flag].state = "none" /\ flag' = [flag EXCEPT ![r.flag] = row]
    BY <1>1, <1>5, <2>1 DEF CreateFlag, Writes
  <2>3. r.flag \in Flags BY <1>4, <2>2 DEF WellFormed, FlagOps
  <2>4. DefinitionLock(r.chal) \in Held[p] /\ row.chal = r.chal BY <1>4, <2>1, <2>2 DEF Needed, NewFlag
  <2> QED BY <1>2, <1>3, <2>2, <2>3, <2>4, FlagUndisturbs
<1>6. CASE UpdateFlag(p)
  <2>1. PICK row : row = Redefined(r) OBVIOUS
  <2>2. r.op = "update_flag" BY <1>1, <1>6 DEF UpdateFlag, Writes
  <2>3. r.flag \in Flags BY <1>4, <2>2 DEF WellFormed, FlagOps
  <2>4. flag' = [flag EXCEPT ![r.flag] = row] BY <1>1, <1>6, <2>1 DEF UpdateFlag
  <2>5. flag[r.flag].chal = r.from BY <1>4, <2>2 DEF Decided, MayUpdateFlag
  <2>6. DefinitionLock(r.chal) \in Held[p] /\ DefinitionLock(r.from) \in Held[p] /\ row.chal = r.chal
    BY <1>4, <2>1, <2>2 DEF Needed, Redefined
  <2> QED BY <1>2, <1>3, <2>3, <2>4, <2>5, <2>6, FlagUndisturbs
<1>7. CASE DeleteFlag(p)
  <2>1. r.op = "delete_flag" /\ flag' = [flag EXCEPT ![r.flag] = GoneFlag]
    BY <1>1, <1>7 DEF DeleteFlag, Writes
  <2>2. r.flag \in Flags BY <1>4, <2>1 DEF WellFormed, FlagOps
  <2>3. flag[r.flag].chal = r.from /\ DefinitionLock(r.from) \in Held[p]
    BY <1>4, <2>1 DEF Decided, MayDeleteFlag, Needed
  <2>4. GoneFlag.state = "gone" BY DEF GoneFlag, NoFlag
  <2> QED BY <1>2, <1>3, <2>1, <2>2, <2>3, <2>4, FlagUndisturbs
<1> QED BY <1>5, <1>6, <1>7

\* A launch hands out what belongs to the challenge it has locked.
LEMMA LaunchUndisturbs ==
  ASSUME IInv, NEW p \in Requests, NEW q \in Requests, p # q, Launch(p)
  PROVE  Undisturbed(q)
<1>1. PICK r : r = req[p] OBVIOUS
<1>2. PICK a : a = [flag |-> r.pick.flag, chal |-> r.chal, user |-> r.user,
                    revision |-> r.pick.revision, mask |-> r.pick.mask] OBVIOUS
<1>3. PICK i : i = [user |-> r.user, chal |-> r.chal, flag |-> r.pick.flag,
                    revision |-> r.pick.revision] OBVIOUS
<1>4. /\ r.pc = "writing" /\ r.op = "launch" /\ req' = [req EXCEPT ![p] = Idle]
      /\ alloc' = alloc \/ (r.pick.flag # None /\ alloc' = alloc \cup {a})
      /\ inst' = inst \cup {i} /\ UNCHANGED <<cat, chal, flag>>
  BY <1>1, <1>2, <1>3 DEF Launch, Writes, Done
<1>5. Needed(r) \subseteq Held[p] /\ Decided(r) BY <1>1, <1>4, Writer
<1>6. r.pick.flag # None => r.pick.flag \in FlagsOf(r.chal)
  BY <1>4, <1>5 DEF Decided, GeneratedFlag, Generated
<1>7. DefinitionLock(r.chal) \notin Held[q] BY <1>4, <1>5, ShutsOut DEF IInv, Needed
<1>8. req'[q] = req[q] BY <1>4, OthersKept DEF IInv
<1>9. a.chal = r.chal /\ a.flag = r.pick.flag /\ i.chal = r.chal BY <1>2, <1>3
<1>10. ASSUME NEW c \in Challenges, DefinitionLock(c) \in Held[q], Live(c) PROVE Kept(c)
  <2>1. c # r.chal BY <1>7, <1>10
  <2>2. \A x \in inst' : x.chal = c => x \in inst BY <1>4, <1>9, <2>1
  <2>3. \A x \in alloc' : x.chal = c \/ x.flag \in FlagsOf(c) => x \in alloc
    BY <1>4, <1>6, <1>9, <2>1 DEF FlagsOf
  <2> QED BY <1>4, <1>10, <2>2, <2>3 DEF Kept, Live
<1> QED BY <1>4, <1>8, <1>10 DEF Undisturbed, Live

LEMMA DeleteCategoryUndisturbs ==
  ASSUME IInv, NEW p \in Requests, NEW q \in Requests, p # q, DeleteCategory(p)
  PROVE  Undisturbed(q)
<1>1. PICK r : r = req[p] OBVIOUS
<1>2. /\ r.pc = "writing" /\ r.op = "delete_category" /\ cat' = [cat EXCEPT ![r.cat] = "gone"]
      /\ req' = [req EXCEPT ![p] = Idle] /\ UNCHANGED <<chal, flag, alloc, inst>>
  BY <1>1 DEF DeleteCategory, Writes, Done
<1>3. Needed(r) \subseteq Held[p] /\ cat \in [Categories -> {"live", "gone"}] BY <1>1, <1>2, Writer
<1>4. Category(r.cat) \notin Held[q] BY <1>2, <1>3, ShutsOut DEF IInv, Needed, Category
<1>5. req'[q] = req[q] BY <1>2, OthersKept DEF IInv
<1>6. \A g \in Categories : g # r.cat => cat'[g] = cat[g] BY <1>2, <1>3
<1>7. \A g \in Categories : Category(g) \in Held[q] => g # r.cat BY <1>4
<1>8. \A c \in Challenges : Live(c) => Kept(c) BY <1>2 DEF Kept, Live
<1> QED BY <1>2, <1>5, <1>6, <1>7, <1>8 DEF Undisturbed, Live

\* Whatever another transaction does, what q has locked stays.
LEMMA StepUndisturbs ==
  ASSUME IInv, NEW p \in Requests, NEW q \in Requests, p # q, Step(p)
  PROVE  Undisturbed(q)
<1>1. CASE Calm(p)
  <2>1. UNCHANGED <<cat, chal, flag, alloc, inst>> /\ \E r : req' = [req EXCEPT ![p] = r]
    BY <1>1, CalmSteps
  <2>2. req'[q] = req[q] BY <2>1, OthersKept DEF IInv
  <2> QED BY <2>1, <2>2, QuietStep
<1>2. CASE Create(p) BY <1>2, CreateUndisturbs
<1>3. CASE Update(p) BY <1>3, UpdateUndisturbs
<1>4. CASE Delete(p) BY <1>4, DeleteUndisturbs
<1>5. CASE PutRuntime(p) BY <1>5, PutRuntimeUndisturbs
<1>6. CASE CreateFlag(p) \/ UpdateFlag(p) \/ DeleteFlag(p) BY <1>6, FlagStepUndisturbs
<1>7. CASE Launch(p) BY <1>7, LaunchUndisturbs
<1>8. CASE DeleteCategory(p) BY <1>8, DeleteCategoryUndisturbs
<1> QED BY <1>1, <1>2, <1>3, <1>4, <1>5, <1>6, <1>7, <1>8 DEF Step, Calm

\* An instance that ends and a change of mode disturb nobody.
LEMMA OutsideUndisturbs ==
  ASSUME IInv, InstanceStops \/ ClearAllocations, NEW q \in Requests
  PROVE  Undisturbed(q)
<1>1. UNCHANGED <<cat, chal, flag, req>> /\ inst' \subseteq inst /\ alloc' \subseteq alloc
  BY DEF InstanceStops, ClearAllocations
<1> QED BY <1>1, QuietStep

\* The flags of a challenge whose definition is locked.
LEMMA KeptFlags ==
  ASSUME NEW c \in Challenges, Kept(c), FlagsOK
  PROVE  /\ FlagsOf(c)' = FlagsOf(c) /\ Generated(c)' = Generated(c)
         /\ GeneratedFlag(c)' = GeneratedFlag(c)
         /\ \A f \in FlagsOf(c) : flag'[f] = flag[f] /\ (~Allocated(f) => ~Allocated(f)')
         /\ Live(c)' /\ (Private(c)' <=> Private(c)) /\ (~Running(c) => ~Running(c)')
<1>1. \A f \in Flags : f \in FlagsOf(c)' <=> f \in FlagsOf(c) BY DEF Kept, FlagsOf
<1>2. FlagsOf(c)' = FlagsOf(c)
  <2>1. FlagsOf(c) \subseteq Flags /\ FlagsOf(c)' \subseteq Flags BY DEF FlagsOf
  <2> QED BY <1>1, <2>1
<1>3. \A f \in FlagsOf(c) : flag'[f] = flag[f] BY DEF Kept, FlagsOf
<1>4. Generated(c)' = Generated(c) BY <1>2, <1>3 DEF Generated
<1>5. GeneratedFlag(c)' = GeneratedFlag(c) BY <1>4 DEF GeneratedFlag
<1>6. \A f \in FlagsOf(c) : ~Allocated(f) => ~Allocated(f)' BY DEF Kept, Allocated
<1> QED BY <1>2, <1>3, <1>4, <1>5, <1>6 DEF Kept, Live, Private, Running

\* What a bystander checked is still true.
LEMMA BystanderDecided ==
  ASSUME IInv, NEW q \in Requests, Undisturbed(q), req[q].pc = "writing"
  PROVE  Decided(req[q])'
<1>1. PICK r : r = req[q] OBVIOUS
<1>2. req'[q] = r BY <1>1 DEF Undisturbed
<1>3. /\ WellFormed(r) /\ Needed(r) \subseteq Held[q] /\ Decided(r) /\ r.op \in Ops
      /\ \A c \in Challenges : Live(c) => chal[c].def \in Definition
  BY <1>1, Writer DEF WellFormed
<1>4. FlagsOK BY DEF IInv, DataOK
<1>5. ASSUME NEW c \in Challenges, DefinitionLock(c) \in Held[q], Live(c)
      PROVE  /\ Kept(c)
             /\ FlagsOf(c)' = FlagsOf(c) /\ Generated(c)' = Generated(c)
             /\ GeneratedFlag(c)' = GeneratedFlag(c)
             /\ \A f \in FlagsOf(c) : flag'[f] = flag[f] /\ (~Allocated(f) => ~Allocated(f)')
             /\ Live(c)' /\ (Private(c)' <=> Private(c)) /\ (~Running(c) => ~Running(c)')
  <2>1. Kept(c) BY <1>5 DEF Undisturbed
  <2> QED BY <1>4, <2>1, KeptFlags
<1>6. r.op \in {"create", "update"} => cat'[r.arg.def.cat] = "live"
  <2> SUFFICES ASSUME r.op \in {"create", "update"} PROVE cat'[r.arg.def.cat] = "live" OBVIOUS
  <2>1. r.arg.def \in Definition BY <1>3 DEF WellFormed, NewDefinitions
  <2>2. r.arg.def.cat \in Categories BY <2>1, DefinitionFields
  <2>3. Category(r.arg.def.cat) \in Held[q] BY <1>3 DEF Needed
  <2> QED BY <1>3, <2>2, <2>3 DEF Undisturbed, Decided
<1>7. ASSUME r.op = "update"
      PROVE  /\ Live(r.chal)'
             /\ r.arg.def.exposure # chal'[r.chal].def.exposure =>
                  ~Running(r.chal)' /\ (r.arg.def.exposure = "public" => Generated(r.chal)' = {})
             /\ Published(r.arg.def) => chal'[r.chal].def.runtime = TRUE
  <2>1. r.chal \in Challenges /\ Live(r.chal) BY <1>3, <1>7 DEF WellFormed, ChalOps, Decided
  <2>2. Row(r.chal) \in Held[q] /\ DefinitionLock(r.chal) \in Held[q] BY <1>3, <1>7 DEF Needed
  <2>3. chal'[r.chal] = chal[r.chal] BY <2>1, <2>2 DEF Undisturbed
  <2>4. /\ Generated(r.chal)' = Generated(r.chal) /\ (~Running(r.chal) => ~Running(r.chal)')
        /\ Live(r.chal)'
    BY <1>5, <2>1, <2>2
  <2> QED BY <1>3, <1>7, <2>3, <2>4 DEF Decided
<1>8. r.op = "delete" => MayDelete(r)'
  <2> SUFFICES ASSUME r.op = "delete" PROVE MayDelete(r)' OBVIOUS
  <2>1. r.chal \in Challenges /\ MayDelete(r) BY <1>3 DEF WellFormed, ChalOps, Decided
  <2>2. DefinitionLock(r.chal) \in Held[q] /\ Live(r.chal) BY <1>3, <2>1 DEF Needed, MayDelete
  <2>3. Kept(r.chal) /\ Live(r.chal)' /\ ~Running(r.chal)' BY <1>5, <2>1, <2>2 DEF MayDelete
  <2>4. \A a \in alloc' : a.chal # r.chal BY <2>1, <2>3 DEF Kept, MayDelete
  <2> QED BY <2>3, <2>4 DEF MayDelete
<1>9. r.op = "put_runtime" => MayPutRuntime(r)'
  <2> SUFFICES ASSUME r.op = "put_runtime" PROVE MayPutRuntime(r)' OBVIOUS
  <2>1. r.chal \in Challenges /\ MayPutRuntime(r) BY <1>3 DEF WellFormed, ChalOps, Decided
  <2>2. Row(r.chal) \in Held[q] BY <1>3 DEF Needed
  <2>3. chal'[r.chal] = chal[r.chal] BY <2>1, <2>2 DEF Undisturbed, MayPutRuntime
  <2> QED BY <2>1, <2>3 DEF MayPutRuntime, Live, Private
<1>10. r.op = "create_flag" => MayCreateFlag(r)'
  <2> SUFFICES ASSUME r.op = "create_flag" PROVE MayCreateFlag(r)' OBVIOUS
  <2>1. r.chal \in Challenges /\ MayCreateFlag(r) BY <1>3 DEF WellFormed, ChalOps, Decided
  <2>2. DefinitionLock(r.chal) \in Held[q] BY <1>3 DEF Needed
  <2>3. Live(r.chal)' /\ (Private(r.chal)' <=> Private(r.chal)) /\ ~Running(r.chal)'
    BY <1>5, <2>1, <2>2 DEF MayCreateFlag
  <2> QED BY <2>1, <2>3 DEF MayCreateFlag, TypeFits
<1>11. r.op = "update_flag" => MayUpdateFlag(r)'
  <2> SUFFICES ASSUME r.op = "update_flag" PROVE MayUpdateFlag(r)' OBVIOUS
  <2>1. r.chal \in Challenges /\ r.from \in Challenges /\ r.flag \in Flags /\ MayUpdateFlag(r)
    BY <1>3 DEF WellFormed, ChalOps, FlagOps, Decided
  <2>2. DefinitionLock(r.chal) \in Held[q] /\ DefinitionLock(r.from) \in Held[q] BY <1>3 DEF Needed
  <2>3. Live(r.from) /\ r.flag \in FlagsOf(r.from) /\ Live(r.chal)
    BY <1>4, <2>1 DEF MayUpdateFlag, FlagsOK, FlagsOf
  <2>4. /\ Live(r.chal)' /\ (Private(r.chal)' <=> Private(r.chal)) /\ (~Running(r.chal) => ~Running(r.chal)')
        /\ (~Running(r.from) => ~Running(r.from)') /\ FlagsOf(r.from)' = FlagsOf(r.from)
        /\ flag'[r.flag] = flag[r.flag] /\ (~Allocated(r.flag) => ~Allocated(r.flag)')
    BY <1>5, <2>1, <2>2, <2>3
  <2>5. Changes(r)' <=> Changes(r) BY <2>4 DEF Changes
  <2> QED BY <2>1, <2>4, <2>5 DEF MayUpdateFlag, TypeFits
<1>12. r.op = "delete_flag" => MayDeleteFlag(r)'
  <2> SUFFICES ASSUME r.op = "delete_flag" PROVE MayDeleteFlag(r)' OBVIOUS
  <2>1. r.from \in Challenges /\ r.flag \in Flags /\ MayDeleteFlag(r)
    BY <1>3 DEF WellFormed, FlagOps, Decided
  <2>2. DefinitionLock(r.from) \in Held[q] BY <1>3 DEF Needed
  <2>3. Live(r.from) /\ r.flag \in FlagsOf(r.from)
    BY <1>4, <2>1 DEF MayDeleteFlag, FlagsOK, FlagsOf
  <2>4. /\ (~Running(r.from) => ~Running(r.from)') /\ FlagsOf(r.from)' = FlagsOf(r.from)
        /\ flag'[r.flag] = flag[r.flag] /\ (~Allocated(r.flag) => ~Allocated(r.flag)')
    BY <1>5, <2>1, <2>2, <2>3
  <2> QED BY <2>1, <2>4 DEF MayDeleteFlag
<1>13. ASSUME r.op = "launch"
       PROVE  /\ Live(r.chal)' /\ Private(r.chal)' /\ r.pick.flag = GeneratedFlag(r.chal)'
              /\ r.pick.flag # None =>
                   /\ r.pick.revision = flag'[r.pick.flag].revision
                   /\ \A a \in alloc' : a.flag = r.pick.flag /\ a.mask = r.pick.mask => a.user = r.user
  <2>1. r.chal \in Challenges /\ Live(r.chal) /\ Private(r.chal) /\ r.pick.flag = GeneratedFlag(r.chal)
    BY <1>3, <1>13 DEF WellFormed, ChalOps, Decided
  <2>2. DefinitionLock(r.chal) \in Held[q] BY <1>3, <1>13 DEF Needed
  <2>3. /\ Kept(r.chal) /\ Live(r.chal)' /\ (Private(r.chal)' <=> Private(r.chal))
        /\ GeneratedFlag(r.chal)' = GeneratedFlag(r.chal)
        /\ \A f \in FlagsOf(r.chal) : flag'[f] = flag[f]
    BY <1>5, <2>1, <2>2
  <2>4. r.pick.flag # None => r.pick.flag \in FlagsOf(r.chal)
    BY <2>1 DEF GeneratedFlag, Generated
  <2>5. r.pick.flag # None => \A a \in alloc' : a.flag = r.pick.flag => a \in alloc
    BY <2>3, <2>4 DEF Kept
  <2> QED BY <1>3, <1>13, <2>1, <2>3, <2>4, <2>5 DEF Decided
<1>14. r.op = "delete_category" => \A c \in Challenges : Live(c)' => chal'[c].def.cat # r.cat
  <2> SUFFICES ASSUME r.op = "delete_category"
               PROVE  \A c \in Challenges : Live(c)' => chal'[c].def.cat # r.cat
    OBVIOUS
  <2>1. r.cat \in Categories /\ ForUpdate("category", r.cat) \in Held[q]
    BY <1>3 DEF WellFormed, Needed
  <2> QED BY <1>3, <2>1 DEF Undisturbed, Decided, Live
<1>15. Decided(r)'
  BY <1>6, <1>7, <1>8, <1>9, <1>10, <1>11, <1>12, <1>13, <1>14 DEF Decided
<1> QED BY <1>2, <1>15

----------------------------------------------------------------------------
(* The transaction that takes a step *)

\* What its new request has to satisfy.
Moved(p) ==
    /\ \E r : req' = [req EXCEPT ![p] = r]
    /\ IsRequest(req'[p])
    /\ req'[p].pc = "idle" => req'[p].taken = 0
    /\ req'[p].pc # "idle" => WellFormed(req'[p]) /\ req'[p].taken <= Len(Locks(req'[p]))
    /\ req'[p].pc = "writing" => req'[p].taken = Len(Locks(req'[p])) /\ Decided(req[p])'
    /\ Exclusion(Held')

\* The locks of the others stay as they are.
LEMMA BystanderLocks ==
  ASSUME IInv, NEW p \in Requests, NEW r, req' = [req EXCEPT ![p] = r]
  PROVE  /\ req'[p] = r /\ Held'[p] = Taken(Locks(r), r.taken)
         /\ \A q \in Requests \ {p} : req'[q] = req[q] /\ Held'[q] = Held[q]
         /\ DOMAIN Held = Requests /\ DOMAIN Held' = Requests
<1>1. req'[p] = r /\ \A q \in Requests \ {p} : req'[q] = req[q]
  BY DEF IInv, RequestsTyped
<1> QED BY <1>1 DEF Held

\* Giving locks back keeps them exclusive.
LEMMA Released ==
  ASSUME IInv, NEW p \in Requests, NEW r, req' = [req EXCEPT ![p] = r],
         Taken(Locks(r), r.taken) \subseteq Held[p]
  PROVE  Exclusion(Held')
<1>1. /\ Held'[p] = Taken(Locks(r), r.taken) /\ \A q \in Requests \ {p} : Held'[q] = Held[q]
      /\ DOMAIN Held = Requests /\ DOMAIN Held' = Requests
  BY BystanderLocks
<1>2. Exclusion(Held) BY DEF IInv, ExclusiveLocks
<1> HIDE DEF Held
<1>3. \A q \in Requests : Held'[q] \subseteq Held[q] BY <1>1
<1> QED BY <1>1, <1>2, <1>3, ReleaseKeepsExclusion

\* A transaction that commits, is refused or rolls back.
LEMMA EndMoves ==
  ASSUME IInv, NEW p \in Requests, req' = [req EXCEPT ![p] = Idle]
  PROVE  Moved(p)
<1>1. req'[p] = Idle BY BystanderLocks
<1>2. Idle.pc = "idle" /\ Idle.taken = 0 /\ IsRequest(Idle) BY DEF Idle, IsRequest
<1>3. Taken(Locks(Idle), Idle.taken) = {} BY <1>2, TakenNone
<1>4. Exclusion(Held') BY <1>3, Released
<1> QED BY <1>1, <1>2, <1>4 DEF Moved

\* The next lock.
LEMMA TakeMoves ==
  ASSUME IInv, NEW p \in Requests, TakeLock(p)
  PROVE  Moved(p)
<1>1. PICK r : r = req[p] OBVIOUS
<1>2. PICK n : n = [r EXCEPT !.taken = @ + 1] OBVIOUS
<1>3. /\ r.pc = "locking" /\ r.taken # Len(Locks(r)) /\ MayTake(Held, p, Locks(r)[r.taken + 1])
      /\ req' = [req EXCEPT ![p] = n]
  BY <1>1, <1>2 DEF TakeLock, AllTaken
<1>4. IsRequest(r) /\ WellFormed(r) /\ r.taken \in Nat /\ Held[p] = Taken(Locks(r), r.taken)
  BY <1>1, <1>3, RequestFields DEF IInv
<1>5. n = [pc |-> r.pc, op |-> r.op, user |-> r.user, chal |-> r.chal, flag |-> r.flag,
           cat |-> r.cat, key |-> r.key, arg |-> r.arg, from |-> r.from, pick |-> r.pick,
           taken |-> r.taken + 1]
  <2>1. r = [pc |-> r.pc, op |-> r.op, user |-> r.user, chal |-> r.chal, flag |-> r.flag,
             cat |-> r.cat, key |-> r.key, arg |-> r.arg, from |-> r.from, pick |-> r.pick,
             taken |-> r.taken]
    BY <1>4 DEF IsRequest
  <2> QED BY <1>2, <2>1
<1>6. /\ n.pc = "locking" /\ n.op = r.op /\ n.user = r.user /\ n.chal = r.chal /\ n.flag = r.flag
      /\ n.cat = r.cat /\ n.key = r.key /\ n.arg = r.arg /\ n.from = r.from /\ n.pick = r.pick
      /\ n.taken = r.taken + 1
  BY <1>3, <1>5
<1>7. IsRequest(n) BY <1>4, <1>5, <1>6 DEF IsRequest
<1>8. WellFormed(n) BY <1>4, <1>6 DEF WellFormed
<1>9. Locks(n) = Locks(r)
  BY <1>6 DEF Locks, CreateLocks, UpdateLocks, DeleteLocks, PutRuntimeLocks, CreateFlagLocks,
              UpdateFlagLocks, DeleteFlagLocks, LaunchLocks
<1>10. n.taken <= Len(Locks(n))
  <2>1. r.taken <= Len(Locks(r)) BY <1>1, <1>3 DEF IInv, LocksTaken
  <2>2. Len(Locks(r)) \in Nat BY <1>4, LocksShape
  <2> QED BY <1>3, <1>4, <1>6, <1>9, <2>1, <2>2
<1>11. Exclusion(Held')
  <2>1. /\ req'[p] = n /\ Held'[p] = Taken(Locks(n), n.taken)
        /\ \A q \in Requests \ {p} : Held'[q] = Held[q]
        /\ DOMAIN Held = Requests /\ DOMAIN Held' = Requests
    BY <1>3, BystanderLocks
  <2>2. Held'[p] = Held[p] \cup {Locks(r)[r.taken + 1]} BY <1>4, <1>6, <1>9, <2>1, TakenNext
  <2>3. Exclusion(Held) BY DEF IInv, ExclusiveLocks
  <2> HIDE DEF Held
  <2>4. \A q \in Requests :
           Held'[q] \subseteq Held[q] \cup (IF q = p THEN {Locks(r)[r.taken + 1]} ELSE {})
    BY <2>1, <2>2
  <2> QED BY <1>3, <2>1, <2>3, <2>4, TakeKeepsExclusion
<1>12. req'[p] = n BY <1>3, BystanderLocks
<1> QED BY <1>3, <1>6, <1>7, <1>8, <1>10, <1>11, <1>12 DEF Moved

\* A set of variations that is not exhausted has a next one.
LEMMA NextMaskIsNew ==
  ASSUME NEW f, IsFiniteSet(Masks(f)), Cardinality(Masks(f)) < Capacity
  PROVE  NextMask(f) \in 1..Capacity \ Masks(f)
<1> DEFINE T == 1..Capacity \ Masks(f)
<1>1. Capacity \in Nat BY DefinitionsAssumption
<1>2. T # {}
  <2> SUFFICES ASSUME T = {} PROVE FALSE OBVIOUS
  <2>1. 1..Capacity \subseteq Masks(f) OBVIOUS
  <2>2. IsFiniteSet(1..Capacity) /\ Cardinality(1..Capacity) = Capacity
    <3>1. Cardinality(1..Capacity) = IF 1 > Capacity THEN 0 ELSE Capacity - 1 + 1
      BY <1>1, FS_Interval
    <3>2. IsFiniteSet(1..Capacity) BY <1>1, FS_Interval
    <3> QED BY <1>1, <3>1, <3>2
  <2>3. Cardinality(1..Capacity) <= Cardinality(Masks(f)) BY <2>1, FS_Subset
  <2>4. Cardinality(Masks(f)) \in Nat BY FS_CardinalityType
  <2> QED BY <1>1, <2>2, <2>3, <2>4
<1>3. \E m \in T : \A n \in T : m <= n
  <2>1. T \subseteq Nat BY <1>1
  <2> HIDE DEF T
  <2>2. PICK m \in T : \A n \in T : ~(<<n, m>> \in OpToRel(<, Nat))
    BY <1>2, <2>1, NatLessThanWellFounded, WFMin
  <2>3. ASSUME NEW n \in T PROVE m <= n
    <3>1. n \in Nat /\ m \in Nat BY <2>1
    <3>2. ~(n < m) BY <2>2, <3>1 DEF OpToRel
    <3> QED BY <3>1, <3>2
  <2> QED BY <2>3
<1> QED BY <1>3 DEF NextMask

\* What a launch picks is still to be had.
LEMMA PickedIsFree ==
  ASSUME IInv, NEW r, WellFormed(r), r.op = "launch", MayLaunch(r)
  PROVE  LET x == Picked(r) IN
         /\ x.flag = GeneratedFlag(r.chal)
         /\ x.flag # None =>
              /\ x.revision = flag[x.flag].revision
              /\ \A a \in alloc : a.flag = x.flag /\ a.mask = x.mask => a.user = r.user
<1>1. PICK f : f = GeneratedFlag(r.chal) OBVIOUS
<1>2. PICK x : x = Picked(r) OBVIOUS
<1>3. CASE f = None BY <1>1, <1>2, <1>3 DEF Picked
<1>4. CASE f # None /\ OwnAllocation(r.user, f) = {}
  <2>1. x = [flag |-> f, revision |-> flag[f].revision, mask |-> NextMask(f)]
    BY <1>1, <1>2, <1>4 DEF Picked
  <2>2. IsFiniteSet(Masks(f))
    <3>1. IsFiniteSet(alloc) BY DEF IInv, DataOK, HandedOutOK
    <3>2. IsFiniteSet({y \in alloc : y.flag = f}) BY <3>1, FS_Subset
    <3> DEFINE S == {y \in alloc : y.flag = f}
    <3> DEFINE g == [y \in S |-> y.mask]
    <3>3. Masks(f) = {y.mask : y \in S} BY DEF Masks
    <3>4. g \in Surjection(S, Masks(f)) BY <3>3 DEF Surjection
    <3> HIDE DEF S, g
    <3> QED BY <3>2, <3>4, FS_Surjection DEF S
  <2>3. Cardinality(Masks(f)) < Capacity BY <1>1, <1>4 DEF MayLaunch
  <2>4. NextMask(f) \notin Masks(f) BY <2>2, <2>3, NextMaskIsNew
  <2>5. \A a \in alloc : a.flag = f => a.mask # NextMask(f) BY <2>4 DEF Masks
  <2> QED BY <1>1, <1>2, <2>1, <2>5
<1>5. CASE f # None /\ OwnAllocation(r.user, f) # {}
  <2>1. PICK own : own = CHOOSE a \in OwnAllocation(r.user, f) : TRUE OBVIOUS
  <2>2. own \in OwnAllocation(r.user, f) BY <1>5, <2>1
  <2>3. x = [flag |-> f, revision |-> flag[f].revision, mask |-> own.mask]
    BY <1>1, <1>2, <1>5, <2>1 DEF Picked
  <2>4. own \in alloc /\ own.flag = f /\ own.user = r.user BY <2>2 DEF OwnAllocation
  <2>5. \A a \in alloc : a.flag = f /\ a.mask = own.mask => a.user = r.user
    BY <2>4 DEF IInv, DataOK, HandedOutOK, VariationsAreUnique
  <2> QED BY <1>1, <1>2, <2>3, <2>5
<1> QED BY <1>3, <1>4, <1>5

\* A decision does not depend on anything but the tables.
LEMMA DecidedSame ==
  ASSUME NEW r, UNCHANGED tables, Decided(r)
  PROVE  Decided(r)'
<1>1. chal' = chal /\ flag' = flag /\ cat' = cat /\ alloc' = alloc /\ inst' = inst /\ gate' = gate
  BY DEF tables
<1>2. \A c : /\ FlagsOf(c)' = FlagsOf(c) /\ Generated(c)' = Generated(c)
             /\ (Live(c)' <=> Live(c)) /\ (Private(c)' <=> Private(c)) /\ (Running(c)' <=> Running(c))
  BY <1>1 DEF FlagsOf, Generated, Live, Private, Running
<1>3. ASSUME NEW c PROVE GeneratedFlag(c)' = GeneratedFlag(c)
  <2>1. Generated(c)' = Generated(c) BY <1>2
  <2> QED BY <2>1 DEF GeneratedFlag
<1>4. \A f : Allocated(f)' <=> Allocated(f) BY <1>1 DEF Allocated
<1>5. /\ MayDelete(r)' <=> MayDelete(r)
      /\ MayPutRuntime(r)' <=> MayPutRuntime(r)
      /\ MayCreateFlag(r)' <=> MayCreateFlag(r)
  BY <1>1, <1>2 DEF MayDelete, MayPutRuntime, MayCreateFlag, TypeFits
<1>6. /\ MayUpdateFlag(r)' <=> MayUpdateFlag(r)
      /\ MayDeleteFlag(r)' <=> MayDeleteFlag(r)
  BY <1>1, <1>2, <1>4 DEF MayUpdateFlag, MayDeleteFlag, TypeFits, Changes
<1> QED BY <1>1, <1>2, <1>3, <1>5, <1>6 DEF Decided

\* What is permitted is decided.
LEMMA PermittedDecides ==
  ASSUME IInv, NEW r, WellFormed(r), Permitted(r), NEW n,
         n.op = r.op, n.user = r.user, n.chal = r.chal, n.flag = r.flag, n.cat = r.cat,
         n.arg = r.arg, n.from = r.from, r.op = "launch" => n.pick = Picked(r)
  PROVE  Decided(n)
<1>1. r.op = "create" => MayCreate(r) BY DEF Permitted
<1>2. r.op = "update" => MayUpdate(r) BY DEF Permitted
<1>3. r.op = "delete" => MayDelete(r) BY DEF Permitted
<1>4. r.op = "put_runtime" => MayPutRuntime(r) BY DEF Permitted
<1>5. r.op = "create_flag" => MayCreateFlag(r) BY DEF Permitted
<1>6. r.op = "update_flag" => MayUpdateFlag(r) BY DEF Permitted
<1>7. r.op = "delete_flag" => MayDeleteFlag(r) BY DEF Permitted
<1>8. r.op = "launch" => MayLaunch(r) BY DEF Permitted
<1>9. r.op = "delete_category" => \A c \in Challenges : Live(c) => chal[c].def.cat # r.cat
  BY DEF Permitted
<1>10. r.op \in {"create", "update"} => cat[r.arg.def.cat] = "live"
  BY <1>1, <1>2 DEF MayCreate, MayUpdate
<1>11. r.op = "delete" => MayDelete(n) BY <1>3 DEF MayDelete
<1>12. r.op = "put_runtime" => MayPutRuntime(n) BY <1>4 DEF MayPutRuntime
<1>13. r.op = "create_flag" => MayCreateFlag(n) BY <1>5 DEF MayCreateFlag
<1>14. r.op = "update_flag" => MayUpdateFlag(n) BY <1>6 DEF MayUpdateFlag, Changes
<1>15. r.op = "delete_flag" => MayDeleteFlag(n) BY <1>7 DEF MayDeleteFlag
<1>16. ASSUME r.op = "launch"
       PROVE  /\ Live(r.chal) /\ Private(r.chal) /\ n.pick.flag = GeneratedFlag(r.chal)
              /\ n.pick.flag # None =>
                   /\ n.pick.revision = flag[n.pick.flag].revision
                   /\ \A a \in alloc : a.flag = n.pick.flag /\ a.mask = n.pick.mask => a.user = r.user
  <2>1. Live(r.chal) /\ Private(r.chal) BY <1>8, <1>16 DEF MayLaunch, Published, Private
  <2> QED BY <1>8, <1>16, <2>1, PickedIsFree
<1>17. ASSUME r.op = "update"
       PROVE  /\ Live(r.chal)
              /\ r.arg.def.exposure # chal[r.chal].def.exposure =>
                   ~Running(r.chal) /\ (r.arg.def.exposure = "public" => Generated(r.chal) = {})
              /\ Published(r.arg.def) => chal[r.chal].def.runtime = TRUE
  BY <1>2, <1>17 DEF MayUpdate
<1> QED BY <1>9, <1>10, <1>11, <1>12, <1>13, <1>14, <1>15, <1>16, <1>17 DEF Decided

\* The step that reads and decides.
LEMMA CheckMoves ==
  ASSUME IInv, NEW p \in Requests, Check(p)
  PROVE  Moved(p)
<1>1. PICK r : r = req[p] OBVIOUS
<1>2. PICK k : k = IF r.op = "launch" THEN Picked(r) ELSE None OBVIOUS
<1>3. PICK n : n = [r EXCEPT !.pc = "writing", !.pick = k] OBVIOUS
<1>4. /\ r.pc = "locking" /\ r.taken = Len(Locks(r)) /\ UNCHANGED tables
      /\ req' = [req EXCEPT ![p] = IF ~Permitted(r) THEN Idle ELSE n]
  BY <1>1, <1>2, <1>3 DEF Check, AllTaken
<1>5. CASE ~Permitted(r) BY <1>4, <1>5, EndMoves
<1>6. CASE Permitted(r)
  <2>1. req' = [req EXCEPT ![p] = n] BY <1>4, <1>6
  <2>2. IsRequest(r) /\ WellFormed(r) /\ r.taken \in Nat /\ Held[p] = Taken(Locks(r), r.taken)
    BY <1>1, <1>4, RequestFields DEF IInv
  <2>3. n = [pc |-> "writing", op |-> r.op, user |-> r.user, chal |-> r.chal, flag |-> r.flag,
             cat |-> r.cat, key |-> r.key, arg |-> r.arg, from |-> r.from, pick |-> k,
             taken |-> r.taken]
    <3>1. r = [pc |-> r.pc, op |-> r.op, user |-> r.user, chal |-> r.chal, flag |-> r.flag,
               cat |-> r.cat, key |-> r.key, arg |-> r.arg, from |-> r.from, pick |-> r.pick,
               taken |-> r.taken]
      BY <2>2 DEF IsRequest
    <3> QED BY <1>3, <3>1
  <2>4. /\ n.pc = "writing" /\ n.op = r.op /\ n.user = r.user /\ n.chal = r.chal /\ n.flag = r.flag
        /\ n.cat = r.cat /\ n.key = r.key /\ n.arg = r.arg /\ n.from = r.from /\ n.pick = k
        /\ n.taken = r.taken
    BY <2>3
  <2>5. IsRequest(n) BY <2>2, <2>3, <2>4 DEF IsRequest
  <2>6. WellFormed(n) BY <2>2, <2>4 DEF WellFormed
  <2>7. Locks(n) = Locks(r)
    BY <2>4 DEF Locks, CreateLocks, UpdateLocks, DeleteLocks, PutRuntimeLocks, CreateFlagLocks,
                UpdateFlagLocks, DeleteFlagLocks, LaunchLocks
  <2>8. Len(Locks(n)) \in Nat BY <2>6, LocksShape
  <2>9. Exclusion(Held') BY <2>1, <2>2, <2>4, <2>7, Released
  <2>10. req'[p] = n BY <2>1, BystanderLocks
  <2>11. Decided(n) BY <1>2, <1>6, <2>2, <2>4, PermittedDecides
  <2>12. Decided(n)' BY <1>4, <2>11, DecidedSame
  <2>13. Decided(req[p])' BY <2>10, <2>12
  <2>14. n.taken = Len(Locks(n)) /\ n.taken <= Len(Locks(n)) BY <1>4, <2>4, <2>7, <2>8
  <2> HIDE DEF Held
  <2> QED BY <2>1, <2>4, <2>5, <2>6, <2>9, <2>10, <2>13, <2>14 DEF Moved
<1> QED BY <1>5, <1>6

\* A request before it starts.
Fresh(op, u, c, f, g, k, a, o) ==
    [pc |-> "idle", op |-> op, user |-> u, chal |-> c, flag |-> f, cat |-> g, key |-> k,
     arg |-> a, from |-> o, pick |-> None, taken |-> 0]

\* Its fields.
LEMMA FreshFields ==
  ASSUME NEW op, NEW u, NEW c, NEW f, NEW g, NEW k, NEW a, NEW o, NEW r, r = Fresh(op, u, c, f, g, k, a, o)
  PROVE  /\ r.op = op /\ r.user = u /\ r.chal = c /\ r.flag = f /\ r.cat = g /\ r.key = k
         /\ r.arg = a /\ r.from = o
         /\ r = Fresh(r.op, r.user, r.chal, r.flag, r.cat, r.key, r.arg, r.from)
  BY DEF Fresh

\* A request that starts holds nothing yet.
LEMMA StartMoves ==
  ASSUME IInv, NEW p \in Requests, NEW r, Start(p, r), WellFormed(r),
         r = Fresh(r.op, r.user, r.chal, r.flag, r.cat, r.key, r.arg, r.from)
  PROVE  Moved(p)
<1>1. PICK n : n = [r EXCEPT !.pc = "locking"] OBVIOUS
<1>2. req' = [req EXCEPT ![p] = n] BY <1>1 DEF Start
<1>3. n = [pc |-> "locking", op |-> r.op, user |-> r.user, chal |-> r.chal, flag |-> r.flag,
           cat |-> r.cat, key |-> r.key, arg |-> r.arg, from |-> r.from, pick |-> None, taken |-> 0]
  BY <1>1 DEF Fresh
<1>4. /\ n.pc = "locking" /\ n.op = r.op /\ n.user = r.user /\ n.chal = r.chal /\ n.flag = r.flag
      /\ n.cat = r.cat /\ n.key = r.key /\ n.arg = r.arg /\ n.from = r.from /\ n.pick = None
      /\ n.taken = 0
  BY <1>3
<1>5. IsRequest(n) BY <1>3, <1>4 DEF IsRequest
<1>6. WellFormed(n) BY <1>4 DEF WellFormed
<1>7. Taken(Locks(n), n.taken) = {} BY <1>4, TakenNone
<1>8. Exclusion(Held') BY <1>2, <1>7, Released
<1>9. req'[p] = n BY <1>2, BystanderLocks
<1>10. Len(Locks(n)) \in Nat BY <1>6, LocksShape
<1>11. n.taken <= Len(Locks(n)) BY <1>4, <1>10
<1> HIDE DEF Held
<1> QED BY <1>2, <1>4, <1>5, <1>6, <1>8, <1>9, <1>11 DEF Moved

\* Requests about challenges, the setting and categories.
LEMMA ChallengeMoves ==
  ASSUME IInv, NEW p \in Requests, BeginChallenge(p)
  PROVE  Moved(p)
<1> USE DEF Ops, ChalOps, FlagOps, Types
<1>1. CASE \E c \in Challenges, k \in Keys, d \in NewDefinitions, e \in BOOLEAN, f \in Flags :
        \E t \in {"static", "generated"} :
        /\ t = "generated" \/ e => d.exposure = "private"
        /\ cat[d.cat] = "live" /\ chal[c].state = "none" /\ flag[f].state = "none"
        /\ Start(p, [Idle EXCEPT !.op = "create", !.chal = c, !.key = k, !.flag = f,
                                 !.arg = [def |-> d, enable |-> e, type |-> t]])
  <2>0. PICK c \in Challenges, k \in Keys, d \in NewDefinitions, e \in BOOLEAN, f \in Flags :
        \E t \in {"static", "generated"} :
        /\ t = "generated" \/ e => d.exposure = "private"
        /\ cat[d.cat] = "live" /\ chal[c].state = "none" /\ flag[f].state = "none"
        /\ Start(p, [Idle EXCEPT !.op = "create", !.chal = c, !.key = k, !.flag = f,
                                 !.arg = [def |-> d, enable |-> e, type |-> t]])
    BY <1>1, Zenon
  <2>1. PICK t \in {"static", "generated"} :
        /\ t = "generated" => d.exposure = "private"
        /\ Start(p, [Idle EXCEPT !.op = "create", !.chal = c, !.key = k, !.flag = f,
                                 !.arg = [def |-> d, enable |-> e, type |-> t]])
    BY <2>0, Zenon
  <2>2. PICK a : a = [def |-> d, enable |-> e, type |-> t] OBVIOUS
  <2>3. PICK r : r = [Idle EXCEPT !.op = "create", !.chal = c, !.key = k, !.flag = f, !.arg = a]
    OBVIOUS
  <2>4. Start(p, r) BY <2>1, <2>2, <2>3
  <2>5. r = Fresh("create", None, c, f, None, k, a, None) BY <2>3 DEF Idle, Fresh
  <2>6. a.def = d /\ a.enable = e /\ a.type = t BY <2>2
  <2>7. WellFormed(r) BY <2>1, <2>5, <2>6, FreshFields DEF WellFormed
  <2> QED BY <2>4, <2>5, <2>7, FreshFields, StartMoves
<1>2. CASE \E c \in Challenges : Live(c) /\
         \E x \in {"public", "private"}, h, e \in BOOLEAN, g \in {y \in Categories : cat[y] = "live"} :
            Start(p, [Idle EXCEPT !.op = "update", !.chal = c, !.arg =
                        [def |-> [chal[c].def EXCEPT !.exposure = x, !.hidden = h, !.cat = g],
                         enable |-> e /\ x = "private"]])
  <2>0. PICK c \in Challenges : Live(c) /\
         \E x \in {"public", "private"}, h, e \in BOOLEAN, g \in {y \in Categories : cat[y] = "live"} :
            Start(p, [Idle EXCEPT !.op = "update", !.chal = c, !.arg =
                        [def |-> [chal[c].def EXCEPT !.exposure = x, !.hidden = h, !.cat = g],
                         enable |-> e /\ x = "private"]])
    BY <1>2
  <2>1. PICK x \in {"public", "private"}, h \in BOOLEAN, e \in BOOLEAN,
             g \in {y \in Categories : cat[y] = "live"} :
            Start(p, [Idle EXCEPT !.op = "update", !.chal = c, !.arg =
                        [def |-> [chal[c].def EXCEPT !.exposure = x, !.hidden = h, !.cat = g],
                         enable |-> e /\ x = "private"]])
    BY <2>0
  <2>2. PICK d : d = [chal[c].def EXCEPT !.exposure = x, !.hidden = h, !.cat = g] OBVIOUS
  <2>3. PICK b : b = (e /\ x = "private") OBVIOUS
  <2>4. PICK a : a = [def |-> d, enable |-> b] OBVIOUS
  <2>5. PICK r : r = [Idle EXCEPT !.op = "update", !.chal = c, !.arg = a] OBVIOUS
  <2>6. Start(p, r) BY <2>1, <2>2, <2>3, <2>4, <2>5
  <2>7. r = Fresh("update", None, c, None, None, None, a, None) BY <2>5 DEF Idle, Fresh
  <2>8. a.def = d /\ a.enable = b BY <2>4
  <2>9. d \in Definition
    <3>1. chal[c].def \in Definition BY <2>0 DEF IInv, DataOK, ChallengesOK
    <3> QED BY <2>1, <2>2, <3>1 DEF Definition
  <2>10. b \in BOOLEAN BY <2>3
  <2>11. WellFormed(r) BY <2>7, <2>8, <2>9, <2>10, FreshFields DEF WellFormed
  <2> QED BY <2>6, <2>7, <2>11, FreshFields, StartMoves
<1>3. CASE \E c \in Challenges : Start(p, [Idle EXCEPT !.op = "delete", !.chal = c])
  <2>1. PICK c \in Challenges : Start(p, [Idle EXCEPT !.op = "delete", !.chal = c]) BY <1>3
  <2>2. PICK r : r = [Idle EXCEPT !.op = "delete", !.chal = c] OBVIOUS
  <2>3. r = Fresh("delete", None, c, None, None, None, None, None) BY <2>2 DEF Idle, Fresh
  <2>4. WellFormed(r) BY <2>3, FreshFields DEF WellFormed
  <2> QED BY <2>1, <2>2, <2>3, <2>4, FreshFields, StartMoves
<1>4. CASE \E c \in Challenges, on \in BOOLEAN :
             Start(p, [Idle EXCEPT !.op = "put_runtime", !.chal = c, !.arg = on])
  <2>1. PICK c \in Challenges, on \in BOOLEAN :
             Start(p, [Idle EXCEPT !.op = "put_runtime", !.chal = c, !.arg = on])
    BY <1>4
  <2>2. PICK r : r = [Idle EXCEPT !.op = "put_runtime", !.chal = c, !.arg = on] OBVIOUS
  <2>3. r = Fresh("put_runtime", None, c, None, None, None, on, None) BY <2>2 DEF Idle, Fresh
  <2>4. WellFormed(r) BY <2>3, FreshFields DEF WellFormed
  <2> QED BY <2>1, <2>2, <2>3, <2>4, FreshFields, StartMoves
<1>5. CASE \E on \in BOOLEAN : Start(p, [Idle EXCEPT !.op = "set_gate", !.arg = on])
  <2>1. PICK on \in BOOLEAN : Start(p, [Idle EXCEPT !.op = "set_gate", !.arg = on]) BY <1>5
  <2>2. PICK r : r = [Idle EXCEPT !.op = "set_gate", !.arg = on] OBVIOUS
  <2>3. r = Fresh("set_gate", None, None, None, None, None, on, None) BY <2>2 DEF Idle, Fresh
  <2>4. WellFormed(r) BY <2>3, FreshFields DEF WellFormed
  <2> QED BY <2>1, <2>2, <2>3, <2>4, FreshFields, StartMoves
<1>6. CASE \E g \in Categories, op \in {"rename_category", "delete_category"} :
             Start(p, [Idle EXCEPT !.op = op, !.cat = g])
  <2>1. PICK g \in Categories, op \in {"rename_category", "delete_category"} :
             Start(p, [Idle EXCEPT !.op = op, !.cat = g])
    BY <1>6
  <2>2. PICK r : r = [Idle EXCEPT !.op = op, !.cat = g] OBVIOUS
  <2>3. r = Fresh(op, None, None, None, g, None, None, None) BY <2>2 DEF Idle, Fresh
  <2>4. WellFormed(r) BY <2>3, FreshFields DEF WellFormed
  <2> QED BY <2>1, <2>2, <2>3, <2>4, FreshFields, StartMoves
<1> QED BY <1>1, <1>2, <1>3, <1>4, <1>5, <1>6 DEF BeginChallenge

\* Requests about flags, and launches.
LEMMA FlagMoves ==
  ASSUME IInv, NEW p \in Requests, BeginFlag(p)
  PROVE  Moved(p)
<1> USE DEF Ops, ChalOps, FlagOps, Types
<1>1. CASE \E c \in Challenges, f \in Flags, t \in {"static", "generated"} :
             Start(p, [Idle EXCEPT !.op = "create_flag", !.chal = c, !.flag = f, !.arg = t])
  <2>1. PICK c \in Challenges, f \in Flags, t \in {"static", "generated"} :
             Start(p, [Idle EXCEPT !.op = "create_flag", !.chal = c, !.flag = f, !.arg = t])
    BY <1>1
  <2>2. PICK r : r = [Idle EXCEPT !.op = "create_flag", !.chal = c, !.flag = f, !.arg = t] OBVIOUS
  <2>3. r = Fresh("create_flag", None, c, f, None, None, t, None) BY <2>2 DEF Idle, Fresh
  <2>4. WellFormed(r) BY <2>3, FreshFields DEF WellFormed
  <2> QED BY <2>1, <2>2, <2>3, <2>4, FreshFields, StartMoves
<1>2. CASE \E f \in Flags, c \in Challenges, t \in {"static", "generated"} : flag[f].state = "live" /\
            Start(p, [Idle EXCEPT !.op = "update_flag", !.chal = c, !.flag = f, !.arg = t,
                                  !.from = flag[f].chal])
  <2>1. PICK f \in Flags, c \in Challenges, t \in {"static", "generated"} :
            /\ flag[f].state = "live"
            /\ Start(p, [Idle EXCEPT !.op = "update_flag", !.chal = c, !.flag = f, !.arg = t,
                                     !.from = flag[f].chal])
    BY <1>2
  <2>2. PICK o : o = flag[f].chal OBVIOUS
  <2>3. PICK r : r = [Idle EXCEPT !.op = "update_flag", !.chal = c, !.flag = f, !.arg = t, !.from = o]
    OBVIOUS
  <2>4. r = Fresh("update_flag", None, c, f, None, None, t, o) BY <2>3 DEF Idle, Fresh
  <2>5. o \in Challenges BY <2>1, <2>2 DEF IInv, DataOK, FlagsOK
  <2>6. WellFormed(r) BY <2>4, <2>5, FreshFields DEF WellFormed
  <2> QED BY <2>1, <2>2, <2>3, <2>4, <2>6, FreshFields, StartMoves
<1>3. CASE \E f \in Flags : flag[f].state = "live" /\
             Start(p, [Idle EXCEPT !.op = "delete_flag", !.flag = f, !.from = flag[f].chal])
  <2>1. PICK f \in Flags :
            /\ flag[f].state = "live"
            /\ Start(p, [Idle EXCEPT !.op = "delete_flag", !.flag = f, !.from = flag[f].chal])
    BY <1>3
  <2>2. PICK o : o = flag[f].chal OBVIOUS
  <2>3. PICK r : r = [Idle EXCEPT !.op = "delete_flag", !.flag = f, !.from = o] OBVIOUS
  <2>4. r = Fresh("delete_flag", None, None, f, None, None, None, o) BY <2>3 DEF Idle, Fresh
  <2>5. o \in Challenges BY <2>1, <2>2 DEF IInv, DataOK, FlagsOK
  <2>6. WellFormed(r) BY <2>4, <2>5, FreshFields DEF WellFormed
  <2> QED BY <2>1, <2>2, <2>3, <2>4, <2>6, FreshFields, StartMoves
<1>4. CASE \E u \in Users, c \in Challenges :
             Start(p, [Idle EXCEPT !.op = "launch", !.user = u, !.chal = c])
  <2>1. PICK u \in Users, c \in Challenges :
             Start(p, [Idle EXCEPT !.op = "launch", !.user = u, !.chal = c])
    BY <1>4
  <2>2. PICK r : r = [Idle EXCEPT !.op = "launch", !.user = u, !.chal = c] OBVIOUS
  <2>3. r = Fresh("launch", u, c, None, None, None, None, None) BY <2>2 DEF Idle, Fresh
  <2>4. WellFormed(r) BY <2>3, FreshFields DEF WellFormed
  <2> QED BY <2>1, <2>2, <2>3, <2>4, FreshFields, StartMoves
<1> QED BY <1>1, <1>2, <1>3, <1>4 DEF BeginFlag

\* Every step leaves its transaction in order.
LEMMA StepMoves ==
  ASSUME IInv, NEW p \in Requests, Step(p)
  PROVE  Moved(p)
<1>1. CASE BeginChallenge(p) BY <1>1, ChallengeMoves
<1>2. CASE BeginFlag(p) BY <1>2, FlagMoves
<1>3. CASE TakeLock(p) BY <1>3, TakeMoves
<1>4. CASE Check(p) BY <1>4, CheckMoves
<1>5. CASE \/ Fail(p) \/ Create(p) \/ Update(p) \/ Delete(p) \/ PutRuntime(p) \/ SetGate(p)
           \/ CreateFlag(p) \/ UpdateFlag(p) \/ DeleteFlag(p) \/ Launch(p)
           \/ RenameCategory(p) \/ DeleteCategory(p)
  <2>1. req' = [req EXCEPT ![p] = Idle]
    BY <1>5 DEF Fail, Create, Update, Delete, PutRuntime, SetGate, CreateFlag, UpdateFlag,
                DeleteFlag, Launch, RenameCategory, DeleteCategory, Done
  <2> QED BY <2>1, EndMoves
<1> QED BY <1>1, <1>2, <1>3, <1>4, <1>5 DEF Step

\* What the invariant says of one transaction.
InOrder(q) ==
    /\ IsRequest(req'[q])
    /\ req'[q].pc = "idle" => req'[q].taken = 0
    /\ req'[q].pc # "idle" => WellFormed(req'[q]) /\ req'[q].taken <= Len(Locks(req'[q]))
    /\ req'[q].pc = "writing" => req'[q].taken = Len(Locks(req'[q])) /\ Decided(req[q])'

\* A bystander stays in order.
LEMMA BystanderInOrder ==
  ASSUME IInv, NEW q \in Requests, Undisturbed(q)
  PROVE  InOrder(q)
<1>1. req'[q] = req[q] BY DEF Undisturbed
<1>2. /\ IsRequest(req[q])
      /\ req[q].pc = "idle" => req[q].taken = 0
      /\ req[q].pc # "idle" => WellFormed(req[q])
  BY RequestFields DEF IInv
<1>3. /\ req[q].pc # "idle" => req[q].taken <= Len(Locks(req[q]))
      /\ req[q].pc = "writing" => req[q].taken = Len(Locks(req[q]))
  BY DEF IInv, LocksTaken
<1>4. req[q].pc = "writing" => Decided(req[q])' BY BystanderDecided
<1> QED BY <1>1, <1>2, <1>3, <1>4 DEF InOrder

\* When all are in order, so is the invariant of the transactions.
LEMMA AllInOrder ==
  ASSUME \A q \in Requests : InOrder(q), req' = [q \in Requests |-> req'[q]]
  PROVE  RequestsTyped' /\ LocksTaken' /\ DecisionsHold'
<1>1. RequestsTyped' BY DEF InOrder, RequestsTyped
<1>2. LocksTaken' /\ DecisionsHold' BY DEF InOrder, LocksTaken, DecisionsHold
<1> QED BY <1>1, <1>2

\* Whoever takes a step, every transaction is in order afterwards.
LEMMA RequestsKept ==
  ASSUME IInv, NEW p \in Requests, Step(p)
  PROVE  RequestsTyped' /\ LocksTaken' /\ ExclusiveLocks' /\ DecisionsHold'
<1>1. Moved(p) BY StepMoves
<1>2. ASSUME NEW q \in Requests PROVE InOrder(q)
  <2>1. CASE q = p BY <1>1, <2>1 DEF Moved, InOrder
  <2>2. CASE q # p BY <2>2, StepUndisturbs, BystanderInOrder
  <2> QED BY <2>1, <2>2
<1>3. req' = [q \in Requests |-> req'[q]] BY <1>1 DEF Moved, IInv, RequestsTyped
<1>4. ExclusiveLocks' BY <1>1 DEF Moved, ExclusiveLocks
<1> QED BY <1>2, <1>3, <1>4, AllInOrder

\* Also when an instance ends or the user mode changes.
LEMMA OutsideKeeps ==
  ASSUME IInv, InstanceStops \/ ClearAllocations
  PROVE  RequestsTyped' /\ LocksTaken' /\ ExclusiveLocks' /\ DecisionsHold'
<1>1. \A q \in Requests : InOrder(q) BY OutsideUndisturbs, BystanderInOrder
<1>2. req' = req BY DEF InstanceStops, ClearAllocations
<1>3. req' = [q \in Requests |-> req'[q]] BY <1>2 DEF IInv, RequestsTyped
<1>4. ExclusiveLocks' BY <1>2 DEF IInv, ExclusiveLocks, Held
<1> QED BY <1>1, <1>3, <1>4, AllInOrder

----------------------------------------------------------------------------
(* The definitions stay consistent *)

\* Tables that stay the same stay consistent.
LEMMA SameTables ==
  /\ ChallengesOK /\ UNCHANGED <<cat, chal>> /\ gate' \in BOOLEAN => ChallengesOK'
  /\ FlagsOK /\ UNCHANGED <<chal, flag>> => FlagsOK'
  /\ HandedOutOK /\ UNCHANGED <<chal, flag>> /\ inst' \subseteq inst /\ alloc' \subseteq alloc
        => HandedOutOK'
  /\ KeysOK /\ UNCHANGED <<chal, idem>> => KeysOK'
<1>1. ChallengesOK /\ UNCHANGED <<cat, chal>> /\ gate' \in BOOLEAN => ChallengesOK'
  BY DEF ChallengesOK, PublishedHasRuntime, Live
<1>2. FlagsOK /\ UNCHANGED <<chal, flag>> => FlagsOK'
  BY DEF FlagsOK, EveryChallengeKeepsAFlag, GeneratedIsPrivate, FlagsOf, Generated, Live, Private
<1>3. ASSUME HandedOutOK, UNCHANGED <<chal, flag>>, inst' \subseteq inst, alloc' \subseteq alloc
      PROVE  HandedOutOK'
  <2>1. \A c : Generated(c)' = Generated(c) BY <1>3 DEF Generated, FlagsOf
  <2>2. ASSUME NEW c PROVE GeneratedFlag(c)' = GeneratedFlag(c)
    <3>1. Generated(c)' = Generated(c) BY <2>1
    <3> QED BY <3>1 DEF GeneratedFlag
  <2>3. IsFiniteSet(alloc') BY <1>3, FS_Subset DEF HandedOutOK
  <2>4. AllocationMatchesDefinition' /\ VariationsAreUnique'
    BY <1>3 DEF HandedOutOK, AllocationMatchesDefinition, VariationsAreUnique
  <2>5. RunningMatchesDefinition'
    BY <1>3, <2>2 DEF HandedOutOK, RunningMatchesDefinition, Live, Private
  <2> QED BY <1>3, <2>3, <2>4, <2>5 DEF HandedOutOK
<1>4. KeysOK /\ UNCHANGED <<chal, idem>> => KeysOK' BY DEF KeysOK, OneChallengePerKey, Live
<1> QED BY <1>1, <1>2, <1>3, <1>4

\* The tables of the invariant.
LEMMA Tables ==
  ASSUME IInv
  PROVE  ChallengesOK /\ FlagsOK /\ HandedOutOK /\ KeysOK /\ started \in Nat /\ gate \in BOOLEAN
  BY DEF IInv, DataOK, ChallengesOK

\* Steps of the transaction alone, and the setting.
LEMMA CalmData ==
  ASSUME IInv, NEW p \in Requests, Calm(p)
  PROVE  DataOK'
<1>1. /\ UNCHANGED <<cat, chal, flag, alloc, inst, idem>>
      /\ gate' = gate \/ (req[p].op = "set_gate" /\ req[p].pc = "writing" /\ gate' = req[p].arg)
      /\ started' = started \/ started' = started + 1
  BY CalmSteps
<1>2. gate' \in BOOLEAN
  <2>1. CASE gate' = gate BY <2>1, Tables
  <2>2. CASE req[p].op = "set_gate" /\ req[p].pc = "writing" /\ gate' = req[p].arg
    BY <2>2, Writer DEF WellFormed
  <2> QED BY <1>1, <2>1, <2>2
<1>3. started' \in Nat BY <1>1, Tables
<1>4. ChallengesOK' BY <1>1, <1>2, Tables, SameTables
<1>5. FlagsOK' /\ HandedOutOK' /\ KeysOK' BY <1>1, Tables, SameTables
<1> QED BY <1>3, <1>4, <1>5 DEF DataOK

\* An instance that ends, and a change of mode.
LEMMA OutsideData ==
  ASSUME IInv, InstanceStops \/ ClearAllocations
  PROVE  DataOK'
<1>1. /\ UNCHANGED <<gate, cat, chal, flag, idem, started>>
      /\ inst' \subseteq inst /\ alloc' \subseteq alloc
  BY DEF InstanceStops, ClearAllocations
<1>2. ChallengesOK' BY <1>1, Tables, SameTables
<1>3. FlagsOK' /\ HandedOutOK' /\ KeysOK' BY <1>1, Tables, SameTables
<1> QED BY <1>1, <1>2, <1>3, Tables DEF DataOK

\* A category that no live challenge has can go.
LEMMA DeleteCategoryData ==
  ASSUME IInv, NEW p \in Requests, DeleteCategory(p)
  PROVE  DataOK'
<1>1. PICK r : r = req[p] OBVIOUS
<1>2. /\ r.pc = "writing" /\ r.op = "delete_category" /\ cat' = [cat EXCEPT ![r.cat] = "gone"]
      /\ UNCHANGED <<gate, chal, flag, alloc, inst, idem, started>>
  BY <1>1 DEF DeleteCategory, Writes, Done
<1>3. \A c \in Challenges : Live(c) => chal[c].def.cat # r.cat BY <1>1, <1>2, Writer DEF Decided
<1>4. ChallengesOK'
  <2>1. ChallengesOK BY Tables
  <2>2. cat' \in [Categories -> {"live", "gone"}] BY <1>2, <2>1 DEF ChallengesOK
  <2>3. ASSUME NEW c \in Challenges, Live(c)
        PROVE  chal[c].def \in Definition /\ cat'[chal[c].def.cat] = "live"
    <3>1. chal[c].def \in Definition /\ cat[chal[c].def.cat] = "live" BY <2>1, <2>3 DEF ChallengesOK
    <3>2. chal[c].def.cat \in Categories /\ chal[c].def.cat # r.cat
      BY <1>3, <2>3, <3>1, DefinitionFields
    <3> QED BY <1>2, <2>1, <3>1, <3>2 DEF ChallengesOK
  <2>4. PublishedHasRuntime' BY <1>2, <2>1 DEF ChallengesOK, PublishedHasRuntime, Live
  <2>5. gate' \in BOOLEAN /\ chal' \in [Challenges -> ChallengeRow] BY <1>2, <2>1 DEF ChallengesOK
  <2> QED BY <1>2, <2>2, <2>3, <2>4, <2>5 DEF ChallengesOK, Live
<1>5. FlagsOK' /\ HandedOutOK' /\ KeysOK' BY <1>2, Tables, SameTables
<1> QED BY <1>2, <1>4, <1>5, Tables DEF DataOK

\* A launch hands out the generated flag as it is, in a variation of its own.
LEMMA LaunchData ==
  ASSUME IInv, NEW p \in Requests, Launch(p)
  PROVE  DataOK'
<1>1. PICK r : r = req[p] OBVIOUS
<1>2. PICK a : a = [flag |-> r.pick.flag, chal |-> r.chal, user |-> r.user,
                    revision |-> r.pick.revision, mask |-> r.pick.mask] OBVIOUS
<1>3. PICK i : i = [user |-> r.user, chal |-> r.chal, flag |-> r.pick.flag,
                    revision |-> r.pick.revision] OBVIOUS
<1>4. /\ r.pc = "writing" /\ r.op = "launch"
      /\ alloc' = alloc \/ (r.pick.flag # None /\ alloc' = alloc \cup {a})
      /\ inst' = inst \cup {i} /\ UNCHANGED <<gate, cat, chal, flag, idem, started>>
  BY <1>1, <1>2, <1>3 DEF Launch, Writes, Done
<1>5. WellFormed(r) /\ Decided(r) BY <1>1, <1>4, Writer
<1>6. r.chal \in Challenges BY <1>4, <1>5 DEF WellFormed, ChalOps
<1>7. /\ Live(r.chal) /\ Private(r.chal) /\ r.pick.flag = GeneratedFlag(r.chal)
      /\ r.pick.flag # None =>
           /\ r.pick.revision = flag[r.pick.flag].revision
           /\ \A x \in alloc : x.flag = r.pick.flag /\ x.mask = r.pick.mask => x.user = r.user
  BY <1>4, <1>5 DEF Decided
<1>8. r.pick.flag # None =>
        /\ r.pick.flag \in Flags /\ flag[r.pick.flag].state = "live"
        /\ flag[r.pick.flag].type = "generated" /\ flag[r.pick.flag].chal = r.chal
  BY <1>7 DEF GeneratedFlag, Generated, FlagsOf
<1>9. /\ a.flag = r.pick.flag /\ a.chal = r.chal /\ a.user = r.user
      /\ a.revision = r.pick.revision /\ a.mask = r.pick.mask
      /\ i.chal = r.chal /\ i.flag = r.pick.flag /\ i.revision = r.pick.revision
  BY <1>2, <1>3
<1>10. HandedOutOK BY Tables
<1>11. IsFiniteSet(alloc')
  <2>1. IsFiniteSet(alloc) BY <1>10 DEF HandedOutOK
  <2>2. IsFiniteSet(alloc \cup {a}) BY <2>1, FS_AddElement
  <2> QED BY <1>4, <2>1, <2>2
<1>12. \A x \in alloc' : x.flag \in Flags /\ x.chal \in Challenges
  BY <1>4, <1>6, <1>8, <1>9, <1>10 DEF HandedOutOK
<1>13. \A x \in inst' : x.chal \in Challenges /\ x.flag \in Flags \cup {None}
  BY <1>4, <1>6, <1>8, <1>9, <1>10 DEF HandedOutOK
<1>14. AllocationMatchesDefinition'
  BY <1>4, <1>7, <1>8, <1>9, <1>10 DEF HandedOutOK, AllocationMatchesDefinition
<1>15. VariationsAreUnique'
  BY <1>4, <1>7, <1>9, <1>10 DEF HandedOutOK, VariationsAreUnique
<1>16. RunningMatchesDefinition'
  <2>1. \A x \in inst' : /\ Live(x.chal) /\ Private(x.chal) /\ GeneratedFlag(x.chal) = x.flag
                         /\ x.flag # None => flag[x.flag].revision = x.revision
    BY <1>4, <1>7, <1>9, <1>10 DEF HandedOutOK, RunningMatchesDefinition
  <2>2. ASSUME NEW c PROVE GeneratedFlag(c)' = GeneratedFlag(c)
    <3>1. Generated(c)' = Generated(c) BY <1>4 DEF Generated, FlagsOf
    <3> QED BY <3>1 DEF GeneratedFlag
  <2> QED BY <1>4, <2>1, <2>2 DEF RunningMatchesDefinition, Live, Private
<1>17. HandedOutOK' BY <1>11, <1>12, <1>13, <1>14, <1>15, <1>16 DEF HandedOutOK
<1>18. ChallengesOK' BY <1>4, Tables, SameTables
<1>19. FlagsOK' /\ KeysOK' BY <1>4, Tables, SameTables
<1> QED BY <1>4, <1>17, <1>18, <1>19, Tables DEF DataOK

\* A flag that nobody was given may be written, if the challenge that it leaves keeps
\* another one and neither that one nor the one that it joins is running.
LEMMA FlagWritten ==
  ASSUME IInv, NEW f \in Flags, NEW row \in FlagRow, flag' = [flag EXCEPT ![f] = row],
         UNCHANGED <<gate, cat, chal, alloc, inst, idem, started>>,
         ~Allocated(f),
         flag[f].state = "live" /\ ~(row.state = "live" /\ row.chal = flag[f].chal)
           => Cardinality(FlagsOf(flag[f].chal)) > 1,
         flag[f].state = "live" => ~Running(flag[f].chal),
         row.state = "live" => /\ row.chal \in Challenges /\ Live(row.chal) /\ ~Running(row.chal)
                               /\ row.type = "generated" => Private(row.chal)
  PROVE  DataOK'
<1>1. ChallengesOK /\ FlagsOK /\ HandedOutOK BY Tables
<1>2. \A g \in Flags : flag'[g] = IF g = f THEN row ELSE flag[g] BY <1>1 DEF FlagsOK
<1>3. UNCHANGED chal OBVIOUS
<1>4. flag' \in [Flags -> FlagRow] BY <1>1 DEF FlagsOK
<1>5. \A g \in Flags : flag'[g].state = "live" => flag'[g].chal \in Challenges /\ Live(flag'[g].chal)
  BY <1>1, <1>2 DEF FlagsOK
<1>6. ASSUME NEW c \in Challenges, Live(c) PROVE FlagsOf(c)' # {}
  <2>1. FlagsOf(c) # {} BY <1>1, <1>6 DEF FlagsOK, EveryChallengeKeepsAFlag
  <2>2. CASE flag[f].state = "live" /\ flag[f].chal = c /\ ~(row.state = "live" /\ row.chal = c)
    <3>1. Cardinality(FlagsOf(c)) > 1 BY <2>2
    <3>2. \E g \in FlagsOf(c) : g # f
      <4> SUFFICES ASSUME \A g \in FlagsOf(c) : g = f PROVE FALSE OBVIOUS
      <4>1. FlagsOf(c) = {f} BY <2>1
      <4>2. Cardinality({f}) = 1 BY FS_Singleton
      <4> QED BY <3>1, <4>1, <4>2
    <3>3. PICK g \in FlagsOf(c) : g # f BY <3>2
    <3>4. g \in FlagsOf(c)' BY <1>2, <3>3 DEF FlagsOf
    <3> QED BY <3>4
  <2>3. CASE row.state = "live" /\ row.chal = c
    <3>1. f \in FlagsOf(c)' BY <1>2, <2>3 DEF FlagsOf
    <3> QED BY <3>1
  <2>4. CASE ~(flag[f].state = "live" /\ flag[f].chal = c)
    <3>1. PICK g \in FlagsOf(c) : TRUE BY <2>1
    <3>2. g # f BY <2>4, <3>1 DEF FlagsOf
    <3>3. g \in FlagsOf(c)' BY <1>2, <3>1, <3>2 DEF FlagsOf
    <3> QED BY <3>3
  <2> QED BY <2>2, <2>3, <2>4
<1>7. ASSUME NEW c \in Challenges, Generated(c)' # {} PROVE Private(c)
  <2>1. PICK g \in Flags : flag'[g].state = "live" /\ flag'[g].chal = c /\ flag'[g].type = "generated"
    BY <1>7 DEF Generated, FlagsOf
  <2>2. CASE g = f BY <1>2, <2>1, <2>2
  <2>3. CASE g # f
    <3>1. g \in Generated(c) BY <1>2, <2>1, <2>3 DEF Generated, FlagsOf
    <3> QED BY <1>1, <3>1 DEF FlagsOK, GeneratedIsPrivate
  <2> QED BY <2>2, <2>3
<1>8. FlagsOK'
  BY <1>3, <1>4, <1>5, <1>6, <1>7 DEF FlagsOK, EveryChallengeKeepsAFlag, GeneratedIsPrivate, Live, Private
<1>9. ASSUME NEW c, Running(c) PROVE GeneratedFlag(c)' = GeneratedFlag(c)
  <2>1. \A g \in Flags : g \in Generated(c)' <=> g \in Generated(c)
    BY <1>2, <1>9 DEF Generated, FlagsOf
  <2>2. Generated(c) \subseteq Flags /\ Generated(c)' \subseteq Flags BY DEF Generated, FlagsOf
  <2>3. Generated(c)' = Generated(c) BY <2>1, <2>2
  <2> QED BY <2>3 DEF GeneratedFlag
<1>10. RunningMatchesDefinition'
  <2>1. ASSUME NEW i \in inst
        PROVE  /\ Live(i.chal) /\ Private(i.chal) /\ GeneratedFlag(i.chal)' = i.flag
               /\ i.flag # None => flag'[i.flag].revision = i.revision
    <3>1. /\ Live(i.chal) /\ Private(i.chal) /\ GeneratedFlag(i.chal) = i.flag
          /\ i.flag # None => flag[i.flag].revision = i.revision
      BY <1>1 DEF HandedOutOK, RunningMatchesDefinition
    <3>2. Running(i.chal) BY DEF Running
    <3>3. i.flag # None => i.flag \in FlagsOf(i.chal) BY <3>1 DEF GeneratedFlag, Generated
    <3>4. i.flag # None => i.flag \in Flags /\ i.flag # f BY <3>2, <3>3 DEF FlagsOf
    <3> QED BY <1>2, <1>9, <3>1, <3>2, <3>4
  <2> QED BY <1>3, <2>1 DEF RunningMatchesDefinition, Live, Private
<1>11. AllocationMatchesDefinition'
  <2>1. \A a \in alloc : a.flag \in Flags /\ a.flag # f BY <1>1 DEF HandedOutOK, Allocated
  <2> QED BY <1>1, <1>2, <2>1 DEF HandedOutOK, AllocationMatchesDefinition
<1>12. HandedOutOK' BY <1>1, <1>10, <1>11 DEF HandedOutOK, VariationsAreUnique
<1>13. ChallengesOK' BY Tables, SameTables
<1>14. KeysOK' BY Tables, SameTables
<1> QED BY <1>8, <1>12, <1>13, <1>14, Tables DEF DataOK

LEMMA FlagData ==
  ASSUME IInv, NEW p \in Requests, CreateFlag(p) \/ UpdateFlag(p) \/ DeleteFlag(p)
  PROVE  DataOK'
<1>1. PICK r : r = req[p] OBVIOUS
<1>2. r.pc = "writing" /\ UNCHANGED <<gate, cat, chal, alloc, inst, idem, started>>
  BY <1>1 DEF CreateFlag, UpdateFlag, DeleteFlag, Done, Writes
<1>3. WellFormed(r) /\ Decided(r) /\ flag \in [Flags -> FlagRow] BY <1>1, <1>2, Writer
<1>4. HandedOutOK /\ FlagsOK BY Tables
<1>5. CASE CreateFlag(p)
  <2>1. PICK row : row = NewFlag(r.chal, r.arg) OBVIOUS
  <2>2. r.op = "create_flag" /\ flag[r.flag].state = "none" /\ flag' = [flag EXCEPT ![r.flag] = row]
    BY <1>1, <1>5, <2>1 DEF CreateFlag, Writes
  <2>3. r.flag \in Flags /\ r.chal \in Challenges /\ r.arg \in Types
    BY <1>3, <2>2 DEF WellFormed, FlagOps, ChalOps
  <2>4. MayCreateFlag(r) BY <1>3, <2>2 DEF Decided
  <2>5. row.chal = r.chal /\ row.type = r.arg BY <2>1 DEF NewFlag
  <2>6. row \in FlagRow BY <2>1, <2>3 DEF NewFlag, FlagRow, Types
  <2>7. ~Allocated(r.flag)
    BY <1>4, <2>2 DEF HandedOutOK, AllocationMatchesDefinition, Allocated
  <2> QED BY <1>2, <2>2, <2>3, <2>4, <2>5, <2>6, <2>7, FlagWritten DEF MayCreateFlag, TypeFits
<1>6. CASE UpdateFlag(p)
  <2>1. PICK row : row = Redefined(r) OBVIOUS
  <2>2. r.op = "update_flag" /\ flag' = [flag EXCEPT ![r.flag] = row]
    BY <1>1, <1>6, <2>1 DEF UpdateFlag, Writes
  <2>3. r.flag \in Flags /\ r.chal \in Challenges /\ r.arg \in Types
    BY <1>3, <2>2 DEF WellFormed, FlagOps, ChalOps
  <2>4. MayUpdateFlag(r) BY <1>3, <2>2 DEF Decided
  <2>5. PICK old \in FlagRow : old = flag[r.flag] BY <1>3, <2>3
  <2>6. PICK n : n = IF Changes(r) THEN old.revision + 1 ELSE old.revision OBVIOUS
  <2>7. row = [state |-> old.state, chal |-> r.chal, type |-> r.arg, revision |-> n]
    BY <2>1, <2>5, <2>6 DEF Redefined
  <2>8. n \in Nat BY <2>5, <2>6 DEF FlagRow
  <2>9. row.state = old.state /\ row.chal = r.chal /\ row.type = r.arg BY <2>7
  <2>10. CASE Changes(r)
    <3>1. row \in FlagRow BY <2>3, <2>5, <2>7, <2>8 DEF FlagRow, Types
    <3> QED BY <1>2, <2>2, <2>3, <2>4, <2>5, <2>9, <2>10, <3>1, FlagWritten DEF MayUpdateFlag, TypeFits
  <2>11. CASE ~Changes(r)
    <3>1. old = [state |-> old.state, chal |-> old.chal, type |-> old.type, revision |-> old.revision]
      BY DEF FlagRow
    <3>2. r.chal = old.chal /\ r.arg = old.type /\ n = old.revision BY <2>5, <2>6, <2>11 DEF Changes
    <3>3. row = old BY <2>7, <3>1, <3>2
    <3>4. flag' = flag BY <1>3, <2>2, <2>3, <2>5, <3>3
    <3>5. ChallengesOK' BY <1>2, Tables, SameTables
    <3>6. FlagsOK' /\ HandedOutOK' /\ KeysOK' BY <1>2, <3>4, Tables, SameTables
    <3> QED BY <1>2, <3>5, <3>6, Tables DEF DataOK
  <2> QED BY <2>10, <2>11
<1>7. CASE DeleteFlag(p)
  <2>1. r.op = "delete_flag" /\ flag' = [flag EXCEPT ![r.flag] = GoneFlag]
    BY <1>1, <1>7 DEF DeleteFlag, Writes
  <2>2. r.flag \in Flags BY <1>3, <2>1 DEF WellFormed, FlagOps
  <2>3. MayDeleteFlag(r) BY <1>3, <2>1 DEF Decided
  <2>4. GoneFlag \in FlagRow /\ GoneFlag.state = "gone" BY DEF GoneFlag, NoFlag, FlagRow
  <2> QED BY <1>2, <2>1, <2>2, <2>3, <2>4, FlagWritten DEF MayDeleteFlag
<1> QED BY <1>5, <1>6, <1>7

\* The definition of a live challenge may be replaced, if its exposure stays or no
\* instance runs, and its category and its runtime go with it.
LEMMA DefinitionWritten ==
  ASSUME IInv, NEW c \in Challenges, NEW row \in Definition, Live(c),
         chal' = [chal EXCEPT ![c].def = row], gate' \in BOOLEAN,
         UNCHANGED <<cat, flag, alloc, inst, idem, started>>,
         cat[row.cat] = "live", Published(row) => row.runtime = TRUE,
         row.exposure # chal[c].def.exposure =>
           ~Running(c) /\ (row.exposure = "public" => Generated(c) = {})
  PROVE  DataOK'
<1>1. ChallengesOK /\ FlagsOK /\ HandedOutOK /\ KeysOK BY Tables
<1>2. chal \in [Challenges -> ChallengeRow] BY <1>1 DEF ChallengesOK
<1>3. PICK old \in ChallengeRow : old = chal[c] BY <1>2
<1>4. PICK new : new = [state |-> old.state, def |-> row, key |-> old.key] OBVIOUS
<1>5. chal' = [chal EXCEPT ![c] = new]
  <2>1. old = [state |-> old.state, def |-> old.def, key |-> old.key] BY DEF ChallengeRow
  <2>2. [old EXCEPT !.def = row] = new BY <1>4, <2>1
  <2>3. chal' = [chal EXCEPT ![c] = [chal[c] EXCEPT !.def = row]] OBVIOUS
  <2> QED BY <1>3, <2>2, <2>3
<1>6. new \in ChallengeRow BY <1>3, <1>4 DEF ChallengeRow
<1>7. new.state = chal[c].state /\ new.def = row /\ new.key = chal[c].key BY <1>3, <1>4
<1>8. /\ chal' \in [Challenges -> ChallengeRow]
      /\ \A d \in Challenges : chal'[d] = IF d = c THEN new ELSE chal[d]
  BY <1>2, <1>5, <1>6
<1>9. \A d \in Challenges : /\ Live(d)' <=> Live(d)
                            /\ chal'[d].key = chal[d].key
                            /\ (d # c => chal'[d].def = chal[d].def)
                            /\ (d = c => chal'[d].def = row)
  BY <1>7, <1>8 DEF Live
<1>10. ChallengesOK'
  <2>1. \A d \in Challenges : Live(d)' =>
           chal'[d].def \in Definition /\ cat[chal'[d].def.cat] = "live"
    BY <1>1, <1>9 DEF ChallengesOK
  <2>2. PublishedHasRuntime'
    BY <1>1, <1>9 DEF ChallengesOK, PublishedHasRuntime
  <2>3. cat' \in [Categories -> {"live", "gone"}] BY <1>1 DEF ChallengesOK
  <2> QED BY <1>8, <2>1, <2>2, <2>3 DEF ChallengesOK
<1>11. \A d : /\ FlagsOf(d)' = FlagsOf(d) /\ Generated(d)' = Generated(d)
  BY DEF FlagsOf, Generated
<1>12. ASSUME NEW d \in Challenges, Private(d), Running(d) \/ Generated(d) # {}, Live(d)
       PROVE  Private(d)'
  <2>1. CASE d # c BY <1>9, <1>12, <2>1 DEF Private
  <2>2. CASE d = c
    <3>1. chal'[d].def.exposure = row.exposure BY <1>9, <2>2
    <3>2. row.exposure \in {"public", "private"} BY DEF Definition
    <3> QED BY <1>12, <2>2, <3>1, <3>2 DEF Private
  <2> QED BY <2>1, <2>2
<1>13. FlagsOK'
  <2>1. \A f \in Flags : flag[f].state = "live" => flag[f].chal \in Challenges /\ Live(flag[f].chal)'
    BY <1>1, <1>9 DEF FlagsOK
  <2>2. EveryChallengeKeepsAFlag'
    BY <1>1, <1>9, <1>11 DEF FlagsOK, EveryChallengeKeepsAFlag
  <2>3. GeneratedIsPrivate'
    <3>1. ASSUME NEW d \in Challenges, Generated(d)' # {} PROVE Private(d)'
      <4>1. Generated(d) # {} BY <1>11, <3>1
      <4>2. Live(d) BY <1>1, <4>1 DEF FlagsOK, Generated, FlagsOf
      <4>3. Private(d) BY <1>1, <4>1 DEF FlagsOK, GeneratedIsPrivate
      <4> QED BY <1>12, <4>1, <4>2, <4>3
    <3> QED BY <3>1 DEF GeneratedIsPrivate
  <2>4. flag' \in [Flags -> FlagRow] BY <1>1 DEF FlagsOK
  <2> QED BY <2>1, <2>2, <2>3, <2>4 DEF FlagsOK
<1>14. RunningMatchesDefinition'
  <2>1. ASSUME NEW i \in inst
        PROVE  /\ Live(i.chal)' /\ Private(i.chal)' /\ GeneratedFlag(i.chal)' = i.flag
               /\ i.flag # None => flag[i.flag].revision = i.revision
    <3>1. /\ Live(i.chal) /\ Private(i.chal) /\ GeneratedFlag(i.chal) = i.flag
          /\ i.flag # None => flag[i.flag].revision = i.revision
          /\ i.chal \in Challenges
      BY <1>1 DEF HandedOutOK, RunningMatchesDefinition
    <3>2. Running(i.chal) BY DEF Running
    <3>3. Generated(i.chal)' = Generated(i.chal) BY <1>11
    <3>4. GeneratedFlag(i.chal)' = GeneratedFlag(i.chal) BY <3>3 DEF GeneratedFlag
    <3> QED BY <1>9, <1>12, <3>1, <3>2, <3>4
  <2> QED BY <2>1 DEF RunningMatchesDefinition
<1>15. HandedOutOK'
  BY <1>1, <1>14 DEF HandedOutOK, AllocationMatchesDefinition, VariationsAreUnique
<1>16. KeysOK' BY <1>1, <1>9 DEF KeysOK, OneChallengePerKey
<1> QED BY <1>10, <1>13, <1>15, <1>16, Tables DEF DataOK

LEMMA UpdateData ==
  ASSUME IInv, NEW p \in Requests, Update(p)
  PROVE  DataOK'
<1>1. PICK r : r = req[p] OBVIOUS
<1>2. PICK row : row = Updated(r) OBVIOUS
<1>3. /\ r.pc = "writing" /\ r.op = "update" /\ chal' = [chal EXCEPT ![r.chal].def = row]
      /\ gate' = (gate \/ r.arg.enable) /\ UNCHANGED <<cat, flag, alloc, inst, idem, started>>
  BY <1>1, <1>2 DEF Update, Writes, Done
<1>4. WellFormed(r) /\ Decided(r) BY <1>1, <1>3, Writer
<1>5. r.chal \in Challenges /\ r.arg.def \in Definition /\ r.arg.enable \in BOOLEAN
  BY <1>3, <1>4 DEF WellFormed, ChalOps
<1>6. /\ Live(r.chal) /\ cat[r.arg.def.cat] = "live"
      /\ r.arg.def.exposure # chal[r.chal].def.exposure =>
           ~Running(r.chal) /\ (r.arg.def.exposure = "public" => Generated(r.chal) = {})
      /\ Published(r.arg.def) => chal[r.chal].def.runtime = TRUE
  BY <1>3, <1>4 DEF Decided
<1>7. chal[r.chal].def \in Definition BY <1>1, <1>3, <1>5, <1>6, Writer
<1>8. PICK d \in Definition : d = r.arg.def BY <1>5
<1>9. PICK t : t = IF d.exposure = "public" THEN None ELSE chal[r.chal].def.runtime OBVIOUS
<1>10. t \in BOOLEAN \cup {None} BY <1>7, <1>9 DEF Definition
<1>11. row = [exposure |-> d.exposure, hidden |-> d.hidden, runtime |-> t, cat |-> d.cat]
  BY <1>2, <1>8, <1>9 DEF Updated, Definition
<1>12. row.exposure = d.exposure /\ row.hidden = d.hidden /\ row.runtime = t /\ row.cat = d.cat
  BY <1>11
<1>13. row \in Definition BY <1>10, <1>11 DEF Definition
<1>14. Published(row) => row.runtime = TRUE BY <1>6, <1>8, <1>9, <1>12 DEF Published
<1>15. gate' \in BOOLEAN BY <1>3, <1>5, Tables
<1> QED BY <1>3, <1>5, <1>6, <1>8, <1>12, <1>13, <1>14, <1>15, DefinitionWritten

LEMMA PutRuntimeData ==
  ASSUME IInv, NEW p \in Requests, PutRuntime(p)
  PROVE  DataOK'
<1>1. PICK r : r = req[p] OBVIOUS
<1>2. /\ r.pc = "writing" /\ r.op = "put_runtime" /\ Live(r.chal)
      /\ chal' = [chal EXCEPT ![r.chal].def.runtime = r.arg]
      /\ UNCHANGED <<gate, cat, flag, alloc, inst, idem, started>>
  BY <1>1 DEF PutRuntime, Writes, Done
<1>3. WellFormed(r) /\ Decided(r) /\ chal \in [Challenges -> ChallengeRow] BY <1>1, <1>2, Writer
<1>4. r.chal \in Challenges /\ r.arg \in BOOLEAN BY <1>2, <1>3 DEF WellFormed, ChalOps
<1>5. PICK d \in Definition : d = chal[r.chal].def BY <1>1, <1>2, <1>4, Writer
<1>6. PICK row : row = [d EXCEPT !.runtime = r.arg] OBVIOUS
<1>7. chal' = [chal EXCEPT ![r.chal].def = row] BY <1>2, <1>3, <1>4, <1>5, <1>6
<1>8. row = [exposure |-> d.exposure, hidden |-> d.hidden, runtime |-> r.arg, cat |-> d.cat]
  BY <1>6 DEF Definition
<1>9. row.exposure = d.exposure /\ row.hidden = d.hidden /\ row.runtime = r.arg /\ row.cat = d.cat
  BY <1>8
<1>10. row \in Definition BY <1>4, <1>8 DEF Definition
<1>11. Published(row) => row.runtime = TRUE
  BY <1>2, <1>3, <1>4, <1>5, <1>9 DEF Decided, MayPutRuntime, Published
<1>12. cat[row.cat] = "live" BY <1>2, <1>4, <1>5, <1>9, Tables DEF ChallengesOK
<1>13. gate' \in BOOLEAN BY <1>2, Tables
<1> QED BY <1>2, <1>4, <1>5, <1>7, <1>9, <1>10, <1>11, <1>12, <1>13, DefinitionWritten

\* A new challenge has a flag, and its key was not used.
LEMMA CreateData ==
  ASSUME IInv, NEW p \in Requests, Create(p)
  PROVE  DataOK'
<1>1. PICK r : r = req[p] OBVIOUS
<1>2. PICK row : row = [state |-> "live", def |-> r.arg.def, key |-> r.key] OBVIOUS
<1>3. PICK new : new = NewFlag(r.chal, r.arg.type) OBVIOUS
<1>4. /\ r.pc = "writing" /\ r.op = "create" /\ chal[r.chal].state = "none"
      /\ flag[r.flag].state = "none" /\ idem[r.key] = None
      /\ chal' = [chal EXCEPT ![r.chal] = row] /\ flag' = [flag EXCEPT ![r.flag] = new]
      /\ gate' = (gate \/ (r.arg.def.exposure = "private" /\ r.arg.enable))
      /\ idem' = [idem EXCEPT ![r.key] = r.chal]
      /\ UNCHANGED <<cat, alloc, inst, started>>
  BY <1>1, <1>2, <1>3 DEF Create, Writes, Done
<1>5. WellFormed(r) /\ Decided(r) BY <1>1, <1>4, Writer
<1>6. /\ r.chal \in Challenges /\ r.flag \in Flags /\ r.key \in Keys
      /\ r.arg.def \in NewDefinitions /\ r.arg.type \in Types /\ r.arg.enable \in BOOLEAN
      /\ r.arg.type = "generated" => r.arg.def.exposure = "private"
  BY <1>4, <1>5 DEF WellFormed, ChalOps, FlagOps
<1>7. /\ r.arg.def \in Definition /\ cat[r.arg.def.cat] = "live"
      /\ Published(r.arg.def) => r.arg.def.runtime = TRUE
  BY <1>4, <1>5, <1>6 DEF Decided, NewDefinitions
<1>8. ChallengesOK /\ FlagsOK /\ HandedOutOK /\ KeysOK BY Tables
<1>9. row.state = "live" /\ row.def = r.arg.def /\ row.key = r.key /\ row \in ChallengeRow
  BY <1>2, <1>6, <1>7 DEF ChallengeRow
<1>10. /\ new.state = "live" /\ new.chal = r.chal /\ new.type = r.arg.type /\ new \in FlagRow
  BY <1>3, <1>6 DEF NewFlag, FlagRow, Types
<1>11. /\ chal' \in [Challenges -> ChallengeRow]
       /\ \A d \in Challenges : chal'[d] = IF d = r.chal THEN row ELSE chal[d]
  BY <1>4, <1>8, <1>9 DEF ChallengesOK
<1>12. /\ flag' \in [Flags -> FlagRow]
       /\ \A f \in Flags : flag'[f] = IF f = r.flag THEN new ELSE flag[f]
  BY <1>4, <1>8, <1>10 DEF FlagsOK
<1>13. \A d \in Challenges : Live(d)' <=> (Live(d) \/ d = r.chal) BY <1>9, <1>11 DEF Live
<1>14. ~Live(r.chal) BY <1>4 DEF Live
<1>15. \A d \in Challenges : Live(d) => chal'[d] = chal[d] BY <1>11, <1>14
<1>16. chal'[r.chal] = row BY <1>6, <1>11
<1>17. ChallengesOK'
  <2>1. \A d \in Challenges : Live(d)' =>
           chal'[d].def \in Definition /\ cat[chal'[d].def.cat] = "live"
    BY <1>7, <1>8, <1>9, <1>13, <1>15, <1>16 DEF ChallengesOK
  <2>2. PublishedHasRuntime'
    BY <1>7, <1>8, <1>9, <1>13, <1>15, <1>16 DEF ChallengesOK, PublishedHasRuntime
  <2>3. gate' \in BOOLEAN BY <1>4, <1>6, Tables
  <2>4. cat' \in [Categories -> {"live", "gone"}] BY <1>4, <1>8 DEF ChallengesOK
  <2> QED BY <1>4, <1>11, <2>1, <2>2, <2>3, <2>4 DEF ChallengesOK
<1>18. \A f \in Flags : flag[f].state = "live" =>
          /\ f # r.flag /\ flag'[f] = flag[f] /\ flag[f].chal # r.chal
          /\ flag[f].chal \in Challenges /\ Live(flag[f].chal)
  BY <1>4, <1>8, <1>12, <1>14 DEF FlagsOK
<1>19. ASSUME NEW d, d # r.chal PROVE FlagsOf(d)' = FlagsOf(d) /\ Generated(d)' = Generated(d)
  <2>1. \A f \in Flags : f \in FlagsOf(d)' <=> f \in FlagsOf(d)
    BY <1>10, <1>12, <1>18, <1>19 DEF FlagsOf
  <2>2. FlagsOf(d) \subseteq Flags /\ FlagsOf(d)' \subseteq Flags BY DEF FlagsOf
  <2>3. FlagsOf(d)' = FlagsOf(d) BY <2>1, <2>2
  <2>4. \A f \in FlagsOf(d) : flag'[f] = flag[f] BY <1>18 DEF FlagsOf
  <2> QED BY <2>3, <2>4 DEF Generated
<1>20. FlagsOf(r.chal)' = {r.flag}
  <2>1. \A f \in Flags : f \in FlagsOf(r.chal)' <=> f = r.flag
    BY <1>6, <1>10, <1>12, <1>18 DEF FlagsOf
  <2>2. FlagsOf(r.chal)' \subseteq Flags BY DEF FlagsOf
  <2> QED BY <1>6, <2>1, <2>2
<1>21. FlagsOK'
  <2>1. \A f \in Flags : flag'[f].state = "live" => flag'[f].chal \in Challenges /\ chal'[flag'[f].chal].state = "live"
    <3> TAKE f \in Flags
    <3>1. CASE f = r.flag BY <1>6, <1>9, <1>10, <1>12, <1>16, <3>1
    <3>2. CASE f # r.flag BY <1>12, <1>13, <1>18, <3>2 DEF Live
    <3> QED BY <3>1, <3>2
  <2>2. \A d \in Challenges : Live(d)' => FlagsOf(d)' # {}
    BY <1>8, <1>13, <1>19, <1>20 DEF FlagsOK, EveryChallengeKeepsAFlag
  <2>3. ASSUME NEW d \in Challenges, Generated(d)' # {} PROVE Private(d)'
    <3>1. CASE d # r.chal
      <4>1. Generated(d) # {} BY <1>19, <2>3, <3>1
      <4>2. Private(d) BY <1>8, <4>1 DEF FlagsOK, GeneratedIsPrivate
      <4> QED BY <1>11, <3>1, <4>2 DEF Private
    <3>2. CASE d = r.chal
      <4>1. flag'[r.flag].type = "generated" BY <1>20, <2>3, <3>2 DEF Generated
      <4>2. r.arg.type = "generated" BY <1>6, <1>10, <1>12, <4>1
      <4> QED BY <1>6, <1>9, <1>16, <3>2, <4>2 DEF Private
    <3> QED BY <3>1, <3>2
  <2> QED BY <1>12, <2>1, <2>2, <2>3 DEF FlagsOK, EveryChallengeKeepsAFlag, GeneratedIsPrivate, Live
<1>22. RunningMatchesDefinition'
  <2>1. ASSUME NEW i \in inst
        PROVE  /\ Live(i.chal)' /\ Private(i.chal)' /\ GeneratedFlag(i.chal)' = i.flag
               /\ i.flag # None => flag'[i.flag].revision = i.revision
    <3>1. /\ Live(i.chal) /\ Private(i.chal) /\ GeneratedFlag(i.chal) = i.flag
          /\ i.flag # None => flag[i.flag].revision = i.revision
          /\ i.chal \in Challenges
      BY <1>8 DEF HandedOutOK, RunningMatchesDefinition
    <3>2. i.chal # r.chal BY <1>14, <3>1
    <3>3. Generated(i.chal)' = Generated(i.chal) BY <1>19, <3>2
    <3>4. GeneratedFlag(i.chal)' = GeneratedFlag(i.chal) BY <3>3 DEF GeneratedFlag
    <3>5. i.flag # None => i.flag \in Flags /\ flag[i.flag].state = "live"
      BY <3>1 DEF GeneratedFlag, Generated, FlagsOf
    <3>6. i.flag # None => flag'[i.flag].revision = i.revision BY <1>18, <3>1, <3>5
    <3>7. Live(i.chal)' /\ Private(i.chal)' BY <1>11, <1>13, <3>1, <3>2 DEF Private
    <3> QED BY <3>1, <3>4, <3>6, <3>7
  <2> QED BY <1>4, <2>1 DEF RunningMatchesDefinition
<1>23. AllocationMatchesDefinition'
  BY <1>4, <1>8, <1>18 DEF HandedOutOK, AllocationMatchesDefinition
<1>24. HandedOutOK' BY <1>4, <1>8, <1>22, <1>23 DEF HandedOutOK, VariationsAreUnique
<1>25. KeysOK'
  <2>1. /\ idem' \in [Keys -> Challenges \cup {None}]
        /\ \A k \in Keys : idem'[k] = IF k = r.key THEN r.chal ELSE idem[k]
    BY <1>4, <1>6, <1>8 DEF KeysOK
  <2>2. \A d \in Challenges : Live(d) /\ chal[d].key # None => idem[chal[d].key] = d
    BY <1>8 DEF KeysOK
  <2>3. \A d \in Challenges : chal[d].key \in Keys \cup {None}
    BY <1>8 DEF ChallengesOK, ChallengeRow
  <2>4. \A d \in Challenges : Live(d) => chal[d].key # r.key
    <3> SUFFICES ASSUME NEW d \in Challenges, Live(d), chal[d].key = r.key PROVE FALSE OBVIOUS
    <3>1. r.key # None BY <1>6, DefinitionsAssumption
    <3>2. idem[r.key] = d BY <2>2, <3>1
    <3> QED BY <1>4, <3>2, DefinitionsAssumption
  <2>5. \A k \in Keys : idem'[k] # None => chal'[idem'[k]].state = "live" /\ chal'[idem'[k]].key = k
    <3> SUFFICES ASSUME NEW k \in Keys, idem'[k] # None
                 PROVE  chal'[idem'[k]].state = "live" /\ chal'[idem'[k]].key = k
      OBVIOUS
    <3>1. CASE k = r.key BY <1>6, <1>9, <1>16, <2>1, <3>1
    <3>2. CASE k # r.key
      <4>1. idem'[k] = idem[k] /\ idem[k] \in Challenges BY <1>8, <2>1, <3>2 DEF KeysOK
      <4>2. Live(idem[k]) /\ chal[idem[k]].key = k BY <1>8, <4>1 DEF KeysOK, OneChallengePerKey
      <4> QED BY <1>15, <4>1, <4>2 DEF Live
    <3> QED BY <3>1, <3>2
  <2>6. \A c, d \in Challenges :
           Live(c)' /\ Live(d)' /\ chal'[c].key = chal'[d].key /\ chal'[c].key # None => c = d
    BY <1>8, <1>9, <1>13, <1>15, <1>16, <2>4 DEF KeysOK, OneChallengePerKey
  <2>7. \A d \in Challenges : Live(d)' /\ chal'[d].key # None => idem'[chal'[d].key] = d
    <3> TAKE d \in Challenges
    <3>1. CASE d = r.chal BY <1>6, <1>9, <1>16, <2>1, <3>1
    <3>2. CASE d # r.chal BY <1>13, <1>15, <2>1, <2>2, <2>3, <2>4, <3>2
    <3> QED BY <3>1, <3>2
  <2> QED BY <2>1, <2>5, <2>6, <2>7 DEF KeysOK, OneChallengePerKey, Live
<1> QED BY <1>4, <1>17, <1>21, <1>24, <1>25, Tables DEF DataOK

\* A challenge goes with its flags and its key, when nothing of it was handed out.
LEMMA DeleteData ==
  ASSUME IInv, NEW p \in Requests, Delete(p)
  PROVE  DataOK'
<1>1. PICK r : r = req[p] OBVIOUS
<1>2. PICK row : row = [NoChallenge EXCEPT !.state = "gone"] OBVIOUS
<1>3. /\ r.pc = "writing" /\ r.op = "delete" /\ chal' = [chal EXCEPT ![r.chal] = row]
      /\ flag' = [f \in Flags |-> IF f \in FlagsOf(r.chal) THEN GoneFlag ELSE flag[f]]
      /\ idem' = Forget(r.chal)
      /\ UNCHANGED <<gate, cat, alloc, inst, started>>
  BY <1>1, <1>2 DEF Delete, Writes, Done
<1>4. WellFormed(r) /\ Decided(r) BY <1>1, <1>3, Writer
<1>5. r.chal \in Challenges /\ MayDelete(r) BY <1>3, <1>4 DEF WellFormed, ChalOps, Decided
<1>6. ChallengesOK /\ FlagsOK /\ HandedOutOK /\ KeysOK BY Tables
<1>7. row.state = "gone" /\ row \in ChallengeRow BY <1>2 DEF NoChallenge, ChallengeRow
<1>8. GoneFlag.state = "gone" /\ GoneFlag \in FlagRow BY DEF GoneFlag, NoFlag, FlagRow
<1>9. /\ chal' \in [Challenges -> ChallengeRow]
      /\ \A d \in Challenges : chal'[d] = IF d = r.chal THEN row ELSE chal[d]
  BY <1>3, <1>6, <1>7 DEF ChallengesOK
<1>10. \A f \in Flags : flag'[f] = IF f \in FlagsOf(r.chal) THEN GoneFlag ELSE flag[f] BY <1>3
<1>11. flag' \in [Flags -> FlagRow] BY <1>3, <1>6, <1>8 DEF FlagsOK
<1>12. \A d \in Challenges : /\ Live(d)' <=> (Live(d) /\ d # r.chal)
                             /\ Live(d)' => chal'[d] = chal[d]
  BY <1>7, <1>9 DEF Live
<1>13. \A f \in Flags : flag'[f].state = "live" =>
          /\ flag'[f] = flag[f] /\ flag[f].state = "live" /\ flag[f].chal # r.chal
          /\ flag[f].chal \in Challenges /\ Live(flag[f].chal)
  BY <1>6, <1>8, <1>10 DEF FlagsOK, FlagsOf
<1>14. ChallengesOK'
  <2>1. \A d \in Challenges : Live(d)' =>
           chal'[d].def \in Definition /\ cat[chal'[d].def.cat] = "live"
    BY <1>6, <1>12 DEF ChallengesOK
  <2>2. PublishedHasRuntime' BY <1>6, <1>12 DEF ChallengesOK, PublishedHasRuntime
  <2> QED BY <1>3, <1>6, <1>9, <2>1, <2>2 DEF ChallengesOK
<1>15. ASSUME NEW d, d # r.chal PROVE FlagsOf(d)' = FlagsOf(d) /\ Generated(d)' = Generated(d)
  <2>1. \A f \in Flags : f \in FlagsOf(d)' <=> f \in FlagsOf(d)
    BY <1>8, <1>10, <1>15 DEF FlagsOf
  <2>2. FlagsOf(d) \subseteq Flags /\ FlagsOf(d)' \subseteq Flags BY DEF FlagsOf
  <2>3. FlagsOf(d)' = FlagsOf(d) BY <2>1, <2>2
  <2>4. \A f \in FlagsOf(d) : flag'[f] = flag[f] BY <1>10, <1>15 DEF FlagsOf
  <2> QED BY <2>3, <2>4 DEF Generated
<1>16. Generated(r.chal)' = {} BY <1>13 DEF Generated, FlagsOf
<1>17. FlagsOK'
  <2>1. \A f \in Flags : flag'[f].state = "live" => flag'[f].chal \in Challenges /\ chal'[flag'[f].chal].state = "live"
    BY <1>12, <1>13 DEF Live
  <2>2. \A d \in Challenges : Live(d)' => FlagsOf(d)' # {}
    BY <1>6, <1>12, <1>15 DEF FlagsOK, EveryChallengeKeepsAFlag
  <2>3. \A d \in Challenges : Generated(d)' # {} => Private(d)'
    BY <1>6, <1>9, <1>15, <1>16 DEF FlagsOK, GeneratedIsPrivate, Private
  <2> QED BY <1>11, <2>1, <2>2, <2>3 DEF FlagsOK, EveryChallengeKeepsAFlag, GeneratedIsPrivate, Live
<1>18. RunningMatchesDefinition'
  <2>1. ASSUME NEW i \in inst
        PROVE  /\ Live(i.chal)' /\ Private(i.chal)' /\ GeneratedFlag(i.chal)' = i.flag
               /\ i.flag # None => flag'[i.flag].revision = i.revision
    <3>1. /\ Live(i.chal) /\ Private(i.chal) /\ GeneratedFlag(i.chal) = i.flag
          /\ i.flag # None => flag[i.flag].revision = i.revision
          /\ i.chal \in Challenges
      BY <1>6 DEF HandedOutOK, RunningMatchesDefinition
    <3>2. i.chal # r.chal BY <1>5 DEF MayDelete, Running
    <3>3. Generated(i.chal)' = Generated(i.chal) BY <1>15, <3>2
    <3>4. GeneratedFlag(i.chal)' = GeneratedFlag(i.chal) BY <3>3 DEF GeneratedFlag
    <3>5. i.flag # None => i.flag \in Flags /\ flag[i.flag].chal = i.chal
      BY <3>1 DEF GeneratedFlag, Generated, FlagsOf
    <3>6. i.flag # None => flag'[i.flag].revision = i.revision
      BY <1>10, <3>1, <3>2, <3>5 DEF FlagsOf
    <3>7. Live(i.chal)' /\ Private(i.chal)' BY <1>9, <1>12, <3>1, <3>2 DEF Private
    <3> QED BY <3>1, <3>4, <3>6, <3>7
  <2> QED BY <1>3, <2>1 DEF RunningMatchesDefinition
<1>19. AllocationMatchesDefinition'
  <2>1. ASSUME NEW a \in alloc PROVE flag'[a.flag] = flag[a.flag]
    <3>1. a.flag \in Flags /\ flag[a.flag].chal = a.chal /\ a.chal # r.chal
      BY <1>5, <1>6 DEF HandedOutOK, AllocationMatchesDefinition, MayDelete
    <3> QED BY <1>10, <3>1 DEF FlagsOf
  <2> QED BY <1>3, <1>6, <2>1 DEF HandedOutOK, AllocationMatchesDefinition
<1>20. HandedOutOK' BY <1>3, <1>6, <1>18, <1>19 DEF HandedOutOK, VariationsAreUnique
<1>21. KeysOK'
  <2>1. \A k \in Keys : idem'[k] = IF idem[k] = r.chal THEN None ELSE idem[k] BY <1>3 DEF Forget
  <2>2. idem' \in [Keys -> Challenges \cup {None}] BY <1>3, <1>6 DEF Forget, KeysOK
  <2>3. \A k \in Keys : idem'[k] # None => chal'[idem'[k]].state = "live" /\ chal'[idem'[k]].key = k
    <3> SUFFICES ASSUME NEW k \in Keys, idem'[k] # None
                 PROVE  chal'[idem'[k]].state = "live" /\ chal'[idem'[k]].key = k
      OBVIOUS
    <3>1. idem'[k] = idem[k] /\ idem[k] # r.chal /\ idem[k] \in Challenges BY <1>6, <2>1 DEF KeysOK
    <3>2. Live(idem[k]) /\ chal[idem[k]].key = k BY <1>6, <3>1 DEF KeysOK, OneChallengePerKey
    <3> QED BY <1>12, <3>1, <3>2 DEF Live
  <2>4. \A c, d \in Challenges :
           Live(c)' /\ Live(d)' /\ chal'[c].key = chal'[d].key /\ chal'[c].key # None => c = d
    BY <1>6, <1>12 DEF KeysOK, OneChallengePerKey
  <2>5. \A d \in Challenges : chal[d].key \in Keys \cup {None} BY <1>6 DEF ChallengesOK, ChallengeRow
  <2>6. \A d \in Challenges : Live(d)' /\ chal'[d].key # None => idem'[chal'[d].key] = d
    BY <1>6, <1>12, <2>1, <2>5 DEF KeysOK
  <2> QED BY <2>2, <2>3, <2>4, <2>6 DEF KeysOK, OneChallengePerKey, Live
<1> QED BY <1>3, <1>14, <1>17, <1>20, <1>21, Tables DEF DataOK

----------------------------------------------------------------------------
(* The invariant *)

\* Every step keeps it.
LEMMA StepInvariant ==
  ASSUME IInv, Next
  PROVE  IInv'
<1>1. ASSUME NEW p \in Requests, Step(p) PROVE IInv'
  <2>1. DataOK'
    <3>1. CASE Calm(p) BY <3>1, CalmData
    <3>2. CASE Create(p) BY <3>2, CreateData
    <3>3. CASE Update(p) BY <3>3, UpdateData
    <3>4. CASE Delete(p) BY <3>4, DeleteData
    <3>5. CASE PutRuntime(p) BY <3>5, PutRuntimeData
    <3>6. CASE CreateFlag(p) \/ UpdateFlag(p) \/ DeleteFlag(p) BY <3>6, FlagData
    <3>7. CASE Launch(p) BY <3>7, LaunchData
    <3>8. CASE DeleteCategory(p) BY <3>8, DeleteCategoryData
    <3> QED BY <1>1, <3>1, <3>2, <3>3, <3>4, <3>5, <3>6, <3>7, <3>8 DEF Step, Calm
  <2> QED BY <1>1, <2>1, RequestsKept DEF IInv
<1>2. ASSUME InstanceStops \/ ClearAllocations PROVE IInv'
  BY <1>2, OutsideKeeps, OutsideData DEF IInv
<1> QED BY <1>1, <1>2 DEF Next

LEMMA StutterInvariant == ASSUME IInv, UNCHANGED vars PROVE IInv'
<1>1. UNCHANGED <<gate, cat, chal, flag, alloc, inst, idem, req, started>> BY DEF vars, tables
<1>2. \A q \in Requests : Undisturbed(q) BY <1>1, QuietStep
<1>3. \A q \in Requests : InOrder(q) BY <1>2, BystanderInOrder
<1>4. req' = [q \in Requests |-> req'[q]] BY <1>1 DEF IInv, RequestsTyped
<1>5. RequestsTyped' /\ LocksTaken' /\ DecisionsHold' BY <1>3, <1>4, AllInOrder
<1>6. ExclusiveLocks' BY <1>1 DEF IInv, ExclusiveLocks, Held
<1>7. ChallengesOK' BY <1>1, Tables, SameTables
<1>8. FlagsOK' /\ HandedOutOK' /\ KeysOK' BY <1>1, Tables, SameTables
<1> QED BY <1>1, <1>5, <1>6, <1>7, <1>8, Tables DEF IInv, DataOK

\* The first challenge, its flag and what was handed out from it.
LEMMA InitData == ASSUME Init PROVE DataOK
<1>1. PICK c \in Challenges, d \in Challenges, f \in Flags, h \in Flags, e \in NewDefinitions, k \in Keys :
        /\ c < d /\ f # h /\ cat[e.cat] = "live"
        /\ \E two \in BOOLEAN :
            chal = [x \in Challenges |->
                CASE x = c -> [state |-> "live", def |-> e, key |-> k]
                  [] x = d /\ two -> [state |-> "live", key |-> None,
                        def |-> [e EXCEPT !.exposure = "public", !.hidden = FALSE,
                                          !.runtime = None]]
                  [] OTHER -> NoChallenge]
        /\ \E type \in {"static", "generated"}, more \in {c, None} :
            /\ type = "generated" => e.exposure = "private"
            /\ flag = [x \in Flags |->
                CASE x = f -> NewFlag(c, type)
                  [] x = h /\ Live(d) -> NewFlag(d, "static")
                  [] x = h /\ ~Live(d) /\ more = c -> NewFlag(c, "static")
                  [] OTHER -> NoFlag]
        /\ idem = [x \in Keys |-> IF x = k THEN c ELSE None]
        /\ \E given \in SUBSET Users :
            /\ Cardinality(given) <= 1 /\ (given # {} => flag[f].type = "generated")
            /\ alloc = {[flag |-> f, chal |-> c, user |-> u, revision |-> 1, mask |-> 1] : u \in given}
            /\ inst \in {{}} \cup {{[user |-> u, chal |-> c, flag |-> f, revision |-> 1]} : u \in given}
  BY DEF Init
<1>2. PICK pub : pub = [e EXCEPT !.exposure = "public", !.hidden = FALSE, !.runtime = None] OBVIOUS
<1>3. PICK one : one = [state |-> "live", def |-> e, key |-> k] OBVIOUS
<1>4. PICK other : other = [state |-> "live", key |-> None, def |-> pub] OBVIOUS
<1>5. PICK two \in BOOLEAN :
        chal = [x \in Challenges |-> CASE x = c -> one [] x = d /\ two -> other [] OTHER -> NoChallenge]
  BY <1>1, <1>2, <1>3, <1>4
<1>6. PICK type \in {"static", "generated"}, more \in {c, None} :
            /\ type = "generated" => e.exposure = "private"
            /\ flag = [x \in Flags |->
                CASE x = f -> NewFlag(c, type)
                  [] x = h /\ Live(d) -> NewFlag(d, "static")
                  [] x = h /\ ~Live(d) /\ more = c -> NewFlag(c, "static")
                  [] OTHER -> NoFlag]
  BY <1>1
<1>7. e \in Definition /\ (Published(e) => e.runtime = TRUE) BY DEF NewDefinitions
<1>8. pub = [exposure |-> "public", hidden |-> FALSE, runtime |-> None, cat |-> e.cat]
  BY <1>2, <1>7 DEF Definition
<1>9. pub \in Definition /\ pub.exposure = "public" /\ pub.cat = e.cat
  BY <1>7, <1>8 DEF Definition
<1>10. c \in Nat /\ d \in Nat /\ c # d BY <1>1, DefinitionsAssumption
<1>11. /\ one.state = "live" /\ one.def = e /\ one.key = k
       /\ other.state = "live" /\ other.def = pub /\ other.key = None
       /\ NoChallenge.state = "none"
  BY <1>3, <1>4 DEF NoChallenge
<1>12. one \in ChallengeRow /\ other \in ChallengeRow /\ NoChallenge \in ChallengeRow
  BY <1>3, <1>4, <1>7, <1>9 DEF ChallengeRow, NoChallenge
<1>13. /\ chal \in [Challenges -> ChallengeRow] /\ chal[c] = one
       /\ \A x \in Challenges : chal[x].state = "live" => x = c \/ (x = d /\ chal[x] = other)
  BY <1>5, <1>10, <1>11, <1>12
<1>14. Live(c) BY <1>11, <1>13 DEF Live
<1>15. gate = TRUE /\ cat = [g \in Categories |-> "live"] /\ started = 0 BY DEF Init
<1>16. ChallengesOK
  <2>1. \A x \in Challenges : Live(x) => chal[x].def \in Definition /\ cat[chal[x].def.cat] = "live"
    BY <1>1, <1>7, <1>9, <1>11, <1>13 DEF Live
  <2>2. PublishedHasRuntime
    BY <1>7, <1>9, <1>11, <1>13 DEF PublishedHasRuntime, Published, Live
  <2>3. cat \in [Categories -> {"live", "gone"}] BY <1>15
  <2> QED BY <1>13, <1>15, <2>1, <2>2, <2>3 DEF ChallengesOK
<1>17. /\ \A x \in Challenges, t \in {"static", "generated"} :
             /\ NewFlag(x, t) \in FlagRow /\ NewFlag(x, t).state = "live" /\ NewFlag(x, t).chal = x
             /\ NewFlag(x, t).type = t /\ NewFlag(x, t).revision = 1
       /\ NoFlag \in FlagRow /\ NoFlag.state = "none"
  BY DEF NewFlag, NoFlag, FlagRow
<1> HIDE DEF NewFlag, NoFlag
<1>18. /\ flag \in [Flags -> FlagRow] /\ flag[f] = NewFlag(c, type)
       /\ Live(d) => flag[h] = NewFlag(d, "static")
       /\ \A x \in Flags : flag[x].state = "live" =>
            \/ x = f
            \/ x = h /\ flag[x].type = "static" /\ (flag[x].chal = c \/ (flag[x].chal = d /\ Live(d)))
  <2>1. \A x \in Flags :
           flag[x] \in {NewFlag(c, type), NewFlag(d, "static"), NewFlag(c, "static"), NoFlag}
    BY <1>6
  <2>2. \A x \in Flags : flag[x] \in FlagRow BY <1>17, <2>1
  <2>3. flag = [x \in Flags |-> flag[x]] BY <1>6
  <2>4. flag[f] = NewFlag(c, type) BY <1>1, <1>6
  <2>5. Live(d) => flag[h] = NewFlag(d, "static") BY <1>1, <1>6
  <2>6. \A x \in Flags : x # f /\ x # h => flag[x] = NoFlag BY <1>6
  <2>7. Live(d) \/ flag[h] = NewFlag(c, "static") \/ flag[h] = NoFlag BY <1>1, <1>6
  <2> QED BY <1>17, <2>2, <2>3, <2>4, <2>5, <2>6, <2>7
<1>19. /\ flag[f].state = "live" /\ flag[f].chal = c /\ flag[f].type = type /\ flag[f].revision = 1
  BY <1>17, <1>18
<1>20. \A x \in Flags : flag[x].state = "live" /\ flag[x].type = "generated" => x = f /\ type = "generated"
  BY <1>18, <1>19
<1>21. FlagsOK
  <2>1. \A x \in Flags : flag[x].state = "live" => flag[x].chal \in Challenges /\ Live(flag[x].chal)
    BY <1>14, <1>18, <1>19
  <2>2. EveryChallengeKeepsAFlag
    <3> SUFFICES ASSUME NEW x \in Challenges, Live(x) PROVE FlagsOf(x) # {}
      BY DEF EveryChallengeKeepsAFlag
    <3>1. CASE x = c
      <4>1. f \in FlagsOf(x) BY <1>19, <3>1 DEF FlagsOf
      <4> QED BY <4>1
    <3>2. CASE x = d
      <4>1. h \in FlagsOf(x) BY <1>17, <1>18, <3>2 DEF FlagsOf
      <4> QED BY <4>1
    <3> QED BY <1>13, <3>1, <3>2 DEF Live
  <2>3. GeneratedIsPrivate
    <3> SUFFICES ASSUME NEW x \in Challenges, Generated(x) # {} PROVE Private(x)
      BY DEF GeneratedIsPrivate
    <3>1. x = c /\ type = "generated" BY <1>19, <1>20 DEF Generated, FlagsOf
    <3> QED BY <1>6, <1>11, <1>13, <3>1 DEF Private
  <2> QED BY <1>18, <2>1, <2>2, <2>3 DEF FlagsOK
<1>22. PICK given \in SUBSET Users :
            /\ Cardinality(given) <= 1 /\ (given # {} => flag[f].type = "generated")
            /\ alloc = {[flag |-> f, chal |-> c, user |-> u, revision |-> 1, mask |-> 1] : u \in given}
            /\ inst \in {{}} \cup {{[user |-> u, chal |-> c, flag |-> f, revision |-> 1]} : u \in given}
  BY <1>1
<1>23. IsFiniteSet(given) BY FS_Subset, DefinitionsAssumption
<1>24. \A u, v \in given : u = v
  <2> SUFFICES ASSUME NEW u \in given, NEW v \in given, u # v PROVE FALSE OBVIOUS
  <2>1. IsFiniteSet({v}) /\ Cardinality({v}) = 1 BY FS_Singleton
  <2>2. Cardinality({v} \cup {u}) = 2
    <3>1. u \notin {v} OBVIOUS
    <3>2. Cardinality({v} \cup {u}) = Cardinality({v}) + 1 BY <2>1, <3>1, FS_AddElement
    <3> QED BY <2>1, <3>2
  <2>3. Cardinality({v} \cup {u}) <= Cardinality(given) BY <1>23, FS_Subset
  <2>4. Cardinality(given) \in Nat BY <1>23, FS_CardinalityType
  <2>5. Cardinality(given) <= 1 BY <1>22
  <2> QED BY <2>2, <2>3, <2>4, <2>5
<1>25. IsFiniteSet(alloc)
  <2> DEFINE row(u) == [flag |-> f, chal |-> c, user |-> u, revision |-> 1, mask |-> 1]
             g == [u \in given |-> row(u)]
  <2>1. g \in Surjection(given, alloc) BY <1>22 DEF Surjection
  <2> HIDE DEF g
  <2> QED BY <1>23, <2>1, FS_Surjection
<1>26. \A a \in alloc : /\ a.flag = f /\ a.chal = c /\ a.revision = 1 /\ a.user \in given
                        /\ type = "generated"
  BY <1>19, <1>22
<1>27. \A i \in inst : i.chal = c /\ i.flag = f /\ i.revision = 1 /\ type = "generated"
  BY <1>19, <1>22
<1>28. type = "generated" => Private(c) /\ GeneratedFlag(c) = f
  <2> SUFFICES ASSUME type = "generated" PROVE Private(c) /\ GeneratedFlag(c) = f OBVIOUS
  <2>1. Private(c) BY <1>6, <1>11, <1>13 DEF Private
  <2>2. \A x \in Flags : x \in Generated(c) <=> x = f BY <1>19, <1>20 DEF Generated, FlagsOf
  <2>3. Generated(c) = {f}
    <3>1. Generated(c) \subseteq Flags BY DEF Generated, FlagsOf
    <3> QED BY <2>2, <3>1
  <2> QED BY <2>1, <2>3 DEF GeneratedFlag
<1>29. HandedOutOK
  <2>1. AllocationMatchesDefinition BY <1>19, <1>26 DEF AllocationMatchesDefinition
  <2>2. RunningMatchesDefinition BY <1>14, <1>19, <1>27, <1>28 DEF RunningMatchesDefinition
  <2>3. VariationsAreUnique BY <1>24, <1>26 DEF VariationsAreUnique
  <2> QED BY <1>25, <1>26, <1>27, <2>1, <2>2, <2>3 DEF HandedOutOK
<1>30. KeysOK
  <2>1. idem \in [Keys -> Challenges \cup {None}] /\ \A x \in Keys : idem[x] = IF x = k THEN c ELSE None
    BY <1>1
  <2> QED BY <1>11, <1>13, <1>14, <2>1 DEF KeysOK, OneChallengePerKey, Live
<1> QED BY <1>15, <1>16, <1>21, <1>29, <1>30 DEF DataOK

LEMMA InitInvariant == ASSUME Init PROVE IInv
<1>1. req = [p \in Requests |-> Idle] BY DEF Init
<1>2. Idle.pc = "idle" /\ Idle.taken = 0 /\ IsRequest(Idle) BY DEF Idle, IsRequest
<1>3. RequestsTyped BY <1>1, <1>2 DEF RequestsTyped
<1>4. LocksTaken /\ DecisionsHold BY <1>1, <1>2 DEF LocksTaken, DecisionsHold
<1>5. \A p \in Requests : Held[p] = {} BY <1>1, <1>2, TakenNone DEF Held
<1>6. ExclusiveLocks
  <2>1. DOMAIN Held = Requests BY DEF Held
  <2> HIDE DEF Held
  <2> QED BY <1>5, <2>1 DEF ExclusiveLocks, Exclusion
<1> QED BY <1>3, <1>4, <1>6, InitData DEF IInv

\* What the handlers rely on, and what they leave behind.
THEOREM Invariant_Correct == Spec => []IInv
<1>1. Init => IInv BY InitInvariant
<1>2. IInv /\ [Next]_vars => IInv' BY StepInvariant, StutterInvariant
<1> QED BY <1>1, <1>2, PTL DEF Spec

----------------------------------------------------------------------------
(* What it means for the portal *)

\* The foreign keys of challenges and flags and their columns' types, and every
\* handler stops at its last lock.
THEOREM DefinitionsTypeCorrect == Spec => []TypeOK
<1>1. ASSUME IInv PROVE TypeOK
  <2>1. \A p \in Requests : IF req[p].pc = "idle" THEN req[p].taken = 0
                            ELSE req[p].taken <= Len(Locks(req[p]))
    BY <1>1 DEF IInv, RequestsTyped, LocksTaken
  <2> QED BY <1>1, <2>1, Tables DEF TypeOK, ChallengesOK, FlagsOK
<1> QED BY <1>1, Invariant_Correct, PTL

\* delete_flag and update_flag lock the definitions before they count the flags that
\* would remain, and create_challenge makes the first flag in its own transaction.
THEOREM ChallengesKeepAFlag == Spec => []EveryChallengeKeepsAFlag
<1>1. IInv => EveryChallengeKeepsAFlag BY Tables DEF FlagsOK
<1> QED BY <1>1, Invariant_Correct, PTL

\* A change of exposure and a flag that becomes generated exclude each other on the
\* challenge's definition.
THEOREM GeneratedFlagsArePrivate == Spec => []GeneratedIsPrivate
<1>1. IInv => GeneratedIsPrivate BY Tables DEF FlagsOK
<1> QED BY <1>1, Invariant_Correct, PTL

\* Publishing locks the challenge's row before it looks for the runtime, and so does
\* put_challenge_runtime before it disables it.
THEOREM PublishedChallengesHaveRuntimes == Spec => []PublishedHasRuntime
<1>1. IInv => PublishedHasRuntime BY Tables DEF ChallengesOK
<1> QED BY <1>1, Invariant_Correct, PTL

\* A launch and every change of the definition exclude each other, so what runs was
\* made from the definition as it is.
THEOREM RunningChallengesMatch == Spec => []RunningMatchesDefinition
<1>1. IInv => RunningMatchesDefinition BY Tables DEF HandedOutOK
<1> QED BY <1>1, Invariant_Correct, PTL

\* ensure_definition_can_change: what was handed out to users is not redefined.
THEOREM AllocationsMatch == Spec => []AllocationMatchesDefinition
<1>1. IInv => AllocationMatchesDefinition BY Tables DEF HandedOutOK
<1> QED BY <1>1, Invariant_Correct, PTL

\* materialize_for_launch: the variation a launch is about to write is nobody else's.
THEOREM LaunchesDiffer == Spec => []VariationsDiffer
<1>1. ASSUME IInv, NEW p \in Requests, req[p].pc = "writing", req[p].op = "launch",
             NEW a \in alloc, a.flag = req[p].pick.flag, a.mask = req[p].pick.mask
      PROVE  a.user = req[p].user
  <2>1. Decided(req[p]) BY <1>1 DEF IInv, DecisionsHold
  <2>2. a.flag \in Flags BY <1>1, Tables DEF HandedOutOK
  <2>3. a.flag # None BY <2>2, DefinitionsAssumption
  <2> QED BY <1>1, <2>1, <2>3 DEF Decided
<1>2. IInv => VariationsDiffer BY <1>1 DEF VariationsDiffer
<1> QED BY <1>2, Invariant_Correct, PTL

\* admin_create_idempotency: a key is remembered as long as what it created exists.
THEOREM KeysCreateOnce == Spec => []OneChallengePerKey
<1>1. IInv => OneChallengePerKey BY Tables DEF KeysOK
<1> QED BY <1>1, Invariant_Correct, PTL

----------------------------------------------------------------------------
(* No circle of waiting transactions *)

\* The order in which the handlers take their locks, and the definitions among
\* themselves by the identifiers of their challenges.
Rank(l) ==
    LET kind == l.lock[1] IN
    CASE kind = "configuration" -> 1
      [] kind = "create_idempotency" -> 2
      [] kind = "challenge_definition" -> 3
      [] kind = "flag" -> 4
      [] kind = "challenge" -> 5
      [] kind = "category" -> 6
      [] kind = "setting" -> 7
      [] OTHER -> 8

Before(a, b) == Rank(a) < Rank(b) \/ (Rank(a) = 3 /\ Rank(b) = 3 /\ a.lock[2] < b.lock[2])

\* The locks of the handlers in that order.
LEMMA Ranks ==
  /\ Rank(Configuration) = 1
  /\ \A k : Rank(KeyLock(k)) = 2
  /\ \A c : Rank(DefinitionLock(c)) = 3 /\ DefinitionLock(c).lock[2] = c
  /\ \A f : Rank(ForUpdate("flag", f)) = 4
  /\ \A c : Rank(Row(c)) = 5 /\ Rank(KeyShare("challenge", c)) = 5
  /\ \A g : Rank(Category(g)) = 6 /\ Rank(ForUpdate("category", g)) = 6
  /\ Rank(GateRow) = 7 /\ Rank(KeyShare("setting", Gate)) = 7 /\ Rank(NoKeyUpdate("setting", Gate)) = 7
  /\ \A u : Rank(ForUpdate("user", u)) = 8
  /\ \A l : Rank(l) \in 1..8
<1>1. \A l : Rank(l) \in 1..8 BY DEF Rank
<1>2. Rank(Configuration) = 1 BY DEF Rank, Configuration, Shared
<1>3. \A k : Rank(KeyLock(k)) = 2 BY DEF Rank, KeyLock, ExclusiveOn
<1>4. \A c : Rank(DefinitionLock(c)) = 3 /\ DefinitionLock(c).lock[2] = c
  BY DEF Rank, DefinitionLock, ExclusiveOn
<1>5. \A f : Rank(ForUpdate("flag", f)) = 4 BY DEF Rank, ForUpdate
<1>6. \A c : Rank(Row(c)) = 5 /\ Rank(KeyShare("challenge", c)) = 5 BY DEF Rank, Row, ForUpdate, KeyShare
<1>7. \A g : Rank(Category(g)) = 6 /\ Rank(ForUpdate("category", g)) = 6
  BY DEF Rank, Category, ForUpdate, KeyShare
<1>8. /\ Rank(GateRow) = 7 /\ Rank(KeyShare("setting", Gate)) = 7
      /\ Rank(NoKeyUpdate("setting", Gate)) = 7
  BY DEF Rank, GateRow, ForUpdate, KeyShare, NoKeyUpdate
<1>9. \A u : Rank(ForUpdate("user", u)) = 8 BY DEF Rank, ForUpdate
<1> QED BY <1>1, <1>2, <1>3, <1>4, <1>5, <1>6, <1>7, <1>8, <1>9

\* Every handler takes its locks in the common order, and the locks of rank 3 are
\* those of definitions.
LEMMA LocksRise ==
  ASSUME NEW r, WellFormed(r)
  PROVE  LET m == Locks(r) IN
         /\ Len(m) \in Nat
         /\ \A i, j \in 1..Len(m) : i < j => Before(m[i], m[j])
         /\ \A i \in 1..Len(m) : Rank(m[i]) = 3 =>
              \E c \in Challenges : m[i] = DefinitionLock(c)
<1>1. PICK m : m = Locks(r) OBVIOUS
<1>2. PICK d : d = DefinitionLock(r.chal) OBVIOUS
<1>3. PICK o : o = DefinitionLock(r.from) OBVIOUS
<1>4. PICK f : f = ForUpdate("flag", r.flag) OBVIOUS
<1>5. PICK k : k = KeyShare("challenge", r.chal) OBVIOUS
<1>6. PICK g : g = Category(r.arg.def.cat) OBVIOUS
<1>7. PICK c : c = ForUpdate("category", r.cat) OBVIOUS
<1>8. PICK y : y = KeyLock(r.key) OBVIOUS
<1>9. PICK s : s = KeyShare("setting", Gate) OBVIOUS
<1>10. PICK u : u = ForUpdate("user", r.user) OBVIOUS
<1>11. PICK row : row = Row(r.chal) OBVIOUS
<1>12. /\ Rank(Configuration) = 1 /\ Rank(y) = 2 /\ Rank(d) = 3 /\ Rank(o) = 3 /\ Rank(f) = 4
       /\ Rank(k) = 5 /\ Rank(row) = 5 /\ Rank(g) = 6 /\ Rank(c) = 6 /\ Rank(GateRow) = 7
       /\ Rank(s) = 7 /\ Rank(u) = 8 /\ d.lock[2] = r.chal /\ o.lock[2] = r.from
  BY <1>2, <1>3, <1>4, <1>5, <1>6, <1>7, <1>8, <1>9, <1>10, <1>11, Ranks
<1>13. \/ r.op = "create" /\ IsFour(m, Configuration, y, g, GateRow)
       \/ r.op = "create" /\ IsThree(m, Configuration, y, g)
       \/ r.op = "update" /\ IsFive(m, Configuration, d, row, g, GateRow)
       \/ r.op = "update" /\ IsFour(m, Configuration, d, row, g)
       \/ r.op = "delete" /\ IsThree(m, Configuration, d, row)
       \/ r.op = "put_runtime" /\ IsTwo(m, Configuration, row)
       \/ r.op = "create_flag" /\ IsTwo(m, d, k)
       \/ r.op = "update_flag" /\ r.from = r.chal /\ IsThree(m, d, f, k)
       \/ r.op = "update_flag" /\ r.from < r.chal /\ IsFour(m, o, d, f, k)
       \/ r.op = "update_flag" /\ r.from > r.chal /\ IsFour(m, d, o, f, k)
       \/ r.op = "delete_flag" /\ IsTwo(m, o, f)
       \/ r.op = "launch" /\ IsFive(m, Configuration, d, k, s, u)
       \/ r.op \in {"rename_category", "delete_category"} /\ IsOne(m, c)
       \/ r.op = "set_gate" /\ Len(m) = 0
  BY <1>1, <1>2, <1>3, <1>4, <1>5, <1>6, <1>7, <1>8, <1>9, <1>10, <1>11, LocksWritten
<1>14. r.op = "update_flag" => r.from \in Nat /\ r.chal \in Nat
  BY DefinitionsAssumption DEF WellFormed, ChalOps
<1> USE DEF IsOne, IsTwo, IsThree, IsFour, IsFive
<1>15. Len(m) \in Nat BY <1>13
<1>16. \A i, j \in 1..Len(m) : i < j => Before(m[i], m[j])
  <2>1. CASE Len(m) = 0 \/ Len(m) = 1 BY <2>1
  <2>2. CASE Len(m) = 2
    <3>1. Before(m[1], m[2]) BY <1>12, <1>13, <2>2 DEF Before
    <3> QED BY <2>2, <3>1
  <2>3. CASE Len(m) = 3
    <3>1. Before(m[1], m[2]) /\ Before(m[1], m[3]) /\ Before(m[2], m[3])
      BY <1>12, <1>13, <2>3 DEF Before
    <3>2. \A i, j \in 1..3 : i < j => (i = 1 /\ j = 2) \/ (i = 1 /\ j = 3) \/ (i = 2 /\ j = 3)
      OBVIOUS
    <3> QED BY <2>3, <3>1, <3>2
  <2>4. CASE Len(m) = 4
    <3>1. /\ Before(m[1], m[2]) /\ Before(m[1], m[3]) /\ Before(m[1], m[4])
          /\ Before(m[2], m[3]) /\ Before(m[2], m[4]) /\ Before(m[3], m[4])
      BY <1>12, <1>13, <1>14, <2>4 DEF Before
    <3>2. \A i, j \in 1..4 : i < j => \/ (i = 1 /\ j \in {2, 3, 4})
                                      \/ (i = 2 /\ j \in {3, 4}) \/ (i = 3 /\ j = 4)
      OBVIOUS
    <3> QED BY <2>4, <3>1, <3>2
  <2>5. CASE Len(m) = 5
    <3>1. /\ Rank(m[1]) = 1 /\ Rank(m[2]) = 3 /\ Rank(m[3]) = 5
          /\ Rank(m[4]) \in {6, 7} /\ Rank(m[5]) \in {7, 8} /\ Rank(m[4]) < Rank(m[5])
      BY <1>12, <1>13, <2>5
    <3>2. \A i, j \in 1..5 : i < j => \/ (i = 1 /\ j \in {2, 3, 4, 5}) \/ (i = 2 /\ j \in {3, 4, 5})
                                      \/ (i = 3 /\ j \in {4, 5}) \/ (i = 4 /\ j = 5)
      OBVIOUS
    <3> QED BY <2>5, <3>1, <3>2 DEF Before
  <2> QED BY <1>13, <2>1, <2>2, <2>3, <2>4, <2>5
<1>17. \A i \in 1..Len(m) : Rank(m[i]) = 3 => (m[i] = d /\ r.op \in ChalOps)
                                             \/ (m[i] = o /\ r.op \in {"update_flag", "delete_flag"})
  BY <1>12, <1>13 DEF ChalOps
<1>18. \A i \in 1..Len(m) : Rank(m[i]) = 3 => \E x \in Challenges : m[i] = DefinitionLock(x)
  BY <1>2, <1>3, <1>17 DEF WellFormed
<1> QED BY <1>1, <1>15, <1>16, <1>18

\* What a transaction waits for comes after what it has.
LEMMA WantedIsHigher ==
  ASSUME IInv, NEW p \in Requests, req[p].op # "rename_category",
         NEW w \in Wanted(p), NEW h \in Held[p]
  PROVE  Before(h, w)
<1>1. PICK r : r = req[p] OBVIOUS
<1>2. PICK m : m = Locks(r) OBVIOUS
<1>3. r.pc \in {"locking", "writing"} BY <1>1 DEF Wanted
<1>4. WellFormed(r) /\ r.taken \in Nat /\ Held[p] = Taken(m, r.taken)
  BY <1>1, <1>2, <1>3, RequestFields DEF IInv
<1>5. Len(m) \in Nat /\ \A i, j \in 1..Len(m) : i < j => Before(m[i], m[j])
  BY <1>2, <1>4, LocksRise
<1>6. PICK i \in 1..r.taken : h = m[i] BY <1>4 DEF Taken
<1>7. r.taken <= Len(m) BY <1>1, <1>2, <1>3 DEF IInv, LocksTaken
<1>8. CASE r.pc = "locking"
  <2>1. r.taken # Len(m) /\ w = m[r.taken + 1] BY <1>1, <1>2, <1>8 DEF Wanted, AllTaken
  <2>2. i \in 1..Len(m) /\ r.taken + 1 \in 1..Len(m) /\ i < r.taken + 1
    BY <1>4, <1>5, <1>6, <1>7, <2>1
  <2> QED BY <1>5, <1>6, <2>1, <2>2
<1>9. CASE r.pc = "writing"
  <2>1. r.op = "set_gate" BY <1>1, <1>9 DEF Wanted
  <2>2. m = <<>> BY <1>2, <2>1 DEF Locks
  <2>3. Len(<<>>) = 0 OBVIOUS
  <2>4. r.taken = Len(m) BY <1>1, <1>2, <1>9 DEF IInv, LocksTaken
  <2> QED BY <1>6, <2>2, <2>3, <2>4
<1> QED BY <1>3, <1>8, <1>9

\* A finite set of numbers has a greatest: the one with the fewest above it.
LEMMA Greatest ==
  ASSUME NEW S \in SUBSET Nat, IsFiniteSet(S), S # {}
  PROVE  \E m \in S : \A n \in S : n <= m
<1> DEFINE Above(c) == {x \in S : x > c}
           Counts == {Cardinality(Above(c)) : c \in S}
<1>1. \A c \in S : IsFiniteSet(Above(c)) /\ Cardinality(Above(c)) \in Nat
  BY FS_Subset, FS_CardinalityType
<1>2. Counts \subseteq Nat /\ Counts # {} BY <1>1
<1>3. PICK k \in Counts : \A n \in Counts : ~(<<n, k>> \in OpToRel(<, Nat))
  <2> HIDE DEF Counts
  <2> QED BY <1>2, NatLessThanWellFounded, WFMin
<1>4. PICK m \in S : k = Cardinality(Above(m)) BY <1>3
<1>5. ASSUME NEW n \in S, ~(n <= m) PROVE FALSE
  <2>1. n > m BY <1>5
  <2>2. Above(n) \subseteq Above(m) /\ n \in Above(m) /\ n \notin Above(n)
    <3>1. n \in Nat /\ m \in Nat OBVIOUS
    <3>2. ASSUME NEW x \in Above(n) PROVE x \in Above(m)
      <4>1. x \in S /\ x > n /\ x \in Nat OBVIOUS
      <4>2. x > m BY <2>1, <3>1, <4>1
      <4> QED BY <4>1, <4>2
    <3>3. n \in Above(m) BY <2>1
    <3>4. n \notin Above(n) BY <3>1
    <3> QED BY <3>2, <3>3, <3>4
  <2>3. Cardinality(Above(n)) < Cardinality(Above(m))
    <3>1. Above(n) # Above(m) BY <2>2
    <3> HIDE DEF Above
    <3>2. Cardinality(Above(n)) <= Cardinality(Above(m))
          /\ (Cardinality(Above(n)) = Cardinality(Above(m)) => Above(n) = Above(m))
      BY <1>1, <2>2, FS_Subset
    <3> QED BY <1>1, <3>1, <3>2
  <2>4. Cardinality(Above(n)) \in Counts OBVIOUS
  <2> HIDE DEF Above, Counts
  <2>5. <<Cardinality(Above(n)), k>> \in OpToRel(<, Nat) BY <1>1, <1>4, <2>3 DEF OpToRel
  <2> QED BY <1>3, <2>4, <2>5
<1> QED BY <1>5

\* No handlers wait for each other in a circle: of the locks that are waited for, take
\* one of the highest rank, and among definitions one of the greatest identifier; who
\* holds it would wait for one that comes after it.
THEOREM NobodyWaitsInACircle == Spec => []NoCircularWait
<1>1. ASSUME IInv PROVE NoCircularWait
  <2> DEFINE others == {p \in Requests : req[p].op # "rename_category"}
             held == [p \in others |-> Held[p]]
             wanted == [p \in others |-> Wanted(p)]
  <2> SUFFICES ASSUME NEW S \in SUBSET others, S # {},
                      \A p \in S : \E q \in S : Blocks(held, wanted, q, p)
               PROVE  FALSE
    <3>1. DOMAIN held = others OBVIOUS
    <3> HIDE DEF others
    <3> QED BY <3>1 DEF NoCircularWait, CircularWait, others
  <2>1. ASSUME NEW p \in S
        PROVE  \E q \in S : \E w \in Wanted(p) : \E h \in Held[q] : h.lock = w.lock
    <3>1. PICK q \in S : Blocks(held, wanted, q, p) OBVIOUS
    <3>2. wanted[p] = Wanted(p) /\ held[q] = Held[q] OBVIOUS
    <3> HIDE DEF wanted, held
    <3>3. PICK w, h : w \in Wanted(p) /\ h \in Held[q] /\ ~Compatible(h, w)
      BY <3>1, <3>2 DEF Blocks
    <3> QED BY <3>3 DEF Compatible
  <2>2. \A p \in S : p \in Requests /\ req[p].op # "rename_category" OBVIOUS
  <2> HIDE DEF others, held, wanted
  \* A lock that one of them holds and another waits for.
  <2> DEFINE Contended(h) == \E q \in S : h \in Held[q]
  <2>3. ASSUME NEW h, Contended(h)
        PROVE  \E g : Contended(g) /\ Before(h, g)
    <3>1. PICK q \in S : h \in Held[q] BY <2>3
    <3>2. PICK x, w, g : x \in S /\ w \in Wanted(q) /\ g \in Held[x] /\ g.lock = w.lock BY <2>1
    <3>3. Before(h, w) BY <1>1, <2>2, <3>1, <3>2, WantedIsHigher
    <3>4. Rank(g) = Rank(w) BY <3>2 DEF Rank
    <3>5. Before(h, g) BY <3>2, <3>3, <3>4 DEF Before
    <3> QED BY <3>2, <3>5
  <2>4. ASSUME NEW h, Contended(h), Rank(h) = 3
        PROVE  \E c \in Challenges : h.lock[2] = c
    <3>1. PICK q \in S : h \in Held[q] BY <2>4
    <3>2. Held[q] = Taken(Locks(req[q]), req[q].taken) /\ req[q].taken \in Nat
          /\ (req[q].pc = "idle" => req[q].taken = 0) /\ (req[q].pc # "idle" => WellFormed(req[q]))
      BY <1>1, <2>2, RequestFields DEF IInv
    <3>3. PICK i \in 1..req[q].taken : h = Locks(req[q])[i] BY <3>1, <3>2 DEF Taken
    <3>4. req[q].pc # "idle" /\ WellFormed(req[q]) BY <3>2, <3>3
    <3>5. req[q].taken <= Len(Locks(req[q])) BY <1>1, <2>2, <3>4 DEF IInv, LocksTaken
    <3>6. Len(Locks(req[q])) \in Nat BY <3>4, LocksRise
    <3>7. i \in 1..Len(Locks(req[q])) BY <3>2, <3>5, <3>6
    <3>8. PICK c \in Challenges : h = DefinitionLock(c) BY <2>4, <3>3, <3>4, <3>7, LocksRise
    <3> QED BY <3>8, Ranks
  <2> DEFINE At(k) == \E h : Contended(h) /\ Rank(h) = k
  <2>5. \E k \in 1..8 : At(k)
    <3>1. PICK p \in S : TRUE OBVIOUS
    <3>2. PICK q, h : q \in S /\ h \in Held[q] BY <2>1, <3>1
    <3> QED BY <3>2, Ranks
  <2>6. ASSUME NEW k \in 1..8, At(k), k # 3 PROVE \E j \in 1..8 : j > k /\ At(j)
    <3>1. PICK h : Contended(h) /\ Rank(h) = k BY <2>6
    <3> HIDE DEF Contended
    <3>2. PICK g : Contended(g) /\ Before(h, g) BY <2>3, <3>1
    <3>3. Rank(g) > k /\ Rank(g) \in 1..8 BY <2>6, <3>1, <3>2, Ranks DEF Before
    <3> QED BY <3>2, <3>3
  <2>7. ASSUME At(3) PROVE \E j \in 1..8 : j > 3 /\ At(j)
    <3> DEFINE D == {c \in Challenges : \E h : Contended(h) /\ Rank(h) = 3 /\ h.lock[2] = c}
    <3> HIDE DEF Contended
    <3>1. D # {} BY <2>4, <2>7
    <3>2. D \in SUBSET Nat /\ IsFiniteSet(D) BY DefinitionsAssumption, FS_Subset
    <3>3. PICK m \in D : \A n \in D : n <= m
      <4> HIDE DEF D
      <4> QED BY <3>1, <3>2, Greatest
    <3>4. PICK h : Contended(h) /\ Rank(h) = 3 /\ h.lock[2] = m BY <3>3
    <3>5. PICK g : Contended(g) /\ Before(h, g) BY <2>3, <3>4
    <3>6. CASE Rank(g) = 3
      <4>1. PICK c \in Challenges : g.lock[2] = c BY <2>4, <3>5, <3>6
      <4>2. c \in D BY <3>5, <3>6, <4>1
      <4>3. m < c BY <3>4, <3>5, <3>6, <4>1 DEF Before
      <4>4. c <= m BY <3>3, <4>2
      <4>5. c \in Nat /\ m \in Nat BY <3>2, <3>3, <4>2
      <4> QED BY <4>3, <4>4, <4>5
    <3>7. CASE Rank(g) # 3
      <4>1. Rank(g) > 3 /\ Rank(g) \in 1..8 BY <3>4, <3>5, <3>7, Ranks DEF Before
      <4> QED BY <3>5, <4>1
    <3> QED BY <3>6, <3>7
  <2> HIDE DEF At
  <2>8. ~At(8) BY <2>6
  <2>9. ~At(7) BY <2>6, <2>8
  <2>10. ~At(6) BY <2>6, <2>8, <2>9
  <2>11. ~At(5) BY <2>6, <2>8, <2>9, <2>10
  <2>12. ~At(4) BY <2>6, <2>8, <2>9, <2>10, <2>11
  <2>13. ~At(3) BY <2>7, <2>8, <2>9, <2>10, <2>11, <2>12
  <2>14. ~At(2) BY <2>6, <2>8, <2>9, <2>10, <2>11, <2>12, <2>13
  <2>15. ~At(1) BY <2>6, <2>8, <2>9, <2>10, <2>11, <2>12, <2>13, <2>14
  <2>16. \A k \in 1..8 : k = 1 \/ k = 2 \/ k = 3 \/ k = 4 \/ k = 5 \/ k = 6 \/ k = 7 \/ k = 8 OBVIOUS
  <2> QED BY <2>5, <2>8, <2>9, <2>10, <2>11, <2>12, <2>13, <2>14, <2>15, <2>16
<1> QED BY <1>1, Invariant_Correct, PTL
=============================================================================
