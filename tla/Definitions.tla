---------------------------- MODULE Definitions ----------------------------
(***************************************************************************)
(* Challenges, their categories, runtimes and flags as administrators      *)
(* define them, and the per-user flags that launches hand out.             *)
(*                                                                         *)
(* A request is one transaction, as in Teams: locks in order, a step that  *)
(* reads and decides, and the commit.  What the controller makes of an     *)
(* instance is in RuntimeControl; here it is active or it is not.          *)
(***************************************************************************)
EXTENDS PortalLocks

CONSTANTS
    Users,        \* accounts that launch challenges
    Challenges,   \* identifiers of challenges, in their order
    Flags,        \* identifiers of flags
    Categories,   \* identifiers of categories
    Keys,         \* values of the Idempotency-Key header
    Requests,     \* transactions open at the same time
    None,         \* SQL NULL
    Capacity,     \* leet variations of a generated flag
    MaxRequests   \* bound: requests started

ASSUME DefinitionsAssumption ==
    /\ Challenges \subseteq Nat
    /\ None \notin Challenges \cup Flags \cup Categories \cup Keys \cup Requests
    /\ IsFiniteSet(Challenges) /\ IsFiniteSet(Flags) /\ IsFiniteSet(Users)
    /\ Capacity \in Nat /\ MaxRequests \in Nat

VARIABLES
    gate,      \* runtime_settings private_challenges: enabled
    cat,       \* challenge_categories: live or gone
    chal,      \* challenges
    flag,      \* flags
    alloc,     \* user_challenge_flags
    inst,      \* active runtime instances and the flag each was given
    idem,      \* admin_create_idempotency: the challenge each key created
    req,       \* the transactions in progress
    started    \* requests started

tables == <<gate, cat, chal, flag, alloc, inst, idem>>
vars   == <<tables, req, started>>

----------------------------------------------------------------------------

\* runtime: enabled of challenge_runtime_configs, None when there is no row.
\* key: the Idempotency-Key that created it (for the properties).
Definition == [exposure : {"public", "private"}, hidden : BOOLEAN,
               runtime : BOOLEAN \cup {None}, cat : Categories]
ChallengeRow == [state : {"none", "live", "gone"}, def : Definition \cup {None},
                 key : Keys \cup {None}]
NoChallenge == [state |-> "none", def |-> None, key |-> None]

FlagRow == [state : {"none", "live", "gone"}, chal : Challenges \cup {None},
            type : {"static", "generated"}, revision : Nat]
NoFlag  == [state |-> "none", chal |-> None, type |-> "static", revision |-> 0]

Live(c)     == chal[c].state = "live"
FlagsOf(c)  == {f \in Flags : flag[f].state = "live" /\ flag[f].chal = c}
Generated(c) == {f \in FlagsOf(c) : flag[f].type = "generated"}
Running(c)  == \E i \in inst : i.chal = c
Allocated(f) == \E a \in alloc : a.flag = f
Private(c)  == chal[c].def.exposure = "private"

\* A private challenge that participants can see.
Published(def) == def.exposure = "private" /\ ~def.hidden

----------------------------------------------------------------------------
(* Requests *)

\* from: the challenge of the flag when the handler read it before locking.  pick:
\* the generated flag and the variation a launch decided on.
Idle == [pc |-> "idle", op |-> None, user |-> None, chal |-> None, flag |-> None,
         cat |-> None, key |-> None, arg |-> None, from |-> None, pick |-> None,
         taken |-> 0]

Configuration == Shared("configuration")
DefinitionLock(c) == ExclusiveOn("challenge_definition", c)
KeyLock(k)        == ExclusiveOn("create_idempotency", k)
Gate == <<"runtime_setting", "private_challenges">>

\* Faulty variants, for the sensitivity of the properties.
CreateFlagUnserialised(r) == <<KeyShare("challenge", r.chal)>>
DeleteFlagUnserialised(r) == <<ForUpdate("flag", r.flag)>>
PutRuntimeUnlocked(r)     == <<Configuration>>

GateRow == ForUpdate("setting", Gate)

CreateLocks(r) ==
    LET category == KeyShare("category", r.arg.def.cat) IN
    IF r.arg.def.exposure = "private" THEN <<Configuration, KeyLock(r.key), category, GateRow>>
    ELSE <<Configuration, KeyLock(r.key), category>>
UpdateLocks(r) ==
    LET definition == DefinitionLock(r.chal)
        challenge  == ForUpdate("challenge", r.chal)
        category   == KeyShare("category", r.arg.def.cat)
    IN  IF r.arg.enable THEN <<Configuration, definition, challenge, category, GateRow>>
        ELSE <<Configuration, definition, challenge, category>>
DeleteLocks(r)     == <<Configuration, DefinitionLock(r.chal), ForUpdate("challenge", r.chal)>>
PutRuntimeLocks(r) == <<Configuration, ForUpdate("challenge", r.chal)>>
CreateFlagLocks(r) == <<DefinitionLock(r.chal), KeyShare("challenge", r.chal)>>
\* The definitions of both challenges, in the order of their identifiers.
UpdateFlagLocks(r) ==
    LET row       == ForUpdate("flag", r.flag)
        challenge == KeyShare("challenge", r.chal)
    IN  CASE r.from = r.chal -> <<DefinitionLock(r.chal), row, challenge>>
          [] r.from < r.chal -> <<DefinitionLock(r.from), DefinitionLock(r.chal), row, challenge>>
          [] r.from > r.chal -> <<DefinitionLock(r.chal), DefinitionLock(r.from), row, challenge>>
DeleteFlagLocks(r) == <<DefinitionLock(r.from), ForUpdate("flag", r.flag)>>
\* ensure_instance and materialize_for_launch.
LaunchLocks(r) ==
    <<Configuration, DefinitionLock(r.chal), KeyShare("challenge", r.chal),
      KeyShare("setting", Gate), ForUpdate("user", r.user)>>

Locks(r) ==
    CASE r.op = "create"      -> CreateLocks(r)
      [] r.op = "update"      -> UpdateLocks(r)
      [] r.op = "delete"      -> DeleteLocks(r)
      [] r.op = "put_runtime" -> PutRuntimeLocks(r)
      [] r.op = "create_flag" -> CreateFlagLocks(r)
      [] r.op = "update_flag" -> UpdateFlagLocks(r)
      [] r.op = "delete_flag" -> DeleteFlagLocks(r)
      [] r.op = "launch"      -> LaunchLocks(r)
      [] r.op \in {"rename_category", "delete_category"} -> <<ForUpdate("category", r.cat)>>
      [] OTHER -> <<>>

Held == [p \in Requests |-> Taken(Locks(req[p]), req[p].taken)]
AllTaken(p) == req[p].taken = Len(Locks(req[p]))

\* What a transaction waits for: its next lock or the rows it writes last.  The new
\* name of a category cascades to its challenges; an UPDATE of the setting is the
\* only statement of its transaction.
Wanted(p) ==
    LET r == req[p] IN
    CASE r.pc = "locking" /\ ~AllTaken(p) -> {Locks(r)[r.taken + 1]}
      [] r.pc = "writing" /\ r.op = "rename_category" ->
            {NoKeyUpdate("challenge", c) : c \in {x \in Challenges : Live(x) /\ chal[x].def.cat = r.cat}}
      [] r.pc = "writing" /\ r.op = "set_gate" -> {NoKeyUpdate("setting", Gate)}
      [] OTHER -> {}

Start(p, r) ==
    /\ req[p].pc = "idle" /\ started < MaxRequests
    /\ started' = started + 1
    /\ req' = [req EXCEPT ![p] = [r EXCEPT !.pc = "locking"]]
    /\ UNCHANGED tables

\* normalize_definition and the checks before BEGIN: a generated flag needs a
\* private challenge, which needs a runtime, enabled when it is visible.
NewDefinitions ==
    {d \in Definition : /\ d.exposure = "private" <=> d.runtime # None
                        /\ Published(d) => d.runtime = TRUE}

BeginChallenge(p) ==
    \/ \E c \in Challenges, k \in Keys, d \in NewDefinitions, e \in BOOLEAN, f \in Flags :
        \E t \in {"static", "generated"} :
        /\ t = "generated" \/ e => d.exposure = "private"
        /\ cat[d.cat] = "live" /\ chal[c].state = "none" /\ flag[f].state = "none"
        /\ Start(p, [Idle EXCEPT !.op = "create", !.chal = c, !.key = k, !.flag = f,
                                 !.arg = [def |-> d, enable |-> e, type |-> t]])
    \/ \E c \in Challenges : Live(c) /\
        \/ \E x \in {"public", "private"}, h, e \in BOOLEAN, g \in {x \in Categories : cat[x] = "live"} :
            Start(p, [Idle EXCEPT !.op = "update", !.chal = c, !.arg =
                        [def |-> [chal[c].def EXCEPT !.exposure = x, !.hidden = h, !.cat = g],
                         enable |-> e /\ x = "private"]])
        \/ Start(p, [Idle EXCEPT !.op = "delete", !.chal = c])
        \/ \E on \in BOOLEAN : Start(p, [Idle EXCEPT !.op = "put_runtime", !.chal = c, !.arg = on])
    \/ \E on \in BOOLEAN : Start(p, [Idle EXCEPT !.op = "set_gate", !.arg = on])
    \/ \E g \in Categories : cat[g] = "live" /\ \E op \in {"rename_category", "delete_category"} :
        Start(p, [Idle EXCEPT !.op = op, !.cat = g])

BeginFlag(p) ==
    \/ \E c \in Challenges, f \in Flags, t \in {"static", "generated"} :
        /\ flag[f].state = "none"
        /\ Start(p, [Idle EXCEPT !.op = "create_flag", !.chal = c, !.flag = f, !.arg = t])
    \/ \E f \in Flags : flag[f].state = "live" /\
        \/ \E c \in Challenges, t \in {"static", "generated"} :
            Start(p, [Idle EXCEPT !.op = "update_flag", !.chal = c, !.flag = f, !.arg = t,
                                  !.from = flag[f].chal])
        \/ Start(p, [Idle EXCEPT !.op = "delete_flag", !.flag = f, !.from = flag[f].chal])
    \/ \E u \in Users, c \in Challenges :
        Start(p, [Idle EXCEPT !.op = "launch", !.user = u, !.chal = c])

TakeLock(p) ==
    /\ req[p].pc = "locking" /\ ~AllTaken(p)
    /\ MayTake(Held, p, Locks(req[p])[req[p].taken + 1])
    /\ req' = [req EXCEPT ![p].taken = @ + 1]
    /\ UNCHANGED <<tables, started>>

\* A refusal not modelled here, a database error or a lost connection rolls back.
Fail(p) ==
    /\ req[p].pc # "idle"
    /\ req' = [req EXCEPT ![p] = Idle]
    /\ UNCHANGED <<tables, started>>

----------------------------------------------------------------------------
(* What the handlers check once their locks are held *)

\* lock_and_replay: a key that was used answers with what it created.
MayCreate(r) ==
    /\ idem[r.key] = None /\ cat[r.arg.def.cat] = "live"
    /\ Published(r.arg.def) => gate \/ r.arg.enable

\* The definition after an update: without its runtime once it is public.
Updated(r) ==
    [r.arg.def EXCEPT !.runtime = IF r.arg.def.exposure = "public" THEN None
                                  ELSE chal[r.chal].def.runtime]

MayUpdate(r) ==
    /\ Live(r.chal) /\ cat[r.arg.def.cat] = "live"
    /\ r.arg.def.exposure # chal[r.chal].def.exposure =>
        /\ ~Running(r.chal)
        /\ r.arg.def.exposure = "private" => chal[r.chal].def.runtime # None
        /\ r.arg.def.exposure = "public"  => Generated(r.chal) = {}
    /\ Published(r.arg.def) => (gate \/ r.arg.enable) /\ chal[r.chal].def.runtime = TRUE

MayDelete(r) ==
    /\ Live(r.chal) /\ ~Running(r.chal)
    /\ \A a \in alloc : a.chal # r.chal

MayPutRuntime(r) ==
    Live(r.chal) /\ Private(r.chal) /\ (~chal[r.chal].def.hidden => r.arg)

TypeFits(c, type) == type = "generated" => Private(c)

\* idx_flags_one_generated_per_challenge refuses a second one.
OneGenerated(c, f, type) == type = "generated" => Generated(c) \subseteq {f}

MayCreateFlag(r) ==
    Live(r.chal) /\ ~Running(r.chal) /\ TypeFits(r.chal, r.arg)

Changes(r) == r.chal # flag[r.flag].chal \/ r.arg # flag[r.flag].type

MayUpdateFlag(r) ==
    /\ flag[r.flag].state = "live" /\ flag[r.flag].chal = r.from
    /\ Live(r.chal) /\ TypeFits(r.chal, r.arg)
    /\ Changes(r) =>
        /\ r.chal # r.from => Cardinality(FlagsOf(r.from)) > 1
        /\ ~Allocated(r.flag)
        /\ ~Running(r.from) /\ ~Running(r.chal)

MayDeleteFlag(r) ==
    /\ flag[r.flag].state = "live" /\ flag[r.flag].chal = r.from
    /\ ~Allocated(r.flag)
    /\ Cardinality(FlagsOf(r.from)) > 1
    /\ ~Running(r.from)

\* materialize_for_launch: the challenge's generated flag, if it has one.
GeneratedFlag(c) == IF Generated(c) = {} THEN None ELSE CHOOSE f \in Generated(c) : TRUE
OwnAllocation(u, f) == {a \in alloc : a.flag = f /\ a.user = u}
Masks(f) == {a.mask : a \in {x \in alloc : x.flag = f}}

\* next_available_leet_mask
NextMask(f) == CHOOSE m \in 1..Capacity \ Masks(f) : \A n \in 1..Capacity \ Masks(f) : m <= n

MayLaunch(r) ==
    /\ Live(r.chal) /\ Published(chal[r.chal].def) /\ chal[r.chal].def.runtime = TRUE /\ gate
    /\ \A i \in inst : i.user # r.user
    /\ LET f == GeneratedFlag(r.chal) IN
        f # None =>
            IF OwnAllocation(r.user, f) = {} THEN Cardinality(Masks(f)) < Capacity
            ELSE \A a \in OwnAllocation(r.user, f) : a.revision = flag[f].revision

\* What a launch hands out: a flag, its revision and the variation, new or not.
Picked(r) ==
    LET f == GeneratedFlag(r.chal) IN
    IF f = None THEN [flag |-> None, revision |-> 0, mask |-> 0]
    ELSE [flag |-> f, revision |-> flag[f].revision,
          mask |-> IF OwnAllocation(r.user, f) = {} THEN NextMask(f)
                   ELSE (CHOOSE a \in OwnAllocation(r.user, f) : TRUE).mask]

Permitted(r) ==
    CASE r.op = "create"      -> MayCreate(r)
      [] r.op = "update"      -> MayUpdate(r)
      [] r.op = "delete"      -> MayDelete(r)
      [] r.op = "put_runtime" -> MayPutRuntime(r)
      [] r.op = "set_gate"    -> TRUE
      [] r.op = "create_flag" -> MayCreateFlag(r)
      [] r.op = "update_flag" -> MayUpdateFlag(r)
      [] r.op = "delete_flag" -> MayDeleteFlag(r)
      [] r.op = "launch"      -> MayLaunch(r)
      [] r.op = "rename_category" -> cat[r.cat] = "live"
      [] r.op = "delete_category" ->
            cat[r.cat] = "live" /\ \A c \in Challenges : Live(c) => chal[c].def.cat # r.cat

Check(p) ==
    LET r == req[p] IN
    /\ r.pc = "locking" /\ AllTaken(p)
    /\ req' = [req EXCEPT ![p] =
                 IF ~Permitted(r) THEN Idle
                 ELSE [r EXCEPT !.pc = "writing",
                                !.pick = IF r.op = "launch" THEN Picked(r) ELSE None]]
    /\ UNCHANGED <<tables, started>>

----------------------------------------------------------------------------
(* What they write *)

Writes(p, op) ==
    req[p].pc = "writing" /\ req[p].op = op /\ \A l \in Wanted(p) : MayTake(Held, p, l)
Done(p) == req' = [req EXCEPT ![p] = Idle] /\ UNCHANGED started

NewFlag(c, type) == [state |-> "live", chal |-> c, type |-> type, revision |-> 1]
GoneFlag == [NoFlag EXCEPT !.state = "gone"]

\* The challenge, its first flag, its runtime and the key, in one transaction.
Create(p) ==
    LET r == req[p] IN
    /\ Writes(p, "create")
    /\ chal[r.chal].state = "none" /\ flag[r.flag].state = "none" /\ idem[r.key] = None
    /\ chal' = [chal EXCEPT ![r.chal] = [state |-> "live", def |-> r.arg.def, key |-> r.key]]
    /\ flag' = [flag EXCEPT ![r.flag] = NewFlag(r.chal, r.arg.type)]
    /\ gate' = (gate \/ (r.arg.def.exposure = "private" /\ r.arg.enable))
    /\ idem' = [idem EXCEPT ![r.key] = r.chal]
    /\ Done(p) /\ UNCHANGED <<cat, alloc, inst>>

Update(p) ==
    LET r == req[p] IN
    /\ Writes(p, "update")
    /\ chal' = [chal EXCEPT ![r.chal].def = Updated(r)]
    /\ gate' = (gate \/ r.arg.enable)
    /\ Done(p) /\ UNCHANGED <<cat, flag, alloc, inst, idem>>

\* Faulty variant: the key is kept.
Remember(c) == idem

\* forget_resource: a key whose challenge is deleted may be used again.
Forget(c) == [k \in Keys |-> IF idem[k] = c THEN None ELSE idem[k]]

\* The flags go with the challenge (ON DELETE CASCADE).
Delete(p) ==
    LET c == req[p].chal IN
    /\ Writes(p, "delete")
    /\ chal' = [chal EXCEPT ![c] = [NoChallenge EXCEPT !.state = "gone"]]
    /\ flag' = [f \in Flags |-> IF f \in FlagsOf(c) THEN GoneFlag ELSE flag[f]]
    /\ idem' = Forget(c)
    /\ Done(p) /\ UNCHANGED <<gate, cat, alloc, inst>>

PutRuntime(p) ==
    /\ Writes(p, "put_runtime") /\ Live(req[p].chal)
    /\ chal' = [chal EXCEPT ![req[p].chal].def.runtime = req[p].arg]
    /\ Done(p) /\ UNCHANGED <<gate, cat, flag, alloc, inst, idem>>

SetGate(p) ==
    /\ Writes(p, "set_gate")
    /\ gate' = req[p].arg
    /\ Done(p) /\ UNCHANGED <<cat, chal, flag, alloc, inst, idem>>

CreateFlag(p) ==
    /\ Writes(p, "create_flag") /\ flag[req[p].flag].state = "none"
    /\ OneGenerated(req[p].chal, req[p].flag, req[p].arg)
    /\ flag' = [flag EXCEPT ![req[p].flag] = NewFlag(req[p].chal, req[p].arg)]
    /\ Done(p) /\ UNCHANGED <<gate, cat, chal, alloc, inst, idem>>

\* The flag after an update, a new revision of it if it was changed.
Redefined(r) ==
    LET old == flag[r.flag] IN
    [state |-> old.state, chal |-> r.chal, type |-> r.arg,
     revision |-> IF Changes(r) THEN old.revision + 1 ELSE old.revision]

UpdateFlag(p) ==
    LET r == req[p] IN
    /\ Writes(p, "update_flag") /\ OneGenerated(r.chal, r.flag, r.arg)
    /\ flag' = [flag EXCEPT ![r.flag] = Redefined(r)]
    /\ Done(p) /\ UNCHANGED <<gate, cat, chal, alloc, inst, idem>>

DeleteFlag(p) ==
    /\ Writes(p, "delete_flag")
    /\ flag' = [flag EXCEPT ![req[p].flag] = GoneFlag]
    /\ Done(p) /\ UNCHANGED <<gate, cat, chal, alloc, inst, idem>>

\* The user's flag, unless it was handed out before, and the instance.
Launch(p) ==
    LET r == req[p] IN
    /\ Writes(p, "launch")
    /\ alloc' = IF r.pick.flag = None \/ OwnAllocation(r.user, r.pick.flag) # {} THEN alloc
                ELSE alloc \cup {[flag |-> r.pick.flag, chal |-> r.chal, user |-> r.user,
                                  revision |-> r.pick.revision, mask |-> r.pick.mask]}
    /\ inst' = inst \cup {[user |-> r.user, chal |-> r.chal, flag |-> r.pick.flag,
                           revision |-> r.pick.revision]}
    /\ Done(p) /\ UNCHANGED <<gate, cat, chal, flag, idem>>

\* The name is copied to the challenges; nothing else depends on it.
RenameCategory(p) ==
    /\ Writes(p, "rename_category")
    /\ Done(p) /\ UNCHANGED tables

DeleteCategory(p) ==
    /\ Writes(p, "delete_category")
    /\ cat' = [cat EXCEPT ![req[p].cat] = "gone"]
    /\ Done(p) /\ UNCHANGED <<gate, chal, flag, alloc, inst, idem>>

\* An instance ends (RuntimeControl).
InstanceStops ==
    /\ \E i \in inst : inst' = inst \ {i}
    /\ UNCHANGED <<gate, cat, chal, flag, alloc, idem, req, started>>

\* clear_competition_state, when the user mode changes (Teams).
ClearAllocations ==
    /\ alloc # {} /\ inst = {}
    /\ MayTake(Held, None, Exclusive("configuration"))
    /\ alloc' = {}
    /\ UNCHANGED <<gate, cat, chal, flag, inst, idem, req, started>>

----------------------------------------------------------------------------

\* A first challenge with one flag, handed out or not, running or not; the second
\* flag belongs to it, to a second, public challenge, or is still to come.
Init ==
    /\ gate = TRUE
    /\ cat = [g \in Categories |-> "live"]
    /\ \E c, d \in Challenges, f, h \in Flags, e \in NewDefinitions, k \in Keys :
        /\ c < d /\ f # h /\ cat[e.cat] = "live"
        /\ \E two \in BOOLEAN :
            chal = [x \in Challenges |->
                CASE x = c -> [state |-> "live", def |-> e, key |-> k]
                  [] x = d /\ two -> [state |-> "live", key |-> None,
                        def |-> [e EXCEPT !.exposure = "public", !.hidden = FALSE,
                                          !.runtime = None]]
                  [] OTHER -> NoChallenge]
        /\ \E type \in {"static", "generated"}, more \in {c, None} :
            /\ type = "generated" => e.exposure = "private"
            /\ flag = [x \in Flags |->
                CASE x = f -> NewFlag(c, type)
                  [] x = h /\ Live(d) -> NewFlag(d, "static")
                  [] x = h /\ ~Live(d) /\ more = c -> NewFlag(c, "static")
                  [] OTHER -> NoFlag]
        /\ idem = [x \in Keys |-> IF x = k THEN c ELSE None]
        /\ \E given \in SUBSET Users :
            /\ Cardinality(given) <= 1 /\ (given # {} => flag[f].type = "generated")
            /\ alloc = {[flag |-> f, chal |-> c, user |-> u, revision |-> 1, mask |-> 1] : u \in given}
            /\ inst \in {{}} \cup {{[user |-> u, chal |-> c, flag |-> f, revision |-> 1]} : u \in given}
    /\ req = [p \in Requests |-> Idle] /\ started = 0

Step(p) ==
    \/ BeginChallenge(p) \/ BeginFlag(p) \/ TakeLock(p) \/ Fail(p) \/ Check(p)
    \/ Create(p) \/ Update(p) \/ Delete(p) \/ PutRuntime(p) \/ SetGate(p)
    \/ CreateFlag(p) \/ UpdateFlag(p) \/ DeleteFlag(p) \/ Launch(p)
    \/ RenameCategory(p) \/ DeleteCategory(p)

Next ==
    \/ \E p \in Requests : Step(p)
    \/ InstanceStops \/ ClearAllocations

Spec == Init /\ [][Next]_vars

----------------------------------------------------------------------------
(* Properties *)

\* Every row has its type, a challenge's category and a flag's challenge exist
\* (foreign keys), and no request has more locks than its handler takes, or any when
\* there is none.
TypeOK ==
    /\ gate \in BOOLEAN
    /\ cat \in [Categories -> {"live", "gone"}]
    /\ chal \in [Challenges -> ChallengeRow]
    /\ flag \in [Flags -> FlagRow]
    /\ \A c \in Challenges : Live(c) => cat[chal[c].def.cat] = "live"
    /\ \A f \in Flags : flag[f].state = "live" => Live(flag[f].chal)
    /\ \A p \in Requests : IF req[p].pc = "idle" THEN req[p].taken = 0
                           ELSE req[p].taken <= Len(Locks(req[p]))

\* A challenge can always be solved: however its flags are deleted and moved to
\* other challenges at the same time, one of them stays.
EveryChallengeKeepsAFlag == \A c \in Challenges : Live(c) => FlagsOf(c) # {}

\* Only a private challenge has a generated flag: a change of exposure and a new,
\* changed or moved flag that overlap do not both succeed.
GeneratedIsPrivate == \A c \in Challenges : Generated(c) # {} => Private(c)

\* What was handed out to a user is the flag as it is defined now, so the
\* user's answer is accepted and another launch hands out the same one.
AllocationMatchesDefinition ==
    \A a \in alloc :
        /\ flag[a.flag].state = "live" /\ flag[a.flag].type = "generated"
        /\ flag[a.flag].chal = a.chal /\ flag[a.flag].revision = a.revision

\* An active instance holds the flag its challenge has now, or none if it has
\* none, and its challenge is still there and private: no definition changes
\* between the check for active instances and a launch.
RunningMatchesDefinition ==
    \A i \in inst :
        /\ Live(i.chal) /\ Private(i.chal)
        /\ GeneratedFlag(i.chal) = i.flag
        /\ i.flag # None => flag[i.flag].revision = i.revision

\* A private challenge that participants see has a runtime that is enabled,
\* although publishing and disabling are different requests.
PublishedHasRuntime ==
    \A c \in Challenges : Live(c) /\ Published(chal[c].def) => chal[c].def.runtime = TRUE

\* One challenge per key: a create request that is sent again, also at the same
\* time, makes no second challenge, and the answer it is given names one that
\* exists.
OneChallengePerKey ==
    /\ \A k \in Keys : idem[k] # None => Live(idem[k]) /\ chal[idem[k]].key = k
    /\ \A c, d \in Challenges :
        Live(c) /\ Live(d) /\ chal[c].key = chal[d].key /\ chal[c].key # None => c = d

\* Two users are never about to be given the same variation of a flag, which the
\* database would refuse: allocation is serialised, whoever launches first.
VariationsDiffer ==
    \A p \in Requests : req[p].pc = "writing" /\ req[p].op = "launch" =>
        \A a \in alloc :
            a.flag = req[p].pick.flag /\ a.mask = req[p].pick.mask => a.user = req[p].user

\* No requests wait for each other in a circle.  A renamed category is left out:
\* its new name cascades from the category to the challenges, and an edit of a
\* challenge locks the two the other way round.
NoCircularWait ==
    LET others == {p \in Requests : req[p].op # "rename_category"} IN
    ~CircularWait([p \in others |-> Held[p]], [p \in others |-> Wanted(p)])
=============================================================================
