--------------------------- MODULE RuntimeControl ---------------------------
(***************************************************************************)
(* The runtime control plane: the API transactions that record what a user *)
(* wants, the controllers that claim the resulting commands under a        *)
(* singleton lease, and the hosts that carry them out over SSH.            *)
(*                                                                         *)
(* One transaction is one action.  A controller is interrupted between its *)
(* transactions and its remote calls, so everything it carries across such *)
(* a point (the claim, the row it loaded, the reply) is kept in ctl[c].    *)
(* A request that was sent stays in wire until a host serves it: the local *)
(* SSH process can time out while the helper on the host still runs.       *)
(***************************************************************************)
EXTENDS Integers, Sequences, FiniteSets

CONSTANTS
    Owners,          \* users
    Challenges,      \* challenges with a managed runtime configuration
    Instances,       \* identifiers of runtime_instances rows
    Servers,         \* remote_servers rows
    Controllers,     \* controller processes
    None,            \* SQL NULL
    Capacities,      \* what administrators set remote_servers.capacity to
    Ttls,            \* lifetimes and extensions a user asks for
    MaximumTtl,      \* challenge_runtime_configs.maximum_ttl_seconds
    MaximumExtensions,
    MaxAttempts,     \* config.max_command_attempts
    MaxTime,         \* bound: last instant of the clock
    MaxRevision,     \* bound: policy revisions
    MaxCommands,     \* bound: rows after which nobody asks for optional work
    MaxFaults        \* bound: timeouts, crashes, lease losses, container exits

ASSUME ConstantsAssumption ==
    /\ None \notin Servers
    /\ Capacities \subseteq Nat \ {0} /\ MaxAttempts \in Nat \ {0}
    /\ MaximumTtl \in Nat /\ Ttls \subseteq 1..MaximumTtl
    /\ MaximumExtensions \in Nat
    /\ MaxTime \in Nat /\ MaxRevision \in Nat /\ MaxCommands \in Nat
    /\ MaxFaults \in Nat

VARIABLES
    now,       \* wall clock
    setting,   \* runtime_settings['private_challenges']
    runtime,   \* challenge_runtime_configs
    serverRow, \* remote_servers: enabled and capacity
    inst,      \* runtime_instances
    cmds,      \* runtime_commands, in created_at order
    leader,    \* holder of the advisory lock
    ctl,       \* what each controller has in hand
    counted,   \* the slots a controller has counted in a placement under way
    wire,      \* remote calls no host has served yet
    host,      \* the workload of each instance on each server
    tomb,      \* tombstoned identifiers on each server
    faults     \* faults that have happened

policyVars == <<setting, runtime, serverRow>>
dbVars     == <<inst, cmds>>
hostVars   == <<host, tomb>>
vars == <<now, setting, runtime, serverRow, inst, cmds, leader, ctl, counted,
          wire, host, tomb, faults>>

----------------------------------------------------------------------------
(* Rows, commands, requests and replies.                                    *)

Kinds    == {"start", "terminate", "extend", "inspect", "reconcile"}
Observed == {"requested", "starting", "ready", "stopping", "cleanup_pending",
             "terminated", "expired", "failed", "unknown"}

Policy == [enabled : BOOLEAN, revision : Nat \ {0}]

ServerRow == [enabled : BOOLEAN, capacity : Capacities]

Row == [owner : Owners \cup {None}, challenge : Challenges \cup {None},
        active : BOOLEAN, desired : {"running", "stopped"},
        observed : Observed \cup {"none"},
        desiredExp : Nat, maxExp : Nat, exp : Nat,
        server : Servers \cup {None},
        gen : Nat, obsGen : Nat, extensions : Nat,
        settingRev : Nat, runtimeRev : Nat]

NoRow == [owner |-> None, challenge |-> None, active |-> FALSE,
          desired |-> "stopped", observed |-> "none",
          desiredExp |-> 0, maxExp |-> 0, exp |-> 0, server |-> None,
          gen |-> 0, obsGen |-> 0, extensions |-> 0,
          settingRev |-> 0, runtimeRev |-> 0]

Exists(i) == inst[i].observed # "none"

\* claim_token is a fresh uuid per claim; attempts grows with every claim, so
\* the attempt number is as fresh (0 is NULL).  backoff: available_at is still
\* in the future.  recent: completed_at is within the safety retry interval.
\* overdue: the payload's reason is 'absolute_deadline_reached'.
\* Every insert copies the revisions of the instance row, so they are read there.
Command == [inst : Instances, kind : Kinds, gen : Nat,
            status : {"pending", "claimed", "completed", "failed", "cancelled"},
            token : Nat, attempts : Nat, backoff : BOOLEAN, recent : BOOLEAN,
            overdue : BOOLEAN]

NewCommand(i, kind, gen) ==
    [inst |-> i, kind |-> kind, gen |-> gen, status |-> "pending",
     token |-> 0, attempts |-> 0, backoff |-> FALSE, recent |-> FALSE,
     overdue |-> FALSE]

IsOpen(k) == cmds[k].status \in {"pending", "claimed"}

OpenCommand(i, kinds) ==
    \E k \in DOMAIN cmds : IsOpen(k) /\ cmds[k].inst = i /\ cmds[k].kind \in kinds

Operations == {"ensure-instance", "stop-instance", "update-deadline",
               "inspect-instance"}

Request == [op : Operations, inst : Instances, server : Servers, gen : Nat,
            exp : Nat, cmd : Nat, token : Nat]

NoReply == [outcome |-> "none", gen |-> 0, exp |-> 0, ready |-> FALSE]
Reply   == [outcome : {"none", "present", "absent", "stale", "error"},
            gen : Nat, exp : Nat, ready : BOOLEAN]

NoWorkload == [present |-> FALSE, gen |-> 0, deadline |-> 0, ready |-> FALSE]
Workload   == [present : BOOLEAN, gen : Nat, deadline : Nat, ready : BOOLEAN]

\* down: no session.  sleep .. overdue: the loop, todo holding the candidates a
\* query returned.  idle, checked: between two claims.  loaded .. retry: executing
\* the command in hand.
Phases == {"down", "startup", "sleep", "pass", "scan", "policy", "overdue",
           "idle", "checked", "loaded", "gated", "await", "reply", "retry"}

NoWork  == [pc |-> "down", todo |-> {}, cmd |-> 0, token |-> 0, snap |-> NoRow,
            op |-> None, server |-> None, reply |-> NoReply]
\* no placement under way (see CountServers)
NoCount == [s \in {} |-> {}]
Counts  == UNION {[candidates -> SUBSET Instances] : candidates \in SUBSET Servers}

Session == [pc : Phases, todo : SUBSET Instances, cmd : Nat, token : Nat, snap : Row,
            op : Operations \cup {None}, server : Servers \cup {None}, reply : Reply]

\* An administrator has switched managed runtimes and the servers on (they are
\* created disabled); revisions are counted from there.
Init ==
    /\ now = 0
    /\ setting = [enabled |-> TRUE, revision |-> 1]
    /\ runtime = [ch \in Challenges |-> [enabled |-> TRUE, revision |-> 1]]
    /\ serverRow \in [Servers -> [enabled : {TRUE}, capacity : Capacities]]
    /\ inst = [i \in Instances |-> NoRow]
    /\ cmds = <<>>
    /\ leader = None
    /\ ctl = [c \in Controllers |-> NoWork]
    /\ counted = [c \in Controllers |-> NoCount]
    /\ wire = {}
    /\ host = [s \in Servers |-> [i \in Instances |-> NoWorkload]]
    /\ tomb = [s \in Servers |-> {}]
    /\ faults = 0

----------------------------------------------------------------------------
(* The API.                                                                 *)

Managed(ch) == setting.enabled /\ runtime[ch].enabled

\* bound: an optional request is only made while the table is short
Room == Len(cmds) < MaxCommands

EnsureInstance(u, ch, ttl) ==
    \E i \in Instances :
        /\ Room
        /\ ~Exists(i)
        /\ Managed(ch)
        /\ \A j \in Instances : inst[j].owner = u => ~inst[j].active
        /\ inst' = [inst EXCEPT ![i] =
              [NoRow EXCEPT !.owner = u, !.challenge = ch, !.active = TRUE,
                            !.desired = "running", !.observed = "requested",
                            !.desiredExp = now + ttl, !.maxExp = now + MaximumTtl,
                            !.exp = now + ttl, !.gen = 1,
                            !.settingRev = setting.revision,
                            !.runtimeRev = runtime[ch].revision]]
        /\ cmds' = Append(cmds, NewCommand(i, "start", 1))
        /\ UNCHANGED <<now, policyVars, counted, leader, ctl, wire, hostVars, faults>>

MinTime(a, b) == IF a <= b THEN a ELSE b

Extensible(row) ==
    /\ row.active /\ row.desired = "running" /\ row.observed = "ready" /\ now < row.exp
    /\ row.extensions < MaximumExtensions

\* mutant: the new deadline is promised before the host has it
ExtendedAndPromised(row, new) ==
    [row EXCEPT !.desiredExp = new, !.exp = new, !.gen = row.gen + 1,
                !.extensions = row.extensions + 1]

Extended(row, new) ==
    [row EXCEPT !.desiredExp = new, !.gen = row.gen + 1,
                !.extensions = row.extensions + 1]

\* (a request repeated with its idempotency key returns the row unchanged)
ExtendInstance(i, additional) ==
    LET row == inst[i]
        new == MinTime(row.desiredExp + additional, row.maxExp) IN
    /\ Room
    /\ Extensible(row)
    /\ row.desiredExp < new
    /\ inst' = [inst EXCEPT ![i] = Extended(row, new)]
    /\ cmds' = Append(cmds, NewCommand(i, "extend", row.gen + 1))
    /\ UNCHANGED <<now, policyVars, counted, leader, ctl, wire, hostVars, faults>>

\* desired_state='stopped', the next generation, and its terminate command
\* mutant: the row keeps its generation while the command gets the next one
StoppedInPlace(row) == [row EXCEPT !.desired = "stopped"]

Stopped(row) == [row EXCEPT !.desired = "stopped", !.gen = row.gen + 1]

RequestTermination(i) ==
    /\ inst[i].active /\ inst[i].desired = "running"
    /\ inst' = [inst EXCEPT ![i] = Stopped(inst[i])]
    /\ cmds' = Append(cmds, NewCommand(i, "terminate", inst[i].gen + 1))
    /\ UNCHANGED <<now, policyVars, counted, leader, ctl, wire, hostVars, faults>>

\* The insert is skipped when the same reconcile is open: ON CONFLICT DO NOTHING.
ReconcileInstance(i) ==
    /\ Room
    /\ inst[i].server # None
    /\ ~ \E k \in DOMAIN cmds : /\ IsOpen(k) /\ cmds[k].inst = i
                                /\ cmds[k].kind = "reconcile"
                                /\ cmds[k].gen = inst[i].gen
    /\ cmds' = Append(cmds, NewCommand(i, "reconcile", inst[i].gen))
    /\ UNCHANGED <<now, policyVars, counted, inst, leader, ctl, wire, hostVars, faults>>

UpdatePrivateChallengesSetting(enabled) ==
    /\ setting.revision < MaxRevision
    /\ setting' = [enabled |-> enabled, revision |-> setting.revision + 1]
    /\ UNCHANGED <<now, runtime, serverRow, dbVars, leader, ctl, counted, wire, hostVars, faults>>

PutChallengeRuntime(ch, enabled) ==
    /\ runtime[ch].revision < MaxRevision
    /\ runtime' = [runtime EXCEPT ![ch] = [enabled |-> enabled, revision |-> @.revision + 1]]
    /\ UNCHANGED <<now, setting, serverRow, dbVars, leader, ctl, counted, wire, hostVars, faults>>

\* update_remote_server compares the capacity with nothing; disable_remote_server
\* is the same with enabled = FALSE
UpdateRemoteServer(s, enabled, capacity) ==
    /\ enabled # serverRow[s].enabled => MaxRevision > 1 /\ Room   \* bounds, as above
    /\ serverRow' = [serverRow EXCEPT ![s] = [enabled |-> enabled, capacity |-> capacity]]
    /\ serverRow' # serverRow
    /\ UNCHANGED <<now, setting, runtime, dbVars, leader, ctl, counted, wire, hostVars, faults>>

Api ==
    \/ \E u \in Owners, ch \in Challenges, ttl \in Ttls :
          EnsureInstance(u, ch, ttl)
    \/ \E i \in Instances : \/ \E more \in Ttls : ExtendInstance(i, more)
                            \/ RequestTermination(i)
                            \/ ReconcileInstance(i)
    \/ \E b \in BOOLEAN : \/ UpdatePrivateChallengesSetting(b)
                          \/ \E ch \in Challenges : PutChallengeRuntime(ch, b)
                          \/ \E s \in Servers, n \in Capacities : UpdateRemoteServer(s, b, n)

----------------------------------------------------------------------------
(* Sessions: the singleton lease, recovery, and the passes of the loop.     *)

Idle == [NoWork EXCEPT !.pc = "idle"]

AcquireLease(c) ==
    /\ ctl[c].pc = "down"
    /\ leader = None
    /\ leader' = c
    /\ ctl' = [ctl EXCEPT ![c].pc = "startup"]
    /\ UNCHANGED <<now, policyVars, counted, dbVars, wire, hostVars, faults>>

Released(k) == [cmds[k] EXCEPT !.status = "pending", !.token = 0, !.backoff = FALSE]

MoveTo(c, phase) ==
    /\ ctl' = [ctl EXCEPT ![c] = [NoWork EXCEPT !.pc = phase]]
    /\ UNCHANGED <<now, policyVars, counted, inst, leader, wire, hostVars, faults>>

\* A placement under way holds the row of its command FOR UPDATE.
Locked(k) == \E c \in Controllers : counted[c] # NoCount /\ ctl[c].cmd = k

\* (an update that meets a locked row waits, and finds it claimed still)
RecoverAllClaims(c) ==
    /\ ctl[c].pc = "startup"
    /\ \A k \in DOMAIN cmds : ~Locked(k)
    /\ cmds' = [k \in DOMAIN cmds |->
                   IF cmds[k].status = "claimed" THEN Released(k) ELSE cmds[k]]
    /\ MoveTo(c, "scan")

\* SELECT 1 on the lease connection, before each loop pass and each claim
CheckLease(c) ==
    /\ ctl[c].pc \in {"idle", "sleep"}
    /\ leader = c
    /\ MoveTo(c, IF ctl[c].pc = "idle" THEN "checked" ELSE "pass")
    /\ UNCHANGED cmds

LeaseWasLost(c) ==
    /\ ctl[c].pc \in {"idle", "sleep"}
    /\ leader # c
    /\ MoveTo(c, "down")
    /\ UNCHANGED cmds

\* How long ago a claim was taken is not modelled: any claims may be stale.
RecoverStaleClaims(c) ==
    /\ ctl[c].pc = "pass"
    /\ \E stale \in SUBSET {k \in DOMAIN cmds : cmds[k].status = "claimed" /\ ~Locked(k)} :
          cmds' = [k \in DOMAIN cmds |-> IF k \in stale THEN Released(k) ELSE cmds[k]]
    /\ MoveTo(c, "scan")

\* create_termination_command_in_transaction, on given versions of the tables
MayTerminate(rows, cs, i) ==
    /\ rows[i].active
    /\ ~ \E k \in DOMAIN cs : /\ cs[k].inst = i /\ cs[k].kind = "terminate"
                              /\ cs[k].status \in {"pending", "claimed"}

CreateTermination(rows, cs, i, overdue) ==
    /\ inst' = IF MayTerminate(rows, cs, i)
               THEN [rows EXCEPT ![i] = Stopped(rows[i])] ELSE rows
    /\ cmds' = IF MayTerminate(rows, cs, i)
               THEN Append(cs, [NewCommand(i, "terminate", rows[i].gen + 1)
                                   EXCEPT !.overdue = overdue])
               ELSE cs

\* neither queued already nor failed within the safety retry interval
NeedsStop(i) ==
    /\ inst[i].active
    /\ ~OpenCommand(i, {"terminate"})
    /\ ~ \E k \in DOMAIN cmds : /\ cmds[k].inst = i /\ cmds[k].kind = "terminate"
                                /\ cmds[k].status = "failed" /\ cmds[k].recent

\* mutant: the challenge's own switch is forgotten
GlobalSwitchOnly(row) == row.desired = "stopped" \/ ~setting.enabled

Disallowed(row) == row.desired = "stopped" \/ ~Managed(row.challenge)

\* mutant: a ready instance is left to its timer
OverdueUnlessReady(row) == row.exp <= now /\ row.observed \in {"starting", "unknown"}

Overdue(row) == row.exp <= now

\* The candidates are queried first and stopped one transaction each: by then
\* another actor may have stopped, extended or released them.
ScanPolicy(c) ==
    /\ ctl[c].pc = "scan"
    /\ ctl' = [ctl EXCEPT ![c] = [@ EXCEPT !.pc = "policy",
                  !.todo = {i \in Instances : NeedsStop(i) /\ Disallowed(inst[i])}]]
    /\ UNCHANGED <<now, policyVars, counted, dbVars, leader, wire, hostVars, faults>>

ScanOverdue(c) ==
    /\ ctl[c].pc = "policy" /\ ctl[c].todo = {}
    /\ ctl' = [ctl EXCEPT ![c] = [@ EXCEPT !.pc = "overdue",
                  !.todo = {i \in Instances : NeedsStop(i) /\ Overdue(inst[i])}]]
    /\ UNCHANGED <<now, policyVars, counted, dbVars, leader, wire, hostVars, faults>>

QueueStop(c) ==
    /\ ctl[c].pc \in {"policy", "overdue"}
    /\ \E i \in ctl[c].todo :
          /\ CreateTermination(inst, cmds, i, ctl[c].pc = "overdue")
          /\ ctl' = [ctl EXCEPT ![c] = [@ EXCEPT !.todo = ctl[c].todo \ {i}]]
    /\ UNCHANGED <<now, policyVars, counted, leader, wire, hostVars, faults>>

\* How long ago a row was observed is not modelled: any candidate may be due.
EnqueueInspection(c, i) ==
    /\ ctl[c].pc = "overdue" /\ ctl[c].todo = {}
    /\ Room
    /\ inst[i].active /\ inst[i].desired = "running"
    /\ now < inst[i].exp
    /\ inst[i].server # None
    /\ inst[i].observed \in {"ready", "starting", "unknown"}
    /\ ~OpenCommand(i, Kinds)
    /\ cmds' = Append(cmds, NewCommand(i, "inspect", inst[i].gen))
    /\ UNCHANGED <<now, policyVars, counted, inst, leader, ctl, wire, hostVars, faults>>

EnqueuesDone(c) ==
    /\ ctl[c].pc = "overdue" /\ ctl[c].todo = {}
    /\ MoveTo(c, "idle")
    /\ UNCHANGED cmds

----------------------------------------------------------------------------
(* Claiming, and what happens to a command that was claimed.                *)

Available(k) == cmds[k].status = "pending" /\ ~cmds[k].backoff

\* claim_command takes the oldest available row; load_instance reads its instance
ClaimCommand(c) ==
    /\ ctl[c].pc = "checked"
    /\ \E k \in DOMAIN cmds :
          /\ Available(k)
          /\ \A j \in DOMAIN cmds : Available(j) => k <= j
          /\ cmds' = [cmds EXCEPT ![k] =
                [@ EXCEPT !.status = "claimed", !.token = cmds[k].attempts + 1,
                          !.attempts = cmds[k].attempts + 1]]
          /\ ctl' = [ctl EXCEPT ![c] =
                [NoWork EXCEPT !.pc = "loaded", !.cmd = k,
                               !.token = cmds[k].attempts + 1,
                               !.snap = inst[cmds[k].inst]]]
    /\ UNCHANGED <<now, policyVars, counted, inst, leader, wire, hostVars, faults>>

NothingToClaim(c) ==
    /\ ctl[c].pc = "checked"
    /\ \A k \in DOMAIN cmds : ~Available(k)
    /\ MoveTo(c, "sleep")
    /\ UNCHANGED cmds

Cmd(c) == cmds[ctl[c].cmd]
Target(c) == Cmd(c).inst

\* lock_command_claim: the row is still claimed with the token of this claim
HoldsClaim(c) == Cmd(c).status = "claimed" /\ Cmd(c).token = ctl[c].token

Closed(cs, k, status) ==
    [cs EXCEPT ![k] = [@ EXCEPT !.status = status, !.token = 0,
                                !.recent = (status = "failed")]]

\* every closing update is fenced by the claim and otherwise ignored
Close(c, status) ==
    IF HoldsClaim(c) THEN Closed(cmds, ctl[c].cmd, status) ELSE cmds

BackToLoop(c) == ctl' = [ctl EXCEPT ![c] = Idle]

Leave(c, status) ==
    /\ cmds' = Close(c, status)
    /\ BackToLoop(c)
    /\ UNCHANGED <<now, policyVars, inst, leader, wire, hostVars, faults>>

Drop(c, status) == Leave(c, status) /\ UNCHANGED counted

\* the call is journalled, sent, and awaited
Send(c, op, server) ==
    /\ wire' = wire \cup
          {[op |-> op, inst |-> Target(c), server |-> server, gen |-> Cmd(c).gen,
            exp |-> ctl[c].snap.desiredExp, cmd |-> ctl[c].cmd, token |-> ctl[c].token]}
    /\ ctl' = [ctl EXCEPT ![c] =
          [@ EXCEPT !.pc = "await", !.op = op, !.server = server, !.reply = NoReply]]

InHand(c, kinds) ==
    ctl[c].pc = "loaded" /\ Cmd(c).kind \in kinds /\ Cmd(c).gen = ctl[c].snap.gen

CancelStaleCommand(c) ==
    /\ ctl[c].pc = "loaded"
    /\ Cmd(c).gen # ctl[c].snap.gen
    /\ Drop(c, "cancelled")

\* mutant: the generation is not compared
AnyRowIsCurrent(c) == inst[Target(c)].gen >= Cmd(c).gen

\* Does the row still match the generation the command was written for?
RowIsCurrent(c) == inst[Target(c)].gen = Cmd(c).gen

----------------------------------------------------------------------------
(* start                                                                    *)

Wanted(row) == row.active /\ row.desired = "running"

StartUnwanted(c) ==
    /\ InHand(c, {"start"})
    /\ ~Wanted(ctl[c].snap)
    /\ Drop(c, "cancelled")

\* Only a row still 'requested' is released: nothing was placed for it.
ReleaseUnplaced(c, observed, obsGen) ==
    LET i == Target(c) IN
    /\ inst' = IF /\ HoldsClaim(c) /\ RowIsCurrent(c)
                  /\ inst[i].active /\ inst[i].observed = "requested"
               THEN [inst EXCEPT ![i] =
                        [@ EXCEPT !.active = FALSE, !.desired = "stopped",
                                  !.observed = observed, !.obsGen = obsGen]]
               ELSE inst
    /\ cmds' = Close(c, "cancelled")
    /\ BackToLoop(c)
    /\ UNCHANGED <<now, policyVars, counted, leader, wire, hostVars, faults>>

ExpireUnstarted(c) ==
    /\ InHand(c, {"start"})
    /\ Wanted(ctl[c].snap)
    /\ ctl[c].snap.desiredExp <= now
    /\ ReleaseUnplaced(c, "expired", Cmd(c).gen)

GateOpen(c) ==
    LET row == ctl[c].snap IN
    /\ Managed(row.challenge)
    /\ row.settingRev = setting.revision
    /\ row.runtimeRev = runtime[row.challenge].revision

RejectStart(c) ==
    /\ InHand(c, {"start"})
    /\ Wanted(ctl[c].snap)
    /\ now < ctl[c].snap.desiredExp
    /\ ~GateOpen(c)
    /\ ReleaseUnplaced(c, "failed", inst[Target(c)].obsGen)

PassGate(c) ==
    /\ InHand(c, {"start"})
    /\ Wanted(ctl[c].snap)
    /\ now < ctl[c].snap.desiredExp
    /\ GateOpen(c)
    /\ ctl' = [ctl EXCEPT ![c].pc = "gated"]
    /\ UNCHANGED <<now, policyVars, counted, dbVars, leader, wire, hostVars, faults>>

PlacedOn(s) == {i \in Instances : inst[i].active /\ inst[i].server = s}

Load(s) == Cardinality(PlacedOn(s))

Starting(c) == ctl[c].pc = "gated" /\ Cmd(c).kind = "start"

StillStartable(c) == HoldsClaim(c) /\ RowIsCurrent(c) /\ Wanted(inst[Target(c)])

\* mutant: a reclaimed start selects a host again
AlwaysSelects(c) == TRUE

\* a reclaimed start reuses the host its row already names
SelectsHost(c) == ctl[c].snap.server = None

\* mark_starting
RestartAtHost(c) ==
    /\ Starting(c)
    /\ ~SelectsHost(c)
    /\ StillStartable(c)
    /\ inst' = [inst EXCEPT ![Target(c)].observed = "starting"]
    /\ Send(c, "ensure-instance", ctl[c].snap.server)
    /\ UNCHANGED <<now, policyVars, counted, cmds, leader, hostVars, faults>>

\* select_and_mark_starting.  Its query counts slots on the snapshot it starts
\* with and locks a server later, so a placement is two steps: the first locks
\* the claim and counts (READ COMMITTED), the second locks a server and commits.
\* (the remote pool of the snapshot is left out: every server is in it)
WithRoom == {s \in Servers : serverRow[s].enabled /\ Load(s) < serverRow[s].capacity}

CountServers(c) ==
    /\ Starting(c)
    /\ SelectsHost(c) /\ HoldsClaim(c)
    /\ counted[c] = NoCount
    /\ WithRoom # {}
    /\ counted' = [counted EXCEPT ![c] = [s \in WithRoom |-> PlacedOn(s)]]
    /\ UNCHANGED <<now, policyVars, dbVars, leader, ctl, wire, hostVars, faults>>

\* mutant: a server row that changed since the count is not checked again
RoomWhenCounted(c, s) == s \in DOMAIN counted[c]

\* A row that changed since is checked again once it is locked, with the old count.
StillHasRoom(c, s) ==
    /\ s \in DOMAIN counted[c]
    /\ serverRow[s].enabled /\ Cardinality(counted[c][s]) < serverRow[s].capacity

\* ORDER BY the count ... SKIP LOCKED LIMIT 1: rows that others hold just then,
\* other placements or edits of a server, are passed over
LeastLoaded(c, skipped) ==
    LET open == {s \in Servers \ skipped : StillHasRoom(c, s)} IN
    {s \in open : \A t \in open : Cardinality(counted[c][s]) <= Cardinality(counted[c][t])}

EndPlacement(c) == counted' = [counted EXCEPT ![c] = NoCount]

PlaceAndStart(c) ==
    /\ Starting(c)
    /\ SelectsHost(c) /\ StillStartable(c)
    /\ \E skipped \in SUBSET Servers : \E s \in LeastLoaded(c, skipped) :
          /\ inst' = [inst EXCEPT ![Target(c)] = [@ EXCEPT !.observed = "starting", !.server = s]]
          /\ Send(c, "ensure-instance", s)
    /\ EndPlacement(c)
    /\ UNCHANGED <<now, policyVars, cmds, leader, hostVars, faults>>

NoCapacity(c) ==
    /\ Starting(c)
    /\ SelectsHost(c) /\ HoldsClaim(c)
    /\ IF counted[c] = NoCount THEN WithRoom = {}
       ELSE \E skipped \in SUBSET Servers : LeastLoaded(c, skipped) = {}
    /\ ctl' = [ctl EXCEPT ![c].pc = "retry"]
    /\ EndPlacement(c)
    /\ UNCHANGED <<now, policyVars, dbVars, leader, wire, hostVars, faults>>

\* the claim is gone, or the row no longer wants this start
StartWithdrawn(c) ==
    /\ Starting(c)
    /\ ~StillStartable(c)
    /\ HoldsClaim(c) /\ SelectsHost(c) =>
          \E skipped \in SUBSET Servers : LeastLoaded(c, skipped) # {}
    /\ Leave(c, "cancelled")
    /\ EndPlacement(c)

----------------------------------------------------------------------------
(* The reply: what the controller accepts, and how each kind commits it.    *)

Accepted(c) ==
    LET r == ctl[c].reply IN
    CASE ctl[c].op = "ensure-instance" ->
             r.outcome = "present" /\ r.gen = Cmd(c).gen /\ r.ready
                /\ r.exp <= ctl[c].snap.maxExp
      [] ctl[c].op = "stop-instance" -> r.outcome = "absent"
      [] ctl[c].op = "update-deadline" ->
             r.outcome = "present" /\ r.gen = Cmd(c).gen
                /\ r.exp <= ctl[c].snap.maxExp /\ now < r.exp
      [] OTHER -> \/ r.outcome = "absent"
                  \/ r.outcome = "present" /\ r.gen = Cmd(c).gen

Replied(c, op, kinds) ==
    ctl[c].pc = "reply" /\ ctl[c].op = op /\ Cmd(c).kind \in kinds

RemoteRefused(c) ==
    /\ ctl[c].pc = "reply"
    /\ ~Accepted(c)
    /\ ctl' = [ctl EXCEPT ![c].pc = "retry"]
    /\ UNCHANGED <<now, policyVars, counted, dbVars, leader, wire, hostVars, faults>>

\* finish_start commits on the generation alone: it does not look at active
FinishStart(c) ==
    LET i == Target(c) IN
    /\ Replied(c, "ensure-instance", {"start"})
    /\ Accepted(c)
    /\ HoldsClaim(c) /\ RowIsCurrent(c)
    /\ inst' = [inst EXCEPT ![i] =
          [@ EXCEPT !.observed = "ready", !.obsGen = Cmd(c).gen,
                    !.exp = ctl[c].reply.exp, !.server = ctl[c].server]]
    /\ cmds' = Close(c, "completed")
    /\ BackToLoop(c)
    /\ UNCHANGED <<now, policyVars, counted, leader, wire, hostVars, faults>>

LostClaimAfterStart(c) ==
    /\ Replied(c, "ensure-instance", {"start"})
    /\ Accepted(c)
    /\ ~HoldsClaim(c)
    /\ ctl' = [ctl EXCEPT ![c].pc = "retry"]
    /\ UNCHANGED <<now, policyVars, counted, dbVars, leader, wire, hostVars, faults>>

\* the generation moved on while the workload started: stop what was started
UndoStart(c) ==
    /\ Replied(c, "ensure-instance", {"start"})
    /\ Accepted(c)
    /\ HoldsClaim(c) /\ ~RowIsCurrent(c)
    /\ Send(c, "stop-instance", ctl[c].server)
    /\ UNCHANGED <<now, policyVars, counted, dbVars, leader, hostVars, faults>>

StartUndone(c) ==
    /\ Replied(c, "stop-instance", {"start"})
    /\ Accepted(c)
    /\ Drop(c, "cancelled")

----------------------------------------------------------------------------
(* terminate                                                                *)

AlreadyReleased(c) ==
    /\ InHand(c, {"terminate"})
    /\ ~ctl[c].snap.active
    /\ Drop(c, "completed")

StopWithdrawn(c) ==
    /\ InHand(c, {"terminate"})
    /\ ctl[c].snap.active
    /\ ~ (HoldsClaim(c) /\ RowIsCurrent(c) /\ inst[Target(c)].active)
    /\ Drop(c, "cancelled")

\* mutant: a host is only asked when the workload was seen there
StopIfSeen(c) ==
    IF ctl[c].snap.observed # "ready"
    THEN ctl' = [ctl EXCEPT ![c].pc = "gated"] /\ UNCHANGED wire
    ELSE Send(c, "stop-instance", ctl[c].snap.server)

StopIfPlaced(c) ==
    IF ctl[c].snap.server = None
    THEN ctl' = [ctl EXCEPT ![c].pc = "gated"] /\ UNCHANGED wire
    ELSE Send(c, "stop-instance", ctl[c].snap.server)

MarkStopping(c) ==
    LET i == Target(c) IN
    /\ InHand(c, {"terminate"})
    /\ ctl[c].snap.active
    /\ HoldsClaim(c) /\ RowIsCurrent(c) /\ inst[i].active
    /\ inst' = [inst EXCEPT ![i].observed = "stopping"]
    /\ StopIfPlaced(c)
    /\ UNCHANGED <<now, policyVars, counted, cmds, leader, hostVars, faults>>

FinishTermination(c) ==
    LET i == Target(c) IN
    /\ \/ Replied(c, "stop-instance", {"terminate"}) /\ Accepted(c)
       \/ ctl[c].pc = "gated" /\ Cmd(c).kind = "terminate"
    /\ LET done == HoldsClaim(c) /\ RowIsCurrent(c) /\ inst[i].active IN
       /\ inst' = IF done
                  THEN [inst EXCEPT ![i] =
                           [@ EXCEPT !.active = FALSE, !.desired = "stopped",
                                     !.observed = IF ctl[c].snap.exp <= now \/ Cmd(c).overdue
                                                  THEN "expired" ELSE "terminated",
                                     !.obsGen = Cmd(c).gen]]
                  ELSE inst
       /\ cmds' = Close(c, IF done THEN "completed" ELSE "cancelled")
    /\ BackToLoop(c)
    /\ UNCHANGED <<now, policyVars, counted, leader, wire, hostVars, faults>>

----------------------------------------------------------------------------
(* extend                                                                   *)

Extendable(row) == Wanted(row) /\ now < row.exp

ExtendUnwanted(c) ==
    /\ InHand(c, {"extend"})
    /\ ~Extendable(ctl[c].snap)
    /\ Drop(c, "cancelled")

SendExtend(c) ==
    /\ InHand(c, {"extend"})
    /\ Extendable(ctl[c].snap)
    /\ Send(c, "update-deadline", ctl[c].snap.server)
    /\ UNCHANGED <<now, policyVars, counted, dbVars, leader, hostVars, faults>>

FinishExtension(c) ==
    LET i == Target(c)
        done == HoldsClaim(c) /\ RowIsCurrent(c) /\ inst[i].active IN
    /\ Replied(c, "update-deadline", {"extend"})
    /\ Accepted(c)
    /\ inst' = IF done
               THEN [inst EXCEPT ![i] = [@ EXCEPT !.exp = ctl[c].reply.exp,
                                                  !.obsGen = Cmd(c).gen]]
               ELSE inst
    /\ cmds' = Close(c, IF done THEN "completed" ELSE "cancelled")
    /\ BackToLoop(c)
    /\ UNCHANGED <<now, policyVars, counted, leader, wire, hostVars, faults>>

----------------------------------------------------------------------------
(* inspect and reconcile                                                    *)

\* (both are queued for placed rows only, and remote_server_id is never cleared,
\* so the row always names a server here and in SendExtend)
SendInspect(c) ==
    /\ InHand(c, {"inspect", "reconcile"})
    /\ Send(c, "inspect-instance", ctl[c].snap.server)
    /\ UNCHANGED <<now, policyVars, counted, dbVars, leader, hostVars, faults>>

Inspected(c) ==
    Replied(c, "inspect-instance", {"inspect", "reconcile"}) /\ Accepted(c)

StillInspectable(c) == HoldsClaim(c) /\ RowIsCurrent(c) /\ inst[Target(c)].active

InspectionWithdrawn(c) ==
    /\ Inspected(c)
    /\ ~StillInspectable(c)
    /\ Drop(c, "cancelled")

\* finish_inspection, nothing on the host: the slot is released at once
InspectedAbsent(c) ==
    LET snap == ctl[c].snap IN
    /\ Inspected(c)
    /\ StillInspectable(c)
    /\ ctl[c].reply.outcome = "absent"
    /\ inst' = [inst EXCEPT ![Target(c)] =
          [@ EXCEPT !.active = FALSE,
                    !.observed = IF snap.exp <= now \/ snap.desired = "stopped"
                                 THEN "expired" ELSE "failed"]]
    /\ cmds' = Close(c, "completed")
    /\ BackToLoop(c)
    /\ UNCHANGED <<now, policyVars, counted, leader, wire, hostVars, faults>>

InspectedReady(c) ==
    /\ Inspected(c)
    /\ StillInspectable(c)
    /\ ctl[c].reply.outcome = "present" /\ ctl[c].reply.ready
    /\ inst' = [inst EXCEPT ![Target(c)] =
          [@ EXCEPT !.observed = "ready", !.obsGen = Cmd(c).gen]]
    /\ cmds' = Close(c, "completed")
    /\ BackToLoop(c)
    /\ UNCHANGED <<now, policyVars, counted, leader, wire, hostVars, faults>>

InspectedNotReady(c) ==
    LET i == Target(c) IN
    /\ Inspected(c)
    /\ StillInspectable(c)
    /\ ctl[c].reply.outcome = "present" /\ ~ctl[c].reply.ready
    /\ CreateTermination([inst EXCEPT ![i].observed = "cleanup_pending"],
                         Close(c, "completed"), i, FALSE)
    /\ BackToLoop(c)
    /\ UNCHANGED <<now, policyVars, counted, leader, wire, hostVars, faults>>

----------------------------------------------------------------------------
(* schedule_retry                                                           *)

RetryLater(c) ==
    /\ ctl[c].pc = "retry"
    /\ ctl[c].token < MaxAttempts \/ ~HoldsClaim(c)
    /\ cmds' = IF HoldsClaim(c)
               THEN [cmds EXCEPT ![ctl[c].cmd] =
                        [@ EXCEPT !.status = "pending", !.token = 0, !.backoff = TRUE]]
               ELSE cmds
    /\ BackToLoop(c)
    /\ UNCHANGED <<now, policyVars, counted, inst, leader, wire, hostVars, faults>>

FailedState(kind) == CASE kind = "extend" -> "ready"
                       [] kind \in {"inspect", "reconcile"} -> "unknown"
                       [] OTHER -> "cleanup_pending"

GiveUp(c) ==
    LET i == Target(c)
        touched == RowIsCurrent(c) /\ inst[i].active
        rows == IF touched THEN [inst EXCEPT ![i].observed = FailedState(Cmd(c).kind)]
                ELSE inst IN
    /\ ctl[c].pc = "retry"
    /\ HoldsClaim(c)
    /\ MaxAttempts <= ctl[c].token
    /\ IF touched /\ Cmd(c).kind = "start"
       THEN CreateTermination(rows, Close(c, "failed"), i, FALSE)
       ELSE inst' = rows /\ cmds' = Close(c, "failed")
    /\ BackToLoop(c)
    /\ UNCHANGED <<now, policyVars, counted, leader, wire, hostVars, faults>>

----------------------------------------------------------------------------
(* The hosts.  Each operation holds the lock of its instance: it is one step.*)

Deliver(r, reply) ==
    /\ wire' = wire \ {r}
    /\ ctl' = [c \in Controllers |->
          IF /\ ctl[c].pc = "await" /\ ctl[c].op = r.op
             /\ ctl[c].cmd = r.cmd /\ ctl[c].token = r.token
          THEN [ctl[c] EXCEPT !.pc = "reply", !.reply = reply]
          ELSE ctl[c]]

Answer(outcome, w) ==
    [outcome |-> outcome, gen |-> w.gen, exp |-> w.deadline, ready |-> w.ready]

\* mutant: a repeated start is applied to a later generation
EnsureAnyGeneration(r, w, t) ==
    LET new == [present |-> TRUE, gen |-> r.gen, deadline |-> r.exp, ready |-> TRUE] IN
    CASE t                           -> [w |-> w, t |-> t, outcome |-> "stale"]
      [] ~t /\ r.exp <= now          -> [w |-> w, t |-> t, outcome |-> "error"]
      [] OTHER                       -> [w |-> new, t |-> t, outcome |-> "present"]

\* What the call does to the workload w and the tombstone t of its instance
\* at its server: the new workload, the new tombstone, and the outcome.
EnsureOutcome(r, w, t) ==
    LET new == [present |-> TRUE, gen |-> r.gen, deadline |-> r.exp, ready |-> TRUE] IN
    CASE t                           -> [w |-> w, t |-> t, outcome |-> "stale"]
      [] ~t /\ r.exp <= now          -> [w |-> w, t |-> t, outcome |-> "error"]
      [] ~t /\ now < r.exp /\ ~w.present -> [w |-> new, t |-> t, outcome |-> "present"]
      [] ~t /\ now < r.exp /\ w.present /\ w.gen # r.gen
                                     -> [w |-> w, t |-> t, outcome |-> "stale"]
      [] OTHER -> [w |-> [w EXCEPT !.deadline = r.exp], t |-> t,
                   outcome |-> IF w.ready THEN "present" ELSE "error"]

StopOutcome(r, w, t) ==
    IF w.present /\ r.gen < w.gen
    THEN [w |-> w, t |-> t, outcome |-> "stale"]
    ELSE [w |-> NoWorkload, t |-> TRUE, outcome |-> "absent"]

UpdateOutcome(r, w, t) ==
    CASE t                           -> [w |-> w, t |-> t, outcome |-> "stale"]
      [] ~t /\ ~w.present            -> [w |-> w, t |-> t, outcome |-> "error"]
      [] ~t /\ w.present /\ r.gen < w.gen
                                     -> [w |-> w, t |-> t, outcome |-> "stale"]
      [] ~t /\ w.present /\ w.gen <= r.gen /\ r.exp <= now
                                     -> [w |-> w, t |-> t, outcome |-> "error"]
      [] OTHER -> [w |-> [w EXCEPT !.gen = r.gen, !.deadline = r.exp], t |-> t,
                   outcome |-> "present"]

InspectOutcome(w, t) ==
    [w |-> w, t |-> t, outcome |-> IF w.present THEN "present" ELSE "absent"]

Outcome(r, w, t) ==
    CASE r.op = "ensure-instance" -> EnsureOutcome(r, w, t)
      [] r.op = "stop-instance"   -> StopOutcome(r, w, t)
      [] r.op = "update-deadline" -> UpdateOutcome(r, w, t)
      [] OTHER                    -> InspectOutcome(w, t)

ServeRequest(r) ==
    LET o == Outcome(r, host[r.server][r.inst], r.inst \in tomb[r.server]) IN
    /\ host' = [host EXCEPT ![r.server][r.inst] = o.w]
    /\ tomb' = [tomb EXCEPT ![r.server] = IF o.t THEN @ \cup {r.inst} ELSE @]
    /\ Deliver(r, Answer(o.outcome, o.w))
    /\ UNCHANGED <<now, policyVars, counted, dbVars, leader, faults>>

\* the generation's timer, or the sweeper, finds the deadline passed
ExpireWorkload(s, i) ==
    /\ host[s][i].present
    /\ host[s][i].deadline <= now
    /\ tomb' = [tomb EXCEPT ![s] = @ \cup {i}]
    /\ host' = [host EXCEPT ![s][i] = NoWorkload]
    /\ UNCHANGED <<now, policyVars, counted, dbVars, leader, ctl, wire, faults>>

----------------------------------------------------------------------------
(* The environment: time, and the faults the design has to survive.         *)

Tick ==
    /\ now < MaxTime
    /\ now' = now + 1
    /\ UNCHANGED <<policyVars, counted, dbVars, leader, ctl, wire, hostVars, faults>>

BackoffElapses(k) ==
    /\ cmds[k].backoff
    /\ cmds' = [cmds EXCEPT ![k].backoff = FALSE]
    /\ UNCHANGED <<now, policyVars, counted, inst, leader, ctl, wire, hostVars, faults>>

FailureAges(k) ==
    /\ cmds[k].recent
    /\ cmds' = [cmds EXCEPT ![k].recent = FALSE]
    /\ UNCHANGED <<now, policyVars, counted, inst, leader, ctl, wire, hostVars, faults>>

Fault == faults < MaxFaults /\ faults' = faults + 1

\* the SSH process is killed at its timeout; the call may still be served
RemoteTimeout(c) ==
    /\ Fault
    /\ ctl[c].pc = "await"
    /\ ctl' = [ctl EXCEPT ![c].pc = "retry"]
    /\ UNCHANGED <<now, policyVars, counted, dbVars, leader, wire, hostVars>>

\* the process dies, or a database error ends its session
Crash(c) ==
    /\ Fault
    /\ ctl[c].pc # "down"
    /\ ctl' = [ctl EXCEPT ![c] = NoWork]
    /\ leader' = IF leader = c THEN None ELSE leader
    /\ EndPlacement(c)
    /\ UNCHANGED <<now, policyVars, dbVars, wire, hostVars>>

\* only the lease connection dies: the session goes on until it looks
LoseLease ==
    /\ Fault
    /\ leader # None
    /\ leader' = None
    /\ UNCHANGED <<now, policyVars, counted, dbVars, ctl, wire, hostVars>>

ContainerExits(s, i) ==
    /\ Fault
    /\ host[s][i].present /\ host[s][i].ready
    /\ host' = [host EXCEPT ![s][i].ready = FALSE]
    /\ UNCHANGED <<now, policyVars, counted, dbVars, leader, ctl, wire, tomb>>

\* startup fails on the host: the workload is removed again, without a tombstone
StartupFails(r) ==
    /\ Fault
    /\ r.op = "ensure-instance"
    /\ ~host[r.server][r.inst].present
    /\ Deliver(r, Answer("error", NoWorkload))
    /\ UNCHANGED <<now, policyVars, counted, dbVars, leader, hostVars>>

\* the helper dies before it wrote the state file: what it left has no trusted
\* deadline, so whoever finds it fences the identifier (see RemoteHelper)
HelperDies(r) ==
    /\ Fault
    /\ r.op = "ensure-instance"
    /\ ~host[r.server][r.inst].present
    /\ now < r.exp
    /\ tomb' = [tomb EXCEPT ![r.server] = @ \cup {r.inst}]
    /\ Deliver(r, Answer("error", NoWorkload))
    /\ UNCHANGED <<now, policyVars, counted, dbVars, leader, host>>

----------------------------------------------------------------------------

Pass(c) ==
    \/ AcquireLease(c) \/ RecoverAllClaims(c)
    \/ CheckLease(c) \/ LeaseWasLost(c)
    \/ RecoverStaleClaims(c) \/ ScanPolicy(c) \/ ScanOverdue(c) \/ QueueStop(c)
    \/ (\E i \in Instances : EnqueueInspection(c, i)) \/ EnqueuesDone(c)
    \/ ClaimCommand(c) \/ NothingToClaim(c)

Execute(c) ==
    \/ CancelStaleCommand(c)
    \/ StartUnwanted(c) \/ ExpireUnstarted(c) \/ RejectStart(c) \/ PassGate(c)
    \/ RestartAtHost(c) \/ CountServers(c) \/ StartWithdrawn(c) \/ NoCapacity(c) \/ PlaceAndStart(c)
    \/ RemoteRefused(c)
    \/ FinishStart(c) \/ LostClaimAfterStart(c) \/ UndoStart(c) \/ StartUndone(c)
    \/ AlreadyReleased(c) \/ StopWithdrawn(c) \/ MarkStopping(c) \/ FinishTermination(c)
    \/ ExtendUnwanted(c) \/ SendExtend(c) \/ FinishExtension(c)
    \/ SendInspect(c) \/ InspectionWithdrawn(c)
    \/ InspectedAbsent(c) \/ InspectedReady(c) \/ InspectedNotReady(c)
    \/ RetryLater(c) \/ GiveUp(c)

Controller(c) == Pass(c) \/ Execute(c)

Environment ==
    \/ Tick
    \/ LoseLease
    \/ \E k \in DOMAIN cmds : BackoffElapses(k) \/ FailureAges(k)
    \/ \E c \in Controllers : RemoteTimeout(c) \/ Crash(c)
    \/ \E s \in Servers, i \in Instances : ExpireWorkload(s, i) \/ ContainerExits(s, i)
    \/ \E r \in wire : ServeRequest(r) \/ StartupFails(r) \/ HelperDies(r)

Next == Api \/ Environment \/ \E c \in Controllers : Controller(c)

Spec == Init /\ [][Next]_vars

\* the host answers the call a controller is waiting for
ServeAwaited(c) ==
    \E r \in wire : r.cmd = ctl[c].cmd /\ r.token = ctl[c].token /\ ServeRequest(r)

StaleClaimsRecovered(c) == RecoverStaleClaims(c) /\ cmds' # cmds

WaitsElapse == \E k \in DOMAIN cmds : BackoffElapses(k) \/ FailureAges(k)

\* A live session keeps going, and a claim that is found at pass after pass is
\* at last old enough to be recovered: strong fairness, as a pass is brief.
\* Timeouts, crashes and lease losses stop at some point (they are bounded),
\* and a host that is not timed out answers.  Nothing obliges a user to act.
Fairness ==
    /\ \A c \in Controllers :
          /\ WF_vars(Controller(c))
          /\ WF_vars(ServeAwaited(c))
          /\ SF_vars(StaleClaimsRecovered(c))
    /\ WF_vars(WaitsElapse)

FairSpec == Spec /\ Fairness

----------------------------------------------------------------------------
(* Properties.                                                              *)

\* Types of every variable.  (runtime_instances, runtime_commands and the
\* CommandRow, InstanceRow and RemoteResult a controller carries.)
TypeOK ==
    /\ now \in Nat
    /\ setting \in Policy
    /\ runtime \in [Challenges -> Policy]
    /\ serverRow \in [Servers -> ServerRow]
    /\ inst \in [Instances -> Row]
    /\ cmds \in Seq(Command)
    /\ leader \in Controllers \cup {None}
    /\ ctl \in [Controllers -> Session]
    /\ counted \in [Controllers -> Counts]
    /\ wire \subseteq Request
    /\ host \in [Servers -> [Instances -> Workload]]
    /\ tomb \in [Servers -> SUBSET Instances]
    /\ faults \in Nat

\* An instance only ever runs on the server its row names, whatever claims were
\* lost and reclaimed while it was being placed: a reclaimed start must reuse
\* the host of the first claimant (execute_start, mark_starting).
OneHostPerInstance ==
    /\ \A s \in Servers, i \in Instances : host[s][i].present => inst[i].server = s
    /\ \A r \in wire : inst[r.inst].server = r.server

\* released by finish_termination, or expired before anything was placed
ReleasedByStop(i) ==
    /\ Exists(i) /\ ~inst[i].active
    /\ inst[i].desired = "stopped" /\ inst[i].obsGen = inst[i].gen

\* When a slot was released by a completed stop no host runs its workload, and
\* none will again: delayed calls are refused by the tombstone
\* (finish_termination, stop_instance).
StoppedSlotIsDrained ==
    \A i \in Instances :
        ReleasedByStop(i) =>
            /\ \A s \in Servers : ~host[s][i].present
            /\ inst[i].server # None => i \in tomb[inst[i].server]

\* An open terminate command of an active instance always carries the current
\* generation and the instance is marked for stopping: nothing can move the
\* generation past a queued stop and so turn it stale.
OpenTerminateIsCurrent ==
    \A k \in DOMAIN cmds :
        LET row == inst[cmds[k].inst] IN
        IsOpen(k) /\ cmds[k].kind = "terminate" /\ row.active
        => cmds[k].gen = row.gen /\ row.desired = "stopped"

\* A stop is never forgotten: as long as an instance marked for stopping holds
\* its slot there is a terminate command for its generation that is open or
\* that failed and will be repeated by the safety retry.
StopNeverForgotten ==
    \A i \in Instances :
        inst[i].active /\ inst[i].desired = "stopped" =>
            \E k \in DOMAIN cmds :
                /\ cmds[k].inst = i /\ cmds[k].kind = "terminate"
                /\ cmds[k].gen = inst[i].gen
                /\ cmds[k].status \in {"pending", "claimed", "failed"}

\* The host's deadline lies between what the database promises the user and
\* the maximum lifetime, and the host never runs ahead of the row's generation:
\* a late or repeated call cannot shorten, or overextend, a lifetime.
HostHonoursDeadline ==
    \A s \in Servers, i \in Instances :
        host[s][i].present =>
            /\ inst[i].exp <= host[s][i].deadline
            /\ host[s][i].deadline <= inst[i].desiredExp
            /\ inst[i].desiredExp <= inst[i].maxExp
            /\ host[s][i].gen <= inst[i].gen

\* This step commits controller c's placement on s.
PlacesOn(c, s) ==
    /\ s \in DOMAIN counted[c] /\ counted'[c] = NoCount
    /\ ctl'[c].pc = "await" /\ ctl'[c].server = s

\* A server takes another instance only from a placement that counted it, and that
\* takes it past the capacity set last by no more than the placements committed
\* since the count: releases, other controllers and edits of the server's row may
\* all come between (select_remote_server_locked, update_remote_server).
CapacityRespected ==
    [][\A s \in Servers : Load(s) < Load(s)' =>
          \E c \in Controllers :
             /\ PlacesOn(c, s)
             /\ Load(s)' <= serverRow[s].capacity + Cardinality(PlacedOn(s) \ counted[c][s])]_vars

\* What the capacity is for.  It does not hold: two controllers may both count
\* before either commits, and the capacity can be set below the slots in use.
WithinCapacity == \A s \in Servers : Load(s) <= serverRow[s].capacity

\* While an instance has a workload on some host it occupies its user's slot
\* (remote-helper/README.md: a delayed call cannot recreate a workload after
\* its database slot was released).
NoWorkloadWithoutSlot ==
    \A s \in Servers, i \in Instances : host[s][i].present => inst[i].active

\* A row released by a completed stop is never written again: a start, an
\* extension or an inspection that answers late finds the generation moved on
\* (docs/INSTANCE_CONTROLLER_ARCHITECTURE.md: generation checks prevent a late
\* start result from reviving an instance that was terminated meanwhile).
StoppedRowIsFinal ==
    [][\A i \in Instances : ReleasedByStop(i) => inst'[i] = inst[i]]_vars

\* Whatever released it, a released row shows a final state: a late start
\* result does not turn it ready again.
LateStartDoesNotRevive ==
    \A i \in Instances :
        Exists(i) /\ ~inst[i].active =>
            inst[i].observed \in {"terminated", "expired", "failed"}

\* A session claims work only while it holds the singleton lease
\* (process_available_commands checks the lease before every claim).
ClaimsUnderLease ==
    [][\A c \in Controllers :
          ctl[c].pc = "checked" /\ ctl'[c].pc = "loaded" => leader = c]_vars

\* Once an instance is marked for stopping or past its deadline its slot is
\* released in the end, across crashes and lost replies and although nobody asks.
SlotIsReleased ==
    \A i \in Instances :
        (inst[i].active /\ (inst[i].desired = "stopped" \/ inst[i].exp <= now))
            ~> ~inst[i].active

\* An instance whose policy was switched off loses its slot in the end, even
\* when the switch falls between a start's gate check and its placement.
PolicyDrains ==
    \A i \in Instances :
        (inst[i].active /\ ~Managed(inst[i].challenge))
            ~> (~inst[i].active \/ Managed(inst[i].challenge))

=============================================================================
