------------------------ MODULE RuntimeControlProofs ------------------------
(***************************************************************************)
(* RuntimeControl is type correct; a stop that was asked for is neither    *)
(* outrun nor forgotten; and a stop that completed leaves nothing.         *)
(*                                                                         *)
(* Types.  The types alone are not inductive: a controller indexes the     *)
(* command table with the command it holds, and sends inspections and      *)
(* extensions to the server its loaded row names, so both have to be known *)
(* to exist (Base), one lemma per group of actions.                        *)
(*                                                                         *)
(* Stops.  A step touches the two tables only in the ways DbStep lists,    *)
(* and what a controller has in hand only in the ways HandStep lists; one  *)
(* lemma per group of actions establishes these two formulas, and one      *)
(* lemma (StepsPreserve) derives the whole invariant from them.            *)
(*                                                                         *)
(* Slots.  Where instances run and until when: what the claim              *)
(* token and the generation protect together.  A step of the control plane *)
(* either writes the tables, the controllers and the wire (TableStep) or   *)
(* serves a call or a timer on a host (HostStep); both formulas list all   *)
(* that such a step may do to a row, a command, what a controller has in   *)
(* hand, a call, a workload.  One lemma for each part of the invariant     *)
(* follows from the two formulas, and one lemma for each group of actions  *)
(* proves the formulas.                                                    *)
(*                                                                         *)
(* Capacity.  Several controllers may count a server's slots before one of *)
(* them places: what a placement does to the load is bounded by its own    *)
(* count, and the load by the capacity and the placements under way.       *)
(***************************************************************************)
EXTENDS RuntimeHosts, TLAPS, SequenceTheorems, FiniteSetTheorems

\* phases in which a controller has a command in hand
Executing == {"loaded", "gated", "await", "reply", "retry"}
\* kinds that are only queued for instances with a server
PlacedKinds == {"extend", "inspect", "reconcile"}

\* The command in hand exists; a controller that waits for a reply knows the
\* server; the row it loaded for an extension or an inspection names one.
HandsOK ==
    \A c \in Controllers :
        /\ ctl[c].pc \in Executing => ctl[c].cmd \in DOMAIN cmds
        /\ ctl[c].pc \in {"await", "reply"} => ctl[c].server \in Servers
        /\ ctl[c].pc \in Executing /\ Cmd(c).kind \in PlacedKinds
              => ctl[c].snap.server \in Servers

\* A ready instance, and one with an extension or an inspection, is placed.
PlacedOK ==
    /\ \A i \in Instances : inst[i].observed = "ready" => inst[i].server \in Servers
    /\ \A k \in DOMAIN cmds :
          cmds[k].kind \in PlacedKinds => inst[cmds[k].inst].server \in Servers

Base == TypeOK /\ HandsOK /\ PlacedOK

\* The initial row, reply, workload and session (InstanceRow, RemoteResult and
\* the state of a controller that has no session) have their types.
LEMMA NoneTyped == NoRow \in Row /\ NoReply \in Reply /\ NoWorkload \in Workload /\ NoWork \in Session
  BY DEF NoRow, Row, Observed, NoReply, Reply, NoWorkload, Workload, NoWork, Session, Phases

\* An inserted runtime_commands row is a command.
LEMMA NewCommandTyped ==
  ASSUME NEW i \in Instances, NEW kind \in Kinds, NEW g \in Nat
  PROVE NewCommand(i, kind, g) \in Command
  BY DEF NewCommand, Command

\* The terminate row create_termination_command inserts is a command.
LEMMA NewStopTyped ==
  ASSUME NEW i \in Instances, NEW g \in Nat, NEW b \in BOOLEAN
  PROVE [NewCommand(i, "terminate", g) EXCEPT !.overdue = b] \in Command
  BY DEF NewCommand, Command, Kinds

\* Closing, releasing, claiming or ageing a runtime_commands row keeps its type.
LEMMA StatusTyped ==
  ASSUME NEW cmd \in Command,
         NEW st \in {"pending", "claimed", "completed", "failed", "cancelled"},
         NEW b \in BOOLEAN
  PROVE  /\ [cmd EXCEPT !.status = st, !.token = 0, !.recent = b] \in Command
         /\ [cmd EXCEPT !.status = st, !.token = 0, !.backoff = b] \in Command
         /\ [cmd EXCEPT !.status = st, !.token = cmd.attempts + 1,
                        !.attempts = cmd.attempts + 1] \in Command
         /\ [cmd EXCEPT !.backoff = b] \in Command
         /\ [cmd EXCEPT !.recent = b] \in Command
<1>1. cmd.attempts + 1 \in Nat BY DEF Command
<1>2. [cmd EXCEPT !.status = st, !.token = 0, !.recent = b] \in Command
  BY DEF Command
<1>3. [cmd EXCEPT !.status = st, !.token = 0, !.backoff = b] \in Command
  BY DEF Command
<1>4. ASSUME NEW n \in Nat PROVE [cmd EXCEPT !.status = st, !.token = n, !.attempts = n] \in Command
  BY DEF Command
<1>5. [cmd EXCEPT !.backoff = b] \in Command /\ [cmd EXCEPT !.recent = b] \in Command
  BY DEF Command
<1> QED BY <1>1, <1>2, <1>3, <1>4, <1>5

\* Updating one row of the command table leaves a sequence of commands.
LEMMA ExceptTyped ==
  ASSUME NEW S, NEW s \in Seq(S), NEW k \in DOMAIN s, NEW v \in S
  PROVE [s EXCEPT ![k] = v] \in Seq(S)
  BY ExceptSeq

\* Updating every row in place leaves a sequence of commands
\* (recover_stale_claims, recover_all_claims_on_startup).
LEMMA MapTyped ==
  ASSUME NEW S, NEW s \in Seq(S), NEW f, f = [k \in DOMAIN s |-> f[k]], \A k \in DOMAIN s : f[k] \in S
  PROVE f \in Seq(S)
  OBVIOUS

\* Writing desired_state and generation keeps the type of an instance row.
LEMMA RowStep == ASSUME NEW row \in Row, NEW n \in Nat, NEW d \in {"running", "stopped"}
  PROVE [row EXCEPT !.desired = d, !.gen = n] \in Row
  BY DEF Row

\* The update of request_termination keeps the type of an instance row.
LEMMA StoppedTyped ==
  ASSUME NEW row \in Row
  PROVE Stopped(row) \in Row
<1>1. row.gen + 1 \in Nat BY DEF Row
<1> QED BY <1>1, RowStep DEF Stopped

\* The update of extend_instance keeps the type of an instance row.
LEMMA ExtendedTyped ==
  ASSUME NEW row \in Row, NEW n \in Nat
  PROVE Extended(row, n) \in Row
<1>1. row.gen + 1 \in Nat /\ row.extensions + 1 \in Nat BY DEF Row
<1>2. ASSUME NEW g \in Nat, NEW e \in Nat PROVE [row EXCEPT !.desiredExp = n, !.gen = g, !.extensions = e] \in Row
  BY DEF Row
<1> QED BY <1>1, <1>2 DEF Extended

\* A session that only moves to another phase stays a session.
LEMMA PhaseTyped ==
  ASSUME NEW s \in Session, NEW p \in Phases
  PROVE /\ [s EXCEPT !.pc = p] \in Session /\ [NoWork EXCEPT !.pc = p] \in Session
  BY NoneTyped DEF Session

\* The row ensure_instance inserts is an instance row.
LEMMA NewRowTyped ==
  ASSUME NEW u \in Owners, NEW ch \in Challenges, NEW a \in Nat, NEW b \in Nat, NEW c1 \in Nat, NEW d \in Nat
  PROVE [NoRow EXCEPT !.owner = u, !.challenge = ch, !.active = TRUE,
                            !.desired = "running", !.observed = "requested",
                            !.desiredExp = a, !.maxExp = b,
                            !.exp = a, !.gen = 1,
                            !.settingRev = c1,
                            !.runtimeRev = d] \in Row
  BY DEF NoRow, Row, Observed

\* Every API transaction of routes/runtimes.rs preserves the types.
LEMMA ApiTyped == 
  ASSUME Base, Api PROVE TypeOK'
<1> USE DEF Base
<1>1. ASSUME NEW u \in Owners, NEW ch \in Challenges, NEW ttl \in Ttls, EnsureInstance(u, ch, ttl) PROVE TypeOK'
  <2>1. PICK i \in Instances : 
          /\ inst' = [inst EXCEPT ![i] =
              [NoRow EXCEPT !.owner = u, !.challenge = ch, !.active = TRUE,
                            !.desired = "running", !.observed = "requested",
                            !.desiredExp = now + ttl, !.maxExp = now + MaximumTtl,
                            !.exp = now + ttl, !.gen = 1,
                            !.settingRev = setting.revision,
                            !.runtimeRev = runtime[ch].revision]]
          /\ cmds' = Append(cmds, NewCommand(i, "start", 1))
     BY <1>1 DEF EnsureInstance
  <2>2. ttl \in Nat /\ MaximumTtl \in Nat BY ConstantsAssumption
  <2>3. now \in Nat /\ setting.revision \in Nat /\ runtime[ch].revision \in Nat BY DEF TypeOK, Policy
  <2>4. now + ttl \in Nat /\ now + MaximumTtl \in Nat BY <2>2, <2>3
  <2>5. inst' \in [Instances -> Row] BY <2>1, <2>3, <2>4, NewRowTyped DEF TypeOK
  <2>6. cmds' \in Seq(Command) BY <2>1, NewCommandTyped DEF TypeOK, Kinds
  <2> QED BY <1>1, <2>5, <2>6 DEF EnsureInstance, TypeOK, policyVars, hostVars
<1>2. ASSUME NEW i \in Instances, NEW more \in Ttls, ExtendInstance(i, more) PROVE TypeOK'
  <2>1. inst[i] \in Row /\ inst[i].gen \in Nat /\ inst[i].desiredExp \in Nat /\ inst[i].maxExp \in Nat BY DEF TypeOK, Row
  <2>2. MinTime(inst[i].desiredExp + more, inst[i].maxExp) \in Nat BY <2>1, ConstantsAssumption DEF MinTime
  <2>3. inst' \in [Instances -> Row] BY <1>2, <2>1, <2>2, ExtendedTyped DEF ExtendInstance, TypeOK
  <2>4. cmds' \in Seq(Command) BY <1>2, <2>1, NewCommandTyped DEF ExtendInstance, TypeOK, Kinds
  <2> QED BY <1>2, <2>3, <2>4 DEF ExtendInstance, TypeOK, policyVars, hostVars
<1>3. ASSUME NEW i \in Instances, RequestTermination(i) PROVE TypeOK'
  <2>1. inst[i] \in Row /\ inst[i].gen + 1 \in Nat BY DEF TypeOK, Row
  <2>3. inst' \in [Instances -> Row] BY <1>3, <2>1, StoppedTyped DEF RequestTermination, TypeOK
  <2>4. cmds' \in Seq(Command) BY <1>3, <2>1, NewCommandTyped DEF RequestTermination, TypeOK, Kinds
  <2> QED BY <1>3, <2>3, <2>4 DEF RequestTermination, TypeOK, policyVars, hostVars
<1>4. ASSUME NEW i \in Instances, ReconcileInstance(i) PROVE TypeOK'
  <2>1. inst[i].gen \in Nat BY DEF TypeOK, Row
  <2>4. cmds' \in Seq(Command) BY <1>4, <2>1, NewCommandTyped DEF ReconcileInstance, TypeOK, Kinds
  <2> QED BY <1>4, <2>4 DEF ReconcileInstance, TypeOK, policyVars, hostVars
<1>5. ASSUME NEW b \in BOOLEAN, UpdatePrivateChallengesSetting(b) PROVE TypeOK'
  BY <1>5 DEF UpdatePrivateChallengesSetting, TypeOK, Policy, dbVars, hostVars
<1>6. ASSUME NEW b \in BOOLEAN, NEW ch \in Challenges, PutChallengeRuntime(ch, b) PROVE TypeOK'
  BY <1>6 DEF PutChallengeRuntime, TypeOK, Policy, dbVars, hostVars
<1>7. ASSUME NEW b \in BOOLEAN, NEW s \in Servers, NEW n \in Capacities, UpdateRemoteServer(s, b, n)
      PROVE TypeOK'
  BY <1>7 DEF UpdateRemoteServer, TypeOK, ServerRow, dbVars, hostVars
<1> QED BY <1>1, <1>2, <1>3, <1>4, <1>5, <1>6, <1>7 DEF Api


\* The fields of a runtime_commands row have the types its readers rely on.
LEMMA CommandTyped ==
  ASSUME TypeOK, NEW k \in DOMAIN cmds
  PROVE cmds[k] \in Command /\ cmds[k].inst \in Instances /\ cmds[k].kind \in Kinds /\ cmds[k].gen \in Nat
<1>1. cmds[k] \in Command BY DEF TypeOK
<1> QED BY <1>1 DEF Command

\* cancel_command, complete_command and their transactional forms keep the
\* command table a sequence of commands.
LEMMA CloseTyped ==
  ASSUME TypeOK, NEW c \in Controllers, ctl[c].cmd \in DOMAIN cmds,
         NEW st \in {"completed", "failed", "cancelled"}
  PROVE Close(c, st) \in Seq(Command)
<1>1. cmds \in Seq(Command) BY DEF TypeOK
<1>2. cmds[ctl[c].cmd] \in Command BY <1>1
<1>3. [cmds[ctl[c].cmd] EXCEPT !.status = st, !.token = 0, !.recent = (st = "failed")] \in Command
  BY <1>2, StatusTyped
<1> QED BY <1>1, <1>3, ExceptTyped DEF Close, Closed

\* Replacing the session of one controller keeps all of them sessions.
LEMMA CtlTyped ==
  ASSUME TypeOK, NEW c \in Controllers, NEW s \in Session,
         ctl' = [ctl EXCEPT ![c] = s]
  PROVE ctl' \in [Controllers -> Session]
  BY DEF TypeOK

\* A step of connected_session that only moves on preserves the types.
LEMMA MoveTyped ==
  ASSUME TypeOK, NEW c \in Controllers, NEW p \in Phases, MoveTo(c, p), cmds' \in Seq(Command)
  PROVE TypeOK'
<1>1. ctl' \in [Controllers -> Session] BY PhaseTyped, NoneTyped, CtlTyped DEF MoveTo
<1> QED BY <1>1 DEF MoveTo, TypeOK, policyVars, hostVars

\* A controller between two commands has a well-formed session.
LEMMA IdleTyped == Idle \in Session
  BY PhaseTyped, NoneTyped DEF Idle, Phases

\* Closing the command in hand and returning to the loop preserves the types.
LEMMA DropTyped ==
  ASSUME TypeOK, NEW c \in Controllers, ctl[c].cmd \in DOMAIN cmds,
         NEW st \in {"completed", "cancelled"}, Drop(c, st)
  PROVE TypeOK'
<1>1. ctl' \in [Controllers -> Session] BY IdleTyped, CtlTyped DEF Drop, Leave, BackToLoop
<1>2. cmds' \in Seq(Command) BY CloseTyped DEF Drop, Leave
<1> QED BY <1>1, <1>2 DEF Drop, Leave, TypeOK, policyVars, hostVars

\* Outside a placement nothing is counted.
LEMMA NoCountTyped == NoCount \in Counts
<1>1. NoCount \in [{} -> SUBSET Instances] BY DEF NoCount
<1> QED BY <1>1 DEF Counts

\* Ending a placement leaves well-formed counts.
LEMMA EndTyped ==
  ASSUME TypeOK, NEW c \in Controllers, EndPlacement(c)
  PROVE counted' \in [Controllers -> Counts]
  BY NoCountTyped DEF EndPlacement, TypeOK

\* The slots a placement has counted are sets of instances on candidate servers.
LEMMA CountTyped ==
  ASSUME TypeOK, NEW c \in Controllers, CountServers(c)
  PROVE counted' \in [Controllers -> Counts]
<1>1. [s \in WithRoom |-> PlacedOn(s)] \in [WithRoom -> SUBSET Instances] BY DEF PlacedOn
<1>2. WithRoom \in SUBSET Servers BY DEF WithRoom
<1>3. [s \in WithRoom |-> PlacedOn(s)] \in Counts BY <1>1, <1>2 DEF Counts
<1> QED BY <1>3 DEF CountServers, TypeOK

\* Moving one controller to another phase keeps all of them sessions.
LEMMA PhaseStepTyped ==
  ASSUME TypeOK, NEW c \in Controllers, NEW p \in Phases, ctl' = [ctl EXCEPT ![c].pc = p]
  PROVE ctl' \in [Controllers -> Session]
  BY PhaseTyped DEF TypeOK

\* Journalling and sending a remote call yields well-formed requests: the call
\* carries the generation of the command and the deadline of the loaded row.
LEMMA SendTyped ==
  ASSUME TypeOK, NEW c \in Controllers, ctl[c].cmd \in DOMAIN cmds,
         NEW op \in Operations, NEW s \in Servers, Send(c, op, s)
  PROVE ctl' \in [Controllers -> Session] /\ wire' \subseteq Request
<1>1. ctl[c] \in Session BY DEF TypeOK
<1>2. [ctl[c] EXCEPT !.pc = "await", !.op = op, !.server = s, !.reply = NoReply] \in Session
  BY <1>1, NoneTyped DEF Session, Phases
<1>3. ctl' \in [Controllers -> Session] BY <1>2, CtlTyped DEF Send
<1>4. /\ ctl[c].snap.desiredExp \in Nat /\ ctl[c].cmd \in Nat /\ ctl[c].token \in Nat
  BY <1>1 DEF Session, Row
<1>5. [op |-> op, inst |-> Target(c), server |-> s, gen |-> Cmd(c).gen,
       exp |-> ctl[c].snap.desiredExp, cmd |-> ctl[c].cmd, token |-> ctl[c].token] \in Request
  BY <1>4, CommandTyped DEF Request, Target, Cmd
<1> QED BY <1>3, <1>5 DEF Send, TypeOK

\* create_termination_command_in_transaction preserves the types of both tables.
LEMMA CreateTyped ==
  ASSUME NEW rows \in [Instances -> Row], NEW cs \in Seq(Command), NEW i \in Instances,
         NEW b \in BOOLEAN, CreateTermination(rows, cs, i, b)
  PROVE inst' \in [Instances -> Row] /\ cmds' \in Seq(Command)
<1>1. rows[i] \in Row /\ rows[i].gen + 1 \in Nat BY DEF Row
<1>2. [rows EXCEPT ![i] = Stopped(rows[i])] \in [Instances -> Row] BY <1>1, StoppedTyped
<1>3. [NewCommand(i, "terminate", rows[i].gen + 1) EXCEPT !.overdue = b] \in Command
  BY <1>1, NewStopTyped
<1> QED BY <1>2, <1>3 DEF CreateTermination

\* A recovered claim is a command again.
LEMMA ReleasedTyped ==
  ASSUME TypeOK, NEW k \in DOMAIN cmds
  PROVE Released(k) \in Command
  BY CommandTyped DEF Released, Command

\* Every step of the controller loop up to and including claim_command
\* preserves the types.
LEMMA PassTyped ==
  ASSUME Base, NEW c \in Controllers, Pass(c) PROVE TypeOK'
<1> USE DEF Base
<1>0. cmds \in Seq(Command) BY DEF TypeOK
<1>1. CASE AcquireLease(c)
  <2>1. ctl' \in [Controllers -> Session] BY <1>1, PhaseStepTyped DEF AcquireLease, Phases
  <2> QED BY <1>1, <2>1 DEF AcquireLease, TypeOK, policyVars, dbVars, hostVars
<1>2. CASE RecoverAllClaims(c)
  <2>1. cmds' \in Seq(Command)
    BY <1>0, <1>2, ReleasedTyped, MapTyped DEF RecoverAllClaims
  <2> QED BY <1>2, <2>1, MoveTyped DEF RecoverAllClaims, Phases
<1>3. CASE CheckLease(c) \/ LeaseWasLost(c) \/ EnqueuesDone(c) \/ NothingToClaim(c)
  BY <1>0, <1>3, MoveTyped DEF CheckLease, LeaseWasLost, EnqueuesDone, NothingToClaim, Phases
<1>4. CASE RecoverStaleClaims(c)
  <2>1. PICK stale : cmds' = [k \in DOMAIN cmds |-> IF k \in stale THEN Released(k) ELSE cmds[k]]
    BY <1>4 DEF RecoverStaleClaims
  <2>2. cmds' \in Seq(Command) BY <1>0, <2>1, ReleasedTyped, MapTyped
  <2> QED BY <1>4, <2>2, MoveTyped DEF RecoverStaleClaims, Phases
<1>5. CASE ScanPolicy(c) \/ ScanOverdue(c)
  <2>1. PICK p \in Phases, T \in SUBSET Instances :
           ctl' = [ctl EXCEPT ![c] = [ctl[c] EXCEPT !.pc = p, !.todo = T]]
    <3>1. "policy" \in Phases /\ "overdue" \in Phases BY DEF Phases
    <3>2. CASE ScanPolicy(c) BY <3>1, <3>2 DEF ScanPolicy
    <3>3. CASE ScanOverdue(c) BY <3>1, <3>3 DEF ScanOverdue
    <3> QED BY <1>5, <3>2, <3>3
  <2>2. ctl[c] \in Session BY DEF TypeOK
  <2>3. PICK n : n = [ctl[c] EXCEPT !.pc = p, !.todo = T] OBVIOUS
  <2>4. n \in Session BY <2>2, <2>3 DEF Session
  <2>5. ctl' \in [Controllers -> Session] BY <2>1, <2>3, <2>4, CtlTyped
  <2> QED BY <1>5, <2>5 DEF ScanPolicy, ScanOverdue, TypeOK, policyVars, dbVars, hostVars
<1>6. CASE QueueStop(c)
  <2>1. PICK i \in ctl[c].todo :
           /\ CreateTermination(inst, cmds, i, ctl[c].pc = "overdue")
           /\ ctl' = [ctl EXCEPT ![c] = [ctl[c] EXCEPT !.todo = ctl[c].todo \ {i}]]
    BY <1>6 DEF QueueStop
  <2>2. i \in Instances /\ [ctl[c] EXCEPT !.todo = ctl[c].todo \ {i}] \in Session
    <3>1. ctl[c] \in Session BY DEF TypeOK
    <3>2. ctl[c].todo \subseteq Instances BY <3>1 DEF Session
    <3>3. PICK n : n = [ctl[c] EXCEPT !.todo = ctl[c].todo \ {i}] OBVIOUS
    <3>4. n \in Session BY <3>1, <3>2, <3>3 DEF Session
    <3> QED BY <3>2, <3>3, <3>4
  <2>3. ctl' \in [Controllers -> Session] BY <2>1, <2>2, CtlTyped
  <2>4. inst' \in [Instances -> Row] /\ cmds' \in Seq(Command)
    BY <1>0, <2>1, <2>2, CreateTyped DEF TypeOK
  <2> QED BY <1>6, <2>3, <2>4 DEF QueueStop, TypeOK, policyVars, hostVars
<1>7. ASSUME NEW i \in Instances, EnqueueInspection(c, i) PROVE TypeOK'
  <2>1. inst[i].gen \in Nat BY DEF TypeOK, Row
  <2>2. cmds' \in Seq(Command) BY <1>0, <1>7, <2>1, NewCommandTyped DEF EnqueueInspection, Kinds
  <2> QED BY <1>7, <2>2 DEF EnqueueInspection, TypeOK, policyVars, hostVars
<1>8. CASE ClaimCommand(c)
  <2>1. PICK k \in DOMAIN cmds :
          /\ cmds' = [cmds EXCEPT ![k] =
                [cmds[k] EXCEPT !.status = "claimed", !.token = cmds[k].attempts + 1,
                                !.attempts = cmds[k].attempts + 1]]
          /\ ctl' = [ctl EXCEPT ![c] =
                [NoWork EXCEPT !.pc = "loaded", !.cmd = k,
                               !.token = cmds[k].attempts + 1,
                               !.snap = inst[cmds[k].inst]]]
    BY <1>8 DEF ClaimCommand
  <2>2. cmds' \in Seq(Command) BY <1>0, <2>1, CommandTyped, StatusTyped, ExceptTyped
  <2>3. k \in Nat /\ cmds[k].attempts + 1 \in Nat /\ inst[cmds[k].inst] \in Row
    BY <1>0, CommandTyped DEF TypeOK, Command
  <2>4. [NoWork EXCEPT !.pc = "loaded", !.cmd = k, !.token = cmds[k].attempts + 1,
                       !.snap = inst[cmds[k].inst]] \in Session
    BY <2>3, NoneTyped DEF Session, Phases
  <2>5. ctl' \in [Controllers -> Session] BY <2>1, <2>4, CtlTyped
  <2> QED BY <1>8, <2>2, <2>5 DEF ClaimCommand, TypeOK, policyVars, hostVars
<1> QED BY <1>1, <1>2, <1>3, <1>4, <1>5, <1>6, <1>7, <1>8 DEF Pass


\* Writing observed_state (and releasing the slot) keeps the type of a row.
LEMMA ObservedTyped ==
  ASSUME NEW row \in Row, NEW o \in Observed
  PROVE  [row EXCEPT !.observed = o] \in Row /\ [row EXCEPT !.active = FALSE, !.observed = o] \in Row
  BY DEF Row

\* Writing observed_state with observed_generation, as finish_termination,
\* finish_inspection and expire_unstarted_instance do, keeps the type of a row.
LEMMA ObservedAtTyped ==
  ASSUME NEW row \in Row, NEW o \in Observed, NEW g \in Nat
  PROVE  /\ [row EXCEPT !.observed = o, !.obsGen = g] \in Row
         /\ [row EXCEPT !.active = FALSE, !.desired = "stopped", !.observed = o, !.obsGen = g] \in Row
<1>1. [row EXCEPT !.observed = o, !.obsGen = g] \in Row BY DEF Row
<1>2. [row EXCEPT !.active = FALSE, !.desired = "stopped", !.observed = o, !.obsGen = g] \in Row BY DEF Row
<1> QED BY <1>1, <1>2

\* The update of mark_starting keeps the type of an instance row.
LEMMA PlacedTyped ==
  ASSUME NEW row \in Row, NEW o \in Observed, NEW s \in Servers
  PROVE  [row EXCEPT !.observed = o, !.server = s] \in Row
  BY DEF Row

\* The update of finish_start keeps the type of an instance row.
LEMMA StartedTyped ==
  ASSUME NEW row \in Row, NEW o \in Observed, NEW s \in Servers, NEW g \in Nat, NEW e \in Nat
  PROVE  [row EXCEPT !.observed = o, !.obsGen = g, !.exp = e, !.server = s] \in Row
  BY DEF Row

\* The update of finish_extension keeps the type of an instance row.
LEMMA ProlongedTyped ==
  ASSUME NEW row \in Row, NEW g \in Nat, NEW e \in Nat
  PROVE  [row EXCEPT !.exp = e, !.obsGen = g] \in Row
  BY DEF Row

\* What a controller reads from its reply and from its loaded row is typed.
LEMMA ReplyTyped ==
  ASSUME TypeOK, NEW c \in Controllers
  PROVE ctl[c].reply.exp \in Nat /\ ctl[c].snap.server \in Servers \cup {None}
<1>1. ctl[c] \in Session BY DEF TypeOK
<1>2. ctl[c].reply \in Reply /\ ctl[c].snap \in Row BY <1>1 DEF Session
<1> QED BY <1>2 DEF Reply, Row

\* A transaction that writes rows, closes the command in hand and returns to the
\* loop preserves the types if its two updates do.
LEMMA CommitTyped ==
  ASSUME TypeOK, NEW c \in Controllers, BackToLoop(c),
         inst' \in [Instances -> Row], cmds' \in Seq(Command),
         UNCHANGED <<now, policyVars, counted, leader, wire, hostVars, faults>>
  PROVE TypeOK'
<1>1. ctl' \in [Controllers -> Session] BY IdleTyped, CtlTyped DEF BackToLoop
<1> QED BY <1>1 DEF TypeOK, policyVars, hostVars

\* A controller that moves on in its command and writes nothing preserves the types.
LEMMA OnwardTyped ==
  ASSUME TypeOK, NEW c \in Controllers, NEW p \in Phases, ctl' = [ctl EXCEPT ![c].pc = p],
         UNCHANGED <<now, policyVars, counted, dbVars, leader, wire, hostVars, faults>>
  PROVE TypeOK'
<1>1. ctl' \in [Controllers -> Session] BY PhaseStepTyped
<1> QED BY <1>1 DEF TypeOK, policyVars, dbVars, hostVars

\* While a controller executes, its command exists and so does the target row:
\* runtime_commands rows are never deleted.
LEMMA InHandTyped ==
  ASSUME Base, NEW c \in Controllers, ctl[c].pc \in Executing
  PROVE /\ ctl[c].cmd \in DOMAIN cmds
        /\ Cmd(c).gen \in Nat /\ Cmd(c).kind \in Kinds
        /\ Target(c) \in Instances /\ inst[Target(c)] \in Row
        /\ inst[Target(c)].obsGen \in Nat
<1>1. ctl[c].cmd \in DOMAIN cmds BY DEF Base, HandsOK
<1>2. Cmd(c).gen \in Nat /\ Cmd(c).kind \in Kinds /\ Target(c) \in Instances
  BY <1>1, CommandTyped DEF Base, Cmd, Target
<1>3. inst[Target(c)] \in Row BY <1>2 DEF Base, TypeOK
<1> QED BY <1>1, <1>2, <1>3 DEF Row

\* Every step of execute_start preserves the types.
LEMMA ExecuteStartTyped ==
  ASSUME Base, NEW c \in Controllers,
         \/ CancelStaleCommand(c) \/ StartUnwanted(c) \/ ExpireUnstarted(c) \/ RejectStart(c)
         \/ PassGate(c) \/ RestartAtHost(c) \/ CountServers(c) \/ StartWithdrawn(c)
         \/ NoCapacity(c) \/ PlaceAndStart(c)
         \/ RemoteRefused(c) \/ FinishStart(c) \/ LostClaimAfterStart(c)
         \/ UndoStart(c) \/ StartUndone(c)
  PROVE TypeOK'
<1>0. /\ TypeOK /\ ctl[c].pc \in Executing
  BY DEF Base, CancelStaleCommand, StartUnwanted, ExpireUnstarted, RejectStart, PassGate,
         RestartAtHost, CountServers, StartWithdrawn, NoCapacity, PlaceAndStart, RemoteRefused, FinishStart,
         LostClaimAfterStart, UndoStart, StartUndone, InHand, Starting, Replied, Executing
<1>h. /\ ctl[c].cmd \in DOMAIN cmds
      /\ Cmd(c).gen \in Nat /\ Cmd(c).kind \in Kinds
      /\ Target(c) \in Instances /\ inst[Target(c)] \in Row
      /\ inst[Target(c)].obsGen \in Nat
  BY <1>0, InHandTyped
<1>d. ASSUME NEW st \in {"completed", "cancelled"}, Drop(c, st) PROVE TypeOK'
  BY <1>0, <1>h, <1>d, DropTyped
<1>r. ASSUME NEW o \in Observed, NEW g \in Nat, ReleaseUnplaced(c, o, g) PROVE TypeOK'
  <2>1. inst' \in [Instances -> Row]
    BY <1>0, <1>h, <1>r, ObservedAtTyped DEF ReleaseUnplaced, TypeOK
  <2>2. cmds' \in Seq(Command) BY <1>0, <1>h, <1>r, CloseTyped DEF ReleaseUnplaced
  <2> QED BY <1>0, <1>r, <2>1, <2>2, CommitTyped DEF ReleaseUnplaced
<1>1. CASE CancelStaleCommand(c) \/ StartUnwanted(c) \/ StartUndone(c)
  BY <1>1, <1>d DEF CancelStaleCommand, StartUnwanted, StartUndone
<1>7. CASE StartWithdrawn(c)
  <2>1. ctl' \in [Controllers -> Session] BY <1>0, <1>7, IdleTyped, CtlTyped DEF StartWithdrawn, Leave, BackToLoop
  <2>2. cmds' \in Seq(Command) BY <1>0, <1>h, <1>7, CloseTyped DEF StartWithdrawn, Leave
  <2>3. counted' \in [Controllers -> Counts] BY <1>0, <1>7, EndTyped DEF StartWithdrawn
  <2> QED BY <1>0, <1>7, <2>1, <2>2, <2>3 DEF StartWithdrawn, Leave, TypeOK, policyVars, hostVars
<1>8. CASE NoCapacity(c)
  <2>1. ctl' \in [Controllers -> Session] BY <1>0, <1>8, PhaseStepTyped DEF NoCapacity, Phases
  <2>2. counted' \in [Controllers -> Counts] BY <1>0, <1>8, EndTyped DEF NoCapacity
  <2> QED BY <1>0, <1>8, <2>1, <2>2 DEF NoCapacity, TypeOK, policyVars, dbVars, hostVars
<1>9. CASE CountServers(c)
  BY <1>0, <1>9, CountTyped DEF CountServers, TypeOK, policyVars, dbVars, hostVars
<1>10. CASE RestartAtHost(c)
  <2>1. ctl[c].snap.server \in Servers
    BY <1>0, <1>10, ReplyTyped DEF RestartAtHost, SelectsHost
  <2>2. [inst[Target(c)] EXCEPT !.observed = "starting"] \in Row BY <1>h, ObservedTyped DEF Observed
  <2>3. inst' \in [Instances -> Row] BY <1>0, <1>h, <1>10, <2>2 DEF RestartAtHost, TypeOK
  <2>4. ctl' \in [Controllers -> Session] /\ wire' \subseteq Request
    BY <1>0, <1>h, <1>10, <2>1, SendTyped DEF RestartAtHost, Operations
  <2> QED BY <1>0, <1>10, <2>3, <2>4 DEF RestartAtHost, TypeOK, policyVars, hostVars
<1>2. CASE ExpireUnstarted(c) \/ RejectStart(c)
  BY <1>2, <1>r, <1>h DEF ExpireUnstarted, RejectStart, Observed
<1>3. CASE PassGate(c) \/ RemoteRefused(c) \/ LostClaimAfterStart(c)
  BY <1>0, <1>3, OnwardTyped DEF PassGate, RemoteRefused, LostClaimAfterStart, Phases
<1>4. CASE PlaceAndStart(c)
  <2>1. PICK s \in Servers :
          /\ inst' = [inst EXCEPT ![Target(c)] =
                [inst[Target(c)] EXCEPT !.observed = "starting", !.server = s]]
          /\ Send(c, "ensure-instance", s)
    BY <1>4 DEF PlaceAndStart, LeastLoaded
  <2>2. s \in Servers OBVIOUS
  <2>3. inst' \in [Instances -> Row]
    BY <1>0, <1>h, <2>1, <2>2, PlacedTyped DEF TypeOK, Observed
  <2>4. ctl' \in [Controllers -> Session] /\ wire' \subseteq Request
    BY <1>0, <1>h, <2>1, <2>2, SendTyped DEF Operations
  <2>5. counted' \in [Controllers -> Counts] BY <1>0, <1>4, EndTyped DEF PlaceAndStart
  <2> QED BY <1>0, <1>4, <2>3, <2>4, <2>5 DEF PlaceAndStart, TypeOK, policyVars, hostVars
<1>5. CASE FinishStart(c)
  <2>1. ctl[c].server \in Servers BY <1>5 DEF FinishStart, Replied, Base, HandsOK
  <2>2. inst' \in [Instances -> Row]
    BY <1>0, <1>h, <1>5, <2>1, StartedTyped, ReplyTyped DEF FinishStart, TypeOK, Observed
  <2>3. cmds' \in Seq(Command) BY <1>0, <1>h, <1>5, CloseTyped DEF FinishStart
  <2> QED BY <1>0, <1>5, <2>2, <2>3, CommitTyped DEF FinishStart
<1>6. CASE UndoStart(c)
  <2>1. ctl[c].server \in Servers BY <1>6 DEF UndoStart, Replied, Base, HandsOK
  <2>2. ctl' \in [Controllers -> Session] /\ wire' \subseteq Request
    BY <1>0, <1>h, <1>6, <2>1, SendTyped DEF UndoStart, Operations
  <2> QED BY <1>0, <1>6, <2>2 DEF UndoStart, TypeOK, policyVars, dbVars, hostVars
<1> QED BY <1>1, <1>2, <1>3, <1>4, <1>5, <1>6, <1>7, <1>8, <1>9, <1>10

\* Every step of execute_terminate, execute_extend, execute_inspect and
\* schedule_retry preserves the types.
LEMMA ExecuteOtherTyped ==
  ASSUME Base, NEW c \in Controllers,
         \/ AlreadyReleased(c) \/ StopWithdrawn(c) \/ MarkStopping(c) \/ FinishTermination(c)
         \/ ExtendUnwanted(c) \/ SendExtend(c) \/ FinishExtension(c)
         \/ SendInspect(c) \/ InspectionWithdrawn(c)
         \/ InspectedAbsent(c) \/ InspectedReady(c) \/ InspectedNotReady(c)
         \/ RetryLater(c) \/ GiveUp(c)
  PROVE TypeOK'
<1>0. /\ TypeOK /\ ctl[c].pc \in Executing
  BY DEF Base, AlreadyReleased, StopWithdrawn, MarkStopping, FinishTermination,
         ExtendUnwanted, SendExtend, FinishExtension, SendInspect, InspectionWithdrawn,
         InspectedAbsent, InspectedReady, InspectedNotReady, RetryLater, GiveUp,
         InHand, Replied, Inspected, Executing
<1>h. /\ ctl[c].cmd \in DOMAIN cmds
      /\ Cmd(c).gen \in Nat /\ Cmd(c).kind \in Kinds
      /\ Target(c) \in Instances /\ inst[Target(c)] \in Row
      /\ inst[Target(c)].obsGen \in Nat
  BY <1>0, InHandTyped
<1>c. ASSUME NEW st \in {"completed", "failed", "cancelled"} PROVE Close(c, st) \in Seq(Command)
  BY <1>0, <1>h, CloseTyped
<1>1. CASE AlreadyReleased(c) \/ StopWithdrawn(c) \/ ExtendUnwanted(c) \/ InspectionWithdrawn(c)
  BY <1>0, <1>h, <1>1, DropTyped DEF AlreadyReleased, StopWithdrawn, ExtendUnwanted, InspectionWithdrawn
<1>2. CASE MarkStopping(c)
  <2>1. inst' \in [Instances -> Row]
    <3>1. [inst[Target(c)] EXCEPT !.observed = "stopping"] \in Row BY <1>h DEF Row, Observed
    <3> QED BY <1>0, <1>2, <3>1 DEF MarkStopping, TypeOK
  <2>2. ctl' \in [Controllers -> Session] /\ wire' \subseteq Request
    <3>1. CASE ctl[c].snap.server = None
      BY <1>0, <1>2, <3>1, PhaseStepTyped DEF MarkStopping, StopIfPlaced, Phases, TypeOK
    <3>2. CASE ctl[c].snap.server # None
      <4>1. ctl[c].snap.server \in Servers BY <1>0, <3>2, ReplyTyped
      <4> QED BY <1>0, <1>h, <1>2, <3>2, <4>1, SendTyped DEF MarkStopping, StopIfPlaced, Operations
    <3> QED BY <3>1, <3>2
  <2> QED BY <1>0, <1>2, <2>1, <2>2 DEF MarkStopping, TypeOK, policyVars, hostVars
<1>3. CASE FinishTermination(c)
  <2>1. inst' \in [Instances -> Row]
    BY <1>0, <1>h, <1>3, ObservedAtTyped DEF FinishTermination, TypeOK, Observed
  <2>2. cmds' \in Seq(Command) BY <1>3, <1>c DEF FinishTermination
  <2> QED BY <1>0, <1>3, <2>1, <2>2, CommitTyped DEF FinishTermination
<1>4. CASE SendExtend(c) \/ SendInspect(c)
  <2>1. ctl[c].snap.server \in Servers
    BY <1>4 DEF SendExtend, SendInspect, InHand, Base, HandsOK, Executing, PlacedKinds
  <2>2. ctl' \in [Controllers -> Session] /\ wire' \subseteq Request
    BY <1>0, <1>h, <1>4, <2>1, SendTyped DEF SendExtend, SendInspect, Operations
  <2> QED BY <1>0, <1>4, <2>2 DEF SendExtend, SendInspect, TypeOK, policyVars, dbVars, hostVars
<1>5. CASE FinishExtension(c)
  <2>1. inst' \in [Instances -> Row]
    BY <1>0, <1>h, <1>5, ProlongedTyped, ReplyTyped DEF FinishExtension, TypeOK
  <2>2. cmds' \in Seq(Command) BY <1>5, <1>c DEF FinishExtension
  <2> QED BY <1>0, <1>5, <2>1, <2>2, CommitTyped DEF FinishExtension
<1>6. CASE InspectedAbsent(c)
  <2>1. inst' \in [Instances -> Row]
    BY <1>0, <1>h, <1>6, ObservedTyped DEF InspectedAbsent, TypeOK, Observed
  <2>2. cmds' \in Seq(Command) BY <1>6, <1>c DEF InspectedAbsent
  <2> QED BY <1>0, <1>6, <2>1, <2>2, CommitTyped DEF InspectedAbsent
<1>7. CASE InspectedReady(c)
  <2>1. inst' \in [Instances -> Row]
    BY <1>0, <1>h, <1>7, ObservedAtTyped DEF InspectedReady, TypeOK, Observed
  <2>2. cmds' \in Seq(Command) BY <1>7, <1>c DEF InspectedReady
  <2> QED BY <1>0, <1>7, <2>1, <2>2, CommitTyped DEF InspectedReady
<1>8. CASE InspectedNotReady(c)
  <2>1. [inst EXCEPT ![Target(c)].observed = "cleanup_pending"] \in [Instances -> Row]
    <3>1. [inst[Target(c)] EXCEPT !.observed = "cleanup_pending"] \in Row
      BY <1>h DEF Row, Observed
    <3> QED BY <1>0, <3>1 DEF TypeOK
  <2>2. inst' \in [Instances -> Row] /\ cmds' \in Seq(Command)
    BY <1>h, <1>8, <1>c, <2>1, CreateTyped DEF InspectedNotReady
  <2> QED BY <1>0, <1>8, <2>2, CommitTyped DEF InspectedNotReady
<1>9. CASE RetryLater(c)
  <2>1. cmds' \in Seq(Command)
    <3>1. [cmds[ctl[c].cmd] EXCEPT !.status = "pending", !.token = 0, !.backoff = TRUE] \in Command
      BY <1>0, <1>h, StatusTyped, CommandTyped
    <3> QED BY <1>0, <1>h, <1>9, <3>1, ExceptTyped DEF RetryLater, TypeOK
  <2>2. inst' \in [Instances -> Row] BY <1>0, <1>9 DEF RetryLater, TypeOK
  <2> QED BY <1>0, <1>9, <2>1, <2>2, CommitTyped DEF RetryLater
<1>10. CASE GiveUp(c)
  <2> DEFINE touched == RowIsCurrent(c) /\ inst[Target(c)].active
             rows == IF touched
                     THEN [inst EXCEPT ![Target(c)].observed = FailedState(Cmd(c).kind)]
                     ELSE inst
  <2>1. rows \in [Instances -> Row]
    <3>1. [inst[Target(c)] EXCEPT !.observed = FailedState(Cmd(c).kind)] \in Row
      BY <1>h DEF Row, Observed, FailedState, Kinds
    <3> QED BY <1>0, <3>1 DEF TypeOK
  <2>2. IF touched /\ Cmd(c).kind = "start"
        THEN CreateTermination(rows, Close(c, "failed"), Target(c), FALSE)
        ELSE inst' = rows /\ cmds' = Close(c, "failed")
    BY <1>10 DEF GiveUp
  <2> HIDE DEF rows
  <2>3. inst' \in [Instances -> Row] /\ cmds' \in Seq(Command)
    BY <1>h, <1>c, <2>1, <2>2, CreateTyped
  <2> QED BY <1>0, <1>10, <2>3, CommitTyped DEF GiveUp
<1> QED BY <1>1, <1>2, <1>3, <1>4, <1>5, <1>6, <1>7, <1>8, <1>9, <1>10


\* Every operation of the host helper leaves a well-formed workload and answers
\* one of the outcomes the controller distinguishes.
LEMMA OutcomeTyped ==
  ASSUME NEW r \in Request, NEW w \in Workload, NEW t
  PROVE  /\ Outcome(r, w, t).w \in Workload
         /\ Outcome(r, w, t).outcome \in {"present", "absent", "stale", "error"}
<1>1. r.gen \in Nat /\ r.exp \in Nat BY DEF Request
<1>2. /\ [present |-> TRUE, gen |-> r.gen, deadline |-> r.exp, ready |-> TRUE] \in Workload
      /\ [w EXCEPT !.deadline = r.exp] \in Workload
      /\ [w EXCEPT !.gen = r.gen, !.deadline = r.exp] \in Workload
  BY <1>1 DEF Workload
<1>3. EnsureOutcome(r, w, t).w \in Workload
        /\ EnsureOutcome(r, w, t).outcome \in {"present", "absent", "stale", "error"}
  BY <1>2 DEF EnsureOutcome
<1>4. StopOutcome(r, w, t).w \in Workload
        /\ StopOutcome(r, w, t).outcome \in {"present", "absent", "stale", "error"}
  BY NoneTyped DEF StopOutcome
<1>5. UpdateOutcome(r, w, t).w \in Workload
        /\ UpdateOutcome(r, w, t).outcome \in {"present", "absent", "stale", "error"}
  BY <1>2 DEF UpdateOutcome
<1>6. InspectOutcome(w, t).w \in Workload
        /\ InspectOutcome(w, t).outcome \in {"present", "absent", "stale", "error"}
  BY DEF InspectOutcome
<1> QED BY <1>3, <1>4, <1>5, <1>6 DEF Outcome

\* Delivering a reply keeps sessions and requests well formed.
LEMMA DeliverTyped ==
  ASSUME TypeOK, NEW r \in wire, NEW o \in {"present", "absent", "stale", "error"},
         NEW w \in Workload, Deliver(r, Answer(o, w))
  PROVE  ctl' \in [Controllers -> Session] /\ wire' \subseteq Request
<1>1. Answer(o, w) \in Reply BY DEF Answer, Reply, Workload
<1>2. ASSUME NEW c \in Controllers
      PROVE  [ctl[c] EXCEPT !.pc = "reply", !.reply = Answer(o, w)] \in Session
  <2>1. ctl[c] \in Session BY DEF TypeOK
  <2> QED BY <1>1, <2>1 DEF Session, Phases
<1> QED BY <1>2 DEF Deliver, TypeOK

\* Time, faults and the hosts preserve the types.
LEMMA EnvironmentTyped ==
  ASSUME Base, Environment PROVE TypeOK'
<1> USE DEF Base
<1>1. CASE Tick BY <1>1 DEF Tick, TypeOK, policyVars, dbVars, hostVars
<1>2. CASE LoseLease BY <1>2 DEF LoseLease, Fault, TypeOK, policyVars, dbVars, hostVars
<1>3. ASSUME NEW k \in DOMAIN cmds, BackoffElapses(k) \/ FailureAges(k) PROVE TypeOK'
  <2>1. [cmds[k] EXCEPT !.backoff = FALSE] \in Command /\ [cmds[k] EXCEPT !.recent = FALSE] \in Command
    BY CommandTyped, StatusTyped
  <2>2. \E v \in Command : cmds' = [cmds EXCEPT ![k] = v]
    BY <1>3, <2>1 DEF BackoffElapses, FailureAges
  <2>3. cmds' \in Seq(Command) BY <2>2, ExceptTyped DEF TypeOK
  <2> QED BY <1>3, <2>3 DEF BackoffElapses, FailureAges, TypeOK, policyVars, hostVars
<1>4. ASSUME NEW c \in Controllers, RemoteTimeout(c) PROVE TypeOK'
  <2>1. ctl' \in [Controllers -> Session] BY <1>4, PhaseStepTyped DEF RemoteTimeout, Phases
  <2> QED BY <1>4, <2>1 DEF RemoteTimeout, Fault, TypeOK, policyVars, dbVars, hostVars
<1>5. ASSUME NEW c \in Controllers, Crash(c) PROVE TypeOK'
  <2>1. ctl' \in [Controllers -> Session] BY <1>5, NoneTyped, CtlTyped DEF Crash
  <2>2. counted' \in [Controllers -> Counts] BY <1>5, EndTyped DEF Crash
  <2> QED BY <1>5, <2>1, <2>2 DEF Crash, Fault, TypeOK, policyVars, dbVars, hostVars
<1>6. ASSUME NEW s \in Servers, NEW i \in Instances, ExpireWorkload(s, i) PROVE TypeOK'
  BY <1>6, NoneTyped DEF ExpireWorkload, TypeOK, policyVars, dbVars
<1>7. ASSUME NEW s \in Servers, NEW i \in Instances, ContainerExits(s, i) PROVE TypeOK'
  <2>0. host[s][i] \in Workload BY DEF TypeOK
  <2>1. [host[s][i] EXCEPT !.ready = FALSE] \in Workload BY <2>0 DEF Workload
  <2>2. host' \in [Servers -> [Instances -> Workload]] BY <1>7, <2>1 DEF ContainerExits, TypeOK
  <2> QED BY <1>7, <2>2 DEF ContainerExits, Fault, TypeOK, policyVars, dbVars
<1>8. ASSUME NEW r \in wire, ServeRequest(r) PROVE TypeOK'
  <2> DEFINE o == Outcome(r, host[r.server][r.inst], r.inst \in tomb[r.server])
  <2>1. r \in Request /\ r.server \in Servers /\ r.inst \in Instances BY DEF TypeOK, Request
  <2>0. host[r.server][r.inst] \in Workload BY <2>1 DEF TypeOK
  <2>2. o.w \in Workload /\ o.outcome \in {"present", "absent", "stale", "error"}
    BY <2>0, <2>1, OutcomeTyped
  <2>3. /\ host' = [host EXCEPT ![r.server][r.inst] = o.w]
        /\ tomb' = [tomb EXCEPT ![r.server] = IF o.t THEN @ \cup {r.inst} ELSE @]
        /\ Deliver(r, Answer(o.outcome, o.w))
    BY <1>8 DEF ServeRequest
  <2> HIDE DEF o
  <2>4. ctl' \in [Controllers -> Session] /\ wire' \subseteq Request BY <2>2, <2>3, DeliverTyped
  <2>5. host' \in [Servers -> [Instances -> Workload]] /\ tomb' \in [Servers -> SUBSET Instances]
    BY <2>1, <2>2, <2>3 DEF TypeOK
  <2> QED BY <1>8, <2>4, <2>5 DEF ServeRequest, TypeOK, policyVars, dbVars
<1>9. ASSUME NEW r \in wire, StartupFails(r) PROVE TypeOK'
  <2>1. ctl' \in [Controllers -> Session] /\ wire' \subseteq Request
    BY <1>9, NoneTyped, DeliverTyped DEF StartupFails
  <2> QED BY <1>9, <2>1 DEF StartupFails, Fault, TypeOK, policyVars, dbVars, hostVars
<1>10. ASSUME NEW r \in wire, HelperDies(r) PROVE TypeOK'
  <2>1. ctl' \in [Controllers -> Session] /\ wire' \subseteq Request
    BY <1>10, NoneTyped, DeliverTyped DEF HelperDies
  <2>2. r.server \in Servers /\ r.inst \in Instances BY DEF TypeOK, Request
  <2>3. tomb' \in [Servers -> SUBSET Instances] BY <1>10, <2>2 DEF HelperDies, TypeOK
  <2> QED BY <1>10, <2>1, <2>3 DEF HelperDies, Fault, TypeOK, policyVars, dbVars
<1> QED BY <1>1, <1>2, <1>3, <1>4, <1>5, <1>6, <1>7, <1>8, <1>9, <1>10 DEF Environment

\* Every step preserves the types, given that commands in hand exist and that
\* extended and inspected instances are placed.
LEMMA TypeStep ==
  ASSUME Base, [Next]_vars PROVE TypeOK'
<1>1. CASE UNCHANGED vars BY <1>1 DEF Base, TypeOK, vars
<1>2. ASSUME NEW c \in Controllers, Execute(c) PROVE TypeOK'
  BY <1>2, ExecuteStartTyped, ExecuteOtherTyped DEF Execute
<1> QED BY <1>1, <1>2, ApiTyped, PassTyped, EnvironmentTyped DEF Next, Controller

----------------------------------------------------------------------------
(* Stops.                                                                  *)

\* statuses of a terminate command that still promise a stop
Unfinished == {"pending", "claimed", "failed"}

\* No command without its instance, and no slot or server without a row.
CommandsHaveRows ==
    /\ \A k \in DOMAIN cmds : Exists(cmds[k].inst)
    /\ \A i \in Instances : inst[i].active \/ inst[i].server \in Servers => Exists(i)

\* A controller that holds a terminate command of an active instance loaded a row
\* that was active and of the generation of the command.
StopInHandOK ==
    \A c \in Controllers :
        ctl[c].pc \in Executing /\ Cmd(c).kind = "terminate" =>
            \/ ~inst[Target(c)].active
            \/ ctl[c].snap.active /\ ctl[c].snap.gen = Cmd(c).gen

\* the inductive invariant
IInv == Base /\ CommandsHaveRows /\ StopInHandOK /\ OpenTerminateIsCurrent /\ StopNeverForgotten

\* no terminate command of i is pending or claimed
NoOpenStop(i) == \A k \in DOMAIN cmds : cmds[k].inst = i /\ cmds[k].kind = "terminate" => ~IsOpen(k)

\* A step never rewrites what a command says, never reopens one, and finishes a
\* terminate command only when the slot is released.
CommandsKept ==
    \A k \in DOMAIN cmds :
        /\ k \in DOMAIN cmds'
        /\ cmds'[k].inst = cmds[k].inst /\ cmds'[k].kind = cmds[k].kind
        /\ cmds'[k].gen = cmds[k].gen
        /\ IsOpen(k)' => IsOpen(k)
        /\ cmds[k].kind = "terminate" /\ cmds[k].status \in Unfinished
              => cmds'[k].status \in Unfinished \/ ~inst'[cmds[k].inst].active

\* A released slot stays released, and a server once written stays written.
RowsKept ==
    \A i \in Instances :
        /\ inst'[i].observed = "ready" => inst'[i].server \in Servers
        /\ inst'[i].observed = "none" => inst'[i] = inst[i]
        /\ Exists(i) => /\ inst'[i].observed # "none"
                        /\ inst[i].server \in Servers => inst'[i].server \in Servers
                        /\ ~inst[i].active => ~inst'[i].active

\* a terminate command for the new generation of i is pending afterwards
StopQueued(i) ==
    \E k \in DOMAIN cmds' : /\ cmds'[k].inst = i /\ cmds'[k].kind = "terminate"
                            /\ cmds'[k].gen = inst'[i].gen /\ cmds'[k].status = "pending"

\* While an instance keeps its slot, its generation and desired state move only
\* when no stop is open, and a move to stopped queues one.
RowsMoved ==
    \A i \in Instances :
        \/ /\ inst'[i].gen = inst[i].gen /\ inst'[i].desired = inst[i].desired
           /\ inst'[i].active => inst[i].active
        \/ ~inst'[i].active
        \/ inst'[i].desired = "running" /\ NoOpenStop(i)
        \/ NoOpenStop(i) /\ StopQueued(i)

\* A new command refers to a row as the row is after the step.
CommandsAdded ==
    \A k \in DOMAIN cmds' \ DOMAIN cmds :
        LET row == inst'[cmds'[k].inst] IN
        /\ row.observed # "none"
        /\ cmds'[k].kind \in PlacedKinds => row.server \in Servers
        /\ cmds'[k].kind = "terminate" => cmds'[k].gen = row.gen /\ row.desired = "stopped"

\* the effect of any step on runtime_instances and runtime_commands
DbStep == CommandsKept /\ RowsKept /\ RowsMoved /\ CommandsAdded

\* The effect of any step on a controller: it drops its command, keeps it with the
\* row it loaded, or claims an open command and loads its row.
HandStep ==
    \A c \in Controllers :
        \/ ctl'[c].pc \notin Executing
        \/ /\ ctl[c].pc \in Executing
           /\ ctl'[c].cmd = ctl[c].cmd /\ ctl'[c].snap = ctl[c].snap
           /\ ctl'[c].pc \in {"await", "reply"} => ctl'[c].server \in Servers
        \/ /\ inst' = inst /\ ctl'[c].pc = "loaded"
           /\ \E k \in DOMAIN cmds : /\ ctl'[c].cmd = k /\ IsOpen(k)
                                     /\ ctl'[c].snap = inst[cmds[k].inst]

\* The inductive step in one place: a step with the effects DbStep and HandStep
\* preserves the invariant.  It covers every transaction of worker.rs and runtimes.rs.
LEMMA StepsPreserve ==
  ASSUME IInv, TypeOK', DbStep, HandStep PROVE IInv'
<1>1. OpenTerminateIsCurrent'
  <2> SUFFICES ASSUME NEW k \in DOMAIN cmds', IsOpen(k)', cmds'[k].kind = "terminate",
                      inst'[cmds'[k].inst].active
               PROVE  cmds'[k].gen = inst'[cmds'[k].inst].gen /\ inst'[cmds'[k].inst].desired = "stopped"
    BY DEF OpenTerminateIsCurrent
  <2>1. CASE k \notin DOMAIN cmds BY <2>1 DEF DbStep, CommandsAdded
  <2>2. CASE k \in DOMAIN cmds
    <3> DEFINE i == cmds[k].inst
    <3>1. /\ cmds'[k].inst = i /\ cmds[k].kind = "terminate"
          /\ cmds'[k].gen = cmds[k].gen /\ IsOpen(k)
      BY <2>2 DEF DbStep, CommandsKept
    <3>2. i \in Instances BY <2>2, CommandTyped DEF IInv, Base
    <3>3. /\ inst'[i].gen = inst[i].gen /\ inst'[i].desired = inst[i].desired /\ inst[i].active
      BY <2>2, <3>1, <3>2 DEF DbStep, RowsMoved, NoOpenStop
    <3> QED BY <2>2, <3>1, <3>3 DEF IInv, OpenTerminateIsCurrent
  <2> QED BY <2>1, <2>2
<1>2. StopNeverForgotten'
  <2> SUFFICES ASSUME NEW i \in Instances, inst'[i].active, inst'[i].desired = "stopped"
               PROVE  \E k \in DOMAIN cmds' : /\ cmds'[k].inst = i /\ cmds'[k].kind = "terminate"
                                              /\ cmds'[k].gen = inst'[i].gen
                                              /\ cmds'[k].status \in {"pending", "claimed", "failed"}
    BY DEF StopNeverForgotten
  <2>1. CASE StopQueued(i) BY <2>1 DEF StopQueued
  <2>2. CASE ~StopQueued(i)
    <3>1. inst'[i].gen = inst[i].gen /\ inst[i].desired = "stopped" /\ inst[i].active
      BY <2>2 DEF DbStep, RowsMoved
    <3>2. PICK k \in DOMAIN cmds : /\ cmds[k].inst = i /\ cmds[k].kind = "terminate"
                                   /\ cmds[k].gen = inst[i].gen
                                   /\ cmds[k].status \in Unfinished
      BY <3>1 DEF IInv, StopNeverForgotten, Unfinished
    <3> QED BY <3>1, <3>2 DEF DbStep, CommandsKept, Unfinished
  <2> QED BY <2>1, <2>2
<1>3. CommandsHaveRows'
  <2>1. ASSUME NEW k \in DOMAIN cmds' PROVE inst'[cmds'[k].inst].observed # "none"
    <3>1. CASE k \notin DOMAIN cmds BY <3>1 DEF DbStep, CommandsAdded
    <3>2. CASE k \in DOMAIN cmds
      <4>1. cmds[k].inst \in Instances BY <3>2, CommandTyped DEF IInv, Base
      <4> QED BY <3>2, <4>1 DEF DbStep, CommandsKept, RowsKept, IInv, CommandsHaveRows
    <3> QED BY <3>1, <3>2
  <2>2. ASSUME NEW i \in Instances, inst'[i].active \/ inst'[i].server \in Servers
        PROVE  inst'[i].observed # "none"
    BY <2>2 DEF DbStep, RowsKept, IInv, CommandsHaveRows, Exists
  <2> QED BY <2>1, <2>2 DEF CommandsHaveRows, Exists
<1>4. PlacedOK'
  <2>1. ASSUME NEW i \in Instances, inst'[i].observed = "ready" PROVE inst'[i].server \in Servers
    BY <2>1 DEF DbStep, RowsKept
  <2>2. ASSUME NEW k \in DOMAIN cmds', cmds'[k].kind \in PlacedKinds
        PROVE  inst'[cmds'[k].inst].server \in Servers
    <3>1. CASE k \notin DOMAIN cmds BY <2>2, <3>1 DEF DbStep, CommandsAdded
    <3>2. CASE k \in DOMAIN cmds
      <4>1. cmds[k].inst \in Instances BY <3>2, CommandTyped DEF IInv, Base
      <4>2. cmds'[k].inst = cmds[k].inst /\ cmds[k].kind \in PlacedKinds
        BY <2>2, <3>2 DEF DbStep, CommandsKept
      <4>3. Exists(cmds[k].inst) /\ inst[cmds[k].inst].server \in Servers
        BY <3>2, <4>2 DEF IInv, CommandsHaveRows, Base, PlacedOK
      <4> QED BY <4>1, <4>2, <4>3 DEF DbStep, RowsKept
    <3> QED BY <3>1, <3>2
  <2> QED BY <2>1, <2>2 DEF PlacedOK
<1>5. ASSUME NEW c \in Controllers, ctl'[c].pc \in Executing
      PROVE  /\ ctl'[c].cmd \in DOMAIN cmds /\ ctl'[c].cmd \in DOMAIN cmds'
             /\ cmds'[ctl'[c].cmd].inst = cmds[ctl'[c].cmd].inst
             /\ cmds'[ctl'[c].cmd].kind = cmds[ctl'[c].cmd].kind
             /\ cmds'[ctl'[c].cmd].gen = cmds[ctl'[c].cmd].gen
             /\ ctl'[c].pc \in {"await", "reply"} => ctl'[c].server \in Servers
  <2>1. ctl'[c].cmd \in DOMAIN cmds BY <1>5 DEF HandStep, IInv, Base, HandsOK
  <2>2. ctl'[c].pc \in {"await", "reply"} => ctl'[c].server \in Servers
    BY <1>5 DEF HandStep
  <2> QED BY <2>1, <2>2 DEF DbStep, CommandsKept
<1>6. HandsOK'
  <2> SUFFICES ASSUME NEW c \in Controllers, ctl'[c].pc \in Executing,
                      cmds'[ctl'[c].cmd].kind \in PlacedKinds
               PROVE  ctl'[c].snap.server \in Servers
    BY <1>5 DEF HandsOK, Cmd, Executing
  <2>1. CASE ctl[c].pc \in Executing /\ ctl'[c].cmd = ctl[c].cmd /\ ctl'[c].snap = ctl[c].snap
    BY <1>5, <2>1 DEF IInv, Base, HandsOK, Cmd
  <2>2. CASE \E k \in DOMAIN cmds : ctl'[c].cmd = k /\ ctl'[c].snap = inst[cmds[k].inst]
    BY <1>5, <2>2 DEF IInv, Base, PlacedOK
  <2> QED BY <2>1, <2>2 DEF HandStep
<1>7. StopInHandOK'
  <2> SUFFICES ASSUME NEW c \in Controllers, ctl'[c].pc \in Executing,
                      cmds'[ctl'[c].cmd].kind = "terminate",
                      inst'[cmds'[ctl'[c].cmd].inst].active
               PROVE  ctl'[c].snap.active /\ ctl'[c].snap.gen = cmds'[ctl'[c].cmd].gen
    BY DEF StopInHandOK, Cmd, Target
  <2>0. cmds[ctl'[c].cmd].inst \in Instances BY <1>5, CommandTyped DEF IInv, Base
  <2>1. CASE ctl[c].pc \in Executing /\ ctl'[c].cmd = ctl[c].cmd /\ ctl'[c].snap = ctl[c].snap
    <3>1. Exists(cmds[ctl[c].cmd].inst) BY <1>5, <2>1 DEF IInv, CommandsHaveRows
    <3>2. inst[cmds[ctl[c].cmd].inst].active BY <1>5, <2>0, <2>1, <3>1 DEF DbStep, RowsKept
    <3> QED BY <1>5, <2>1, <3>2 DEF IInv, StopInHandOK, Cmd, Target
  <2>2. CASE inst' = inst /\ \E k \in DOMAIN cmds : /\ ctl'[c].cmd = k /\ IsOpen(k)
                                                   /\ ctl'[c].snap = inst[cmds[k].inst]
    BY <1>5, <2>2 DEF IInv, OpenTerminateIsCurrent
  <2> QED BY <2>1, <2>2 DEF HandStep
<1> QED BY <1>1, <1>2, <1>3, <1>4, <1>6, <1>7 DEF IInv, Base

\* A step that leaves both tables alone has the effects of DbStep.
LEMMA DbUnchanged ==
  ASSUME IInv, UNCHANGED dbVars PROVE DbStep
  BY DEF IInv, Base, PlacedOK, dbVars, DbStep, CommandsKept, RowsKept, RowsMoved,
         CommandsAdded, IsOpen, Exists

\* A step that leaves runtime_instances alone keeps its rows.
LEMMA RowsUnchanged ==
  ASSUME IInv, inst' = inst PROVE RowsKept /\ RowsMoved
  BY DEF IInv, Base, PlacedOK, RowsKept, RowsMoved, Exists

\* A controller update of one row that neither moves its generation nor its
\* desired state while it holds the slot (mark_starting, finish_start, mark_stopping,
\* finish_extension, finish_inspection), or that releases the slot, is harmless.
LEMMA OneRowWritten ==
  ASSUME IInv, NEW i \in Instances, NEW row, inst' = [inst EXCEPT ![i] = row],
         row.observed # "none",
         row.observed = "ready" => row.server \in Servers,
         inst[i].server \in Servers => row.server \in Servers,
         row.active => inst[i].active,
         row.active => row.gen = inst[i].gen /\ row.desired = inst[i].desired
  PROVE  RowsKept /\ RowsMoved
<1>1. /\ \A j \in Instances : j # i => inst'[j] = inst[j]
      /\ inst'[i] = row
  BY DEF IInv, Base, TypeOK
<1> QED BY <1>1 DEF IInv, Base, PlacedOK, RowsKept, RowsMoved, Exists

\* Claiming, recovering and retrying move a command only between pending and claimed.
LEMMA StatusesMoved ==
  ASSUME DOMAIN cmds' = DOMAIN cmds,
         \A k \in DOMAIN cmds :
            /\ cmds'[k].inst = cmds[k].inst /\ cmds'[k].kind = cmds[k].kind
            /\ cmds'[k].gen = cmds[k].gen
            /\ \/ cmds'[k].status = cmds[k].status
               \/ IsOpen(k) /\ cmds'[k].status \in {"pending", "claimed"}
  PROVE  CommandsKept /\ CommandsAdded
  BY DEF CommandsKept, CommandsAdded, IsOpen, Unfinished

\* table cs says of command k what cmds says
Kept(cs, k) ==
    /\ cs[k].inst = cmds[k].inst /\ cs[k].kind = cmds[k].kind /\ cs[k].gen = cmds[k].gen

\* Closing a command is fenced: only the command in hand changes, and only while
\* the claim token still matches (lock_command_claim).
LEMMA CloseFacts ==
  ASSUME TypeOK, NEW c \in Controllers, ctl[c].cmd \in DOMAIN cmds,
         NEW st \in {"completed", "failed", "cancelled"}
  PROVE  /\ DOMAIN Close(c, st) = DOMAIN cmds
         /\ \A k \in DOMAIN cmds :
               /\ Kept(Close(c, st), k)
               /\ \/ Close(c, st)[k].status = cmds[k].status
                  \/ k = ctl[c].cmd /\ HoldsClaim(c) /\ Close(c, st)[k].status = st
<1>1. ASSUME NEW k \in DOMAIN cmds PROVE cmds[k] \in Command BY DEF TypeOK
<1>2. DOMAIN Close(c, st) = DOMAIN cmds BY DEF Close, Closed
<1>3. ASSUME NEW k \in DOMAIN cmds
      PROVE  /\ Kept(Close(c, st), k)
             /\ \/ Close(c, st)[k].status = cmds[k].status
                \/ k = ctl[c].cmd /\ HoldsClaim(c) /\ Close(c, st)[k].status = st
  <2>1. CASE HoldsClaim(c) /\ k = ctl[c].cmd
    BY <1>1, <2>1 DEF Close, Closed, Kept, Command
  <2>2. CASE ~(HoldsClaim(c) /\ k = ctl[c].cmd)
    BY <1>1, <2>2 DEF Close, Closed, Kept
  <2> QED BY <2>1, <2>2
<1> QED BY <1>2, <1>3

\* Closing the command in hand loses no stop: a terminate command is closed other
\* than as failed only together with its slot.
LEMMA ClosedKept ==
  ASSUME IInv, NEW c \in Controllers, ctl[c].cmd \in DOMAIN cmds,
         NEW st \in {"completed", "failed", "cancelled"}, cmds' = Close(c, st),
         Cmd(c).kind = "terminate" /\ HoldsClaim(c) => st = "failed" \/ ~inst'[Target(c)].active
  PROVE  CommandsKept /\ CommandsAdded
<1>1. /\ DOMAIN cmds' = DOMAIN cmds
      /\ \A k \in DOMAIN cmds :
            /\ Kept(cmds', k)
            /\ \/ cmds'[k].status = cmds[k].status
               \/ k = ctl[c].cmd /\ HoldsClaim(c) /\ cmds'[k].status = st
  BY CloseFacts DEF IInv, Base
<1> QED BY <1>1 DEF CommandsKept, CommandsAdded, Kept, IsOpen, Unfinished, HoldsClaim, Cmd, Target

\* A step that leaves the controllers alone has the effects of HandStep.
LEMMA HandUnchanged ==
  ASSUME IInv, ctl' = ctl PROVE HandStep
  BY DEF IInv, Base, HandsOK, HandStep

\* A controller that drops its command has nothing to keep.
LEMMA HandEmptied ==
  ASSUME IInv, NEW c \in Controllers, NEW s, ctl' = [ctl EXCEPT ![c] = s], s.pc \notin Executing
  PROVE  HandStep
  BY DEF IInv, Base, TypeOK, HandsOK, HandStep

\* A controller that moves on keeps its command and the row it loaded.
LEMMA HandOnward ==
  ASSUME IInv, NEW c \in Controllers, ctl[c].pc \in Executing,
         NEW p \in Phases, p \notin {"await", "reply"}, ctl' = [ctl EXCEPT ![c].pc = p]
  PROVE  HandStep
<1>0. ctl[c] \in Session BY DEF IInv, Base, TypeOK
<1>1. /\ \A d \in Controllers : d # c => ctl'[d] = ctl[d]
      /\ ctl'[c] = [ctl[c] EXCEPT !.pc = p]
  BY DEF IInv, Base, TypeOK
<1>2. ctl'[c].pc = p /\ ctl'[c].cmd = ctl[c].cmd /\ ctl'[c].snap = ctl[c].snap
  BY <1>0, <1>1 DEF Session
<1> QED BY <1>1, <1>2 DEF IInv, Base, HandsOK, HandStep

\* A controller that sends a remote call keeps its command and the row it loaded,
\* and remembers the server it called.
LEMMA HandSends ==
  ASSUME IInv, NEW c \in Controllers, ctl[c].pc \in Executing,
         NEW op, NEW s \in Servers, Send(c, op, s)
  PROVE  HandStep
<1>0. ctl[c] \in Session BY DEF IInv, Base, TypeOK
<1>1. /\ \A d \in Controllers : d # c => ctl'[d] = ctl[d]
      /\ ctl'[c] = [ctl[c] EXCEPT !.pc = "await", !.op = op, !.server = s, !.reply = NoReply]
  BY DEF IInv, Base, TypeOK, Send
<1>2. ctl'[c].server = s /\ ctl'[c].cmd = ctl[c].cmd /\ ctl'[c].snap = ctl[c].snap
  BY <1>0, <1>1 DEF Session
<1> QED BY <1>1, <1>2 DEF IInv, Base, HandsOK, HandStep

\* Inserting one command, possibly after closing the one in hand, keeps the others.
LEMMA CommandAppended ==
  ASSUME IInv, NEW cs \in Seq(Command), DOMAIN cs = DOMAIN cmds, NEW e \in Command,
         cmds' = Append(cs, e), 
         \A k \in DOMAIN cmds :
            /\ Kept(cs, k)
            /\ \/ cs[k].status = cmds[k].status
               \/ cmds[k].kind # "terminate" /\ cs[k].status \notin {"pending", "claimed"}
               \/ cmds[k].kind = "terminate" /\ cs[k].status = "failed",
         inst'[e.inst].observed # "none",
         e.kind \in PlacedKinds => inst'[e.inst].server \in Servers,
         e.kind = "terminate" => e.gen = inst'[e.inst].gen /\ inst'[e.inst].desired = "stopped"
  PROVE  /\ CommandsKept /\ CommandsAdded
         /\ \E k \in DOMAIN cmds' : cmds'[k] = e
<1>1. /\ DOMAIN cmds' = 1 .. (Len(cs) + 1) /\ DOMAIN cmds = 1 .. Len(cs)
      /\ Len(cs) \in Nat
      /\ \A k \in DOMAIN cmds : k \in DOMAIN cmds' /\ cmds'[k] = cs[k]
      /\ cmds'[Len(cs) + 1] = e
  OBVIOUS
<1>2. CommandsKept BY <1>1 DEF CommandsKept, Kept, IsOpen, Unfinished
<1>3. ASSUME NEW k \in DOMAIN cmds' \ DOMAIN cmds PROVE cmds'[k] = e
  BY <1>1
<1> QED BY <1>1, <1>2, <1>3 DEF CommandsAdded

\* create_termination_command_in_transaction: the generation moves only when no
\* stop is open, and the stop it inserts carries the new generation.
LEMMA CreateSteps ==
  ASSUME IInv, NEW rows \in [Instances -> Row], NEW cs \in Seq(Command),
         DOMAIN cs = DOMAIN cmds,
         \A k \in DOMAIN cmds :
            /\ Kept(cs, k)
            /\ \/ cs[k].status = cmds[k].status
               \/ cmds[k].kind # "terminate" /\ cs[k].status \notin {"pending", "claimed"},
         NEW i \in Instances, NEW b \in BOOLEAN, CreateTermination(rows, cs, i, b),
         \A j \in Instances : j # i => rows[j] = inst[j],
         /\ rows[i].gen = inst[i].gen /\ rows[i].desired = inst[i].desired
         /\ rows[i].active = inst[i].active /\ rows[i].server = inst[i].server
         /\ \/ rows[i].observed = inst[i].observed
            \/ Exists(i) /\ rows[i].observed \notin {"none", "ready"},
         rows[i].observed = "none" => rows[i] = inst[i]
  PROVE  DbStep
<1>0. rows[i] \in Row OBVIOUS
<1>1. CASE ~MayTerminate(rows, cs, i)
  <2>1. inst' = rows /\ cmds' = cs BY <1>1 DEF CreateTermination
  <2>2. CommandsKept /\ CommandsAdded
    BY <2>1 DEF CommandsKept, CommandsAdded, Kept, IsOpen, Unfinished
  <2>3. RowsKept /\ RowsMoved
    BY <2>1 DEF IInv, Base, PlacedOK, RowsKept, RowsMoved, Exists
  <2> QED BY <2>2, <2>3 DEF DbStep
<1>2. CASE MayTerminate(rows, cs, i)
  <2> DEFINE e == [NewCommand(i, "terminate", rows[i].gen + 1) EXCEPT !.overdue = b]
  <2>1. inst' = [rows EXCEPT ![i] = Stopped(rows[i])] /\ cmds' = Append(cs, e)
    BY <1>2 DEF CreateTermination
  <2>2. /\ e \in Command /\ e.inst = i /\ e.kind = "terminate"
        /\ e.gen = rows[i].gen + 1 /\ e.status = "pending"
    <3>1. rows[i].gen + 1 \in Nat BY <1>0 DEF Row
    <3> QED BY <3>1, NewStopTyped DEF NewCommand
  <2> HIDE DEF e
  <2>3. /\ Stopped(rows[i]).gen = rows[i].gen + 1 /\ Stopped(rows[i]).desired = "stopped"
        /\ Stopped(rows[i]).active = rows[i].active
        /\ Stopped(rows[i]).observed = rows[i].observed
        /\ Stopped(rows[i]).server = rows[i].server
    BY <1>0 DEF Stopped, Row
  <2>4. /\ inst'[i] = Stopped(rows[i])
        /\ \A j \in Instances : j # i => inst'[j] = inst[j]
    BY <2>1
  <2>5. inst[i].active /\ Exists(i) /\ rows[i].observed # "none"
    BY <1>2 DEF MayTerminate, IInv, CommandsHaveRows, Exists
  <2>6. CommandsKept /\ CommandsAdded /\ \E k \in DOMAIN cmds' : cmds'[k] = e
    BY <2>1, <2>2, <2>3, <2>4, <2>5, CommandAppended DEF PlacedKinds
  <2>7. NoOpenStop(i)
    BY <1>2 DEF MayTerminate, NoOpenStop, Kept, IsOpen
  <2>8. StopQueued(i) BY <2>2, <2>3, <2>4, <2>6 DEF StopQueued
  <2>9. RowsKept /\ RowsMoved
    BY <2>3, <2>4, <2>5, <2>7, <2>8 DEF IInv, Base, PlacedOK, RowsKept, RowsMoved, Exists
  <2> QED BY <2>6, <2>9 DEF DbStep
<1> QED BY <1>1, <1>2

\* The API transactions: an extension cannot move the generation past an open
\* stop, because it demands desired_state = running.
LEMMA ApiSteps ==
  ASSUME IInv, Api PROVE DbStep /\ HandStep
<1>0. cmds \in Seq(Command) /\ inst \in [Instances -> Row] BY DEF IInv, Base, TypeOK
<1>k. \A k \in DOMAIN cmds : Kept(cmds, k) /\ cmds[k].status = cmds[k].status BY DEF Kept
<1>1. ASSUME NEW u \in Owners, NEW ch \in Challenges, NEW ttl \in Ttls, EnsureInstance(u, ch, ttl)
      PROVE  DbStep /\ HandStep
  <2>1. PICK i \in Instances :
          /\ ~Exists(i)
          /\ inst' = [inst EXCEPT ![i] =
              [NoRow EXCEPT !.owner = u, !.challenge = ch, !.active = TRUE,
                            !.desired = "running", !.observed = "requested",
                            !.desiredExp = now + ttl, !.maxExp = now + MaximumTtl,
                            !.exp = now + ttl, !.gen = 1,
                            !.settingRev = setting.revision,
                            !.runtimeRev = runtime[ch].revision]]
          /\ cmds' = Append(cmds, NewCommand(i, "start", 1))
    BY <1>1 DEF EnsureInstance
  <2>2. /\ inst'[i].observed = "requested" /\ inst'[i].desired = "running"
        /\ \A j \in Instances : j # i => inst'[j] = inst[j]
    BY <1>0, <2>1 DEF NoRow
  <2>3. /\ NewCommand(i, "start", 1) \in Command /\ NewCommand(i, "start", 1).inst = i
        /\ NewCommand(i, "start", 1).kind = "start"
    BY NewCommandTyped DEF NewCommand, Kinds
  <2>4. CommandsKept /\ CommandsAdded
    BY <1>0, <1>k, <2>1, <2>2, <2>3, CommandAppended DEF PlacedKinds
  <2>5. NoOpenStop(i) BY <2>1 DEF NoOpenStop, IInv, CommandsHaveRows
  <2>6. RowsKept /\ RowsMoved
    BY <2>1, <2>2, <2>5 DEF IInv, Base, PlacedOK, RowsKept, RowsMoved, Exists
  <2> QED BY <1>1, <2>4, <2>6, HandUnchanged DEF DbStep, EnsureInstance
<1>2. ASSUME NEW i \in Instances, NEW more \in Ttls, ExtendInstance(i, more)
      PROVE  DbStep /\ HandStep
  <2> DEFINE new == MinTime(inst[i].desiredExp + more, inst[i].maxExp)
             e == NewCommand(i, "extend", inst[i].gen + 1)
  <2>1. /\ inst' = [inst EXCEPT ![i] = Extended(inst[i], new)] /\ cmds' = Append(cmds, e)
        /\ inst[i].active /\ inst[i].desired = "running" /\ inst[i].observed = "ready"
    BY <1>2 DEF ExtendInstance, Extensible
  <2>2. inst[i] \in Row /\ inst[i].gen + 1 \in Nat BY <1>0 DEF Row
  <2>3. /\ Extended(inst[i], new).active /\ Extended(inst[i], new).desired = "running"
        /\ Extended(inst[i], new).observed = "ready"
        /\ Extended(inst[i], new).server = inst[i].server
    BY <2>1, <2>2 DEF Extended, Row
  <2>4. e \in Command /\ e.inst = i /\ e.kind = "extend"
    BY <2>2, NewCommandTyped DEF NewCommand, Kinds
  <2> HIDE DEF e, new
  <2>5. inst'[i] = Extended(inst[i], new) /\ \A j \in Instances : j # i => inst'[j] = inst[j]
    BY <1>0, <2>1
  <2>6. inst[i].server \in Servers BY <2>1 DEF IInv, Base, PlacedOK
  <2>7. CommandsKept /\ CommandsAdded
    BY <1>0, <1>k, <2>1, <2>3, <2>4, <2>5, <2>6, CommandAppended
  <2>8. NoOpenStop(i) BY <2>1 DEF NoOpenStop, IInv, OpenTerminateIsCurrent
  <2>9. RowsKept /\ RowsMoved
    BY <2>1, <2>3, <2>5, <2>6, <2>8 DEF IInv, Base, PlacedOK, RowsKept, RowsMoved, Exists
  <2> QED BY <1>2, <2>7, <2>9, HandUnchanged DEF DbStep, ExtendInstance
<1>3. ASSUME NEW i \in Instances, RequestTermination(i) PROVE DbStep /\ HandStep
  <2> DEFINE e == NewCommand(i, "terminate", inst[i].gen + 1)
  <2>1. /\ inst' = [inst EXCEPT ![i] = Stopped(inst[i])] /\ cmds' = Append(cmds, e)
        /\ inst[i].active /\ inst[i].desired = "running"
    BY <1>3 DEF RequestTermination
  <2>2. inst[i] \in Row /\ inst[i].gen + 1 \in Nat BY <1>0 DEF Row
  <2>3. /\ Stopped(inst[i]).gen = inst[i].gen + 1 /\ Stopped(inst[i]).desired = "stopped"
        /\ Stopped(inst[i]).observed = inst[i].observed
        /\ Stopped(inst[i]).server = inst[i].server
    BY <2>2 DEF Stopped, Row
  <2>4. /\ e \in Command /\ e.inst = i /\ e.kind = "terminate"
        /\ e.gen = inst[i].gen + 1 /\ e.status = "pending"
    BY <2>2, NewCommandTyped DEF NewCommand, Kinds
  <2> HIDE DEF e
  <2>5. inst'[i] = Stopped(inst[i]) /\ \A j \in Instances : j # i => inst'[j] = inst[j]
    BY <1>0, <2>1
  <2>6. Exists(i) BY <2>1 DEF IInv, CommandsHaveRows
  <2>7. CommandsKept /\ CommandsAdded /\ \E k \in DOMAIN cmds' : cmds'[k] = e
    BY <1>0, <1>k, <2>1, <2>3, <2>4, <2>5, <2>6, CommandAppended DEF PlacedKinds, Exists
  <2>8. NoOpenStop(i) BY <2>1 DEF NoOpenStop, IInv, OpenTerminateIsCurrent
  <2>9. StopQueued(i) BY <2>3, <2>4, <2>5, <2>7 DEF StopQueued
  <2>10. RowsKept /\ RowsMoved
    BY <2>1, <2>3, <2>5, <2>6, <2>8, <2>9 DEF IInv, Base, PlacedOK, RowsKept, RowsMoved, Exists
  <2> QED BY <1>3, <2>7, <2>10, HandUnchanged DEF DbStep, RequestTermination
<1>4. ASSUME NEW i \in Instances, ReconcileInstance(i) PROVE DbStep /\ HandStep
  <2> DEFINE e == NewCommand(i, "reconcile", inst[i].gen)
  <2>1. inst' = inst /\ cmds' = Append(cmds, e) /\ inst[i].server # None
    BY <1>4 DEF ReconcileInstance
  <2>2. inst[i].server \in Servers /\ inst[i].gen \in Nat BY <1>0, <2>1 DEF Row
  <2>3. Exists(i) BY <2>2 DEF IInv, CommandsHaveRows
  <2>4. e \in Command /\ e.inst = i /\ e.kind = "reconcile"
    BY <2>2, NewCommandTyped DEF NewCommand, Kinds
  <2> HIDE DEF e
  <2>5. CommandsKept /\ CommandsAdded
    BY <1>0, <1>k, <2>1, <2>2, <2>3, <2>4, CommandAppended DEF Exists
  <2> QED BY <1>4, <2>1, <2>5, RowsUnchanged, HandUnchanged DEF DbStep, ReconcileInstance
<1>6. ASSUME NEW b \in BOOLEAN, UpdatePrivateChallengesSetting(b) PROVE DbStep /\ HandStep
  BY <1>6, DbUnchanged, HandUnchanged DEF UpdatePrivateChallengesSetting
<1>7. ASSUME NEW b \in BOOLEAN, NEW ch \in Challenges, PutChallengeRuntime(ch, b) PROVE DbStep /\ HandStep
  BY <1>7, DbUnchanged, HandUnchanged DEF PutChallengeRuntime
<1>8. ASSUME NEW b \in BOOLEAN, NEW s \in Servers, NEW n \in Capacities, UpdateRemoteServer(s, b, n)
      PROVE DbStep /\ HandStep
  BY <1>8, DbUnchanged, HandUnchanged DEF UpdateRemoteServer
<1> QED BY <1>1, <1>2, <1>3, <1>4, <1>6, <1>7, <1>8 DEF Api

\* The controller loop: recovering claims and queueing stops.
LEMMA PassSteps ==
  ASSUME IInv, NEW c \in Controllers, Pass(c) PROVE DbStep /\ HandStep
<1>0. TypeOK /\ cmds \in Seq(Command) /\ inst \in [Instances -> Row] BY DEF IInv, Base, TypeOK
<1>m. ASSUME NEW p \in Phases, p \notin Executing, MoveTo(c, p) PROVE HandStep /\ inst' = inst
  <2>1. [NoWork EXCEPT !.pc = p].pc = p BY DEF NoWork
  <2> QED BY <1>m, <2>1, HandEmptied DEF MoveTo
<1>r. ASSUME NEW stale \in SUBSET {k \in DOMAIN cmds : cmds[k].status = "claimed"}, inst' = inst,
             cmds' = [k \in DOMAIN cmds |-> IF k \in stale THEN Released(k) ELSE cmds[k]]
      PROVE  DbStep
  <2>1. ASSUME NEW k \in DOMAIN cmds
        PROVE  /\ cmds'[k].inst = cmds[k].inst /\ cmds'[k].kind = cmds[k].kind
               /\ cmds'[k].gen = cmds[k].gen
               /\ \/ cmds'[k].status = cmds[k].status
                  \/ IsOpen(k) /\ cmds'[k].status \in {"pending", "claimed"}
    <3>1. cmds[k] \in Command BY <1>0
    <3>2. CASE k \in stale BY <1>r, <3>1, <3>2 DEF Released, Command, IsOpen
    <3>3. CASE k \notin stale BY <1>r, <3>3
    <3> QED BY <3>2, <3>3
  <2>2. DOMAIN cmds' = DOMAIN cmds BY <1>r
  <2> QED BY <1>r, <2>1, <2>2, StatusesMoved, RowsUnchanged DEF DbStep
<1>1. CASE AcquireLease(c)
  <2>1. HandStep
    <3>1. ctl[c] \in Session BY <1>0 DEF TypeOK
    <3>2. [ctl[c] EXCEPT !.pc = "startup"].pc \notin Executing BY <3>1 DEF Session, Executing
    <3> QED BY <1>1, <3>2, HandEmptied DEF AcquireLease
  <2> QED BY <1>1, <2>1, DbUnchanged DEF AcquireLease
<1>2. CASE RecoverAllClaims(c)
  <2>1. HandStep /\ inst' = inst BY <1>2, <1>m DEF RecoverAllClaims, Phases, Executing
  <2> DEFINE stale == {k \in DOMAIN cmds : cmds[k].status = "claimed"}
  <2>2. cmds' = [k \in DOMAIN cmds |-> IF k \in stale THEN Released(k) ELSE cmds[k]]
    BY <1>2 DEF RecoverAllClaims
  <2> QED BY <1>r, <2>1, <2>2
<1>3. CASE CheckLease(c) \/ LeaseWasLost(c) \/ EnqueuesDone(c) \/ NothingToClaim(c)
  <2>1. HandStep /\ inst' = inst
    BY <1>3, <1>m DEF CheckLease, LeaseWasLost, EnqueuesDone, NothingToClaim, Phases, Executing
  <2>2. cmds' = cmds BY <1>3 DEF CheckLease, LeaseWasLost, EnqueuesDone, NothingToClaim
  <2> QED BY <2>1, <2>2, DbUnchanged DEF dbVars
<1>4. CASE RecoverStaleClaims(c)
  <2>1. HandStep /\ inst' = inst BY <1>4, <1>m DEF RecoverStaleClaims, Phases, Executing
  <2> QED BY <1>4, <1>r, <2>1 DEF RecoverStaleClaims
<1>5. CASE ScanPolicy(c) \/ ScanOverdue(c)
  <2>1. PICK p \in {"policy", "overdue"}, T \in SUBSET Instances :
           ctl' = [ctl EXCEPT ![c] = [ctl[c] EXCEPT !.pc = p, !.todo = T]]
    BY <1>5 DEF ScanPolicy, ScanOverdue
  <2>2. ctl[c] \in Session BY <1>0 DEF TypeOK
  <2>3. [ctl[c] EXCEPT !.pc = p, !.todo = T].pc \notin Executing BY <2>2 DEF Session, Executing
  <2> QED BY <1>5, <2>1, <2>3, HandEmptied, DbUnchanged DEF ScanPolicy, ScanOverdue
<1>6. CASE QueueStop(c)
  <2>1. PICK i \in ctl[c].todo :
           /\ CreateTermination(inst, cmds, i, ctl[c].pc = "overdue")
           /\ ctl' = [ctl EXCEPT ![c] = [ctl[c] EXCEPT !.todo = ctl[c].todo \ {i}]]
    BY <1>6 DEF QueueStop
  <2>2. ctl[c] \in Session /\ i \in Instances BY <1>0 DEF TypeOK, Session
  <2>3. [ctl[c] EXCEPT !.todo = ctl[c].todo \ {i}].pc \notin Executing
    BY <1>6, <2>2 DEF Session, Executing, QueueStop
  <2>4. HandStep BY <2>1, <2>3, HandEmptied
  <2>5. \A k \in DOMAIN cmds : Kept(cmds, k) BY DEF Kept
  <2>6. DbStep
    <3>1. PICK b \in BOOLEAN : CreateTermination(inst, cmds, i, b)
      <4>1. (ctl[c].pc = "overdue") \in BOOLEAN OBVIOUS
      <4> QED BY <2>1, <4>1
    <3> QED BY <1>0, <2>2, <2>5, <3>1, CreateSteps
  <2> QED BY <2>4, <2>6
<1>7. ASSUME NEW i \in Instances, EnqueueInspection(c, i) PROVE DbStep /\ HandStep
  <2> DEFINE e == NewCommand(i, "inspect", inst[i].gen)
  <2>1. /\ inst' = inst /\ cmds' = Append(cmds, e) /\ inst[i].server # None
        /\ inst[i].observed # "none"
    BY <1>7 DEF EnqueueInspection
  <2>2. inst[i].server \in Servers /\ inst[i].gen \in Nat BY <1>0, <2>1 DEF Row
  <2>4. e \in Command /\ e.inst = i /\ e.kind = "inspect"
    BY <2>2, NewCommandTyped DEF NewCommand, Kinds
  <2> HIDE DEF e
  <2>3. \A k \in DOMAIN cmds : Kept(cmds, k) /\ cmds[k].status = cmds[k].status BY DEF Kept
  <2>5. CommandsKept /\ CommandsAdded
    BY <1>0, <2>1, <2>2, <2>3, <2>4, CommandAppended
  <2> QED BY <1>7, <2>1, <2>5, RowsUnchanged, HandUnchanged DEF DbStep, EnqueueInspection
<1>8. CASE ClaimCommand(c)
  <2>1. PICK k \in DOMAIN cmds :
          /\ Available(k)
          /\ cmds' = [cmds EXCEPT ![k] =
                [cmds[k] EXCEPT !.status = "claimed", !.token = cmds[k].attempts + 1,
                                !.attempts = cmds[k].attempts + 1]]
          /\ ctl' = [ctl EXCEPT ![c] =
                [NoWork EXCEPT !.pc = "loaded", !.cmd = k,
                               !.token = cmds[k].attempts + 1,
                               !.snap = inst[cmds[k].inst]]]
    BY <1>8 DEF ClaimCommand
  <2>2. inst' = inst /\ IsOpen(k) BY <1>8, <2>1 DEF ClaimCommand, Available, IsOpen
  <2>3. ctl'[c].pc = "loaded" /\ ctl'[c].cmd = k /\ ctl'[c].snap = inst[cmds[k].inst]
    BY <1>0, <2>1 DEF TypeOK, NoWork
  <2>4. \A d \in Controllers : d # c => ctl'[d] = ctl[d] BY <1>0, <2>1 DEF TypeOK
  <2>5. HandStep BY <2>2, <2>3, <2>4 DEF IInv, Base, HandsOK, HandStep
  <2>6. ASSUME NEW j \in DOMAIN cmds
        PROVE  /\ cmds'[j].inst = cmds[j].inst /\ cmds'[j].kind = cmds[j].kind
               /\ cmds'[j].gen = cmds[j].gen
               /\ \/ cmds'[j].status = cmds[j].status
                  \/ IsOpen(j) /\ cmds'[j].status \in {"pending", "claimed"}
    <3>1. cmds[j] \in Command BY <1>0
    <3>2. CASE j = k BY <2>1, <2>2, <3>1, <3>2 DEF Command
    <3>3. CASE j # k BY <2>1, <3>3
    <3> QED BY <3>2, <3>3
  <2>7. DOMAIN cmds' = DOMAIN cmds BY <2>1
  <2> QED BY <2>2, <2>5, <2>6, <2>7, StatusesMoved, RowsUnchanged DEF DbStep
<1> QED BY <1>1, <1>2, <1>3, <1>4, <1>5, <1>6, <1>7, <1>8 DEF Pass

\* Cancelling or completing the command in hand, writing no row.
LEMMA DropSteps ==
  ASSUME IInv, NEW c \in Controllers, ctl[c].pc \in Executing,
         NEW st \in {"completed", "cancelled"}, Leave(c, st),
         Cmd(c).kind = "terminate" /\ HoldsClaim(c) => ~inst[Target(c)].active
  PROVE  DbStep /\ HandStep
<1>1. ctl[c].cmd \in DOMAIN cmds BY DEF IInv, Base, HandsOK
<1>2. inst' = inst /\ cmds' = Close(c, st) /\ ctl' = [ctl EXCEPT ![c] = Idle]
  BY DEF Leave, BackToLoop
<1>3. Idle.pc \notin Executing BY DEF Idle, NoWork, Executing
<1>4. CommandsKept /\ CommandsAdded BY <1>1, <1>2, ClosedKept
<1> QED BY <1>2, <1>3, <1>4, RowsUnchanged, HandEmptied DEF DbStep

\* A transaction that writes rows and closes the command in hand.
LEMMA CommitSteps ==
  ASSUME IInv, NEW c \in Controllers, ctl[c].pc \in Executing, BackToLoop(c),
         RowsKept, RowsMoved,
         NEW st \in {"completed", "failed", "cancelled"}, cmds' = Close(c, st),
         Cmd(c).kind = "terminate" /\ HoldsClaim(c) => st = "failed" \/ ~inst'[Target(c)].active
  PROVE  DbStep /\ HandStep
<1>1. ctl[c].cmd \in DOMAIN cmds BY DEF IInv, Base, HandsOK
<1>3. Idle.pc \notin Executing BY DEF Idle, NoWork, Executing
<1>4. CommandsKept /\ CommandsAdded BY <1>1, ClosedKept
<1> QED BY <1>3, <1>4, HandEmptied DEF DbStep, BackToLoop

\* A terminate command that is still claimed by its controller, on an instance
\* that still holds its slot, matches the row: execute_terminate never cancels it.
LEMMA HeldStopIsCurrent ==
  ASSUME IInv, NEW c \in Controllers, ctl[c].pc \in Executing,
         Cmd(c).kind = "terminate", HoldsClaim(c), inst[Target(c)].active
  PROVE  RowIsCurrent(c) /\ ctl[c].snap.active /\ ctl[c].snap.gen = Cmd(c).gen
<1>1. ctl[c].cmd \in DOMAIN cmds BY DEF IInv, Base, HandsOK
<1>2. RowIsCurrent(c)
  BY <1>1 DEF IInv, OpenTerminateIsCurrent, RowIsCurrent, HoldsClaim, Cmd, Target, IsOpen
<1> QED BY <1>2 DEF IInv, StopInHandOK

\* execute_start.
LEMMA StartSteps ==
  ASSUME IInv, NEW c \in Controllers,
         \/ CancelStaleCommand(c) \/ StartUnwanted(c) \/ ExpireUnstarted(c) \/ RejectStart(c)
         \/ PassGate(c) \/ RestartAtHost(c) \/ CountServers(c) \/ StartWithdrawn(c)
         \/ NoCapacity(c) \/ PlaceAndStart(c)
         \/ RemoteRefused(c) \/ FinishStart(c) \/ LostClaimAfterStart(c)
         \/ UndoStart(c) \/ StartUndone(c)
  PROVE  DbStep /\ HandStep
<1>0. /\ Base /\ TypeOK /\ inst \in [Instances -> Row] /\ ctl[c].pc \in Executing
  BY DEF IInv, Base, TypeOK, CancelStaleCommand, StartUnwanted, ExpireUnstarted, RejectStart, PassGate,
         RestartAtHost, CountServers, StartWithdrawn, NoCapacity, PlaceAndStart, RemoteRefused, FinishStart,
         LostClaimAfterStart, UndoStart, StartUndone, InHand, Starting, Replied, Executing
<1>h. /\ ctl[c].cmd \in DOMAIN cmds
      /\ Target(c) \in Instances /\ inst[Target(c)] \in Row
      /\ Exists(Target(c))
  BY <1>0, InHandTyped DEF IInv, CommandsHaveRows, Target, Cmd
<1>1. CASE CancelStaleCommand(c)
  BY <1>0, <1>1, DropSteps, HeldStopIsCurrent DEF CancelStaleCommand, Drop
<1>2. CASE StartUnwanted(c) \/ StartWithdrawn(c) \/ StartUndone(c)
  <2>1. Cmd(c).kind = "start" /\ Leave(c, "cancelled")
    BY <1>2 DEF StartUnwanted, StartWithdrawn, StartUndone, InHand, Starting, Replied, Drop
  <2> QED BY <1>0, <2>1, DropSteps
<1>3. CASE ExpireUnstarted(c) \/ RejectStart(c)
  <2>0. \E o \in {"expired", "failed"} : \E g : ReleaseUnplaced(c, o, g)
    BY <1>3 DEF ExpireUnstarted, RejectStart
  <2>a. PICK o \in {"expired", "failed"} : \E g : ReleaseUnplaced(c, o, g) BY <2>0
  <2>1. PICK g : ReleaseUnplaced(c, o, g) BY <2>a
  <2>2. Cmd(c).kind = "start" BY <1>3 DEF ExpireUnstarted, RejectStart, InHand
  <2> DEFINE row == [inst[Target(c)] EXCEPT !.active = FALSE, !.desired = "stopped",
                                            !.observed = o, !.obsGen = g]
  <2>3. inst' = inst \/ inst' = [inst EXCEPT ![Target(c)] = row]
    BY <2>1 DEF ReleaseUnplaced
  <2>4. /\ row.active = FALSE /\ row.observed = o
        /\ row.server = inst[Target(c)].server
    BY <1>h DEF Row
  <2> HIDE DEF row
  <2>5. RowsKept /\ RowsMoved
    BY <1>h, <2>3, <2>4, OneRowWritten, RowsUnchanged
  <2> QED BY <1>0, <2>1, <2>2, <2>5, CommitSteps DEF ReleaseUnplaced
<1>4. CASE PassGate(c) \/ NoCapacity(c) \/ RemoteRefused(c) \/ LostClaimAfterStart(c)
  BY <1>0, <1>4, HandOnward, DbUnchanged
     DEF PassGate, NoCapacity, RemoteRefused, LostClaimAfterStart, Phases
<1>5. CASE PlaceAndStart(c)
  <2> DEFINE row(s) == [inst[Target(c)] EXCEPT !.observed = "starting", !.server = s]
  <2>1. PICK s \in Servers :
          inst' = [inst EXCEPT ![Target(c)] = row(s)] /\ Send(c, "ensure-instance", s)
    BY <1>5 DEF PlaceAndStart, LeastLoaded
  <2>2. s \in Servers OBVIOUS
  <2>3. /\ row(s).active = inst[Target(c)].active /\ row(s).observed = "starting"
        /\ row(s).server = s /\ row(s).gen = inst[Target(c)].gen
        /\ row(s).desired = inst[Target(c)].desired
    BY <1>h DEF Row
  <2> HIDE DEF row
  <2>4. RowsKept /\ RowsMoved BY <1>h, <2>1, <2>2, <2>3, OneRowWritten
  <2>5. CommandsKept /\ CommandsAdded
    BY <1>5, StatusesMoved DEF PlaceAndStart
  <2> QED BY <1>0, <2>1, <2>2, <2>4, <2>5, HandSends DEF DbStep
<1>6. CASE FinishStart(c)
  <2>1. ctl[c].server \in Servers BY <1>6 DEF FinishStart, Replied, IInv, Base, HandsOK
  <2> DEFINE row == [inst[Target(c)] EXCEPT !.observed = "ready", !.obsGen = Cmd(c).gen,
                                            !.exp = ctl[c].reply.exp, !.server = ctl[c].server]
  <2>2. inst' = [inst EXCEPT ![Target(c)] = row] BY <1>6 DEF FinishStart
  <2>3. /\ row.active = inst[Target(c)].active /\ row.observed = "ready"
        /\ row.server = ctl[c].server /\ row.gen = inst[Target(c)].gen
        /\ row.desired = inst[Target(c)].desired
    BY <1>h DEF Row
  <2> HIDE DEF row
  <2>4. RowsKept /\ RowsMoved BY <1>h, <2>1, <2>2, <2>3, OneRowWritten
  <2> QED BY <1>0, <1>6, <2>4, CommitSteps DEF FinishStart, Replied
<1>7. CASE UndoStart(c)
  <2>1. ctl[c].server \in Servers BY <1>7 DEF UndoStart, Replied, IInv, Base, HandsOK
  <2> QED BY <1>0, <1>7, <2>1, HandSends, DbUnchanged DEF UndoStart
<1>8. CASE RestartAtHost(c)
  <2> DEFINE row == [inst[Target(c)] EXCEPT !.observed = "starting"]
  <2>1. ctl[c].snap.server \in Servers
    BY <1>0, <1>8, ReplyTyped DEF RestartAtHost, SelectsHost
  <2>2. inst' = [inst EXCEPT ![Target(c)] = row] BY <1>8 DEF RestartAtHost
  <2>3. /\ row.active = inst[Target(c)].active /\ row.observed = "starting"
        /\ row.server = inst[Target(c)].server /\ row.gen = inst[Target(c)].gen
        /\ row.desired = inst[Target(c)].desired
    BY <1>h DEF Row
  <2> HIDE DEF row
  <2>4. RowsKept /\ RowsMoved BY <1>h, <2>2, <2>3, OneRowWritten
  <2>5. CommandsKept /\ CommandsAdded
    BY <1>8, StatusesMoved DEF RestartAtHost
  <2> QED BY <1>0, <1>8, <2>1, <2>4, <2>5, HandSends DEF DbStep, RestartAtHost
<1>9. CASE CountServers(c)
  BY <1>9, HandUnchanged, DbUnchanged DEF CountServers
<1> QED BY <1>1, <1>2, <1>3, <1>4, <1>5, <1>6, <1>7, <1>8, <1>9

\* execute_terminate, execute_extend, execute_inspect and schedule_retry.
LEMMA OtherSteps ==
  ASSUME IInv, NEW c \in Controllers,
         \/ AlreadyReleased(c) \/ StopWithdrawn(c) \/ MarkStopping(c) \/ FinishTermination(c)
         \/ ExtendUnwanted(c) \/ SendExtend(c) \/ FinishExtension(c)
         \/ SendInspect(c) \/ InspectionWithdrawn(c)
         \/ InspectedAbsent(c) \/ InspectedReady(c) \/ InspectedNotReady(c)
         \/ RetryLater(c) \/ GiveUp(c)
  PROVE  DbStep /\ HandStep
<1>0. /\ Base /\ TypeOK /\ inst \in [Instances -> Row] /\ ctl[c].pc \in Executing
  BY DEF IInv, Base, TypeOK, AlreadyReleased, StopWithdrawn, MarkStopping, FinishTermination,
         ExtendUnwanted, SendExtend, FinishExtension, SendInspect, InspectionWithdrawn,
         InspectedAbsent, InspectedReady, InspectedNotReady, RetryLater, GiveUp,
         InHand, Replied, Inspected, Executing
<1>h. /\ ctl[c].cmd \in DOMAIN cmds /\ Cmd(c).kind \in Kinds
      /\ Target(c) \in Instances /\ inst[Target(c)] \in Row
      /\ Exists(Target(c))
  BY <1>0, InHandTyped DEF IInv, CommandsHaveRows, Target, Cmd
<1>p. Cmd(c).kind \in PlacedKinds => inst[Target(c)].server \in Servers
  BY <1>0, <1>h DEF Base, PlacedOK, Cmd, Target
<1>i. Idle.pc \notin Executing BY DEF Idle, NoWork, Executing
<1>1. CASE AlreadyReleased(c) \/ StopWithdrawn(c)
  BY <1>0, <1>1, DropSteps, HeldStopIsCurrent DEF AlreadyReleased, StopWithdrawn, Drop
<1>2. CASE ExtendUnwanted(c) \/ InspectionWithdrawn(c)
  <2>1. Cmd(c).kind # "terminate" /\ Leave(c, "cancelled")
    BY <1>2 DEF ExtendUnwanted, InspectionWithdrawn, InHand, Inspected, Replied, Drop
  <2> QED BY <1>0, <2>1, DropSteps
<1>3. CASE MarkStopping(c)
  <2> DEFINE row == [inst[Target(c)] EXCEPT !.observed = "stopping"]
  <2>1. inst' = [inst EXCEPT ![Target(c)] = row] BY <1>3 DEF MarkStopping
  <2>2. /\ row.active = inst[Target(c)].active /\ row.observed = "stopping"
        /\ row.server = inst[Target(c)].server /\ row.gen = inst[Target(c)].gen
        /\ row.desired = inst[Target(c)].desired
    BY <1>h DEF Row
  <2> HIDE DEF row
  <2>3. RowsKept /\ RowsMoved BY <1>h, <2>1, <2>2, OneRowWritten
  <2>4. CommandsKept /\ CommandsAdded BY <1>3, StatusesMoved DEF MarkStopping
  <2>5. HandStep
    <3>1. CASE ctl[c].snap.server = None
      BY <1>0, <1>3, <3>1, HandOnward DEF MarkStopping, StopIfPlaced, Phases
    <3>2. CASE ctl[c].snap.server # None
      <4>1. ctl[c].snap.server \in Servers BY <1>0, <3>2, ReplyTyped
      <4> QED BY <1>0, <1>3, <3>2, <4>1, HandSends DEF MarkStopping, StopIfPlaced
    <3> QED BY <3>1, <3>2
  <2> QED BY <2>3, <2>4, <2>5 DEF DbStep
<1>4. CASE FinishTermination(c)
  <2> DEFINE done == HoldsClaim(c) /\ RowIsCurrent(c) /\ inst[Target(c)].active
             row == [inst[Target(c)] EXCEPT
                        !.active = FALSE, !.desired = "stopped",
                        !.observed = IF ctl[c].snap.exp <= now \/ Cmd(c).overdue
                                     THEN "expired" ELSE "terminated",
                        !.obsGen = Cmd(c).gen]
  <2>1. /\ inst' = IF done THEN [inst EXCEPT ![Target(c)] = row] ELSE inst
        /\ cmds' = Close(c, IF done THEN "completed" ELSE "cancelled")
        /\ BackToLoop(c)
    BY <1>4 DEF FinishTermination
  <2>2. /\ row.active = FALSE /\ row.observed \in {"expired", "terminated"}
        /\ row.server = inst[Target(c)].server
    BY <1>h DEF Row
  <2> HIDE DEF row
  <2>3. CASE done
    <3>1. RowsKept /\ RowsMoved BY <1>h, <2>1, <2>2, <2>3, OneRowWritten
    <3>2. ~inst'[Target(c)].active BY <1>0, <1>h, <2>1, <2>2, <2>3
    <3> QED BY <1>0, <2>1, <2>3, <3>1, <3>2, CommitSteps
  <2>4. CASE ~done
    <3>1. RowsKept /\ RowsMoved BY <2>1, <2>4, RowsUnchanged
    <3>2. Cmd(c).kind = "terminate" /\ HoldsClaim(c) => ~inst'[Target(c)].active
      BY <1>0, <2>1, <2>4, HeldStopIsCurrent
    <3> QED BY <1>0, <2>1, <2>4, <3>1, <3>2, CommitSteps
  <2> QED BY <2>3, <2>4
<1>5. CASE SendExtend(c) \/ SendInspect(c)
  <2>1. ctl[c].snap.server \in Servers
    BY <1>5 DEF SendExtend, SendInspect, InHand, IInv, Base, HandsOK, Executing, PlacedKinds
  <2> QED BY <1>0, <1>5, <2>1, HandSends, DbUnchanged DEF SendExtend, SendInspect
<1>6. CASE FinishExtension(c)
  <2> DEFINE done == HoldsClaim(c) /\ RowIsCurrent(c) /\ inst[Target(c)].active
             row == [inst[Target(c)] EXCEPT !.exp = ctl[c].reply.exp, !.obsGen = Cmd(c).gen]
  <2>1. /\ inst' = IF done THEN [inst EXCEPT ![Target(c)] = row] ELSE inst
        /\ cmds' = Close(c, IF done THEN "completed" ELSE "cancelled")
        /\ BackToLoop(c) /\ Cmd(c).kind = "extend"
    BY <1>6 DEF FinishExtension, Replied
  <2>2. /\ row.active = inst[Target(c)].active /\ row.observed = inst[Target(c)].observed
        /\ row.server = inst[Target(c)].server /\ row.gen = inst[Target(c)].gen
        /\ row.desired = inst[Target(c)].desired
    BY <1>h DEF Row
  <2> HIDE DEF row, done
  <2>3. inst[Target(c)].server \in Servers BY <1>p, <2>1 DEF PlacedKinds
  <2>4. RowsKept /\ RowsMoved BY <1>h, <2>1, <2>2, <2>3, OneRowWritten, RowsUnchanged DEF Exists
  <2> QED BY <1>0, <2>1, <2>4, CommitSteps
<1>7. CASE InspectedAbsent(c)
  <2> DEFINE o == IF ctl[c].snap.exp <= now \/ ctl[c].snap.desired = "stopped" THEN "expired" ELSE "failed"
             row == [inst[Target(c)] EXCEPT !.active = FALSE, !.observed = o]
  <2>1. /\ inst' = [inst EXCEPT ![Target(c)] = row] /\ cmds' = Close(c, "completed")
        /\ BackToLoop(c) /\ Cmd(c).kind # "terminate"
    BY <1>7 DEF InspectedAbsent, Inspected, Replied
  <2>2. /\ row.active = FALSE /\ row.observed \in {"expired", "failed"}
        /\ row.server = inst[Target(c)].server
    BY <1>h DEF Row
  <2> HIDE DEF row
  <2>4. RowsKept /\ RowsMoved BY <1>h, <2>1, <2>2, OneRowWritten
  <2> QED BY <1>0, <2>1, <2>4, CommitSteps
<1>8. CASE InspectedReady(c)
  <2> DEFINE row == [inst[Target(c)] EXCEPT !.observed = "ready", !.obsGen = Cmd(c).gen]
  <2>1. /\ inst' = [inst EXCEPT ![Target(c)] = row] /\ cmds' = Close(c, "completed")
        /\ BackToLoop(c) /\ Cmd(c).kind \in {"inspect", "reconcile"}
    BY <1>8 DEF InspectedReady, Inspected, Replied
  <2>2. /\ row.active = inst[Target(c)].active /\ row.observed = "ready"
        /\ row.server = inst[Target(c)].server /\ row.gen = inst[Target(c)].gen
        /\ row.desired = inst[Target(c)].desired
    BY <1>h DEF Row
  <2> HIDE DEF row
  <2>3. inst[Target(c)].server \in Servers BY <1>p, <2>1 DEF PlacedKinds
  <2>4. RowsKept /\ RowsMoved BY <1>h, <2>1, <2>2, <2>3, OneRowWritten
  <2> QED BY <1>0, <2>1, <2>4, CommitSteps
<1>c. ASSUME NEW st \in {"completed", "failed"}, Cmd(c).kind # "terminate" \/ ~HoldsClaim(c)
      PROVE  /\ Close(c, st) \in Seq(Command) /\ DOMAIN Close(c, st) = DOMAIN cmds
             /\ \A k \in DOMAIN cmds :
                   /\ Kept(Close(c, st), k)
                   /\ \/ Close(c, st)[k].status = cmds[k].status
                      \/ /\ cmds[k].kind # "terminate"
                         /\ Close(c, st)[k].status \notin {"pending", "claimed"}
  BY <1>0, <1>h, <1>c, CloseTyped, CloseFacts DEF Cmd
<1>s. ASSUME NEW o \in Observed \ {"ready"}, NEW cs \in Seq(Command), DOMAIN cs = DOMAIN cmds,
             \A k \in DOMAIN cmds :
                /\ Kept(cs, k)
                /\ \/ cs[k].status = cmds[k].status
                   \/ cmds[k].kind # "terminate" /\ cs[k].status \notin {"pending", "claimed"},
             CreateTermination([inst EXCEPT ![Target(c)].observed = o], cs, Target(c), FALSE)
      PROVE  DbStep
  <2> DEFINE rows == [inst EXCEPT ![Target(c)].observed = o]
  <2>1. [inst[Target(c)] EXCEPT !.observed = o] \in Row BY <1>h, ObservedTyped
  <2>2. rows \in [Instances -> Row] BY <1>0, <2>1
  <2>3. /\ \A j \in Instances : j # Target(c) => rows[j] = inst[j]
        /\ rows[Target(c)] = [inst[Target(c)] EXCEPT !.observed = o]
    BY <1>0, <1>h
  <2>4. /\ rows[Target(c)].gen = inst[Target(c)].gen
        /\ rows[Target(c)].desired = inst[Target(c)].desired
        /\ rows[Target(c)].active = inst[Target(c)].active
        /\ rows[Target(c)].server = inst[Target(c)].server
        /\ rows[Target(c)].observed = o /\ o \notin {"none", "ready"}
    BY <1>h, <2>3 DEF Row, Observed
  <2>5. CreateTermination(rows, cs, Target(c), FALSE) BY <1>s
  <2> HIDE DEF rows
  <2> QED BY <1>h, <1>s, <2>2, <2>3, <2>4, <2>5, CreateSteps
<1>9. CASE InspectedNotReady(c)
  <2>1. /\ CreateTermination([inst EXCEPT ![Target(c)].observed = "cleanup_pending"],
                             Close(c, "completed"), Target(c), FALSE)
        /\ BackToLoop(c) /\ Cmd(c).kind # "terminate"
    BY <1>9 DEF InspectedNotReady, Inspected, Replied
  <2>2. DbStep BY <1>c, <1>s, <2>1 DEF Observed
  <2> QED BY <1>i, <2>1, <2>2, HandEmptied DEF BackToLoop
<1>10. CASE RetryLater(c)
  <2>1. ASSUME NEW k \in DOMAIN cmds
        PROVE  /\ cmds'[k].inst = cmds[k].inst /\ cmds'[k].kind = cmds[k].kind
               /\ cmds'[k].gen = cmds[k].gen
               /\ \/ cmds'[k].status = cmds[k].status
                  \/ IsOpen(k) /\ cmds'[k].status \in {"pending", "claimed"}
    <3>1. cmds[k] \in Command BY <1>0 DEF TypeOK
    <3>2. CASE HoldsClaim(c) /\ k = ctl[c].cmd
      BY <1>10, <3>1, <3>2 DEF RetryLater, HoldsClaim, Cmd, IsOpen, Command
    <3>3. CASE ~(HoldsClaim(c) /\ k = ctl[c].cmd) BY <1>10, <3>3 DEF RetryLater
    <3> QED BY <3>2, <3>3
  <2>2. DOMAIN cmds' = DOMAIN cmds BY <1>10 DEF RetryLater
  <2> QED BY <1>i, <1>10, <2>1, <2>2, StatusesMoved, RowsUnchanged, HandEmptied
          DEF RetryLater, BackToLoop, DbStep
<1>11. CASE GiveUp(c)
  <2> DEFINE touched == RowIsCurrent(c) /\ inst[Target(c)].active
             o == FailedState(Cmd(c).kind)
             rows == IF touched THEN [inst EXCEPT ![Target(c)].observed = o] ELSE inst
  <2>1. /\ IF touched /\ Cmd(c).kind = "start"
           THEN CreateTermination(rows, Close(c, "failed"), Target(c), FALSE)
           ELSE inst' = rows /\ cmds' = Close(c, "failed")
        /\ BackToLoop(c)
    BY <1>11 DEF GiveUp
  <2>2. /\ o \in Observed /\ (Cmd(c).kind = "start" => o = "cleanup_pending")
        /\ o = "ready" => Cmd(c).kind = "extend"
    BY <1>h DEF FailedState, Kinds, Observed
  <2>3. CASE touched /\ Cmd(c).kind = "start"
    <3>1. CreateTermination([inst EXCEPT ![Target(c)].observed = "cleanup_pending"],
                            Close(c, "failed"), Target(c), FALSE)
      BY <2>1, <2>2, <2>3
    <3>2. DbStep BY <1>c, <1>s, <2>3, <3>1 DEF Observed
    <3> QED BY <1>i, <2>1, <3>2, HandEmptied DEF BackToLoop
  <2>4. CASE ~(touched /\ Cmd(c).kind = "start")
    <3> DEFINE row == [inst[Target(c)] EXCEPT !.observed = o]
    <3>1. inst' = inst \/ inst' = [inst EXCEPT ![Target(c)] = row] BY <2>1, <2>4
    <3>2. /\ row.active = inst[Target(c)].active /\ row.observed = o
          /\ row.server = inst[Target(c)].server /\ row.gen = inst[Target(c)].gen
          /\ row.desired = inst[Target(c)].desired
      BY <1>h DEF Row
    <3> HIDE DEF row, o
    <3>3. o # "none" /\ (o = "ready" => inst[Target(c)].server \in Servers)
      BY <1>p, <2>2 DEF PlacedKinds, Observed
    <3>4. RowsKept /\ RowsMoved
      BY <1>h, <3>1, <3>2, <3>3, OneRowWritten, RowsUnchanged
    <3> QED BY <1>0, <2>1, <2>4, <3>4, CommitSteps
  <2> QED BY <2>3, <2>4
<1> QED BY <1>1, <1>2, <1>3, <1>4, <1>5, <1>6, <1>7, <1>8, <1>9, <1>10, <1>11

\* Time, faults and the hosts touch neither table.
LEMMA EnvironmentSteps ==
  ASSUME IInv, Environment PROVE DbStep /\ HandStep
<1>0. TypeOK BY DEF IInv, Base
<1>1. CASE Tick \/ LoseLease BY <1>1, DbUnchanged, HandUnchanged DEF Tick, LoseLease
<1>2. ASSUME NEW k \in DOMAIN cmds, BackoffElapses(k) \/ FailureAges(k) PROVE DbStep /\ HandStep
  <2>1. ASSUME NEW j \in DOMAIN cmds
        PROVE  /\ cmds'[j].inst = cmds[j].inst /\ cmds'[j].kind = cmds[j].kind
               /\ cmds'[j].gen = cmds[j].gen /\ cmds'[j].status = cmds[j].status
    <3>1. cmds[j] \in Command BY <1>0 DEF TypeOK
    <3>2. CASE j = k BY <1>2, <3>1, <3>2 DEF BackoffElapses, FailureAges, Command
    <3>3. CASE j # k BY <1>2, <3>3 DEF BackoffElapses, FailureAges
    <3> QED BY <3>2, <3>3
  <2>2. DOMAIN cmds' = DOMAIN cmds /\ inst' = inst /\ ctl' = ctl
    BY <1>2 DEF BackoffElapses, FailureAges
  <2> QED BY <2>1, <2>2, StatusesMoved, RowsUnchanged, HandUnchanged DEF DbStep
<1>3. ASSUME NEW c \in Controllers, RemoteTimeout(c) PROVE DbStep /\ HandStep
  BY <1>3, DbUnchanged, HandOnward DEF RemoteTimeout, Executing, Phases
<1>4. ASSUME NEW c \in Controllers, Crash(c) PROVE DbStep /\ HandStep
  <2>1. NoWork.pc \notin Executing BY DEF NoWork, Executing
  <2> QED BY <1>4, <2>1, DbUnchanged, HandEmptied DEF Crash
<1>5. ASSUME NEW s \in Servers, NEW i \in Instances, ExpireWorkload(s, i) \/ ContainerExits(s, i)
      PROVE  DbStep /\ HandStep
  BY <1>5, DbUnchanged, HandUnchanged DEF ExpireWorkload, ContainerExits
<1>6. ASSUME NEW r \in wire, ServeRequest(r) \/ StartupFails(r) \/ HelperDies(r)
     PROVE  DbStep /\ HandStep
  <2>1. PICK reply : Deliver(r, reply) BY <1>6 DEF ServeRequest, StartupFails, HelperDies
  <2>2. ASSUME NEW c \in Controllers
        PROVE  \/ ctl'[c] = ctl[c]
               \/ /\ ctl[c].pc = "await" /\ ctl'[c].cmd = ctl[c].cmd
                  /\ ctl'[c].snap = ctl[c].snap /\ ctl'[c].server = ctl[c].server
    <3>1. ctl[c] \in Session BY <1>0 DEF TypeOK
    <3>2. \/ ctl'[c] = ctl[c]
          \/ ctl[c].pc = "await" /\ ctl'[c] = [ctl[c] EXCEPT !.pc = "reply", !.reply = reply]
      BY <2>1 DEF Deliver
    <3> QED BY <3>1, <3>2 DEF Session
  <2>3. HandStep BY <2>2 DEF HandStep, IInv, Base, HandsOK, Executing
  <2> QED BY <1>6, <2>3, DbUnchanged DEF ServeRequest, StartupFails, HelperDies
<1> QED BY <1>1, <1>2, <1>3, <1>4, <1>5, <1>6 DEF Environment

\* The empty tables satisfy the invariant.
LEMMA InitHolds == Init => IInv
<1> SUFFICES ASSUME Init PROVE IInv OBVIOUS
<1>1. TypeOK
  <2>1. setting \in Policy /\ runtime \in [Challenges -> Policy] BY DEF Init, Policy
  <2>4. serverRow \in [Servers -> ServerRow]
    <3>1. [enabled : {TRUE}, capacity : Capacities] \subseteq ServerRow BY DEF ServerRow
    <3>2. serverRow \in [Servers -> [enabled : {TRUE}, capacity : Capacities]] BY DEF Init
    <3> QED BY <3>1, <3>2
  <2>2. inst \in [Instances -> Row] /\ ctl \in [Controllers -> Session]
        /\ host \in [Servers -> [Instances -> Workload]]
    BY NoneTyped DEF Init
  <2>3. counted \in [Controllers -> Counts] BY NoCountTyped DEF Init
  <2> QED BY <2>1, <2>2, <2>3, <2>4 DEF Init, TypeOK
<1>2. /\ \A i \in Instances : inst[i] = NoRow
      /\ \A c \in Controllers : ctl[c].pc = "down"
      /\ DOMAIN cmds = {}
  BY DEF Init, NoWork
<1>3. NoRow.active = FALSE /\ NoRow.server = None /\ NoRow.observed = "none" BY DEF NoRow
<1> QED BY <1>1, <1>2, <1>3, ConstantsAssumption
        DEF IInv, Base, HandsOK, PlacedOK, CommandsHaveRows, StopInHandOK,
            OpenTerminateIsCurrent, StopNeverForgotten, Executing

\* Every step preserves the invariant.
LEMMA StepHolds == IInv /\ [Next]_vars => IInv'
<1> SUFFICES ASSUME IInv, [Next]_vars PROVE IInv' OBVIOUS
<1>1. TypeOK' BY TypeStep DEF IInv
<1>2. CASE UNCHANGED vars
  BY <1>1, <1>2, DbUnchanged, HandUnchanged, StepsPreserve DEF vars, dbVars
<1>3. ASSUME NEW c \in Controllers, Controller(c) PROVE DbStep /\ HandStep
  BY <1>3, PassSteps, StartSteps, OtherSteps DEF Controller, Execute
<1> QED BY <1>1, <1>2, <1>3, ApiSteps, EnvironmentSteps, StepsPreserve DEF Next

\* The inductive invariant holds in every reachable state of the control plane,
\* whatever crashes, lost leases, timeouts and API calls happen.
THEOREM Invariance == Spec => []IInv
  BY InitHolds, StepHolds, PTL DEF Spec

\* Every table, session, request and workload keeps its type; in particular a
\* controller never sends a call to a server it does not have.
THEOREM TypeCorrect == Spec => []TypeOK
<1>1. IInv => TypeOK BY DEF IInv, Base
<1> QED BY <1>1, Invariance, PTL

\* For any number of users, instances, servers and controllers: an open terminate
\* command of an active instance carries the current generation and the instance is
\* marked for stopping, so cancel_stale_command never discards it.
THEOREM StopStaysCurrent == Spec => []OpenTerminateIsCurrent
<1>1. IInv => OpenTerminateIsCurrent BY DEF IInv
<1> QED BY <1>1, Invariance, PTL

\* For any number of users, instances, servers and controllers: an active instance
\* marked for stopping has a terminate command of its generation that is open or has
\* failed, so the safety retry of enqueue_policy_terminations still finds it.
THEOREM StopIsKept == Spec => []StopNeverForgotten
<1>1. IInv => StopNeverForgotten BY DEF IInv
<1> QED BY <1>1, Invariance, PTL

----------------------------------------------------------------------------
(* Slots: what the invariant says.                                         *)

\* kinds whose calls give a workload its generation and its deadline
Giving == {"start", "extend"}
GivingCalls == {"ensure-instance", "update-deadline"}

\* Commands are of their row: a row is started once, in its first generation, and a
\* stop is of a later one.
CommandsFit ==
    /\ \A k \in DOMAIN cmds :
          /\ cmds[k].gen <= inst[cmds[k].inst].gen
          /\ cmds[k].kind = "start" => cmds[k].gen = 1
          /\ cmds[k].kind = "terminate" => 2 <= cmds[k].gen
    /\ \A j, k \in DOMAIN cmds :
          cmds[j].kind = "start" /\ cmds[k].kind = "start" /\ cmds[j].inst = cmds[k].inst => j = k
    /\ \A i \in Instances : Exists(i) => 1 <= inst[i].gen

\* Of the controllers that once claimed a command one at most holds its claim.
TokensDiffer ==
    /\ \A k \in DOMAIN cmds : cmds[k].status = "claimed" => cmds[k].token = cmds[k].attempts
    /\ \A c \in Controllers : ctl[c].pc \in Executing =>
          /\ ctl[c].token <= Cmd(c).attempts
          /\ \A d \in Controllers : d # c /\ ctl[d].pc \in Executing /\ ctl[d].cmd = ctl[c].cmd
                => ctl[d].token # ctl[c].token

\* The command in hand is of the generation of the row that was loaded with it, and a
\* stop that goes on without a call found its row unplaced.
HandsFit ==
    \A c \in Controllers :
        /\ ctl[c].pc \in Executing \ {"loaded"} => Cmd(c).gen = ctl[c].snap.gen
        /\ ctl[c].pc = "gated" /\ Cmd(c).kind = "terminate" => ctl[c].snap.server = None

\* A stop, and a start that holds its claim, act on the server of the row they loaded.
TrustsRow(c) ==
    /\ ctl[c].pc \in {"loaded", "gated"}
    /\ Cmd(c).kind = "terminate" \/ (Cmd(c).kind = "start" /\ HoldsClaim(c))

\* The server a controller calls is the one the row names, and what it takes for
\* unplaced still is.
HandsPlaced ==
    \A c \in Controllers : ctl[c].pc \in Executing =>
        /\ ctl[c].snap.server \in Servers => inst[Target(c)].server = ctl[c].snap.server
        /\ ctl[c].pc \in {"await", "reply"} => inst[Target(c)].server = ctl[c].server
        /\ ctl[c].snap.server = None /\ TrustsRow(c) => inst[Target(c)].server = None

RequestedUnplaced == \A i \in Instances : inst[i].observed = "requested" => inst[i].server = None

SlotsFinite == \A s \in Servers : IsFiniteSet(PlacedOn(s))

\* A call says what its command says.
CallsFit ==
    \A r \in wire :
        /\ r.cmd \in DOMAIN cmds /\ cmds[r.cmd].inst = r.inst /\ cmds[r.cmd].gen = r.gen
        /\ r.op \in GivingCalls => cmds[r.cmd].kind \in Giving

\* A fenced identifier has no workload, and an absent one is no workload.
FencesHold ==
    \A s \in Servers, i \in Instances :
        /\ i \in tomb[s] => ~host[s][i].present
        /\ ~host[s][i].present => host[s][i] = NoWorkload

\* A workload that was seen is still there, of that generation or a later one, or
\* its identifier is fenced; the one that was stopped is fenced.
RepliesHold ==
    \A c \in Controllers : ctl[c].pc = "reply" =>
        LET i == Target(c)  s == ctl[c].server  r == ctl[c].reply IN
        /\ ctl[c].op = "stop-instance" /\ r.outcome = "absent" => i \in tomb[s]
        /\ r.outcome = "present" =>
              \/ i \in tomb[s]
              \/ host[s][i].present /\ r.gen <= host[s][i].gen

\* (generation, deadline) pairs of instance i that calls, workloads and replies carry
Given(i, g, e) ==
    \/ \E r \in wire : r.inst = i /\ r.op \in GivingCalls /\ r.gen = g /\ r.exp = e
    \/ \E s \in Servers : host[s][i].present /\ host[s][i].gen = g /\ host[s][i].deadline = e
    \/ \E c \in Controllers :
          /\ ctl[c].pc = "reply" /\ Target(c) = i /\ ctl[c].reply.outcome = "present"
          /\ ctl[c].reply.gen = g /\ ctl[c].reply.exp = e
\* and the ones of the row, now and when it was loaded
Loaded(i, g, e) ==
    \/ inst[i].gen = g /\ inst[i].desiredExp = e
    \/ \E c \in Controllers : /\ ctl[c].pc \in Executing /\ Target(c) = i
                              /\ ctl[c].snap.gen = g /\ ctl[c].snap.desiredExp = e
Known(i, g, e) == Given(i, g, e) \/ Loaded(i, g, e)

\* What is given was given by a command.
GivenByCommand ==
    \A i \in Instances, g, e \in Nat : Given(i, g, e) =>
        \E k \in DOMAIN cmds : cmds[k].inst = i /\ cmds[k].kind \in Giving /\ cmds[k].gen = g

\* A generation that was asked to stop is never given, nor confirmed.
StopsAhead ==
    \A i \in Instances :
        /\ inst[i].obsGen <= inst[i].gen
        /\ inst[i].active /\ inst[i].desired = "stopped" =>
              /\ inst[i].obsGen < inst[i].gen
              /\ \A k \in DOMAIN cmds :
                    cmds[k].inst = i /\ cmds[k].kind \in Giving => cmds[k].gen < inst[i].gen

\* A start that could still be finished is not of a stopped row's generation.
StartsSettled ==
    \A k \in DOMAIN cmds :
        LET row == inst[cmds[k].inst] IN
        IsOpen(k) /\ cmds[k].kind = "start" /\ ~row.active /\ row.desired = "stopped"
        => 2 <= row.gen

\* Later generations have later deadlines, and the row has the last.
DeadlinesGrow ==
    \A i \in Instances, g, e \in Nat : Known(i, g, e) =>
        /\ g <= inst[i].gen
        /\ \A h, f \in Nat : Known(i, h, f) /\ g <= h => e <= f

\* No host has had a workload of i yet.
NeverRan(i) ==
    \/ inst[i].server = None
    \/ /\ inst[i].server \in Servers
       /\ ~host[inst[i].server][i].present /\ i \notin tomb[inst[i].server]

\* The promised deadline is that of the workload at most, or of one still to come.
PromisesHold ==
    \A i \in Instances :
        /\ inst[i].desiredExp <= inst[i].maxExp
        /\ \A s \in Servers : host[s][i].present => inst[i].exp <= host[s][i].deadline
        /\ NeverRan(i) => \A g, e \in Nat : Known(i, g, e) => inst[i].exp <= e

Claims     == CommandsFit /\ TokensDiffer /\ HandsFit
Placements == HandsPlaced /\ RequestedUnplaced /\ OneHostPerInstance /\ SlotsFinite
Calls      == CallsFit /\ FencesHold /\ RepliesHold /\ GivenByCommand
Stops      == StopsAhead /\ StartsSettled /\ StoppedSlotIsDrained
Deadlines  == DeadlinesGrow /\ PromisesHold
SInv == IInv /\ Claims /\ Placements /\ Calls /\ Stops /\ Deadlines

----------------------------------------------------------------------------
(* What a step does *)

\* Table cs has the claims and attempts of cmds, or fewer claims.
ClaimsKept(cs) ==
    \A k \in DOMAIN cmds :
        /\ cs[k].attempts = cmds[k].attempts
        /\ cs[k].status = "claimed" => cmds[k].status = "claimed" /\ cs[k].token = cmds[k].token

\* Commands are claimed under a new attempt, and inserted one at a time: a start with
\* its row, an extension and a stop with the generation they made.
CommandsStep ==
    /\ \A k \in DOMAIN cmds :
          /\ cmds[k].attempts <= cmds'[k].attempts
          /\ cmds'[k].status = "claimed" =>
                \/ /\ cmds[k].status = "claimed" /\ cmds'[k].token = cmds[k].token
                   /\ cmds'[k].attempts = cmds[k].attempts
                \/ cmds'[k].token = cmds'[k].attempts /\ cmds[k].attempts < cmds'[k].attempts
    /\ \A k \in DOMAIN cmds' \ DOMAIN cmds :
          LET row == inst'[cmds'[k].inst] IN
          /\ cmds'[k].inst \in Instances /\ cmds'[k].status = "pending"
          /\ cmds'[k].gen <= row.gen
          /\ cmds'[k].kind = "start" => cmds'[k].gen = 1 /\ ~Exists(cmds'[k].inst)
          /\ cmds'[k].kind \in Giving => cmds'[k].gen = row.gen /\ row.desired = "running" /\ row.active
          /\ cmds'[k].kind = "terminate" => 2 <= cmds'[k].gen
    /\ \A j, k \in DOMAIN cmds' \ DOMAIN cmds : j = k

SameTerms(a, b)  == b.desiredExp = a.desiredExp /\ b.maxExp = a.maxExp
SameReport(a, b) == b.exp = a.exp /\ b.obsGen = a.obsGen
SameWish(a, b)   == b.active = a.active /\ b.desired = a.desired /\ b.gen = a.gen

\* ensure_instance
Inserted(i) ==
    LET b == inst'[i] IN
    /\ ~Exists(i)
    /\ b.active /\ b.desired = "running" /\ b.observed = "requested" /\ b.server = None
    /\ b.gen = 1 /\ b.obsGen = 0 /\ b.exp = b.desiredExp /\ b.desiredExp <= b.maxExp
\* Only observed_state is written.
Noted(i) ==
    LET a == inst[i]  b == inst'[i] IN
    /\ a.active /\ SameTerms(a, b) /\ SameReport(a, b) /\ SameWish(a, b) /\ b.server = a.server
    /\ b.observed \notin {"none", "requested"}
\* request_termination, create_termination_command
Asked(i) ==
    LET a == inst[i]  b == inst'[i] IN
    /\ a.active /\ b.active /\ SameTerms(a, b) /\ SameReport(a, b) /\ b.server = a.server
    /\ b.desired = "stopped" /\ b.gen = a.gen + 1
    /\ b.observed = a.observed \/ b.observed \notin {"none", "requested"}
\* extend_instance
Prolonged(i) ==
    LET a == inst[i]  b == inst'[i] IN
    /\ a.active /\ b.active /\ a.desired = "running" /\ b.desired = "running"
    /\ SameReport(a, b) /\ b.server = a.server /\ b.observed = a.observed /\ b.gen = a.gen + 1
    /\ a.desiredExp <= b.desiredExp /\ b.desiredExp <= b.maxExp
\* A placement commits, and its count left room on s.
FromCount(c, s) == PlacesOn(c, s) /\ StillHasRoom(c, s)

\* The transactions of a controller that holds its claim on a row that is current.
Placed(i, c) ==
    LET a == inst[i]  b == inst'[i] IN
    /\ ctl[c].pc = "gated" /\ ctl'[c].pc = "await" /\ Cmd(c).kind = "start"
    /\ a.active /\ SameTerms(a, b) /\ SameReport(a, b) /\ SameWish(a, b)
    /\ b.observed = "starting"
    /\ b.server = a.server \/ (ctl[c].snap.server = None /\ FromCount(c, b.server))
    /\ \A j \in Instances : j # i => inst'[j] = inst[j]
Confirmed(i, c) ==
    LET a == inst[i]  b == inst'[i]  r == ctl[c].reply IN
    /\ ctl[c].pc = "reply" /\ r.outcome = "present" /\ r.gen = Cmd(c).gen
    /\ Cmd(c).kind = "start" \/ (a.active /\ Cmd(c).kind \in PlacedKinds)
    /\ SameTerms(a, b) /\ SameWish(a, b)
    /\ b.server \in {a.server, ctl[c].server} /\ b.obsGen = a.gen
    /\ b.exp \in {a.exp, r.exp} /\ b.observed \in {a.observed, "ready"}
Freed(i, c) ==
    LET a == inst[i]  b == inst'[i] IN
    /\ a.active /\ ~b.active /\ SameTerms(a, b) /\ b.exp = a.exp
    /\ b.gen = a.gen /\ b.server = a.server /\ b.observed \notin {"none", "requested"}
    /\ b.obsGen \in {a.gen, a.obsGen}
    /\ \/ /\ Cmd(c).kind = "terminate"
          /\ \/ ctl[c].pc = "gated"
             \/ ctl[c].pc = "reply" /\ ctl[c].op = "stop-instance" /\ ctl[c].reply.outcome = "absent"
       \/ /\ Cmd(c).kind = "start" /\ a.observed = "requested"
          /\ cmds'[ctl[c].cmd].status \notin {"pending", "claimed"}
       \/ Cmd(c).kind \in PlacedKinds /\ b.desired = a.desired /\ b.obsGen = a.obsGen

RowMoves(i) ==
    \/ inst'[i] = inst[i]
    \/ Inserted(i) \/ Noted(i) \/ Asked(i) \/ Prolonged(i)
    \/ \E c \in Controllers :
          /\ ctl[c].pc \in Executing /\ Target(c) = i /\ HoldsClaim(c) /\ RowIsCurrent(c)
          /\ Placed(i, c) \/ Confirmed(i, c) \/ Freed(i, c)

\* The calls of the command kinds, and where they go.
CallFor(c, op, s) ==
    /\ ctl[c].pc \in Executing /\ s \in Servers
    /\ \/ /\ op = "ensure-instance" /\ Cmd(c).kind = "start" /\ ctl[c].pc = "gated"
          /\ inst'[Target(c)].server = s
       \/ op = "stop-instance" /\ ctl[c].pc = "reply" /\ s = ctl[c].server
       \/ /\ ctl[c].pc = "loaded" /\ Cmd(c).gen = ctl[c].snap.gen /\ s = ctl[c].snap.server
          /\ \/ op \in {"stop-instance", "inspect-instance"}
             \/ op = "update-deadline" /\ Cmd(c).kind = "extend"

\* A controller claims a command under a fresh attempt.
Claimed(c) ==
    /\ inst' = inst /\ ctl'[c].pc = "loaded" /\ \A d \in Controllers : d # c => ctl'[d] = ctl[d]
    /\ \E k \in DOMAIN cmds :
          /\ ctl'[c].cmd = k /\ ctl'[c].token = cmds[k].attempts + 1
          /\ cmds'[k].attempts = cmds[k].attempts + 1 /\ ctl'[c].snap = inst[cmds[k].inst]

\* What a controller has in hand after a step that serves no call.
HandMoves(c) ==
    \/ ctl'[c] = ctl[c]
    \/ ctl'[c].pc \notin Executing
    \/ /\ ctl[c].pc \in Executing /\ ctl'[c].cmd = ctl[c].cmd
       /\ ctl'[c].token = ctl[c].token /\ ctl'[c].snap = ctl[c].snap
       /\ \/ ctl'[c].pc = "retry" /\ ctl[c].pc # "loaded"
          \/ /\ ctl'[c].pc = "gated" /\ ctl[c].pc = "loaded" /\ Cmd(c).gen = ctl[c].snap.gen
             /\ Cmd(c).kind = "terminate" => ctl[c].snap.server = None
          \/ /\ ctl'[c].pc = "await" /\ CallFor(c, ctl'[c].op, ctl'[c].server)
    \/ Claimed(c)

\* The calls on the wire after such a step.
CallStep ==
    \A r \in wire' : r \in wire \/ \E c \in Controllers :
        /\ CallFor(c, r.op, r.server)
        /\ r.inst = Target(c) /\ r.gen = Cmd(c).gen /\ r.cmd = ctl[c].cmd
        /\ r.exp = ctl[c].snap.desiredExp

TableStep ==
    /\ CommandsStep
    /\ \A i \in Instances : RowMoves(i)
    /\ \A c \in Controllers : HandMoves(c)
    /\ CallStep
    /\ UNCHANGED hostVars

\* What a step does to the workload and the fence of an instance on a server, where g
\* and e are the generation and the deadline of a call that gives them.
HostMoves(s, i) ==
    LET a == host[s][i]  b == host'[s][i] IN
    \/ /\ b.present = a.present /\ b.gen = a.gen /\ b.deadline = a.deadline
       /\ b = a \/ a.present
       /\ i \in tomb'[s] <=> i \in tomb[s]
    \/ b = NoWorkload /\ i \in tomb'[s]
    \/ /\ i \notin tomb[s] /\ i \notin tomb'[s] /\ b.present
       /\ \E r \in wire : /\ r.inst = i /\ r.server = s /\ r.op \in GivingCalls
                          /\ b.gen = r.gen /\ b.deadline = r.exp
                          /\ a.present => a.gen <= r.gen

\* A controller gets the reply to the call it waits for.
HandAnswered(c) ==
    \/ ctl'[c] = ctl[c]
    \/ \E r \in wire :
          LET w == host'[r.server][r.inst]  reply == ctl'[c].reply IN
          /\ ctl[c].pc = "await" /\ ctl[c].op = r.op /\ ctl[c].cmd = r.cmd
          /\ ctl'[c].pc = "reply" /\ ctl'[c].cmd = ctl[c].cmd /\ ctl'[c].snap = ctl[c].snap
          /\ ctl'[c].token = ctl[c].token
          /\ ctl'[c].op = ctl[c].op /\ ctl'[c].server = ctl[c].server
          /\ reply.outcome = "present" => w.present /\ reply.gen = w.gen /\ reply.exp = w.deadline
          /\ reply.outcome = "absent" /\ r.op = "stop-instance" => r.inst \in tomb'[r.server]

HostStep ==
    /\ UNCHANGED dbVars /\ wire' \subseteq wire
    /\ \A s \in Servers, i \in Instances : HostMoves(s, i)
    /\ \A c \in Controllers : HandAnswered(c)

----------------------------------------------------------------------------
(* What follows from it for the tables *)

\* A controller that executes a command has its row, its types and its server.
LEMMA InHandFacts ==
  ASSUME IInv, NEW c \in Controllers, ctl[c].pc \in Executing
  PROVE  /\ ctl[c].cmd \in DOMAIN cmds /\ Cmd(c) \in Command /\ Target(c) \in Instances
         /\ Exists(Target(c)) /\ inst[Target(c)] \in Row
         /\ ctl[c] \in Session /\ ctl[c].snap \in Row
         /\ ctl[c].snap.server \in Servers \cup {None}
         /\ ctl[c].token \in Nat
         /\ Cmd(c).kind \in PlacedKinds => ctl[c].snap.server \in Servers
         /\ ctl[c].pc \in {"await", "reply"} => ctl[c].server \in Servers
<1>1. Base /\ TypeOK BY DEF IInv, Base
<1>2. /\ ctl[c].cmd \in DOMAIN cmds /\ Target(c) \in Instances /\ inst[Target(c)] \in Row
  BY <1>1, InHandTyped
<1>3. Cmd(c) \in Command BY <1>1, <1>2, CommandTyped DEF Cmd
<1>4. ctl[c] \in Session BY <1>1 DEF TypeOK
<1>5. ctl[c].snap \in Row /\ ctl[c].token \in Nat BY <1>4 DEF Session
<1>6. Exists(Target(c)) BY <1>2 DEF IInv, CommandsHaveRows, Target, Cmd
<1>7. ctl[c].snap.server \in Servers \cup {None} BY <1>5 DEF Row
<1> QED BY <1>1, <1>2, <1>3, <1>4, <1>5, <1>6, <1>7 DEF Base, HandsOK

\* A row has the fields of runtime_instances.
LEMMA RowTyped ==
  ASSUME TypeOK, NEW i \in Instances
  PROVE  /\ inst[i].server \in Servers \cup {None} /\ inst[i].active \in BOOLEAN
         /\ inst[i].desired \in {"running", "stopped"}
         /\ inst[i].gen \in Nat /\ inst[i].obsGen \in Nat
         /\ inst[i].desiredExp \in Nat /\ inst[i].maxExp \in Nat /\ inst[i].exp \in Nat
<1>1. inst[i] \in Row BY DEF TypeOK
<1> QED BY <1>1 DEF Row

\* Where a controller that holds its claim looks for the workload is where the row
\* says: its start loaded an unplaced row only if the row still is.
LEMMA StartsWhereRowSays ==
  ASSUME SInv, NEW c \in Controllers, Cmd(c).kind = "start", HoldsClaim(c), ctl[c].pc = "gated"
  PROVE  inst[Target(c)].server = ctl[c].snap.server
<1>1. ctl[c].snap.server \in Servers \cup {None} BY InHandFacts DEF SInv, Executing
<1> QED BY <1>1 DEF SInv, Placements, HandsPlaced, TrustsRow, Executing

\* A server once written stays, and an unplaced row is placed by a start that counted room.
LEMMA ServersStay ==
  ASSUME SInv, TableStep, NEW i \in Instances
  PROVE  /\ inst[i].server \in Servers => inst'[i].server = inst[i].server
         /\ inst'[i].server # inst[i].server =>
               \E c \in Controllers :
                  /\ ctl[c].pc = "gated" /\ Target(c) = i /\ HoldsClaim(c) /\ RowIsCurrent(c)
                  /\ Placed(i, c) /\ FromCount(c, inst'[i].server)
<1>1. CASE inst'[i] = inst[i] BY <1>1
<1>2. CASE Inserted(i)
  <2>1. inst[i].server \notin Servers
    BY <1>2 DEF Inserted, SInv, IInv, CommandsHaveRows
  <2>2. inst[i].server \in Servers \cup {None} BY RowTyped DEF SInv, IInv, Base
  <2> QED BY <1>2, <2>1, <2>2 DEF Inserted
<1>3. CASE Noted(i) \/ Asked(i) \/ Prolonged(i) BY <1>3 DEF Noted, Asked, Prolonged
<1>4. ASSUME NEW c \in Controllers, ctl[c].pc \in Executing, Target(c) = i, HoldsClaim(c),
             RowIsCurrent(c), Placed(i, c) \/ Confirmed(i, c) \/ Freed(i, c)
      PROVE  /\ inst[i].server \in Servers => inst'[i].server = inst[i].server
             /\ inst'[i].server # inst[i].server =>
                   /\ ctl[c].pc = "gated" /\ Placed(i, c) /\ FromCount(c, inst'[i].server)
  <2>1. CASE Freed(i, c) BY <2>1 DEF Freed
  <2>2. CASE Confirmed(i, c)
    <3>1. inst[i].server = ctl[c].server
      BY <1>4, <2>2 DEF Confirmed, SInv, Placements, HandsPlaced
    <3> QED BY <2>2, <3>1 DEF Confirmed
  <2>3. CASE Placed(i, c)
    <3>1. inst[i].server = ctl[c].snap.server
      BY <1>4, <2>3, StartsWhereRowSays DEF Placed
    <3>2. inst[i].server \in Servers \cup {None} BY RowTyped DEF SInv, IInv, Base
    <3> QED BY <2>3, <3>1, <3>2, ConstantsAssumption DEF Placed
  <2> QED BY <1>4, <2>1, <2>2, <2>3
<1> QED BY <1>1, <1>2, <1>3, <1>4 DEF TableStep, RowMoves

\* Generations and deadlines of a row only grow, and only together.
LEMMA RowsGrow ==
  ASSUME SInv, TableStep, NEW i \in Instances
  PROVE  \/ ~Exists(i) /\ Inserted(i)
         \/ inst'[i].gen = inst[i].gen /\ SameTerms(inst[i], inst'[i])
         \/ /\ Exists(i) /\ inst[i].active /\ inst'[i].active
            /\ inst'[i].gen = inst[i].gen + 1 /\ inst'[i].exp = inst[i].exp
            /\ inst[i].desiredExp <= inst'[i].desiredExp
            /\ \/ inst'[i].desiredExp = inst[i].desiredExp /\ inst'[i].maxExp = inst[i].maxExp
               \/ inst'[i].desiredExp <= inst'[i].maxExp
<1>1. CASE inst'[i] = inst[i] BY <1>1 DEF SameTerms
<1>2. CASE Inserted(i) BY <1>2 DEF Inserted
<1>3. CASE Noted(i) BY <1>3 DEF Noted, SameWish
<1>4. CASE Asked(i) \/ Prolonged(i)
  <2>1. Exists(i) /\ inst[i].desiredExp \in Nat
    BY <1>4, RowTyped DEF Asked, Prolonged, SInv, IInv, Base, CommandsHaveRows
  <2> QED BY <1>4, <2>1 DEF Asked, Prolonged, SameTerms, SameReport
<1>5. ASSUME NEW c \in Controllers, RowIsCurrent(c), Target(c) = i,
             Placed(i, c) \/ Confirmed(i, c) \/ Freed(i, c)
      PROVE  inst'[i].gen = inst[i].gen /\ SameTerms(inst[i], inst'[i])
  BY <1>5 DEF Placed, Confirmed, Freed, SameWish
<1> QED BY <1>1, <1>2, <1>3, <1>4, <1>5 DEF TableStep, RowMoves

\* What a controller has in hand after a step it had before, or it has just claimed it;
\* no step gives a claim back to a controller that lost it.
LEMMA HandsStay ==
  ASSUME SInv, TypeOK', DbStep, TableStep, NEW c \in Controllers, ctl'[c].pc \in Executing
  PROVE  \/ /\ ctl[c].pc \in Executing
            /\ ctl'[c].cmd = ctl[c].cmd /\ ctl'[c].token = ctl[c].token
            /\ ctl'[c].snap = ctl[c].snap
            /\ Target(c)' = Target(c)
            /\ cmds'[ctl'[c].cmd].kind = Cmd(c).kind /\ cmds'[ctl'[c].cmd].gen = Cmd(c).gen
            /\ HoldsClaim(c)' => HoldsClaim(c)
         \/ Claimed(c)
<1>1. CASE Claimed(c) BY <1>1
<1>2. CASE ~Claimed(c)
  <2>1. /\ ctl[c].pc \in Executing
        /\ ctl'[c].cmd = ctl[c].cmd /\ ctl'[c].token = ctl[c].token
        /\ ctl'[c].snap = ctl[c].snap
    BY <1>2 DEF TableStep, HandMoves, Claimed
  <2>2. ctl[c].cmd \in DOMAIN cmds /\ ctl[c].token \in Nat BY <2>1, InHandFacts DEF SInv
  <2>3. /\ cmds'[ctl[c].cmd].inst = Cmd(c).inst /\ cmds'[ctl[c].cmd].kind = Cmd(c).kind
        /\ cmds'[ctl[c].cmd].gen = Cmd(c).gen /\ ctl[c].cmd \in DOMAIN cmds'
    BY <2>2 DEF DbStep, CommandsKept, Cmd
  <2>4. cmds'[ctl[c].cmd].attempts \in Nat /\ Cmd(c).attempts \in Nat
    <3>1. cmds'[ctl[c].cmd] \in Command BY <2>3 DEF TypeOK
    <3>2. Cmd(c) \in Command BY <2>1, InHandFacts DEF SInv
    <3> QED BY <3>1, <3>2 DEF Command
  <2>5. ctl[c].token <= Cmd(c).attempts BY <2>1 DEF SInv, Claims, TokensDiffer
  <2>6. ASSUME cmds'[ctl[c].cmd].status = "claimed", cmds'[ctl[c].cmd].token = ctl[c].token
        PROVE  HoldsClaim(c)
    BY <2>2, <2>4, <2>5, <2>6 DEF TableStep, CommandsStep, Cmd, HoldsClaim
  <2> QED BY <2>1, <2>3, <2>6 DEF Cmd, Target, HoldsClaim
<1> QED BY <1>1, <1>2

\* A command of a table is kept by a step, and those a step inserts are new.
LEMMA FitStays ==
  ASSUME SInv, TypeOK', DbStep, TableStep PROVE CommandsFit'
<1>1. ASSUME NEW i \in Instances, Exists(i)
      PROVE  inst[i].gen <= inst'[i].gen
  <2>1. inst[i].gen \in Nat /\ inst'[i].gen \in Nat
    <3>1. inst'[i] \in Row BY DEF TypeOK
    <3> QED BY <3>1, RowTyped DEF SInv, IInv, Base, Row
  <2> QED BY <1>1, <2>1, RowsGrow
<1>2. ASSUME NEW k \in DOMAIN cmds'
      PROVE  /\ cmds'[k].gen <= inst'[cmds'[k].inst].gen
             /\ cmds'[k].kind = "start" => cmds'[k].gen = 1
             /\ cmds'[k].kind = "terminate" => 2 <= cmds'[k].gen
  <2>1. CASE k \notin DOMAIN cmds BY <2>1 DEF TableStep, CommandsStep
  <2>2. CASE k \in DOMAIN cmds
    <3>1. /\ cmds'[k].inst = cmds[k].inst /\ cmds'[k].kind = cmds[k].kind /\ cmds'[k].gen = cmds[k].gen
      BY <2>2 DEF DbStep, CommandsKept
    <3>2. cmds[k].inst \in Instances /\ Exists(cmds[k].inst) /\ cmds[k].gen \in Nat
      BY <2>2, CommandTyped DEF SInv, IInv, Base, CommandsHaveRows
    <3>3. inst[cmds[k].inst].gen \in Nat /\ inst'[cmds[k].inst].gen \in Nat
      <4>1. inst'[cmds[k].inst] \in Row BY <3>2 DEF TypeOK
      <4> QED BY <3>2, <4>1, RowTyped DEF SInv, IInv, Base, Row
    <3>4. cmds[k].gen <= inst[cmds[k].inst].gen BY <2>2 DEF SInv, Claims, CommandsFit
    <3>5. cmds[k].gen <= inst'[cmds[k].inst].gen BY <1>1, <3>2, <3>3, <3>4
    <3> QED BY <2>2, <3>1, <3>5 DEF SInv, Claims, CommandsFit
  <2> QED BY <2>1, <2>2
<1>3. ASSUME NEW j \in DOMAIN cmds', NEW k \in DOMAIN cmds', cmds'[j].kind = "start",
             cmds'[k].kind = "start", cmds'[j].inst = cmds'[k].inst
      PROVE  j = k
  <2>1. CASE j \in DOMAIN cmds /\ k \in DOMAIN cmds
    BY <1>3, <2>1 DEF DbStep, CommandsKept, SInv, Claims, CommandsFit
  <2>2. CASE j \notin DOMAIN cmds /\ k \notin DOMAIN cmds
    BY <2>2 DEF TableStep, CommandsStep
  <2>3. ASSUME NEW n \in DOMAIN cmds, NEW m \in DOMAIN cmds' \ DOMAIN cmds,
               cmds'[m].kind = "start", cmds'[n].inst = cmds'[m].inst
        PROVE  FALSE
    BY <2>3 DEF TableStep, CommandsStep, DbStep, CommandsKept, SInv, IInv, CommandsHaveRows
  <2> QED BY <1>3, <2>1, <2>2, <2>3
<1>4. ASSUME NEW i \in Instances, inst'[i].observed # "none" PROVE 1 <= inst'[i].gen
  <2>1. CASE Exists(i)
    <3>1. 1 <= inst[i].gen BY <2>1 DEF SInv, Claims, CommandsFit
    <3>2. inst[i].gen \in Nat /\ inst'[i].gen \in Nat
      <4>1. inst'[i] \in Row BY DEF TypeOK
      <4> QED BY <4>1, RowTyped DEF SInv, IInv, Base, Row
    <3> QED BY <1>1, <2>1, <3>1, <3>2
  <2>2. CASE ~Exists(i)
    <3>1. ~inst[i].active BY <2>2 DEF SInv, IInv, CommandsHaveRows
    <3>2. Inserted(i)
      <4>1. ASSUME NEW c \in Controllers, ctl[c].pc \in Executing PROVE Target(c) # i
        BY <2>2, <4>1, InHandFacts DEF SInv
      <4> QED BY <1>4, <2>2, <3>1, <4>1 DEF TableStep, RowMoves, Noted, Asked, Prolonged, Exists
    <3> QED BY <3>2 DEF Inserted
  <2> QED BY <2>1, <2>2
<1> QED BY <1>2, <1>3, <1>4 DEF CommandsFit, Exists

\* No two controllers hold the same claim.
LEMMA TokensStay ==
  ASSUME SInv, TypeOK', DbStep, TableStep PROVE TokensDiffer'
<1>1. ASSUME NEW k \in DOMAIN cmds', cmds'[k].status = "claimed"
      PROVE  cmds'[k].token = cmds'[k].attempts
  BY <1>1 DEF TableStep, CommandsStep, SInv, Claims, TokensDiffer
<1>t. ASSUME NEW k \in DOMAIN cmds
      PROVE  cmds[k].attempts \in Nat /\ cmds'[k].attempts \in Nat /\ cmds[k].attempts <= cmds'[k].attempts
  <2>1. cmds[k] \in Command BY DEF SInv, IInv, Base, TypeOK
  <2>2. cmds'[k] \in Command BY DEF DbStep, CommandsKept, TypeOK
  <2> QED BY <2>1, <2>2 DEF Command, TableStep, CommandsStep
<1>2. ASSUME NEW c \in Controllers, ctl'[c].pc \in Executing
      PROVE  ctl'[c].token <= cmds'[ctl'[c].cmd].attempts
  <2>1. CASE Claimed(c) BY <1>t, <2>1 DEF Claimed
  <2>2. CASE ~Claimed(c)
    <3>1. /\ ctl[c].pc \in Executing
          /\ ctl'[c].cmd = ctl[c].cmd /\ ctl'[c].token = ctl[c].token
      BY <1>2, <2>2, HandsStay
    <3>2. ctl[c].cmd \in DOMAIN cmds /\ ctl[c].token \in Nat BY <3>1, InHandFacts DEF SInv
    <3>3. ctl[c].token <= cmds[ctl[c].cmd].attempts
      BY <3>1 DEF SInv, Claims, TokensDiffer, Cmd
    <3> QED BY <1>t, <3>1, <3>2, <3>3
  <2> QED BY <2>1, <2>2
<1>3. ASSUME NEW c \in Controllers, NEW d \in Controllers, c # d, ctl'[c].pc \in Executing,
             ctl'[d].pc \in Executing, ctl'[c].cmd = ctl'[d].cmd, Claimed(c)
      PROVE  ctl'[c].token # ctl'[d].token
  <2>1. ctl'[d] = ctl[d] BY <1>3 DEF Claimed
  <2>2. ctl[d].cmd \in DOMAIN cmds /\ ctl[d].token \in Nat BY <1>3, <2>1, InHandFacts DEF SInv
  <2>3. ctl[d].token <= cmds[ctl[d].cmd].attempts
    BY <1>3, <2>1 DEF SInv, Claims, TokensDiffer, Cmd
  <2>4. ctl'[c].token = cmds[ctl[d].cmd].attempts + 1 BY <1>3, <2>1 DEF Claimed
  <2> QED BY <1>t, <2>1, <2>2, <2>3, <2>4
<1>4. ASSUME NEW c \in Controllers, NEW d \in Controllers, c # d, ctl'[c].pc \in Executing,
             ctl'[d].pc \in Executing, ctl'[c].cmd = ctl'[d].cmd, ~Claimed(c), ~Claimed(d)
      PROVE  ctl'[c].token # ctl'[d].token
  <2>1. /\ ctl[c].pc \in Executing /\ ctl[d].pc \in Executing
        /\ ctl'[c].cmd = ctl[c].cmd /\ ctl'[c].token = ctl[c].token
        /\ ctl'[d].cmd = ctl[d].cmd /\ ctl'[d].token = ctl[d].token
    BY <1>4, HandsStay
  <2> QED BY <1>4, <2>1 DEF SInv, Claims, TokensDiffer
<1> QED BY <1>1, <1>2, <1>3, <1>4 DEF TokensDiffer, Cmd

\* A controller goes on only with a command of the generation it loaded.
LEMMA HandsFitStays ==
  ASSUME SInv, TypeOK', DbStep, TableStep PROVE HandsFit'
<1>1. ASSUME NEW c \in Controllers, ctl'[c].pc \in Executing \ {"loaded"}
      PROVE  /\ cmds'[ctl'[c].cmd].gen = ctl'[c].snap.gen
             /\ ctl'[c].pc = "gated" /\ cmds'[ctl'[c].cmd].kind = "terminate"
                   => ctl'[c].snap.server = None
  <2>1. ~Claimed(c) BY <1>1 DEF Claimed
  <2>2. /\ ctl[c].pc \in Executing /\ ctl'[c].snap = ctl[c].snap
        /\ cmds'[ctl'[c].cmd].kind = Cmd(c).kind /\ cmds'[ctl'[c].cmd].gen = Cmd(c).gen
    BY <1>1, <2>1, HandsStay
  <2>3. /\ Cmd(c).gen = ctl[c].snap.gen
        /\ ctl'[c].pc = "gated" /\ Cmd(c).kind = "terminate" => ctl[c].snap.server = None
    <3>0. \/ ctl'[c] = ctl[c]
          \/ ctl'[c].pc = "retry" /\ ctl[c].pc # "loaded"
          \/ /\ ctl'[c].pc = "gated" /\ ctl[c].pc = "loaded" /\ Cmd(c).gen = ctl[c].snap.gen
             /\ Cmd(c).kind = "terminate" => ctl[c].snap.server = None
          \/ ctl'[c].pc = "await" /\ CallFor(c, ctl'[c].op, ctl'[c].server)
      BY <1>1, <2>1 DEF TableStep, HandMoves, Claimed
    <3>1. CASE ctl'[c] = ctl[c] BY <1>1, <3>1 DEF SInv, Claims, HandsFit
    <3>2. CASE ctl'[c].pc = "retry" /\ ctl[c].pc # "loaded"
      BY <2>2, <3>2 DEF SInv, Claims, HandsFit
    <3>3. CASE ctl'[c].pc = "await" /\ CallFor(c, ctl'[c].op, ctl'[c].server)
      BY <2>2, <3>3 DEF SInv, Claims, HandsFit, CallFor
    <3> QED BY <3>0, <3>1, <3>2, <3>3
  <2> QED BY <2>2, <2>3
<1> QED BY <1>1 DEF HandsFit, Cmd, Executing

\* Where a call goes is where its row says, before the step and after it.
LEMMA CallsGoHome ==
  ASSUME SInv, TableStep, NEW c \in Controllers, NEW op, NEW s, CallFor(c, op, s)
  PROVE  inst'[Target(c)].server = s /\ ctl[c].pc \in Executing /\ s \in Servers
<1>1. ctl[c].pc \in Executing /\ s \in Servers BY DEF CallFor
<1>2. Target(c) \in Instances BY <1>1, InHandFacts DEF SInv
<1>3. \/ inst'[Target(c)].server = s \/ inst[Target(c)].server = s
  BY <1>1 DEF CallFor, SInv, Placements, HandsPlaced
<1> QED BY <1>1, <1>2, <1>3, ServersStay

\* Two controllers cannot both be about to place an instance, and a stop is not
\* about to release it unplaced while a start of its generation places it.
LEMMA PlacerIsAlone ==
  ASSUME SInv, NEW c \in Controllers, TrustsRow(c), NEW d \in Controllers,
         ctl[d].pc = "gated", Target(d) = Target(c), HoldsClaim(d), RowIsCurrent(d),
         Cmd(d).kind = "start"
  PROVE  c = d
<1>1. /\ ctl[c].pc \in Executing /\ ctl[d].pc \in Executing
  BY DEF TrustsRow, Executing
<1>2. /\ ctl[c].cmd \in DOMAIN cmds /\ ctl[d].cmd \in DOMAIN cmds
      /\ Cmd(c) \in Command /\ Cmd(d) \in Command
  BY <1>1, InHandFacts DEF SInv
<1>3. CASE Cmd(c).kind = "terminate"
  <2>1. Cmd(d).gen = 1 /\ 2 <= Cmd(c).gen /\ Cmd(c).gen <= inst[Target(c)].gen
    BY <1>2, <1>3 DEF SInv, Claims, CommandsFit, Cmd, Target
  <2>2. inst[Target(c)].gen = 1 BY <2>1 DEF RowIsCurrent
  <2>3. Cmd(c).gen \in Nat BY <1>2 DEF Command
  <2> QED BY <2>1, <2>2, <2>3
<1>4. CASE Cmd(c).kind = "start" /\ HoldsClaim(c)
  <2>1. ctl[c].cmd = ctl[d].cmd
    BY <1>2, <1>4 DEF SInv, Claims, CommandsFit, Cmd, Target
  <2>2. ctl[c].token = ctl[d].token BY <1>4, <2>1 DEF HoldsClaim, Cmd
  <2> QED BY <1>1, <2>1, <2>2 DEF SInv, Claims, TokensDiffer
<1> QED BY <1>3, <1>4 DEF TrustsRow

\* A controller calls the server its row names (HandsPlaced).
LEMMA HandsPlacedStays ==
  ASSUME SInv, TypeOK', DbStep, TableStep PROVE HandsPlaced'
<1> SUFFICES ASSUME NEW c \in Controllers, ctl'[c].pc \in Executing
    PROVE  LET i == cmds'[ctl'[c].cmd].inst IN
           /\ ctl'[c].snap.server \in Servers => inst'[i].server = ctl'[c].snap.server
           /\ ctl'[c].pc \in {"await", "reply"} => inst'[i].server = ctl'[c].server
           /\ ctl'[c].snap.server = None /\ TrustsRow(c)' => inst'[i].server = None
  BY DEF HandsPlaced, Target, Cmd
<1>1. CASE Claimed(c)
  <2>1. PICK k \in DOMAIN cmds : ctl'[c].cmd = k /\ ctl'[c].snap = inst[cmds[k].inst]
    BY <1>1 DEF Claimed
  <2>2. cmds'[k].inst = cmds[k].inst BY DEF DbStep, CommandsKept
  <2> QED BY <1>1, <2>1, <2>2 DEF Claimed
<1>2. CASE ~Claimed(c)
  <2> DEFINE i == Target(c)
  <2>1. /\ ctl[c].pc \in Executing
        /\ ctl'[c].cmd = ctl[c].cmd /\ ctl'[c].token = ctl[c].token
        /\ ctl'[c].snap = ctl[c].snap
        /\ cmds'[ctl'[c].cmd].inst = i
        /\ cmds'[ctl'[c].cmd].kind = Cmd(c).kind
        /\ HoldsClaim(c)' => HoldsClaim(c)
    BY <1>2, HandsStay DEF Target, Cmd
  <2>2. i \in Instances /\ ctl[c].pc \in {"await", "reply"} => ctl[c].server \in Servers
    BY <2>1, InHandFacts DEF SInv
  <2>i. i \in Instances BY <2>1, InHandFacts DEF SInv
  <2>3. ctl[c].snap.server \in Servers => inst'[i].server = ctl[c].snap.server
    BY <2>1, <2>i, ServersStay DEF SInv, Placements, HandsPlaced
  <2>4. ctl'[c].pc \in {"await", "reply"} => inst'[i].server = ctl'[c].server
    <3>1. CASE ctl'[c] = ctl[c]
      BY <2>1, <2>2, <2>i, <3>1, ServersStay DEF SInv, Placements, HandsPlaced
    <3>2. CASE ctl'[c].pc = "await" /\ CallFor(c, ctl'[c].op, ctl'[c].server)
      BY <3>2, CallsGoHome
    <3> QED BY <1>2, <2>1, <3>1, <3>2 DEF TableStep, HandMoves, Executing
  <2>5. ASSUME ctl'[c].snap.server = None, TrustsRow(c)' PROVE inst'[i].server = None
    <3>1. ctl'[c].pc \in {"loaded", "gated"}
          /\ (Cmd(c).kind = "terminate" \/ (Cmd(c).kind = "start" /\ HoldsClaim(c)))
      BY <2>1, <2>5 DEF TrustsRow, Cmd
    <3>2. ctl[c].pc \in {"loaded", "gated"}
      BY <1>2, <3>1 DEF TableStep, HandMoves, Executing
    <3>3. TrustsRow(c) BY <3>1, <3>2 DEF TrustsRow
    <3>4. inst[i].server = None BY <2>1, <2>5, <3>3 DEF SInv, Placements, HandsPlaced
    <3>5. ASSUME inst'[i].server # None PROVE FALSE
      <4>1. PICK d \in Controllers : /\ ctl[d].pc = "gated" /\ Target(d) = i /\ HoldsClaim(d)
                                     /\ RowIsCurrent(d) /\ Placed(i, d)
        BY <2>i, <3>4, <3>5, ServersStay
      <4>2. c = d BY <3>3, <4>1, PlacerIsAlone DEF Placed
      <4> QED BY <3>1, <4>1, <4>2 DEF Placed
    <3> QED BY <3>5
  <2> QED BY <2>1, <2>3, <2>4, <2>5
<1> QED BY <1>1, <1>2

\* A requested row is not placed, and every workload and call is where its row says.
LEMMA RowsSayWhere ==
  ASSUME SInv, TypeOK', DbStep, TableStep PROVE RequestedUnplaced' /\ OneHostPerInstance'
<1>1. ASSUME NEW i \in Instances, inst'[i].observed = "requested" PROVE inst'[i].server = None
  <2>1. CASE inst'[i] = inst[i] \/ Inserted(i) \/ Noted(i) \/ Asked(i) \/ Prolonged(i)
    BY <1>1, <2>1 DEF Inserted, Noted, Asked, Prolonged, SInv, Placements, RequestedUnplaced
  <2>2. ASSUME NEW c \in Controllers, ctl[c].pc \in Executing, Target(c) = i, Confirmed(i, c)
        PROVE  FALSE
    <3>1. inst[i].server = ctl[c].server /\ ctl[c].server \in Servers
      BY <2>2, InHandFacts DEF Confirmed, SInv, Placements, HandsPlaced
    <3>2. inst[i].observed = "requested" BY <1>1, <2>2 DEF Confirmed
    <3> QED BY <3>1, <3>2, ConstantsAssumption DEF SInv, Placements, RequestedUnplaced
  <2> QED BY <1>1, <2>1, <2>2 DEF TableStep, RowMoves, Placed, Freed
<1>2. ASSUME NEW s \in Servers, NEW i \in Instances, host'[s][i].present PROVE inst'[i].server = s
  BY <1>2, ServersStay DEF TableStep, hostVars, SInv, Placements, OneHostPerInstance
<1>3. ASSUME NEW r \in wire' PROVE inst'[r.inst].server = r.server
  <2>1. CASE r \in wire
    <3>1. r.server \in Servers /\ r.inst \in Instances
      BY <2>1 DEF SInv, IInv, Base, TypeOK, Request
    <3> QED BY <2>1, <3>1, ServersStay DEF SInv, Placements, OneHostPerInstance
  <2>2. CASE r \notin wire BY <2>2, CallsGoHome DEF TableStep, CallStep
  <2> QED BY <2>1, <2>2
<1> QED BY <1>1, <1>2, <1>3 DEF RequestedUnplaced, OneHostPerInstance

\* A server takes one instance at a time, from a placement that counted room on it:
\* nothing else gives a row a server or a slot.
LEMMA OneMorePlaced ==
  ASSUME SInv, TableStep, NEW s \in Servers
  PROVE  \/ PlacedOn(s)' \subseteq PlacedOn(s)
         \/ /\ \E c \in Controllers : FromCount(c, s)
            /\ \E i : PlacedOn(s)' \subseteq PlacedOn(s) \cup {i}
<1>1. ASSUME NEW i \in Instances, inst'[i].active, ~inst[i].active PROVE inst'[i].server \notin Servers
  <2>1. Inserted(i)
    BY <1>1 DEF TableStep, RowMoves, Noted, Asked, Prolonged, Placed, Confirmed, Freed, SameWish
  <2> QED BY <2>1, ConstantsAssumption DEF Inserted
<1>2. CASE \A i \in Instances : inst'[i].server = s => inst[i].server = s
  BY <1>1, <1>2 DEF PlacedOn
<1>3. ASSUME NEW i \in Instances, inst'[i].server = s, inst[i].server # s
      PROVE  /\ \E c \in Controllers : FromCount(c, s)
             /\ PlacedOn(s)' \subseteq PlacedOn(s) \cup {i}
  <2>1. PICK c \in Controllers : Placed(i, c) /\ FromCount(c, inst'[i].server)
    BY <1>3, ServersStay
  <2>2. PlacedOn(s)' \subseteq PlacedOn(s) \cup {i} BY <2>1 DEF PlacedOn, Placed
  <2> QED BY <1>3, <2>1, <2>2
<1> QED BY <1>2, <1>3

\* Every server holds finitely many slots.
LEMMA SlotsStay ==
  ASSUME SInv, TableStep PROVE SlotsFinite'
<1> SUFFICES ASSUME NEW s \in Servers PROVE IsFiniteSet(PlacedOn(s)')
  BY DEF SlotsFinite, PlacedOn
<1>1. PICK i : PlacedOn(s)' \subseteq PlacedOn(s) \cup {i} BY OneMorePlaced
<1>2. IsFiniteSet(PlacedOn(s) \cup {i})
  BY FS_AddElement DEF SInv, Placements, SlotsFinite
<1> QED BY <1>1, <1>2, FS_Subset

\* A call that gives a generation and a deadline gives those of the row that was loaded.
LEMMA CallsGiveLoaded ==
  ASSUME SInv, NEW c \in Controllers, NEW op \in GivingCalls, NEW s, CallFor(c, op, s)
  PROVE  /\ ctl[c].pc \in Executing /\ Cmd(c).kind \in Giving
         /\ Cmd(c).gen = ctl[c].snap.gen
<1>1. ctl[c].pc \in Executing BY DEF CallFor
<1>2. Cmd(c).kind \in Giving BY DEF CallFor, GivingCalls, Giving
<1>3. Cmd(c).gen = ctl[c].snap.gen
  BY <1>1 DEF CallFor, SInv, Claims, HandsFit, GivingCalls
<1> QED BY <1>1, <1>2, <1>3

\* What the calls, the workloads and the replies carry after a step on the tables was
\* carried before, or is of a row that was loaded for a call.
LEMMA GivenByTableStep ==
  ASSUME SInv, TypeOK', DbStep, TableStep, NEW i \in Instances, NEW g, NEW e, Given(i, g, e)'
  PROVE  \/ Given(i, g, e)
         \/ \E c \in Controllers :
               /\ ctl[c].pc \in Executing /\ Target(c) = i /\ Cmd(c).kind \in Giving
               /\ Cmd(c).gen = g /\ ctl[c].snap.gen = g /\ ctl[c].snap.desiredExp = e
<1>1. CASE \E r \in wire' : r.inst = i /\ r.op \in GivingCalls /\ r.gen = g /\ r.exp = e
  <2>1. PICK r \in wire' : r.inst = i /\ r.op \in GivingCalls /\ r.gen = g /\ r.exp = e
    BY <1>1
  <2>2. CASE r \in wire BY <2>1, <2>2 DEF Given
  <2>3. CASE r \notin wire
    <3>1. PICK c \in Controllers :
            /\ CallFor(c, r.op, r.server) /\ r.inst = Target(c) /\ r.gen = Cmd(c).gen
            /\ r.exp = ctl[c].snap.desiredExp
      BY <2>3 DEF TableStep, CallStep
    <3>2. /\ ctl[c].pc \in Executing /\ Cmd(c).kind \in Giving /\ Cmd(c).gen = ctl[c].snap.gen
      BY <2>1, <3>1, CallsGiveLoaded
    <3> QED BY <2>1, <3>1, <3>2
  <2> QED BY <2>2, <2>3
<1>2. CASE \E s \in Servers : host'[s][i].present /\ host'[s][i].gen = g /\ host'[s][i].deadline = e
  BY <1>2 DEF TableStep, hostVars, Given
<1>3. ASSUME NEW c \in Controllers, ctl'[c].pc = "reply", cmds'[ctl'[c].cmd].inst = i,
             ctl'[c].reply.outcome = "present", ctl'[c].reply.gen = g, ctl'[c].reply.exp = e
      PROVE  Given(i, g, e)
  <2>1. ctl'[c] = ctl[c] BY <1>3 DEF TableStep, HandMoves, Claimed, Executing
  <2>2. ctl[c].cmd \in DOMAIN cmds BY <1>3, <2>1, InHandFacts DEF SInv, Executing
  <2>3. Target(c) = i BY <1>3, <2>1, <2>2 DEF Target, Cmd, DbStep, CommandsKept
  <2> QED BY <1>3, <2>1, <2>3 DEF Given
<1> QED BY <1>1, <1>2, <1>3 DEF Given, Target, Cmd

\* Calls say what their commands say, and nothing happens on the hosts.
LEMMA CallsStay ==
  ASSUME SInv, TypeOK', DbStep, TableStep PROVE Calls'
<1>1. ASSUME NEW r \in wire'
      PROVE  /\ r.cmd \in DOMAIN cmds' /\ cmds'[r.cmd].inst = r.inst /\ cmds'[r.cmd].gen = r.gen
             /\ r.op \in GivingCalls => cmds'[r.cmd].kind \in Giving
  <2>1. /\ r.cmd \in DOMAIN cmds /\ cmds[r.cmd].inst = r.inst /\ cmds[r.cmd].gen = r.gen
        /\ r.op \in GivingCalls => cmds[r.cmd].kind \in Giving
    <3>1. CASE r \in wire BY <3>1 DEF SInv, Calls, CallsFit
    <3>2. CASE r \notin wire
      <4>1. PICK c \in Controllers : /\ CallFor(c, r.op, r.server) /\ r.inst = Target(c)
                                     /\ r.gen = Cmd(c).gen /\ r.cmd = ctl[c].cmd
        BY <3>2 DEF TableStep, CallStep
      <4>2. ctl[c].cmd \in DOMAIN cmds BY <4>1, InHandFacts DEF CallFor, SInv
      <4> QED BY <4>1, <4>2, CallsGiveLoaded DEF Target, Cmd
    <3> QED BY <3>1, <3>2
  <2> QED BY <2>1 DEF DbStep, CommandsKept
<1>2. FencesHold' BY DEF SInv, Calls, FencesHold, TableStep, hostVars
<1>3. RepliesHold'
  <2> SUFFICES ASSUME NEW c \in Controllers, ctl'[c].pc = "reply"
      PROVE  LET i == cmds'[ctl'[c].cmd].inst  s == ctl'[c].server  r == ctl'[c].reply IN
             /\ ctl'[c].op = "stop-instance" /\ r.outcome = "absent" => i \in tomb'[s]
             /\ r.outcome = "present" =>
                   i \in tomb'[s] \/ (host'[s][i].present /\ r.gen <= host'[s][i].gen)
    BY DEF RepliesHold, Target, Cmd
  <2>1. ctl'[c] = ctl[c] BY DEF TableStep, HandMoves, Claimed, Executing
  <2>2. ctl[c].cmd \in DOMAIN cmds BY <2>1, InHandFacts DEF SInv, Executing
  <2>3. cmds'[ctl[c].cmd].inst = Target(c) BY <2>2 DEF Target, Cmd, DbStep, CommandsKept
  <2>4. host' = host /\ tomb' = tomb BY DEF TableStep, hostVars
  <2> QED BY <2>1, <2>3, <2>4 DEF SInv, Calls, RepliesHold
<1>4. GivenByCommand'
  <2> SUFFICES ASSUME NEW i \in Instances, NEW g \in Nat, NEW e \in Nat, Given(i, g, e)'
      PROVE  \E k \in DOMAIN cmds' :
                cmds'[k].inst = i /\ cmds'[k].kind \in Giving /\ cmds'[k].gen = g
    BY DEF GivenByCommand
  <2>1. \E k \in DOMAIN cmds : cmds[k].inst = i /\ cmds[k].kind \in Giving /\ cmds[k].gen = g
    <3>1. CASE Given(i, g, e) BY <3>1 DEF SInv, Calls, GivenByCommand
    <3>2. CASE \E c \in Controllers : /\ ctl[c].pc \in Executing /\ Target(c) = i
                                      /\ Cmd(c).kind \in Giving /\ Cmd(c).gen = g
      BY <3>2, InHandFacts DEF SInv, Target, Cmd
    <3> QED BY <3>1, <3>2, GivenByTableStep
  <2> QED BY <2>1 DEF DbStep, CommandsKept
<1> QED BY <1>1, <1>2, <1>3, <1>4 DEF Calls, CallsFit

\* A controller that confirms a row saw a workload of the generation of the row, and
\* that generation was never asked to stop.
LEMMA ConfirmedUnasked ==
  ASSUME SInv, NEW i \in Instances, NEW c \in Controllers, ctl[c].pc \in Executing,
         Target(c) = i, RowIsCurrent(c), Confirmed(i, c)
  PROVE  ~(inst[i].active /\ inst[i].desired = "stopped")
<1>1. ctl[c].cmd \in DOMAIN cmds /\ Cmd(c) \in Command BY InHandFacts DEF SInv
<1>2. Given(i, Cmd(c).gen, ctl[c].reply.exp) BY DEF Confirmed, Given
<1>3. ctl[c].reply.exp \in Nat BY ReplyTyped DEF SInv, IInv, Base
<1>4. Cmd(c).gen \in Nat BY <1>1 DEF Command
<1>5. PICK k \in DOMAIN cmds : cmds[k].inst = i /\ cmds[k].kind \in Giving /\ cmds[k].gen = Cmd(c).gen
  BY <1>2, <1>3, <1>4 DEF SInv, Calls, GivenByCommand
<1>6. cmds[k].gen = inst[i].gen BY <1>5 DEF RowIsCurrent
<1>7. inst[i].gen \in Nat BY RowTyped DEF SInv, IInv, Base
<1> QED BY <1>5, <1>6, <1>7 DEF SInv, Stops, StopsAhead

\* A row that was stopped and released is not confirmed: its generation is a later one
\* than that of a start that can still be finished.
LEMMA StoppedUnconfirmed ==
  ASSUME SInv, NEW i \in Instances, NEW c \in Controllers, ctl[c].pc \in Executing,
         Target(c) = i, HoldsClaim(c), RowIsCurrent(c), Confirmed(i, c)
  PROVE  ~(~inst[i].active /\ inst[i].desired = "stopped")
<1> SUFFICES ASSUME ~inst[i].active, inst[i].desired = "stopped" PROVE FALSE OBVIOUS
<1>1. ctl[c].cmd \in DOMAIN cmds /\ Cmd(c).kind = "start" BY InHandFacts DEF Confirmed, SInv
<1>2. 2 <= inst[i].gen
  BY <1>1 DEF HoldsClaim, IsOpen, SInv, Stops, StartsSettled, Cmd, Target
<1>3. Cmd(c).gen = 1 BY <1>1 DEF SInv, Claims, CommandsFit, Cmd
<1> QED BY <1>2, <1>3 DEF RowIsCurrent

\* No step gives, or confirms, a generation that was asked to stop.
LEMMA StopsStayAhead ==
  ASSUME SInv, TypeOK', DbStep, TableStep PROVE StopsAhead'
<1> SUFFICES ASSUME NEW i \in Instances
    PROVE  /\ inst'[i].obsGen <= inst'[i].gen
           /\ inst'[i].active /\ inst'[i].desired = "stopped" =>
                 /\ inst'[i].obsGen < inst'[i].gen
                 /\ \A k \in DOMAIN cmds' :
                       cmds'[k].inst = i /\ cmds'[k].kind \in Giving => cmds'[k].gen < inst'[i].gen
  BY DEF StopsAhead
<1>0. inst[i].gen \in Nat /\ inst[i].obsGen \in Nat /\ inst[i].obsGen <= inst[i].gen
  BY RowTyped DEF SInv, IInv, Base, Stops, StopsAhead
<1>k. ASSUME NEW k \in DOMAIN cmds', cmds'[k].inst = i, cmds'[k].kind \in Giving,
             inst'[i].desired = "stopped"
      PROVE  /\ k \in DOMAIN cmds /\ cmds[k].inst = i /\ cmds[k].kind \in Giving
             /\ cmds'[k].gen = cmds[k].gen /\ cmds[k].gen \in Nat /\ cmds[k].gen <= inst[i].gen
  <2>1. k \in DOMAIN cmds BY <1>k DEF TableStep, CommandsStep
  <2>2. cmds[k].inst = i /\ cmds[k].kind \in Giving /\ cmds'[k].gen = cmds[k].gen
    BY <1>k, <2>1 DEF DbStep, CommandsKept
  <2>3. cmds[k].gen \in Nat BY <2>1, CommandTyped DEF SInv, IInv, Base
  <2>4. cmds[k].gen <= inst[i].gen BY <2>1, <2>2 DEF SInv, Claims, CommandsFit
  <2> QED BY <2>1, <2>2, <2>3, <2>4
<1>1. CASE /\ inst'[i].gen = inst[i].gen /\ inst'[i].obsGen = inst[i].obsGen
           /\ inst'[i].active => inst[i].active /\ inst'[i].desired = inst[i].desired
  BY <1>0, <1>1, <1>k DEF SInv, Stops, StopsAhead
<1>2. CASE Inserted(i) BY <1>2 DEF Inserted
<1>3. CASE Asked(i) \/ Prolonged(i)
  BY <1>0, <1>3, <1>k DEF Asked, Prolonged, SameReport
<1>4. ASSUME NEW c \in Controllers, ctl[c].pc \in Executing, Target(c) = i, RowIsCurrent(c),
             Confirmed(i, c)
      PROVE  /\ inst'[i].obsGen <= inst'[i].gen
             /\ ~(inst'[i].active /\ inst'[i].desired = "stopped")
  <2>1. ~(inst[i].active /\ inst[i].desired = "stopped") BY <1>4, ConfirmedUnasked
  <2> QED BY <1>0, <1>4, <2>1 DEF Confirmed, SameWish
<1>5. ASSUME NEW c \in Controllers, Freed(i, c)
      PROVE  inst'[i].obsGen <= inst'[i].gen /\ ~inst'[i].active
  BY <1>0, <1>5 DEF Freed
<1>6. CASE inst'[i] = inst[i] \/ Noted(i) \/ \E c \in Controllers : Placed(i, c)
  BY <1>1, <1>6 DEF Noted, Placed, SameReport, SameWish
<1> QED BY <1>2, <1>3, <1>4, <1>5, <1>6 DEF TableStep, RowMoves

\* A row that lost its slot to an inspection before its stop was carried out is not of
\* its first generation.
LEMMA StopIsLater ==
  ASSUME SInv, NEW i \in Instances, inst[i].active, inst[i].desired = "stopped"
  PROVE  2 <= inst[i].gen
<1>1. PICK k \in DOMAIN cmds : cmds[k].kind = "terminate" /\ cmds[k].gen = inst[i].gen
  BY DEF SInv, IInv, StopNeverForgotten
<1> QED BY <1>1 DEF SInv, Claims, CommandsFit

\* A start that is still open is not of the generation of a row that was stopped.
LEMMA StartsStaySettled ==
  ASSUME SInv, TypeOK', DbStep, TableStep PROVE StartsSettled'
<1> SUFFICES ASSUME NEW k \in DOMAIN cmds', IsOpen(k)', cmds'[k].kind = "start",
                    ~inst'[cmds'[k].inst].active, inst'[cmds'[k].inst].desired = "stopped"
    PROVE  2 <= inst'[cmds'[k].inst].gen
  BY DEF StartsSettled
<1> DEFINE i == cmds'[k].inst
<1>0. k \in DOMAIN cmds BY DEF TableStep, CommandsStep, Giving
<1>1. IsOpen(k) /\ cmds[k].kind = "start" /\ cmds[k].inst = i BY <1>0 DEF DbStep, CommandsKept
<1>2. i \in Instances BY <1>0, <1>1, CommandTyped DEF SInv, IInv, Base
<1>3. CASE /\ inst'[i].active = inst[i].active /\ inst'[i].desired = inst[i].desired
           /\ inst'[i].gen = inst[i].gen
  BY <1>0, <1>1, <1>3 DEF SInv, Stops, StartsSettled
<1>4. ASSUME NEW c \in Controllers, ctl[c].pc \in Executing, Target(c) = i, RowIsCurrent(c), Freed(i, c)
      PROVE  2 <= inst'[i].gen
  <2>1. ctl[c].cmd \in DOMAIN cmds /\ inst'[i].gen = inst[i].gen /\ inst[i].active
    BY <1>4, InHandFacts DEF Freed, SInv
  <2>2. CASE Cmd(c).kind = "terminate"
    BY <1>4, <2>1, <2>2 DEF RowIsCurrent, SInv, Claims, CommandsFit, Cmd
  <2>3. CASE Cmd(c).kind = "start" /\ cmds'[ctl[c].cmd].status \notin {"pending", "claimed"}
    <3>1. k = ctl[c].cmd BY <1>0, <1>1, <1>4, <2>1, <2>3 DEF SInv, Claims, CommandsFit, Cmd, Target
    <3> QED BY <2>3, <3>1 DEF IsOpen
  <2>4. CASE inst'[i].desired = inst[i].desired BY <1>2, <2>1, <2>4, StopIsLater
  <2> QED BY <1>4, <2>2, <2>3, <2>4 DEF Freed
<1> QED BY <1>2, <1>3, <1>4 DEF TableStep, RowMoves, Inserted, Noted, Asked, Prolonged, Placed,
                             Confirmed, SameWish

\* Once a stop released a row, nothing writes it.
LEMMA StoppedRowStays ==
  ASSUME SInv, TableStep, NEW i \in Instances, ReleasedByStop(i) PROVE inst'[i] = inst[i]
<1>1. Exists(i) /\ ~inst[i].active /\ inst[i].desired = "stopped" BY DEF ReleasedByStop
<1>2. ASSUME NEW c \in Controllers, ctl[c].pc \in Executing, Target(c) = i, HoldsClaim(c),
             RowIsCurrent(c)
      PROVE  ~Confirmed(i, c)
  BY <1>1, <1>2, StoppedUnconfirmed
<1> QED BY <1>1, <1>2 DEF TableStep, RowMoves, Inserted, Noted, Asked, Prolonged, Placed, Freed

\* A slot that a stop releases is drained: the stop found the row unplaced, or fenced
\* the identifier on the server the row names.
LEMMA DrainedStays ==
  ASSUME SInv, TypeOK', DbStep, TableStep PROVE StoppedSlotIsDrained'
<1> SUFFICES ASSUME NEW i \in Instances, ReleasedByStop(i)'
    PROVE  /\ \A s \in Servers : ~host'[s][i].present
           /\ inst'[i].server # None => i \in tomb'[inst'[i].server]
  BY DEF StoppedSlotIsDrained
<1>0. host' = host /\ tomb' = tomb BY DEF TableStep, hostVars
<1>d. /\ inst'[i].observed # "none" /\ ~inst'[i].active
      /\ inst'[i].desired = "stopped" /\ inst'[i].obsGen = inst'[i].gen
  BY DEF ReleasedByStop, Exists
<1>u. ASSUME inst[i].server = None, inst'[i].server = inst[i].server
      PROVE  /\ \A s \in Servers : ~host'[s][i].present
             /\ inst'[i].server # None => i \in tomb'[inst'[i].server]
  BY <1>0, <1>u, ConstantsAssumption DEF SInv, Placements, OneHostPerInstance
<1>1. CASE inst'[i] = inst[i]
  BY <1>0, <1>1, <1>d DEF SInv, Stops, StoppedSlotIsDrained, ReleasedByStop, Exists
<1>2. ASSUME NEW c \in Controllers, ctl[c].pc \in Executing, Target(c) = i, HoldsClaim(c),
             RowIsCurrent(c), Confirmed(i, c)
      PROVE  FALSE
  BY <1>d, <1>2, StoppedUnconfirmed, ConfirmedUnasked, RowTyped DEF Confirmed, SameWish, SInv, IInv, Base
<1>3. ASSUME NEW c \in Controllers, ctl[c].pc \in Executing, Target(c) = i, HoldsClaim(c),
             RowIsCurrent(c), Freed(i, c)
      PROVE  /\ \A s \in Servers : ~host'[s][i].present
             /\ inst'[i].server # None => i \in tomb'[inst'[i].server]
  <2>0. inst'[i].server = inst[i].server BY <1>3 DEF Freed
  <2>1. CASE Cmd(c).kind = "terminate" /\ ctl[c].pc = "gated"
    <3>1. inst[i].server = None
      BY <1>3, <2>1 DEF SInv, Claims, HandsFit, Placements, HandsPlaced, TrustsRow
    <3> QED BY <1>u, <2>0, <3>1
  <2>2. CASE ctl[c].pc = "reply" /\ ctl[c].op = "stop-instance" /\ ctl[c].reply.outcome = "absent"
    <3>1. i \in tomb[ctl[c].server] BY <1>3, <2>2 DEF SInv, Calls, RepliesHold
    <3>2. inst[i].server = ctl[c].server BY <1>3, <2>2 DEF SInv, Placements, HandsPlaced
    <3>3. ASSUME NEW s \in Servers, host[s][i].present PROVE FALSE
      BY <3>1, <3>2, <3>3 DEF SInv, Placements, OneHostPerInstance, Calls, FencesHold
    <3> QED BY <1>0, <2>0, <3>1, <3>2, <3>3
  <2>3. CASE inst[i].observed = "requested"
    BY <1>u, <2>0, <2>3 DEF SInv, Placements, RequestedUnplaced
  <2>4. CASE inst'[i].desired = inst[i].desired /\ inst'[i].obsGen = inst[i].obsGen
    <3>1. inst[i].active /\ inst[i].desired = "stopped" /\ inst'[i].gen = inst[i].gen
      BY <1>3, <1>d, <2>4 DEF Freed
    <3>2. inst[i].obsGen < inst[i].gen BY <3>1 DEF SInv, Stops, StopsAhead
    <3>3. inst[i].gen \in Nat /\ inst[i].obsGen \in Nat BY RowTyped DEF SInv, IInv, Base
    <3>4. inst[i].obsGen = inst[i].gen BY <1>d, <2>4, <3>1
    <3> QED BY <3>2, <3>3, <3>4
  <2> QED BY <1>3, <2>1, <2>2, <2>3, <2>4 DEF Freed
<1> QED BY <1>d, <1>1, <1>2, <1>3
        DEF TableStep, RowMoves, Inserted, Noted, Asked, Prolonged, Placed, SameWish

\* Nothing was given to an instance that has no row.
LEMMA GivenHasRow ==
  ASSUME SInv, NEW i \in Instances, NEW g, NEW e, Given(i, g, e) PROVE Exists(i)
<1>1. CASE \E r \in wire : r.inst = i
  BY <1>1 DEF SInv, Calls, CallsFit, IInv, CommandsHaveRows
<1>2. CASE \E s \in Servers : host[s][i].present
  BY <1>2 DEF SInv, Placements, OneHostPerInstance, IInv, CommandsHaveRows
<1>3. CASE \E c \in Controllers : ctl[c].pc = "reply" /\ Target(c) = i
  BY <1>3, InHandFacts DEF SInv, Executing
<1> QED BY <1>1, <1>2, <1>3 DEF Given

\* A step on the tables makes nothing known but what the row says afterwards.
LEMMA KnownByTableStep ==
  ASSUME SInv, TypeOK', DbStep, TableStep, NEW i \in Instances, NEW g, NEW e, Known(i, g, e)'
  PROVE  \/ inst'[i].gen = g /\ inst'[i].desiredExp = e
         \/ Known(i, g, e)
<1>1. CASE Given(i, g, e)' BY <1>1, GivenByTableStep DEF Known, Loaded
<1>2. CASE inst'[i].gen = g /\ inst'[i].desiredExp = e BY <1>2
<1>3. ASSUME NEW c \in Controllers, ctl'[c].pc \in Executing, Target(c)' = i,
             ctl'[c].snap.gen = g, ctl'[c].snap.desiredExp = e
      PROVE  Known(i, g, e)
  <2>1. CASE Claimed(c)
    <3>1. PICK k \in DOMAIN cmds : ctl'[c].cmd = k /\ ctl'[c].snap = inst[cmds[k].inst]
      BY <2>1 DEF Claimed
    <3>2. cmds[k].inst = i BY <1>3, <3>1 DEF Target, Cmd, DbStep, CommandsKept
    <3> QED BY <1>3, <3>1, <3>2 DEF Known, Loaded
  <2>2. CASE ~Claimed(c) BY <1>3, <2>2, HandsStay DEF Known, Loaded
  <2> QED BY <2>1, <2>2
<1> QED BY <1>1, <1>2, <1>3 DEF Known, Loaded

\* Of a row that was just inserted only its own generation and deadline are known.
LEMMA NewRowKnown ==
  ASSUME SInv, TypeOK', DbStep, TableStep, NEW i \in Instances, Inserted(i),
         NEW g, NEW e, Known(i, g, e)'
  PROVE  inst'[i].gen = g /\ inst'[i].desiredExp = e
<1>0. ~Exists(i) BY DEF Inserted
<1>1. CASE Given(i, g, e)'
  <2>1. ASSUME NEW c \in Controllers, ctl[c].pc \in Executing PROVE Target(c) # i
    BY <1>0, <2>1, InHandFacts DEF SInv
  <2> QED BY <1>0, <1>1, <2>1, GivenByTableStep, GivenHasRow
<1>2. ASSUME NEW c \in Controllers, ctl'[c].pc \in Executing, Target(c)' = i PROVE FALSE
  <2>1. CASE Claimed(c)
    <3>1. PICK k \in DOMAIN cmds : ctl'[c].cmd = k BY <2>1 DEF Claimed
    <3>2. cmds[k].inst = i BY <1>2, <3>1 DEF Target, Cmd, DbStep, CommandsKept
    <3> QED BY <1>0, <3>2 DEF SInv, IInv, CommandsHaveRows
  <2>2. CASE ~Claimed(c) BY <1>0, <1>2, <2>2, HandsStay, InHandFacts DEF SInv
  <2> QED BY <2>1, <2>2
<1> QED BY <1>1, <1>2 DEF Known, Loaded

\* Deadlines grow with generations, and the row has the last of both.
LEMMA DeadlinesStay ==
  ASSUME SInv, TypeOK', DbStep, TableStep PROVE DeadlinesGrow'
<1> SUFFICES ASSUME NEW i \in Instances, NEW g \in Nat, NEW e \in Nat, Known(i, g, e)'
    PROVE  /\ g <= inst'[i].gen
           /\ \A h, f \in Nat : Known(i, h, f)' /\ g <= h => e <= f
  BY DEF DeadlinesGrow
<1>0. /\ inst[i].gen \in Nat /\ inst[i].desiredExp \in Nat
      /\ inst'[i].gen \in Nat /\ inst'[i].desiredExp \in Nat
  <2>1. inst'[i] \in Row BY DEF TypeOK
  <2> QED BY <2>1, RowTyped DEF SInv, IInv, Base, Row
<1>1. Known(i, inst[i].gen, inst[i].desiredExp) BY DEF Known, Loaded
<1>2. CASE ~Exists(i) /\ Inserted(i)
  <2>1. ASSUME NEW h, NEW f, Known(i, h, f)'
        PROVE  h = inst'[i].gen /\ f = inst'[i].desiredExp
    BY <1>2, <2>1, NewRowKnown
  <2> QED BY <1>0, <2>1
<1>3. CASE ~(~Exists(i) /\ Inserted(i))
  <2>1. /\ inst[i].gen <= inst'[i].gen
        /\ inst[i].desiredExp <= inst'[i].desiredExp
        /\ inst'[i].gen = inst[i].gen => inst'[i].desiredExp = inst[i].desiredExp
    BY <1>0, <1>3, RowsGrow DEF SameTerms
  <2>2. ASSUME NEW h \in Nat, NEW f \in Nat, Known(i, h, f)
        PROVE  /\ h <= inst[i].gen /\ h <= inst'[i].gen
               /\ f <= inst[i].desiredExp /\ f <= inst'[i].desiredExp
    <3>1. h <= inst[i].gen BY <2>2 DEF SInv, Deadlines, DeadlinesGrow
    <3>2. f <= inst[i].desiredExp BY <1>0, <1>1, <2>2, <3>1 DEF SInv, Deadlines, DeadlinesGrow
    <3> QED BY <1>0, <2>1, <3>1, <3>2
  <2>3. g <= inst'[i].gen BY <1>0, <2>2, KnownByTableStep
  <2>4. ASSUME NEW h \in Nat, NEW f \in Nat, Known(i, h, f)', g <= h PROVE e <= f
    <3>1. CASE Known(i, g, e) /\ Known(i, h, f)
      BY <2>4, <3>1 DEF SInv, Deadlines, DeadlinesGrow
    <3>2. CASE inst'[i].gen = h /\ inst'[i].desiredExp = f
      <4>1. CASE Known(i, g, e) BY <2>2, <3>2, <4>1
      <4>2. CASE inst'[i].gen = g /\ inst'[i].desiredExp = e BY <1>0, <3>2, <4>2
      <4> QED BY <4>1, <4>2, KnownByTableStep
    <3>3. CASE inst'[i].gen = g /\ inst'[i].desiredExp = e /\ Known(i, h, f)
      <4>1. h <= inst[i].gen BY <2>2, <3>3
      <4>2. inst'[i].gen = inst[i].gen BY <1>0, <2>1, <2>4, <3>3, <4>1
      <4>3. inst[i].gen = g /\ inst[i].desiredExp = e BY <2>1, <3>3, <4>2
      <4> QED BY <1>1, <2>4, <3>3, <4>3 DEF SInv, Deadlines, DeadlinesGrow
    <3> QED BY <2>4, <3>1, <3>2, <3>3, KnownByTableStep
  <2> QED BY <2>3, <2>4
<1> QED BY <1>2, <1>3

\* The deadline of a reply is not later than that of the workload that gave it, unless
\* the identifier was fenced since.
LEMMA ReplyIsNotLater ==
  ASSUME SInv, NEW i \in Instances, NEW c \in Controllers, ctl[c].pc = "reply", Target(c) = i,
         ctl[c].reply.outcome = "present"
  PROVE  /\ ~NeverRan(i)
         /\ \A s \in Servers : host[s][i].present => ctl[c].reply.exp <= host[s][i].deadline
<1>1. ctl[c].server \in Servers /\ inst[i].server = ctl[c].server
  BY InHandFacts DEF SInv, Executing, Placements, HandsPlaced
<1>2. \/ i \in tomb[ctl[c].server]
      \/ /\ host[ctl[c].server][i].present
         /\ ctl[c].reply.gen <= host[ctl[c].server][i].gen
  BY DEF SInv, Calls, RepliesHold
<1>3. ~NeverRan(i) BY <1>1, <1>2, ConstantsAssumption DEF NeverRan
<1>4. ASSUME NEW s \in Servers, host[s][i].present
      PROVE  ctl[c].reply.exp <= host[s][i].deadline
  <2>1. s = ctl[c].server BY <1>1, <1>4 DEF SInv, Placements, OneHostPerInstance
  <2>2. i \notin tomb[s] BY <1>4 DEF SInv, Calls, FencesHold
  <2>3. ctl[c].reply.gen <= host[s][i].gen BY <1>2, <2>1, <2>2
  <2>4. /\ host[s][i].gen \in Nat /\ host[s][i].deadline \in Nat
        /\ ctl[c].reply.gen \in Nat /\ ctl[c].reply.exp \in Nat
    <3>1. ctl[c] \in Session /\ host[s][i] \in Workload BY DEF SInv, IInv, Base, TypeOK
    <3>2. ctl[c].reply \in Reply BY <3>1 DEF Session
    <3> QED BY <3>1, <3>2 DEF Reply, Workload
  <2>5. Known(i, host[s][i].gen, host[s][i].deadline) BY <1>4 DEF Known, Given
  <2>6. Known(i, ctl[c].reply.gen, ctl[c].reply.exp) BY DEF Known, Given
  <2> QED BY <2>3, <2>4, <2>5, <2>6 DEF SInv, Deadlines, DeadlinesGrow
<1> QED BY <1>3, <1>4

\* The database promises no more than a workload, or one still to come, is given.
LEMMA PromisesStay ==
  ASSUME SInv, TypeOK', DbStep, TableStep PROVE PromisesHold'
<1> SUFFICES ASSUME NEW i \in Instances
    PROVE  /\ inst'[i].desiredExp <= inst'[i].maxExp
           /\ \A s \in Servers : host'[s][i].present => inst'[i].exp <= host'[s][i].deadline
           /\ NeverRan(i)' => \A g, e \in Nat : Known(i, g, e)' => inst'[i].exp <= e
  BY DEF PromisesHold
<1>0. /\ inst[i].gen \in Nat /\ inst[i].desiredExp \in Nat /\ inst[i].exp \in Nat
      /\ inst'[i].gen \in Nat /\ inst'[i].desiredExp \in Nat /\ inst'[i].exp \in Nat
      /\ inst[i].server \in Servers \cup {None}
  <2>1. inst'[i] \in Row BY DEF TypeOK
  <2> QED BY <2>1, RowTyped DEF SInv, IInv, Base, Row
<1>h. host' = host /\ tomb' = tomb BY DEF TableStep, hostVars
<1>n. ASSUME NeverRan(i)' PROVE NeverRan(i)
  <2>1. CASE inst[i].server = None BY <2>1 DEF NeverRan
  <2>2. CASE inst[i].server \in Servers
    <3>1. inst'[i].server = inst[i].server BY <2>2, ServersStay
    <3> QED BY <1>h, <1>n, <2>2, <3>1, ConstantsAssumption DEF NeverRan
  <2> QED BY <1>0, <2>1, <2>2
<1>o. inst[i].desiredExp <= inst[i].maxExp BY DEF SInv, Deadlines, PromisesHold
<1>m. inst'[i].desiredExp <= inst'[i].maxExp
  BY <1>o, RowsGrow DEF Inserted, SameTerms
<1>1. CASE Inserted(i)
  <2>1. ~Exists(i) /\ inst'[i].exp = inst'[i].desiredExp BY <1>1 DEF Inserted
  <2>2. \A s \in Servers : ~host[s][i].present
    BY <2>1 DEF SInv, Placements, OneHostPerInstance, IInv, CommandsHaveRows
  <2>3. ASSUME NEW g \in Nat, NEW e \in Nat, Known(i, g, e)' PROVE inst'[i].exp <= e
    <3>1. inst'[i].desiredExp = e BY <1>1, <2>3, NewRowKnown
    <3> QED BY <1>0, <2>1, <3>1
  <2> QED BY <1>h, <1>m, <2>2, <2>3
<1>2. CASE inst'[i].exp = inst[i].exp /\ ~(~Exists(i) /\ Inserted(i))
  <2>1. \A s \in Servers : host'[s][i].present => inst'[i].exp <= host'[s][i].deadline
    BY <1>2, <1>h DEF SInv, Deadlines, PromisesHold
  <2>2. ASSUME NeverRan(i)', NEW g \in Nat, NEW e \in Nat, Known(i, g, e)' PROVE inst'[i].exp <= e
    <3>1. \A h, f \in Nat : Known(i, h, f) => inst[i].exp <= f
      BY <1>n, <2>2 DEF SInv, Deadlines, PromisesHold
    <3>2. inst[i].exp <= inst[i].desiredExp BY <1>0, <3>1 DEF Known, Loaded
    <3>3. inst[i].desiredExp <= inst'[i].desiredExp BY <1>0, <1>2, RowsGrow DEF SameTerms
    <3>4. CASE Known(i, g, e) BY <1>2, <3>1, <3>4
    <3>5. CASE inst'[i].desiredExp = e BY <1>0, <1>2, <3>2, <3>3, <3>5
    <3> QED BY <2>2, <3>4, <3>5, KnownByTableStep
  <2> QED BY <1>m, <2>1, <2>2
<1>3. ASSUME NEW c \in Controllers, ctl[c].pc \in Executing, Target(c) = i, Confirmed(i, c),
             inst'[i].exp = ctl[c].reply.exp
      PROVE  /\ ~NeverRan(i)
             /\ \A s \in Servers : host'[s][i].present => inst'[i].exp <= host'[s][i].deadline
  BY <1>3, <1>h, ReplyIsNotLater DEF Confirmed
<1>4. CASE \/ inst'[i] = inst[i] \/ Noted(i) \/ Asked(i) \/ Prolonged(i)
           \/ \E c \in Controllers : Placed(i, c) \/ Freed(i, c)
  <2>1. inst'[i].exp = inst[i].exp
    BY <1>4 DEF Noted, Asked, Prolonged, Placed, Freed, SameReport
  <2> QED BY <1>1, <1>2, <2>1
<1>5. ASSUME NEW c \in Controllers, ctl[c].pc \in Executing, Target(c) = i, Confirmed(i, c)
      PROVE  inst'[i].exp = inst[i].exp \/ inst'[i].exp = ctl[c].reply.exp
  BY <1>5 DEF Confirmed
<1> QED BY <1>1, <1>2, <1>3, <1>4, <1>5, <1>m, <1>n DEF TableStep, RowMoves

\* A step on the tables keeps the invariant.
LEMMA TableStepHolds ==
  ASSUME SInv, IInv', DbStep, TableStep PROVE SInv'
<1>0. TypeOK' BY DEF IInv, Base
<1>1. Claims' BY <1>0, FitStays, TokensStay, HandsFitStays DEF Claims
<1>2. Placements' BY <1>0, HandsPlacedStays, RowsSayWhere, SlotsStay DEF Placements
<1>3. Stops' BY <1>0, StopsStayAhead, StartsStaySettled, DrainedStays DEF Stops
<1>4. Deadlines' BY <1>0, DeadlinesStay, PromisesStay DEF Deadlines
<1> QED BY <1>0, <1>1, <1>2, <1>3, <1>4, CallsStay DEF SInv

----------------------------------------------------------------------------
(* What follows from it for the hosts *)

\* A controller keeps its command while a host answers, and the tables do not move.
LEMMA AnsweredHands ==
  ASSUME SInv, HostStep
  PROVE  /\ inst' = inst /\ cmds' = cmds
         /\ \A c \in Controllers :
               /\ ctl'[c].pc \in Executing <=> ctl[c].pc \in Executing
               /\ ctl'[c].pc \in Executing =>
                     /\ ctl'[c].cmd = ctl[c].cmd /\ ctl'[c].token = ctl[c].token
                     /\ ctl'[c].snap = ctl[c].snap
               /\ ctl'[c].pc \in {"loaded", "gated"} => ctl'[c] = ctl[c]
               /\ ctl'[c].pc \in {"await", "reply"} =>
                     ctl[c].pc \in {"await", "reply"} /\ ctl'[c].server = ctl[c].server
               /\ ctl'[c].pc # "loaded" => ctl[c].pc # "loaded"
  BY DEF HostStep, dbVars, HandAnswered, Executing

\* The call a host serves is to the server its row names.
LEMMA ServedAtHome ==
  ASSUME SInv, NEW r \in wire
  PROVE  /\ r.inst \in Instances /\ r.server \in Servers /\ inst[r.inst].server = r.server
         /\ r.gen \in Nat /\ r.exp \in Nat
         /\ r.op \in GivingCalls => Known(r.inst, r.gen, r.exp)
<1>1. r \in Request BY DEF SInv, IInv, Base, TypeOK
<1> QED BY <1>1 DEF Request, SInv, Placements, OneHostPerInstance, Known, Given

\* The reply a controller gets is about its own instance on the server it called.
LEMMA AnsweredAtHome ==
  ASSUME SInv, NEW c \in Controllers, ctl[c].pc = "await", NEW r \in wire, ctl[c].cmd = r.cmd
  PROVE  r.inst = Target(c) /\ r.server = ctl[c].server
<1>1. ctl[c].server \in Servers /\ inst[Target(c)].server = ctl[c].server
  BY InHandFacts DEF SInv, Executing, Placements, HandsPlaced
<1>2. r.inst = Target(c) BY DEF SInv, Calls, CallsFit, Target, Cmd
<1> QED BY <1>1, <1>2, ServedAtHome

\* A host makes nothing known that was not.
LEMMA KnownByHostStep ==
  ASSUME SInv, HostStep, NEW i \in Instances, NEW g, NEW e
  PROVE  /\ Given(i, g, e)' => Given(i, g, e)
         /\ Known(i, g, e)' => Known(i, g, e)
<1>0. wire' \subseteq wire BY DEF HostStep
<1>1. ASSUME NEW s \in Servers, host'[s][i].present, host'[s][i].gen = g, host'[s][i].deadline = e
      PROVE  Given(i, g, e)
  <2>1. HostMoves(s, i) BY DEF HostStep
  <2>2. host'[s][i] # NoWorkload BY <1>1 DEF NoWorkload
  <2> QED BY <1>1, <2>1, <2>2 DEF HostMoves, Given
<1>2. ASSUME NEW c \in Controllers, ctl'[c].pc = "reply", Target(c)' = i,
             ctl'[c].reply.outcome = "present", ctl'[c].reply.gen = g, ctl'[c].reply.exp = e
      PROVE  Given(i, g, e)
  <2>1. Target(c) = i BY <1>2, AnsweredHands DEF Target, Cmd, Executing
  <2>2. CASE ctl'[c] = ctl[c] BY <1>2, <2>1, <2>2 DEF Given
  <2>3. CASE ctl'[c] # ctl[c]
    <3>1. PICK r \in wire : LET w == host'[r.server][r.inst] IN
            /\ ctl[c].pc = "await" /\ ctl[c].cmd = r.cmd
            /\ w.present /\ ctl'[c].reply.gen = w.gen /\ ctl'[c].reply.exp = w.deadline
      BY <1>2, <2>3 DEF HostStep, HandAnswered
    <3>2. r.inst = i /\ r.server \in Servers BY <2>1, <3>1, AnsweredAtHome, ServedAtHome
    <3> QED BY <1>1, <1>2, <3>1, <3>2
  <2> QED BY <2>2, <2>3
<1>3. Given(i, g, e)' => Given(i, g, e)
  <2>1. ASSUME NEW r \in wire', r.inst = i, r.op \in GivingCalls, r.gen = g, r.exp = e
        PROVE  Given(i, g, e)
    BY <1>0, <2>1 DEF Given
  <2> QED BY <1>1, <1>2, <2>1 DEF Given
<1>4. Loaded(i, g, e)' => Loaded(i, g, e)
  BY AnsweredHands DEF Loaded, Target, Cmd
<1> QED BY <1>3, <1>4 DEF Known

\* A host creates or moves a workload only on the server of its row, and never of a
\* fenced identifier.
LEMMA HostKeeps ==
  ASSUME SInv, HostStep, NEW s \in Servers, NEW i \in Instances
  PROVE  /\ i \in tomb[s] => i \in tomb'[s] /\ ~host'[s][i].present
         /\ i \in tomb'[s] => ~host'[s][i].present
         /\ ~host'[s][i].present => host'[s][i] = NoWorkload
         /\ host'[s][i].present => inst[i].server = s
         /\ ~host'[s][i].present /\ i \notin tomb'[s] => ~host[s][i].present /\ i \notin tomb[s]
<1>0. /\ HostMoves(s, i) /\ NoWorkload.present = FALSE
      /\ i \in tomb[s] => ~host[s][i].present
      /\ ~host[s][i].present => host[s][i] = NoWorkload
      /\ host[s][i].present => inst[i].server = s
  BY DEF HostStep, NoWorkload, SInv, Calls, FencesHold, Placements, OneHostPerInstance
<1>1. CASE /\ host'[s][i].present = host[s][i].present
           /\ host'[s][i] = host[s][i] \/ host[s][i].present
           /\ i \in tomb'[s] <=> i \in tomb[s]
  BY <1>0, <1>1
<1>2. CASE host'[s][i] = NoWorkload /\ i \in tomb'[s] BY <1>0, <1>2
<1>3. CASE /\ i \notin tomb[s] /\ i \notin tomb'[s] /\ host'[s][i].present
           /\ \E r \in wire : r.inst = i /\ r.server = s
  BY <1>0, <1>3, ServedAtHome
<1> QED BY <1>0, <1>1, <1>2, <1>3 DEF HostMoves

\* A host never takes back a generation or a deadline while the workload lives, and
\* promises of the row hold for what it creates.
LEMMA HostGrows ==
  ASSUME SInv, HostStep, NEW s \in Servers, NEW i \in Instances, host'[s][i].present
  PROVE  /\ host[s][i].present =>
               /\ host[s][i].gen <= host'[s][i].gen
               /\ host[s][i].deadline <= host'[s][i].deadline
         /\ inst[i].exp <= host'[s][i].deadline
<1>0. /\ host[s][i].gen \in Nat /\ host[s][i].deadline \in Nat /\ inst[i].exp \in Nat
  <2>1. host[s][i] \in Workload BY DEF SInv, IInv, Base, TypeOK
  <2> QED BY <2>1, RowTyped DEF Workload, SInv, IInv, Base
<1>1. CASE /\ host'[s][i].present = host[s][i].present /\ host'[s][i].gen = host[s][i].gen
           /\ host'[s][i].deadline = host[s][i].deadline
  BY <1>0, <1>1 DEF SInv, Deadlines, PromisesHold
<1>2. ASSUME NEW r \in wire, r.inst = i, r.server = s, r.op \in GivingCalls, i \notin tomb[s],
             host'[s][i].gen = r.gen, host'[s][i].deadline = r.exp,
             host[s][i].present => host[s][i].gen <= r.gen
      PROVE  /\ host[s][i].present =>
                   /\ host[s][i].gen <= host'[s][i].gen
                   /\ host[s][i].deadline <= host'[s][i].deadline
             /\ inst[i].exp <= host'[s][i].deadline
  <2>1. /\ r.gen \in Nat /\ r.exp \in Nat /\ Known(i, r.gen, r.exp) /\ inst[i].server = s
    BY <1>2, ServedAtHome
  <2>2. CASE host[s][i].present
    <3>1. Known(i, host[s][i].gen, host[s][i].deadline) BY <2>2 DEF Known, Given
    <3>2. host[s][i].deadline <= r.exp
      BY <1>0, <1>2, <2>1, <2>2, <3>1 DEF SInv, Deadlines, DeadlinesGrow
    <3>3. inst[i].exp <= host[s][i].deadline BY <2>2 DEF SInv, Deadlines, PromisesHold
    <3> QED BY <1>0, <1>2, <2>1, <2>2, <3>2, <3>3
  <2>3. CASE ~host[s][i].present
    <3>1. NeverRan(i) BY <1>2, <2>1, <2>3 DEF NeverRan
    <3>2. inst[i].exp <= r.exp BY <2>1, <3>1 DEF SInv, Deadlines, PromisesHold
    <3> QED BY <1>2, <2>3, <3>2
  <2> QED BY <2>2, <2>3
<1>3. host'[s][i] # NoWorkload BY DEF NoWorkload
<1>4. HostMoves(s, i) BY DEF HostStep
<1>5. CASE \E r \in wire :
             /\ r.inst = i /\ r.server = s /\ r.op \in GivingCalls /\ i \notin tomb[s]
             /\ host'[s][i].gen = r.gen /\ host'[s][i].deadline = r.exp
             /\ host[s][i].present => host[s][i].gen <= r.gen
  BY <1>2, <1>5
<1> QED BY <1>1, <1>3, <1>4, <1>5 DEF HostMoves

\* What a controller was told stays true of the host, or the identifier is fenced.
LEMMA RepliesStay ==
  ASSUME SInv, TypeOK', HostStep PROVE RepliesHold'
<1> SUFFICES ASSUME NEW c \in Controllers, ctl'[c].pc = "reply"
    PROVE  LET i == Target(c)  s == ctl[c].server  r == ctl'[c].reply IN
           /\ ctl'[c].op = "stop-instance" /\ r.outcome = "absent" => i \in tomb'[s]
           /\ r.outcome = "present" =>
                 i \in tomb'[s] \/ (host'[s][i].present /\ r.gen <= host'[s][i].gen)
  BY AnsweredHands DEF RepliesHold, Target, Cmd, Executing
<1> DEFINE i == Target(c)  s == ctl[c].server
<1>0. ctl[c].pc \in {"await", "reply"} BY AnsweredHands
<1>1. i \in Instances /\ s \in Servers BY <1>0, InHandFacts DEF SInv, Executing
<1>t. /\ ctl'[c].reply.gen \in Nat /\ host'[s][i].gen \in Nat /\ host[s][i].gen \in Nat
  <2>1. ctl'[c] \in Session /\ host'[s][i] \in Workload /\ host[s][i] \in Workload
    BY <1>1 DEF SInv, IInv, Base, TypeOK
  <2>2. ctl'[c].reply \in Reply BY <2>1 DEF Session
  <2> QED BY <2>1, <2>2 DEF Workload, Reply
<1>2. CASE ctl'[c] = ctl[c]
  <2>1. i \in tomb[s] => i \in tomb'[s] BY <1>1, HostKeeps
  <2>2. ASSUME ctl[c].reply.outcome = "present", i \notin tomb'[s]
        PROVE  host'[s][i].present /\ ctl[c].reply.gen <= host'[s][i].gen
    <3>1. host[s][i].present /\ ctl[c].reply.gen <= host[s][i].gen
      BY <1>2, <2>1, <2>2 DEF SInv, Calls, RepliesHold
    <3>2. host'[s][i].present BY <1>1, <2>2, <3>1, HostKeeps
    <3>3. host[s][i].gen <= host'[s][i].gen BY <1>1, <3>1, <3>2, HostGrows
    <3> QED BY <1>2, <1>t, <3>1, <3>2, <3>3
  <2> QED BY <1>2, <2>1, <2>2 DEF SInv, Calls, RepliesHold
<1>3. CASE ctl'[c] # ctl[c]
  <2>1. PICK r \in wire : LET w == host'[r.server][r.inst]  reply == ctl'[c].reply IN
          /\ ctl[c].pc = "await" /\ ctl[c].op = r.op /\ ctl[c].cmd = r.cmd
          /\ ctl'[c].op = ctl[c].op
          /\ reply.outcome = "present" => w.present /\ reply.gen = w.gen /\ reply.exp = w.deadline
          /\ reply.outcome = "absent" /\ r.op = "stop-instance" => r.inst \in tomb'[r.server]
    BY <1>3 DEF HostStep, HandAnswered
  <2>2. r.inst = i /\ r.server = s BY <2>1, AnsweredAtHome
  <2> QED BY <1>t, <2>1, <2>2
<1> QED BY <1>2, <1>3

\* A step of a host keeps the invariant.
LEMMA HostStepHolds ==
  ASSUME SInv, IInv', HostStep PROVE SInv'
<1>0. TypeOK' BY DEF IInv, Base
<1>1. inst' = inst /\ cmds' = cmds /\ wire' \subseteq wire BY AnsweredHands DEF HostStep
<1>2. Claims'
  <2>1. CommandsFit' BY <1>1 DEF CommandsFit, Exists, SInv, Claims
  <2>2. TokensDiffer' BY <1>1, AnsweredHands DEF TokensDiffer, Cmd, SInv, Claims
  <2>3. HandsFit' BY <1>1, AnsweredHands DEF HandsFit, Cmd, SInv, Claims, Executing
  <2> QED BY <2>1, <2>2, <2>3 DEF Claims
<1>3. Placements'
  <2>1. HandsPlaced'
    <3> SUFFICES ASSUME NEW c \in Controllers, ctl'[c].pc \in Executing
        PROVE  /\ ctl[c].snap.server \in Servers => inst[Target(c)].server = ctl[c].snap.server
               /\ ctl'[c].pc \in {"await", "reply"} => inst[Target(c)].server = ctl[c].server
               /\ ctl[c].snap.server = None /\ TrustsRow(c)' => inst[Target(c)].server = None
      BY <1>1, AnsweredHands DEF HandsPlaced, Target, Cmd
    <3>1. TrustsRow(c)' => TrustsRow(c)
      BY <1>1, AnsweredHands DEF TrustsRow, Cmd, HoldsClaim
    <3> QED BY <3>1, AnsweredHands DEF SInv, Placements, HandsPlaced
  <2>2. RequestedUnplaced' BY <1>1 DEF RequestedUnplaced, SInv, Placements
  <2>3. OneHostPerInstance'
    BY <1>1, HostKeeps DEF OneHostPerInstance, SInv, Placements
  <2>4. SlotsFinite' BY <1>1 DEF SlotsFinite, PlacedOn, SInv, Placements
  <2> QED BY <2>1, <2>2, <2>3, <2>4 DEF Placements
<1>4. Calls'
  <2>1. CallsFit' BY <1>1 DEF CallsFit, SInv, Calls
  <2>2. FencesHold' BY HostKeeps DEF FencesHold
  <2>3. GivenByCommand'
    BY <1>1, KnownByHostStep DEF GivenByCommand, SInv, Calls
  <2> QED BY <1>0, <2>1, <2>2, <2>3, RepliesStay DEF Calls
<1>5. Stops'
  <2>1. StopsAhead' /\ StartsSettled' BY <1>1 DEF StopsAhead, StartsSettled, IsOpen, SInv, Stops
  <2>2. StoppedSlotIsDrained'
    <3> SUFFICES ASSUME NEW i \in Instances, ReleasedByStop(i)
        PROVE  /\ \A s \in Servers : ~host'[s][i].present
               /\ inst[i].server # None => i \in tomb'[inst[i].server]
      BY <1>1 DEF StoppedSlotIsDrained, ReleasedByStop, Exists
    <3>1. /\ \A s \in Servers : ~host[s][i].present
          /\ inst[i].server # None => i \in tomb[inst[i].server]
      BY DEF SInv, Stops, StoppedSlotIsDrained
    <3>2. inst[i].server \in Servers \cup {None} BY RowTyped DEF SInv, IInv, Base
    <3>3. ASSUME NEW s \in Servers, host'[s][i].present PROVE FALSE
      <4>1. inst[i].server = s BY <3>3, HostKeeps
      <4>2. i \in tomb[s] BY <3>1, <4>1, ConstantsAssumption
      <4> QED BY <3>3, <4>2, HostKeeps
    <3> QED BY <3>1, <3>2, <3>3, HostKeeps
  <2> QED BY <2>1, <2>2 DEF Stops
<1>6. Deadlines'
  <2>1. DeadlinesGrow' BY <1>1, KnownByHostStep DEF DeadlinesGrow, SInv, Deadlines
  <2>2. PromisesHold'
    <3> SUFFICES ASSUME NEW i \in Instances
        PROVE  /\ inst[i].desiredExp <= inst[i].maxExp
               /\ \A s \in Servers : host'[s][i].present => inst[i].exp <= host'[s][i].deadline
               /\ NeverRan(i)' => \A g, e \in Nat : Known(i, g, e)' => inst[i].exp <= e
      BY <1>1 DEF PromisesHold
    <3>1. NeverRan(i)' => NeverRan(i) BY <1>1, HostKeeps DEF NeverRan
    <3> QED BY <3>1, HostGrows, KnownByHostStep DEF SInv, Deadlines, PromisesHold
  <2> QED BY <2>1, <2>2 DEF Deadlines
<1> QED BY <1>2, <1>3, <1>4, <1>5, <1>6 DEF SInv

----------------------------------------------------------------------------
(* Every step is a step on the tables or a step of a host *)

\* Closing, recovering and ageing commands give no claim.
LEMMA ClaimsClosed ==
  ASSUME SInv, DOMAIN cmds' = DOMAIN cmds, ClaimsKept(cmds') PROVE CommandsStep
<1>1. ASSUME NEW k \in DOMAIN cmds PROVE cmds[k].attempts <= cmds'[k].attempts
  <2>1. cmds[k] \in Command BY DEF SInv, IInv, Base, TypeOK
  <2> QED BY <2>1 DEF ClaimsKept, Command
<1> QED BY <1>1 DEF ClaimsKept, CommandsStep

\* A step that leaves runtime_commands alone gives no claim.
LEMMA ClaimsSame ==
  ASSUME SInv, cmds' = cmds PROVE CommandsStep
  BY ClaimsClosed DEF ClaimsKept

\* Inserting one command, possibly after closing the one in hand.
LEMMA ClaimsAppended ==
  ASSUME SInv, NEW cs \in Seq(Command), DOMAIN cs = DOMAIN cmds, ClaimsKept(cs),
         NEW e \in Command, cmds' = Append(cs, e), e.status = "pending",
         e.gen <= inst'[e.inst].gen,
         e.kind = "start" => e.gen = 1 /\ ~Exists(e.inst),
         e.kind \in Giving => /\ e.gen = inst'[e.inst].gen
                              /\ inst'[e.inst].desired = "running" /\ inst'[e.inst].active,
         e.kind = "terminate" => 2 <= e.gen
  PROVE  CommandsStep
<1>1. /\ DOMAIN cmds' = 1 .. (Len(cs) + 1) /\ DOMAIN cmds = 1 .. Len(cs)
      /\ Len(cs) \in Nat
      /\ \A k \in DOMAIN cmds : cmds'[k] = cs[k]
      /\ cmds'[Len(cs) + 1] = e
  OBVIOUS
<1>2. ASSUME NEW k \in DOMAIN cmds' \ DOMAIN cmds PROVE cmds'[k] = e /\ k = Len(cs) + 1
  BY <1>1
<1>3. e.inst \in Instances BY DEF Command
<1>4. ASSUME NEW k \in DOMAIN cmds
      PROVE  /\ cmds[k].attempts <= cmds'[k].attempts
             /\ cmds'[k].status = "claimed" =>
                   \/ /\ cmds[k].status = "claimed" /\ cmds'[k].token = cmds[k].token
                      /\ cmds'[k].attempts = cmds[k].attempts
                   \/ cmds'[k].token = cmds'[k].attempts /\ cmds[k].attempts < cmds'[k].attempts
  <2>1. cmds[k] \in Command BY DEF SInv, IInv, Base, TypeOK
  <2>2. cmds[k].attempts \in Nat BY <2>1 DEF Command
  <2>3. cmds'[k] = cs[k] BY <1>1
  <2>4. /\ cs[k].attempts = cmds[k].attempts
        /\ cs[k].status = "claimed" => cmds[k].status = "claimed" /\ cs[k].token = cmds[k].token
    BY DEF ClaimsKept
  <2> QED BY ONLY <2>2, <2>3, <2>4
<1>5. ASSUME NEW k \in DOMAIN cmds' \ DOMAIN cmds
      PROVE  LET row == inst'[cmds'[k].inst] IN
             /\ cmds'[k].inst \in Instances /\ cmds'[k].status = "pending"
             /\ cmds'[k].gen <= row.gen
             /\ cmds'[k].kind = "start" => cmds'[k].gen = 1 /\ ~Exists(cmds'[k].inst)
             /\ cmds'[k].kind \in Giving => cmds'[k].gen = row.gen /\ row.desired = "running" /\ row.active
             /\ cmds'[k].kind = "terminate" => 2 <= cmds'[k].gen
  <2>1. cmds'[k] = e BY <1>2
  <2> QED BY <1>3, <2>1
<1>6. \A j, k \in DOMAIN cmds' \ DOMAIN cmds : j = k BY <1>2
<1> QED BY <1>4, <1>5, <1>6 DEF CommandsStep

\* Closing the command in hand (cancel_command, complete_command, fail_command).
LEMMA CloseClaims ==
  ASSUME SInv, NEW c \in Controllers, ctl[c].pc \in Executing,
         NEW st \in {"completed", "failed", "cancelled"}
  PROVE  /\ DOMAIN Close(c, st) = DOMAIN cmds /\ Close(c, st) \in Seq(Command)
         /\ ClaimsKept(Close(c, st))
         /\ HoldsClaim(c) => Close(c, st)[ctl[c].cmd].status = st
<1>1. ctl[c].cmd \in DOMAIN cmds /\ TypeOK BY InHandFacts DEF SInv, IInv, Base
<1>2. ASSUME NEW k \in DOMAIN cmds PROVE cmds[k] \in Command BY <1>1 DEF TypeOK
<1>3. Close(c, st) \in Seq(Command) BY <1>1, CloseTyped
<1>4. DOMAIN Close(c, st) = DOMAIN cmds BY DEF Close, Closed
<1>5. ASSUME NEW k \in DOMAIN cmds
      PROVE  /\ Close(c, st)[k].attempts = cmds[k].attempts
             /\ Close(c, st)[k].status = "claimed" =>
                   cmds[k].status = "claimed" /\ Close(c, st)[k].token = cmds[k].token
             /\ k = ctl[c].cmd /\ HoldsClaim(c) => Close(c, st)[k].status = st
  <2>1. CASE HoldsClaim(c) /\ k = ctl[c].cmd
    BY <1>2, <2>1 DEF Close, Closed, Command
  <2>2. CASE ~(HoldsClaim(c) /\ k = ctl[c].cmd)
    BY <1>2, <2>2 DEF Close, Closed
  <2> QED BY <2>1, <2>2
<1> QED BY <1>1, <1>3, <1>4, <1>5 DEF ClaimsKept

\* A step that leaves runtime_instances alone.
LEMMA RowsUnmoved ==
  ASSUME inst' = inst PROVE \A i \in Instances : RowMoves(i)
  BY DEF RowMoves

\* A step that writes one row.
LEMMA OneRowMoved ==
  ASSUME SInv, NEW i \in Instances, NEW row, inst' = [inst EXCEPT ![i] = row],
         inst'[i] = row => RowMoves(i)
  PROVE  \A j \in Instances : RowMoves(j)
<1>1. inst'[i] = row /\ \A j \in Instances : j # i => inst'[j] = inst[j]
  BY DEF SInv, IInv, Base, TypeOK
<1> QED BY <1>1 DEF RowMoves

\* A step that leaves the controllers alone.
LEMMA HandsSame ==
  ASSUME ctl' = ctl PROVE \A c \in Controllers : HandMoves(c)
  BY DEF HandMoves

\* A controller that drops its command.
LEMMA HandsEmptied ==
  ASSUME SInv, NEW c \in Controllers, NEW s, ctl' = [ctl EXCEPT ![c] = s], s.pc \notin Executing
  PROVE  \A d \in Controllers : HandMoves(d)
<1>1. ctl'[c] = s /\ \A d \in Controllers : d # c => ctl'[d] = ctl[d]
  BY DEF SInv, IInv, Base, TypeOK
<1> QED BY <1>1 DEF HandMoves

\* A controller that moves on to a retry, or past the checks that need no call.
LEMMA HandsOnward ==
  ASSUME SInv, NEW c \in Controllers, ctl[c].pc \in Executing,
         NEW p \in {"gated", "retry"}, ctl' = [ctl EXCEPT ![c].pc = p],
         \/ p = "retry" /\ ctl[c].pc # "loaded"
         \/ /\ p = "gated" /\ ctl[c].pc = "loaded" /\ Cmd(c).gen = ctl[c].snap.gen
            /\ Cmd(c).kind = "terminate" => ctl[c].snap.server = None
  PROVE  \A d \in Controllers : HandMoves(d)
<1>0. ctl[c] \in Session BY DEF SInv, IInv, Base, TypeOK
<1>1. /\ \A d \in Controllers : d # c => ctl'[d] = ctl[d]
      /\ ctl'[c] = [ctl[c] EXCEPT !.pc = p]
  BY DEF SInv, IInv, Base, TypeOK
<1>2. /\ ctl'[c].pc = p /\ ctl'[c].cmd = ctl[c].cmd /\ ctl'[c].snap = ctl[c].snap
      /\ ctl'[c].token = ctl[c].token
  BY <1>0, <1>1 DEF Session
<1> QED BY <1>1, <1>2 DEF HandMoves

\* A controller that sends a call, as its command demands.
LEMMA HandsSend ==
  ASSUME SInv, NEW c \in Controllers, NEW op, NEW s, Send(c, op, s), CallFor(c, op, s)
  PROVE  (\A d \in Controllers : HandMoves(d)) /\ CallStep
<1>0. ctl[c] \in Session BY DEF SInv, IInv, Base, TypeOK
<1>1. /\ \A d \in Controllers : d # c => ctl'[d] = ctl[d]
      /\ ctl'[c] = [ctl[c] EXCEPT !.pc = "await", !.op = op, !.server = s, !.reply = NoReply]
  BY DEF SInv, IInv, Base, TypeOK, Send
<1>2. /\ ctl'[c].pc = "await" /\ ctl'[c].op = op /\ ctl'[c].server = s
      /\ ctl'[c].cmd = ctl[c].cmd /\ ctl'[c].snap = ctl[c].snap /\ ctl'[c].token = ctl[c].token
  BY <1>0, <1>1 DEF Session
<1>3. ctl[c].pc \in Executing BY DEF CallFor
<1>4. \A d \in Controllers : HandMoves(d) BY <1>1, <1>2, <1>3 DEF HandMoves
<1>5. CallStep BY DEF CallStep, Send
<1> QED BY <1>4, <1>5

\* A step that sends nothing.
LEMMA NothingSent ==
  ASSUME wire' = wire PROVE CallStep
  BY DEF CallStep

\* A step that leaves the tables and the controllers alone is a step on the tables.
LEMMA IdleStep ==
  ASSUME SInv, UNCHANGED <<dbVars, ctl, wire, hostVars>> PROVE TableStep
  BY ClaimsSame, RowsUnmoved, HandsSame, NothingSent DEF dbVars, TableStep

\* create_termination_command_in_transaction, after the row was noted at most.
LEMMA CreateMoves ==
  ASSUME SInv, NEW rows \in [Instances -> Row], NEW cs \in Seq(Command),
         DOMAIN cs = DOMAIN cmds, ClaimsKept(cs),
         NEW i \in Instances, NEW b \in BOOLEAN, CreateTermination(rows, cs, i, b),
         \A j \in Instances : j # i => rows[j] = inst[j],
         \/ rows = inst
         \/ /\ inst[i].active /\ SameTerms(inst[i], rows[i]) /\ SameReport(inst[i], rows[i])
            /\ SameWish(inst[i], rows[i]) /\ rows[i].server = inst[i].server
            /\ rows[i].observed \notin {"none", "requested"}
  PROVE  CommandsStep /\ \A j \in Instances : RowMoves(j)
<1>0. rows[i] \in Row OBVIOUS
<1>w. /\ SameTerms(inst[i], rows[i]) /\ SameReport(inst[i], rows[i])
      /\ SameWish(inst[i], rows[i]) /\ rows[i].server = inst[i].server
      /\ rows[i].observed = inst[i].observed \/ rows[i].observed \notin {"none", "requested"}
  BY DEF SameTerms, SameReport, SameWish
<1>1. CASE ~MayTerminate(rows, cs, i)
  <2>1. inst' = rows /\ cmds' = cs BY <1>1 DEF CreateTermination
  <2>2. RowMoves(i) BY <2>1 DEF RowMoves, Noted
  <2>3. CommandsStep BY <2>1, ClaimsClosed
  <2> QED BY <2>1, <2>2, <2>3 DEF RowMoves
<1>2. CASE MayTerminate(rows, cs, i)
  <2> DEFINE e == [NewCommand(i, "terminate", rows[i].gen + 1) EXCEPT !.overdue = b]
  <2>1. inst' = [rows EXCEPT ![i] = Stopped(rows[i])] /\ cmds' = Append(cs, e)
    BY <1>2 DEF CreateTermination
  <2>2. /\ e \in Command /\ e.inst = i /\ e.kind = "terminate"
        /\ e.gen = rows[i].gen + 1 /\ e.status = "pending"
    <3>1. rows[i].gen + 1 \in Nat BY <1>0 DEF Row
    <3> QED BY <3>1, NewStopTyped DEF NewCommand
  <2> HIDE DEF e
  <2>3. /\ Stopped(rows[i]).gen = rows[i].gen + 1 /\ Stopped(rows[i]).desired = "stopped"
        /\ Stopped(rows[i]).active = rows[i].active
        /\ Stopped(rows[i]).observed = rows[i].observed
        /\ Stopped(rows[i]).server = rows[i].server
        /\ SameTerms(rows[i], Stopped(rows[i])) /\ SameReport(rows[i], Stopped(rows[i]))
    BY <1>0 DEF Stopped, Row, SameTerms, SameReport
  <2>4. /\ inst'[i] = Stopped(rows[i])
        /\ \A j \in Instances : j # i => inst'[j] = inst[j]
    BY <2>1
  <2>5. inst[i].active /\ rows[i].active BY <1>2, <1>w DEF MayTerminate, SameWish
  <2>6. 1 <= inst[i].gen /\ inst[i].gen \in Nat
    BY <2>5, RowTyped DEF SInv, IInv, Base, CommandsHaveRows, Claims, CommandsFit
  <2>7. Asked(i) BY <1>w, <2>3, <2>4, <2>5 DEF Asked, SameTerms, SameReport, SameWish
  <2>8. rows[i].gen = inst[i].gen BY <1>w DEF SameWish
  <2>9. CommandsStep
    <3>1. e.gen <= inst'[e.inst].gen /\ 2 <= e.gen BY <2>2, <2>3, <2>4, <2>6, <2>8
    <3>2. e.kind # "start" /\ e.kind \notin Giving BY <2>2 DEF Giving
    <3> QED BY <2>1, <2>2, <3>1, <3>2, ClaimsAppended
  <2> QED BY <2>4, <2>7, <2>9 DEF RowMoves
<1> QED BY <1>1, <1>2

\* The API transactions are steps on the tables.
LEMMA ApiMoves ==
  ASSUME SInv, Api PROVE TableStep
<1>0. cmds \in Seq(Command) /\ inst \in [Instances -> Row] /\ ClaimsKept(cmds)
  BY DEF SInv, IInv, Base, TypeOK, ClaimsKept
<1>1. ASSUME NEW u \in Owners, NEW ch \in Challenges, NEW ttl \in Ttls, EnsureInstance(u, ch, ttl)
      PROVE  TableStep
  <2>1. PICK i \in Instances :
          /\ ~Exists(i)
          /\ inst' = [inst EXCEPT ![i] =
              [NoRow EXCEPT !.owner = u, !.challenge = ch, !.active = TRUE,
                            !.desired = "running", !.observed = "requested",
                            !.desiredExp = now + ttl, !.maxExp = now + MaximumTtl,
                            !.exp = now + ttl, !.gen = 1,
                            !.settingRev = setting.revision,
                            !.runtimeRev = runtime[ch].revision]]
          /\ cmds' = Append(cmds, NewCommand(i, "start", 1))
    BY <1>1 DEF EnsureInstance
  <2>2. /\ inst'[i].active /\ inst'[i].desired = "running" /\ inst'[i].observed = "requested"
        /\ inst'[i].server = None /\ inst'[i].gen = 1 /\ inst'[i].obsGen = 0
        /\ inst'[i].exp = now + ttl /\ inst'[i].desiredExp = now + ttl
        /\ inst'[i].maxExp = now + MaximumTtl
        /\ \A j \in Instances : j # i => inst'[j] = inst[j]
    BY <1>0, <2>1 DEF NoRow
  <2>3. now + ttl <= now + MaximumTtl
    <3>1. now \in Nat /\ ttl \in 1 .. MaximumTtl /\ MaximumTtl \in Nat
      BY ConstantsAssumption DEF SInv, IInv, Base, TypeOK
    <3> QED BY <3>1
  <2>4. Inserted(i) BY <2>1, <2>2, <2>3 DEF Inserted
  <2>5. /\ NewCommand(i, "start", 1) \in Command /\ NewCommand(i, "start", 1).inst = i
        /\ NewCommand(i, "start", 1).kind = "start" /\ NewCommand(i, "start", 1).gen = 1
        /\ NewCommand(i, "start", 1).status = "pending"
    BY NewCommandTyped DEF NewCommand, Kinds
  <2>6. CommandsStep BY <1>0, <2>1, <2>2, <2>5, ClaimsAppended
  <2>7. \A j \in Instances : RowMoves(j) BY <2>2, <2>4 DEF RowMoves
  <2> QED BY <1>1, <2>6, <2>7, HandsSame, NothingSent DEF EnsureInstance, TableStep
<1>2. ASSUME NEW i \in Instances, NEW more \in Ttls, ExtendInstance(i, more) PROVE TableStep
  <2> DEFINE new == MinTime(inst[i].desiredExp + more, inst[i].maxExp)
             e == NewCommand(i, "extend", inst[i].gen + 1)
  <2>1. /\ inst' = [inst EXCEPT ![i] = Extended(inst[i], new)] /\ cmds' = Append(cmds, e)
        /\ inst[i].active /\ inst[i].desired = "running" /\ inst[i].desiredExp < new
    BY <1>2 DEF ExtendInstance, Extensible
  <2>2. /\ inst[i] \in Row /\ inst[i].gen + 1 \in Nat
        /\ inst[i].desiredExp \in Nat /\ inst[i].maxExp \in Nat /\ more \in Nat
    BY <1>0, ConstantsAssumption DEF Row
  <2>3. new <= inst[i].maxExp /\ new \in Nat BY <2>2 DEF MinTime
  <2>4. e \in Command /\ e.inst = i /\ e.kind = "extend" /\ e.status = "pending" /\ e.gen = inst[i].gen + 1
    BY <2>2, NewCommandTyped DEF NewCommand, Kinds
  <2> HIDE DEF e, new
  <2>5. /\ Extended(inst[i], new).active = inst[i].active
        /\ Extended(inst[i], new).desired = inst[i].desired
        /\ Extended(inst[i], new).observed = inst[i].observed
        /\ Extended(inst[i], new).server = inst[i].server
        /\ Extended(inst[i], new).gen = inst[i].gen + 1
        /\ Extended(inst[i], new).desiredExp = new
        /\ Extended(inst[i], new).maxExp = inst[i].maxExp
        /\ SameReport(inst[i], Extended(inst[i], new))
    BY <2>2 DEF Extended, Row, SameReport
  <2>6. inst'[i] = Extended(inst[i], new) /\ \A j \in Instances : j # i => inst'[j] = inst[j]
    BY <1>0, <2>1
  <2>7. inst[i].desiredExp <= new BY <2>1, <2>2, <2>3
  <2>8. Prolonged(i) BY <2>1, <2>3, <2>5, <2>6, <2>7 DEF Prolonged
  <2>9. e.gen <= inst'[e.inst].gen BY <2>2, <2>4, <2>5, <2>6
  <2>10. CommandsStep
    <3>1. /\ e.gen = inst'[e.inst].gen /\ inst'[e.inst].desired = "running" /\ inst'[e.inst].active
          /\ e.kind # "start" /\ e.kind # "terminate"
      <4>1. e.inst = i /\ e.gen = inst[i].gen + 1 /\ e.kind = "extend" BY <2>4
      <4>2. inst'[i].gen = inst[i].gen + 1 /\ inst'[i].desired = "running" /\ inst'[i].active
        BY ONLY <2>1, <2>5, <2>6
      <4> QED BY ONLY <4>1, <4>2
    <3> QED BY <1>0, <2>1, <2>4, <2>9, <3>1, ClaimsAppended
  <2>11. \A j \in Instances : RowMoves(j) BY <2>6, <2>8 DEF RowMoves
  <2> QED BY <1>2, <2>10, <2>11, HandsSame, NothingSent DEF ExtendInstance, TableStep
<1>3. ASSUME NEW i \in Instances, RequestTermination(i) PROVE TableStep
  <2> DEFINE e == NewCommand(i, "terminate", inst[i].gen + 1)
  <2>1. /\ inst' = [inst EXCEPT ![i] = Stopped(inst[i])] /\ cmds' = Append(cmds, e)
        /\ inst[i].active /\ inst[i].desired = "running"
    BY <1>3 DEF RequestTermination
  <2>2. inst[i] \in Row /\ inst[i].gen \in Nat /\ inst[i].gen + 1 \in Nat BY <1>0 DEF Row
  <2>3. /\ Stopped(inst[i]).gen = inst[i].gen + 1 /\ Stopped(inst[i]).desired = "stopped"
        /\ Stopped(inst[i]).observed = inst[i].observed
        /\ Stopped(inst[i]).server = inst[i].server
        /\ Stopped(inst[i]).active = inst[i].active
        /\ SameTerms(inst[i], Stopped(inst[i])) /\ SameReport(inst[i], Stopped(inst[i]))
    BY <2>2 DEF Stopped, Row, SameTerms, SameReport
  <2>4. e \in Command /\ e.inst = i /\ e.kind = "terminate" /\ e.gen = inst[i].gen + 1 /\ e.status = "pending"
    BY <2>2, NewCommandTyped DEF NewCommand, Kinds
  <2> HIDE DEF e
  <2>5. inst'[i] = Stopped(inst[i]) /\ \A j \in Instances : j # i => inst'[j] = inst[j]
    BY <1>0, <2>1
  <2>6. 1 <= inst[i].gen BY <2>1 DEF SInv, IInv, CommandsHaveRows, Claims, CommandsFit
  <2>7. Asked(i) BY <2>1, <2>3, <2>5 DEF Asked
  <2>8. e.gen <= inst'[e.inst].gen /\ 2 <= e.gen BY <2>2, <2>3, <2>4, <2>5, <2>6
  <2>9. CommandsStep BY <1>0, <2>1, <2>4, <2>8, ClaimsAppended DEF Giving
  <2>10. \A j \in Instances : RowMoves(j) BY <2>5, <2>7 DEF RowMoves
  <2> QED BY <1>3, <2>9, <2>10, HandsSame, NothingSent DEF RequestTermination, TableStep
<1>4. ASSUME NEW i \in Instances, ReconcileInstance(i) PROVE TableStep
  <2> DEFINE e == NewCommand(i, "reconcile", inst[i].gen)
  <2>1. inst' = inst /\ cmds' = Append(cmds, e) BY <1>4 DEF ReconcileInstance
  <2>2. inst[i].gen \in Nat BY <1>0 DEF Row
  <2>3. e \in Command /\ e.inst = i /\ e.kind = "reconcile" /\ e.gen = inst[i].gen /\ e.status = "pending"
    BY <2>2, NewCommandTyped DEF NewCommand, Kinds
  <2> HIDE DEF e
  <2>4. CommandsStep
    <3>1. /\ e.gen <= inst'[e.inst].gen /\ e.kind \notin Giving
          /\ e.kind # "start" /\ e.kind # "terminate"
      BY <2>1, <2>2, <2>3 DEF Giving
    <3> QED BY <1>0, <2>1, <2>3, <3>1, ClaimsAppended
  <2> QED BY <1>4, <2>1, <2>4, RowsUnmoved, HandsSame, NothingSent DEF ReconcileInstance, TableStep
<1>5. ASSUME \/ \E b \in BOOLEAN : UpdatePrivateChallengesSetting(b)
             \/ \E ch \in Challenges, b \in BOOLEAN : PutChallengeRuntime(ch, b)
             \/ \E s \in Servers, b \in BOOLEAN, n \in Capacities : UpdateRemoteServer(s, b, n)
      PROVE  TableStep
  BY <1>5, IdleStep DEF UpdatePrivateChallengesSetting, PutChallengeRuntime, UpdateRemoteServer
<1> QED BY <1>1, <1>2, <1>3, <1>4, <1>5 DEF Api

\* The controller loop, up to and including claim_command.
LEMMA PassMoves ==
  ASSUME SInv, NEW c \in Controllers, Pass(c) PROVE TableStep
<1>0. /\ TypeOK /\ cmds \in Seq(Command) /\ inst \in [Instances -> Row] /\ ClaimsKept(cmds)
      /\ \A k \in DOMAIN cmds : cmds[k] \in Command
      /\ ctl[c] \in Session
  BY DEF SInv, IInv, Base, TypeOK, ClaimsKept
<1>m. ASSUME NEW p \in Phases, p \notin Executing, MoveTo(c, p), CommandsStep PROVE TableStep
  <2>1. [NoWork EXCEPT !.pc = p].pc = p BY DEF NoWork
  <2> QED BY <1>m, <2>1, HandsEmptied, RowsUnmoved, NothingSent DEF MoveTo, TableStep
<1>r. ASSUME NEW stale \in SUBSET DOMAIN cmds,
             cmds' = [k \in DOMAIN cmds |-> IF k \in stale THEN Released(k) ELSE cmds[k]]
      PROVE  CommandsStep
  <2>1. ASSUME NEW k \in DOMAIN cmds
        PROVE  /\ cmds'[k].attempts = cmds[k].attempts
               /\ cmds'[k].status = "claimed" => cmds[k].status = "claimed" /\ cmds'[k].token = cmds[k].token
    <3>1. CASE k \in stale BY <1>0, <1>r, <3>1 DEF Released, Command
    <3>2. CASE k \notin stale BY <1>r, <3>2
    <3> QED BY <3>1, <3>2
  <2>2. DOMAIN cmds' = DOMAIN cmds BY <1>r
  <2> QED BY <2>1, <2>2, ClaimsClosed DEF ClaimsKept
<1>1. CASE AcquireLease(c)
  <2>1. [ctl[c] EXCEPT !.pc = "startup"].pc \notin Executing BY <1>0 DEF Session, Executing
  <2> QED BY <1>1, <2>1, HandsEmptied, ClaimsSame, RowsUnmoved, NothingSent
          DEF AcquireLease, TableStep, dbVars
<1>2. CASE RecoverAllClaims(c)
  <2> DEFINE stale == {k \in DOMAIN cmds : cmds[k].status = "claimed"}
  <2>1. cmds' = [k \in DOMAIN cmds |-> IF k \in stale THEN Released(k) ELSE cmds[k]]
    BY <1>2 DEF RecoverAllClaims
  <2>2. CommandsStep BY <1>r, <2>1
  <2> QED BY <1>2, <1>m, <2>2 DEF RecoverAllClaims, Phases, Executing
<1>3. CASE CheckLease(c) \/ LeaseWasLost(c) \/ EnqueuesDone(c) \/ NothingToClaim(c)
  <2>1. CommandsStep
    BY <1>3, ClaimsSame DEF CheckLease, LeaseWasLost, EnqueuesDone, NothingToClaim
  <2> QED BY <1>3, <1>m, <2>1
          DEF CheckLease, LeaseWasLost, EnqueuesDone, NothingToClaim, Phases, Executing
<1>4. CASE RecoverStaleClaims(c)
  <2>1. CommandsStep BY <1>4, <1>r DEF RecoverStaleClaims
  <2> QED BY <1>4, <1>m, <2>1 DEF RecoverStaleClaims, Phases, Executing
<1>5. CASE ScanPolicy(c) \/ ScanOverdue(c)
  <2>1. PICK p \in {"policy", "overdue"}, T \in SUBSET Instances :
           ctl' = [ctl EXCEPT ![c] = [ctl[c] EXCEPT !.pc = p, !.todo = T]]
    BY <1>5 DEF ScanPolicy, ScanOverdue
  <2>2. [ctl[c] EXCEPT !.pc = p, !.todo = T].pc \notin Executing BY <1>0 DEF Session, Executing
  <2> QED BY <1>5, <2>1, <2>2, HandsEmptied, ClaimsSame, RowsUnmoved, NothingSent
          DEF ScanPolicy, ScanOverdue, TableStep, dbVars
<1>6. CASE QueueStop(c)
  <2>1. PICK i \in ctl[c].todo :
           /\ CreateTermination(inst, cmds, i, ctl[c].pc = "overdue")
           /\ ctl' = [ctl EXCEPT ![c] = [ctl[c] EXCEPT !.todo = ctl[c].todo \ {i}]]
    BY <1>6 DEF QueueStop
  <2>2. i \in Instances BY <1>0 DEF Session
  <2>3. [ctl[c] EXCEPT !.todo = ctl[c].todo \ {i}].pc \notin Executing
    BY <1>0, <1>6 DEF Session, Executing, QueueStop
  <2>4. PICK b \in BOOLEAN : CreateTermination(inst, cmds, i, b)
    <3>1. (ctl[c].pc = "overdue") \in BOOLEAN OBVIOUS
    <3> QED BY <2>1, <3>1
  <2>5. CommandsStep /\ \A j \in Instances : RowMoves(j) BY <1>0, <2>2, <2>4, CreateMoves
  <2> QED BY <1>6, <2>1, <2>3, <2>5, HandsEmptied, NothingSent DEF QueueStop, TableStep
<1>7. ASSUME NEW i \in Instances, EnqueueInspection(c, i) PROVE TableStep
  <2> DEFINE e == NewCommand(i, "inspect", inst[i].gen)
  <2>1. inst' = inst /\ cmds' = Append(cmds, e) BY <1>7 DEF EnqueueInspection
  <2>2. inst[i].gen \in Nat BY <1>0 DEF Row
  <2>3. e \in Command /\ e.inst = i /\ e.kind = "inspect" /\ e.gen = inst[i].gen /\ e.status = "pending"
    BY <2>2, NewCommandTyped DEF NewCommand, Kinds
  <2> HIDE DEF e
  <2>4. CommandsStep
    <3>1. /\ e.gen <= inst'[e.inst].gen /\ e.kind \notin Giving
          /\ e.kind # "start" /\ e.kind # "terminate"
      BY <2>1, <2>2, <2>3 DEF Giving
    <3> QED BY <1>0, <2>1, <2>3, <3>1, ClaimsAppended
  <2> QED BY <1>7, <2>1, <2>4, RowsUnmoved, HandsSame, NothingSent DEF EnqueueInspection, TableStep
<1>8. CASE ClaimCommand(c)
  <2>1. PICK k \in DOMAIN cmds :
          /\ cmds' = [cmds EXCEPT ![k] =
                [cmds[k] EXCEPT !.status = "claimed", !.token = cmds[k].attempts + 1,
                                !.attempts = cmds[k].attempts + 1]]
          /\ ctl' = [ctl EXCEPT ![c] =
                [NoWork EXCEPT !.pc = "loaded", !.cmd = k,
                               !.token = cmds[k].attempts + 1,
                               !.snap = inst[cmds[k].inst]]]
    BY <1>8 DEF ClaimCommand
  <2>2. /\ ctl'[c].pc = "loaded" /\ ctl'[c].cmd = k /\ ctl'[c].snap = inst[cmds[k].inst]
        /\ ctl'[c].token = cmds[k].attempts + 1
        /\ \A d \in Controllers : d # c => ctl'[d] = ctl[d]
    BY <1>0, <2>1 DEF TypeOK, NoWork
  <2>3. /\ cmds'[k].attempts = cmds[k].attempts + 1 /\ cmds'[k].token = cmds[k].attempts + 1
        /\ cmds[k].attempts \in Nat
        /\ DOMAIN cmds' = DOMAIN cmds
        /\ \A j \in DOMAIN cmds : j # k => cmds'[j] = cmds[j]
        /\ \A j \in DOMAIN cmds : cmds[j].attempts \in Nat
    BY <1>0, <2>1 DEF Command
  <2>4. CommandsStep
    <3>1. ASSUME NEW j \in DOMAIN cmds
          PROVE  /\ cmds[j].attempts <= cmds'[j].attempts
                 /\ cmds'[j].status = "claimed" =>
                       \/ /\ cmds[j].status = "claimed" /\ cmds'[j].token = cmds[j].token
                          /\ cmds'[j].attempts = cmds[j].attempts
                       \/ cmds'[j].token = cmds'[j].attempts /\ cmds[j].attempts < cmds'[j].attempts
      BY <2>3
    <3> QED BY <2>3, <3>1 DEF CommandsStep
  <2>5. inst' = inst BY <1>8 DEF ClaimCommand
  <2>6. Claimed(c) BY <2>2, <2>3, <2>5 DEF Claimed
  <2>7. \A d \in Controllers : HandMoves(d) BY <2>2, <2>6 DEF HandMoves
  <2> QED BY <1>8, <2>4, <2>5, <2>7, RowsUnmoved, NothingSent DEF ClaimCommand, TableStep
<1> QED BY <1>1, <1>2, <1>3, <1>4, <1>5, <1>6, <1>7, <1>8 DEF Pass

\* A transaction that only closes the command in hand.
LEMMA DropMoves ==
  ASSUME SInv, NEW c \in Controllers, ctl[c].pc \in Executing,
         NEW st \in {"completed", "failed", "cancelled"}, Leave(c, st)
  PROVE  TableStep
<1>1. Idle.pc \notin Executing BY DEF Idle, NoWork, Executing
<1>2. CommandsStep BY CloseClaims, ClaimsClosed DEF Leave
<1> QED BY <1>1, <1>2, RowsUnmoved, HandsEmptied, NothingSent DEF Leave, BackToLoop, TableStep

\* A transaction that writes the row and closes the command in hand.
LEMMA CommitMoves ==
  ASSUME SInv, NEW c \in Controllers, ctl[c].pc \in Executing, BackToLoop(c),
         NEW st \in {"completed", "failed", "cancelled"}, cmds' = Close(c, st),
         \A i \in Instances : RowMoves(i), UNCHANGED <<wire, hostVars>>
  PROVE  TableStep
<1>1. Idle.pc \notin Executing BY DEF Idle, NoWork, Executing
<1>2. CommandsStep BY CloseClaims, ClaimsClosed
<1> QED BY <1>1, <1>2, HandsEmptied, NothingSent DEF BackToLoop, TableStep

\* A step of a controller that writes no table.
LEMMA OnwardMoves ==
  ASSUME SInv, NEW c \in Controllers, ctl[c].pc \in Executing, ctl[c].pc # "loaded",
         ctl' = [ctl EXCEPT ![c].pc = "retry"], UNCHANGED <<dbVars, wire, hostVars>>
  PROVE  TableStep
  BY HandsOnward, ClaimsSame, RowsUnmoved, NothingSent DEF TableStep, dbVars

\* A call that is sent without a write of the tables.
LEMMA SendMoves ==
  ASSUME SInv, NEW c \in Controllers, NEW op, NEW s, Send(c, op, s), CallFor(c, op, s),
         UNCHANGED <<dbVars, hostVars>>
  PROVE  TableStep
  BY HandsSend, ClaimsSame, RowsUnmoved DEF TableStep, dbVars

\* execute_start.
LEMMA StartMoves ==
  ASSUME SInv, NEW c \in Controllers,
         \/ CancelStaleCommand(c) \/ StartUnwanted(c) \/ ExpireUnstarted(c) \/ RejectStart(c)
         \/ PassGate(c) \/ RestartAtHost(c) \/ CountServers(c) \/ StartWithdrawn(c)
         \/ NoCapacity(c) \/ PlaceAndStart(c)
         \/ RemoteRefused(c) \/ FinishStart(c) \/ LostClaimAfterStart(c)
         \/ UndoStart(c) \/ StartUndone(c)
  PROVE  TableStep
<1>0. /\ Base /\ TypeOK /\ IInv /\ inst \in [Instances -> Row] /\ ctl[c].pc \in Executing
  BY DEF SInv, IInv, Base, TypeOK, CancelStaleCommand, StartUnwanted, ExpireUnstarted, RejectStart,
         PassGate, RestartAtHost, CountServers, StartWithdrawn, NoCapacity, PlaceAndStart, RemoteRefused, FinishStart,
         LostClaimAfterStart, UndoStart, StartUndone, InHand, Starting, Replied, Executing
<1>h. Target(c) \in Instances /\ inst[Target(c)] \in Row
  BY <1>0, InHandFacts
<1>1. CASE CancelStaleCommand(c) \/ StartUnwanted(c) \/ StartWithdrawn(c) \/ StartUndone(c)
  <2>1. Leave(c, "cancelled")
    BY <1>1 DEF CancelStaleCommand, StartUnwanted, StartWithdrawn, StartUndone, Drop
  <2> QED BY <1>0, <2>1, DropMoves
<1>2. CASE ExpireUnstarted(c) \/ RejectStart(c)
  <2>0. /\ Cmd(c).kind = "start"
        /\ \/ ReleaseUnplaced(c, "expired", Cmd(c).gen)
           \/ ReleaseUnplaced(c, "failed", inst[Target(c)].obsGen)
    BY <1>2 DEF ExpireUnstarted, RejectStart, InHand
  <2>1. PICK o \in {"expired", "failed"}, g \in {Cmd(c).gen, inst[Target(c)].obsGen} :
           ReleaseUnplaced(c, o, g)
    BY <2>0
  <2> DEFINE row == [inst[Target(c)] EXCEPT !.active = FALSE, !.desired = "stopped",
                                            !.observed = o, !.obsGen = g]
  <2>2. \/ inst' = inst
        \/ /\ HoldsClaim(c) /\ RowIsCurrent(c) /\ inst[Target(c)].active
           /\ inst[Target(c)].observed = "requested"
           /\ inst' = [inst EXCEPT ![Target(c)] = row]
    BY <2>1 DEF ReleaseUnplaced
  <2>3. cmds' = Close(c, "cancelled") /\ BackToLoop(c) /\ UNCHANGED <<wire, hostVars>>
    BY <2>1 DEF ReleaseUnplaced
  <2>4. /\ row.active = FALSE /\ row.observed = o /\ row.obsGen = g
        /\ row.server = inst[Target(c)].server /\ row.gen = inst[Target(c)].gen
        /\ row.exp = inst[Target(c)].exp /\ SameTerms(inst[Target(c)], row)
    BY <1>h DEF Row, SameTerms
  <2> HIDE DEF row
  <2>5. CASE inst' = inst
    BY <1>0, <2>3, <2>5, CommitMoves, RowsUnmoved
  <2>6. CASE inst' # inst
    <3>1. cmds'[ctl[c].cmd].status = "cancelled" BY <1>0, <2>2, <2>3, <2>6, CloseClaims
    <3>2. ASSUME inst'[Target(c)] = row PROVE RowMoves(Target(c))
      <4>1. g \in {inst[Target(c)].gen, inst[Target(c)].obsGen}
        BY <2>1, <2>2, <2>6 DEF RowIsCurrent
      <4>2. Freed(Target(c), c) BY <2>0, <2>2, <2>4, <2>6, <3>1, <3>2, <4>1 DEF Freed
      <4> QED BY <1>0, <2>2, <2>6, <4>2 DEF RowMoves
    <3>3. \A j \in Instances : RowMoves(j) BY <1>h, <2>2, <2>6, <3>2, OneRowMoved
    <3> QED BY <1>0, <2>3, <3>3, CommitMoves
  <2> QED BY <2>5, <2>6
<1>3. CASE PassGate(c)
  <2>1. /\ ctl[c].pc = "loaded" /\ Cmd(c).kind = "start" /\ Cmd(c).gen = ctl[c].snap.gen
        /\ ctl' = [ctl EXCEPT ![c].pc = "gated"] /\ UNCHANGED <<dbVars, wire, hostVars>>
    BY <1>3 DEF PassGate, InHand
  <2>2. \A d \in Controllers : HandMoves(d) BY <1>0, <2>1, HandsOnward
  <2> QED BY <2>1, <2>2, ClaimsSame, RowsUnmoved, NothingSent DEF TableStep, dbVars
<1>4. CASE NoCapacity(c) \/ RemoteRefused(c) \/ LostClaimAfterStart(c)
  <2>1. /\ ctl[c].pc # "loaded" /\ ctl' = [ctl EXCEPT ![c].pc = "retry"]
        /\ UNCHANGED <<dbVars, wire, hostVars>>
    BY <1>4 DEF NoCapacity, RemoteRefused, LostClaimAfterStart, Starting, Replied
  <2> QED BY <1>0, <2>1, OnwardMoves
<1>5. CASE PlaceAndStart(c)
  <2> DEFINE row(s) == [inst[Target(c)] EXCEPT !.observed = "starting", !.server = s]
  <2>1. PICK s \in Servers :
          /\ inst' = [inst EXCEPT ![Target(c)] = row(s)] /\ Send(c, "ensure-instance", s)
          /\ StillHasRoom(c, s)
    BY <1>5 DEF PlaceAndStart, LeastLoaded
  <2>2. s \in Servers OBVIOUS
  <2>3. /\ row(s).observed = "starting" /\ row(s).server = s
        /\ SameTerms(inst[Target(c)], row(s)) /\ SameReport(inst[Target(c)], row(s))
        /\ SameWish(inst[Target(c)], row(s))
    BY <1>h DEF Row, SameTerms, SameReport, SameWish
  <2>4. /\ ctl[c].pc = "gated" /\ Cmd(c).kind = "start" /\ HoldsClaim(c) /\ RowIsCurrent(c)
        /\ inst[Target(c)].active /\ cmds' = cmds /\ UNCHANGED hostVars
        /\ ctl[c].snap.server = None
        /\ counted' = [counted EXCEPT ![c] = NoCount]
    BY <1>5 DEF PlaceAndStart, StillStartable, SelectsHost, EndPlacement, Starting, Wanted
  <2> HIDE DEF row
  <2>5. inst'[Target(c)] = row(s) /\ \A j \in Instances : j # Target(c) => inst'[j] = inst[j]
    BY <1>0, <1>h, <2>1
  <2>6. ctl'[c].pc = "await" /\ ctl'[c].server = s
    BY <1>0, <2>1 DEF Send, TypeOK, Session
  <2>f. FromCount(c, s) BY <1>0, <2>1, <2>4, <2>6 DEF FromCount, PlacesOn, StillHasRoom, TypeOK
  <2>7. Placed(Target(c), c) BY <2>1, <2>3, <2>4, <2>5, <2>6, <2>f DEF Placed
  <2>8. \A j \in Instances : RowMoves(j) BY <1>0, <2>4, <2>5, <2>7 DEF RowMoves
  <2>9. CallFor(c, "ensure-instance", s) BY <1>0, <2>2, <2>3, <2>4, <2>5 DEF CallFor
  <2> QED BY <2>1, <2>4, <2>8, <2>9, HandsSend, ClaimsSame DEF TableStep
<1>6. CASE FinishStart(c)
  <2> DEFINE row == [inst[Target(c)] EXCEPT !.observed = "ready", !.obsGen = Cmd(c).gen,
                                            !.exp = ctl[c].reply.exp, !.server = ctl[c].server]
  <2>1. /\ inst' = [inst EXCEPT ![Target(c)] = row] /\ cmds' = Close(c, "completed")
        /\ HoldsClaim(c) /\ RowIsCurrent(c) /\ BackToLoop(c) /\ UNCHANGED <<wire, hostVars>>
        /\ ctl[c].pc = "reply" /\ Cmd(c).kind = "start" /\ ctl[c].op = "ensure-instance"
    BY <1>6 DEF FinishStart, Replied
  <2>2. ctl[c].reply.outcome = "present" /\ ctl[c].reply.gen = Cmd(c).gen
    BY <1>6, <2>1 DEF FinishStart, Accepted
  <2>3. /\ row.observed = "ready" /\ row.obsGen = Cmd(c).gen /\ row.exp = ctl[c].reply.exp
        /\ row.server = ctl[c].server
        /\ SameTerms(inst[Target(c)], row) /\ SameWish(inst[Target(c)], row)
    BY <1>h DEF Row, SameTerms, SameWish
  <2> HIDE DEF row
  <2>4. ASSUME inst'[Target(c)] = row PROVE RowMoves(Target(c))
    <3>1. Confirmed(Target(c), c) BY <2>1, <2>2, <2>3, <2>4 DEF Confirmed, RowIsCurrent
    <3> QED BY <1>0, <2>1, <3>1 DEF RowMoves
  <2>5. \A j \in Instances : RowMoves(j) BY <1>h, <2>1, <2>4, OneRowMoved
  <2> QED BY <1>0, <2>1, <2>5, CommitMoves
<1>7. CASE UndoStart(c)
  <2>1. ctl[c].server \in Servers BY <1>0, <1>7, InHandFacts DEF UndoStart, Replied
  <2>2. /\ Send(c, "stop-instance", ctl[c].server) /\ ctl[c].pc = "reply"
        /\ UNCHANGED <<dbVars, hostVars>>
    BY <1>7 DEF UndoStart, Replied
  <2>3. CallFor(c, "stop-instance", ctl[c].server) BY <1>0, <2>1, <2>2 DEF CallFor
  <2> QED BY <2>2, <2>3, SendMoves
<1>8. CASE RestartAtHost(c)
  <2> DEFINE row == [inst[Target(c)] EXCEPT !.observed = "starting"]
             s == ctl[c].snap.server
  <2>1. /\ inst' = [inst EXCEPT ![Target(c)] = row] /\ Send(c, "ensure-instance", s)
        /\ ctl[c].pc = "gated" /\ Cmd(c).kind = "start" /\ HoldsClaim(c) /\ RowIsCurrent(c)
        /\ inst[Target(c)].active /\ cmds' = cmds /\ UNCHANGED hostVars
    BY <1>8 DEF RestartAtHost, StillStartable, Starting, Wanted
  <2>2. s \in Servers BY <1>0, <1>8, ReplyTyped DEF RestartAtHost, SelectsHost
  <2>3. inst[Target(c)].server = s BY <2>1, StartsWhereRowSays
  <2>4. /\ row.observed = "starting" /\ row.server = s
        /\ SameTerms(inst[Target(c)], row) /\ SameReport(inst[Target(c)], row)
        /\ SameWish(inst[Target(c)], row)
    BY <1>h, <2>3 DEF Row, SameTerms, SameReport, SameWish
  <2> HIDE DEF row, s
  <2>5. inst'[Target(c)] = row /\ \A j \in Instances : j # Target(c) => inst'[j] = inst[j]
    BY <1>0, <1>h, <2>1
  <2>6. ctl'[c].pc = "await" BY <1>0, <2>1 DEF Send, TypeOK, Session
  <2>7. Placed(Target(c), c) BY <2>1, <2>3, <2>4, <2>5, <2>6 DEF Placed
  <2>8. \A j \in Instances : RowMoves(j) BY <1>0, <2>1, <2>5, <2>7 DEF RowMoves
  <2>9. CallFor(c, "ensure-instance", s) BY <1>0, <2>1, <2>2, <2>4, <2>5 DEF CallFor
  <2> QED BY <2>1, <2>8, <2>9, HandsSend, ClaimsSame DEF TableStep
<1>9. CASE CountServers(c) BY <1>9, IdleStep DEF CountServers
<1> QED BY <1>1, <1>2, <1>3, <1>4, <1>5, <1>6, <1>7, <1>8, <1>9

\* execute_terminate, execute_extend, execute_inspect and schedule_retry.
LEMMA OtherMoves ==
  ASSUME SInv, NEW c \in Controllers,
         \/ AlreadyReleased(c) \/ StopWithdrawn(c) \/ MarkStopping(c) \/ FinishTermination(c)
         \/ ExtendUnwanted(c) \/ SendExtend(c) \/ FinishExtension(c)
         \/ SendInspect(c) \/ InspectionWithdrawn(c)
         \/ InspectedAbsent(c) \/ InspectedReady(c) \/ InspectedNotReady(c)
         \/ RetryLater(c) \/ GiveUp(c)
  PROVE  TableStep
<1>0. /\ Base /\ TypeOK /\ IInv /\ inst \in [Instances -> Row] /\ ctl[c].pc \in Executing
  BY DEF SInv, IInv, Base, TypeOK, AlreadyReleased, StopWithdrawn, MarkStopping, FinishTermination,
         ExtendUnwanted, SendExtend, FinishExtension, SendInspect, InspectionWithdrawn,
         InspectedAbsent, InspectedReady, InspectedNotReady, RetryLater, GiveUp,
         InHand, Replied, Inspected, Executing
<1>h. /\ Target(c) \in Instances /\ inst[Target(c)] \in Row /\ Cmd(c) \in Command
      /\ ctl[c].cmd \in DOMAIN cmds
      /\ ctl[c].snap.server \in Servers \cup {None}
      /\ Cmd(c).kind \in PlacedKinds => ctl[c].snap.server \in Servers
  BY <1>0, InHandFacts
<1>1. CASE AlreadyReleased(c) \/ StopWithdrawn(c) \/ ExtendUnwanted(c) \/ InspectionWithdrawn(c)
  <2>1. Leave(c, "completed") \/ Leave(c, "cancelled")
    BY <1>1 DEF AlreadyReleased, StopWithdrawn, ExtendUnwanted, InspectionWithdrawn, Drop
  <2> QED BY <1>0, <2>1, DropMoves
<1>2. CASE MarkStopping(c)
  <2> DEFINE row == [inst[Target(c)] EXCEPT !.observed = "stopping"]
  <2>1. /\ inst' = [inst EXCEPT ![Target(c)] = row] /\ cmds' = cmds /\ UNCHANGED hostVars
        /\ inst[Target(c)].active /\ ctl[c].pc = "loaded" /\ Cmd(c).kind = "terminate"
        /\ Cmd(c).gen = ctl[c].snap.gen
    BY <1>2 DEF MarkStopping, InHand
  <2>2. /\ row.observed = "stopping" /\ row.server = inst[Target(c)].server
        /\ SameTerms(inst[Target(c)], row) /\ SameReport(inst[Target(c)], row)
        /\ SameWish(inst[Target(c)], row)
    BY <1>h DEF Row, SameTerms, SameReport, SameWish
  <2> HIDE DEF row
  <2>3. ASSUME inst'[Target(c)] = row PROVE RowMoves(Target(c))
    BY <2>1, <2>2, <2>3 DEF RowMoves, Noted
  <2>4. \A j \in Instances : RowMoves(j) BY <1>h, <2>1, <2>3, OneRowMoved
  <2>5. CASE ctl[c].snap.server = None
    <3>1. ctl' = [ctl EXCEPT ![c].pc = "gated"] /\ wire' = wire
      BY <1>2, <2>5 DEF MarkStopping, StopIfPlaced
    <3>2. \A d \in Controllers : HandMoves(d) BY <1>0, <2>1, <2>5, <3>1, HandsOnward
    <3> QED BY <2>1, <2>4, <3>1, <3>2, ClaimsSame, NothingSent DEF TableStep
  <2>6. CASE ctl[c].snap.server # None
    <3>1. Send(c, "stop-instance", ctl[c].snap.server)
      BY <1>2, <2>6 DEF MarkStopping, StopIfPlaced
    <3>2. CallFor(c, "stop-instance", ctl[c].snap.server)
      BY <1>0, <1>h, <2>1, <2>6 DEF CallFor
    <3> QED BY <2>1, <2>4, <3>1, <3>2, HandsSend, ClaimsSame DEF TableStep
  <2> QED BY <2>5, <2>6
<1>3. CASE FinishTermination(c)
  <2> DEFINE done == HoldsClaim(c) /\ RowIsCurrent(c) /\ inst[Target(c)].active
             o == IF ctl[c].snap.exp <= now \/ Cmd(c).overdue THEN "expired" ELSE "terminated"
             row == [inst[Target(c)] EXCEPT !.active = FALSE, !.desired = "stopped",
                                            !.observed = o, !.obsGen = Cmd(c).gen]
  <2>1. /\ inst' = IF done THEN [inst EXCEPT ![Target(c)] = row] ELSE inst
        /\ cmds' = Close(c, IF done THEN "completed" ELSE "cancelled")
        /\ BackToLoop(c) /\ UNCHANGED <<wire, hostVars>>
        /\ Cmd(c).kind = "terminate"
    BY <1>3 DEF FinishTermination, Replied
  <2>2. \/ ctl[c].pc = "gated"
        \/ ctl[c].pc = "reply" /\ ctl[c].op = "stop-instance" /\ ctl[c].reply.outcome = "absent"
    BY <1>3 DEF FinishTermination, Replied, Accepted
  <2>3. /\ row.active = FALSE /\ row.observed = o /\ row.obsGen = Cmd(c).gen
        /\ row.server = inst[Target(c)].server /\ row.gen = inst[Target(c)].gen
        /\ row.exp = inst[Target(c)].exp /\ SameTerms(inst[Target(c)], row)
    BY <1>h DEF Row, SameTerms
  <2>o. o \in {"expired", "terminated"} OBVIOUS
  <2> HIDE DEF row, o
  <2>4. CASE ~done
    <3>1. inst' = inst /\ cmds' = Close(c, "cancelled") BY <2>1, <2>4
    <3> QED BY <1>0, <2>1, <3>1, CommitMoves, RowsUnmoved
  <2>5. CASE done
    <3>1. inst' = [inst EXCEPT ![Target(c)] = row] /\ cmds' = Close(c, "completed")
      BY <2>1, <2>5
    <3>2. ASSUME inst'[Target(c)] = row PROVE RowMoves(Target(c))
      <4>1. Freed(Target(c), c)
        BY <2>1, <2>2, <2>3, <2>o, <2>5, <3>2 DEF Freed, RowIsCurrent
      <4> QED BY <1>0, <2>5, <4>1 DEF RowMoves
    <3>3. \A j \in Instances : RowMoves(j) BY <1>h, <3>1, <3>2, OneRowMoved
    <3> QED BY <1>0, <2>1, <3>1, <3>3, CommitMoves
  <2> QED BY <2>4, <2>5
<1>4. CASE SendExtend(c)
  <2>1. /\ Send(c, "update-deadline", ctl[c].snap.server) /\ UNCHANGED <<dbVars, hostVars>>
        /\ ctl[c].pc = "loaded" /\ Cmd(c).kind = "extend" /\ Cmd(c).gen = ctl[c].snap.gen
    BY <1>4 DEF SendExtend, InHand
  <2>2. CallFor(c, "update-deadline", ctl[c].snap.server)
    BY <1>0, <1>h, <2>1 DEF CallFor, PlacedKinds
  <2> QED BY <2>1, <2>2, SendMoves
<1>5. CASE SendInspect(c)
  <2>1. /\ Send(c, "inspect-instance", ctl[c].snap.server) /\ UNCHANGED <<dbVars, hostVars>>
        /\ ctl[c].pc = "loaded" /\ Cmd(c).kind \in PlacedKinds /\ Cmd(c).gen = ctl[c].snap.gen
    BY <1>5 DEF SendInspect, InHand, PlacedKinds
  <2>2. CallFor(c, "inspect-instance", ctl[c].snap.server) BY <1>0, <1>h, <2>1 DEF CallFor
  <2> QED BY <2>1, <2>2, SendMoves
<1>6. CASE FinishExtension(c)
  <2> DEFINE done == HoldsClaim(c) /\ RowIsCurrent(c) /\ inst[Target(c)].active
             row == [inst[Target(c)] EXCEPT !.exp = ctl[c].reply.exp, !.obsGen = Cmd(c).gen]
  <2>1. /\ inst' = IF done THEN [inst EXCEPT ![Target(c)] = row] ELSE inst
        /\ cmds' = Close(c, IF done THEN "completed" ELSE "cancelled")
        /\ BackToLoop(c) /\ UNCHANGED <<wire, hostVars>>
        /\ Cmd(c).kind \in PlacedKinds /\ ctl[c].pc = "reply" /\ ctl[c].op = "update-deadline"
    BY <1>6 DEF FinishExtension, Replied, PlacedKinds
  <2>2. ctl[c].reply.outcome = "present" /\ ctl[c].reply.gen = Cmd(c).gen
    BY <1>6, <2>1 DEF FinishExtension, Accepted
  <2>3. /\ row.observed = inst[Target(c)].observed /\ row.obsGen = Cmd(c).gen
        /\ row.exp = ctl[c].reply.exp /\ row.server = inst[Target(c)].server
        /\ SameTerms(inst[Target(c)], row) /\ SameWish(inst[Target(c)], row)
    BY <1>h DEF Row, SameTerms, SameWish
  <2> HIDE DEF row
  <2>4. CASE ~done
    <3>1. inst' = inst /\ cmds' = Close(c, "cancelled") BY <2>1, <2>4
    <3> QED BY <1>0, <2>1, <3>1, CommitMoves, RowsUnmoved
  <2>5. CASE done
    <3>1. inst' = [inst EXCEPT ![Target(c)] = row] /\ cmds' = Close(c, "completed")
      BY <2>1, <2>5
    <3>2. ASSUME inst'[Target(c)] = row PROVE RowMoves(Target(c))
      <4>1. Confirmed(Target(c), c) BY <2>1, <2>2, <2>3, <2>5, <3>2 DEF Confirmed, RowIsCurrent
      <4> QED BY <1>0, <2>5, <4>1 DEF RowMoves
    <3>3. \A j \in Instances : RowMoves(j) BY <1>h, <3>1, <3>2, OneRowMoved
    <3> QED BY <1>0, <2>1, <3>1, <3>3, CommitMoves
  <2> QED BY <2>4, <2>5
<1>7. CASE InspectedAbsent(c)
  <2> DEFINE o == IF ctl[c].snap.exp <= now \/ ctl[c].snap.desired = "stopped" THEN "expired" ELSE "failed"
             row == [inst[Target(c)] EXCEPT !.active = FALSE, !.observed = o]
  <2>1. /\ inst' = [inst EXCEPT ![Target(c)] = row] /\ cmds' = Close(c, "completed")
        /\ BackToLoop(c) /\ UNCHANGED <<wire, hostVars>>
        /\ Cmd(c).kind \in PlacedKinds
        /\ HoldsClaim(c) /\ RowIsCurrent(c) /\ inst[Target(c)].active
    BY <1>7 DEF InspectedAbsent, Inspected, StillInspectable, Replied, PlacedKinds
  <2>2. /\ row.active = FALSE /\ row.observed = o /\ row.desired = inst[Target(c)].desired
        /\ row.obsGen = inst[Target(c)].obsGen
        /\ row.server = inst[Target(c)].server /\ row.gen = inst[Target(c)].gen
        /\ row.exp = inst[Target(c)].exp /\ SameTerms(inst[Target(c)], row)
    BY <1>h DEF Row, SameTerms
  <2>o. o \in {"expired", "failed"} OBVIOUS
  <2> HIDE DEF row, o
  <2>3. ASSUME inst'[Target(c)] = row PROVE RowMoves(Target(c))
    <3>1. Freed(Target(c), c) BY <2>1, <2>2, <2>o, <2>3 DEF Freed
    <3> QED BY <1>0, <2>1, <3>1 DEF RowMoves
  <2>4. \A j \in Instances : RowMoves(j) BY <1>h, <2>1, <2>3, OneRowMoved
  <2> QED BY <1>0, <2>1, <2>4, CommitMoves
<1>8. CASE InspectedReady(c)
  <2> DEFINE row == [inst[Target(c)] EXCEPT !.observed = "ready", !.obsGen = Cmd(c).gen]
  <2>1. /\ inst' = [inst EXCEPT ![Target(c)] = row] /\ cmds' = Close(c, "completed")
        /\ BackToLoop(c) /\ UNCHANGED <<wire, hostVars>>
        /\ Cmd(c).kind \in PlacedKinds /\ ctl[c].pc = "reply" /\ ctl[c].op = "inspect-instance"
        /\ HoldsClaim(c) /\ RowIsCurrent(c) /\ inst[Target(c)].active
        /\ Accepted(c) /\ ctl[c].reply.outcome = "present"
    BY <1>8 DEF InspectedReady, Inspected, StillInspectable, Replied, PlacedKinds
  <2>2. ctl[c].reply.gen = Cmd(c).gen BY <2>1 DEF Accepted
  <2>3. /\ row.observed = "ready" /\ row.obsGen = Cmd(c).gen
        /\ row.exp = inst[Target(c)].exp /\ row.server = inst[Target(c)].server
        /\ SameTerms(inst[Target(c)], row) /\ SameWish(inst[Target(c)], row)
    BY <1>h DEF Row, SameTerms, SameWish
  <2> HIDE DEF row
  <2>4. ASSUME inst'[Target(c)] = row PROVE RowMoves(Target(c))
    <3>1. Confirmed(Target(c), c) BY <2>1, <2>2, <2>3, <2>4 DEF Confirmed, RowIsCurrent
    <3> QED BY <1>0, <2>1, <3>1 DEF RowMoves
  <2>5. \A j \in Instances : RowMoves(j) BY <1>h, <2>1, <2>4, OneRowMoved
  <2> QED BY <1>0, <2>1, <2>5, CommitMoves
<1>n. ASSUME NEW o \in Observed, o \notin {"none", "requested"}, inst[Target(c)].active
      PROVE  LET rows == [inst EXCEPT ![Target(c)].observed = o] IN
             /\ rows \in [Instances -> Row]
             /\ \A j \in Instances : j # Target(c) => rows[j] = inst[j]
             /\ SameTerms(inst[Target(c)], rows[Target(c)])
             /\ SameReport(inst[Target(c)], rows[Target(c)])
             /\ SameWish(inst[Target(c)], rows[Target(c)])
             /\ rows[Target(c)].server = inst[Target(c)].server
             /\ rows[Target(c)].observed = o
  BY <1>0, <1>h, <1>n DEF Row, SameTerms, SameReport, SameWish
<1>m. ASSUME NEW o \in Observed, o \notin {"none", "requested"}, inst[Target(c)].active,
             NEW st \in {"completed", "failed", "cancelled"},
             CreateTermination([inst EXCEPT ![Target(c)].observed = o], Close(c, st), Target(c), FALSE)
      PROVE  CommandsStep /\ \A j \in Instances : RowMoves(j)
  <2> DEFINE rows == [inst EXCEPT ![Target(c)].observed = o]
             cs == Close(c, st)
  <2>1. /\ rows \in [Instances -> Row] /\ \A j \in Instances : j # Target(c) => rows[j] = inst[j]
        /\ SameTerms(inst[Target(c)], rows[Target(c)])
        /\ SameReport(inst[Target(c)], rows[Target(c)])
        /\ SameWish(inst[Target(c)], rows[Target(c)])
        /\ rows[Target(c)].server = inst[Target(c)].server
        /\ rows[Target(c)].observed \notin {"none", "requested"}
    BY <1>n, <1>m
  <2>2. DOMAIN cs = DOMAIN cmds /\ cs \in Seq(Command) /\ ClaimsKept(cs) BY <1>0, CloseClaims
  <2>3. CreateTermination(rows, cs, Target(c), FALSE) BY <1>m
  <2>4. inst[Target(c)].active BY <1>m
  <2> HIDE DEF rows, cs
  <2> QED BY <1>h, <2>1, <2>2, <2>3, <2>4, CreateMoves
<1>9. CASE InspectedNotReady(c)
  <2>1. /\ CreateTermination([inst EXCEPT ![Target(c)].observed = "cleanup_pending"],
                             Close(c, "completed"), Target(c), FALSE)
        /\ inst[Target(c)].active /\ BackToLoop(c) /\ UNCHANGED <<wire, hostVars>>
    BY <1>9 DEF InspectedNotReady, StillInspectable
  <2>2. CommandsStep /\ \A j \in Instances : RowMoves(j)
    BY <1>m, <2>1 DEF Observed
  <2>3. Idle.pc \notin Executing BY DEF Idle, NoWork, Executing
  <2> QED BY <2>1, <2>2, <2>3, HandsEmptied, NothingSent DEF BackToLoop, TableStep
<1>10. CASE RetryLater(c)
  <2>1. /\ DOMAIN cmds' = DOMAIN cmds /\ ClaimsKept(cmds')
    <3>1. \A k \in DOMAIN cmds : cmds[k] \in Command BY <1>0 DEF TypeOK
    <3> QED BY <1>h, <1>10, <3>1 DEF RetryLater, ClaimsKept, Command
  <2>2. CommandsStep BY <2>1, ClaimsClosed
  <2>3. Idle.pc \notin Executing BY DEF Idle, NoWork, Executing
  <2> QED BY <1>10, <2>2, <2>3, RowsUnmoved, HandsEmptied, NothingSent
          DEF RetryLater, BackToLoop, TableStep
<1>11. CASE GiveUp(c)
  <2> DEFINE touched == RowIsCurrent(c) /\ inst[Target(c)].active
             o == FailedState(Cmd(c).kind)
             rows == IF touched THEN [inst EXCEPT ![Target(c)].observed = o] ELSE inst
  <2>1. /\ IF touched /\ Cmd(c).kind = "start"
           THEN CreateTermination(rows, Close(c, "failed"), Target(c), FALSE)
           ELSE inst' = rows /\ cmds' = Close(c, "failed")
        /\ BackToLoop(c) /\ UNCHANGED <<wire, hostVars>>
    BY <1>11 DEF GiveUp
  <2>2. o \in Observed /\ o \notin {"none", "requested"} BY DEF FailedState, Observed
  <2> HIDE DEF o
  <2>3. CASE ~touched
    <3>1. inst' = inst /\ cmds' = Close(c, "failed") BY <2>1, <2>3
    <3> QED BY <1>0, <2>1, <3>1, CommitMoves, RowsUnmoved
  <2>4. CASE touched /\ Cmd(c).kind = "start"
    <3>1. CreateTermination([inst EXCEPT ![Target(c)].observed = o], Close(c, "failed"), Target(c), FALSE)
      BY <2>1, <2>4
    <3>2. CommandsStep /\ \A j \in Instances : RowMoves(j)
      BY <1>m, <2>2, <2>4, <3>1
    <3>3. Idle.pc \notin Executing BY DEF Idle, NoWork, Executing
    <3> QED BY <2>1, <3>2, <3>3, HandsEmptied, NothingSent DEF BackToLoop, TableStep
  <2>5. CASE touched /\ Cmd(c).kind # "start"
    <3>1. inst' = [inst EXCEPT ![Target(c)].observed = o] /\ cmds' = Close(c, "failed")
      BY <2>1, <2>5
    <3>2. \A j \in Instances : RowMoves(j)
      BY <1>n, <2>2, <2>5, <3>1 DEF RowMoves, Noted
    <3> QED BY <1>0, <2>1, <3>1, <3>2, CommitMoves
  <2> QED BY <2>3, <2>4, <2>5
<1> QED BY <1>1, <1>2, <1>3, <1>4, <1>5, <1>6, <1>7, <1>8, <1>9, <1>10, <1>11

\* Time, the ends of waits and the faults of controllers.
LEMMA FaultMoves ==
  ASSUME SInv,
         \/ Tick \/ LoseLease
         \/ \E k \in DOMAIN cmds : BackoffElapses(k) \/ FailureAges(k)
         \/ \E c \in Controllers : RemoteTimeout(c) \/ Crash(c)
  PROVE  TableStep
<1>0. TypeOK BY DEF SInv, IInv, Base
<1>1. CASE Tick \/ LoseLease BY <1>1, IdleStep DEF Tick, LoseLease
<1>2. ASSUME NEW k \in DOMAIN cmds, BackoffElapses(k) \/ FailureAges(k) PROVE TableStep
  <2>1. ASSUME NEW j \in DOMAIN cmds
        PROVE  /\ cmds'[j].attempts = cmds[j].attempts
               /\ cmds'[j].token = cmds[j].token /\ cmds'[j].status = cmds[j].status
    <3>1. cmds[j] \in Command BY <1>0 DEF TypeOK
    <3>2. CASE j = k BY <1>2, <3>1, <3>2 DEF BackoffElapses, FailureAges, Command
    <3>3. CASE j # k BY <1>2, <3>3 DEF BackoffElapses, FailureAges
    <3> QED BY <3>2, <3>3
  <2>2. DOMAIN cmds' = DOMAIN cmds BY <1>2 DEF BackoffElapses, FailureAges
  <2>3. CommandsStep BY <2>1, <2>2, ClaimsClosed DEF ClaimsKept
  <2> QED BY <1>2, <2>3, RowsUnmoved, HandsSame, NothingSent
          DEF BackoffElapses, FailureAges, TableStep
<1>3. ASSUME NEW c \in Controllers, RemoteTimeout(c) PROVE TableStep
  <2>1. ctl[c].pc \in Executing /\ ctl[c].pc # "loaded" BY <1>3 DEF RemoteTimeout, Executing
  <2> QED BY <1>3, <2>1, OnwardMoves DEF RemoteTimeout
<1>4. ASSUME NEW c \in Controllers, Crash(c) PROVE TableStep
  <2>1. NoWork.pc \notin Executing BY DEF NoWork, Executing
  <2> QED BY <1>4, <2>1, HandsEmptied, ClaimsSame, RowsUnmoved, NothingSent
          DEF Crash, TableStep, dbVars
<1> QED BY <1>1, <1>2, <1>3, <1>4

\* What an operation of the helper does to the workload w and the fence t of its
\* instance: nothing, or it clears and fences it, or it gives a workload that is not
\* fenced the generation and the deadline of the call.
LEMMA OutcomeMoves ==
  ASSUME TypeOK, NEW r \in Request, NEW w \in Workload, NEW t \in BOOLEAN
  PROVE  LET o == Outcome(r, w, t) IN
         /\ \/ o.w = w /\ (o.t <=> t)
            \/ o.w = NoWorkload /\ o.t
            \/ /\ ~t /\ ~o.t /\ o.w.present /\ r.op \in GivingCalls
               /\ o.w.gen = r.gen /\ o.w.deadline = r.exp
               /\ w.present => w.gen <= r.gen
         /\ o.outcome = "present" => o.w.present
         /\ o.outcome = "absent" /\ r.op = "stop-instance" => o.t
<1>1. r.gen \in Nat /\ r.exp \in Nat /\ now \in Nat /\ w.gen \in Nat BY DEF Request, Workload, TypeOK
<1> DEFINE new == [present |-> TRUE, gen |-> r.gen, deadline |-> r.exp, ready |-> TRUE]
           longer == [w EXCEPT !.deadline = r.exp]
           later == [w EXCEPT !.gen = r.gen, !.deadline = r.exp]
<1>2. /\ new.present /\ new.gen = r.gen /\ new.deadline = r.exp
      /\ longer.present = w.present /\ longer.gen = w.gen /\ longer.deadline = r.exp
      /\ later.present = w.present /\ later.gen = r.gen /\ later.deadline = r.exp
  BY DEF Workload
<1> HIDE DEF new, longer, later
<1>3. CASE r.op = "ensure-instance"
  <2> DEFINE o == EnsureOutcome(r, w, t)
  <2>1. \/ o.w = w /\ o.t = t /\ o.outcome \in {"stale", "error"}
        \/ o.w = new /\ o.t = t /\ ~t /\ ~w.present
        \/ o.w = longer /\ o.t = t /\ ~t /\ w.present /\ w.gen = r.gen
    BY <1>1 DEF EnsureOutcome, new, longer
  <2>2. Outcome(r, w, t) = o BY <1>3 DEF Outcome
  <2> HIDE DEF o
  <2> QED BY <1>1, <1>2, <1>3, <2>1, <2>2 DEF GivingCalls
<1>4. CASE r.op = "stop-instance"
  <2> DEFINE o == StopOutcome(r, w, t)
  <2>1. \/ o.w = w /\ o.t = t /\ o.outcome = "stale"
        \/ o.w = NoWorkload /\ o.t = TRUE /\ o.outcome = "absent"
    BY DEF StopOutcome
  <2>2. Outcome(r, w, t) = o BY <1>4 DEF Outcome
  <2> HIDE DEF o
  <2> QED BY <2>1, <2>2
<1>5. CASE r.op = "update-deadline"
  <2> DEFINE o == UpdateOutcome(r, w, t)
  <2>1. \/ o.w = w /\ o.t = t /\ o.outcome \in {"stale", "error"}
        \/ o.w = later /\ o.t = t /\ ~t /\ w.present /\ w.gen <= r.gen /\ o.outcome = "present"
    BY <1>1 DEF UpdateOutcome, later
  <2>2. Outcome(r, w, t) = o BY <1>5 DEF Outcome
  <2> HIDE DEF o
  <2> QED BY <1>2, <1>5, <2>1, <2>2 DEF GivingCalls
<1>6. CASE r.op = "inspect-instance"
  <2> DEFINE o == InspectOutcome(w, t)
  <2>1. o.w = w /\ o.t = t /\ (o.outcome = "present" => w.present) BY DEF InspectOutcome
  <2>2. Outcome(r, w, t) = o BY <1>6 DEF Outcome
  <2> HIDE DEF o
  <2> QED BY <1>6, <2>1, <2>2
<1> QED BY <1>3, <1>4, <1>5, <1>6 DEF Request, Operations

\* A reply reaches the controller that waits for it.
LEMMA DeliverMoves ==
  ASSUME SInv, NEW r \in wire, NEW o, NEW w, Deliver(r, Answer(o, w)),
         o = "present" => w.present /\ host'[r.server][r.inst] = w,
         o = "absent" /\ r.op = "stop-instance" => r.inst \in tomb'[r.server]
  PROVE  wire' \subseteq wire /\ \A c \in Controllers : HandAnswered(c)
<1> SUFFICES ASSUME NEW c \in Controllers PROVE HandAnswered(c) BY DEF Deliver
<1>1. ctl[c] \in Session BY DEF SInv, IInv, Base, TypeOK
<1>2. \/ ctl'[c] = ctl[c]
      \/ /\ ctl[c].pc = "await" /\ ctl[c].op = r.op /\ ctl[c].cmd = r.cmd
         /\ ctl'[c] = [ctl[c] EXCEPT !.pc = "reply", !.reply = Answer(o, w)]
  BY DEF Deliver
<1>3. /\ Answer(o, w).outcome = o /\ Answer(o, w).gen = w.gen /\ Answer(o, w).exp = w.deadline
  BY DEF Answer
<1>4. CASE ctl'[c] # ctl[c]
  <2>1. PICK n : n = [ctl[c] EXCEPT !.pc = "reply", !.reply = Answer(o, w)] OBVIOUS
  <2>2. /\ n.pc = "reply" /\ n.reply = Answer(o, w) /\ n.cmd = ctl[c].cmd /\ n.snap = ctl[c].snap
        /\ n.token = ctl[c].token /\ n.op = ctl[c].op /\ n.server = ctl[c].server
    BY <1>1, <2>1 DEF Session
  <2>3. ctl'[c] = n /\ ctl[c].pc = "await" /\ ctl[c].op = r.op /\ ctl[c].cmd = r.cmd
    BY <1>2, <1>4, <2>1
  <2> QED BY <1>3, <2>2, <2>3 DEF HandAnswered
<1> QED BY <1>4 DEF HandAnswered

\* The helper and the timers on the hosts.
LEMMA ServeMoves ==
  ASSUME SInv,
         \/ \E s \in Servers, i \in Instances : ExpireWorkload(s, i) \/ ContainerExits(s, i)
         \/ \E r \in wire : ServeRequest(r) \/ StartupFails(r) \/ HelperDies(r)
  PROVE  HostStep
<1>0. /\ TypeOK /\ FencesHold
      /\ \A s \in Servers, i \in Instances : host[s][i] \in Workload
      /\ host \in [Servers -> [Instances -> Workload]] /\ tomb \in [Servers -> SUBSET Instances]
  BY DEF SInv, IInv, Base, TypeOK, Calls
<1>1. NoWorkload.present = FALSE BY DEF NoWorkload
<1>a. ASSUME ctl' = ctl PROVE \A c \in Controllers : HandAnswered(c) BY <1>a DEF HandAnswered
<1>2. ASSUME NEW s \in Servers, NEW i \in Instances, ExpireWorkload(s, i) PROVE HostStep
  <2>1. host' = [host EXCEPT ![s][i] = NoWorkload] /\ tomb' = [tomb EXCEPT ![s] = tomb[s] \cup {i}]
    BY <1>2 DEF ExpireWorkload
  <2>2. \A u \in Servers, j \in Instances : HostMoves(u, j) BY <1>0, <2>1 DEF HostMoves
  <2> QED BY <1>2, <1>a, <2>2 DEF ExpireWorkload, HostStep
<1>3. ASSUME NEW s \in Servers, NEW i \in Instances, ContainerExits(s, i) PROVE HostStep
  <2>1. /\ host' = [host EXCEPT ![s][i] = [host[s][i] EXCEPT !.ready = FALSE]]
        /\ tomb' = tomb /\ host[s][i].present
    BY <1>3 DEF ContainerExits
  <2> DEFINE w == [host[s][i] EXCEPT !.ready = FALSE]
  <2>2. w.present = host[s][i].present /\ w.gen = host[s][i].gen /\ w.deadline = host[s][i].deadline
    BY <1>0 DEF Workload
  <2> HIDE DEF w
  <2>3. host' = [host EXCEPT ![s][i] = w] BY <2>1 DEF w
  <2>4. \A u \in Servers, j \in Instances : HostMoves(u, j)
    BY <1>0, <2>1, <2>2, <2>3 DEF HostMoves
  <2> QED BY <1>3, <1>a, <2>4 DEF ContainerExits, HostStep
<1>4. ASSUME NEW r \in wire, ServeRequest(r) PROVE HostStep
  <2> DEFINE t == r.inst \in tomb[r.server]
             old == host[r.server][r.inst]
             o == Outcome(r, old, t)
             w == o.w
             f == o.t
  <2>1. r \in Request /\ r.server \in Servers /\ r.inst \in Instances BY <1>0 DEF TypeOK, Request
  <2>2. old \in Workload /\ t \in BOOLEAN BY <1>0, <2>1
  <2> HIDE DEF t, old
  <2>3. /\ \/ w = old /\ (f <=> t)
           \/ w = NoWorkload /\ f
           \/ /\ ~t /\ ~f /\ w.present /\ r.op \in GivingCalls
              /\ w.gen = r.gen /\ w.deadline = r.exp
              /\ old.present => old.gen <= r.gen
        /\ o.outcome = "present" => w.present
        /\ o.outcome = "absent" /\ r.op = "stop-instance" => f
    BY <1>0, <2>1, <2>2, OutcomeMoves
  <2>4. /\ host' = [host EXCEPT ![r.server][r.inst] = w]
        /\ tomb' = [tomb EXCEPT ![r.server] = IF f THEN tomb[r.server] \cup {r.inst} ELSE tomb[r.server]]
        /\ Deliver(r, Answer(o.outcome, w))
        /\ UNCHANGED dbVars
    BY <1>4 DEF ServeRequest, old, t
  <2>5. (t <=> r.inst \in tomb[r.server]) /\ old = host[r.server][r.inst] BY DEF old, t
  <2> DEFINE out == o.outcome
  <2>6. /\ Deliver(r, Answer(out, w)) /\ (out = "present" => w.present)
        /\ (out = "absent" /\ r.op = "stop-instance" => f)
    BY <2>3, <2>4
  <2> HIDE DEF out, w, f, o
  <2>7. host'[r.server][r.inst] = w /\ (f => r.inst \in tomb'[r.server])
    BY <1>0, <2>1, <2>4
  <2>8. wire' \subseteq wire /\ \A c \in Controllers : HandAnswered(c)
    BY <2>6, <2>7, DeliverMoves
  <2>9. ASSUME NEW u \in Servers, NEW j \in Instances PROVE HostMoves(u, j)
    <3>1. CASE u = r.server /\ j = r.inst
      <4>1. r.inst \in tomb'[r.server] <=> f \/ t BY <1>0, <2>1, <2>4, <2>5
      <4>2. CASE w = old /\ (f <=> t)
        BY <2>5, <2>7, <3>1, <4>1, <4>2 DEF HostMoves
      <4>3. CASE w = NoWorkload /\ f BY <2>7, <3>1, <4>3 DEF HostMoves
      <4>4. CASE /\ ~t /\ ~f /\ w.present /\ r.op \in GivingCalls
                 /\ w.gen = r.gen /\ w.deadline = r.exp
                 /\ old.present => old.gen <= r.gen
        BY <2>5, <2>7, <3>1, <4>1, <4>4 DEF HostMoves
      <4> QED BY <2>3, <4>2, <4>3, <4>4
    <3>2. CASE ~(u = r.server /\ j = r.inst)
      <4>1. host'[u][j] = host[u][j] /\ (j \in tomb'[u] <=> j \in tomb[u])
        BY <1>0, <2>1, <2>4, <3>2
      <4> QED BY <4>1 DEF HostMoves
    <3> QED BY <3>1, <3>2
  <2> QED BY <2>4, <2>8, <2>9 DEF HostStep
<1>5. ASSUME NEW r \in wire, StartupFails(r) PROVE HostStep
  <2>1. wire' \subseteq wire /\ \A c \in Controllers : HandAnswered(c)
    BY <1>5, DeliverMoves DEF StartupFails
  <2> QED BY <1>5, <2>1 DEF StartupFails, HostStep, HostMoves, hostVars
<1>6. ASSUME NEW r \in wire, HelperDies(r) PROVE HostStep
  <2>1. wire' \subseteq wire /\ \A c \in Controllers : HandAnswered(c)
    BY <1>6, DeliverMoves DEF HelperDies
  <2>2. r.server \in Servers /\ r.inst \in Instances BY <1>0 DEF TypeOK, Request
  <2>3. /\ tomb' = [tomb EXCEPT ![r.server] = tomb[r.server] \cup {r.inst}] /\ host' = host
        /\ ~host[r.server][r.inst].present
    BY <1>6 DEF HelperDies
  <2>4. host[r.server][r.inst] = NoWorkload BY <1>0, <2>2, <2>3 DEF FencesHold
  <2>5. \A u \in Servers, j \in Instances : HostMoves(u, j)
    BY <1>0, <2>2, <2>3, <2>4 DEF HostMoves
  <2> QED BY <1>6, <2>1, <2>5 DEF HelperDies, HostStep
<1> QED BY <1>2, <1>3, <1>4, <1>5, <1>6

----------------------------------------------------------------------------
(* The theorems *)

\* A step of the control plane is a step on the tables or a step of a host.
LEMMA StepsAsListed ==
  ASSUME SInv, [Next]_vars PROVE DbStep /\ (TableStep \/ HostStep)
<1>0. IInv BY DEF SInv
<1>1. CASE UNCHANGED vars
  <2>1. UNCHANGED <<dbVars, ctl, wire, hostVars>> BY <1>1 DEF vars, dbVars, hostVars
  <2> QED BY <1>0, <2>1, IdleStep, DbUnchanged DEF dbVars
<1>2. CASE Api BY <1>0, <1>2, ApiSteps, ApiMoves
<1>3. CASE Environment
  BY <1>0, <1>3, EnvironmentSteps, FaultMoves, ServeMoves DEF Environment
<1>4. ASSUME NEW c \in Controllers, Controller(c) PROVE DbStep /\ TableStep
  <2>1. CASE Pass(c) BY <1>0, <2>1, PassSteps, PassMoves
  <2>2. CASE Execute(c) BY <1>0, <2>2, StartSteps, OtherSteps, StartMoves, OtherMoves DEF Execute
  <2> QED BY <1>4, <2>1, <2>2 DEF Controller
<1> QED BY <1>1, <1>2, <1>3, <1>4 DEF Next

\* Every step preserves the invariant.
LEMMA SlotsStep == SInv /\ [Next]_vars => SInv'
<1> SUFFICES ASSUME SInv, [Next]_vars PROVE SInv' OBVIOUS
<1>1. IInv' BY StepHolds DEF SInv
<1> QED BY <1>1, StepsAsListed, TableStepHolds, HostStepHolds

\* The empty tables and hosts satisfy it.
LEMMA SlotsInit == Init => SInv
<1> SUFFICES ASSUME Init PROVE SInv OBVIOUS
<1>0. IInv BY InitHolds
<1>1. /\ \A i \in Instances : inst[i] = NoRow
      /\ \A c \in Controllers : ctl[c].pc = "down"
      /\ DOMAIN cmds = {} /\ wire = {}
      /\ \A s \in Servers : tomb[s] = {}
      /\ \A s \in Servers, i \in Instances : host[s][i] = NoWorkload
  BY DEF Init, NoWork
<1>2. /\ NoRow.active = FALSE /\ NoRow.server = None /\ NoRow.observed = "none"
      /\ NoRow.desired = "stopped" /\ NoRow.gen = 0 /\ NoRow.obsGen = 0
      /\ NoRow.exp = 0 /\ NoRow.desiredExp = 0 /\ NoRow.maxExp = 0
      /\ NoWorkload.present = FALSE
  BY DEF NoRow, NoWorkload
<1>3. Claims BY <1>1, <1>2 DEF Claims, CommandsFit, TokensDiffer, HandsFit, Exists, Executing
<1>4. Placements
  <2>1. \A s \in Servers : PlacedOn(s) = {} BY <1>1, <1>2 DEF PlacedOn
  <2>2. SlotsFinite BY <2>1, FS_EmptySet DEF SlotsFinite
  <2> QED BY <1>1, <1>2, <2>2
          DEF Placements, HandsPlaced, RequestedUnplaced, OneHostPerInstance, Executing
<1>5. ASSUME NEW i \in Instances, NEW g \in Nat, NEW e \in Nat
      PROVE  ~Given(i, g, e) /\ (Known(i, g, e) => g = 0 /\ e = 0)
  BY <1>1, <1>2 DEF Given, Known, Loaded, Executing
<1>6. Calls BY <1>1, <1>2, <1>5 DEF Calls, CallsFit, FencesHold, RepliesHold, GivenByCommand
<1>7. Stops
  BY <1>1, <1>2 DEF Stops, StopsAhead, StartsSettled, StoppedSlotIsDrained, ReleasedByStop, Exists
<1>8. Deadlines BY <1>1, <1>2, <1>5 DEF Deadlines, DeadlinesGrow, PromisesHold
<1> QED BY <1>0, <1>3, <1>4, <1>6, <1>7, <1>8 DEF SInv

\* The inductive invariant holds in every reachable state, whatever crashes, lost
\* leases, timeouts, delayed calls and API requests happen.
THEOREM SlotsInvariance == Spec => []SInv
  BY SlotsInit, SlotsStep, PTL DEF Spec

\* For any number of servers and controllers: a workload only ever runs, and a call
\* only ever goes, where the row of the instance says (mark_starting: a reclaimed
\* start reuses the host of the first claimant).
THEOREM WorkloadRunsWhereRowSays == Spec => []OneHostPerInstance
<1>1. SInv => OneHostPerInstance BY DEF SInv, Placements
<1> QED BY <1>1, SlotsInvariance, PTL

\* A server takes one instance at a time, and only where a placement counted room.
LEMMA LoadGrows ==
  ASSUME SInv, [Next]_vars, NEW s \in Servers
  PROVE  /\ Load(s) \in Nat /\ Load(s)' \in Nat
         /\ \/ Load(s)' <= Load(s)
            \/ Load(s)' <= Load(s) + 1 /\ \E c \in Controllers : FromCount(c, s)
<1>1. IsFiniteSet(PlacedOn(s)) /\ Load(s) \in Nat
  BY FS_CardinalityType DEF SInv, Placements, SlotsFinite, Load
<1>2. CASE PlacedOn(s)' \subseteq PlacedOn(s)
  BY <1>1, <1>2, FS_Subset, FS_CardinalityType DEF Load
<1>3. ASSUME NEW i, PlacedOn(s)' \subseteq PlacedOn(s) \cup {i}
      PROVE  Load(s)' \in Nat /\ Load(s)' <= Load(s) + 1
  <2>1. /\ IsFiniteSet(PlacedOn(s) \cup {i})
        /\ Cardinality(PlacedOn(s) \cup {i}) \in {Load(s), Load(s) + 1}
    BY <1>1, FS_AddElement DEF Load
  <2>2. IsFiniteSet(PlacedOn(s)') /\ Cardinality(PlacedOn(s)') <= Cardinality(PlacedOn(s) \cup {i})
    BY <1>3, <2>1, FS_Subset
  <2>3. Cardinality(PlacedOn(s)') \in Nat BY <2>2, FS_CardinalityType
  <2> QED BY <1>1, <2>1, <2>2, <2>3 DEF Load
<1>4. CASE HostStep
  BY <1>2, <1>4 DEF HostStep, dbVars, PlacedOn
<1>5. CASE TableStep BY <1>1, <1>2, <1>3, <1>5, OneMorePlaced
<1> QED BY <1>4, <1>5, StepsAsListed

\* What a set holds beyond another.
LEMMA NoMoreThanTwoParts ==
  ASSUME NEW S, NEW T, IsFiniteSet(S), IsFiniteSet(T)
  PROVE  Cardinality(S) <= Cardinality(T) + Cardinality(S \ T)
<1>1. /\ IsFiniteSet(S \ T) /\ IsFiniteSet(S \cap T)
      /\ Cardinality(S \ T) = Cardinality(S) - Cardinality(S \cap T)
  BY FS_Difference, FS_Subset
<1>2. Cardinality(S \cap T) <= Cardinality(T) BY FS_Subset
<1>3. /\ Cardinality(S) \in Nat /\ Cardinality(T) \in Nat
      /\ Cardinality(S \ T) \in Nat /\ Cardinality(S \cap T) \in Nat
  BY <1>1, FS_CardinalityType
<1> QED BY <1>1, <1>2, <1>3

\* A controller's count is taken by CountServers and dropped when its placement ends.
LEMMA CountsMove ==
  ASSUME SInv, [Next]_vars, NEW c \in Controllers
  PROVE  counted'[c] \in {counted[c], NoCount} \/ CountServers(c)
<1>0. counted \in [Controllers -> Counts] BY DEF SInv, IInv, Base, TypeOK
<1>1. ASSUME UNCHANGED counted PROVE counted'[c] = counted[c] BY <1>1
<1>2. ASSUME NEW d \in Controllers, EndPlacement(d) PROVE counted'[c] \in {counted[c], NoCount}
  BY <1>0, <1>2 DEF EndPlacement
<1>3. CASE UNCHANGED vars BY <1>1, <1>3 DEF vars
<1>4. CASE Api
  BY <1>1, <1>4 DEF Api, EnsureInstance, ExtendInstance, RequestTermination, ReconcileInstance,
         UpdatePrivateChallengesSetting, PutChallengeRuntime, UpdateRemoteServer
<1>5. CASE Environment
  <2>1. ASSUME NEW d \in Controllers, Crash(d) PROVE counted'[c] \in {counted[c], NoCount}
    BY <1>2, <2>1 DEF Crash
  <2> QED BY <1>1, <1>5, <2>1
          DEF Environment, Tick, LoseLease, BackoffElapses, FailureAges, RemoteTimeout,
              ExpireWorkload, ContainerExits, ServeRequest, StartupFails, HelperDies
<1>6. ASSUME NEW d \in Controllers, Pass(d) PROVE counted'[c] \in {counted[c], NoCount}
  BY <1>1, <1>6
     DEF Pass, AcquireLease, RecoverAllClaims, CheckLease, LeaseWasLost, RecoverStaleClaims,
         ScanPolicy, ScanOverdue, QueueStop, EnqueueInspection, EnqueuesDone, ClaimCommand,
         NothingToClaim, MoveTo
<1>7. ASSUME NEW d \in Controllers, CountServers(d)
      PROVE  counted'[c] \in {counted[c], NoCount} \/ CountServers(c)
  BY <1>0, <1>7 DEF CountServers
<1>8. ASSUME NEW d \in Controllers, Execute(d), ~CountServers(d)
      PROVE  counted'[c] \in {counted[c], NoCount}
  <2>1. CASE StartWithdrawn(d) \/ NoCapacity(d) \/ PlaceAndStart(d)
    BY <1>2, <2>1 DEF StartWithdrawn, NoCapacity, PlaceAndStart
  <2>2. CASE ~(StartWithdrawn(d) \/ NoCapacity(d) \/ PlaceAndStart(d))
    <3>1. UNCHANGED counted
      BY <1>8, <2>2
         DEF Execute, CancelStaleCommand, StartUnwanted, ExpireUnstarted, RejectStart, PassGate,
             RestartAtHost, RemoteRefused, FinishStart, LostClaimAfterStart, UndoStart, StartUndone,
             AlreadyReleased, StopWithdrawn, MarkStopping, FinishTermination, ExtendUnwanted,
             SendExtend, FinishExtension, SendInspect, InspectionWithdrawn, InspectedAbsent,
             InspectedReady, InspectedNotReady, RetryLater, GiveUp, Drop, ReleaseUnplaced
    <3> QED BY <1>1, <3>1
  <2> QED BY <2>1, <2>2
<1> QED BY <1>3, <1>4, <1>5, <1>6, <1>7, <1>8 DEF Next, Controller

\* What a placement has counted on a server is finite.
CountsFinite == \A c \in Controllers : \A s \in DOMAIN counted[c] : IsFiniteSet(counted[c][s])

LEMMA CountsFiniteInit == Init => CountsFinite
  BY DEF Init, NoCount, CountsFinite

LEMMA CountsFiniteStep == SInv /\ CountsFinite /\ [Next]_vars => CountsFinite'
<1> SUFFICES ASSUME SInv, CountsFinite, [Next]_vars, NEW c \in Controllers,
                    NEW s \in DOMAIN counted'[c]
             PROVE  IsFiniteSet(counted'[c][s])
  BY DEF CountsFinite
<1>1. CASE counted'[c] \in {counted[c], NoCount} BY <1>1 DEF CountsFinite, NoCount
<1>2. CASE CountServers(c)
  <2>1. counted'[c] = [u \in WithRoom |-> PlacedOn(u)]
    BY <1>2 DEF CountServers, SInv, IInv, Base, TypeOK
  <2>2. s \in Servers /\ counted'[c][s] = PlacedOn(s) BY <2>1 DEF WithRoom
  <2> QED BY <2>2 DEF SInv, Placements, SlotsFinite
<1> QED BY <1>1, <1>2, CountsMove

\* For any capacities and any number of controllers, releases and edits of servers: a
\* server takes an instance only from a placement that counted it, and that takes it past
\* its capacity by no more than what was placed since (select_remote_server_locked).
THEOREM PlacementRespectsCapacity == Spec => CapacityRespected
<1>1. SInv /\ CountsFinite /\ [Next]_vars =>
         [\A s \in Servers : Load(s) < Load(s)' =>
             \E c \in Controllers :
                /\ PlacesOn(c, s)
                /\ Load(s)' <= serverRow[s].capacity
                                  + Cardinality(PlacedOn(s) \ counted[c][s])]_vars
  <2> SUFFICES ASSUME SInv, CountsFinite, [Next]_vars, NEW s \in Servers, Load(s) < Load(s)'
               PROVE  \E c \in Controllers :
                         /\ PlacesOn(c, s)
                         /\ Load(s)' <= serverRow[s].capacity
                                           + Cardinality(PlacedOn(s) \ counted[c][s])
    OBVIOUS
  <2>1. Load(s) \in Nat /\ Load(s)' \in Nat BY LoadGrows
  <2>2. PICK c \in Controllers : FromCount(c, s) /\ Load(s)' <= Load(s) + 1
    BY <2>1, LoadGrows
  <2> DEFINE past == PlacedOn(s)  seen == counted[c][s]
  <2>3. IsFiniteSet(past) /\ IsFiniteSet(seen) /\ Cardinality(seen) < serverRow[s].capacity
    BY <2>2 DEF FromCount, StillHasRoom, CountsFinite, SInv, Placements, SlotsFinite
  <2>4. Cardinality(past) <= Cardinality(seen) + Cardinality(past \ seen)
    BY <2>3, NoMoreThanTwoParts
  <2>5. Cardinality(seen) \in Nat /\ Cardinality(past \ seen) \in Nat
    BY <2>3, FS_CardinalityType, FS_Difference
  <2>6. serverRow[s].capacity \in Nat
    BY ConstantsAssumption DEF SInv, IInv, Base, TypeOK, ServerRow
  <2>7. Load(s) = Cardinality(past) BY DEF Load
  <2> HIDE DEF past, seen
  <2>8. Load(s)' <= serverRow[s].capacity + Cardinality(past \ seen)
    BY <2>1, <2>2, <2>3, <2>4, <2>5, <2>6, <2>7
  <2> QED BY <2>2, <2>8 DEF FromCount, past, seen
<1> QED BY <1>1, CountsFiniteInit, CountsFiniteStep, SlotsInvariance, PTL DEF Spec, CapacityRespected

\* Placements under way that have counted server s.
Placing(s) == {c \in Controllers : s \in DOMAIN counted[c]}

\* The inductive invariant behind the bound: what is placed and what may be placed yet.
RoomForAll(cap) ==
    \A s \in Servers : Load(s) + Cardinality(Placing(s)) < cap + Cardinality(Controllers)

\* A count is taken while there is room, and used up by the placement it leads to.
LEMMA RoomForAllStep ==
  ASSUME NEW cap \in Nat \ {0}, Capacities \subseteq 1..cap, IsFiniteSet(Controllers)
  PROVE  SInv /\ RoomForAll(cap) /\ [Next]_vars => RoomForAll(cap)'
<1> SUFFICES ASSUME SInv, RoomForAll(cap), [Next]_vars, NEW s \in Servers
             PROVE  Load(s)' + Cardinality(Placing(s)') < cap + Cardinality(Controllers)
  BY DEF RoomForAll
<1>0. /\ IsFiniteSet(Placing(s)) /\ IsFiniteSet(Placing(s)')
      /\ Cardinality(Placing(s)) \in Nat /\ Cardinality(Placing(s)') \in Nat
      /\ Cardinality(Controllers) \in Nat /\ Cardinality(Placing(s)') <= Cardinality(Controllers)
  <2>1. Placing(s) \subseteq Controllers /\ Placing(s)' \subseteq Controllers BY DEF Placing
  <2> QED BY <2>1, FS_Subset, FS_CardinalityType
<1>1. Load(s) \in Nat /\ Load(s)' \in Nat BY LoadGrows
<1>2. Load(s) + Cardinality(Placing(s)) < cap + Cardinality(Controllers) BY DEF RoomForAll
<1>3. ASSUME NEW c \in Controllers, CountServers(c), s \in WithRoom
      PROVE  Load(s)' + Cardinality(Placing(s)') < cap + Cardinality(Controllers)
  <2>1. Load(s)' = Load(s) BY <1>3 DEF CountServers, dbVars, Load, PlacedOn
  <2>2. serverRow[s].capacity \in 1..cap BY DEF SInv, IInv, Base, TypeOK, ServerRow
  <2>3. Load(s) < cap BY <1>1, <1>3, <2>2 DEF WithRoom
  <2> QED BY <1>0, <1>1, <2>1, <2>3
<1>4. ASSUME NEW c \in Controllers, CountServers(c), s \notin WithRoom
      PROVE  Load(s)' + Cardinality(Placing(s)') < cap + Cardinality(Controllers)
  <2>1. Load(s)' = Load(s) BY <1>4 DEF CountServers, dbVars, Load, PlacedOn
  <2>2. counted' = [counted EXCEPT ![c] = [u \in WithRoom |-> PlacedOn(u)]]
    BY <1>4 DEF CountServers
  <2>3. Placing(s)' \subseteq Placing(s)
    BY <1>4, <2>2 DEF Placing, SInv, IInv, Base, TypeOK
  <2>4. Cardinality(Placing(s)') <= Cardinality(Placing(s)) BY <1>0, <2>3, FS_Subset
  <2> QED BY <1>0, <1>1, <1>2, <2>1, <2>4
<1>5. CASE ~ \E c \in Controllers : CountServers(c)
  <2>1. \A c \in Controllers : counted'[c] \in {counted[c], NoCount} BY <1>5, CountsMove
  <2>2. Placing(s)' \subseteq Placing(s) BY <2>1 DEF Placing, NoCount
  <2>3. CASE Load(s)' <= Load(s)
    <3>1. Cardinality(Placing(s)') <= Cardinality(Placing(s)) BY <1>0, <2>2, FS_Subset
    <3> QED BY <1>0, <1>1, <1>2, <2>3, <3>1
  <2>4. CASE ~(Load(s)' <= Load(s))
    <3>1. PICK c \in Controllers : FromCount(c, s) /\ Load(s)' <= Load(s) + 1
      BY <2>4, LoadGrows
    <3>2. c \in Placing(s) /\ c \notin Placing(s)'
      BY <3>1 DEF FromCount, PlacesOn, Placing, NoCount
    <3>3. /\ IsFiniteSet(Placing(s) \ {c})
          /\ Cardinality(Placing(s) \ {c}) = Cardinality(Placing(s)) - 1
      BY <1>0, <3>2, FS_RemoveElement
    <3>4. Cardinality(Placing(s)') <= Cardinality(Placing(s) \ {c})
      BY <2>2, <3>2, <3>3, FS_Subset
    <3> QED BY <1>0, <1>1, <1>2, <3>1, <3>3, <3>4
  <2> QED BY <2>3, <2>4
<1> QED BY <1>3, <1>4, <1>5

\* However many controllers count before any of them places, and however capacities are
\* edited: no server ever holds more than the greatest capacity and one instance more
\* for each further controller.  (WithinCapacity itself does not hold.)
THEOREM OverfillIsBounded ==
  ASSUME NEW cap \in Nat \ {0}, Capacities \subseteq 1..cap, IsFiniteSet(Controllers)
  PROVE  Spec => [](\A s \in Servers : Load(s) < cap + Cardinality(Controllers))
<1>1. Init => RoomForAll(cap)
  <2> SUFFICES ASSUME Init, NEW s \in Servers
               PROVE  Load(s) + Cardinality(Placing(s)) < cap + Cardinality(Controllers)
    BY DEF RoomForAll
  <2>1. PlacedOn(s) = {} /\ Placing(s) = {}
    BY DEF Init, PlacedOn, NoRow, Placing, NoCount
  <2>2. Load(s) = 0 /\ Cardinality(Placing(s)) = 0 BY <2>1, FS_EmptySet DEF Load
  <2>3. Cardinality(Controllers) \in Nat BY FS_CardinalityType
  <2> QED BY <2>2, <2>3
<1>2. SInv /\ RoomForAll(cap) => \A s \in Servers : Load(s) < cap + Cardinality(Controllers)
  <2> SUFFICES ASSUME SInv, RoomForAll(cap), NEW s \in Servers
               PROVE  Load(s) < cap + Cardinality(Controllers)
    OBVIOUS
  <2>1. IsFiniteSet(PlacedOn(s)) BY DEF SInv, Placements, SlotsFinite
  <2>2. Placing(s) \subseteq Controllers BY DEF Placing
  <2>3. /\ Cardinality(Placing(s)) \in Nat /\ Load(s) \in Nat /\ Cardinality(Controllers) \in Nat
    BY <2>1, <2>2, FS_Subset, FS_CardinalityType DEF Load
  <2> QED BY <2>3 DEF RoomForAll
<1> QED BY <1>1, <1>2, RoomForAllStep, SlotsInvariance, PTL DEF Spec

\* However calls are delayed or repeated: once a stop has released a slot no host runs
\* its workload, and its identifier is fenced (finish_termination, stop_instance).
THEOREM StopDrainsSlot == Spec => []StoppedSlotIsDrained
<1>1. SInv => StoppedSlotIsDrained BY DEF SInv, Stops
<1> QED BY <1>1, SlotsInvariance, PTL

\* However starts and extensions overtake each other: the deadline of a workload is at
\* least what the user was promised and at most what the row asks for, which is within
\* the maximum lifetime (finish_start, finish_extension, update_deadline).
THEOREM HostKeepsPromise == Spec => []HostHonoursDeadline
<1>1. ASSUME SInv, NEW s \in Servers, NEW i \in Instances, host[s][i].present
      PROVE  /\ inst[i].exp <= host[s][i].deadline
             /\ host[s][i].deadline <= inst[i].desiredExp
             /\ inst[i].desiredExp <= inst[i].maxExp
             /\ host[s][i].gen <= inst[i].gen
  <2>1. /\ host[s][i].gen \in Nat /\ host[s][i].deadline \in Nat
        /\ inst[i].gen \in Nat /\ inst[i].desiredExp \in Nat
    BY <1>1 DEF SInv, IInv, Base, TypeOK, Workload, Row
  <2>2. Known(i, host[s][i].gen, host[s][i].deadline) BY <1>1 DEF Known, Given
  <2>3. Known(i, inst[i].gen, inst[i].desiredExp) BY DEF Known, Loaded
  <2>4. host[s][i].gen <= inst[i].gen /\ host[s][i].deadline <= inst[i].desiredExp
    BY <1>1, <2>1, <2>2, <2>3 DEF SInv, Deadlines, DeadlinesGrow
  <2> QED BY <1>1, <2>4 DEF SInv, Deadlines, PromisesHold
<1>2. SInv => HostHonoursDeadline BY <1>1 DEF HostHonoursDeadline
<1> QED BY <1>2, SlotsInvariance, PTL

\* A row that a completed stop released is never written again: every later answer, of
\* a start, an extension or an inspection, finds that the generation moved on.
THEOREM ReleasedRowIsFinal == Spec => StoppedRowIsFinal
<1>1. SInv /\ [Next]_vars => [\A i \in Instances : ReleasedByStop(i) => inst'[i] = inst[i]]_vars
  <2> SUFFICES ASSUME SInv, [Next]_vars, NEW i \in Instances, ReleasedByStop(i)
               PROVE  inst'[i] = inst[i]
    OBVIOUS
  <2>1. CASE TableStep BY <2>1, StoppedRowStays
  <2>2. CASE HostStep BY <2>2 DEF HostStep, dbVars
  <2> QED BY <2>1, <2>2, StepsAsListed
<1> QED BY <1>1, SlotsInvariance, PTL DEF Spec, StoppedRowIsFinal

\* A step of a host is a step of HostSlot for every instance: the deadline and the
\* generation of a workload only grow, and a fence stays (stop_instance,
\* ensure_instance, update_deadline, sweep).
LEMMA SlotMoves ==
  ASSUME SInv, HostStep, NEW s \in Servers, NEW i \in Instances
  PROVE  [SlotOf(s, i)!SlotNext]_(SlotOf(s, i)!slotVars)
<1> DEFINE a == host[s][i]
           b == host'[s][i]
<1>0. a \in Workload /\ NoWorkload.present = FALSE /\ FencesHold
  BY DEF SInv, IInv, Base, TypeOK, NoWorkload, Calls
<1>1. \/ /\ b.present = a.present /\ b.gen = a.gen /\ b.deadline = a.deadline
         /\ i \in tomb'[s] <=> i \in tomb[s]
      \/ b = NoWorkload /\ i \in tomb'[s]
      \/ i \notin tomb[s] /\ i \notin tomb'[s] /\ b.present
  BY DEF HostStep, HostMoves
<1>2. CASE /\ b.present = a.present /\ b.gen = a.gen /\ b.deadline = a.deadline
           /\ i \in tomb'[s] <=> i \in tomb[s]
  <2>1. (i \in tomb'[s]) = (i \in tomb[s]) BY <1>2
  <2> QED BY <1>2, <2>1 DEF SlotOf!slotVars
<1>3. CASE b = NoWorkload /\ i \in tomb'[s]
  <2>1. (i \in tomb'[s]) = TRUE BY <1>3
  <2>2. SlotOf(s, i)!Fence BY <1>3, <2>1 DEF SlotOf!Fence, SlotOf!Nothing, NoWorkload
  <2> QED BY <2>2 DEF SlotOf!SlotNext
<1>4. CASE i \notin tomb[s] /\ i \notin tomb'[s] /\ b.present
  <2>1. (i \in tomb'[s]) = (i \in tomb[s]) BY <1>4
  <2>2. CASE ~a.present
    <3>1. SlotOf(s, i)!Create BY <1>4, <2>1, <2>2 DEF SlotOf!Create
    <3> QED BY <3>1 DEF SlotOf!SlotNext
  <2>3. CASE a.present
    <3>1. a.gen <= b.gen /\ a.deadline <= b.deadline BY <1>4, <2>3, HostGrows
    <3>2. SlotOf(s, i)!Extend BY <1>4, <2>1, <2>3, <3>1 DEF SlotOf!Extend
    <3> QED BY <3>2 DEF SlotOf!SlotNext
  <2> QED BY <2>2, <2>3
<1> QED BY <1>1, <1>2, <1>3, <1>4

\* Refinement, for any number of controllers, servers and delayed calls: the host the
\* control plane talks to keeps the promises of HostSlot for every instance.
THEOREM HostsImplementSlots == Spec => HostsAreSlots
<1>1. Init => \A s \in Servers, i \in Instances : SlotOf(s, i)!SlotInit
  <2> SUFFICES ASSUME Init, NEW s \in Servers, NEW i \in Instances PROVE SlotOf(s, i)!SlotInit
    OBVIOUS
  <2>1. host[s][i] = NoWorkload /\ (i \in tomb[s]) = FALSE BY DEF Init
  <2> QED BY <2>1 DEF SlotOf!SlotInit, SlotOf!Nothing, NoWorkload
<1>2. SInv /\ [Next]_vars
      => [\A s \in Servers, i \in Instances :
             [SlotOf(s, i)!SlotNext]_(SlotOf(s, i)!slotVars)]_vars
  <2> SUFFICES ASSUME SInv, [Next]_vars, NEW s \in Servers, NEW i \in Instances
               PROVE  [SlotOf(s, i)!SlotNext]_(SlotOf(s, i)!slotVars)
    OBVIOUS
  <2>1. CASE TableStep
    <3>1. host' = host /\ tomb' = tomb BY <2>1 DEF TableStep, hostVars
    <3> QED BY <3>1 DEF SlotOf!slotVars
  <2>2. CASE HostStep BY <2>2, SlotMoves
  <2> QED BY <2>1, <2>2, StepsAsListed
<1> QED BY <1>1, <1>2, SlotsInvariance, PTL DEF Spec, HostsAreSlots

=============================================================================
