---------------------------- MODULE RemoteHelper ----------------------------
(***************************************************************************)
(* The runtime helper on one host, for one instance identifier: the calls  *)
(* that arrive over SSH, the expiry service of each generation's timer,    *)
(* and the periodic sweep.  All of them work under the file lock of the    *)
(* identifier, and identifiers share nothing else.                         *)
(*                                                                         *)
(* Under the lock a process reads files and engine once and then has a     *)
(* fixed list of effects ahead of it.  Begin takes the lock and writes the *)
(* list down, Perform carries out its first effect: a process can be       *)
(* killed, and the host can lose power, between any two effects.           *)
(***************************************************************************)
EXTENDS Integers, Sequences

CONSTANTS
    MaxGeneration,   \* bound: generations the controller asks for
    Deadline,        \* the absolute expiry of each generation
    MaxCalls,        \* bound: calls over SSH
    MaxTime,         \* bound: last instant of the clock
    MaxFaults        \* bound: engine failures, kills, power losses

Generations == 1..MaxGeneration

\* extend_instance moves the deadline with the generation, and only forward
ASSUME HelperAssumption ==
    /\ MaxGeneration \in Nat /\ MaxCalls \in Nat /\ MaxTime \in Nat /\ MaxFaults \in Nat
    /\ Deadline \in [Generations -> Nat]
    /\ \A g, h \in Generations : g <= h => Deadline[g] <= Deadline[h]

VARIABLES
    now,        \* wall clock
    container,  \* the container and the generation of its label
    network,    \* does the per-instance network exist?
    file,       \* the state file
    disk,       \* the state file a power loss would leave
    tomb,       \* generation in the tombstone file, 0 without one
    timers,     \* generations whose timer unit is active
    lock,       \* holder of the file lock
    proc,       \* the helper processes
    faults,     \* faults that have happened
    history     \* what was asked and answered so far (for the properties)

worldVars == <<container, network, file, disk, tomb, timers>>
vars == <<now, worldVars, lock, proc, faults, history>>

NoContainer == [present |-> FALSE, gen |-> 0, up |-> FALSE]
NoState     == [gen |-> 0, exp |-> 0]

Operations == {"ensure-instance", "stop-instance", "update-deadline", "inspect-instance"}

Calls    == {<<"call", n>> : n \in 1..MaxCalls}
Services == {<<"expire", g>> : g \in Generations}
Sweeper  == <<"sweep", 0>>
Procs    == Calls \cup Services \cup {Sweeper}
NoProc   == <<"none", 0>>

\* op: what the process was started for; since: the clock when it started;
\* created: it ran the container itself; todo: the effects ahead of it.
Unused   == [op |-> "unused", gen |-> 0, since |-> 0, created |-> FALSE,
             prev |-> 0, locked |-> FALSE, todo |-> <<>>]
Finished == [Unused EXCEPT !.op = "finished"]

Effects == {"tombstone", "remove-container", "remove-network", "cancel-timer",
            "remove-state", "create-network", "run-container", "schedule-timer",
            "write-state", "wait-for-startup",
            "reply-present", "reply-absent", "reply-stale", "reply-error", "exit"}
Effect == [do : Effects, gen : 0..MaxGeneration]

Do(what) == <<[do |-> what, gen |-> 0]>>
DoFor(what, g) == <<[do |-> what, gen |-> g]>>
When(condition, effects) == IF condition THEN effects ELSE <<>>

Init ==
    /\ now = 0
    /\ container = NoContainer /\ network = FALSE
    /\ file = NoState /\ disk = NoState /\ tomb = 0
    /\ timers = {}
    /\ lock = NoProc
    /\ proc = [p \in Procs |-> Unused]
    /\ faults = 0
    /\ history = [stopAsked |-> FALSE, stopped |-> FALSE, ended |-> FALSE,
                  promised |-> 0, unswept |-> FALSE]

----------------------------------------------------------------------------
(* What each operation has ahead of it, decided under the lock.             *)

Larger(a, b) == IF a >= b THEN a ELSE b

\* state_generation: the file's generation, else the container's label
KnownGeneration == IF file # NoState THEN file.gen ELSE container.gen

RemoveWorkload == Do("remove-container") \o Do("remove-network")

\* a container without a state file: no trusted generation, no trusted deadline
Irrecoverable == container.present /\ file = NoState

RemoveIrrecoverable ==
    DoFor("tombstone", container.gen) \o RemoveWorkload
        \o DoFor("cancel-timer", container.gen) \o Do("remove-state")

EnsurePlan(g) ==
    LET known == KnownGeneration IN
    IF tomb # 0 THEN Do("reply-stale")
    ELSE IF Deadline[g] <= now THEN Do("reply-error")
    ELSE IF Irrecoverable THEN RemoveIrrecoverable \o Do("reply-stale")
    ELSE IF known > g \/ (container.present /\ known # g) THEN Do("reply-stale")
    ELSE When(~container.present, Do("create-network") \o DoFor("run-container", g))
            \o DoFor("schedule-timer", g) \o DoFor("write-state", g)
            \o When(known \notin {0, g}, DoFor("cancel-timer", known))
            \o Do("wait-for-startup") \o DoFor("reply-present", g)

\* mutant: the workload is removed before the identifier is fenced
StopThenFence(g) ==
    IF KnownGeneration > g THEN Do("reply-stale")
    ELSE RemoveWorkload \o DoFor("tombstone", g) \o Do("remove-state") \o Do("reply-absent")

StopPlan(g) ==
    IF Irrecoverable THEN RemoveIrrecoverable \o Do("reply-absent")
    ELSE IF KnownGeneration > g THEN Do("reply-stale")
    ELSE DoFor("tombstone", Larger(g, KnownGeneration)) \o RemoveWorkload
            \o When(KnownGeneration # 0, DoFor("cancel-timer", KnownGeneration))
            \o Do("remove-state") \o Do("reply-absent")

\* mutant: the new generation is made durable before its timer exists
WriteThenSchedule(g) ==
    IF ~container.present \/ file.gen = 0 \/ file.gen > g \/ Deadline[g] <= now
    THEN Do("reply-error")
    ELSE DoFor("write-state", g) \o DoFor("schedule-timer", g) \o DoFor("reply-present", g)

\* mutant: an older generation is applied over a newer one
UpdateBackwards(g) ==
    IF ~container.present \/ file.gen = 0 \/ Deadline[g] <= now
    THEN Do("reply-error")
    ELSE DoFor("schedule-timer", g) \o DoFor("write-state", g) \o DoFor("reply-present", g)

UpdatePlan(g) ==
    IF tomb # 0 THEN Do("reply-stale")
    ELSE IF Irrecoverable THEN RemoveIrrecoverable \o Do("reply-stale")
    ELSE IF ~container.present THEN Do("reply-error")
    ELSE IF file.gen > g THEN Do("reply-stale")
    ELSE IF Deadline[g] <= now THEN Do("reply-error")
    ELSE DoFor("schedule-timer", g) \o DoFor("write-state", g)
            \o When(file.gen # g, DoFor("cancel-timer", file.gen))
            \o DoFor("reply-present", g)

InspectPlan ==
    IF ~container.present THEN Do("reply-absent")
    ELSE IF Irrecoverable THEN RemoveIrrecoverable \o Do("reply-absent")
    ELSE DoFor("reply-present", file.gen)

\* mutant: neither the generation nor the deadline is looked at again
ExpireAnyGeneration(g) ==
    IF file = NoState THEN Do("exit")
    ELSE DoFor("tombstone", g) \o RemoveWorkload \o Do("remove-state") \o Do("exit")

\* expire_instance_unlocked; its tolerance of one second is below the clock's step
ExpirePlan(g) ==
    IF file = NoState \/ file.gen # g THEN Do("exit")
    ELSE IF now < file.exp THEN DoFor("schedule-timer", g) \o Do("exit")
    ELSE DoFor("tombstone", g) \o RemoveWorkload \o Do("remove-state") \o Do("exit")

\* mutant: a container without a state file is left alone
SweepKnownOnly(since) ==
    IF tomb # 0 \/ ~container.present
    THEN RemoveWorkload \o Do("remove-state") \o Do("exit")
    ELSE IF file # NoState /\ file.exp <= since THEN ExpirePlan(file.gen)
    ELSE Do("exit")

\* since: the sweep compares deadlines with the clock it read when it started
SweepPlan(since) ==
    IF tomb # 0
    THEN RemoveWorkload \o DoFor("cancel-timer", tomb)
            \o When(file.gen \notin {0, tomb}, DoFor("cancel-timer", file.gen))
            \o Do("remove-state") \o Do("exit")
    ELSE IF ~container.present
    THEN When(file # NoState, DoFor("tombstone", file.gen))
            \o Do("remove-network") \o Do("remove-state")
            \o When(file # NoState, DoFor("cancel-timer", file.gen)) \o Do("exit")
    ELSE IF Irrecoverable THEN RemoveIrrecoverable \o Do("exit")
    ELSE IF file.exp <= since THEN ExpirePlan(file.gen)
    ELSE When(file.gen \notin timers, DoFor("schedule-timer", file.gen)) \o Do("exit")

Plan(p) ==
    LET g == proc[p].gen IN
    CASE proc[p].op = "ensure-instance"  -> EnsurePlan(g)
      [] proc[p].op = "stop-instance"    -> StopPlan(g)
      [] proc[p].op = "update-deadline"  -> UpdatePlan(g)
      [] proc[p].op = "inspect-instance" -> InspectPlan
      [] proc[p].op = "expire-instance"  -> ExpirePlan(g)
      [] OTHER                           -> SweepPlan(proc[p].since)

----------------------------------------------------------------------------
(* Processes.                                                               *)

Started(op, g) == [Unused EXCEPT !.op = op, !.gen = g,
                                 !.since = IF op = "sweep-instances" THEN now ELSE 0]

\* the controller calls; a call it gave up on may still arrive
Call(p, op, g) ==
    /\ proc[p].op = "unused"
    /\ \A q \in Calls : q[2] < p[2] => proc[q].op # "unused"   \* numbered as they come
    /\ op = "inspect-instance" => g = 1                        \* it does not read it
    /\ proc' = [proc EXCEPT ![p] = Started(op, g)]
    /\ history' = [history EXCEPT !.stopAsked = @ \/ op = "stop-instance"]
    /\ UNCHANGED <<now, worldVars, lock, faults>>

\* the unit's calendar time is reached; it stays active until its service ended
TimerElapses(g) ==
    /\ g \in timers
    /\ Deadline[g] <= now
    /\ proc[<<"expire", g>>].op = "unused"
    /\ proc' = [proc EXCEPT ![<<"expire", g>>] = Started("expire-instance", g)]
    /\ UNCHANGED <<now, worldVars, lock, faults, history>>

\* the sweep finds the identifier by its state file, container or network
SweepStarts ==
    /\ proc[Sweeper].op = "unused"
    /\ file # NoState \/ container.present \/ network
    /\ proc' = [proc EXCEPT ![Sweeper] = Started("sweep-instances", 0)]
    /\ UNCHANGED <<now, worldVars, lock, faults, history>>

Begin(p) ==
    /\ proc[p].op \notin {"unused", "finished"} /\ ~proc[p].locked
    /\ lock = NoProc
    /\ lock' = p
    /\ proc' = [proc EXCEPT ![p] =
          [@ EXCEPT !.locked = TRUE, !.todo = Plan(p), !.prev = KnownGeneration,
                    !.created = ~container.present]]
    /\ UNCHANGED <<now, worldVars, faults, history>>

\* a service or a sweep is started again later; a call is made once
Ended(p) == IF p \in Calls THEN Finished ELSE Unused

Next1(p) == Head(proc[p].todo)

Running(p, what) == lock = p /\ proc[p].todo # <<>> /\ Next1(p).do = what

\* systemctl stop takes the timer and its service, which may wait for the lock
StepOver(p, mine) ==
    proc' = [q \in Procs |->
        IF q = p THEN mine
        ELSE IF Next1(p).do = "cancel-timer" /\ q = <<"expire", Next1(p).gen>> THEN Unused
        ELSE proc[q]]

WriteTombstone(p) ==
    /\ Running(p, "tombstone")
    /\ tomb' = Larger(tomb, Next1(p).gen)
    /\ UNCHANGED <<container, network, file, disk, timers>>

RemoveContainer(p) ==
    /\ Running(p, "remove-container")
    /\ container' = NoContainer
    /\ UNCHANGED <<network, file, disk, tomb, timers>>

RemoveNetwork(p) ==
    /\ Running(p, "remove-network")
    /\ network' = FALSE
    /\ UNCHANGED <<container, file, disk, tomb, timers>>

\* the unlinked name is not synced: a power loss can bring the file back
RemoveState(p) ==
    /\ Running(p, "remove-state")
    /\ file' = NoState
    /\ UNCHANGED <<container, network, disk, tomb, timers>>

CancelTimer(p) ==
    /\ Running(p, "cancel-timer")
    /\ timers' = timers \ {Next1(p).gen}
    /\ UNCHANGED <<container, network, file, disk, tomb>>

CreateNetwork(p) ==
    /\ Running(p, "create-network")
    /\ network' = TRUE
    /\ UNCHANGED <<container, file, disk, tomb, timers>>

RunContainer(p) ==
    /\ Running(p, "run-container")
    /\ container' = [present |-> TRUE, gen |-> Next1(p).gen, up |-> TRUE]
    /\ UNCHANGED <<network, file, disk, tomb, timers>>

\* schedule_timer: a unit that is active is kept; an elapsed deadline is refused
ScheduleTimer(p) ==
    /\ Running(p, "schedule-timer")
    /\ now < Deadline[Next1(p).gen]
    /\ timers' = timers \cup {Next1(p).gen}
    /\ UNCHANGED <<container, network, file, disk, tomb>>

WriteState(p) ==
    /\ Running(p, "write-state")
    /\ file' = [gen |-> Next1(p).gen, exp |-> Deadline[Next1(p).gen]]
    /\ disk' = file'
    /\ UNCHANGED <<container, network, tomb, timers>>

StartupSeen(p) ==
    /\ Running(p, "wait-for-startup")
    /\ container.up
    /\ UNCHANGED worldVars

Apply(p) ==
    \/ WriteTombstone(p) \/ RemoveContainer(p) \/ RemoveNetwork(p) \/ RemoveState(p)
    \/ CancelTimer(p) \/ CreateNetwork(p) \/ RunContainer(p) \/ ScheduleTimer(p)
    \/ WriteState(p) \/ StartupSeen(p)

\* An instance ended when its workload was removed for good: undoing one's own
\* failed start is not an end.
NoteEnd(p) ==
    history' = [history EXCEPT !.ended =
        @ \/ /\ container.present /\ ~container'.present
             /\ proc[p].op # "ensure-instance" \/ tomb # 0]

\* the file was replaced although write_state raised: the timer armed for it goes
NoteLostTimer(p) ==
    history' = [history EXCEPT !.unswept = @ \/ file' # file]

Perform(p) ==
    /\ Apply(p)
    /\ StepOver(p, [proc[p] EXCEPT !.todo = Tail(@)])
    /\ NoteEnd(p)
    /\ UNCHANGED <<now, lock, faults>>

Replies == {"reply-present", "reply-absent", "reply-stale", "reply-error"}

Reply(p) ==
    LET done == Next1(p).do IN
    /\ lock = p /\ proc[p].todo # <<>> /\ done \in Replies
    /\ lock' = NoProc
    /\ proc' = [proc EXCEPT ![p] = Ended(p)]
    /\ history' = [history EXCEPT
          !.stopped  = @ \/ (proc[p].op = "stop-instance" /\ done = "reply-absent"),
          !.promised = IF done = "reply-present" /\ proc[p].op # "inspect-instance"
                       THEN Larger(@, Deadline[Next1(p).gen]) ELSE @]
    /\ UNCHANGED <<now, worldVars, faults>>

\* the end of a timer service takes its unit with it; the sweep is over
Exit(p) ==
    /\ Running(p, "exit")
    /\ lock' = NoProc
    /\ proc' = [proc EXCEPT ![p] = Ended(p)]
    /\ timers' = IF proc[p].op = "expire-instance" THEN timers \ {proc[p].gen} ELSE timers
    /\ history' = [history EXCEPT !.unswept = @ /\ proc[p].op # "sweep-instances"]
    /\ UNCHANGED <<now, container, network, file, disk, tomb, faults>>

\* What is done about an effect that raised, before the error is reported.
Undo(p) ==
    LET what == Next1(p).do
        g == proc[p].gen IN
    CASE proc[p].op = "ensure-instance" /\ what = "run-container" -> Do("remove-network")
      [] proc[p].op = "ensure-instance" /\ proc[p].created
            /\ what \in {"schedule-timer", "write-state", "cancel-timer", "wait-for-startup"} ->
             RemoveWorkload \o DoFor("cancel-timer", g) \o Do("remove-state")
      [] proc[p].op = "update-deadline" /\ what = "write-state" /\ proc[p].prev # g ->
             DoFor("cancel-timer", g)
      [] OTHER -> <<>>

\* a call undoes and reports; a service fails and is restarted, and so is the sweep
Raise(p) ==
    IF p \in Calls
    THEN /\ StepOver(p, [proc[p] EXCEPT !.todo = Undo(p) \o Do("reply-error"), !.created = FALSE])
         /\ UNCHANGED lock
    ELSE /\ StepOver(p, Unused)
         /\ lock' = NoProc

DeadlineElapsed(p) ==
    /\ Running(p, "schedule-timer")
    /\ Deadline[Next1(p).gen] <= now
    /\ Raise(p)
    /\ UNCHANGED <<now, worldVars, faults, history>>

StartupFailed(p) ==
    /\ Running(p, "wait-for-startup")
    /\ ~container.up
    /\ Raise(p)
    /\ UNCHANGED <<now, worldVars, faults, history>>

----------------------------------------------------------------------------
(* The environment.                                                         *)

Tick ==
    /\ now < MaxTime
    /\ now' = now + 1
    /\ UNCHANGED <<worldVars, lock, proc, faults, history>>

Fault == faults < MaxFaults /\ faults' = faults + 1

\* the engine, systemd or the file system reports an error: the effect may have
\* happened all the same
EffectFails(p) ==
    /\ Fault
    /\ lock = p /\ proc[p].todo # <<>>
    /\ Next1(p).do \notin Replies \cup {"exit"}
    /\ Apply(p) \/ UNCHANGED worldVars
    /\ Raise(p)
    /\ IF Next1(p).do = "write-state" THEN NoteLostTimer(p) ELSE NoteEnd(p)
    /\ UNCHANGED now

ContainerExits ==
    /\ Fault
    /\ container.up
    /\ container' = [container EXCEPT !.up = FALSE]
    /\ UNCHANGED <<now, network, file, disk, tomb, timers, lock, proc, history>>

\* a process dies where it is; the kernel drops its lock
Killed(p) ==
    /\ Fault
    /\ proc[p].op \notin {"unused", "finished"}
    /\ proc' = [proc EXCEPT ![p] = Ended(p)]
    /\ lock' = IF lock = p THEN NoProc ELSE lock
    /\ UNCHANGED <<now, worldVars, history>>

\* Transient timer units do not survive; containers do, stopped (--restart=no).
PowerLoss ==
    /\ Fault
    /\ proc' = [p \in Procs |-> IF proc[p].op \in {"unused", "finished"} THEN proc[p]
                                ELSE Ended(p)]
    /\ lock' = NoProc
    /\ timers' = {}
    /\ container' = [container EXCEPT !.up = FALSE]
    /\ file' \in {file, disk}
    /\ disk' = file'
    /\ history' = [history EXCEPT !.unswept = TRUE]
    /\ UNCHANGED <<now, network, tomb>>

----------------------------------------------------------------------------

Work(p) == Perform(p) \/ Reply(p) \/ Exit(p) \/ DeadlineElapsed(p) \/ StartupFailed(p)

Next ==
    \/ \E p \in Calls, op \in Operations, g \in Generations : Call(p, op, g)
    \/ \E g \in Generations : TimerElapses(g)
    \/ SweepStarts
    \/ \E p \in Procs : Begin(p) \/ Work(p) \/ EffectFails(p) \/ Killed(p)
    \/ Tick \/ ContainerExits \/ PowerLoss

Spec == Init /\ [][Next]_vars

\* A started process runs on, and the lock goes to each waiter in the end
\* (a sweep comes back every minute, so weak fairness would not do); systemd
\* starts elapsed units and the sweep; time passes.  Nobody has to call.
Fairness ==
    /\ \A p \in Procs : WF_vars(Work(p)) /\ SF_vars(Begin(p))
    /\ \A g \in Generations : WF_vars(TimerElapses(g))
    /\ WF_vars(SweepStarts)
    /\ WF_vars(Tick)

FairSpec == Spec /\ Fairness

----------------------------------------------------------------------------
(* Properties.                                                              *)

\* Types of the files, of what engine and systemd hold, and of the processes.
TypeOK ==
    /\ now \in Nat
    /\ container \in [present : BOOLEAN, gen : 0..MaxGeneration, up : BOOLEAN]
    /\ network \in BOOLEAN
    /\ file \in [gen : 0..MaxGeneration, exp : Nat]
    /\ disk \in [gen : 0..MaxGeneration, exp : Nat]
    /\ tomb \in 0..MaxGeneration
    /\ timers \subseteq Generations
    /\ lock \in Procs \cup {NoProc}
    /\ \A p \in Procs :
          /\ proc[p].op \in Operations \cup {"expire-instance", "sweep-instances",
                                              "unused", "finished"}
          /\ proc[p].todo \in Seq(Effect)
          /\ proc[p].locked <=> lock = p

\* Once an instance was stopped or its workload was removed for good, no delayed
\* ensure brings the workload back, wherever the helper that removed it died:
\* the tombstone is durable before the removal (stop_instance,
\* expire_instance_unlocked, remove_irrecoverable_instance_unlocked).
EndedStaysGone == history.ended \/ history.stopped => ~container.present

\* A deadline is never confirmed without a live timer: as long as the workload
\* lives towards a confirmed deadline its state file covers that deadline and the
\* timer of the file's generation is armed, whatever update was interrupted.
\* Only a power loss, or a file write that failed halfway, takes the timer away
\* until the next sweep (schedule_timer, ensure_instance, update_deadline).
TimerBacksWorkload ==
    container.present /\ tomb = 0 /\ now < history.promised
        => /\ history.promised <= file.exp
           /\ file.gen \in timers \/ history.unswept

\* A workload is never removed before the deadline the helper last confirmed,
\* unless a stop was asked for: a stale timer cannot kill a newer generation
\* (expire_instance_unlocked) and a sweep cannot either.
PromiseKept ==
    [][container.present /\ ~container'.present =>
          history.stopAsked \/ history.promised <= now]_vars

\* Container, network and state file all disappear in the end, whoever died at
\* whichever point and however many timers were lost: the sweep is the last
\* guard (sweep_instances).
NothingIsLeft ==
    (container.present \/ network \/ file # NoState)
        ~> (~container.present /\ ~network /\ file = NoState)

\* The helper is an implementation of HostSlot: its interrupted, interleaved
\* operations look like single steps.  A container counts from the moment its
\* state file exists, and no longer once the tombstone is written.
Slot == INSTANCE HostSlot WITH
    workload <- IF container.present /\ file # NoState /\ tomb = 0
                THEN [present |-> TRUE, gen |-> file.gen, deadline |-> file.exp]
                ELSE [present |-> FALSE, gen |-> 0, deadline |-> 0],
    fenced <- tomb # 0

\* Every behaviour of the helper is one of HostSlot: generation and deadline of
\* a living workload only grow, and a fenced identifier stays fenced.
ImplementsHostSlot == Slot!SlotSpec
=============================================================================
