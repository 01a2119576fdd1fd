-------------------------- MODULE OperationJournal --------------------------
(***************************************************************************)
(* The controller's operation journal: what it writes down around a remote *)
(* call, what it forgets once the database knows, and what it does with    *)
(* the rest while it has no database session.                              *)
(*                                                                         *)
(* One instance, its commands, the workload at its host and the one task   *)
(* of the controller.  Nobody else opens the file, so an append with the   *)
(* compaction that follows it is one step; a failed write or a crash in    *)
(* the middle leaves any part of the line.  RuntimeControl has the         *)
(* decisions of the commands, the lease and calls that are served late;    *)
(* here a command that never reaches the journal is simply declined.       *)
(***************************************************************************)
EXTENDS Naturals, Sequences

CONSTANTS
    Commands,     \* identifiers of runtime_commands rows of the instance
    NoCommand,    \* no command in hand
    MaxTries,     \* config.max_command_attempts
    LastInstant,  \* bound: last instant of the clock
    MaxMishaps    \* bound: crashes, failed writes, lost calls and sessions

ASSUME JournalAssumption ==
    /\ NoCommand \notin Commands
    /\ MaxTries \in Nat /\ LastInstant \in Nat /\ MaxMishaps \in Nat

VARIABLES
    clock,      \* wall clock
    deadlines,  \* desired_expires_at of the instance in each of its generations
    rows,       \* runtime_commands
    journal,    \* operations.jsonl: its lines, and whether the last has its newline
    task,       \* where the controller is and what it has in hand
    vm,         \* the workload the host answers for, and its tombstone
    mishaps     \* faults that have happened

journalVars == <<clock, deadlines, rows, journal, task, vm, mishaps>>

----------------------------------------------------------------------------
(* The file.                                                                *)

\* Server, payload, revisions and result of a record decide nothing here.
JournalRecord == [cmd : Commands, gen : Nat, exp : Nat,
                  phase : {"intent", "remote_result", "acknowledged", "degraded_cleanup"}]

\* What is left of a record that was written in part, or of two in one line: no
\* JSON (the reader skips it), or not even UTF-8, cut inside a character of a
\* server's name (read_to_string fails).
Torn == [phase |-> "torn"]
Cut  == [phase |-> "cut"]
Line == JournalRecord \cup {Torn, Cut}

IsRecord(x)     == x.phase \notin {"torn", "cut"}
Readable(lines) == \A i \in DOMAIN lines : lines[i].phase # "cut"

\* current_unacknowledged: the last record of each command, unless it says that the
\* database has acknowledged it
Unacknowledged(lines) ==
    {lines[i] : i \in {j \in DOMAIN lines :
        /\ IsRecord(lines[j]) /\ lines[j].phase # "acknowledged"
        /\ \A k \in DOMAIN lines : j < k /\ IsRecord(lines[k]) => lines[k].cmd # lines[j].cmd}}

Records == Unacknowledged(journal.lines)

\* write_all on a file opened for append: it continues a line without newline
Glued(x) ==
    IF journal.ended THEN Append(journal.lines, x)
    ELSE [journal.lines EXCEPT ![Len(journal.lines)] =
             IF "cut" \in {journal.lines[Len(journal.lines)].phase, x.phase} THEN Cut ELSE Torn]

Written(x)     == [lines |-> Glued(x), ended |-> TRUE]
Interrupted(x) == {journal, Written(x)}
                  \cup {[lines |-> Glued(part), ended |-> FALSE] : part \in {x, Torn, Cut}}

\* compact_locked: a new file with each record once, in the order of updated_at, which
\* no reader depends on; an unreadable file is left as it is
Listings(kept, most) ==
    {l \in UNION {[1..n -> kept] : n \in 0..most} :
        \A r \in kept : \E i \in DOMAIN l : l[i] = r /\ \A k \in DOMAIN l : l[k] = r => k = i}

Compacted(book) ==
    IF ~Readable(book.lines) THEN {book}
    ELSE {[lines |-> l, ended |-> TRUE] :
             l \in Listings(Unacknowledged(book.lines), Len(book.lines))}

\* append, when it returns Ok: compaction follows an acknowledgement or a cleanup,
\* and any record that takes the file over the threshold
Stored(x) ==
    IF x.phase \in {"acknowledged", "degraded_cleanup"} THEN Compacted(Written(x))
    ELSE {Written(x)} \cup Compacted(Written(x))

Mishap == mishaps < MaxMishaps /\ mishaps' = mishaps + 1

Off == [pc |-> "off", cmd |-> NoCommand, gen |-> 0, exp |-> 0, op |-> "none", todo |-> {}]

\* append x and go on to next, or to failed with its error; compaction is best
\* effort; the process may die anywhere in between
AppendRecord(x, next, failed) ==
    \/ journal' \in Stored(x) /\ task' = next /\ UNCHANGED mishaps
    \/ Mishap /\ journal' = Written(x) /\ task' = next
    \/ Mishap /\ journal' \in Interrupted(x) /\ task' = failed
    \/ Mishap /\ journal' \in Interrupted(x) \cup Compacted(Written(x)) /\ task' = Off

----------------------------------------------------------------------------
(* The host: the calls as RuntimeControl has them, without readiness.       *)

NoVm == [up |-> FALSE, gen |-> 0, exp |-> 0, gone |-> FALSE]
Gone == [NoVm EXCEPT !.gone = TRUE]

\* what ensure-instance, stop-instance, update-deadline and inspect-instance
\* leave behind, and what they answer
Served(op, g, e) ==
    CASE op = "ensure" ->
           (CASE vm.gone                                   -> [vm |-> vm, says |-> "stale"]
              [] ~vm.gone /\ e <= clock                    -> [vm |-> vm, says |-> "error"]
              [] ~vm.gone /\ clock < e /\ vm.up /\ vm.gen # g -> [vm |-> vm, says |-> "stale"]
              [] OTHER -> [vm |-> [up |-> TRUE, gen |-> g, exp |-> e, gone |-> FALSE],
                           says |-> "present"])
      [] op = "stop" ->
           IF vm.up /\ g < vm.gen THEN [vm |-> vm, says |-> "stale"]
           ELSE [vm |-> Gone, says |-> "absent"]
      [] op = "update" ->
           (CASE vm.gone                                   -> [vm |-> vm, says |-> "stale"]
              [] ~vm.gone /\ ~vm.up                        -> [vm |-> vm, says |-> "error"]
              [] ~vm.gone /\ vm.up /\ g < vm.gen           -> [vm |-> vm, says |-> "stale"]
              [] ~vm.gone /\ vm.up /\ vm.gen <= g /\ e <= clock -> [vm |-> vm, says |-> "error"]
              [] OTHER -> [vm |-> [vm EXCEPT !.gen = g, !.exp = e], says |-> "present"])
      [] OTHER -> [vm |-> vm, says |-> IF vm.up THEN "present" ELSE "absent"]

----------------------------------------------------------------------------
(* The database, as far as the journal asks it.                             *)

Kinds  == {"none", "start", "extend", "terminate", "inspect"}
Final  == {"completed", "failed", "cancelled"}
RowSet == [kind : Kinds, gen : Nat, status : {"none", "pending", "claimed"} \cup Final, tries : Nat]
NoneYet == [kind |-> "none", gen |-> 0, status |-> "none", tries |-> 0]

Generation   == Len(deadlines)
New(kind, g) == [kind |-> kind, gen |-> g, status |-> "pending", tries |-> 0]
Vacant(c)    == rows[c].kind = "none"
HasStop      == \E c \in Commands :
    rows[c].kind = "terminate" /\ rows[c].status \in {"pending", "claimed", "completed"}

JournalInit ==
    /\ clock = 0
    /\ deadlines = <<>>
    /\ rows = [c \in Commands |-> NoneYet]
    /\ journal = [lines |-> <<>>, ended |-> TRUE]
    /\ task = Off
    /\ vm = NoVm
    /\ mishaps = 0

\* create_instance: the row, its first generation and the start command
AskStart(c) ==
    /\ Vacant(c) /\ deadlines = <<>>
    /\ \E e \in clock + 1 .. LastInstant : deadlines' = <<e>>
    /\ rows' = [rows EXCEPT ![c] = New("start", 1)]
    /\ UNCHANGED <<clock, journal, task, vm, mishaps>>

\* extend_instance: a later deadline is a new generation
AskExtend(c) ==
    /\ Vacant(c) /\ deadlines # <<>> /\ clock < deadlines[Generation]
    /\ \A d \in Commands : rows[d].kind # "terminate"
    /\ \E e \in deadlines[Generation] + 1 .. LastInstant : deadlines' = Append(deadlines, e)
    /\ rows' = [rows EXCEPT ![c] = New("extend", Generation + 1)]
    /\ UNCHANGED <<clock, journal, task, vm, mishaps>>

\* a stop is a new generation with the deadline of the one before
WithStop(table, c) ==
    /\ Vacant(c) /\ ~HasStop /\ deadlines # <<>>
    /\ deadlines' = Append(deadlines, deadlines[Generation])
    /\ rows' = [table EXCEPT ![c] = New("terminate", Generation + 1)]

\* request_termination, and the policy and deadline scans of the controller
AskStop(c) == WithStop(rows, c) /\ UNCHANGED <<clock, journal, task, vm, mishaps>>

\* reconcile_instance, and the inspections the controller queues
AskInspect(c) ==
    /\ Vacant(c) /\ deadlines # <<>>
    /\ rows' = [rows EXCEPT ![c] = New("inspect", Generation)]
    /\ UNCHANGED <<clock, deadlines, journal, task, vm, mishaps>>

----------------------------------------------------------------------------
(* The controller.                                                          *)

GoTo(pc) == [task EXCEPT !.pc = pc]
Idle(pc) == [Off EXCEPT !.pc = pc]
Over(r)  == [task EXCEPT !.todo = @ \ {r}]

\* current_unacknowledged at the head of a pass; when it fails so does the pass
Reading(pc, failed) ==
    IF Readable(journal.lines) THEN [Off EXCEPT !.pc = pc, !.todo = Records] ELSE Idle(failed)

Boot ==
    /\ task.pc = "off"
    /\ task' = Idle("connect")
    /\ UNCHANGED <<clock, deadlines, rows, journal, vm, mishaps>>

\* PostgreSQL cannot be reached, or the session ended with an error
CleanUp ==
    /\ task.pc \in {"connect", "ended"}
    /\ task' = Reading("away", "connect")
    /\ UNCHANGED <<clock, deadlines, rows, journal, vm, mishaps>>

\* connected_session up to its first reconcile_database_acknowledgements
Connect ==
    /\ task.pc = "connect"
    /\ rows' = [c \in Commands |-> [rows[c] EXCEPT
                   !.status = IF rows[c].status = "claimed" THEN "pending" ELSE rows[c].status]]
    /\ task' = Reading("sync", "ended")
    /\ UNCHANGED <<clock, deadlines, journal, vm, mishaps>>

\* a statement of the session or of schedule_retry fails
SessionEnds ==
    /\ Mishap
    /\ task.pc \in {"sync", "ready", "retry"}
    /\ task' = Idle("ended")
    /\ UNCHANGED <<clock, deadlines, rows, journal, vm>>

\* the records cleanup_overdue_without_database does not pass over
IsDue(r) == r.phase # "degraded_cleanup" /\ r.exp <= clock

SkipRecord(r) ==
    /\ task.pc = "away" /\ ~IsDue(r)
    /\ task' = Over(r)
    /\ UNCHANGED <<clock, deadlines, rows, journal, vm, mishaps>>

\* mutant: the stop does not say of which generation
StopWhateverRuns(r) ==
    /\ task.pc = "away" /\ IsDue(r)
    /\ vm' = Gone
    /\ AppendRecord([r EXCEPT !.phase = "degraded_cleanup"], Over(r), Idle("connect"))
    /\ UNCHANGED <<clock, deadlines, rows>>

\* an overdue one is stopped at its host; an error of append ends the pass
StopOverdue(r) ==
    /\ task.pc = "away" /\ IsDue(r)
    /\ vm' = Served("stop", r.gen, r.exp).vm
    /\ AppendRecord([r EXCEPT !.phase = "degraded_cleanup"], Over(r), Idle("connect"))
    /\ UNCHANGED <<clock, deadlines, rows>>

\* the call fails, whether or not the host served it
StopUnanswered(r) ==
    /\ Mishap
    /\ task.pc = "away" /\ IsDue(r)
    /\ vm' \in {vm, Served("stop", r.gen, r.exp).vm}
    /\ task' = Over(r)
    /\ UNCHANGED <<clock, deadlines, rows, journal>>

\* mutant: what nobody is working on is taken for finished
FinishedUnlessClaimed(r) == rows[r.cmd].status # "claimed"

\* reconcile_database_acknowledgements: does the database need the record no more?
DatabaseFinished(r) ==
    \/ rows[r.cmd].status \in Final
    \/ rows[r.cmd].gen # r.gen
    \/ Generation # r.gen /\ rows[r.cmd].status # "claimed"

KeepRecord(r) ==
    /\ task.pc = "sync" /\ ~DatabaseFinished(r)
    /\ task' = Over(r)
    /\ UNCHANGED <<clock, deadlines, rows, journal, vm, mishaps>>

AcknowledgeRecord(r) ==
    /\ task.pc = "sync" /\ DatabaseFinished(r)
    /\ AppendRecord([r EXCEPT !.phase = "acknowledged"], Over(r), Idle("ended"))
    /\ UNCHANGED <<clock, deadlines, rows, vm>>

PassEnds ==
    /\ task.pc \in {"away", "sync"} /\ task.todo = {}
    /\ task' = Idle(IF task.pc = "away" THEN "connect" ELSE "ready")
    /\ UNCHANGED <<clock, deadlines, rows, journal, vm, mishaps>>

\* at the end of each pass of the loop, and after the first commands
ReconcileAgain ==
    /\ task.pc = "ready"
    /\ task' = Reading("sync", "ended")
    /\ UNCHANGED <<clock, deadlines, rows, journal, vm, mishaps>>

OpOf(kind) == CASE kind = "start" -> "ensure" [] kind = "terminate" -> "stop"
                [] kind = "extend" -> "update" [] OTHER -> "inspect"

Claimed(c) == [rows EXCEPT ![c] = [rows[c] EXCEPT !.status = "claimed", !.tries = rows[c].tries + 1]]

\* claim_command, load_instance and the checks before the journal
ClaimAndLoad(c) ==
    /\ task.pc = "ready" /\ rows[c].status = "pending"
    /\ rows' = Claimed(c)
    /\ rows[c].gen = Generation
    /\ rows[c].kind = "start" => clock < deadlines[Generation]
    /\ task' = [Off EXCEPT !.pc = "intend", !.cmd = c, !.gen = Generation,
                           !.exp = deadlines[Generation], !.op = OpOf(rows[c].kind)]
    /\ UNCHANGED <<clock, deadlines, journal, vm, mishaps>>

\* one that does not come that far is closed, or fails (no capacity, say)
Decline(c) ==
    /\ task.pc = "ready" /\ rows[c].status = "pending"
    /\ \/ \E final \in {"completed", "cancelled"} : rows' = [rows EXCEPT ![c].status = final]
          /\ UNCHANGED task
       \/ /\ rows' = Claimed(c)
          /\ task' = [Off EXCEPT !.pc = "retry", !.cmd = c]
    /\ UNCHANGED <<clock, deadlines, journal, vm, mishaps>>

InHand(phase) == [cmd |-> task.cmd, gen |-> task.gen, exp |-> task.exp, phase |-> phase]

\* journal.intent before the call
JournalIntent ==
    /\ task.pc = "intend"
    /\ AppendRecord(InHand("intent"), GoTo("call"), GoTo("retry"))
    /\ UNCHANGED <<clock, deadlines, rows, vm>>

\* Which answers are put into the journal; all others make the command fail.  What
\* was put there is checked for a stop and an extension afterwards.
Accepted(says) ==
    CASE task.op = "ensure"  -> says = "present"
      [] task.op = "stop"    -> says \in {"absent", "stale"}
      [] task.op = "update"  -> says \in {"present", "stale"}
      [] OTHER               -> says = "absent" \/ (says = "present" /\ vm.gen = task.gen)

\* RemoteExecutor::execute; the result carries the deadline the host knows
RemoteCall ==
    LET answer == Served(task.op, task.gen, task.exp) IN
    /\ task.pc = "call"
    /\ vm' = answer.vm
    /\ task' = IF Accepted(answer.says)
               THEN [task EXCEPT !.pc = IF answer.says = "stale" THEN "stale" ELSE "record",
                                 !.exp = IF vm'.up THEN vm'.exp ELSE @]
               ELSE GoTo("retry")
    /\ UNCHANGED <<clock, deadlines, rows, journal, mishaps>>

\* it times out, or startup fails and leaves a tombstone or not
RemoteCallFails ==
    /\ Mishap
    /\ task.pc = "call"
    /\ vm' \in {vm, Served(task.op, task.gen, task.exp).vm}
               \cup (IF task.op = "ensure" /\ ~vm.up THEN {Gone} ELSE {})
    /\ task' = GoTo("retry")
    /\ UNCHANGED <<clock, deadlines, rows, journal>>

\* journal.remote_result after it; a refusal is looked at only then
JournalResult ==
    /\ task.pc \in {"record", "stale"}
    /\ AppendRecord(InHand("remote_result"), GoTo(IF task.pc = "stale" THEN "retry" ELSE "commit"),
                    GoTo("retry"))
    /\ UNCHANGED <<clock, deadlines, rows, vm>>

Closed(status) == [rows EXCEPT ![task.cmd].status = status]
Undoing == rows[task.cmd].kind = "start" /\ task.op = "stop"

\* finish_start, finish_termination, finish_extension and finish_inspection
FinishCommand ==
    /\ task.pc = "commit" /\ ~Undoing /\ task.gen = Generation
    /\ task.op = "update" => clock < task.exp
    /\ \/ rows' = Closed("completed") /\ UNCHANGED deadlines
       \/ task.op = "inspect" /\ \E c \in Commands : WithStop(Closed("completed"), c)
    /\ task' = GoTo("ack")
    /\ UNCHANGED <<clock, journal, vm, mishaps>>

\* the host's new deadline has passed already
ExtensionTooLate ==
    /\ task.pc = "commit" /\ task.op = "update" /\ task.exp <= clock
    /\ task' = GoTo("retry")
    /\ UNCHANGED <<clock, deadlines, rows, journal, vm, mishaps>>

\* the instance has moved on: a workload that was started is stopped again first
MovedOn ==
    /\ task.pc = "commit"
    /\ task.op = "update" => clock < task.exp
    /\ Undoing \/ task.gen # Generation
    /\ IF task.op = "ensure"
       THEN task' = [task EXCEPT !.pc = "intend", !.op = "stop"] /\ UNCHANGED rows
       ELSE task' = GoTo("ack") /\ rows' = Closed("cancelled")
    /\ UNCHANGED <<clock, deadlines, journal, vm, mishaps>>

\* the transaction fails, or its commit is not confirmed
CommitUnconfirmed ==
    /\ Mishap
    /\ task.pc = "commit"
    /\ task.op = "update" => clock < task.exp
    /\ \/ UNCHANGED rows
       \/ ~Undoing /\ task.gen = Generation /\ rows' = Closed("completed")
       \/ (Undoing \/ task.gen # Generation) /\ task.op # "ensure" /\ rows' = Closed("cancelled")
    /\ task' = GoTo("retry")
    /\ UNCHANGED <<clock, deadlines, journal, vm>>

\* journal.acknowledged; for a start that was undone, of the stop and of the start
JournalAcknowledged ==
    /\ task.pc = "ack"
    /\ AppendRecord(InHand("acknowledged"),
                    IF Undoing THEN [task EXCEPT !.op = "ensure"] ELSE Idle("ready"),
                    GoTo("retry"))
    /\ UNCHANGED <<clock, deadlines, rows, vm>>

\* schedule_retry: only the claimant writes, and the last failure of a start asks
\* for a stop
RetryOrFail ==
    /\ task.pc = "retry"
    /\ \/ rows[task.cmd].status # "claimed" /\ UNCHANGED <<rows, deadlines>>
       \/ /\ rows[task.cmd].status = "claimed"
          /\ IF rows[task.cmd].tries < MaxTries
             THEN rows' = Closed("pending") /\ UNCHANGED deadlines
             ELSE \/ rows' = Closed("failed") /\ UNCHANGED deadlines
                  \/ /\ rows[task.cmd].kind = "start" /\ rows[task.cmd].gen = Generation
                     /\ \E c \in Commands : WithStop(Closed("failed"), c)
    /\ task' = Idle("ready")
    /\ UNCHANGED <<clock, journal, vm, mishaps>>

Crash ==
    /\ Mishap
    /\ task.pc # "off"
    /\ task' = Off
    /\ UNCHANGED <<clock, deadlines, rows, journal, vm>>

JournalTick ==
    /\ clock < LastInstant
    /\ clock' = clock + 1
    /\ UNCHANGED <<deadlines, rows, journal, task, vm, mishaps>>

\* the host's own timer
VmExpires ==
    /\ vm.up /\ vm.exp <= clock
    /\ vm' = Gone
    /\ UNCHANGED <<clock, deadlines, rows, journal, task, mishaps>>

Passes ==
    \/ Boot \/ CleanUp \/ Connect \/ PassEnds \/ ReconcileAgain
    \/ \E r \in task.todo :
          SkipRecord(r) \/ StopOverdue(r) \/ StopUnanswered(r) \/ KeepRecord(r) \/ AcknowledgeRecord(r)

Executing ==
    \/ \E c \in Commands : ClaimAndLoad(c) \/ Decline(c)
    \/ JournalIntent \/ RemoteCall \/ JournalResult \/ FinishCommand \/ ExtensionTooLate
    \/ MovedOn \/ JournalAcknowledged \/ RetryOrFail

Asking == \E c \in Commands : AskStart(c) \/ AskExtend(c) \/ AskStop(c) \/ AskInspect(c)

JournalNext ==
    \/ Passes \/ Executing \/ Asking
    \/ RemoteCallFails \/ CommitUnconfirmed \/ SessionEnds \/ Crash
    \/ JournalTick \/ VmExpires

JournalSpec == JournalInit /\ [][JournalNext]_journalVars

\* The process is started again and goes on; a database that can be reached now and
\* then is reached, and a session that has commands to claim claims one.  Mishaps
\* are bounded, and nothing obliges a user to act.
JournalFairness ==
    /\ WF_journalVars(Passes) /\ SF_journalVars(Connect)
    /\ WF_journalVars(Executing)
    /\ \A c \in Commands : SF_journalVars(ClaimAndLoad(c) \/ Decline(c))

FairJournalSpec == JournalSpec /\ JournalFairness

----------------------------------------------------------------------------
(* Properties.                                                              *)

JournalTypeOK ==
    /\ clock \in Nat
    /\ deadlines \in Seq(Nat)
    /\ rows \in [Commands -> RowSet]
    /\ journal \in [lines : Seq(Line), ended : BOOLEAN]
    /\ task \in [pc : {"off", "connect", "ended", "away", "sync", "ready", "intend", "call",
                       "record", "stale", "commit", "ack", "retry"},
                 cmd : Commands \cup {NoCommand}, gen : Nat, exp : Nat,
                 op : {"none", "ensure", "stop", "update", "inspect"},
                 todo : SUBSET JournalRecord]
    /\ vm \in [up : BOOLEAN, gen : Nat, exp : Nat, gone : BOOLEAN]
    /\ mishaps \in Nat

\* The journal loses sight of a command only when the database has closed it or has
\* moved its instance on, whatever was written in part, compacted or retried; but a
\* record that is itself an unfinished line goes with it.  (append,
\* compact_locked, reconcile_database_acknowledgements.)
ForgottenOnlyWhenSettled ==
    [][\A r \in Records : (\A q \in Records' : q.cmd # r.cmd) =>
          \/ rows[r.cmd].status \in Final \/ Generation # r.gen
          \/ ~journal.ended /\ r = journal.lines[Len(journal.lines)]]_journalVars

\* Without a database session the controller ends no workload before its deadline,
\* though the record it goes by may be older than the last extension
\* (cleanup_overdue_without_database, stop_instance).
NoEarlyStop == [][task.pc = "away" /\ vm.up /\ ~vm'.up => vm.exp <= clock]_journalVars

\* A record is passed over as cleaned up only while no workload of its generation is
\* left, nor can come back: the stop need not be repeated.
CleanedStaysDown ==
    \A r \in Records : r.phase = "degraded_cleanup" => ~vm.up \/ r.gen < vm.gen

\* docs/INSTANCE_CONTROLLER_ARCHITECTURE.md of a PostgreSQL outage: the fsynced
\* journal retains in-flight intent and remote results.
InFlightIsRetained ==
    task.pc \in {"call", "record", "stale", "commit"} => \E r \in Records : r.cmd = task.cmd

\* docs/INSTANCE_CONTROLLER_ARCHITECTURE.md of a controller outage: after acquiring
\* the lease on restart, the controller drains pending work.
RestartDrains ==
    \A c \in Commands : rows[c].status = "pending" ~> rows[c].status # "pending"
=============================================================================
