# CTFdpp: TLA+ models, checks and proofs

CTFdpp is a capture-the-flag portal. A Rust API keeps all durable state in
PostgreSQL, a Rust controller drives per-user challenge containers on remote
hosts over SSH, a Python helper on each host owns the containers, an SSH gateway
gives administrators consoles, and a stateless Flask front end renders pages.
This directory holds the models of its protocols: what is modelled, what TLC
checks on small instances, what TLAPS proves for all of them, and what is left.

## Inventory

| part | state it keeps | operations | hard behaviour |
|---|---|---|---|
| runtime API (`routes/runtimes.rs`, `db/init/003-…sql`) | `runtime_instances`, `runtime_commands`, settings, servers | ensure, extend, terminate, reconcile, policy switches, a server's switch and capacity | every request races the controller on the same row; idempotent replays |
| controller (`controller/src/worker.rs`) | claims, advisory lease, row snapshot carried over a remote call | lease, recovery, policy/overdue/inspection passes, claim, five command kinds, retry | crash or lost lease between claim, call and commit; a second controller takes over; remote timeout with an unknown outcome |
| SSH executor (`controller/src/remote.rs`) | one SSH process per call | ensure, stop, update, inspect | local timeout while the remote helper goes on: delayed, repeated calls |
| remote helper (`remote-helper/ctfzone-runtime-helper`) | state file, tombstone, lock file, container, network, systemd timers | ensure, stop, update-deadline, inspect, expire, sweep | killed between two effects, power loss, stale timers, unsynced unlink |
| operation journal (`controller/src/journal.rs`) | append-only local log | intent, result, acknowledgement, compaction, degraded cleanup | database unavailable: stopping by remembered deadlines |
| object storage (`routes/objects.rs`, `controller/src/storage.rs`) | objects, uploads, storage operations, the bucket | reserve, complete, replace, delete, reconcile, retry | bucket and database cannot commit together |
| sessions and credentials (`auth.rs`, `browser_auth.rs`, `setup.rs`, `routes/sessions.rs`, `mail.rs`, tokens) | sessions, tokens, password hashes | login, rotation, revocation, setup, reset | revocation against use; two administrators removing each other |
| challenges and scoring (`routes/challenges.rs`, `content.rs`, `scoreboard.rs`) | submissions, solves, awards, hint unlocks, dynamic values | attempt, unlock, recompute | two members of one team at the same limit |
| teams and users (`team_accounts.rs`, `user_accounts.rs`) | membership, captaincy, bans | join, leave, kick, disband | capacity and the captain under concurrent requests |
| user mode transition (`user_mode_transition.rs`, `configuration.rs`) | configuration, all scores | switch between users and teams | an exclusive lock against every other mutation's shared lock |
| SSH console (`ssh_hosts.rs`, `ssh-gateway`) | hosts, identities, tickets, sessions | pin key, issue and consume a ticket, identity operations | one-time tickets, claim expiry, revocation of a live console |
| rate limiting | counters per key and window | allow | limits under concurrent requests |
| administration, create idempotency | rows, idempotency keys | CRUD | a repeated create |
| views, exports, front end, process shells | none of their own | queries, rendering | – |

The API and the controllers only meet in PostgreSQL: a command row is the
message, `claim_token` fences its claimant, `generation` fences everything older
than the row. Controllers and hosts meet in SSH calls that carry the generation,
and hosts answer for the state file, the tombstone and the timer of an instance.
The API's replicas share nothing but PostgreSQL: what one handler checked stays
true until it writes only by the advisory locks and row locks it holds. Gateways
meet the API in HTTP calls and each other on the volume that holds client keys.
PROJECT.json lists the hazards with their lines.

What makes the parts correct: a user has one live slot and one workload; a stop
always ends in a released slot with nothing running; a confirmed deadline is
neither cut short nor overrun; a placement finds room; nothing outlives its owner whoever
crashes; a ready object has its bytes and a deleted one leaves none; no flag counts
twice and no limit is exceeded by two attempts at once; a challenge that is published can
be launched and solved; an administrator always remains; a verified address was
proved; a mode switch removes what it showed and nothing survives it; the key of
a deleted SSH host is gone and a revoked terminal ends.

## Modules

| module | stands for |
|---|---|
| `RuntimeControl` | API transactions, controllers, SSH calls and hosts of the runtime control plane |
| `HostSlot` | abstract specification: what a host promises about one instance identifier |
| `RuntimeHosts` | every host of `RuntimeControl` is a `HostSlot` |
| `RemoteHelper` | the helper of one host and one identifier, effect by effect; it implements `HostSlot` |
| `OperationJournal` | the controller's local journal around one instance: append, compaction, acknowledgement, cleanup without a database |
| `ObjectLifecycle` | stored objects: the API's transactions, the bucket, the uploads and the storage workers |
| `PortalLocks` | advisory and row locks of PostgreSQL as the API's transactions use them |
| `Teams` | teams, membership, captains, invites, and the switch between users and teams |
| `Scoring` | attempts, solves, dynamic values, hints bought with points |
| `Definitions` | challenges, categories, runtimes, flags, and the flags launches hand out |
| `Accounts` | setup, registration, sessions, tokens, account edits, verification of addresses |
| `SshConsole` | SSH hosts, client identities, tickets, terminals, and the gateways |
| `RuntimeControlProofs` | proofs about `RuntimeControl` and `RuntimeHosts` |
| `RemoteHelperProofs` | proofs about `RemoteHelper`, with its refinement of `HostSlot`, and about `OperationJournal` |
| `ObjectLifecycleProofs` | proofs about `ObjectLifecycle` |
| `TeamsProofs`, `ScoringProofs`, `DefinitionsProofs`, `AccountsProofs` | proofs about `Teams`, `Scoring`, `Definitions`, `Accounts` |
| `SshConsoleProofs` | proofs about `SshConsole` |
| `MC…` | symmetry, and deadlines of the helper, for TLC |

`RuntimeControl` composes with `HostSlot` through `RuntimeHosts`, `RemoteHelper`
refines `HostSlot`. `Teams`, `Scoring`, `Definitions` and `Accounts` extend
`PortalLocks` and each own a group of tables; where two groups meet, the module
that needs the other's effect has it as an action (an instance ends in `Teams` and
`Definitions`, a role change and a deleted user appear in `Teams` and `Accounts`).

### RuntimeControl

A transaction is one action. `inst` and `cmds` are the two tables (`cmds` in insertion
order, as the claim query sorts), `setting`, `runtime` and `serverRow` (a server's
switch and capacity, which administrators edit) the policy. `ctl[c]` is what
controller `c` carries between two transactions: program counter, claimed command and
token, the row `load_instance` returned, the call it waits for and the reply. `wire`
holds calls that were sent and not yet served; `counted[c]` what its placement
counted, as long as the row lock that follows is still to come; a `RemoteTimeout`
sends the controller on and leaves the call there, so it can be served at any later
time, or never. `host` and `tomb` are the workloads and tombstones. `leader` is the
holder of the advisory lock: `LoseLease` takes it away while the session goes on until
its next check, `Crash` ends a session.

Abstractions:
- the claim query and `load_instance` that directly follows it are one step;
  nothing the controller decides in between depends on the claim alone;
- claim age and observation age are not counted: a claim may become stale, and an
  inspection due, at any moment; back-off and the safety retry interval are one
  bit each, cleared by the environment;
- `claim_token` is the number of claims so far, as fresh as a UUID;
- reasons, event rows, notifications, request validation and the wording of
  errors are left out; a replay with a known idempotency key changes nothing and
  is no step;
- a placement is two steps: `CountServers` locks the claim and counts slots on the
  snapshot of its query (READ COMMITTED), `PlaceAndStart` locks a server, passing over
  rows others hold (`SKIP LOCKED`), checks an edited row again with the old count, and
  commits. Every server is in the pool a snapshot asks for;
- the policy passes query candidates and then stop them one transaction each: the
  candidate set is kept in `ctl[c].todo`;
- a container without a state file counts as absent, because whoever meets it
  fences the identifier and removes it; `HelperDies` is that case, `RemoteHelper`
  has it in detail;
- the local journal is a module of its own, `OperationJournal`. A failed journal
  write before a call and a timeout look alike to the database and are both covered
  by `RemoteTimeout`.

### RemoteHelper

Every operation of the helper takes the instance's file lock, reads files and
engine once, and then performs a fixed list of effects. `Begin(p)` takes the lock
and computes that list (`EnsurePlan`, `StopPlan`, `UpdatePlan`, `InspectPlan`,
`ExpirePlan`, `SweepPlan`); `Perform(p)` executes its head. An effect may fail, having
happened or not (`EffectFails`), and the `except` blocks are the lists of
`Undo`. A process can be killed between any two effects; a power loss ends all
processes and transient timer units, stops the container, and may bring back a
state file whose `unlink` was never synced (`disk`).

The deadline of a generation is a function of the generation: the API computes it
once, in the transaction that moves the generation. Left out: request validation,
unreadable files, flag fingerprints, generation-less timer units of older
installations, health check timing.

### OperationJournal

The file (`journal`) is a sequence of lines and whether the last one has its newline.
`AppendRecord` is `append`: it writes one line, compacts after an acknowledgement, a
cleanup, or when the file is large (at any moment, since sizes are not modelled), and
may fail or die with any part of the line written. Part of a line is no JSON, or cut
inside a character; the next append continues that line (`Glued`). Reading skips what
is no JSON, and fails on what is not UTF-8.

`task` is the controller's one task: it tries the database (`Connect`), cleans up from
the journal when that fails (`CleanUp`, `StopOverdue`), acknowledges what the database has
finished (`DatabaseFinished`), and takes a command through intent, call, result, commit
and acknowledgement, with the stop that undoes a start (`MovedOn`) and `schedule_retry`
after any error. The instance, its commands and the host are as small as the journal's
decisions allow: `deadlines` has the deadline of each generation, `Served` is what the
host does and answers, `Decline` a command that never reaches the journal. Left out:
records of other instances (their keys differ), a record without a server (none is
written), the lease and calls served late (`RuntimeControl` has both).

### HostSlot

`Create`, `Extend`, `Withdraw`, `Fence` with `generation` and `deadline` growing while
the workload lives and the fence permanent. `RemoteHelper` implements it with the
mapping "a workload is a container with a state file and no tombstone";
`RuntimeHosts` shows that the coarse hosts of `RuntimeControl` satisfy the same
promise, so the coarse model assumes nothing the helper does not keep.

### ObjectLifecycle

`obj` is `stored_objects` with the fields decisions depend on; `ops` is
`object_operations`: at most one operation of a kind is open for an object
(`uq_object_operations_open_kind`), so each object has one slot per kind, and of
closed operations only the completed and failed revisions are kept. `staged`,
`final` and `puts` are the bucket: bytes under the upload key, bytes under the
object key, and uploads still streaming.

A transaction without a call to the bucket is one action. `complete_upload`,
`delete_upload` and `delete_object` hold row locks across such a call: they are
several actions, and `RowFree` and `TargetFree` are the locks. The order is always
target, then object, then other objects, so locks never wait in a circle.

A completion reads and verifies (`BeginCompletion`), locks and looks again
(`OpenPromotion`), copies (`CopyToFinalKey`) and commits (`CommitPromotion`), or
goes to `FailUpload` in a transaction of its own. A worker claims, locks and
compares revisions (`BeginDeleteUpload`, `BeginDelete`), sends the DELETE
(`ClearStaging`, `EraseFinal`) and commits (`FinishDeleteUpload`, `FinishDelete`).
`DeleteTarget` is the database trigger with the statement that fires it.

Abstractions:
- what a check of the bytes finds (size, type, checksum, icon validation) is a
  nondeterministic outcome; a refusal by authorization is a request that ends;
- an initiation that repeats a known idempotency key returns the same grant with the
  same end, and is no step;
- clocks agree, so a `Grace` of 0 is the strictest case; back-offs and
  deferrals of a final deletion are one bit cleared by the environment, and the
  safety retry interval of a failed operation may have passed at any time;
- `validate_storage_lease` makes a lease longer than a job, so taking over a claim
  somebody still works on is a counted fault (`ClaimGoesStale`);
- the quota is the number of retained objects; pending and hourly quotas are
  left out. No property is about it yet: the code counts a failed upload while
  one of its operations is open, so bytes whose cleanup has failed for good are
  not counted until the next maintenance pass;
- the bucket acts on a request before its client gives up: a COPY executed after
  its client's timeout is not modelled.

`choice` and `seen` are history for `NewestChoiceWins`.

### PortalLocks and the portal modules

`Teams`, `Scoring`, `Definitions` and `Accounts` share one form. A request in
`req[p]` is one transaction of one handler: it starts (authentication and whatever
the handler reads before `BEGIN`), takes the locks of its handler one by one in the
order of its statements (`…Locks`), reads and decides (`Check` or `Decide`, with one
`May…` operator per handler), and writes and commits. Between any two of these
steps others commit. At any step a request may fail and roll back (`Fail`), which
also stands for refusals whose cause is not modelled. `PortalLocks` has the
compatibility of the lock modes: shared and exclusive advisory locks, `FOR UPDATE`,
the lock an `UPDATE` takes and the `KEY SHARE` of a foreign key. The rows a
statement locks on writing are `Wanted`, and `CircularWait` is PostgreSQL's
deadlock.

- **Teams.** `acct`, `team`, `rows` (submissions, awards and unlocks), `running`,
  `invites`, `previews`. All transactions of `team_accounts.rs`, the ones of
  `user_accounts.rs` that move, promote or delete a user, an attempt and a launch as
  the writers a mode change must not overlap, and `preview`/`execute` of
  `user_mode_transition.rs`. `Snapshot` is what a preview token fingerprints. An
  invite is signed with the team's password hash, here a version number. One
  challenge stands for all, an administrator's credential stays valid, and the
  wording, brackets and custom fields of a team are left out.
- **Scoring.** `attempt` with its three logics, attempt limits (lock-out or window)
  and per-minute limit, `recalculate_dynamic_value`, `unlock`, edits (state, limit,
  logic, function, initial value, value), and the submissions administrators record,
  give another type, or delete. Such a submission asks for no limit, and its date may
  be of the last minute or window or not (one outside its window changes nothing that
  is counted and is not edited). Another text for a partial answer is a deletion and a
  creation. The two elapsed-time windows close as an action of the environment.
  `Decayed` computes the two curves in integers, rounding up as `ceil` does. Hidden
  and banned accounts, which the count of solves excludes, are left out.
- **Definitions.** The create, update and delete of challenges with their
  idempotency keys, flags (create, update, move, delete), runtime configuration, the
  private-challenges gate, categories, and `materialize_for_launch`. A flag is its
  type and revision, a variation its leet mask. Launches are those of users mode.
- **Accounts.** `setup`, `register` under four admission modes, `login`, `logout`,
  revocation, API tokens, the edits an administrator or the user makes, deletion, the
  settings that constrain each other, the allowlist, and the verification link with
  its delivery as a step outside the transaction. Sessions are rows with locks: a
  login, a logout and a revocation lock the ones they end one by one (`LockSession`,
  `locked`), an edit and a deletion the ones of the user at their write. A password is
  what the account must change or not; hashing, rate limits, expiry of sessions and
  participant tokens are left out.

### SshConsole

One host. `host`, `candidates`, `ops`, `tickets` and `session` are the tables; each
handler of the API locks the host's row first and is one action. `wire` holds calls of
the gateways: the API may serve one after its caller gave up or died. `worker[g]` is
the identity worker of a gateway: it claims an operation, takes the file lock, asks
again whether it may proceed, and then writes or erases key files step by step
(`GenerateIdentity`, `PublishKeys`, `RemoveMarker`, `DeleteIdentity`); `conn[c]` is a
browser's connection from its ticket to the end of the terminal. `volume` is the
identity directory. An administrator has several logins (`Logins`), and a ticket
belongs to one; terminals are counted per administrator. A host in use has the
candidate its trusted key came from, which can be trusted again. Leases and tickets
run out and sessions fall silent as actions of the environment; a session falls silent
only after `Tolerated` missed heartbeats. Left out: the byte stream of a terminal,
destination filtering, the two-minute window of a probe's candidates, the hourly
ticket limit, event rows.

## Runs

| run | instance | distinct states | checks |
|---|---|---|---|
| `claims` | 1 instance, 2 controllers, 3 commands, 1 extension, 1 fault | 2.5 million | a completed stop leaves nothing running and stays final; a stop is not forgotten; the host's deadline brackets the row's; hosts are `HostSlot`s |
| `placement` | 2 users, 2 servers with capacities edited between 1 and 2, 2 controllers | 477,000 | one host per instance; a placement finds room in the row it locks and exceeds the capacity only by what overtook its count |
| `release` | 1 controller, 1 attempt per command, 2 policy revisions, 1 fault | 502,000 | a stopped, overdue or no longer allowed instance loses its slot in the end (liveness) |
| `helper_safety` | 3 calls, 1 fault | 1.2 million | what ended stays gone; a confirmed deadline has a live timer; nothing is removed early; implements `HostSlot` |
| `helper_sweep` | 2 calls, 1 fault | 79,000 | container, network and file all disappear in the end (liveness) |
| `journal` | 2 commands of one instance, 2 attempts, 2 ticks, 2 mishaps | 3.8 million | only what the database has settled is forgotten; nothing is stopped early without a database |
| `objects` | 1 upload, 1 request, 1 worker, 2 attempts, 1 fault | 53,000 | the icon is ready and of its category; what is ready has its bytes; deleted means that nothing can come back; only the bytes of ready objects remain (liveness) |
| `teams` | 2 users, 2 team identifiers, 2 requests, 1 preview | 585,000 | captains are members; team size; nothing outlives its mode; a switch removes what was previewed, once; no circular wait |
| `scoring` | 2 users alone or as a team, 2 challenges, 2 flags, 2 hints, limits 0 and 1, logics `all` and `team`, 2 requests | 707,000 | no attempt passes the limit it read; one solve per account and none lost; dynamic value; no points spent twice |
| `definitions` | 2 users, 2 challenges, 2 flags, 2 keys, 2 requests | 685,000 | a flag always remains; nothing changes under a running instance; published means launchable; one challenge per key |
| `accounts` | 3 accounts, 3 addresses, 2 requests | 545,000 | an active administrator remains; verified is proved; a usable link is for the current address; registrations fit the policy at their commit |
| `ssh` | 2 gateways, 1 connection, 3 operations, 3 keys, 1 trust decision, 1 fault | 252,000 | an erased key stays away; a deleted host's key is erased, and a terminal ends that a deletion, a trust decision or the end of its login revoked (liveness) |

The suite is kept at twelve runs and forty properties so that all of it stays quick to
repeat. What else was asked of the models is in configurations of its own, run with
`tlc -config X.cfg MC<module>`:

| configuration | result |
|---|---|
| `TeamsFurther` | holds: types; founding respects `num_teams`; a captain disbands only a team without submissions, awards and unlocks |
| `ScoringFurther` | holds: types; no circular wait |
| `DefinitionsFurther` | holds: types; generated flags are private; allocations match definitions; variations differ; no circular wait |
| `AccountsFurther` | holds: types; one setup; consistent settings; `num_users`; no circular wait, transactions left out that wait while they hold the row of a session |
| `RuntimeDeadlines` | holds: `claims` with a second fault and one command fewer (5.2 million states), with types and the current generation of an open stop |
| `JournalFurther` | holds: types; what is cleaned up stays down, at the instance of `journal` |
| `ObjectCleanup` | holds: types, `ReadyHasBytes` and `DeletedIsGone` with 2 requests, 2 workers and 2 faults (2.2 million states) |
| `ObjectIcons` | holds: with 2 uploads of one category, the newest choice wins |
| `SshTerminals` | holds: types; the published key is the stored one; open sessions are pinned to the trusted key; at most one terminal per administrator whose authorization stands (2 connections, tickets and logins; 6.7 million states) |
| `RuntimeOrphan`, `RuntimeLease`, `RuntimeLateStart`, `AccountsRole`, `ScoringEdits`, `SshMargin`, `JournalTorn`, `JournalCut` | violated: see Deviations |

Bounds. `MaxCommands` only stops optional requests: the controller may always append
the commands the code appends. One instance is enough for the row/command protocol,
since a transaction touches the rows of one instance; placement is the exception and
has two of everything. There one fault lets a second controller start while the first
is between its count and its lock. `MaxRevision` of 1 keeps every switch where it is
and leaves capacities to be edited freely. One fault is a lost claimant, a lost lease
or a timed-out call; the second one in `RuntimeDeadlines` is its successor lost too.
The first tick of the clock in `claims` is the deadline before an extension, the
second one the deadline after it, and with the third command a stop can find its slot
already released. In `release` the one controller is also its own successor after a
crash. `MaxAttempts` of 1 makes the give-up path common. The `Helper*` configurations
turn the deadlock check off, because a host without calls and without anything to
sweep is at rest; so do the ones of objects, where every object is settled and the
clock has reached its bound. In `journal` it is off because an instance whose commands
are all closed needs nothing more. Its two mishaps are what a stale record takes: one
keeps an acknowledgement out of the file, the other ends the session before the next
reconciliation. Two uploads are what a race for one category needs; all else concerns
one object, since only icons relate objects. An upload is only prepared while its last
cleanup still fits under `MaxTime`, so the clock's bound never hides one.
`ObjectIcons` has no workers: they do not touch a pointer.

In the portal modules two transactions at a time are what a check that another
commit invalidates needs, and `Init` starts from every small database (teams with
and without members and captain, challenges of every kind, accounts with and
without links), so that two requests reach what otherwise takes a long history.
An edit of a challenge sets one group of its fields (`MCPatches`), and an administrator's
submission makes one of the moves between types that differ for the counts (`MCMoves`).
Once the two have ended nothing is left to do, so the deadlock check is off;
waiting in a circle is the property `NoCircularWait`. Three accounts and addresses
are an actor, another one, and a newcomer. In `ssh` two gateways and three
operations let one worker continue under a claim that a second one took, and
erase what the first generates; one connection is enough, because terminals of
different tickets and logins only meet in `SshTerminals`.

Fairness. A live controller session keeps taking steps (`WF`), a host serves the
call a controller waits for, back-offs elapse, and a claim seen at pass after
pass becomes old enough to be recovered (`SF`: a pass is brief, so the action is
not continuously enabled). Faults are finitely many. No user has to act. On a
host a started process goes on, the lock reaches every waiter (`SF`, since sweeps
come back), systemd starts elapsed timers and the sweep, and time passes. For
objects, requests and workers that began go on, the queue is served oldest first
and maintenance passes recur (`SF`: a worker that is busy is free again later),
abandoned claims are recovered, the proxy ends every upload, and time passes.
For the SSH console the API serves a call while its caller waits, the tasks of a
running gateway go on, the file lock reaches every waiter (`SF`: it is taken and
released by others meanwhile), and a lease nobody renews runs out. A gateway that
died stays dead; no administrator has to act.

## Deviations

Where the models and the documentation or a comment disagree. Each has a
configuration that TLC refutes.

- `RuntimeOrphan`: an inspection of an empty host releases the slot without fencing
  (`worker.rs:1418`); a start call that timed out locally and is served later
  creates a workload for a released slot. `docs/INSTANCE_CONTROLLER_ARCHITECTURE.md:257`:
  "an uncertain remote workload never releases the user's active slot". The timer and
  the sweep still end it at its deadline.
- `RuntimeLease`: the lease is checked on one connection and the claim taken on
  another (`worker.rs:542`); a lease lost in between does not prevent the claim. Same
  document, 259–260: "Only the controller holding the PostgreSQL advisory leadership
  connection may claim work". The claim token still protects the result.
- `RuntimeLateStart`: `finish_start` updates on id and generation and does not look at
  `active`; `finish_inspection` releases a row without moving its generation. A late
  start result can turn a released row `ready`. Same document, 253–255: "Generation
  checks prevent a late start result from reviving an instance".
- `AccountsRole`: `create_token` revalidates its credential without locking the user's
  row and inserts later (`tokens.rs:71`); a role change that commits in between ends
  the tokens it sees, and the new one lives on under the new role. `README.md:75`:
  "Role changes revoke that user's browser sessions and API tokens".
- `ScoringEdits`: a solve reads function, initial and decay before it takes the score
  lock (`challenges.rs:1527`); an edit that commits in between is followed by a value
  computed from the old parameters. `challenges.rs:2512`: "this lock serializes the
  dynamic value transition across different accounts and administrator
  recalculations". The next solve or edit corrects it.
- `SshMargin`: the longest heartbeat interval is 30 s and a terminal counts as
  abandoned after 45 s, so one late heartbeat lets a second terminal open beside the
  first. `ssh-gateway/src/config.rs:16`: "leave a full heartbeat of margin".

- `JournalTorn`: a write that fails in the middle of a line leaves a part without a
  newline, and the next `append` continues it (`journal.rs:315`): the intent of the
  retried call and the part become one unreadable line, so the call runs without a
  record. Same document, 442: "Its fsynced journal retains in-flight intent and remote
  results". The record is there again with the result.
- `JournalCut`: a line cut inside a character of a server's name makes
  `read_to_string` fail (`journal.rs:264`), so every session ends at its first
  reconciliation and compaction cannot repair the file. Same document, 433–435:
  "after acquiring it on restart, the controller immediately recovers every prior
  claim, queues overdue/policy cleanup, and drains pending work".

Met while reading, not contradicting a text:
- `select_remote_server_locked` counts slots on the snapshot its statement starts with
  and locks the server's row afterwards (`worker.rs:1070`). A placement there does not
  change that row, so the count is not taken again: a controller that lost its lease
  between its count and its lock can place beside its successor, past the capacity,
  although "host selection and placement are also committed under the selected
  remote-server row lock" (`worker.rs:529`). And `update_remote_server` sets a capacity
  below the active count without comparing the two (`runtimes.rs:915`). So
  `WithinCapacity` is false: listed in `RuntimePlacement.cfg` it shows the trace.
  What holds, and is proved, is `CapacityRespected` and `OverfillIsBounded`;
- administrators record incorrect submissions, and turn others into incorrect ones,
  without the attempt lock or the limit (`administration.rs:2013`, 2099), and lower
  `max_attempts` below the answers already given (`challenges.rs:1176`, 1304). So an
  account may have more failures than the limit allows, and `TriesBounded` is about
  what an attempt itself may add;
- `login` and revocations lock rows of sessions before the row of a user that a
  foreign key names (`browser_auth.rs:422` and 749, `sessions.rs:265`), an edit of an
  account and a deletion lock the user first (`user_accounts.rs:568` and 772, 456 and
  485), and two revocations lock sessions in no fixed order: PostgreSQL ends one of
  the two. `NoCircularWait` of `Accounts` leaves out transactions that wait while they
  hold a session; `NoCircularWaitAtAll` in its place in `AccountsFurther.cfg` shows the
  trace;
- a terminal whose authorization is withdrawn (trusted key, host, or login) goes on to
  its next heartbeat, and its administrator can open another one meanwhile;
- a category's new name cascades to its challenges while an edit of a challenge
  locks challenge and category in the other order: PostgreSQL ends one of the two
  (excluded from `Definitions!NoCircularWait`);
- flag handlers take neither the configuration lock nor a second look at the
  credential;
- administrative changes of submissions, and hiding or banning an account, do not
  recalculate dynamic values (`touched` in `Scoring`);
- `login` reads the account without locking it: a password replaced in between may
  still open a session;
- the guard on the last administrator counts type and ban, so an administrator who
  must change the password counts as active;
- an administrator's edit to an allowlisted address can overlap its removal;
- with links older than thirty days, purging them and confirming one lock in
  different orders (`OldLinks`; the comment at `mail.rs:308` describes one order);
- the per-minute limit counts per account but the lock is per account and challenge,
  so answers to two challenges at once can exceed it;
- logic `team` asks for exactly the present members of the team;
- `report_identity_invalid` compares neither fingerprint nor revision, so a stale
  report can invalidate an identity that was rotated meanwhile.

## Proofs

TLAPS checks every theorem for all values of the constants, under one named
assumption per module. PROJECT.json lists the theorems; the lemmas they rest on
are in the same modules.

### RuntimeControl

`ConstantsAssumption`: any number of users, instances, servers, controllers,
commands and faults.

- `TypeCorrect`: `Spec => []TypeOK`. `TypeOK` alone is not inductive: a controller
  acts on the command in its hand, so `Base` adds that every phase's command
  exists, that its instance has a row, and that a call in flight names a server.
- `StopStaysCurrent`: `Spec => []OpenTerminateIsCurrent` (no open stop is outrun by
  the generation). A late step of a
  controller that lost its claim must not move the generation; `CommandsHaveRows`
  and `StopInHandOK` (what a controller executing a terminate command knows of
  its row) make it inductive.
- `StopIsKept`: `Spec => []StopNeverForgotten`. It needs `OpenTerminateIsCurrent`:
  a cancelled terminate command was stale or its row released.

The invariant is `IInv`, the conjunction of these parts. `RuntimeControlProofs`
first proves the typing part with one lemma per group of actions. Then it sorts
actions by what they write, into steps that leave the tables alone, steps that
change a controller's hand, and database steps, and treats each conjunct per group.

The rest of the module proves what the claim token, the generation and the fence
achieve together:

- `WorkloadRunsWhereRowSays`: `Spec => []OneHostPerInstance`;
- `PlacementRespectsCapacity`: `Spec => CapacityRespected`, an action property, and
  `OverfillIsBounded`: with capacities up to `cap` and finitely many controllers, a server
  never holds `cap + Cardinality(Controllers)` instances;
- `StopDrainsSlot`: `Spec => []StoppedSlotIsDrained`;
- `HostKeepsPromise`: `Spec => []HostHonoursDeadline`;
- `ReleasedRowIsFinal`: `Spec => StoppedRowIsFinal`, an action property;
- `HostsImplementSlots`: `Spec => HostsAreSlots`, the refinement of `HostSlot` by every
  host and instance.

None of the four state properties is inductive, and they lean on each other. `SInv` adds
to `IInv`:

- *Claims*: a row is started by one command, in its first generation; of the
  controllers that once claimed a command one at most holds its claim
  (`TokensDiffer`). So placement, which reads a row before it counts slots, is done
  by one controller per row.
- *Placements*: the server a controller calls is the one the row names now, and what a
  start or a stop took for unplaced still is (`HandsPlaced`). What a server holds is
  finite (`SlotsFinite`). A row enters a server only by its own placement
  (`LoadGrows`), so what a server holds beyond the count of that placement was placed
  since; `RoomForAll` adds to a load the placements that counted the server and are
  under way.
- *Calls*: a call on the wire says what its command says; a fenced identifier has no
  workload; a workload that a waiting controller saw is still there or fenced
  (`RepliesHold`). Delayed calls are covered because the invariant speaks of every
  call on the wire, not of the ones somebody waits for.
- *Stops*: a generation that was asked to stop is never given to a host and never
  confirmed, so `observed_generation` of a released row came from the stop itself.
- *Deadlines*: of all the pairs of generation and deadline that rows, snapshots,
  calls, workloads and replies carry, a later generation has no earlier deadline
  (`DeadlinesGrow`), and what the user was promised is at most the deadline of the
  workload, or of every one that could still be created (`PromisesHold`).

Every step is a `TableStep` or a `HostStep`: two formulas that list what a step may do
to a row, a command, a controller's hand, a call or a workload. One lemma for each part
of `SInv'` follows from these formulas, and one for each group of actions proves them.

### RemoteHelper

`HelperAssumption`: any bounds, and deadlines that do not fall with the generation
(`extend_instance` only moves them forward).

- `HelperTypes`: `Spec => []TypeOK`;
- `EndIsForGood`: `Spec => []EndedStaysGone`;
- `ConfirmedMeansArmed`: `Spec => []TimerBacksWorkload`;
- `NoEarlyRemoval`: `Spec => PromiseKept`, an action property;
- `HelperImplementsSlot`: `Spec => ImplementsHostSlot`, the refinement of `HostSlot`.

The difficulty is that a process decides once and then acts in steps, and that it
can be killed, or fail and undo, between any two of them. The invariant `HInv`
therefore speaks of the list of effects a process has ahead of it:

- *World*: what a process finds when it takes the lock, even from one that died. An
  ended identifier is fenced and empty; a fence means that a stop was asked for or
  the last confirmed deadline is over; as long as a confirmed deadline binds the
  helper (`~Free`), the container is there, the state file covers the deadline and
  the timer is armed or a sweep owed.
- *Safe*: what has to hold for one effect to be harmless after those that
  precede it in the list. A container is removed after the tombstone, or while nothing
  is promised (an undone start); a state file is written after its timer, over no newer
  generation, and under no tombstone; a timer is cancelled when the file names another
  generation by then; a deadline is confirmed when container, file and timer
  will all be there; a sweep ends only with the timer armed.
- *Purpose*: a stop call implies that a stop was asked for, an expiry service
  that its deadline has passed.

Every plan is safe when it is made, every effect keeps `World` and leaves the rest of
the list safe (`EffectKeepsSafe`), and what `Undo` puts in its place is safe too. The
properties follow, and each effect is at most one step of `HostSlot`: the tombstone is
`Fence`, a state file is `Create` or `Extend`, an undone start is `Withdraw`, and a state
file that a power loss brings back is `Create`.

### OperationJournal

`JournalAssumption`: any set of commands, number of attempts, clock bound and number
of mishaps; `NoCommand` is no command. The proofs follow those of the helper, in
`RemoteHelperProofs`.

- `JournalTypes`: `JournalSpec => []JournalTypeOK`;
- `ForgettingIsSafe`: `JournalSpec => ForgottenOnlyWhenSettled`, an action property;
- `CleanupIsNotEarly`: `JournalSpec => NoEarlyStop`, an action property;
- `CleanupIsFinal`: `JournalSpec => []CleanedStaysDown`.

`JournalInv` is about every line of the file, not only the current ones, since a torn
or compacted file may make an old record current again: a record is of a command that
exists, of that command's generation, and of the deadline of this generation or a
later one (`RecordFits`), and so is what the task has in hand (`HandFits`). A workload
has the deadline of its generation, and deadlines only grow (`DeadlinesGrow`). A stop
from a stale record is therefore refused by a host that was extended meanwhile, and
a stop that is not refused comes after the deadline. `Cleaned` is what a cleanup leaves:
a tombstone, or a newer generation. Generations of commands, deadlines and cleanups
are never taken back (`Grows`), so a record that fits goes on to fit
(`RecordStaysFit`). Of the file two lemmas are enough: appending keeps a current record
of every command but the one it closes (`AppendKeeps`), and compaction keeps all of them
(`CompactedLines`).

### ObjectLifecycle

`StorageAssumption`: any sets of objects, targets, requests and workers, any grant,
upload limit, grace and number of faults; `None` is none of the identifiers.

- `ObjectsTyped`: `Spec => []TypeOK`;
- `ReadyObjectsHaveBytes`: `Spec => []ReadyHasBytes`;
- `DeletedObjectsAreGone`: `Spec => []DeletedIsGone`;
- `IconsAreReady`: `Spec => []IconIsReady`;
- `NewestIconWins`: `Spec => NewestChoiceWins`, an action property.

Rows and bytes cannot change together, so none of these is inductive. `OInv` says what
connects the two:

- *Holders*: of all completions and workers inside a transaction one at most holds a row
  (`OneHolder`). A row changes only while it is free or at the hand of its holder
  (`Changeable`), and the bytes under the final key only at the hand of its holder. So
  what a completion read before it copied (`RequestOK`), and a worker before it erased
  (`JobOK`), is still true when they commit.
- *Time*: no lock protects the staging key, since the signed request is accepted
  whatever the row says. An upload ends before `upload_expires_at` plus its
  maximum duration, and the cleanup is completed only after that, with nothing staged
  (`StagingOK`).
- *Pursuit*: the cleanup of a deleting object is done, open for the present revision, or
  failed in it (`Pursued`). That is what `defer_final_delete_for_staging_cleanup` looks
  at, so a final deletion that is not deferred finds the staging key cleared for good.
- *Drafts*: a pending upload of an icon was prepared after the last choice (`DraftOK`),
  because every choice retires the drafts before it. `NewestChoiceWins` follows.

`Step` lists what a step may do to a row, an operation, the bucket, a request and a
worker. `StepKeepsOInv` derives the invariant from it, and one lemma for each action
shows that the action is such a step.

### The portal modules

`Teams`, `Scoring`, `Definitions` and `Accounts` are proved along one argument, for any
number of accounts, teams, challenges, flags, addresses and transactions at the same
time.

1. *Conflicting locks are never held together* (`ExclusiveLocks`).
   Granting a lock only when `MayTake` allows it, and giving locks back only at the end,
   preserves exclusion, whoever the transactions are (`TakeKeepsExclusion`,
   `ReleaseKeepsExclusion`; the few lemmas on locks open each of the four modules).
2. *A bystander is not disturbed* (`Undisturbed`): while a transaction holds a lock,
   a step of another one does not change what that lock protects. Each handler has
   its case, because each writes under its own locks (`WritersHoldAll`).
3. *What was checked is still true at the write* (`DecisionsHold`, in `Scoring`
   `ConclusionsHold`; in `Definitions` the part of each check that the locks keep,
   `Decided`). Without this part none of the safety invariants is inductive:
   a write is harmless only as long as its check still holds.
4. *Every write keeps the tables consistent*: each of the properties, together with
   facts about rows that no single property states (members are of type `user`,
   solves belong to accounts, a link belongs to an account).

| module | theorems |
|---|---|
| `TeamsProofs` | types; `CaptainIsMember`; `NothingOutlivesItsMode`; `JoinFits`; `FoundingFits`; `DisbandsUnused`; `TransitionAsPreviewed`; `NoCircularWait` |
| `ScoringProofs` | types; `TriesBounded`; `ValueFollowsSolves`; `SolveIsFirst`; `NoOverspend`; `NoCircularWait` |
| `DefinitionsProofs` | types; `EveryChallengeKeepsAFlag`; `RunningMatchesDefinition`; `PublishedHasRuntime`; `OneChallengePerKey`; `GeneratedIsPrivate`; `AllocationMatchesDefinition`; `VariationsDiffer`; `NoCircularWait` |
| `AccountsProofs` | types; `ActiveAdminRemains`; `SetupOnce`; `PolicyIsConsistent`; `VerifiedIsProven`; `LinkIsCurrent`; `RegistrationAdmitted`; `RegistrationFits`; `NoCircularWait` |

`NothingOutlivesItsMode` also needs `RequestsOfThisMode`: a transaction that has
passed its first lock belongs to the present mode, because the transition needs that
lock exclusively and ends every participant's session. `TriesBounded` needs that,
while an attempt holds its account's lock, failed tries grow only by what
administrators record (`MoreOnlyGiven`). `ActiveAdminRemains` needs the setup
invariant lock of everyone who may demote, ban or delete. `VerifiedIsProven` needs
`LinkIsCurrent`, and that in turn that a resend holds its account's row until its link
is written.

In `Definitions` most checks are about one challenge under its definition lock, and
so nothing about a challenge changes for its holder (`Undisturbed`). Four things are
decided otherwise: a category is held by its row, a disabled runtime by the row of its
challenge, a key is unique in its table and so looked at again by the insertion, and
whether the gate is open may have changed by the time a challenge is published.
`RunningMatchesDefinition` needs `AllocationMatchesDefinition`,
because a launch hands out again what its user was allocated, and `VariationsDiffer`
needs that no two users share a variation (`VariationsAreUnique`).
`OneChallengePerKey` needs its converse too: a live challenge is the one its key
remembers.

`NoCircularWait` is proved with ranks. Every lock of a handler has a rank (`Rank`:
configuration first, then capacity, membership, keys and definitions, then users, teams
and challenges, and the rows of links and invites last), and every handler asks
only for ranks above those it holds, except for rows that no two transactions can
want in opposite orders because both hold an exclusive lock of a lower rank. So each
wait of a circle would be for a higher rank than the one before, and ranks are
bounded. `update_flag` locks two definitions of the same rank, the one of the smaller
identifier first, so `Definitions` orders these by identifier: of finitely many
challenges one is the greatest (`Greatest`). `Accounts` needs one hypothesis,
`OldLinks = {}`: two resends that purge links older than thirty days meet the rows in
any order. There sessions rank last, behind the rows an edit locks before it ends them,
and the property leaves out transactions that wait while they hold a session
(Deviations): without those two restrictions TLC shows a circle.

Assumptions on constants: `None` and the other markers are no members of the sets they
stand beside; there are finitely many users, teams, challenges and flags, since counts
are compared with limits and the greatest identifier exists; challenges are numbers,
because their identifiers order the locks; limits are naturals; `Decay` is positive
and the initial values have a greatest element, being 32-bit integers; a flag exists
to try.

### SshConsole

`SshAssumption`: any number of gateways, connections, administrators, host keys and
faults; `None` is none of the identifiers and key numbers, there is a key for the target
to present, and the limits on open tickets and missed heartbeats are positive.

- `TypeCorrect`: `Spec => []TypeOK`;
- `DeletedKeysStayGone`: `Spec => []DeletedKeyStaysGone`;
- `PublishedKeysAreStored`: `Spec => []PublishedIsStored`;
- `SessionsPinned`: `Spec => []OpenSessionIsPinned`;
- `OneTerminal`: `Spec => []OneTerminalPerAdmin`, under `Tolerated >= MaxMissed`.

`WellFormed` adds to the types what ties the processes to the tables: a worker and its
calls name an operation and no claim younger than the table's (`WorkersOK`, `CallsOK`), a
worker between `proceed` and the release holds the file lock, and a connection past
`consume` has a consumed ticket (`ConnsOK`).

*Keys* (`KeyInv`). The claim decides whose result counts and the lock who touches the
volume; a worker may act long after its claim ran out, so neither is enough. What
makes it work is the order in `process_operation`: lock first, then ask again. A
worker that generates was confirmed under the lock, so every result of its operation on
the wire or about to be sent is of an older claim (`Superseded`) and will be refused;
a newer claimant waits for the lock. A claim belongs to one worker, which reports once
(`ClaimsOK`). So a result that would still be accepted names the key that is stored
(`GenerationsOK`). The deletion waits for the lock as well, and a generation that asks
after it is told that the host is gone: once a deletion is reported, nothing is stored
and nobody generates (`Erased`, `ErasureOK`). While the host exists its deletion is
not enqueued, so the two cases do not meet.

*Sessions*. Every open session was opened by a `consume` under the authorization in
force, and any step that changes what the host accepts closes them all (`SessionsMove`).

*Terminals* (`TerminalInv`). A ticket admits one connection, which reports its end
last (`AdmissionsOK`). An administrator has one open session (`OneOpenSession`),
across all logins. A terminal has its session active and heard of, or what authorized
it is withdrawn (`SessionsOK`): the session closed, the host deleted, its revision
moved on, or the login ended. None of the four is ever undone (`AuthorityShrinks`,
`WithdrawnStays`), however often keys are reported and trusted. `Margin` bounds the
missed heartbeats below `MaxMissed`, and `Tolerated >= MaxMissed` then keeps the
session of a running terminal from being taken for abandoned. So of two terminals one
is withdrawn. The default configuration satisfies the hypothesis: at 15 seconds the
gateway gives up at the second heartbeat without an answer and the API waits for 45.
The longest interval allowed does not (`SshMargin`).

### Only model-checked

Liveness, because fairness and ENABLED are outside the prover's reach. Every safety
property and action property that the runs and the further configurations confirm is
proved.
Of the sum `Earned` in `Scoring` the proofs use that it is one value read under a lock,
not what it adds up to: that needs induction over the solves, which is not available.
No module declares a RECURSIVE operator, so all are open to proof.

## Plan

What is left: byte quotas of a principal against the bytes really stored, and requests
in flight to the bucket.

## Not modelled

Rate limiters: counters of one
process whose refusals are failures here. The front end, views and exports,
routing, configuration parsing, password hashing and template rendering have no
protocol state. Pages, brackets, custom fields, tags, notifications, ratings and
solutions are single-row edits no other component depends on. PROJECT.json gives
the reason for each part.
