----------------------------- MODULE SshConsole -----------------------------
(***************************************************************************)
(* The browser SSH console: one registered host, its client identity on    *)
(* the gateways' volume, one-use tickets and terminal sessions.            *)
(*                                                                         *)
(* The API's handlers lock the host's row before they decide, so each is   *)
(* one step.  A gateway's call is a message: the API serves it at any      *)
(* later time, also after the gateway gave up waiting or died; the answer  *)
(* reaches the caller only while it still waits for it.                    *)
(***************************************************************************)
EXTENDS Naturals, Sequences, FiniteSets

CONSTANTS
    Gateways,      \* gateway processes, each with an instance identifier of its own
    Conns,         \* WebSocket connections
    Admins,        \* administrators
    Logins,        \* browser sessions one of them may have
    HostKeys,      \* keys the target host may present
    None,          \* SQL NULL
    MaxOpen,       \* open tickets one administrator may have on the host
    MaxMissed,     \* consecutive heartbeats without an answer that end a terminal
    Tolerated,     \* heartbeats a terminal may miss before the API takes it for abandoned
    MaxTickets,    \* bound: tickets issued
    MaxOps,        \* bound: identity operations, the deletion included
    MaxKeys,       \* bound: client keys generated
    MaxTrusts,     \* bound: decisions to trust a host key
    MaxFaults      \* bound: calls given up (other than heartbeats of terminals), failures of the
                   \* work, leases run out under a worker, gateways dead, volumes lost

ASSUME SshAssumption ==
    /\ None \notin Gateways \cup Conns \cup Admins \cup Logins \cup HostKeys \cup 1..MaxKeys
    /\ Gateways \cap Conns = {} /\ HostKeys # {}
    /\ MaxOpen \in Nat \ {0} /\ MaxMissed \in Nat \ {0} /\ Tolerated \in Nat
    /\ MaxTickets \in Nat /\ MaxOps \in Nat \ {0} /\ MaxKeys \in Nat \ {0}
    /\ MaxTrusts \in Nat /\ MaxFaults \in Nat

VARIABLES
    host,        \* ssh_hosts
    candidates,  \* ssh_host_key_candidates: the keys reported by probes
    ops,         \* ssh_host_identity_operations
    tickets,     \* ssh_host_tickets
    session,     \* ssh_terminal_sessions, by ticket
    browser,     \* the browser sessions that are valid: administrator and login
    wire,        \* calls of the gateways that the API has not served
    volume,      \* the identity directory of the host, shared by the gateways
    lock,        \* holder of the file lock on it
    worker,      \* the identity worker of each gateway
    conn,        \* the connections
    server,      \* the key the target host presents
    up,          \* gateways that run
    spent        \* uses of the bounds

api     == <<host, candidates, ops, tickets, session>>
gateway == <<volume, lock, worker, conn, up>>
vars    == <<api, browser, wire, gateway, server, spent>>

----------------------------------------------------------------------------
(* State *)

\* Client keys are numbered as they are generated.
Key == 1..MaxKeys

Host == [identity : {"pending", "ready", "failed"},
         key : Key \cup {None}, trusted : HostKeys \cup {None},
         enabled : BOOLEAN, deleted : BOOLEAN, revision : Nat]

\* token: the number of the claim; every claim draws a new one.  lapsed: the
\* lease of the claim has run out.
Operation == [kind : {"generate", "delete"},
              state : {"pending", "claimed", "completed", "failed", "cancelled"},
              gateway : Gateways \cup {None}, token : Nat, lapsed : BOOLEAN]

NewOperation(kind) == [kind |-> kind, state |-> "pending", gateway |-> None, token |-> 0,
                       lapsed |-> FALSE]

\* create_host: an identity has to be generated before anything else.
CreatedHost == [identity |-> "pending", key |-> None, trusted |-> None,
                enabled |-> FALSE, deleted |-> FALSE, revision |-> 1]

\* void: revoked or expired.
Ticket == [purpose : {"probe", "terminal"}, admin : Admins, login : Logins,
           state : {"open", "consumed", "void"}, gateway : Gateways \cup {None}]

\* silent: connecting for 30 seconds, or active and 45 seconds without heartbeat.
\* abandoned: closed for that, and not because something was decided or reported.
Session == [state : {"none", "connecting", "active", "closed", "abandoned"},
            revision : Nat, trusted : HostKeys \cup {None}, silent : BOOLEAN]
NoSession == [state |-> "none", revision |-> 0, trusted |-> None, silent |-> FALSE]
Ended     == [NoSession EXCEPT !.state = "closed"]

Open(s) == s.state \in {"connecting", "active"}

\* from: the connection, or the gateway whose worker calls.  id: the ticket or the
\* operation the call is about.
Call(name, from, g, id) ==
    [call |-> name, from |-> from, gateway |-> g, id |-> id, token |-> 0, key |-> None]

\* A caller that waits for the answer of a call has the name of the call as its pc.
RestingWorker == [pc |-> "idle", op |-> 0, token |-> 0, key |-> None]
NoConn        == [pc |-> "idle", gateway |-> None, ticket |-> 0, key |-> None,
                  trusted |-> None, missed |-> 0]
EmptyVolume   == [dir |-> FALSE, key |-> None, marker |-> FALSE]

WorkerCalls == {"claim", "proceed", "complete", "fail"}
ConnCalls   == {"consume", "candidate", "invalid", "connected", "heartbeat", "closed"}

Message ==
    [call : WorkerCalls, from : Gateways, gateway : Gateways, id : Nat, token : Nat,
     key : Key \cup {None}]
    \cup [call : ConnCalls, from : Conns, gateway : Gateways, id : Nat, token : {0},
          key : HostKeys \cup {None}]

Worker == [pc : WorkerCalls \cup {"idle", "locking", "working", "keygen", "unmarking",
                                  "releasing", "failing"},
           op : Nat, token : Nat, key : Key \cup {None}]

Connection == [pc : ConnCalls \cup {"idle", "granted", "checking", "checked", "marking",
                                    "bridging", "closing"},
               gateway : Gateways \cup {None}, ticket : Nat, key : Key \cup {None},
               trusted : HostKeys \cup {None}, missed : Nat]

Volume == [dir : BOOLEAN, key : Key \cup {None}, marker : BOOLEAN]

\* A terminal's ssh process runs from its start to the end of the bridge, which the
\* browser uses once the API has agreed.
Bridged(c) == conn[c].pc \in {"bridging", "heartbeat"}
Running(c) == Bridged(c) \/ conn[c].pc = "connected"

----------------------------------------------------------------------------
(* Administrators *)

\* Deleting, trusting and invalidating revoke what is not consumed and close what
\* is open.
RevokeTickets == [t \in DOMAIN tickets |->
    IF tickets[t].state = "open" THEN [tickets[t] EXCEPT !.state = "void"] ELSE tickets[t]]

CloseSessions == [t \in DOMAIN session |->
    IF Open(session[t]) THEN Ended ELSE session[t]]

Cancelled == [i \in DOMAIN ops |->
    IF ops[i].kind = "generate" /\ ops[i].state \in {"pending", "claimed"}
    THEN [ops[i] EXCEPT !.state = "cancelled", !.gateway = None, !.lapsed = FALSE]
    ELSE ops[i]]

DeleteHost ==
    /\ ~host.deleted
    /\ host' = [host EXCEPT !.enabled = FALSE, !.deleted = TRUE, !.revision = @ + 1]
    /\ ops' = Append(Cancelled, NewOperation("delete"))
    /\ tickets' = RevokeTickets
    /\ session' = CloseSessions
    /\ UNCHANGED <<candidates, browser, wire, gateway, server, spent>>

\* One operation is kept for the deletion.
RetryIdentity ==
    /\ ~host.deleted /\ host.identity = "failed"
    /\ Len(ops) < MaxOps - 1
    /\ host' = [host EXCEPT !.identity = "pending", !.revision = @ + 1]
    /\ ops' = Append(ops, NewOperation("generate"))
    /\ UNCHANGED <<candidates, tickets, session, browser, wire, gateway, server, spent>>

\* The administrator confirms a candidate on a page that shows the current revision.
TrustHostKey(f) ==
    /\ ~host.deleted /\ host.identity = "ready" /\ f \in candidates
    /\ spent.trusts < MaxTrusts
    /\ host' = [host EXCEPT !.trusted = f, !.enabled = TRUE, !.revision = @ + 1]
    /\ tickets' = RevokeTickets
    /\ session' = CloseSessions
    /\ spent' = [spent EXCEPT !.trusts = @ + 1]
    /\ UNCHANGED <<candidates, ops, browser, wire, gateway, server>>

\* What issuing and consuming a ticket ask of the host.
HostAccepts(purpose) ==
    /\ ~host.deleted /\ host.identity = "ready"
    /\ purpose = "terminal" => host.enabled /\ host.trusted # None

IssueTicket(a, l, purpose) ==
    /\ <<a, l>> \in browser
    /\ HostAccepts(purpose)
    /\ Cardinality({t \in DOMAIN tickets : tickets[t].admin = a /\ tickets[t].state = "open"})
         < MaxOpen
    /\ Len(tickets) < MaxTickets
    /\ tickets' = Append(tickets, [purpose |-> purpose, admin |-> a, login |-> l,
                                   state |-> "open", gateway |-> None])
    /\ session' = Append(session, NoSession)
    /\ UNCHANGED <<host, candidates, ops, browser, wire, gateway, server, spent>>

----------------------------------------------------------------------------
(* The API serves the calls of identity workers *)

WorkerOf(m) == worker[m.from]
WorkerWaits(m) == WorkerOf(m).pc = m.call /\ WorkerOf(m).op = m.id /\ WorkerOf(m).token = m.token

\* The caller goes on with its state w, if it still waits.
AnswerWorker(m, w) ==
    worker' = IF WorkerWaits(m) THEN [worker EXCEPT ![m.from] = w] ELSE worker

Generating == ~host.deleted /\ host.identity = "pending"

\* Generation for a deleted host is cancelled, then claims whose lease ran out are
\* pending again.  Without the second part a claim would be for ever.
CancelledOnly == IF host.deleted THEN Cancelled ELSE ops
Reclaimed == [i \in DOMAIN ops |->
    IF CancelledOnly[i].state = "claimed" /\ CancelledOnly[i].lapsed
    THEN [CancelledOnly[i] EXCEPT !.state = "pending", !.gateway = None, !.lapsed = FALSE]
    ELSE CancelledOnly[i]]

Claimable(rows, i) == rows[i].state = "pending" /\ (rows[i].kind = "delete" \/ Generating)

\* Deletions come first.
NextClaim(rows, i) ==
    /\ Claimable(rows, i)
    /\ \A j \in DOMAIN rows :
           Claimable(rows, j) /\ rows[j].kind = "delete" => rows[i].kind = "delete"

ClaimIdentityOperation(m) ==
    /\ \/ /\ \A i \in DOMAIN ops : ~Claimable(Reclaimed, i)
          /\ ops' = Reclaimed
          /\ AnswerWorker(m, RestingWorker)
       \/ \E i \in DOMAIN ops :
            /\ NextClaim(Reclaimed, i)
            /\ ops' = [Reclaimed EXCEPT ![i].state = "claimed", ![i].gateway = m.gateway,
                                        ![i].token = @ + 1]
            /\ AnswerWorker(m, [pc |-> "locking", op |-> i, token |-> ops[i].token + 1,
                                key |-> None])
    /\ UNCHANGED <<host, candidates, tickets, session>>

HoldsClaim(m) ==
    /\ ops[m.id].state = "claimed" /\ ops[m.id].gateway = m.gateway
    /\ ops[m.id].token = m.token /\ ~ops[m.id].lapsed

\* heartbeat_identity_operation: asked with the file lock held, before the volume is
\* touched.  It renews the lease.  Faulty variant: any claim is renewed.
ProceedAnyway(m) == TRUE
MayProceed(m) == HoldsClaim(m) /\ (ops[m.id].kind = "delete" \/ Generating)

HeartbeatIdentityOperation(m) ==
    /\ AnswerWorker(m, IF MayProceed(m) THEN [WorkerOf(m) EXCEPT !.pc = "working"]
                                        ELSE [WorkerOf(m) EXCEPT !.pc = "releasing"])
    /\ UNCHANGED api

EndOperation(i, state) == [ops EXCEPT ![i].state = state, ![i].gateway = None]

CompleteIdentityOperation(m) ==
    \/ /\ HoldsClaim(m) /\ ops[m.id].kind = "delete"
       /\ ops' = EndOperation(m.id, "completed")
       /\ AnswerWorker(m, RestingWorker)
       /\ UNCHANGED <<host, candidates, tickets, session>>
    \/ /\ HoldsClaim(m) /\ ops[m.id].kind = "generate" /\ Generating
       /\ ops' = EndOperation(m.id, "completed")
       /\ host' = [host EXCEPT !.identity = "ready", !.key = m.key, !.revision = @ + 1]
       /\ AnswerWorker(m, RestingWorker)
       /\ UNCHANGED <<candidates, tickets, session>>
    \/ /\ ~(HoldsClaim(m) /\ (ops[m.id].kind = "delete" \/ Generating))
       /\ AnswerWorker(m, [WorkerOf(m) EXCEPT !.pc = "failing"])
       /\ UNCHANGED api

FailIdentityOperation(m) ==
    /\ AnswerWorker(m, RestingWorker)
    /\ \/ /\ HoldsClaim(m) /\ ops[m.id].kind = "delete"
          /\ ops' = EndOperation(m.id, "pending")
          /\ UNCHANGED host
       \/ /\ HoldsClaim(m) /\ ops[m.id].kind = "generate"
          /\ ops' = EndOperation(m.id, "failed")
          /\ host' = IF Generating
                     THEN [host EXCEPT !.identity = "failed", !.revision = @ + 1]
                     ELSE host
       \/ /\ ~HoldsClaim(m)
          /\ UNCHANGED <<ops, host>>
    /\ UNCHANGED <<candidates, tickets, session>>

----------------------------------------------------------------------------
(* The API serves the calls of connections *)

ConnOf(m) == conn[m.from]
ConnWaits(m) == ConnOf(m).pc = m.call /\ ConnOf(m).ticket = m.id /\ ConnOf(m).gateway = m.gateway
AnswerConn(m, c) == conn' = IF ConnWaits(m) THEN [conn EXCEPT ![m.from] = c] ELSE conn

\* consume_ticket closes the sessions that have been silent for too long.
Swept == [t \in DOMAIN session |->
    IF Open(session[t]) /\ session[t].silent
    THEN [session[t] EXCEPT !.state = "abandoned", !.silent = FALSE] ELSE session[t]]

\* ticket_session_is_valid
LoggedIn(t) == <<tickets[t].admin, tickets[t].login>> \in browser

\* Counted for the administrator, whichever browser session the terminal came from.
HasTerminal(a) == \E t \in DOMAIN session : tickets[t].admin = a /\ Open(Swept[t])

MayConsume(t) ==
    /\ tickets[t].state = "open" /\ HostAccepts(tickets[t].purpose)
    /\ LoggedIn(t)
    /\ tickets[t].purpose = "terminal" => ~HasTerminal(tickets[t].admin)

ConsumeTicket(m) ==
    \/ /\ MayConsume(m.id)
       /\ tickets' = [tickets EXCEPT ![m.id].state = "consumed", ![m.id].gateway = m.gateway]
       /\ session' = IF tickets[m.id].purpose = "terminal"
                     THEN [Swept EXCEPT ![m.id] = [state |-> "connecting",
                              revision |-> host.revision, trusted |-> host.trusted,
                              silent |-> FALSE]]
                     ELSE session
       /\ AnswerConn(m, [ConnOf(m) EXCEPT !.pc = "granted", !.key = host.key,
                                          !.trusted = host.trusted])
       /\ UNCHANGED <<host, candidates, ops>>
    \/ /\ ~MayConsume(m.id)
       /\ AnswerConn(m, NoConn)
       /\ UNCHANGED api

\* A terminal reports the key it did not expect and ends, a probe is over.
AfterReport(m) ==
    IF tickets[m.id].purpose = "probe" THEN NoConn ELSE [ConnOf(m) EXCEPT !.pc = "closing"]

\* Only the gateway that consumed a probe ticket reports with it.
ReportHostKeyCandidate(m) ==
    /\ AnswerConn(m, AfterReport(m))
    /\ IF /\ ~host.deleted /\ host.identity = "ready"
          /\ tickets[m.id].purpose = "probe" /\ tickets[m.id].state = "consumed"
          /\ tickets[m.id].gateway = m.gateway
       THEN /\ candidates' = candidates \cup {m.key}
            /\ host' = [host EXCEPT !.revision = @ + 1]
       ELSE UNCHANGED <<candidates, host>>
    /\ UNCHANGED <<ops, tickets, session>>

\* A host that failed with the same code is left alone, as is one without identity.
ReportIdentityInvalid(m) ==
    /\ AnswerConn(m, [ConnOf(m) EXCEPT !.pc = "closing"])
    /\ IF ~host.deleted /\ host.identity = "ready"
       THEN /\ host' = [host EXCEPT !.enabled = FALSE, !.identity = "failed", !.key = None,
                                    !.revision = @ + 1]
            /\ tickets' = RevokeTickets
            /\ session' = CloseSessions
       ELSE UNCHANGED <<host, tickets, session>>
    /\ UNCHANGED <<candidates, ops>>

\* What a session needs of its host and of the browser session behind it, all its
\* life long.
Authorised(t) ==
    /\ ~host.deleted /\ host.enabled
    /\ host.revision = session[t].revision /\ host.trusted = session[t].trusted
    /\ LoggedIn(t)

SessionConnected(m) ==
    \/ /\ Authorised(m.id) /\ session[m.id].state = "connecting"
       /\ session' = [session EXCEPT ![m.id].state = "active", ![m.id].silent = FALSE]
       /\ AnswerConn(m, [ConnOf(m) EXCEPT !.pc = "bridging"])
       /\ UNCHANGED <<host, candidates, ops, tickets>>
    \/ /\ ~(Authorised(m.id) /\ session[m.id].state = "connecting")
       /\ session' = IF ~Authorised(m.id) /\ Open(session[m.id])
                     THEN [session EXCEPT ![m.id] = Ended] ELSE session
       /\ AnswerConn(m, [ConnOf(m) EXCEPT !.pc = "closing"])
       /\ UNCHANGED <<host, candidates, ops, tickets>>

\* Faulty variant: the authorization is not looked at again.
ContinuesWhileActive(t) == session[t].state = "active"
MayContinue(t) == session[t].state = "active" /\ Authorised(t)

SessionHeartbeat(m) ==
    /\ \/ /\ MayContinue(m.id)
          /\ session' = [session EXCEPT ![m.id].silent = FALSE]
          /\ AnswerConn(m, [ConnOf(m) EXCEPT !.pc = "bridging", !.missed = 0])
       \/ /\ ~MayContinue(m.id)
          /\ session' = IF session[m.id].state = "active"
                        THEN [session EXCEPT ![m.id] = Ended] ELSE session
          /\ AnswerConn(m, [ConnOf(m) EXCEPT !.pc = "closing", !.missed = 0])
    /\ UNCHANGED <<host, candidates, ops, tickets>>

SessionClosed(m) ==
    /\ session' = IF Open(session[m.id])
                  THEN [session EXCEPT ![m.id] = Ended] ELSE session
    /\ AnswerConn(m, NoConn)
    /\ UNCHANGED <<host, candidates, ops, tickets>>

Serve(m) ==
    /\ wire' = wire \ {m}
    /\ \/ /\ \/ m.call = "claim"     /\ ClaimIdentityOperation(m)
             \/ m.call = "proceed"   /\ HeartbeatIdentityOperation(m)
             \/ m.call = "complete"  /\ CompleteIdentityOperation(m)
             \/ m.call = "fail"      /\ FailIdentityOperation(m)
          /\ UNCHANGED conn
       \/ /\ \/ m.call = "consume"   /\ ConsumeTicket(m)
             \/ m.call = "candidate" /\ ReportHostKeyCandidate(m)
             \/ m.call = "invalid"   /\ ReportIdentityInvalid(m)
             \/ m.call = "connected" /\ SessionConnected(m)
             \/ m.call = "heartbeat" /\ SessionHeartbeat(m)
             \/ m.call = "closed"    /\ SessionClosed(m)
          /\ UNCHANGED worker
    /\ UNCHANGED <<browser, volume, lock, up, server, spent>>

----------------------------------------------------------------------------
(* Identity workers *)

WorkerUnchanged == UNCHANGED <<api, browser, conn, up, server>>

SendWorker(g, name, op, token, key) ==
    /\ wire' = wire \cup {[Call(name, g, g, op) EXCEPT !.token = token, !.key = key]}
    /\ worker' = [worker EXCEPT ![g] = [pc |-> name, op |-> op, token |-> token, key |-> key]]

Claim(g) ==
    /\ g \in up /\ worker[g].pc = "idle"
    /\ \E i \in DOMAIN ops : ops[i].state \in {"pending", "claimed"}
    /\ SendWorker(g, "claim", 0, 0, None)
    /\ WorkerUnchanged /\ UNCHANGED <<volume, lock, spent>>

AcquireLock(g) ==
    /\ g \in up /\ worker[g].pc = "locking" /\ lock = None
    /\ lock' = g
    /\ SendWorker(g, "proceed", worker[g].op, worker[g].token, None)
    /\ WorkerUnchanged /\ UNCHANGED <<volume, spent>>

ReleaseLock(g) ==
    /\ g \in up /\ worker[g].pc = "releasing"
    /\ lock' = None
    /\ worker' = [worker EXCEPT ![g] = RestingWorker]
    /\ WorkerUnchanged /\ UNCHANGED <<wire, volume, spent>>

OperationOf(g) == ops[worker[g].op]

\* generate_identity_blocking: an identity that is there and not marked is used
\* again; otherwise the files are removed first.
GenerateIdentity(g) ==
    /\ g \in up /\ worker[g].pc = "working" /\ OperationOf(g).kind = "generate"
    /\ IF volume.key # None /\ ~volume.marker
       THEN /\ lock' = None
            /\ SendWorker(g, "complete", worker[g].op, worker[g].token, volume.key)
            /\ UNCHANGED volume
       ELSE /\ volume' = [volume EXCEPT !.dir = TRUE, !.key = None]
            /\ worker' = [worker EXCEPT ![g].pc = "keygen"]
            /\ UNCHANGED <<wire, lock>>
    /\ WorkerUnchanged /\ UNCHANGED spent

\* The new pair is renamed into place before the marker is removed.
PublishKeys(g) ==
    /\ g \in up /\ worker[g].pc = "keygen" /\ spent.keys < MaxKeys
    /\ volume' = [volume EXCEPT !.dir = TRUE, !.key = spent.keys + 1]
    /\ spent' = [spent EXCEPT !.keys = @ + 1]
    /\ worker' = [worker EXCEPT ![g].pc = "unmarking", ![g].key = spent.keys + 1]
    /\ WorkerUnchanged /\ UNCHANGED <<wire, lock>>

RemoveMarker(g) ==
    /\ g \in up /\ worker[g].pc = "unmarking"
    /\ volume' = [volume EXCEPT !.marker = FALSE]
    /\ lock' = None
    /\ SendWorker(g, "complete", worker[g].op, worker[g].token, worker[g].key)
    /\ WorkerUnchanged /\ UNCHANGED spent

DeleteIdentity(g) ==
    /\ g \in up /\ worker[g].pc = "working" /\ OperationOf(g).kind = "delete"
    /\ volume' = EmptyVolume
    /\ lock' = None
    /\ SendWorker(g, "complete", worker[g].op, worker[g].token, None)
    /\ WorkerUnchanged /\ UNCHANGED spent

\* ssh-keygen, or the file system, fails.
WorkFails(g) ==
    /\ g \in up /\ worker[g].pc \in {"working", "keygen", "unmarking"}
    /\ spent.faults < MaxFaults
    /\ spent' = [spent EXCEPT !.faults = @ + 1]
    /\ lock' = None
    /\ worker' = [worker EXCEPT ![g].pc = "failing"]
    /\ WorkerUnchanged /\ UNCHANGED <<wire, volume>>

ReportFailure(g) ==
    /\ g \in up /\ worker[g].pc = "failing"
    /\ SendWorker(g, "fail", worker[g].op, worker[g].token, None)
    /\ WorkerUnchanged /\ UNCHANGED <<volume, lock, spent>>

\* A call that fails: the claim is tried again later, a failed revalidation ends the
\* work, a failed completion is reported as a failure of the work.  Without the file
\* lock there is nothing to report.
AfterGivingUp(pc) ==
    CASE pc = "claim"    -> "idle"
      [] pc = "locking"  -> "idle"
      [] pc = "proceed"  -> "releasing"
      [] pc = "complete" -> "failing"
      [] pc = "fail"     -> "idle"

WorkerGivesUp(g) ==
    /\ g \in up /\ worker[g].pc \in WorkerCalls \cup {"locking"}
    /\ spent.faults < MaxFaults
    /\ spent' = [spent EXCEPT !.faults = @ + 1]
    /\ worker' = IF AfterGivingUp(worker[g].pc) = "idle"
                 THEN [worker EXCEPT ![g] = RestingWorker]
                 ELSE [worker EXCEPT ![g].pc = AfterGivingUp(worker[g].pc)]
    /\ WorkerUnchanged /\ UNCHANGED <<wire, volume, lock>>

WorkerStep(g) ==
    \/ Claim(g) \/ AcquireLock(g) \/ ReleaseLock(g) \/ GenerateIdentity(g)
    \/ PublishKeys(g) \/ RemoveMarker(g) \/ DeleteIdentity(g) \/ ReportFailure(g)

----------------------------------------------------------------------------
(* Connections *)

ConnUnchanged == UNCHANGED <<api, browser, worker, up, server>>

Goto(c, pc) == conn' = [conn EXCEPT ![c].pc = pc]

SendConn(c, name, key) ==
    /\ wire' = wire \cup {[Call(name, c, conn[c].gateway, conn[c].ticket) EXCEPT !.key = key]}
    /\ Goto(c, name)

\* The browser sends its ticket in the first frame.  Nothing stops it from presenting
\* a ticket twice.
Present(c, t, g) ==
    /\ g \in up /\ conn[c].pc = "idle" /\ tickets[t].state = "open"
    /\ wire' = wire \cup {Call("consume", c, g, t)}
    /\ conn' = [conn EXCEPT ![c] = [NoConn EXCEPT !.pc = "consume", !.gateway = g, !.ticket = t]]
    /\ ConnUnchanged /\ UNCHANGED <<volume, lock, spent>>

PurposeOf(c) == tickets[conn[c].ticket].purpose

\* The key the target presents is reported, refused or accepted.
ProbeHostKey(c) ==
    /\ conn[c].pc = "granted"
    /\ IF PurposeOf(c) = "probe" \/ server # conn[c].trusted
       THEN SendConn(c, "candidate", server)
       ELSE Goto(c, "checking") /\ UNCHANGED wire
    /\ ConnUnchanged /\ UNCHANGED <<volume, lock, spent>>

\* No destination, no capacity, no key, shutdown, authentication failed, ssh did not
\* start, the browser is gone, a time limit: a probe just ends, a terminal is closed.
Abandon(c) ==
    /\ conn[c].pc \in {"granted", "checking", "checked", "bridging"}
    /\ conn' = [conn EXCEPT ![c] = IF PurposeOf(c) = "probe" THEN NoConn
                                   ELSE [@ EXCEPT !.pc = "closing", !.missed = 0]]
    /\ ConnUnchanged /\ UNCHANGED <<wire, volume, lock, spent>>

\* validate_identity_binding, with the file lock held for the length of the check.  A
\* key other than the granted one is marked at once, as is one that ssh-keygen fails on.
ValidateIdentityBinding(c) ==
    /\ conn[c].pc = "checking" /\ lock = None
    /\ \/ /\ volume.key = conn[c].key
          /\ Goto(c, "checked")
          /\ UNCHANGED <<volume, spent>>
       \/ /\ volume.key = conn[c].key => spent.faults < MaxFaults
          /\ Goto(c, "marking")
          /\ volume' = [volume EXCEPT !.marker = @ \/ volume.key # None]
          /\ spent' = [spent EXCEPT !.faults = IF volume.key = conn[c].key THEN @ + 1 ELSE @]
    /\ ConnUnchanged /\ UNCHANGED <<wire, lock>>

\* mark_identity_for_rotation takes the lock a second time.
MarkIdentityForRotation(c) ==
    /\ conn[c].pc = "marking" /\ lock = None
    /\ volume' = [volume EXCEPT !.marker = @ \/ volume.dir]
    /\ SendConn(c, "invalid", None)
    /\ ConnUnchanged /\ UNCHANGED <<lock, spent>>

SpawnTerminal(c) ==
    /\ conn[c].pc = "checked"
    /\ SendConn(c, "connected", None)
    /\ ConnUnchanged /\ UNCHANGED <<volume, lock, spent>>

Heartbeat(c) ==
    /\ conn[c].pc = "bridging"
    /\ SendConn(c, "heartbeat", None)
    /\ ConnUnchanged /\ UNCHANGED <<volume, lock, spent>>

CloseReport(c) ==
    /\ conn[c].pc = "closing"
    /\ SendConn(c, "closed", None)
    /\ ConnUnchanged /\ UNCHANGED <<volume, lock, spent>>

\* What is left of a connection whose call failed.
Missed(c) ==
    IF conn[c].missed + 1 >= MaxMissed
    THEN [conn[c] EXCEPT !.pc = "closing", !.missed = 0]
    ELSE [conn[c] EXCEPT !.pc = "bridging", !.missed = @ + 1]

ConnGivesUp(c) ==
    /\ conn[c].pc \in ConnCalls
    /\ \/ conn[c].pc = "heartbeat" /\ UNCHANGED spent
       \/ /\ conn[c].pc # "heartbeat" /\ spent.faults < MaxFaults
          /\ spent' = [spent EXCEPT !.faults = @ + 1]
    /\ conn' = [conn EXCEPT ![c] =
         CASE conn[c].pc \in {"consume", "closed"}      -> NoConn
           [] conn[c].pc = "candidate"
                -> IF PurposeOf(c) = "probe" THEN NoConn ELSE [conn[c] EXCEPT !.pc = "closing"]
           [] conn[c].pc \in {"invalid", "connected"}   -> [conn[c] EXCEPT !.pc = "closing"]
           [] conn[c].pc = "heartbeat"                  -> Missed(c)]
    /\ ConnUnchanged /\ UNCHANGED <<wire, volume, lock>>

ConnStep(c) ==
    \/ ProbeHostKey(c) \/ ValidateIdentityBinding(c) \/ MarkIdentityForRotation(c)
    \/ SpawnTerminal(c) \/ Heartbeat(c) \/ CloseReport(c)

----------------------------------------------------------------------------
(* The environment *)

\* A call nobody waits for any more may never be served: it was lost.
Waited(m) == IF m.from \in Gateways THEN WorkerWaits(m) ELSE ConnWaits(m)

\* Tickets live for 30 seconds.
TicketExpires(t) ==
    /\ tickets[t].state = "open"
    /\ tickets' = [tickets EXCEPT ![t].state = "void"]
    /\ UNCHANGED <<host, candidates, ops, session, browser, wire, gateway, server, spent>>

\* 45 seconds without heartbeat: how many the gateway can miss by then depends on its
\* interval, two when it is 15 seconds and one when it is 30.
SessionFallsSilent(t) ==
    /\ Open(session[t]) /\ ~session[t].silent
    /\ session[t].state = "active" => \A c \in Conns :
           Bridged(c) /\ conn[c].ticket = t => conn[c].missed >= Tolerated
    /\ session' = [session EXCEPT ![t].silent = TRUE]
    /\ UNCHANGED <<host, candidates, ops, tickets, browser, wire, gateway, server, spent>>

\* The lease of a claim that a worker still acts on, or of one that nobody knows of.
Worked(i) == \E g \in up : worker[g].op = i /\ worker[g].token = ops[i].token
LeaseLapses(i) ==
    /\ ops[i].state = "claimed" /\ ~ops[i].lapsed
    /\ Worked(i) => spent.faults < MaxFaults
    /\ ops' = [ops EXCEPT ![i].lapsed = TRUE]
    /\ spent' = [spent EXCEPT !.faults = IF Worked(i) THEN @ + 1 ELSE @]
    /\ UNCHANGED <<host, candidates, tickets, session, browser, wire, gateway, server>>

\* Logout, expiry, or one of those that a role change or a ban ends.
BrowserSessionEnds(a, l) ==
    /\ <<a, l>> \in browser
    /\ browser' = browser \ {<<a, l>>}
    /\ UNCHANGED <<api, wire, gateway, server, spent>>

\* A gateway dies: its ssh processes and its file lock go with it.
Crash(g) ==
    /\ g \in up /\ spent.faults < MaxFaults
    /\ up' = up \ {g}
    /\ spent' = [spent EXCEPT !.faults = @ + 1]
    /\ worker' = [worker EXCEPT ![g] = RestingWorker]
    /\ conn' = [c \in Conns |-> IF conn[c].gateway = g THEN NoConn ELSE conn[c]]
    /\ lock' = IF lock = g THEN None ELSE lock
    /\ UNCHANGED <<api, browser, wire, volume, server>>

VolumeLost ==
    /\ spent.faults < MaxFaults /\ lock = None /\ volume.dir
    /\ volume' = EmptyVolume
    /\ spent' = [spent EXCEPT !.faults = @ + 1]
    /\ UNCHANGED <<api, browser, wire, lock, worker, conn, up, server>>

\* A key that no probe has reported could as well have been another one before.
HostKeyChanges ==
    /\ server \in candidates /\ \E f \in HostKeys \ candidates : server' = f
    /\ UNCHANGED <<api, browser, wire, gateway, spent>>

----------------------------------------------------------------------------

Unspent == [keys |-> 0, trusts |-> 0, faults |-> 0]

\* A host as it was registered, or one that is in use: its identity was generated, the
\* key it presents was probed and trusted.  Which of the interchangeable keys that is
\* does not matter.  A login starts when it first asks for a ticket.
Init ==
    /\ tickets = <<>> /\ session = <<>> /\ wire = {} /\ lock = None
    /\ browser = Admins \X Logins /\ up = Gateways
    /\ worker = [g \in Gateways |-> RestingWorker]
    /\ conn = [c \in Conns |-> NoConn]
    /\ server = CHOOSE f \in HostKeys : TRUE
    /\ \/ /\ host = CreatedHost
          /\ candidates = {}
          /\ ops = <<NewOperation("generate")>>
          /\ volume = EmptyVolume
          /\ spent = Unspent
       \/ /\ host = [CreatedHost EXCEPT !.identity = "ready", !.key = 1, !.trusted = server,
                                        !.enabled = TRUE, !.revision = 4]
          /\ candidates = {server}
          /\ ops = <<[NewOperation("generate") EXCEPT !.state = "completed", !.token = 1]>>
          /\ volume = [dir |-> TRUE, key |-> 1, marker |-> FALSE]
          /\ spent = [Unspent EXCEPT !.keys = 1]

Next ==
    \/ DeleteHost \/ RetryIdentity \/ VolumeLost \/ HostKeyChanges
    \/ \E f \in HostKeys : TrustHostKey(f)
    \/ \E a \in Admins, l \in Logins :
           \/ BrowserSessionEnds(a, l)
           \/ \E purpose \in {"probe", "terminal"} : IssueTicket(a, l, purpose)
    \/ \E m \in wire : Serve(m)
    \/ \E g \in Gateways : WorkerStep(g) \/ WorkFails(g) \/ WorkerGivesUp(g) \/ Crash(g)
    \/ \E c \in Conns : \/ ConnStep(c) \/ Abandon(c) \/ ConnGivesUp(c)
                        \/ \E t \in DOMAIN tickets, g \in Gateways : Present(c, t, g)
    \/ \E t \in DOMAIN tickets : TicketExpires(t) \/ SessionFallsSilent(t)
    \/ \E i \in DOMAIN ops : LeaseLapses(i)

Spec == Init /\ [][Next]_vars

\* The API serves what it is asked while the caller waits; the tasks of a gateway go on;
\* the file lock is granted in turn; a lease nobody renews runs out.
Fairness ==
    /\ \A p \in Gateways \cup Conns :
           WF_vars(\E m \in wire : m.from = p /\ Waited(m) /\ Serve(m))
    /\ \A g \in Gateways : WF_vars(WorkerStep(g)) /\ SF_vars(AcquireLock(g))
    /\ \A c \in Conns : WF_vars(ConnStep(c))
    /\ WF_vars(\E i \in DOMAIN ops : ~Worked(i) /\ LeaseLapses(i))

FairSpec == Spec /\ Fairness

----------------------------------------------------------------------------
(* Properties *)

RowsOK ==
    /\ host \in Host
    /\ host.enabled => ~host.deleted /\ host.identity = "ready" /\ host.trusted # None
    /\ host.key # None <=> host.identity = "ready"
    /\ candidates \subseteq HostKeys
    /\ ops \in Seq(Operation) /\ tickets \in Seq(Ticket) /\ session \in Seq(Session)
    /\ Len(session) = Len(tickets)
    /\ \A t \in DOMAIN session : session[t].state # "none" =>
           tickets[t].state = "consumed" /\ tickets[t].purpose = "terminal"
    /\ \A i, j \in DOMAIN ops : i # j /\ ops[i].kind = ops[j].kind =>
           ~({ops[i].state, ops[j].state} \subseteq {"pending", "claimed"})

ProcessesOK ==
    /\ browser \subseteq Admins \X Logins /\ up \subseteq Gateways /\ server \in HostKeys
    /\ wire \subseteq Message /\ volume \in Volume /\ lock \in Gateways \cup {None}
    /\ worker \in [Gateways -> Worker] /\ conn \in [Conns -> Connection]
    /\ spent \in [keys : 0..MaxKeys, trusts : Nat, faults : Nat]

\* The state is well formed: every session belongs to a consumed terminal ticket, and
\* one operation of a kind is open.
TypeOK == RowsOK /\ ProcessesOK

\* Once the deletion of a host's identity has been acknowledged (complete_identity_operation)
\* no private key of it is on the volume, whatever generation a second gateway, an
\* expired claim or a delayed call left under way (process_operation).
DeletedKeyStaysGone ==
    (\E i \in DOMAIN ops : ops[i].kind = "delete" /\ ops[i].state = "completed")
        => volume.key = None

\* The public key the page shows for installation belongs to the private key on the
\* volume, unless that was lost: expired claims, reused identities and rotation markers
\* never publish one key and leave another (generate_identity_blocking, complete).
PublishedIsStored ==
    host.identity = "ready" /\ ~host.deleted => volume.key \in {host.key, None}

\* A session that is connecting or active is one to an enabled host under the host key
\* that is trusted now: deleting, trusting another key and invalidating the identity
\* leave none behind (delete_host, trust_host_key, report_identity_invalid).
OpenSessionIsPinned ==
    \A t \in DOMAIN session : Open(session[t]) =>
        ~host.deleted /\ host.enabled /\ session[t].trusted = host.trusted

\* A session was closed, other than for its silence, or what it was opened under is over
\* for good: nothing gives a host an earlier revision or brings back a browser session.
Withdrawn(t) ==
    \/ session[t].state = "closed" \/ host.deleted
    \/ host.revision # session[t].revision \/ ~LoggedIn(t)

\* Of the terminals on the host that an administrator's browsers can type into, at most
\* one is still authorised, across gateways, connections, logins, sessions taken for
\* abandoned and lost answers (consume_ticket, session_connected).  One whose
\* authorization is withdrawn goes on to its next heartbeat, maybe beside its successor.
OneTerminalPerAdmin ==
    \A c, d \in Conns :
        /\ Bridged(c) /\ Bridged(d) /\ c # d
        /\ tickets[conn[c].ticket].admin = tickets[conn[d].ticket].admin
        => Withdrawn(conn[c].ticket) \/ Withdrawn(conn[d].ticket)

Revoked(t) == session[t].state = "abandoned" \/ Withdrawn(t)

\* A terminal whose authorization is gone ends, whether the API says so at the next
\* heartbeat or cannot be reached (bridge_terminal).
RevokedTerminalEnds ==
    \A c \in Conns :
        (Running(c) /\ Revoked(conn[c].ticket)) ~> ~Running(c)

\* The identity of a deleted host is erased in the end, through failures, expired claims
\* and the death of a gateway (claim_identity_operation, fail_identity_operation).
DeletedIsErased ==
    host.deleted ~> (volume.key = None
                     /\ \E i \in DOMAIN ops : ops[i].kind = "delete" /\ ops[i].state = "completed")
=============================================================================
