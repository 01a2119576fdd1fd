-------------------------- MODULE SshConsoleProofs --------------------------
(***************************************************************************)
(* The SSH console, for any number of gateways, connections, operations,   *)
(* tickets and faults: a deleted key stays gone, the published key is the  *)
(* stored one, open sessions are pinned to the trusted host key, and an    *)
(* administrator has one authorised terminal.                              *)
(*                                                                         *)
(* The argument.  The claim says who may report a result, the file lock    *)
(* who may touch the volume, and neither covers the other: a worker may    *)
(* act under a claim that ran out.  What saves the keys is the order, lock *)
(* first and then the claim once more: a worker that acts keeps every      *)
(* newer claim of its operation waiting for the lock, so no result of a    *)
(* newer claim exists, and a result of an older claim is refused.          *)
(***************************************************************************)
EXTENDS SshConsole, SequenceTheorems, TLAPS

----------------------------------------------------------------------------
(* The claims and the volume *)

\* a worker that knows its claim, that holds the file lock, that acts on the volume
Claimant(g) == worker[g].pc \notin {"idle", "claim"}
Holder(g)   == worker[g].pc \in {"proceed", "working", "keygen", "unmarking", "releasing"}
Acting(g)   == worker[g].pc \in {"working", "keygen", "unmarking"}

\* it has a result or a failure to report
Finishing(g) == worker[g].pc \in {"complete", "failing", "fail"}

\* it has reported no result yet
Unreported(g) == worker[g].pc \in {"locking", "proceed", "working", "keygen", "unmarking"}

Generates(g) == Acting(g) /\ OperationOf(g).kind = "generate"

OpenOperation(i) == ops[i].state \in {"pending", "claimed"}

\* A result on its way to the API.
Results == {m \in wire : m.call \in {"complete", "fail"}}

\* The operations and the host they belong to.
OperationsOK ==
    /\ \A i \in DOMAIN ops : ops[i].kind = "delete" => host.deleted
    /\ \A i \in DOMAIN ops : OpenOperation(i) /\ ops[i].kind = "generate" => Generating
    /\ \A i, j \in DOMAIN ops : ops[i].kind = "delete" /\ ops[j].kind = "delete" => i = j

\* A call about an operation is about a claim that was made.
CallOK(m) ==
    m.call \in {"proceed", "complete", "fail"} =>
        /\ m.id \in DOMAIN ops /\ m.token <= ops[m.id].token
        /\ m.call = "complete" /\ ops[m.id].kind = "generate" => m.key \in Key

\* A worker with a claim, with the file lock, with a key it stored.
WorkerOK(g) ==
    /\ Claimant(g) => worker[g].op \in DOMAIN ops /\ worker[g].token <= OperationOf(g).token
    /\ Holder(g) => lock = g
    /\ worker[g].pc \in {"keygen", "unmarking"} => OperationOf(g).kind = "generate"
    /\ worker[g].pc = "unmarking" => worker[g].key = volume.key /\ worker[g].key \in Key

CallsOK   == \A m \in wire : CallOK(m)
WorkersOK == \A g \in Gateways : WorkerOK(g)

\* A claim belongs to one gateway.
ClaimsOK ==
    /\ \A g, h \in Gateways :
           Claimant(g) /\ Claimant(h) /\ worker[g].op = worker[h].op
               /\ worker[g].token = worker[h].token => g = h
    /\ \A g \in Gateways, m \in Results :
           Claimant(g) /\ worker[g].op = m.id /\ worker[g].token = m.token
               => ~Unreported(g)

\* While a worker generates a key, its operation is open and every result of it is of
\* an older claim.
Superseded(g) ==
    /\ \A m \in Results : m.id = worker[g].op => m.token < worker[g].token
    /\ \A h \in Gateways : Finishing(h) /\ worker[h].op = worker[g].op
           => worker[h].token < worker[g].token

GenerationsOK ==
    /\ \A g \in Gateways : Generates(g) /\ ~host.deleted =>
           OpenOperation(worker[g].op) /\ Superseded(g)
    /\ \A m \in Results :
           /\ m.call = "complete" /\ ops[m.id].kind = "generate"
           /\ OpenOperation(m.id) /\ m.token = ops[m.id].token
           => volume.key \in {m.key, None}

\* Nothing is stored, and nobody is about to store something.
Erased == volume.key = None /\ \A g \in Gateways : ~Generates(g)

ErasureOK ==
    \A i \in DOMAIN ops :
        /\ ops[i].kind = "delete"
        /\ \/ ops[i].state = "completed"
           \/ \E m \in wire : m.call = "complete" /\ m.id = i
        => Erased

----------------------------------------------------------------------------
(* Tickets, sessions and terminals *)

\* A connection whose ticket was consumed for it.
Admitted(c) == conn[c].pc \notin {"idle", "consume"}

\* A call about a ticket, which was consumed unless the call is to consume it.
TicketCallOK(m) ==
    m.call \in ConnCalls =>
        /\ m.id \in DOMAIN tickets
        /\ m.call = "candidate" => m.key \in HostKeys
        /\ m.call # "consume" => tickets[m.id].state = "consumed"

ConnOK(c) ==
    /\ conn[c].pc # "idle" => conn[c].ticket \in DOMAIN tickets /\ conn[c].gateway \in Gateways
    /\ Admitted(c) => tickets[conn[c].ticket].state = "consumed"

ConnsOK ==
    /\ \A m \in wire : TicketCallOK(m)
    /\ \A c \in Conns : ConnOK(c)

\* A ticket admits one connection, which reports the end of its terminal last.
AdmissionsOK ==
    /\ \A c, d \in Conns :
           Admitted(c) /\ Admitted(d) /\ conn[c].ticket = conn[d].ticket => c = d
    /\ \A m \in wire, c \in Conns :
           m.call = "closed" /\ Admitted(c) /\ conn[c].ticket = m.id => conn[c].pc = "closed"

\* An administrator has one open session.
OneOpenSession ==
    \A t, u \in DOMAIN session :
        Open(session[t]) /\ Open(session[u]) /\ tickets[t].admin = tickets[u].admin => t = u

\* A session is of a revision the host has had, and a terminal has its session open until
\* its authorization is withdrawn.
SessionsOK ==
    /\ \A t \in DOMAIN session : session[t].revision <= host.revision
    /\ \A c \in Conns : Bridged(c) =>
           \/ session[conn[c].ticket].state = "active" /\ ~session[conn[c].ticket].silent
           \/ Withdrawn(conn[c].ticket)

Margin == \A c \in Conns : conn[c].missed < MaxMissed

----------------------------------------------------------------------------
(* The inductive invariants *)

\* The tables, the workers, the connections and their calls are in order.
WellFormed == TypeOK /\ OperationsOK /\ CallsOK /\ WorkersOK /\ ConnsOK

\* The inductive invariant about keys.
KeyInv == WellFormed /\ ClaimsOK /\ GenerationsOK /\ ErasureOK /\ PublishedIsStored

\* The inductive invariant about terminals.
TerminalInv == WellFormed /\ AdmissionsOK /\ OneOpenSession /\ SessionsOK /\ Margin

----------------------------------------------------------------------------
(* Rows *)

\* Rewriting the rows of a table keeps it a table of as many rows.
LEMMA RowsRewritten ==
  ASSUME NEW S, NEW s \in Seq(S), NEW T, NEW f \in [DOMAIN s -> T]
  PROVE  f \in Seq(T) /\ Len(f) = Len(s) /\ DOMAIN f = DOMAIN s
<1>1. Len(s) \in Nat /\ DOMAIN s = 1..Len(s) BY LenProperties
<1>2. f \in [1..Len(s) -> T] BY <1>1
<1>3. f \in Seq(T) BY <1>1, <1>2, IsASeq
<1>4. Len(f) \in Nat /\ DOMAIN f = 1..Len(f) BY <1>3, LenProperties
<1>5. 1..Len(f) = 1..Len(s) BY <1>2, <1>4
<1>6. Len(f) = Len(s) BY <1>1, <1>4, <1>5
<1> QED BY <1>1, <1>3, <1>4, <1>6

\* So does changing one.
LEMMA RowChanged ==
  ASSUME NEW S, NEW s \in Seq(S), NEW i \in DOMAIN s, NEW x \in S
  PROVE  /\ [s EXCEPT ![i] = x] \in Seq(S) /\ Len([s EXCEPT ![i] = x]) = Len(s)
         /\ DOMAIN [s EXCEPT ![i] = x] = DOMAIN s
<1>1. DOMAIN s = 1..Len(s) /\ i \in 1..Len(s) BY LenProperties
<1>2. [s EXCEPT ![i] = x] \in [DOMAIN s -> S]
  <2>1. \A j \in DOMAIN s : s[j] \in S BY ElementOfSeq, LenProperties
  <2> QED BY <2>1
<1> QED BY <1>2, RowsRewritten

\* The rows of a well-formed table, and the table with one more.
LEMMA RowAppended ==
  ASSUME NEW S, NEW s \in Seq(S), NEW x \in S
  PROVE  /\ Append(s, x) \in Seq(S) /\ Len(Append(s, x)) = Len(s) + 1
         /\ DOMAIN Append(s, x) = DOMAIN s \cup {Len(s) + 1}
         /\ Len(s) + 1 \notin DOMAIN s
         /\ Append(s, x)[Len(s) + 1] = x
         /\ \A i \in DOMAIN s : Append(s, x)[i] = s[i] /\ s[i] \in S
<1>1. DOMAIN s = 1..Len(s) /\ Len(s) \in Nat BY LenProperties
<1>2. \A j \in DOMAIN s : s[j] \in S BY ElementOfSeq, <1>1
<1>3. DOMAIN Append(s, x) = 1..(Len(s) + 1) BY <1>1, AppendProperties
<1>4. 1..(Len(s) + 1) = (1..Len(s)) \cup {Len(s) + 1} BY <1>1
<1> QED BY <1>1, <1>2, <1>3, <1>4, AppendProperties

\* What a row of each table is.
LEMMA RowTypes ==
  ASSUME RowsOK
  PROVE  /\ \A i \in DOMAIN ops : ops[i] \in Operation
         /\ \A t \in DOMAIN tickets : tickets[t] \in Ticket
         /\ \A t \in DOMAIN session : session[t] \in Session
         /\ DOMAIN session = DOMAIN tickets
<1>1. ops \in Seq(Operation) /\ tickets \in Seq(Ticket) /\ session \in Seq(Session)
      /\ Len(session) = Len(tickets)
  BY DEF RowsOK
<1> QED BY <1>1, ElementOfSeq, LenProperties

\* What ends a host's tickets and sessions ends nothing else (delete_host,
\* trust_host_key, report_identity_invalid).
LEMMA Revoking ==
  ASSUME RowsOK
  PROVE  /\ RevokeTickets \in Seq(Ticket) /\ Len(RevokeTickets) = Len(tickets)
         /\ DOMAIN RevokeTickets = DOMAIN tickets
         /\ CloseSessions \in Seq(Session) /\ Len(CloseSessions) = Len(session)
         /\ DOMAIN CloseSessions = DOMAIN session
         /\ \A t \in DOMAIN tickets :
               /\ RevokeTickets[t].purpose = tickets[t].purpose /\ RevokeTickets[t].admin = tickets[t].admin
               /\ RevokeTickets[t].login = tickets[t].login
               /\ tickets[t].state = "consumed" => RevokeTickets[t] = tickets[t]
         /\ \A t \in DOMAIN session :
               /\ ~Open(CloseSessions[t])
               /\ CloseSessions[t].state # "none" => session[t].state # "none"
<1>1. RevokeTickets \in [DOMAIN tickets -> Ticket] BY RowTypes DEF RevokeTickets, Ticket
<1>2. CloseSessions \in [DOMAIN session -> Session]
  BY RowTypes, SshAssumption DEF CloseSessions, Session, Ended, NoSession
<1>3. tickets \in Seq(Ticket) /\ session \in Seq(Session) BY DEF RowsOK
<1>4. \A t \in DOMAIN tickets :
        /\ RevokeTickets[t].purpose = tickets[t].purpose /\ RevokeTickets[t].admin = tickets[t].admin
        /\ RevokeTickets[t].login = tickets[t].login
        /\ tickets[t].state = "consumed" => RevokeTickets[t] = tickets[t]
  BY RowTypes DEF RevokeTickets, Ticket
<1>5. \A t \in DOMAIN session :
        /\ ~Open(CloseSessions[t])
        /\ CloseSessions[t].state # "none" => session[t].state # "none"
  BY RowTypes DEF CloseSessions, Session, Ended, NoSession, Open
<1> QED BY <1>1, <1>2, <1>3, <1>4, <1>5, RowsRewritten

LEMMA HostTypes ==
  ASSUME RowsOK
  PROVE  /\ host \in Host /\ host.enabled \in BOOLEAN /\ host.deleted \in BOOLEAN
         /\ host.revision \in Nat /\ host.revision + 1 \in Nat
         /\ host.key # None <=> host.identity = "ready"
         /\ host.enabled => ~host.deleted /\ host.identity = "ready" /\ host.trusted # None
<1>1. host \in Host BY DEF RowsOK
<1>2. host.enabled \in BOOLEAN /\ host.deleted \in BOOLEAN /\ host.revision \in Nat /\ host.revision + 1 \in Nat
  BY <1>1 DEF Host
<1> QED BY <1>1, <1>2 DEF RowsOK

\* What a sweep over the operations does to them (enqueue of a deletion,
\* claim_identity_operation): no operation opens, and no generation for a deleted host
\* stays open.
SweptTo(rows) ==
    /\ rows \in Seq(Operation) /\ Len(rows) = Len(ops) /\ DOMAIN rows = DOMAIN ops
    /\ \A i \in DOMAIN ops :
          /\ rows[i] \in Operation
          /\ rows[i].kind = ops[i].kind /\ rows[i].token = ops[i].token
          /\ rows[i].state \in {"pending", "claimed"} => OpenOperation(i)
          /\ rows[i].state = "completed" => ops[i].state = "completed"

LEMMA Cancelling ==
  ASSUME RowsOK
  PROVE  /\ SweptTo(Cancelled)
         /\ \A i \in DOMAIN ops :
               ops[i].kind = "generate" => Cancelled[i].state \notin {"pending", "claimed"}
<1>1. ops \in Seq(Operation) BY DEF RowsOK
<1>2. Cancelled \in [DOMAIN ops -> Operation] BY RowTypes DEF Cancelled, Operation
<1>3. Cancelled \in Seq(Operation) /\ Len(Cancelled) = Len(ops) /\ DOMAIN Cancelled = DOMAIN ops
  BY <1>1, <1>2, RowsRewritten
<1>4. \A i \in DOMAIN ops :
        /\ Cancelled[i] \in Operation
        /\ Cancelled[i].kind = ops[i].kind /\ Cancelled[i].token = ops[i].token
        /\ Cancelled[i].state \in {"pending", "claimed"} => OpenOperation(i)
        /\ Cancelled[i].state = "completed" => ops[i].state = "completed"
        /\ ops[i].kind = "generate" => Cancelled[i].state \notin {"pending", "claimed"}
  BY RowTypes DEF Cancelled, Operation, OpenOperation
<1> QED BY <1>3, <1>4 DEF SweptTo

LEMMA Reclaiming ==
  ASSUME RowsOK
  PROVE  /\ SweptTo(Reclaimed)
         /\ \A i \in DOMAIN ops :
               /\ host.deleted /\ ops[i].kind = "generate"
                     => Reclaimed[i].state \notin {"pending", "claimed"}
               /\ ~host.deleted /\ OpenOperation(i) => Reclaimed[i].state \in {"pending", "claimed"}
<1> DEFINE Again(r) == [r EXCEPT !.state = "pending", !.gateway = None, !.lapsed = FALSE]
<1>1. ops \in Seq(Operation) /\ DOMAIN Reclaimed = DOMAIN ops BY DEF RowsOK, Reclaimed
<1>2. \A r \in Operation : /\ Again(r) \in Operation /\ Again(r).state = "pending"
                           /\ Again(r).kind = r.kind /\ Again(r).token = r.token
  BY DEF Operation
<1>3. \A i \in DOMAIN ops :
        /\ CancelledOnly[i] \in Operation
        /\ CancelledOnly[i].kind = ops[i].kind /\ CancelledOnly[i].token = ops[i].token
        /\ CancelledOnly[i].state \in {"pending", "claimed"} => OpenOperation(i)
        /\ CancelledOnly[i].state = "completed" => ops[i].state = "completed"
        /\ host.deleted /\ ops[i].kind = "generate"
              => CancelledOnly[i].state \notin {"pending", "claimed"}
        /\ ~host.deleted => CancelledOnly[i] = ops[i]
  BY Cancelling, RowTypes DEF CancelledOnly, SweptTo, OpenOperation
<1>4. \A i \in DOMAIN ops :
        \/ Reclaimed[i] = CancelledOnly[i]
        \/ CancelledOnly[i].state = "claimed" /\ Reclaimed[i] = Again(CancelledOnly[i])
  BY DEF Reclaimed
<1> HIDE DEF Again
<1>5. \A i \in DOMAIN ops :
        /\ Reclaimed[i] \in Operation
        /\ Reclaimed[i].kind = ops[i].kind /\ Reclaimed[i].token = ops[i].token
        /\ Reclaimed[i].state \in {"pending", "claimed"} => OpenOperation(i)
        /\ Reclaimed[i].state = "completed" => ops[i].state = "completed"
        /\ host.deleted /\ ops[i].kind = "generate"
              => Reclaimed[i].state \notin {"pending", "claimed"}
        /\ ~host.deleted /\ OpenOperation(i) => Reclaimed[i].state \in {"pending", "claimed"}
  BY <1>2, <1>3, <1>4 DEF OpenOperation
<1>6. Reclaimed = [i \in DOMAIN ops |-> Reclaimed[i]] BY DEF Reclaimed
<1>7. Reclaimed \in [DOMAIN ops -> Operation] BY <1>5, <1>6
<1>8. Reclaimed \in Seq(Operation) /\ Len(Reclaimed) = Len(ops) BY <1>1, <1>7, RowsRewritten
<1> QED BY <1>1, <1>5, <1>8 DEF SweptTo

\* Operations are never removed, keep their kind and never reuse the number of a claim.
Grows ==
    /\ DOMAIN ops \subseteq DOMAIN ops'
    /\ \A i \in DOMAIN ops : ops'[i].kind = ops[i].kind /\ ops[i].token <= ops'[i].token

\* What the steps of the API share: the tables stay well formed.
Kept == RowsOK' /\ OperationsOK' /\ Grows

LEMMA Unchanging ==
  ASSUME RowsOK, OperationsOK, UNCHANGED api
  PROVE  Kept
<1>1. \A i \in DOMAIN ops : ops[i].token \in Nat BY RowTypes DEF Operation
<1>2. Grows BY <1>1 DEF api, Grows
<1>3. RowsOK' BY DEF RowsOK, api
<1>4. OperationsOK' BY DEF OperationsOK, OpenOperation, Generating, api
<1> QED BY <1>2, <1>3, <1>4 DEF Kept

\* Steps that leave the operations alone, and with them what the host says of them.
LEMMA OperationsAlone ==
  ASSUME RowsOK, OperationsOK, UNCHANGED ops,
         host'.deleted = host.deleted, host.identity = "pending" => host'.identity = "pending"
  PROVE  OperationsOK' /\ Grows
<1>1. \A i \in DOMAIN ops : ops[i].token \in Nat BY RowTypes DEF Operation
<1>2. Grows BY <1>1 DEF Grows
<1>3. OperationsOK' BY DEF OperationsOK, OpenOperation, Generating
<1> QED BY <1>2, <1>3

LEMMA DeleteHostKeeps == ASSUME RowsOK, OperationsOK, DeleteHost PROVE Kept
<1> USE DEF DeleteHost
<1> DEFINE d == NewOperation("delete")
<1>1. d \in Operation /\ d.kind = "delete" /\ d.token = 0 BY DEF NewOperation, Operation
<1>2. /\ Cancelled \in Seq(Operation) /\ DOMAIN Cancelled = DOMAIN ops
      /\ \A i \in DOMAIN ops :
            /\ Cancelled[i].kind = ops[i].kind /\ Cancelled[i].token = ops[i].token
            /\ Cancelled[i].state \in {"pending", "claimed"} => OpenOperation(i)
            /\ ops[i].kind = "generate" => Cancelled[i].state \notin {"pending", "claimed"}
  BY Cancelling DEF SweptTo
<1>3. /\ ops' \in Seq(Operation)
      /\ DOMAIN ops' = DOMAIN ops \cup {Len(Cancelled) + 1} /\ Len(Cancelled) + 1 \notin DOMAIN ops
      /\ ops'[Len(Cancelled) + 1] = d
      /\ \A i \in DOMAIN ops : ops'[i] = Cancelled[i]
  BY <1>1, <1>2, RowAppended
<1>4. \A i \in DOMAIN ops : ops[i].kind = "generate" /\ ops[i].token \in Nat
  BY RowTypes DEF OperationsOK, Operation
<1> HIDE DEF d
<1>5. host' \in Host /\ host'.deleted /\ ~host'.enabled /\ host'.identity = host.identity
      /\ host'.key = host.key
  BY HostTypes DEF Host
<1>6. /\ tickets' \in Seq(Ticket) /\ session' \in Seq(Session) /\ Len(session') = Len(tickets')
      /\ \A t \in DOMAIN session' : session'[t].state # "none" =>
             tickets'[t].state = "consumed" /\ tickets'[t].purpose = "terminal"
  BY Revoking, RowTypes DEF RowsOK
<1>7. \A i, j \in DOMAIN ops' : i # j /\ ops'[i].kind = ops'[j].kind =>
           ~({ops'[i].state, ops'[j].state} \subseteq {"pending", "claimed"})
  BY <1>1, <1>2, <1>3, <1>4
<1>8. RowsOK' BY <1>3, <1>5, <1>6, <1>7 DEF RowsOK
<1>9. OperationsOK' BY <1>1, <1>2, <1>3, <1>4, <1>5 DEF OperationsOK, OpenOperation
<1>10. Grows BY <1>2, <1>3, <1>4 DEF Grows
<1> QED BY <1>8, <1>9, <1>10 DEF Kept

LEMMA RetryIdentityKeeps == ASSUME RowsOK, OperationsOK, RetryIdentity PROVE Kept
<1> USE DEF RetryIdentity
<1> DEFINE d == NewOperation("generate")
<1>1. d \in Operation /\ d.kind = "generate" /\ d.token = 0 BY DEF NewOperation, Operation
<1>2. ops \in Seq(Operation) /\ \A i \in DOMAIN ops : ops[i].token \in Nat
  BY RowTypes DEF RowsOK, Operation
<1>3. /\ ops' \in Seq(Operation)
      /\ DOMAIN ops' = DOMAIN ops \cup {Len(ops) + 1} /\ Len(ops) + 1 \notin DOMAIN ops
      /\ ops'[Len(ops) + 1] = d
      /\ \A i \in DOMAIN ops : ops'[i] = ops[i]
  BY <1>1, <1>2, RowAppended
<1>4. \A i \in DOMAIN ops : ops[i].kind = "generate" => ~OpenOperation(i)
  BY DEF OperationsOK, Generating
<1> HIDE DEF d
<1>5. host' \in Host /\ ~host'.deleted /\ host'.identity = "pending" /\ ~host'.enabled
      /\ host'.key = None
  BY HostTypes DEF Host
<1>6. \A i, j \in DOMAIN ops' : i # j /\ ops'[i].kind = ops'[j].kind =>
           ~({ops'[i].state, ops'[j].state} \subseteq {"pending", "claimed"})
  BY <1>1, <1>3, <1>4 DEF RowsOK, OpenOperation
<1>7. RowsOK' BY <1>3, <1>5, <1>6 DEF RowsOK
<1>8. OperationsOK' BY <1>1, <1>3, <1>5 DEF OperationsOK, OpenOperation, Generating
<1>9. Grows BY <1>2, <1>3 DEF Grows
<1> QED BY <1>7, <1>8, <1>9 DEF Kept

LEMMA TrustHostKeyKeeps ==
  ASSUME RowsOK, OperationsOK, NEW f \in HostKeys, TrustHostKey(f) PROVE Kept
<1> USE DEF TrustHostKey
<1>1. host' \in Host /\ ~host'.deleted /\ host'.enabled /\ host'.identity = "ready"
      /\ host'.key = host.key /\ host'.trusted = f
  BY HostTypes DEF Host
<1>2. /\ tickets' \in Seq(Ticket) /\ session' \in Seq(Session) /\ Len(session') = Len(tickets')
      /\ \A t \in DOMAIN session' : session'[t].state # "none" =>
             tickets'[t].state = "consumed" /\ tickets'[t].purpose = "terminal"
  BY Revoking, RowTypes DEF RowsOK
<1>3. RowsOK' BY <1>1, <1>2, SshAssumption DEF RowsOK
<1> QED BY <1>1, <1>3, OperationsAlone DEF Kept

LEMMA IssueTicketKeeps ==
  ASSUME RowsOK, OperationsOK, NEW a \in Admins, NEW l \in Logins,
         NEW purpose \in {"probe", "terminal"}, IssueTicket(a, l, purpose)
  PROVE  Kept
<1> USE DEF IssueTicket
<1>1. [purpose |-> purpose, admin |-> a, login |-> l, state |-> "open", gateway |-> None] \in Ticket
  BY DEF Ticket
<1>2. NoSession \in Session /\ NoSession.state = "none" BY DEF NoSession, Session
<1>3. tickets \in Seq(Ticket) /\ session \in Seq(Session) /\ Len(session) = Len(tickets)
      /\ Len(tickets) \in Nat
  BY LenProperties DEF RowsOK
<1>4. /\ tickets' \in Seq(Ticket) /\ Len(tickets') = Len(tickets) + 1
      /\ \A t \in DOMAIN tickets : tickets'[t] = tickets[t]
  BY <1>1, <1>3, RowAppended
<1>5. /\ session' \in Seq(Session) /\ Len(session') = Len(session) + 1
      /\ DOMAIN session' = DOMAIN session \cup {Len(session) + 1}
      /\ session'[Len(session) + 1] = NoSession
      /\ \A t \in DOMAIN session : session'[t] = session[t]
  BY <1>2, <1>3, RowAppended
<1>6. \A t \in DOMAIN session' : session'[t].state # "none" =>
          tickets'[t].state = "consumed" /\ tickets'[t].purpose = "terminal"
  BY <1>2, <1>4, <1>5, RowTypes DEF RowsOK
<1>7. RowsOK' BY <1>3, <1>4, <1>5, <1>6 DEF RowsOK
<1> QED BY <1>7, OperationsAlone DEF Kept

\* One operation is changed, and an operation that is not open stays so.
LEMMA OperationChanged ==
  ASSUME RowsOK, NEW i \in DOMAIN ops, NEW x \in Operation, ops' = [ops EXCEPT ![i] = x],
         x.kind = ops[i].kind, ops[i].token <= x.token,
         x.state \in {"pending", "claimed"} => OpenOperation(i)
  PROVE  /\ ops' \in Seq(Operation) /\ Grows /\ DOMAIN ops' = DOMAIN ops
         /\ ops'[i] = x /\ \A j \in DOMAIN ops : j # i => ops'[j] = ops[j]
         /\ \A j \in DOMAIN ops : OpenOperation(j)' => OpenOperation(j)
         /\ \A j, k \in DOMAIN ops' : j # k /\ ops'[j].kind = ops'[k].kind =>
               ~({ops'[j].state, ops'[k].state} \subseteq {"pending", "claimed"})
<1>1. ops \in Seq(Operation) /\ \A j \in DOMAIN ops : ops[j].token \in Nat
  BY RowTypes DEF RowsOK, Operation
<1>2. ops' \in Seq(Operation) /\ DOMAIN ops' = DOMAIN ops BY <1>1, RowChanged
<1>3. ops'[i] = x /\ \A j \in DOMAIN ops : j # i => ops'[j] = ops[j] BY <1>1
<1>4. Grows BY <1>1, <1>2, <1>3 DEF Grows
<1>5. \A j \in DOMAIN ops : /\ OpenOperation(j)' => OpenOperation(j)
                            /\ ops'[j].kind = ops[j].kind
  BY <1>2, <1>3 DEF OpenOperation
<1>6. \A j, k \in DOMAIN ops' : j # k /\ ops'[j].kind = ops'[k].kind =>
          ~({ops'[j].state, ops'[k].state} \subseteq {"pending", "claimed"})
  BY <1>2, <1>5 DEF OpenOperation, RowsOK
<1> QED BY <1>2, <1>3, <1>4, <1>5, <1>6

\* The tables after a step that changes one operation and nothing else of the host's.
LEMMA OperationAlone ==
  ASSUME RowsOK, OperationsOK, NEW i \in DOMAIN ops, NEW x \in Operation,
         ops' = [ops EXCEPT ![i] = x], x.kind = ops[i].kind, ops[i].token <= x.token,
         x.state \in {"pending", "claimed"} => OpenOperation(i),
         UNCHANGED <<host, candidates, tickets, session>>
  PROVE  Kept
<1>1. /\ ops' \in Seq(Operation) /\ Grows /\ DOMAIN ops' = DOMAIN ops
      /\ \A j \in DOMAIN ops : ops'[j].kind = ops[j].kind
      /\ \A j \in DOMAIN ops : OpenOperation(j)' => OpenOperation(j)
      /\ \A j, k \in DOMAIN ops' : j # k /\ ops'[j].kind = ops'[k].kind =>
               ~({ops'[j].state, ops'[k].state} \subseteq {"pending", "claimed"})
  BY OperationChanged
<1>2. RowsOK' BY <1>1 DEF RowsOK
<1>3. OperationsOK' BY <1>1 DEF OperationsOK, Generating
<1> QED BY <1>1, <1>2, <1>3 DEF Kept

LEMMA LeaseLapsesKeeps ==
  ASSUME RowsOK, OperationsOK, NEW i \in DOMAIN ops, LeaseLapses(i) PROVE Kept
<1> DEFINE x == [ops[i] EXCEPT !.lapsed = TRUE]
<1>1. ops[i] \in Operation BY RowTypes
<1>2. x \in Operation /\ x.kind = ops[i].kind /\ x.token = ops[i].token /\ ops[i].token \in Nat
  BY <1>1 DEF Operation
<1>3. ops' = [ops EXCEPT ![i] = x] /\ OpenOperation(i)
      /\ UNCHANGED <<host, candidates, tickets, session>>
  BY DEF LeaseLapses, OpenOperation
<1> HIDE DEF x
<1>4. ops[i].token <= x.token BY <1>2
<1> QED BY <1>2, <1>3, <1>4, OperationAlone

\* A claim takes what NextClaim offers, after the sweep.
LEMMA ClaimKeeps ==
  ASSUME RowsOK, OperationsOK, NEW m \in wire, m \in Message, m.call = "claim",
         ClaimIdentityOperation(m)
  PROVE  /\ Kept
         /\ \A i \in DOMAIN ops : OpenOperation(i)' => OpenOperation(i)
         /\ \A i \in DOMAIN ops : ops'[i].state = "completed" => ops[i].state = "completed"
         /\ \A i \in DOMAIN ops : ~host.deleted /\ OpenOperation(i) => OpenOperation(i)'
         /\ \/ AnswerWorker(m, RestingWorker)
            \/ \E i \in DOMAIN ops :
                 /\ ops'[i].token = ops[i].token + 1
                 /\ AnswerWorker(m, [pc |-> "locking", op |-> i, token |-> ops[i].token + 1,
                                     key |-> None])
<1>1. /\ Reclaimed \in Seq(Operation) /\ DOMAIN Reclaimed = DOMAIN ops
      /\ \A i \in DOMAIN ops :
            /\ Reclaimed[i] \in Operation
            /\ Reclaimed[i].kind = ops[i].kind /\ Reclaimed[i].token = ops[i].token
            /\ Reclaimed[i].state \in {"pending", "claimed"} => OpenOperation(i)
            /\ Reclaimed[i].state = "completed" => ops[i].state = "completed"
            /\ ~host.deleted /\ OpenOperation(i) => Reclaimed[i].state \in {"pending", "claimed"}
  BY Reclaiming DEF SweptTo
<1>2. \A i \in DOMAIN ops : ops[i].token \in Nat BY RowTypes DEF Operation
<1>3. SUFFICES ASSUME ops' \in Seq(Operation), DOMAIN ops' = DOMAIN ops,
                      \A i \in DOMAIN ops :
                         /\ ops'[i].kind = ops[i].kind /\ ops[i].token <= ops'[i].token
                         /\ OpenOperation(i)' => OpenOperation(i)
               PROVE  Kept
  <2>1. CASE /\ ops' = Reclaimed /\ AnswerWorker(m, RestingWorker)
    <3>1. \A i \in DOMAIN ops : /\ ops'[i].kind = ops[i].kind /\ ops'[i].token = ops[i].token
                                /\ OpenOperation(i)' => OpenOperation(i)
      BY <1>1, <2>1 DEF OpenOperation
    <3>2. Kept BY <1>1, <1>2, <1>3, <2>1, <3>1
    <3> QED BY <1>1, <2>1, <3>1, <3>2 DEF OpenOperation
  <2>2. ASSUME NEW i \in DOMAIN ops, NextClaim(Reclaimed, i),
               ops' = [Reclaimed EXCEPT ![i].state = "claimed", ![i].gateway = m.gateway,
                                        ![i].token = @ + 1],
               AnswerWorker(m, [pc |-> "locking", op |-> i, token |-> ops[i].token + 1,
                                key |-> None])
        PROVE  /\ Kept
               /\ \A j \in DOMAIN ops : OpenOperation(j)' => OpenOperation(j)
               /\ \A j \in DOMAIN ops : ops'[j].state = "completed" => ops[j].state = "completed"
               /\ \A j \in DOMAIN ops : ~host.deleted /\ OpenOperation(j) => OpenOperation(j)'
               /\ ops'[i].token = ops[i].token + 1
    <3> DEFINE x == [Reclaimed[i] EXCEPT !.state = "claimed", !.gateway = m.gateway,
                                         !.token = Reclaimed[i].token + 1]
    <3>1. m.gateway \in Gateways BY DEF Message, WorkerCalls, ConnCalls
    <3>2. Reclaimed[i] \in Operation /\ Reclaimed[i].token + 1 \in Nat BY <1>1, <1>2
    <3>3. x \in Operation /\ x.kind = ops[i].kind /\ x.token = ops[i].token + 1 /\ x.state = "claimed"
      BY <1>1, <3>1, <3>2 DEF Operation
    <3>4. OpenOperation(i) BY <1>1, <2>2 DEF NextClaim, Claimable
    <3>5. ops' = [Reclaimed EXCEPT ![i] = x] BY <2>2
    <3> HIDE DEF x
    <3>6. ops' \in Seq(Operation) /\ DOMAIN ops' = DOMAIN ops BY <1>1, <3>3, <3>5, RowChanged
    <3>7. ops'[i] = x /\ \A j \in DOMAIN ops : j # i => ops'[j] = Reclaimed[j] BY <1>1, <3>5
    <3>8. \A j \in DOMAIN ops :
             /\ ops'[j].kind = ops[j].kind /\ ops[j].token <= ops'[j].token
             /\ OpenOperation(j)' => OpenOperation(j)
             /\ ops'[j].state = "completed" => ops[j].state = "completed"
             /\ ~host.deleted /\ OpenOperation(j) => OpenOperation(j)'
      BY <1>1, <1>2, <3>3, <3>4, <3>7 DEF OpenOperation
    <3>9. Kept BY <1>3, <3>6, <3>8
    <3> QED BY <3>3, <3>7, <3>8, <3>9
  <2> QED BY <2>1, <2>2 DEF ClaimIdentityOperation
<1>4. Grows BY <1>3 DEF Grows
<1>5. UNCHANGED <<host, candidates, tickets, session>> BY DEF ClaimIdentityOperation
<1>6. \A i, j \in DOMAIN ops' : i # j /\ ops'[i].kind = ops'[j].kind =>
           ~({ops'[i].state, ops'[j].state} \subseteq {"pending", "claimed"})
  BY <1>3 DEF RowsOK, OpenOperation
<1>7. RowsOK' BY <1>3, <1>5, <1>6 DEF RowsOK
<1>8. OperationsOK' BY <1>3, <1>5 DEF OperationsOK, Generating
<1> QED BY <1>4, <1>7, <1>8 DEF Kept

\* The end of an operation.
LEMMA EndedOperation ==
  ASSUME RowsOK, NEW i \in DOMAIN ops, NEW state \in {"pending", "completed", "failed"},
         OpenOperation(i), ops' = EndOperation(i, state)
  PROVE  /\ ops' \in Seq(Operation) /\ Grows /\ DOMAIN ops' = DOMAIN ops
         /\ ops'[i].state = state /\ \A j \in DOMAIN ops : j # i => ops'[j] = ops[j]
         /\ \A j \in DOMAIN ops : /\ ops'[j].kind = ops[j].kind /\ ops'[j].token = ops[j].token
                                  /\ OpenOperation(j)' => OpenOperation(j)
         /\ \A j, k \in DOMAIN ops' : j # k /\ ops'[j].kind = ops'[k].kind =>
               ~({ops'[j].state, ops'[k].state} \subseteq {"pending", "claimed"})
<1> DEFINE x == [ops[i] EXCEPT !.state = state, !.gateway = None]
<1>1. ops[i] \in Operation /\ ops[i].token \in Nat BY RowTypes DEF Operation
<1>2. x \in Operation /\ x.kind = ops[i].kind /\ x.token = ops[i].token /\ x.state = state
  BY <1>1 DEF Operation
<1>3. ops' = [ops EXCEPT ![i] = x] BY DEF EndOperation
<1> HIDE DEF x
<1>4. ops[i].token <= x.token BY <1>1, <1>2
<1>5. /\ ops' \in Seq(Operation) /\ Grows /\ DOMAIN ops' = DOMAIN ops
      /\ ops'[i] = x /\ \A j \in DOMAIN ops : j # i => ops'[j] = ops[j]
      /\ \A j \in DOMAIN ops : OpenOperation(j)' => OpenOperation(j)
      /\ \A j, k \in DOMAIN ops' : j # k /\ ops'[j].kind = ops'[k].kind =>
               ~({ops'[j].state, ops'[k].state} \subseteq {"pending", "claimed"})
  BY <1>2, <1>3, <1>4, OperationChanged
<1> QED BY <1>2, <1>5

LEMMA HeldIsOpen ==
  ASSUME NEW m, HoldsClaim(m) PROVE OpenOperation(m.id)
  BY DEF HoldsClaim, OpenOperation

LEMMA CompleteKeeps ==
  ASSUME RowsOK, OperationsOK, NEW m \in wire, m \in Message, m.call = "complete", m.id \in DOMAIN ops,
         ops[m.id].kind = "generate" => m.key \in Key, CompleteIdentityOperation(m)
  PROVE  Kept
<1>1. CASE /\ HoldsClaim(m) /\ ops[m.id].kind = "delete"
           /\ ops' = EndOperation(m.id, "completed")
           /\ UNCHANGED <<host, candidates, tickets, session>>
  <2>1. /\ ops' \in Seq(Operation) /\ Grows /\ DOMAIN ops' = DOMAIN ops
        /\ \A j \in DOMAIN ops : ops'[j].kind = ops[j].kind /\ (OpenOperation(j)' => OpenOperation(j))
        /\ \A j, k \in DOMAIN ops' : j # k /\ ops'[j].kind = ops'[k].kind =>
               ~({ops'[j].state, ops'[k].state} \subseteq {"pending", "claimed"})
    BY <1>1, HeldIsOpen, EndedOperation
  <2>2. RowsOK' BY <1>1, <2>1 DEF RowsOK
  <2>3. OperationsOK' BY <1>1, <2>1 DEF OperationsOK, Generating
  <2> QED BY <2>1, <2>2, <2>3 DEF Kept
<1>2. CASE /\ HoldsClaim(m) /\ ops[m.id].kind = "generate" /\ Generating
           /\ ops' = EndOperation(m.id, "completed")
           /\ host' = [host EXCEPT !.identity = "ready", !.key = m.key, !.revision = @ + 1]
           /\ UNCHANGED <<candidates, tickets, session>>
  <2>1. /\ ops' \in Seq(Operation) /\ Grows /\ DOMAIN ops' = DOMAIN ops
        /\ ops'[m.id].state = "completed"
        /\ \A j \in DOMAIN ops : ops'[j].kind = ops[j].kind /\ (OpenOperation(j)' => OpenOperation(j))
        /\ \A j, k \in DOMAIN ops' : j # k /\ ops'[j].kind = ops'[k].kind =>
               ~({ops'[j].state, ops'[k].state} \subseteq {"pending", "claimed"})
    BY <1>2, HeldIsOpen, EndedOperation
  <2>2. m.key \in Key /\ m.key # None BY <1>2, SshAssumption DEF Key
  <2>3. host' \in Host /\ host'.identity = "ready" /\ host'.key = m.key
        /\ host'.enabled = host.enabled /\ host'.deleted = host.deleted /\ ~host.enabled
    BY <1>2, <2>2, HostTypes DEF Host, Generating
  <2>4. RowsOK' BY <1>2, <2>1, <2>2, <2>3 DEF RowsOK
  <2>5. \A j \in DOMAIN ops : ops[j].kind = "generate" => ~OpenOperation(j)'
    <3>1. OpenOperation(m.id) BY <1>2, HeldIsOpen
    <3>2. \A j \in DOMAIN ops : j # m.id /\ ops[j].kind = "generate" => ~OpenOperation(j)
      BY <1>2, <3>1 DEF RowsOK, OpenOperation
    <3> QED BY <2>1, <3>2 DEF OpenOperation
  <2>6. OperationsOK' BY <2>1, <2>3, <2>5 DEF OperationsOK
  <2> QED BY <2>1, <2>4, <2>6 DEF Kept
<1>3. CASE UNCHANGED api BY <1>3, Unchanging
<1> QED BY <1>1, <1>2, <1>3 DEF CompleteIdentityOperation

LEMMA FailKeeps ==
  ASSUME RowsOK, OperationsOK, NEW m \in wire, m \in Message, m.call = "fail", m.id \in DOMAIN ops,
         FailIdentityOperation(m)
  PROVE  Kept
<1>1. CASE /\ HoldsClaim(m) /\ ops[m.id].kind = "delete"
           /\ ops' = EndOperation(m.id, "pending")
           /\ UNCHANGED <<host, candidates, tickets, session>>
  <2>1. /\ ops' \in Seq(Operation) /\ Grows /\ DOMAIN ops' = DOMAIN ops
        /\ \A j \in DOMAIN ops : ops'[j].kind = ops[j].kind /\ (OpenOperation(j)' => OpenOperation(j))
        /\ \A j, k \in DOMAIN ops' : j # k /\ ops'[j].kind = ops'[k].kind =>
               ~({ops'[j].state, ops'[k].state} \subseteq {"pending", "claimed"})
    BY <1>1, HeldIsOpen, EndedOperation
  <2>2. RowsOK' BY <1>1, <2>1 DEF RowsOK
  <2>3. OperationsOK' BY <1>1, <2>1 DEF OperationsOK, Generating
  <2> QED BY <2>1, <2>2, <2>3 DEF Kept
<1>2. CASE /\ HoldsClaim(m) /\ ops[m.id].kind = "generate"
           /\ ops' = EndOperation(m.id, "failed")
           /\ host' = [host EXCEPT !.identity = "failed", !.revision = @ + 1]
           /\ UNCHANGED <<candidates, tickets, session>>
  <2>1. /\ ops' \in Seq(Operation) /\ Grows /\ DOMAIN ops' = DOMAIN ops
        /\ ops'[m.id].state = "failed"
        /\ \A j \in DOMAIN ops : ops'[j].kind = ops[j].kind /\ (OpenOperation(j)' => OpenOperation(j))
        /\ \A j, k \in DOMAIN ops' : j # k /\ ops'[j].kind = ops'[k].kind =>
               ~({ops'[j].state, ops'[k].state} \subseteq {"pending", "claimed"})
    BY <1>2, HeldIsOpen, EndedOperation
  <2>2. OpenOperation(m.id) /\ Generating BY <1>2, HeldIsOpen DEF OperationsOK
  <2>3. host' \in Host /\ host'.identity = "failed" /\ host'.key = None
        /\ host'.enabled = host.enabled /\ host'.deleted = host.deleted /\ ~host.enabled
    BY <1>2, <2>2, HostTypes DEF Host, Generating
  <2>4. RowsOK' BY <1>2, <2>1, <2>3 DEF RowsOK
  <2>5. \A j \in DOMAIN ops : ops[j].kind = "generate" => ~OpenOperation(j)'
    <3>1. \A j \in DOMAIN ops : j # m.id /\ ops[j].kind = "generate" => ~OpenOperation(j)
      BY <1>2, <2>2 DEF RowsOK, OpenOperation
    <3> QED BY <2>1, <3>1 DEF OpenOperation
  <2>6. OperationsOK' BY <2>1, <2>3, <2>5 DEF OperationsOK
  <2> QED BY <2>1, <2>4, <2>6 DEF Kept
<1>3. CASE UNCHANGED api BY <1>3, Unchanging
<1>4. HoldsClaim(m) /\ ops[m.id].kind = "generate" => Generating
  BY HeldIsOpen DEF OperationsOK
<1> QED BY <1>1, <1>2, <1>3, <1>4 DEF FailIdentityOperation, api

----------------------------------------------------------------------------
(* Tickets and sessions *)

\* The tables after a step on one session of a consumed terminal ticket.
LEMMA SessionAlone ==
  ASSUME RowsOK, OperationsOK, NEW t \in DOMAIN session, NEW x \in Session,
         session' = [session EXCEPT ![t] = x], session[t].state # "none",
         UNCHANGED <<host, candidates, ops, tickets>>
  PROVE  Kept
<1>1. session \in Seq(Session) BY DEF RowsOK
<1>2. session' \in Seq(Session) /\ Len(session') = Len(session) /\ DOMAIN session' = DOMAIN session
  BY <1>1, RowChanged
<1>3. \A u \in DOMAIN session : u # t => session'[u] = session[u] BY <1>1
<1>4. RowsOK' BY <1>2, <1>3 DEF RowsOK
<1> QED BY <1>4, OperationsAlone DEF Kept

LEMMA EndedIsSession ==
  /\ Ended \in Session /\ ~Open(Ended) /\ Ended.state = "closed"
  /\ NoSession \in Session /\ ~Open(NoSession)
  BY DEF Ended, NoSession, Session, Open

\* What the calls of a terminal do to its session.
LEMMA SessionCallKeeps ==
  ASSUME RowsOK, OperationsOK, NEW m \in wire, m.id \in DOMAIN tickets,
         SessionConnected(m) \/ SessionHeartbeat(m) \/ SessionClosed(m)
  PROVE  Kept
<1>1. m.id \in DOMAIN session /\ session[m.id] \in Session BY RowTypes
<1>2. UNCHANGED <<host, candidates, ops, tickets>>
  BY DEF SessionConnected, SessionHeartbeat, SessionClosed
<1>3. CASE UNCHANGED session BY <1>2, <1>3, Unchanging DEF api
<1>4. CASE Open(session[m.id]) /\ session' = [session EXCEPT ![m.id] = Ended]
  BY <1>1, <1>2, <1>4, EndedIsSession, SessionAlone DEF Open
<1>5. CASE Open(session[m.id]) /\ session' = [session EXCEPT ![m.id].state = "active", ![m.id].silent = FALSE]
  <2> DEFINE x == [session[m.id] EXCEPT !.state = "active", !.silent = FALSE]
  <2>1. x \in Session BY <1>1 DEF Session
  <2>2. session' = [session EXCEPT ![m.id] = x] BY <1>5
  <2> HIDE DEF x
  <2> QED BY <1>1, <1>2, <1>5, <2>1, <2>2, SessionAlone DEF Open
<1>6. CASE Open(session[m.id]) /\ session' = [session EXCEPT ![m.id].silent = FALSE]
  <2> DEFINE x == [session[m.id] EXCEPT !.silent = FALSE]
  <2>1. x \in Session BY <1>1 DEF Session
  <2>2. session' = [session EXCEPT ![m.id] = x] BY <1>6
  <2> HIDE DEF x
  <2> QED BY <1>1, <1>2, <1>6, <2>1, <2>2, SessionAlone DEF Open
<1> QED BY <1>3, <1>4, <1>5, <1>6
        DEF SessionConnected, SessionHeartbeat, SessionClosed, MayContinue, Open

LEMMA FallsSilentKeeps ==
  ASSUME RowsOK, OperationsOK, NEW t \in DOMAIN tickets, SessionFallsSilent(t)
  PROVE  Kept
<1> DEFINE x == [session[t] EXCEPT !.silent = TRUE]
<1>1. t \in DOMAIN session /\ session[t] \in Session BY RowTypes
<1>2. x \in Session BY <1>1 DEF Session
<1>3. /\ session' = [session EXCEPT ![t] = x] /\ Open(session[t])
      /\ UNCHANGED <<host, candidates, ops, tickets>>
  BY DEF SessionFallsSilent
<1> HIDE DEF x
<1> QED BY <1>1, <1>2, <1>3, SessionAlone DEF Open

LEMMA TicketExpiresKeeps ==
  ASSUME RowsOK, OperationsOK, NEW t \in DOMAIN tickets, TicketExpires(t)
  PROVE  Kept
<1> DEFINE x == [tickets[t] EXCEPT !.state = "void"]
<1>1. tickets \in Seq(Ticket) /\ tickets[t] \in Ticket BY RowTypes DEF RowsOK
<1>2. x \in Ticket BY <1>1 DEF Ticket
<1>3. /\ tickets' = [tickets EXCEPT ![t] = x] /\ tickets[t].state = "open"
      /\ UNCHANGED <<host, candidates, ops, session>>
  BY DEF TicketExpires
<1> HIDE DEF x
<1>4. tickets' \in Seq(Ticket) /\ Len(tickets') = Len(tickets) BY <1>1, <1>2, <1>3, RowChanged
<1>5. \A u \in DOMAIN tickets : u # t => tickets'[u] = tickets[u] BY <1>1, <1>3
<1>6. \A u \in DOMAIN session : session[u].state # "none" => u # t BY <1>3 DEF RowsOK
<1>7. RowsOK' BY <1>3, <1>4, <1>5, <1>6, RowTypes DEF RowsOK
<1> QED BY <1>3, <1>7, OperationsAlone DEF Kept

\* A sweep abandons silent sessions and opens none.
LEMMA Sweeping ==
  ASSUME RowsOK
  PROVE  /\ Swept \in Seq(Session) /\ Len(Swept) = Len(session) /\ DOMAIN Swept = DOMAIN session
         /\ \A t \in DOMAIN session :
               /\ Open(Swept[t]) => Swept[t] = session[t] /\ Open(session[t])
               /\ Open(session[t]) /\ ~session[t].silent => Swept[t] = session[t]
               /\ Swept[t].state # "none" => session[t].state # "none"
               /\ Swept[t].revision = session[t].revision
               /\ session[t].state = "closed" => Swept[t].state = "closed"
<1>1. session \in Seq(Session) BY DEF RowsOK
<1>2. Swept \in [DOMAIN session -> Session] BY RowTypes DEF Swept, Session
<1>3. ASSUME NEW t \in DOMAIN session, Swept[t] # session[t]
      PROVE  /\ Open(session[t]) /\ session[t].silent
             /\ Swept[t].state = "abandoned" /\ Swept[t].revision = session[t].revision
  BY <1>3, RowTypes DEF Swept, Session
<1>4. \A t \in DOMAIN session :
        /\ Open(Swept[t]) => Swept[t] = session[t] /\ Open(session[t])
        /\ Open(session[t]) /\ ~session[t].silent => Swept[t] = session[t]
        /\ Swept[t].state # "none" => session[t].state # "none"
        /\ Swept[t].revision = session[t].revision
        /\ session[t].state = "closed" => Swept[t].state = "closed"
  BY <1>3 DEF Open
<1> QED BY <1>1, <1>2, <1>4, RowsRewritten

\* What a consumed ticket leaves: the ticket is consumed, and a terminal has a session
\* under the revision and the host key of this moment.
LEMMA Consuming ==
  ASSUME RowsOK, OperationsOK, NEW m \in wire, m \in Message, m.call = "consume",
         m.id \in DOMAIN tickets, MayConsume(m.id), ConsumeTicket(m)
  PROVE  /\ Kept /\ UNCHANGED <<host, candidates, ops>>
         /\ tickets[m.id].state = "open" /\ tickets'[m.id].state = "consumed"
         /\ DOMAIN tickets' = DOMAIN tickets /\ DOMAIN session' = DOMAIN tickets
         /\ \A t \in DOMAIN tickets : /\ t # m.id => tickets'[t] = tickets[t]
                                      /\ tickets'[t].admin = tickets[t].admin
                                      /\ tickets'[t].login = tickets[t].login
                                      /\ tickets'[t].purpose = tickets[t].purpose
         /\ ~Open(session[m.id])
         /\ tickets[m.id].purpose = "probe" => session' = session
         /\ tickets[m.id].purpose = "terminal" =>
               /\ \A t \in DOMAIN session : t # m.id => session'[t] = Swept[t]
               /\ session'[m.id] = [state |-> "connecting", revision |-> host.revision,
                                    trusted |-> host.trusted, silent |-> FALSE]
<1> DEFINE x == [tickets[m.id] EXCEPT !.state = "consumed", !.gateway = m.gateway]
           y == [state |-> "connecting", revision |-> host.revision,
                 trusted |-> host.trusted, silent |-> FALSE]
<1>1. tickets \in Seq(Ticket) /\ tickets[m.id] \in Ticket /\ m.id \in DOMAIN session
      /\ session \in Seq(Session)
  BY RowTypes DEF RowsOK
<1>2. m.gateway \in Gateways BY DEF Message, WorkerCalls, ConnCalls
<1>3. /\ x \in Ticket /\ x.state = "consumed" /\ x.admin = tickets[m.id].admin
      /\ x.login = tickets[m.id].login /\ x.purpose = tickets[m.id].purpose
  BY <1>1, <1>2 DEF Ticket
<1>4. y \in Session /\ y.state = "connecting" BY HostTypes DEF Session, Host
<1>5. /\ tickets' = [tickets EXCEPT ![m.id] = x] /\ tickets[m.id].state = "open"
      /\ session' = IF tickets[m.id].purpose = "terminal" THEN [Swept EXCEPT ![m.id] = y] ELSE session
      /\ UNCHANGED <<host, candidates, ops>>
  BY DEF ConsumeTicket, MayConsume
<1>6. session[m.id].state = "none" BY <1>1, <1>5 DEF RowsOK
<1> HIDE DEF x, y
<1>7. /\ tickets' \in Seq(Ticket) /\ Len(tickets') = Len(tickets) /\ DOMAIN tickets' = DOMAIN tickets
      /\ tickets'[m.id] = x /\ \A t \in DOMAIN tickets : t # m.id => tickets'[t] = tickets[t]
  BY <1>1, <1>3, <1>5, RowChanged
<1>8. CASE tickets[m.id].purpose = "terminal"
  <2>1. session' = [Swept EXCEPT ![m.id] = y] BY <1>5, <1>8
  <2>2. /\ session' \in Seq(Session) /\ Len(session') = Len(session) /\ DOMAIN session' = DOMAIN session
        /\ session'[m.id] = y /\ \A t \in DOMAIN session : t # m.id => session'[t] = Swept[t]
    BY <1>1, <1>4, <2>1, Sweeping, RowChanged
  <2>3. \A t \in DOMAIN session' : session'[t].state # "none" =>
           tickets'[t].state = "consumed" /\ tickets'[t].purpose = "terminal"
    <3> SUFFICES ASSUME NEW t \in DOMAIN session', session'[t].state # "none"
                 PROVE  tickets'[t].state = "consumed" /\ tickets'[t].purpose = "terminal"
      OBVIOUS
    <3>1. CASE t = m.id BY <1>3, <1>7, <1>8, <3>1
    <3>2. CASE t # m.id
      <4>1. t \in DOMAIN session /\ t \in DOMAIN tickets /\ session'[t] = Swept[t]
        BY <2>2, <3>2, RowTypes
      <4>2. session[t].state # "none" BY <4>1, Sweeping
      <4>3. tickets[t].state = "consumed" /\ tickets[t].purpose = "terminal"
        BY <1>1, <4>1, <4>2 DEF RowsOK
      <4> QED BY <1>7, <3>2, <4>1, <4>3
    <3> QED BY <3>1, <3>2
  <2>4. RowsOK' BY <1>5, <1>7, <2>2, <2>3 DEF RowsOK
  <2> QED BY <1>3, <1>5, <1>6, <1>7, <1>8, <2>2, <2>4, RowTypes, OperationsAlone DEF Kept, Open, y
<1>9. CASE tickets[m.id].purpose # "terminal"
  <2>1. session' = session BY <1>5, <1>9
  <2>2. \A t \in DOMAIN session' : session'[t].state # "none" =>
           tickets'[t].state = "consumed" /\ tickets'[t].purpose = "terminal"
    BY <1>6, <1>7, <2>1, RowTypes DEF RowsOK
  <2>3. RowsOK'
    <3>1. session' \in Seq(Session) /\ Len(session') = Len(tickets')
      BY <1>1, <1>7, <2>1 DEF RowsOK
    <3> QED BY <1>5, <1>7, <2>2, <3>1 DEF RowsOK
  <2> QED BY <1>3, <1>5, <1>6, <1>7, <1>9, <2>1, <2>3, RowTypes, OperationsAlone DEF Kept, Open
<1> QED BY <1>8, <1>9

LEMMA CandidateKeeps ==
  ASSUME RowsOK, OperationsOK, NEW m \in wire, m.key \in HostKeys, ReportHostKeyCandidate(m)
  PROVE  Kept
<1>1. CASE UNCHANGED <<host, candidates>>
  BY <1>1, Unchanging DEF ReportHostKeyCandidate, api
<1>2. CASE /\ candidates' = candidates \cup {m.key}
           /\ host' = [host EXCEPT !.revision = @ + 1]
  <2>1. /\ host' \in Host /\ host'.enabled = host.enabled /\ host'.deleted = host.deleted
        /\ host'.identity = host.identity /\ host'.key = host.key /\ host'.trusted = host.trusted
    BY <1>2, HostTypes DEF Host
  <2>2. UNCHANGED <<ops, tickets, session>> BY DEF ReportHostKeyCandidate
  <2>3. RowsOK' BY <1>2, <2>1, <2>2 DEF RowsOK
  <2> QED BY <2>1, <2>2, <2>3, OperationsAlone DEF Kept
<1> QED BY <1>1, <1>2 DEF ReportHostKeyCandidate

LEMMA InvalidKeeps ==
  ASSUME RowsOK, OperationsOK, NEW m \in wire, ReportIdentityInvalid(m)
  PROVE  Kept
<1>1. CASE UNCHANGED <<host, tickets, session>>
  BY <1>1, Unchanging DEF ReportIdentityInvalid, api
<1>2. CASE /\ ~host.deleted /\ host.identity = "ready"
           /\ host' = [host EXCEPT !.enabled = FALSE, !.identity = "failed", !.key = None,
                                   !.revision = @ + 1]
           /\ tickets' = RevokeTickets
           /\ session' = CloseSessions
  <2>1. /\ host' \in Host /\ ~host'.enabled /\ host'.deleted = host.deleted
        /\ host'.identity = "failed" /\ host'.key = None
    BY <1>2, HostTypes DEF Host
  <2>2. UNCHANGED <<ops, candidates>> BY DEF ReportIdentityInvalid
  <2>3. /\ tickets' \in Seq(Ticket) /\ session' \in Seq(Session) /\ Len(session') = Len(tickets')
        /\ \A t \in DOMAIN session' : session'[t].state # "none" =>
               tickets'[t].state = "consumed" /\ tickets'[t].purpose = "terminal"
    BY <1>2, Revoking, RowTypes DEF RowsOK
  <2>4. RowsOK' BY <2>1, <2>2, <2>3 DEF RowsOK
  <2> QED BY <1>2, <2>1, <2>2, <2>4, OperationsAlone DEF Kept
<1> QED BY <1>1, <1>2 DEF ReportIdentityInvalid

----------------------------------------------------------------------------
(* Steps *)

\* Tickets are never removed, stay what they are, and stay consumed.
TicketsGrow ==
    /\ DOMAIN tickets \subseteq DOMAIN tickets'
    /\ \A t \in DOMAIN tickets :
          /\ tickets'[t].admin = tickets[t].admin /\ tickets'[t].login = tickets[t].login
          /\ tickets'[t].purpose = tickets[t].purpose
          /\ tickets[t].state = "consumed" => tickets'[t].state = "consumed"

\* Administrators, clocks and browsers: a step on the rows alone.
RowStep ==
    \/ DeleteHost \/ RetryIdentity
    \/ \E f \in HostKeys : TrustHostKey(f)
    \/ \E a \in Admins, l \in Logins :
           \/ BrowserSessionEnds(a, l)
           \/ \E purpose \in {"probe", "terminal"} : IssueTicket(a, l, purpose)
    \/ \E t \in DOMAIN tickets : TicketExpires(t) \/ SessionFallsSilent(t)
    \/ \E i \in DOMAIN ops : LeaseLapses(i)

WorkerSide(g) == WorkerStep(g) \/ WorkFails(g) \/ WorkerGivesUp(g)

ConnSide(c) ==
    \/ ConnStep(c) \/ Abandon(c) \/ ConnGivesUp(c)
    \/ \E t \in DOMAIN tickets, g \in Gateways : Present(c, t, g)

\* The steps of the system by who takes them.
LEMMA StepsByActor ==
  ASSUME [Next]_vars
  PROVE  \/ RowStep
         \/ \E m \in wire : Serve(m)
         \/ \E g \in Gateways : WorkerSide(g) \/ Crash(g)
         \/ \E c \in Conns : ConnSide(c)
         \/ VolumeLost \/ HostKeyChanges \/ UNCHANGED vars
  BY DEF Next, RowStep, WorkerSide, ConnSide

LEMMA RowStepFrame == ASSUME RowStep PROVE UNCHANGED <<wire, gateway, server>>
  BY DEF RowStep, DeleteHost, RetryIdentity, TrustHostKey, BrowserSessionEnds, IssueTicket,
         TicketExpires, SessionFallsSilent, LeaseLapses

LEMMA WorkerSideFrame ==
  ASSUME NEW g \in Gateways, WorkerSide(g)
  PROVE  UNCHANGED <<api, browser, conn, up, server>> /\ g \in up
  BY DEF WorkerSide, WorkerStep, WorkFails, WorkerGivesUp, Claim, AcquireLock, ReleaseLock,
         GenerateIdentity, PublishKeys, RemoveMarker, DeleteIdentity, ReportFailure, WorkerUnchanged

LEMMA ConnSideFrame ==
  ASSUME NEW c \in Conns, ConnSide(c)
  PROVE  UNCHANGED <<api, browser, worker, up, server, lock>>
  BY DEF ConnSide, ConnStep, Abandon, ConnGivesUp, Present, ProbeHostKey, ValidateIdentityBinding,
         MarkIdentityForRotation, SpawnTerminal, Heartbeat, CloseReport, ConnUnchanged

\* Which answers a call can have.
LEMMA ServeFrame ==
  ASSUME NEW m \in wire, Serve(m)
  PROVE  /\ wire' = wire \ {m} /\ UNCHANGED <<browser, volume, lock, up, server, spent>>
         /\ m.call \notin WorkerCalls => UNCHANGED worker
         /\ m.call \notin ConnCalls => UNCHANGED conn
  BY DEF Serve, WorkerCalls, ConnCalls

----------------------------------------------------------------------------
(* What every step keeps of the tables *)


LEMMA RowsKept ==
  ASSUME WellFormed, [Next]_vars
  PROVE  Kept
<1>1. RowsOK /\ OperationsOK /\ wire \subseteq Message
  BY DEF WellFormed, TypeOK, ProcessesOK
<1>2. CASE UNCHANGED api BY <1>1, <1>2, Unchanging
<1>3. CASE RowStep
  <2>1. CASE DeleteHost BY <1>1, <2>1, DeleteHostKeeps
  <2>2. CASE RetryIdentity BY <1>1, <2>2, RetryIdentityKeeps
  <2>3. CASE \E f \in HostKeys : TrustHostKey(f) BY <1>1, <2>3, TrustHostKeyKeeps
  <2>4. CASE \E a \in Admins, l \in Logins : BrowserSessionEnds(a, l)
    BY <1>2, <2>4 DEF BrowserSessionEnds
  <2>5. CASE \E a \in Admins, l \in Logins, purpose \in {"probe", "terminal"} : IssueTicket(a, l, purpose)
    BY <1>1, <2>5, IssueTicketKeeps
  <2>6. CASE \E t \in DOMAIN tickets : TicketExpires(t) BY <1>1, <2>6, TicketExpiresKeeps
  <2>7. CASE \E t \in DOMAIN tickets : SessionFallsSilent(t) BY <1>1, <2>7, FallsSilentKeeps
  <2>8. CASE \E i \in DOMAIN ops : LeaseLapses(i) BY <1>1, <2>8, LeaseLapsesKeeps
  <2> QED BY <1>3, <2>1, <2>2, <2>3, <2>4, <2>5, <2>6, <2>7, <2>8 DEF RowStep
<1>4. ASSUME NEW m \in wire, Serve(m) PROVE Kept
  <2>1. m \in Message BY <1>1
  <2>2. /\ m.call \in {"complete", "fail"} => m.id \in DOMAIN ops
        /\ m.call = "complete" /\ ops[m.id].kind = "generate" => m.key \in Key
        /\ m.call \in ConnCalls => m.id \in DOMAIN tickets
        /\ m.call = "candidate" => m.key \in HostKeys
    <3>1. CallsOK /\ ConnsOK BY DEF WellFormed
    <3>2. m.call = "candidate" => m.call \in ConnCalls BY DEF ConnCalls
    <3> QED BY <3>1, <3>2 DEF CallsOK, CallOK, ConnsOK, TicketCallOK
  <2>3. CASE m.call = "claim" /\ ClaimIdentityOperation(m) BY <1>1, <2>1, <2>3, ClaimKeeps
  <2>4. CASE m.call = "proceed" /\ HeartbeatIdentityOperation(m)
    BY <1>2, <2>4 DEF HeartbeatIdentityOperation
  <2>5. CASE m.call = "complete" /\ CompleteIdentityOperation(m)
    BY <1>1, <2>1, <2>2, <2>5, CompleteKeeps
  <2>6. CASE m.call = "fail" /\ FailIdentityOperation(m) BY <1>1, <2>1, <2>2, <2>6, FailKeeps
  <2>7. CASE m.call = "consume" /\ ConsumeTicket(m)
    <3>1. m.id \in DOMAIN tickets BY <2>2, <2>7 DEF ConnCalls
    <3>2. CASE MayConsume(m.id) BY <1>1, <2>1, <2>7, <3>1, <3>2, Consuming
    <3>3. CASE ~MayConsume(m.id) BY <1>2, <2>7, <3>3 DEF ConsumeTicket
    <3> QED BY <3>2, <3>3
  <2>8. CASE m.call = "candidate" /\ ReportHostKeyCandidate(m)
    BY <1>1, <2>2, <2>8, CandidateKeeps
  <2>9. CASE m.call = "invalid" /\ ReportIdentityInvalid(m) BY <1>1, <2>9, InvalidKeeps
  <2>10. CASE /\ m.call \in ConnCalls
              /\ SessionConnected(m) \/ SessionHeartbeat(m) \/ SessionClosed(m)
    BY <1>1, <2>2, <2>10, SessionCallKeeps
  <2> QED BY <1>4, <2>3, <2>4, <2>5, <2>6, <2>7, <2>8, <2>9, <2>10 DEF Serve, ConnCalls
<1>5. CASE \E g \in Gateways : WorkerSide(g) BY <1>2, <1>5, WorkerSideFrame
<1>6. CASE \E g \in Gateways : Crash(g) BY <1>2, <1>6 DEF Crash
<1>7. CASE \E c \in Conns : ConnSide(c) BY <1>2, <1>7, ConnSideFrame
<1>8. CASE VolumeLost \/ HostKeyChanges \/ UNCHANGED vars
  BY <1>2, <1>8 DEF VolumeLost, HostKeyChanges, vars
<1> QED BY <1>3, <1>4, <1>5, <1>6, <1>7, <1>8, StepsByActor

LEMMA TicketsKept ==
  ASSUME WellFormed, [Next]_vars
  PROVE  TicketsGrow
<1>1. RowsOK /\ OperationsOK /\ wire \subseteq Message BY DEF WellFormed, TypeOK, ProcessesOK
<1>2. CASE UNCHANGED tickets BY <1>2 DEF TicketsGrow
<1>3. CASE tickets' = RevokeTickets BY <1>1, <1>3, Revoking DEF TicketsGrow
<1>4. ASSUME NEW a \in Admins, NEW l \in Logins, NEW purpose \in {"probe", "terminal"},
             IssueTicket(a, l, purpose)
      PROVE  TicketsGrow
  <2>1. [purpose |-> purpose, admin |-> a, login |-> l, state |-> "open", gateway |-> None] \in Ticket
    BY DEF Ticket
  <2>2. tickets \in Seq(Ticket) BY <1>1 DEF RowsOK
  <2> QED BY <1>4, <2>1, <2>2, RowAppended DEF IssueTicket, TicketsGrow
<1>5. ASSUME NEW t \in DOMAIN tickets, TicketExpires(t) PROVE TicketsGrow
  <2>1. tickets[t] \in Ticket BY <1>1, RowTypes
  <2> QED BY <1>5, <2>1 DEF TicketExpires, TicketsGrow, Ticket
<1>6. ASSUME NEW m \in wire, m.call = "consume", ConsumeTicket(m) PROVE TicketsGrow
  <2>1. m \in Message /\ m.id \in DOMAIN tickets BY <1>1, <1>6 DEF WellFormed, ConnsOK, TicketCallOK, ConnCalls
  <2>2. CASE MayConsume(m.id) BY <1>1, <1>6, <2>1, <2>2, Consuming DEF TicketsGrow
  <2>3. CASE ~MayConsume(m.id) BY <1>2, <1>6, <2>3 DEF ConsumeTicket, api
  <2> QED BY <2>2, <2>3
<1>7. CASE RowStep
  BY <1>2, <1>3, <1>4, <1>5, <1>7
     DEF RowStep, DeleteHost, RetryIdentity, TrustHostKey, BrowserSessionEnds, SessionFallsSilent,
         LeaseLapses, api
<1>8. CASE \E m \in wire : Serve(m)
  BY <1>2, <1>3, <1>6, <1>8
     DEF Serve, ClaimIdentityOperation, HeartbeatIdentityOperation, CompleteIdentityOperation,
         FailIdentityOperation, ReportHostKeyCandidate, ReportIdentityInvalid, SessionConnected,
         SessionHeartbeat, SessionClosed, api
<1>9. CASE \E g \in Gateways : WorkerSide(g) BY <1>2, <1>9, WorkerSideFrame DEF api
<1>10. CASE \E c \in Conns : ConnSide(c) BY <1>2, <1>10, ConnSideFrame DEF api
<1>11. CASE (\E g \in Gateways : Crash(g)) \/ VolumeLost \/ HostKeyChanges \/ UNCHANGED vars
  BY <1>2, <1>11 DEF Crash, VolumeLost, HostKeyChanges, vars, api
<1> QED BY <1>7, <1>8, <1>9, <1>10, <1>11, StepsByActor

----------------------------------------------------------------------------
(* Workers and connections *)

LEMMA WireTypes ==
  ASSUME ProcessesOK, NEW m \in wire
  PROVE  /\ m \in Message /\ m.gateway \in Gateways /\ m.id \in Nat /\ m.token \in Nat
         /\ m.call \in WorkerCalls => m.from \in Gateways
         /\ m.call \in ConnCalls => m.from \in Conns
         /\ m.call \notin WorkerCalls \cap ConnCalls
<1>1. m \in Message BY DEF ProcessesOK
<1> QED BY <1>1 DEF Message, WorkerCalls, ConnCalls

LEMMA WorkerTypes ==
  ASSUME ProcessesOK, NEW g \in Gateways
  PROVE  /\ worker[g] \in Worker /\ worker[g].op \in Nat /\ worker[g].token \in Nat
         /\ worker[g].key \in Key \cup {None} /\ RestingWorker \in Worker
<1>1. worker[g] \in Worker BY DEF ProcessesOK
<1> QED BY <1>1 DEF Worker, RestingWorker

LEMMA ConnTypes ==
  ASSUME ProcessesOK, NEW c \in Conns
  PROVE  /\ conn[c] \in Connection /\ conn[c].ticket \in Nat /\ conn[c].missed \in Nat
         /\ conn[c].gateway \in Gateways \cup {None} /\ NoConn \in Connection
<1>1. conn[c] \in Connection BY DEF ProcessesOK
<1> QED BY <1>1 DEF Connection, NoConn

\* How the answer to a call changes its worker: only if it still waits for it, and then
\* by what the API found.
Answered(m) ==
    \A g \in Gateways :
        \/ worker'[g] = worker[g]
        \/ /\ g = m.from /\ worker[g].pc = m.call /\ worker[g].op = m.id /\ worker[g].token = m.token
           /\ \/ m.call # "proceed" /\ worker'[g] = RestingWorker
              \/ /\ m.call = "claim"
                 /\ \E i \in DOMAIN ops :
                       /\ ops'[i].token = ops[i].token + 1
                       /\ worker'[g] = [pc |-> "locking", op |-> i, token |-> ops'[i].token,
                                        key |-> None]
              \/ /\ m.call = "proceed" /\ MayProceed(m) /\ UNCHANGED api
                 /\ worker'[g] = [worker[g] EXCEPT !.pc = "working"]
              \/ m.call = "proceed" /\ worker'[g] = [worker[g] EXCEPT !.pc = "releasing"]
              \/ m.call = "complete" /\ worker'[g] = [worker[g] EXCEPT !.pc = "failing"]

LEMMA WorkerAnswered ==
  ASSUME WellFormed, NEW m \in wire, Serve(m)
  PROVE  Answered(m) /\ worker' \in [Gateways -> Worker]
<1>1. RowsOK /\ OperationsOK /\ ProcessesOK /\ worker \in [Gateways -> Worker]
  BY DEF WellFormed, TypeOK, ProcessesOK
<1>2. ASSUME NEW w \in Worker, AnswerWorker(m, w)
      PROVE  /\ worker' \in [Gateways -> Worker]
             /\ \A g \in Gateways :
                  \/ worker'[g] = worker[g]
                  \/ /\ g = m.from /\ worker[g].pc = m.call /\ worker[g].op = m.id
                     /\ worker[g].token = m.token /\ worker'[g] = w
  <2>1. CASE worker' = worker BY <1>1, <2>1
  <2>2. CASE WorkerWaits(m) /\ worker' = [worker EXCEPT ![m.from] = w]
    <3>1. \A g \in Gateways : worker'[g] = IF g = m.from THEN w ELSE worker[g] BY <1>1, <2>2
    <3>2. worker' \in [Gateways -> Worker] BY <1>1, <1>2, <2>2
    <3> QED BY <2>2, <3>1, <3>2 DEF WorkerWaits, WorkerOf
  <2> QED BY <1>2, <2>1, <2>2 DEF AnswerWorker
<1>3. RestingWorker \in Worker BY DEF RestingWorker, Worker
<1>4. m \in Message /\ m.id \in Nat BY <1>1, WireTypes
<1>5. ASSUME m.call = "claim", ClaimIdentityOperation(m)
      PROVE  Answered(m) /\ worker' \in [Gateways -> Worker]
  <2>1. CASE AnswerWorker(m, RestingWorker) BY <1>2, <1>3, <1>5, <2>1 DEF Answered
  <2>2. ASSUME NEW i \in DOMAIN ops, ops'[i].token = ops[i].token + 1,
               AnswerWorker(m, [pc |-> "locking", op |-> i, token |-> ops[i].token + 1, key |-> None])
        PROVE  Answered(m) /\ worker' \in [Gateways -> Worker]
    <3>1. ops[i].token + 1 \in Nat /\ i \in Nat BY <1>1, RowTypes, LenProperties DEF Operation, RowsOK
    <3>2. [pc |-> "locking", op |-> i, token |-> ops[i].token + 1, key |-> None] \in Worker
      BY <3>1 DEF Worker
    <3> QED BY <1>2, <1>5, <2>2, <3>2 DEF Answered
  <2> QED BY <1>1, <1>4, <1>5, <2>1, <2>2, ClaimKeeps
<1>6. CASE m.from \in Gateways /\ m.call \in {"proceed", "complete", "fail"}
  <2> DEFINE at(pc) == [worker[m.from] EXCEPT !.pc = pc]
  <2>1. at("working") \in Worker /\ at("releasing") \in Worker /\ at("failing") \in Worker
    <3>1. worker[m.from] \in Worker BY <1>1, <1>6
    <3> QED BY <3>1 DEF Worker
  <2>2. CASE m.call = "proceed" /\ HeartbeatIdentityOperation(m)
    <3>1. UNCHANGED api BY <2>2 DEF HeartbeatIdentityOperation
    <3>2. CASE MayProceed(m) /\ AnswerWorker(m, at("working"))
      BY <1>2, <2>1, <2>2, <3>1, <3>2 DEF Answered
    <3>3. CASE AnswerWorker(m, at("releasing")) BY <1>2, <2>1, <2>2, <3>3 DEF Answered
    <3> QED BY <2>2, <3>2, <3>3 DEF HeartbeatIdentityOperation, WorkerOf
  <2>3. CASE m.call = "complete" /\ CompleteIdentityOperation(m)
    <3>1. CASE AnswerWorker(m, RestingWorker) BY <1>2, <1>3, <2>3, <3>1 DEF Answered
    <3>2. CASE AnswerWorker(m, at("failing")) BY <1>2, <2>1, <2>3, <3>2 DEF Answered
    <3> QED BY <2>3, <3>1, <3>2 DEF CompleteIdentityOperation, WorkerOf
  <2>4. CASE m.call = "fail" /\ FailIdentityOperation(m)
    <3>1. AnswerWorker(m, RestingWorker) BY <2>4 DEF FailIdentityOperation
    <3> QED BY <1>2, <1>3, <2>4, <3>1 DEF Answered
  <2> QED BY <1>6, <2>2, <2>3, <2>4 DEF Serve
<1>7. CASE UNCHANGED worker BY <1>1, <1>7 DEF Answered
<1>8. m.call \in WorkerCalls => m.from \in Gateways BY <1>1, WireTypes
<1> QED BY <1>5, <1>6, <1>7, <1>8 DEF Serve, WorkerCalls

\* How a call leaves.
LEMMA WorkerSends ==
  ASSUME ProcessesOK, NEW g \in Gateways, NEW name \in WorkerCalls, NEW op \in Nat,
         NEW token \in Nat, NEW key \in Key \cup {None}, SendWorker(g, name, op, token, key)
  PROVE  /\ worker' \in [Gateways -> Worker]
         /\ worker'[g] = [pc |-> name, op |-> op, token |-> token, key |-> key]
         /\ \A h \in Gateways : h # g => worker'[h] = worker[h]
         /\ \E r \in Message :
               /\ wire' = wire \cup {r} /\ r.call = name /\ r.from = g /\ r.id = op /\ r.token = token
               /\ r.key = key
         /\ wire' \subseteq Message
<1> DEFINE r == [Call(name, g, g, op) EXCEPT !.token = token, !.key = key]
           w == [pc |-> name, op |-> op, token |-> token, key |-> key]
<1>1. w \in Worker BY DEF Worker
<1>2. worker \in [Gateways -> Worker] /\ wire \subseteq Message BY DEF ProcessesOK
<1>3. worker' = [worker EXCEPT ![g] = w] /\ wire' = wire \cup {r} BY DEF SendWorker
<1>4. /\ r \in Message /\ r.call = name /\ r.from = g /\ r.id = op /\ r.token = token /\ r.key = key
  BY DEF Call, Message
<1> HIDE DEF r, w
<1>5. /\ worker' \in [Gateways -> Worker] /\ worker'[g] = w
      /\ \A h \in Gateways : h # g => worker'[h] = worker[h]
  BY <1>1, <1>2, <1>3
<1> QED BY <1>2, <1>3, <1>4, <1>5 DEF w

LEMMA ConnSends ==
  ASSUME ProcessesOK, NEW c \in Conns, NEW name \in ConnCalls, NEW key \in HostKeys \cup {None},
         conn[c].gateway \in Gateways, SendConn(c, name, key)
  PROVE  /\ conn' = [conn EXCEPT ![c].pc = name] /\ conn' \in [Conns -> Connection]
         /\ \E r \in Message :
               /\ wire' = wire \cup {r} /\ r.call = name /\ r.from = c /\ r.id = conn[c].ticket
               /\ r.key = key
         /\ wire' \subseteq Message
<1> DEFINE r == [Call(name, c, conn[c].gateway, conn[c].ticket) EXCEPT !.key = key]
<1>1. conn \in [Conns -> Connection] /\ wire \subseteq Message BY DEF ProcessesOK
<1>2. conn[c].ticket \in Nat BY ConnTypes
<1>3. [conn[c] EXCEPT !.pc = name] \in Connection BY <1>1 DEF Connection
<1>4. conn' = [conn EXCEPT ![c].pc = name] /\ wire' = wire \cup {r} BY DEF SendConn, Goto
<1>5. r \in Message /\ r.call = name /\ r.from = c /\ r.id = conn[c].ticket /\ r.key = key
  BY <1>2 DEF Call, Message
<1> HIDE DEF r
<1> QED BY <1>1, <1>3, <1>4, <1>5

\* The operations of claims and calls, before and after.
LEMMA OperationsGrown ==
  ASSUME RowsOK, Kept, NEW i \in DOMAIN ops, NEW n \in Nat, n <= ops[i].token
  PROVE  i \in DOMAIN ops' /\ n <= ops'[i].token /\ ops'[i].kind = ops[i].kind
<1>1. ops[i].token \in Nat BY RowTypes DEF Operation
<1>2. i \in DOMAIN ops' /\ ops[i].token <= ops'[i].token /\ ops'[i].kind = ops[i].kind
  BY DEF Kept, Grows
<1>3. ops'[i].token \in Nat
  <2>1. ops' \in Seq(Operation) BY DEF Kept, RowsOK
  <2>2. ops'[i] \in Operation BY <1>2, <2>1, ElementOfSeq, LenProperties
  <2> QED BY <2>2 DEF Operation
<1> QED BY <1>1, <1>2, <1>3

\* The calls after a step that sends none, and after one that sends one.
LEMMA CallStaysOK ==
  ASSUME TypeOK, Kept, NEW m \in wire, CallOK(m) PROVE CallOK(m)'
<1>1. m.token \in Nat /\ RowsOK BY WireTypes DEF TypeOK
<1>2. CASE m.call \in {"proceed", "complete", "fail"}
  BY <1>1, <1>2, OperationsGrown DEF CallOK
<1> QED BY <1>2 DEF CallOK

LEMMA CallsFrame ==
  ASSUME TypeOK, CallsOK, Kept, wire' \subseteq wire PROVE CallsOK'
  BY CallStaysOK DEF CallsOK

LEMMA CallsSent ==
  ASSUME TypeOK, CallsOK, Kept, NEW r, wire' = wire \cup {r}, CallOK(r)' PROVE CallsOK'
  BY CallStaysOK DEF CallsOK

\* A worker at rest keeps what it relies on: nobody else takes the lock or the key from
\* under it.
LEMMA WorkerStaysOK ==
  ASSUME TypeOK, Kept, NEW g \in Gateways, WorkerOK(g), worker'[g] = worker[g],
         Holder(g) => lock' = lock /\ volume'.key = volume.key
  PROVE  WorkerOK(g)'
<1>1. worker[g].token \in Nat /\ RowsOK BY WorkerTypes DEF TypeOK
<1>2. CASE Claimant(g)
  <2>1. worker[g].op \in DOMAIN ops /\ worker[g].token <= OperationOf(g).token
    BY <1>2 DEF WorkerOK
  <2>2. /\ worker[g].op \in DOMAIN ops' /\ worker[g].token <= ops'[worker[g].op].token
        /\ ops'[worker[g].op].kind = ops[worker[g].op].kind
    BY <1>1, <2>1, OperationsGrown DEF OperationOf
  <2> QED BY <2>2 DEF WorkerOK, Claimant, Holder, OperationOf
<1>3. CASE ~Claimant(g) BY <1>3 DEF WorkerOK, Claimant, Holder
<1> QED BY <1>2, <1>3

\* The lock has one holder.
LEMMA OneHolder ==
  ASSUME TypeOK, WorkersOK
  PROVE  /\ \A g, h \in Gateways : Holder(g) /\ Holder(h) => g = h
         /\ lock = None => \A g \in Gateways : ~Holder(g)
  BY SshAssumption DEF WorkersOK, WorkerOK

\* What a step of the worker of g does, when it makes no API row change.
LEMMA OneWorkerMoves ==
  ASSUME TypeOK, WorkersOK, Kept, NEW g \in Gateways,
         \A h \in Gateways : h # g => worker'[h] = worker[h],
         WorkerOK(g)',
         \/ Holder(g) \/ lock = None
         \/ lock' = lock /\ volume'.key = volume.key
  PROVE  WorkersOK'
<1>1. \A h \in Gateways : h # g /\ Holder(h) => lock' = lock /\ volume'.key = volume.key
  BY OneHolder
<1>2. \A h \in Gateways : h # g => WorkerOK(h)' BY <1>1, WorkerStaysOK DEF WorkersOK
<1> QED BY <1>2 DEF WorkersOK

\* The steps of a worker.
LEMMA WorkerSideKeeps ==
  ASSUME WellFormed, NEW g \in Gateways, WorkerSide(g)
  PROVE  ProcessesOK' /\ CallsOK' /\ WorkersOK'
<1> DEFINE o == worker[g].op
           n == worker[g].token
           k == worker[g].key
<1>1. /\ TypeOK /\ RowsOK /\ ProcessesOK /\ OperationsOK /\ CallsOK /\ WorkersOK
      /\ UNCHANGED <<api, browser, conn, up, server>>
  BY WorkerSideFrame DEF WellFormed, TypeOK
<1>2. Kept BY <1>1, Unchanging
<1>3. /\ WorkerOK(g) /\ worker[g] \in Worker /\ o \in Nat /\ n \in Nat /\ k \in Key \cup {None}
      /\ RestingWorker \in Worker /\ UNCHANGED ops
  BY <1>1, WorkerTypes DEF WorkersOK, api
<1>4. Claimant(g) => o \in DOMAIN ops /\ n <= ops[o].token BY <1>3 DEF WorkerOK, OperationOf
<1>5. worker \in [Gateways -> Worker] /\ volume \in Volume /\ lock \in Gateways \cup {None} /\ wire \subseteq Message
      /\ spent \in [keys : 0..MaxKeys, trusts : Nat, faults : Nat]
  BY <1>1 DEF ProcessesOK
<1>6. ASSUME spent' = [spent EXCEPT !.faults = @ + 1]
      PROVE  spent' \in [keys : 0..MaxKeys, trusts : Nat, faults : Nat]
  BY <1>5, <1>6
\* A worker that changes its pc alone, and needs no more than it had.
<1>7. ASSUME NEW pc \in {"releasing", "failing", "keygen"}, worker' = [worker EXCEPT ![g].pc = pc]
      PROVE  /\ worker' \in [Gateways -> Worker]
             /\ \A h \in Gateways : h # g => worker'[h] = worker[h]
             /\ worker'[g].pc = pc /\ worker'[g].op = o /\ worker'[g].token = n
  <2>1. [worker[g] EXCEPT !.pc = pc] \in Worker BY <1>3 DEF Worker
  <2> QED BY <1>3, <1>5, <1>7, <2>1 DEF Worker
<1>8. ASSUME worker' = [worker EXCEPT ![g] = RestingWorker]
      PROVE  /\ worker' \in [Gateways -> Worker]
             /\ \A h \in Gateways : h # g => worker'[h] = worker[h]
             /\ WorkerOK(g)'
  <2>1. worker'[g] = RestingWorker BY <1>5, <1>8
  <2> QED BY <1>3, <1>5, <1>8, <2>1 DEF WorkerOK, Claimant, Holder, RestingWorker
<1>9. CASE Claim(g)
  <2>1. SendWorker(g, "claim", 0, 0, None) /\ UNCHANGED <<volume, lock, spent>> BY <1>9 DEF Claim
  <2>2. PICK r \in Message :
          /\ worker' \in [Gateways -> Worker] /\ wire' \subseteq Message
          /\ worker'[g] = [pc |-> "claim", op |-> 0, token |-> 0, key |-> None]
          /\ \A h \in Gateways : h # g => worker'[h] = worker[h]
          /\ wire' = wire \cup {r} /\ r.call = "claim"
    BY <1>1, <2>1, WorkerSends DEF WorkerCalls
  <2>3. WorkerOK(g)' BY <2>2 DEF WorkerOK, Claimant, Holder
  <2>4. WorkersOK' BY <1>1, <1>2, <2>1, <2>2, <2>3, OneWorkerMoves
  <2>5. CallsOK' BY <1>1, <1>2, <2>2, CallsSent DEF CallOK
  <2> QED BY <1>1, <2>1, <2>2, <2>4, <2>5 DEF ProcessesOK
<1>10. CASE AcquireLock(g)
  <2>1. /\ worker[g].pc = "locking" /\ lock = None /\ lock' = g
        /\ SendWorker(g, "proceed", o, n, None) /\ UNCHANGED <<volume, spent>>
    BY <1>10 DEF AcquireLock
  <2>2. PICK r \in Message :
          /\ worker' \in [Gateways -> Worker] /\ wire' \subseteq Message
          /\ worker'[g] = [pc |-> "proceed", op |-> o, token |-> n, key |-> None]
          /\ \A h \in Gateways : h # g => worker'[h] = worker[h]
          /\ wire' = wire \cup {r} /\ r.call = "proceed" /\ r.id = o /\ r.token = n
    BY <1>1, <1>3, <2>1, WorkerSends DEF WorkerCalls
  <2>3. o \in DOMAIN ops /\ n <= ops[o].token BY <1>4, <2>1 DEF Claimant
  <2>4. WorkerOK(g)' BY <1>3, <2>1, <2>2, <2>3 DEF WorkerOK, OperationOf
  <2>5. WorkersOK' BY <1>1, <1>2, <2>1, <2>2, <2>4, OneWorkerMoves
  <2>6. CallsOK' BY <1>1, <1>2, <1>3, <2>2, <2>3, CallsSent DEF CallOK
  <2> QED BY <1>1, <2>1, <2>2, <2>5, <2>6 DEF ProcessesOK
<1>11. CASE ReleaseLock(g)
  <2>1. /\ Holder(g) /\ lock' = None /\ worker' = [worker EXCEPT ![g] = RestingWorker]
        /\ UNCHANGED <<wire, volume, spent>>
    BY <1>11 DEF ReleaseLock, Holder
  <2>2. WorkersOK' BY <1>1, <1>2, <1>8, <2>1, OneWorkerMoves
  <2>3. CallsOK' BY <1>1, <1>2, <2>1, CallsFrame
  <2> QED BY <1>1, <1>8, <2>1, <2>2, <2>3 DEF ProcessesOK
\* The result of the work is reported, and the lock was given back.
<1>12. ASSUME NEW name \in {"complete", "fail"}, NEW key \in Key \cup {None},
              SendWorker(g, name, o, n, key), volume' \in Volume,
              Claimant(g), name = "complete" /\ ops[o].kind = "generate" => key \in Key,
              \/ Holder(g) /\ lock' = None
              \/ lock' = lock /\ volume'.key = volume.key
       PROVE  /\ worker' \in [Gateways -> Worker] /\ wire' \subseteq Message
              /\ CallsOK' /\ WorkersOK'
  <2>1. PICK r \in Message :
          /\ worker' \in [Gateways -> Worker] /\ wire' \subseteq Message
          /\ worker'[g] = [pc |-> name, op |-> o, token |-> n, key |-> key]
          /\ \A h \in Gateways : h # g => worker'[h] = worker[h]
          /\ wire' = wire \cup {r} /\ r.call = name /\ r.id = o /\ r.token = n /\ r.key = key
    BY <1>1, <1>3, <1>12, WorkerSends DEF WorkerCalls
  <2>2. WorkerOK(g)' BY <1>3, <1>4, <1>12, <2>1 DEF WorkerOK, OperationOf, Holder
  <2>3. WorkersOK' BY <1>1, <1>2, <1>12, <2>1, <2>2, OneWorkerMoves
  <2>4. CallOK(r)' BY <1>3, <1>4, <1>12, <2>1 DEF CallOK
  <2>5. CallsOK' BY <1>1, <1>2, <2>1, <2>4, CallsSent
  <2> QED BY <2>1, <2>3, <2>5
<1>13. CASE GenerateIdentity(g)
  <2>1. /\ worker[g].pc = "working" /\ ops[o].kind = "generate" /\ UNCHANGED spent
        /\ Holder(g) /\ Claimant(g)
    BY <1>13 DEF GenerateIdentity, OperationOf, Holder, Claimant
  <2>2. CASE /\ volume.key # None /\ lock' = None /\ UNCHANGED volume
             /\ SendWorker(g, "complete", o, n, volume.key)
    <3>1. volume.key \in Key BY <1>5, <2>2 DEF Volume
    <3>2. /\ worker' \in [Gateways -> Worker] /\ wire' \subseteq Message /\ CallsOK' /\ WorkersOK'
      BY <1>5, <1>12, <2>1, <2>2, <3>1
    <3> QED BY <1>1, <2>1, <2>2, <3>2 DEF ProcessesOK
  <2>3. CASE /\ volume' = [volume EXCEPT !.dir = TRUE, !.key = None]
             /\ worker' = [worker EXCEPT ![g].pc = "keygen"]
             /\ UNCHANGED <<wire, lock>>
    <3>1. volume' \in Volume BY <1>5, <2>3 DEF Volume
    <3>2. WorkerOK(g)' BY <1>3, <1>4, <1>7, <2>1, <2>3 DEF WorkerOK, OperationOf, Holder
    <3>3. WorkersOK' BY <1>1, <1>2, <1>7, <2>1, <2>3, <3>2, OneWorkerMoves
    <3>4. CallsOK' BY <1>1, <1>2, <2>3, CallsFrame
    <3> QED BY <1>1, <1>7, <2>1, <2>3, <3>1, <3>3, <3>4 DEF ProcessesOK
  <2> QED BY <1>13, <2>2, <2>3 DEF GenerateIdentity
<1>14. CASE PublishKeys(g)
  <2> DEFINE key == spent.keys + 1
  <2>1. /\ worker[g].pc = "keygen" /\ spent.keys < MaxKeys /\ Holder(g) /\ Claimant(g)
        /\ volume' = [volume EXCEPT !.dir = TRUE, !.key = key]
        /\ spent' = [spent EXCEPT !.keys = @ + 1]
        /\ worker' = [worker EXCEPT ![g].pc = "unmarking", ![g].key = key]
        /\ UNCHANGED <<wire, lock>>
    BY <1>14 DEF PublishKeys, Holder, Claimant
  <2>2. key \in Key /\ key \in 0..MaxKeys BY <1>5, <2>1, SshAssumption DEF Key
  <2>3. spent' \in [keys : 0..MaxKeys, trusts : Nat, faults : Nat] BY <1>5, <2>1, <2>2
  <2> HIDE DEF key
  <2>4. volume' \in Volume /\ volume'.key = key BY <1>5, <2>1, <2>2 DEF Volume
  <2>5. [worker[g] EXCEPT !.pc = "unmarking", !.key = key] \in Worker BY <1>3, <2>2 DEF Worker
  <2>6. /\ worker' \in [Gateways -> Worker] /\ \A h \in Gateways : h # g => worker'[h] = worker[h]
        /\ worker'[g].pc = "unmarking" /\ worker'[g].key = key /\ worker'[g].op = o /\ worker'[g].token = n
    BY <1>3, <1>5, <2>1, <2>5 DEF Worker
  <2>7. WorkerOK(g)' BY <1>3, <1>4, <2>1, <2>2, <2>4, <2>6 DEF WorkerOK, OperationOf, Holder
  <2>8. WorkersOK' BY <1>1, <1>2, <2>1, <2>6, <2>7, OneWorkerMoves
  <2>9. CallsOK' BY <1>1, <1>2, <2>1, CallsFrame
  <2> QED BY <1>1, <2>1, <2>3, <2>4, <2>6, <2>8, <2>9 DEF ProcessesOK
<1>15. CASE RemoveMarker(g)
  <2>1. /\ worker[g].pc = "unmarking" /\ Holder(g) /\ Claimant(g) /\ lock' = None /\ UNCHANGED spent
        /\ volume' = [volume EXCEPT !.marker = FALSE]
        /\ SendWorker(g, "complete", o, n, k)
    BY <1>15 DEF RemoveMarker, Holder, Claimant
  <2>2. k \in Key BY <1>3, <2>1 DEF WorkerOK
  <2>3. volume' \in Volume BY <1>5, <2>1 DEF Volume
  <2>4. /\ worker' \in [Gateways -> Worker] /\ wire' \subseteq Message /\ CallsOK' /\ WorkersOK'
    BY <1>12, <2>1, <2>2, <2>3
  <2> QED BY <1>1, <2>1, <2>3, <2>4 DEF ProcessesOK
<1>16. CASE DeleteIdentity(g)
  <2>1. /\ worker[g].pc = "working" /\ ops[o].kind = "delete" /\ Holder(g) /\ Claimant(g)
        /\ lock' = None /\ UNCHANGED spent /\ volume' = EmptyVolume
        /\ SendWorker(g, "complete", o, n, None)
    BY <1>16 DEF DeleteIdentity, Holder, Claimant, OperationOf
  <2>2. volume' \in Volume BY <2>1 DEF Volume, EmptyVolume
  <2>3. /\ worker' \in [Gateways -> Worker] /\ wire' \subseteq Message /\ CallsOK' /\ WorkersOK'
    BY <1>12, <2>1, <2>2
  <2> QED BY <1>1, <2>1, <2>2, <2>3 DEF ProcessesOK
<1>17. CASE ReportFailure(g)
  <2>1. /\ Claimant(g) /\ UNCHANGED <<volume, lock, spent>> /\ SendWorker(g, "fail", o, n, None)
    BY <1>17 DEF ReportFailure, Claimant
  <2>2. /\ worker' \in [Gateways -> Worker] /\ wire' \subseteq Message /\ CallsOK' /\ WorkersOK'
    BY <1>5, <1>12, <2>1
  <2> QED BY <1>1, <2>1, <2>2 DEF ProcessesOK
<1>18. CASE WorkFails(g)
  <2>1. /\ Holder(g) /\ Claimant(g) /\ lock' = None /\ spent' = [spent EXCEPT !.faults = @ + 1]
        /\ worker' = [worker EXCEPT ![g].pc = "failing"] /\ UNCHANGED <<wire, volume>>
    BY <1>18 DEF WorkFails, Holder, Claimant
  <2>2. WorkerOK(g)' BY <1>3, <1>4, <1>7, <2>1 DEF WorkerOK, OperationOf, Holder
  <2>3. WorkersOK' BY <1>1, <1>2, <1>7, <2>1, <2>2, OneWorkerMoves
  <2>4. CallsOK' BY <1>1, <1>2, <2>1, CallsFrame
  <2> QED BY <1>1, <1>6, <1>7, <2>1, <2>3, <2>4 DEF ProcessesOK
<1>19. CASE WorkerGivesUp(g)
  <2>1. /\ spent' = [spent EXCEPT !.faults = @ + 1] /\ UNCHANGED <<wire, volume, lock>>
        /\ worker[g].pc \in WorkerCalls \cup {"locking"}
    BY <1>19 DEF WorkerGivesUp
  <2>2. CallsOK' BY <1>1, <1>2, <2>1, CallsFrame
  <2>3. CASE worker' = [worker EXCEPT ![g] = RestingWorker]
    <3>1. WorkersOK' BY <1>1, <1>2, <1>8, <2>1, <2>3, OneWorkerMoves
    <3> QED BY <1>1, <1>6, <1>8, <2>1, <2>2, <2>3, <3>1 DEF ProcessesOK
  <2>4. CASE /\ worker[g].pc = "proceed" /\ worker' = [worker EXCEPT ![g].pc = "releasing"]
    <3>1. Claimant(g) /\ Holder(g) BY <2>4 DEF Claimant, Holder
    <3>2. WorkerOK(g)' BY <1>3, <1>4, <1>7, <2>1, <2>4, <3>1 DEF WorkerOK, OperationOf
    <3>3. WorkersOK' BY <1>1, <1>2, <1>7, <2>1, <2>4, <3>2, OneWorkerMoves
    <3> QED BY <1>1, <1>6, <1>7, <2>1, <2>2, <2>4, <3>3 DEF ProcessesOK
  <2>5. CASE /\ worker[g].pc = "complete" /\ worker' = [worker EXCEPT ![g].pc = "failing"]
    <3>1. Claimant(g) BY <2>5 DEF Claimant
    <3>2. WorkerOK(g)' BY <1>3, <1>4, <1>7, <2>1, <2>5, <3>1 DEF WorkerOK, OperationOf, Holder
    <3>3. WorkersOK' BY <1>1, <1>2, <1>7, <2>1, <2>5, <3>2, OneWorkerMoves
    <3> QED BY <1>1, <1>6, <1>7, <2>1, <2>2, <2>5, <3>3 DEF ProcessesOK
  <2> QED BY <1>19, <2>1, <2>3, <2>4, <2>5 DEF WorkerGivesUp, AfterGivingUp, WorkerCalls
<1> QED BY <1>9, <1>10, <1>11, <1>13, <1>14, <1>15, <1>16, <1>17, <1>18, <1>19 DEF WorkerSide, WorkerStep

\* Calls and connections at rest keep what they rely on, since tickets stay consumed.
LEMMA TicketCallStaysOK ==
  ASSUME TicketsGrow, NEW m \in wire, TicketCallOK(m) PROVE TicketCallOK(m)'
<1>1. CASE m.call \in ConnCalls BY <1>1 DEF TicketCallOK, TicketsGrow
<1> QED BY <1>1 DEF TicketCallOK

LEMMA ConnStaysOK ==
  ASSUME TicketsGrow, NEW c \in Conns, ConnOK(c), conn'[c] = conn[c] PROVE ConnOK(c)'
<1>1. CASE conn[c].pc # "idle" BY <1>1 DEF ConnOK, TicketsGrow, Admitted
<1> QED BY <1>1 DEF ConnOK, Admitted

\* A step of a connection: it changes its own state and the marker, and calls.
LEMMA ConnSideMoves ==
  ASSUME RowsOK, ProcessesOK, ConnsOK, NEW c \in Conns, ConnSide(c)
  PROVE  /\ conn' \in [Conns -> Connection] /\ volume' \in Volume /\ volume'.key = volume.key
         /\ spent' \in [keys : 0..MaxKeys, trusts : Nat, faults : Nat]
         /\ \A d \in Conns : d # c => conn'[d] = conn[d]
         /\ \/ wire' = wire
            \/ \E r \in Message :
                 /\ wire' = wire \cup {r} /\ r.call \in ConnCalls /\ r.from = c
                 /\ r.id = conn'[c].ticket /\ conn'[c].pc = r.call
                 /\ r.call = "candidate" => r.key \in HostKeys
                 /\ r.call = "closed" => conn[c].pc = "closing"
                 /\ r.call = "consume" => r.id \in DOMAIN tickets
         /\ \/ conn'[c] = NoConn
            \/ /\ conn[c].pc = "idle" /\ conn'[c].pc = "consume" /\ conn'[c].missed = 0
               /\ conn'[c].ticket \in DOMAIN tickets /\ conn'[c].gateway \in Gateways
            \/ /\ Admitted(c) /\ conn[c].pc # "closed" /\ conn'[c].pc \notin {"consume", "idle"}
               /\ conn'[c].ticket = conn[c].ticket /\ conn'[c].gateway = conn[c].gateway
               /\ Bridged(c)' => Bridged(c)
               /\ conn'[c].missed = conn[c].missed \/ conn'[c].missed < MaxMissed
<1>1. /\ conn \in [Conns -> Connection] /\ wire \subseteq Message /\ volume \in Volume /\ server \in HostKeys
      /\ spent \in [keys : 0..MaxKeys, trusts : Nat, faults : Nat]
  BY DEF ProcessesOK
<1>2. /\ conn[c] \in Connection /\ conn[c].missed \in Nat /\ conn[c].ticket \in Nat /\ NoConn \in Connection
  BY ConnTypes
<1>3. Admitted(c) => conn[c].gateway \in Gateways BY DEF ConnsOK, ConnOK, Admitted
\* A connection that changes its pc alone.
<1>4. ASSUME NEW pc \in {"checking", "checked", "marking", "closing", "candidate", "invalid", "connected",
                         "heartbeat", "closed"},
             conn' = [conn EXCEPT ![c].pc = pc]
      PROVE  /\ conn' \in [Conns -> Connection] /\ \A d \in Conns : d # c => conn'[d] = conn[d]
             /\ conn'[c].pc = pc /\ conn'[c].ticket = conn[c].ticket
             /\ conn'[c].gateway = conn[c].gateway /\ conn'[c].missed = conn[c].missed
  <2>1. [conn[c] EXCEPT !.pc = pc] \in Connection BY <1>2 DEF Connection, ConnCalls
  <2> QED BY <1>1, <1>2, <1>4, <2>1 DEF Connection
<1>5. ASSUME NEW x \in Connection, conn' = [conn EXCEPT ![c] = x]
      PROVE  /\ conn' \in [Conns -> Connection] /\ \A d \in Conns : d # c => conn'[d] = conn[d]
             /\ conn'[c] = x
  BY <1>1, <1>5
\* A terminal on its way to its end.
<1>6. ASSUME conn' = [conn EXCEPT ![c] = [conn[c] EXCEPT !.pc = "closing", !.missed = 0]]
       PROVE  /\ conn' \in [Conns -> Connection] /\ \A d \in Conns : d # c => conn'[d] = conn[d]
              /\ conn'[c].pc = "closing" /\ conn'[c].ticket = conn[c].ticket
              /\ conn'[c].gateway = conn[c].gateway /\ conn'[c].missed < MaxMissed
  <2> DEFINE x == [conn[c] EXCEPT !.pc = "closing", !.missed = 0]
  <2>1. x \in Connection /\ x.pc = "closing" /\ x.missed = 0 /\ x.ticket = conn[c].ticket
        /\ x.gateway = conn[c].gateway
    BY <1>2 DEF Connection
  <2>2. conn' = [conn EXCEPT ![c] = x] BY <1>6
  <2> HIDE DEF x
  <2> QED BY <1>1, <2>1, <2>2, SshAssumption
\* A call that leaves.
<1>7. ASSUME NEW name \in ConnCalls \ {"consume"}, NEW key \in HostKeys \cup {None}, SendConn(c, name, key),
             Admitted(c), name = "candidate" => key \in HostKeys,
             name = "closed" => conn[c].pc = "closing"
      PROVE  /\ conn' = [conn EXCEPT ![c].pc = name] /\ name \in {"candidate", "invalid", "connected", "heartbeat", "closed"}
             /\ \E r \in Message :
                  /\ wire' = wire \cup {r} /\ r.call \in ConnCalls /\ r.from = c
                  /\ r.id = conn[c].ticket /\ r.call = name
                  /\ r.call = "candidate" => r.key \in HostKeys
                  /\ r.call = "closed" => conn[c].pc = "closing"
  BY <1>3, <1>7, ConnSends DEF ConnCalls
<1>8. CASE ProbeHostKey(c)
  <2>1. conn[c].pc = "granted" /\ Admitted(c) /\ UNCHANGED <<volume, spent>>
    BY <1>8 DEF ProbeHostKey, Admitted
  <2>2. CASE SendConn(c, "candidate", server)
    <3>1. conn' = [conn EXCEPT ![c].pc = "candidate"] BY <1>1, <1>7, <2>1, <2>2 DEF ConnCalls
    <3> QED BY <1>1, <1>4, <1>7, <2>1, <2>2, <3>1 DEF Bridged, ConnCalls
  <2>3. CASE Goto(c, "checking") /\ UNCHANGED wire
    BY <1>1, <1>4, <2>1, <2>3 DEF Goto, Bridged
  <2> QED BY <1>8, <2>2, <2>3 DEF ProbeHostKey
<1>9. CASE ValidateIdentityBinding(c)
  <2>1. conn[c].pc = "checking" /\ Admitted(c) /\ UNCHANGED wire
        /\ spent' \in [keys : 0..MaxKeys, trusts : Nat, faults : Nat]
    <3>1. \/ spent' = spent
          \/ spent' = [spent EXCEPT !.faults = IF volume.key = conn[c].key THEN @ + 1 ELSE @]
      BY <1>9 DEF ValidateIdentityBinding
    <3>2. spent' \in [keys : 0..MaxKeys, trusts : Nat, faults : Nat] BY <1>1, <3>1
    <3> QED BY <1>9, <3>2 DEF ValidateIdentityBinding, Admitted
  <2>2. CASE Goto(c, "checked") /\ UNCHANGED volume BY <1>1, <1>4, <2>1, <2>2 DEF Goto, Bridged
  <2>3. CASE Goto(c, "marking") /\ volume' = [volume EXCEPT !.marker = @ \/ volume.key # None]
    <3>1. volume.marker \in BOOLEAN BY <1>1 DEF Volume
    <3>2. volume' \in Volume /\ volume'.key = volume.key BY <1>1, <2>3, <3>1 DEF Volume
    <3> QED BY <1>1, <1>4, <2>1, <2>3, <3>2 DEF Goto, Bridged
  <2> QED BY <1>9, <2>2, <2>3 DEF ValidateIdentityBinding
<1>10. CASE MarkIdentityForRotation(c)
  <2>1. conn[c].pc = "marking" /\ Admitted(c) /\ UNCHANGED spent /\ SendConn(c, "invalid", None)
        /\ volume' = [volume EXCEPT !.marker = @ \/ volume.dir]
    BY <1>10 DEF MarkIdentityForRotation, Admitted
  <2>2. volume' \in Volume /\ volume'.key = volume.key
    <3>1. volume.marker \in BOOLEAN /\ volume.dir \in BOOLEAN BY <1>1 DEF Volume
    <3> QED BY <1>1, <2>1, <3>1 DEF Volume
  <2>3. conn' = [conn EXCEPT ![c].pc = "invalid"] BY <1>7, <2>1 DEF ConnCalls
  <2> QED BY <1>1, <1>4, <1>7, <2>1, <2>2, <2>3 DEF Bridged, ConnCalls
<1>11. CASE SpawnTerminal(c)
  <2>1. conn[c].pc = "checked" /\ Admitted(c) /\ UNCHANGED <<volume, spent>> /\ SendConn(c, "connected", None)
    BY <1>11 DEF SpawnTerminal, Admitted
  <2>2. conn' = [conn EXCEPT ![c].pc = "connected"] BY <1>7, <2>1 DEF ConnCalls
  <2> QED BY <1>1, <1>4, <1>7, <2>1, <2>2 DEF Bridged, ConnCalls
<1>12. CASE Heartbeat(c)
  <2>1. conn[c].pc = "bridging" /\ Admitted(c) /\ UNCHANGED <<volume, spent>> /\ SendConn(c, "heartbeat", None)
    BY <1>12 DEF Heartbeat, Admitted
  <2>2. conn' = [conn EXCEPT ![c].pc = "heartbeat"] BY <1>7, <2>1 DEF ConnCalls
  <2> QED BY <1>1, <1>4, <1>7, <2>1, <2>2 DEF Bridged, ConnCalls
<1>13. CASE CloseReport(c)
  <2>1. conn[c].pc = "closing" /\ Admitted(c) /\ UNCHANGED <<volume, spent>> /\ SendConn(c, "closed", None)
    BY <1>13 DEF CloseReport, Admitted
  <2>2. conn' = [conn EXCEPT ![c].pc = "closed"] BY <1>7, <2>1 DEF ConnCalls
  <2> QED BY <1>1, <1>4, <1>7, <2>1, <2>2 DEF Bridged, ConnCalls
<1>14. CASE Abandon(c)
  <2>1. Admitted(c) /\ conn[c].pc # "closed" /\ UNCHANGED <<wire, volume, spent>> BY <1>14 DEF Abandon, Admitted
  <2>2. CASE conn' = [conn EXCEPT ![c] = NoConn] BY <1>1, <1>2, <1>5, <2>1, <2>2
  <2>3. CASE conn' = [conn EXCEPT ![c] = [@ EXCEPT !.pc = "closing", !.missed = 0]]
    <3>1. conn' = [conn EXCEPT ![c] = [conn[c] EXCEPT !.pc = "closing", !.missed = 0]] BY <2>3
    <3> QED BY <1>1, <1>6, <2>1, <3>1 DEF Bridged
  <2> QED BY <1>14, <2>2, <2>3 DEF Abandon
<1>15. CASE ConnGivesUp(c)
  <2>1. UNCHANGED <<wire, volume>> /\ conn[c].pc \in ConnCalls BY <1>15 DEF ConnGivesUp
  <2>2. spent' \in [keys : 0..MaxKeys, trusts : Nat, faults : Nat] BY <1>1, <1>15 DEF ConnGivesUp
  <2>3. CASE conn' = [conn EXCEPT ![c] = NoConn] BY <1>1, <1>2, <1>5, <2>1, <2>2, <2>3
  <2>4. CASE conn' = [conn EXCEPT ![c] = [conn[c] EXCEPT !.pc = "closing"]] /\ conn[c].pc \notin {"consume", "closed"}
    <3>1. [conn[c] EXCEPT !.pc = "closing"] \in Connection BY <1>2 DEF Connection
    <3> QED BY <1>1, <1>2, <1>5, <2>1, <2>2, <2>4, <3>1 DEF Bridged, Connection, Admitted, ConnCalls
  <2>5. CASE conn[c].pc = "heartbeat" /\ conn' = [conn EXCEPT ![c] = Missed(c)]
    <3>1. CASE conn[c].missed + 1 >= MaxMissed
      <4>1. conn' = [conn EXCEPT ![c] = [conn[c] EXCEPT !.pc = "closing", !.missed = 0]]
        BY <2>5, <3>1 DEF Missed
      <4> QED BY <1>1, <1>6, <2>1, <2>2, <2>5, <4>1 DEF Bridged, Admitted
    <3>2. CASE ~(conn[c].missed + 1 >= MaxMissed)
      <4>1. PICK n \in Nat : n = conn[c].missed + 1 /\ n < MaxMissed BY <1>2, <3>2, SshAssumption
      <4> DEFINE x == [conn[c] EXCEPT !.pc = "bridging", !.missed = n]
      <4>2. x \in Connection /\ x.pc = "bridging" /\ x.missed = n /\ x.ticket = conn[c].ticket
            /\ x.gateway = conn[c].gateway
        BY <1>2 DEF Connection
      <4>3. conn' = [conn EXCEPT ![c] = x] BY <2>5, <3>2, <4>1 DEF Missed
      <4> HIDE DEF x
      <4> QED BY <1>1, <1>5, <2>1, <2>2, <2>5, <4>1, <4>2, <4>3 DEF Bridged, Admitted
    <3> QED BY <3>1, <3>2
  <2> QED BY <1>15, <2>1, <2>3, <2>4, <2>5 DEF ConnGivesUp, ConnCalls
<1>16. CASE \E t \in DOMAIN tickets, g \in Gateways : Present(c, t, g)
  <2>1. PICK t \in DOMAIN tickets, g \in Gateways : Present(c, t, g) BY <1>16
  <2> DEFINE x == [NoConn EXCEPT !.pc = "consume", !.gateway = g, !.ticket = t]
             r == Call("consume", c, g, t)
  <2>2. t \in Nat BY LenProperties DEF RowsOK
  <2>3. x \in Connection /\ x.pc = "consume" /\ x.missed = 0 /\ x.gateway = g /\ x.ticket = t
    BY <2>2 DEF NoConn, Connection, ConnCalls
  <2>4. r \in Message /\ r.call = "consume" /\ r.from = c /\ r.id = t
    BY <2>2 DEF Call, Message, ConnCalls
  <2>5. /\ conn[c].pc = "idle" /\ wire' = wire \cup {r} /\ conn' = [conn EXCEPT ![c] = x]
        /\ UNCHANGED <<volume, spent>>
    BY <2>1 DEF Present
  <2> HIDE DEF x, r
  <2> QED BY <1>1, <1>5, <2>3, <2>4, <2>5 DEF ConnCalls
<1> QED
  BY <1>8, <1>9, <1>10, <1>11, <1>12, <1>13, <1>14, <1>15, <1>16 DEF ConnSide, ConnStep

\* How the answer to a call changes its connection.
Heard(m) ==
    \A c \in Conns :
        \/ conn'[c] = conn[c]
        \/ /\ c = m.from /\ conn[c].pc = m.call /\ conn[c].ticket = m.id
           /\ \/ conn'[c] = NoConn
              \/ /\ conn'[c].ticket = conn[c].ticket /\ conn'[c].gateway = conn[c].gateway
                 /\ \/ /\ m.call = "consume" /\ MayConsume(m.id) /\ ConsumeTicket(m)
                       /\ conn'[c].pc = "granted" /\ conn'[c].missed = conn[c].missed
                    \/ /\ m.call \in {"candidate", "invalid", "connected", "heartbeat"}
                       /\ conn'[c].pc = "closing"
                       /\ conn'[c].missed = conn[c].missed \/ conn'[c].missed = 0
                    \/ /\ m.call = "connected" /\ Authorised(m.id) /\ session[m.id].state = "connecting"
                       /\ session' = [session EXCEPT ![m.id].state = "active", ![m.id].silent = FALSE]
                       /\ conn'[c].pc = "bridging" /\ conn'[c].missed = conn[c].missed
                    \/ /\ m.call = "heartbeat" /\ conn'[c].pc = "bridging" /\ conn'[c].missed = 0

LEMMA ConnAnswered ==
  ASSUME WellFormed, NEW m \in wire, Serve(m)
  PROVE  Heard(m) /\ conn' \in [Conns -> Connection]
<1>1. RowsOK /\ OperationsOK /\ ProcessesOK /\ conn \in [Conns -> Connection]
  BY DEF WellFormed, TypeOK, ProcessesOK
<1>2. ASSUME NEW x \in Connection, AnswerConn(m, x)
      PROVE  /\ conn' \in [Conns -> Connection]
             /\ \A c \in Conns :
                  \/ conn'[c] = conn[c]
                  \/ /\ c = m.from /\ conn[c].pc = m.call /\ conn[c].ticket = m.id
                     /\ conn'[c] = x
  <2>1. CASE conn' = conn BY <1>1, <2>1
  <2>2. CASE ConnWaits(m) /\ conn' = [conn EXCEPT ![m.from] = x]
    <3>1. \A c \in Conns : conn'[c] = IF c = m.from THEN x ELSE conn[c] BY <1>1, <2>2
    <3>2. conn' \in [Conns -> Connection] BY <1>1, <1>2, <2>2
    <3> QED BY <2>2, <3>1, <3>2 DEF ConnWaits, ConnOf
  <2> QED BY <1>2, <2>1, <2>2 DEF AnswerConn
<1>3. NoConn \in Connection BY DEF NoConn, Connection
<1>4. CASE UNCHANGED conn BY <1>1, <1>4 DEF Heard
<1>5. ASSUME m.from \in Conns, m.call \in ConnCalls
      PROVE  Heard(m) /\ conn' \in [Conns -> Connection]
  <2> DEFINE c == m.from
             closing == [conn[c] EXCEPT !.pc = "closing"]
             ended   == [conn[c] EXCEPT !.pc = "closing", !.missed = 0]
             running == [conn[c] EXCEPT !.pc = "bridging"]
             renewed == [conn[c] EXCEPT !.pc = "bridging", !.missed = 0]
             granted == [conn[c] EXCEPT !.pc = "granted", !.key = host.key, !.trusted = host.trusted]
  <2>1. conn[c] \in Connection BY <1>1, <1>5
  <2>2. /\ closing \in Connection /\ closing.pc = "closing" /\ closing.missed = conn[c].missed
        /\ closing.ticket = conn[c].ticket /\ closing.gateway = conn[c].gateway
    BY <2>1 DEF Connection
  <2>3. /\ ended \in Connection /\ ended.pc = "closing" /\ ended.missed = 0
        /\ ended.ticket = conn[c].ticket /\ ended.gateway = conn[c].gateway
    BY <2>1 DEF Connection
  <2>4. /\ running \in Connection /\ running.pc = "bridging" /\ running.missed = conn[c].missed
        /\ running.ticket = conn[c].ticket /\ running.gateway = conn[c].gateway
    BY <2>1 DEF Connection
  <2>5. /\ renewed \in Connection /\ renewed.pc = "bridging" /\ renewed.missed = 0
        /\ renewed.ticket = conn[c].ticket /\ renewed.gateway = conn[c].gateway
    BY <2>1 DEF Connection
  <2>6. /\ granted \in Connection /\ granted.pc = "granted" /\ granted.missed = conn[c].missed
        /\ granted.ticket = conn[c].ticket /\ granted.gateway = conn[c].gateway
    <3>1. host.key \in Key \cup {None} /\ host.trusted \in HostKeys \cup {None}
      BY <1>1, HostTypes DEF Host
    <3> QED BY <2>1, <3>1 DEF Connection
  <2> HIDE DEF closing, ended, running, renewed, granted
  <2>7. ASSUME AnswerConn(m, NoConn) PROVE Heard(m) /\ conn' \in [Conns -> Connection]
    BY <1>2, <1>3, <2>7 DEF Heard
  <2>8. ASSUME AnswerConn(m, closing), m.call \in {"candidate", "invalid", "connected", "heartbeat"}
        PROVE  Heard(m) /\ conn' \in [Conns -> Connection]
    BY <1>2, <2>2, <2>8 DEF Heard
  <2>9. CASE m.call = "consume" /\ ConsumeTicket(m)
    <3>1. CASE MayConsume(m.id) /\ AnswerConn(m, granted) BY <1>2, <2>6, <2>9, <3>1 DEF Heard
    <3> QED BY <2>7, <2>9, <3>1 DEF ConsumeTicket, ConnOf, granted
  <2>10. CASE m.call = "candidate" /\ ReportHostKeyCandidate(m)
    BY <2>7, <2>8, <2>10 DEF ReportHostKeyCandidate, AfterReport, ConnOf, closing
  <2>11. CASE m.call = "invalid" /\ ReportIdentityInvalid(m)
    BY <2>8, <2>11 DEF ReportIdentityInvalid, ConnOf, closing
  <2>12. CASE m.call = "connected" /\ SessionConnected(m)
    <3>1. CASE /\ Authorised(m.id) /\ session[m.id].state = "connecting"
               /\ session' = [session EXCEPT ![m.id].state = "active", ![m.id].silent = FALSE]
               /\ AnswerConn(m, running)
      BY <1>2, <2>4, <2>12, <3>1 DEF Heard
    <3> QED BY <2>8, <2>12, <3>1 DEF SessionConnected, ConnOf, closing, running
  <2>13. CASE m.call = "heartbeat" /\ SessionHeartbeat(m)
    <3>1. CASE AnswerConn(m, renewed) BY <1>2, <2>5, <2>13, <3>1 DEF Heard
    <3>2. CASE AnswerConn(m, ended) BY <1>2, <2>3, <2>13, <3>2 DEF Heard
    <3> QED BY <2>13, <3>1, <3>2 DEF SessionHeartbeat, ConnOf, renewed, ended
  <2>14. CASE m.call = "closed" /\ SessionClosed(m) BY <2>7, <2>14 DEF SessionClosed
  <2> QED BY <1>5, <2>9, <2>10, <2>11, <2>12, <2>13, <2>14, <1>4 DEF Serve
<1>6. m.call \in ConnCalls => m.from \in Conns BY <1>1, WireTypes
<1> QED BY <1>4, <1>5, <1>6, ServeFrame

\* Serving a call.
LEMMA ServeKeeps ==
  ASSUME WellFormed, Kept, TicketsGrow, NEW m \in wire, Serve(m)
  PROVE  ProcessesOK' /\ CallsOK' /\ WorkersOK' /\ ConnsOK'
<1>1. TypeOK /\ RowsOK /\ ProcessesOK /\ CallsOK /\ WorkersOK /\ ConnsOK BY DEF WellFormed, TypeOK
<1>2. /\ wire' = wire \ {m} /\ UNCHANGED <<browser, volume, lock, up, server, spent>>
      /\ Answered(m) /\ worker' \in [Gateways -> Worker]
      /\ Heard(m) /\ conn' \in [Conns -> Connection]
  BY ServeFrame, WorkerAnswered, ConnAnswered
<1>3. ProcessesOK' BY <1>1, <1>2 DEF ProcessesOK
<1>4. CallsOK' BY <1>1, <1>2, CallsFrame
<1>5. ASSUME NEW g \in Gateways PROVE WorkerOK(g)'
  <2>1. /\ WorkerOK(g) /\ worker[g] \in Worker /\ worker[g].token \in Nat BY <1>1, WorkerTypes DEF WorkersOK
  <2>2. CASE worker'[g] = worker[g] BY <1>1, <1>2, <2>1, <2>2, WorkerStaysOK
  <2>3. CASE worker'[g] = RestingWorker BY <2>3 DEF WorkerOK, Claimant, Holder, RestingWorker
  <2>4. ASSUME NEW i \in DOMAIN ops, ops'[i].token = ops[i].token + 1,
               worker'[g] = [pc |-> "locking", op |-> i, token |-> ops'[i].token, key |-> None]
        PROVE  WorkerOK(g)'
    <3>1. i \in DOMAIN ops' /\ ops[i].token \in Nat BY <1>1, RowTypes DEF Kept, Grows, Operation
    <3> QED BY <2>4, <3>1 DEF WorkerOK, Claimant, Holder, OperationOf
  <2>5. ASSUME NEW pc \in {"working", "releasing"}, worker[g].pc = "proceed",
               worker'[g] = [worker[g] EXCEPT !.pc = pc]
        PROVE  WorkerOK(g)'
    <3>1. /\ worker[g].op \in DOMAIN ops /\ worker[g].token <= ops[worker[g].op].token /\ lock = g
      BY <2>1, <2>5 DEF WorkerOK, Claimant, Holder, OperationOf
    <3>2. worker[g].op \in DOMAIN ops' /\ worker[g].token <= ops'[worker[g].op].token
      BY <1>1, <2>1, <3>1, OperationsGrown
    <3>3. worker'[g].pc = pc /\ worker'[g].op = worker[g].op /\ worker'[g].token = worker[g].token
      BY <2>1, <2>5 DEF Worker
    <3> QED BY <1>2, <2>5, <3>1, <3>2, <3>3 DEF WorkerOK, OperationOf
  <2>6. ASSUME worker[g].pc = "complete", worker'[g] = [worker[g] EXCEPT !.pc = "failing"]
        PROVE  WorkerOK(g)'
    <3>1. /\ worker[g].op \in DOMAIN ops /\ worker[g].token <= ops[worker[g].op].token
      BY <2>1, <2>6 DEF WorkerOK, Claimant, OperationOf
    <3>2. worker[g].op \in DOMAIN ops' /\ worker[g].token <= ops'[worker[g].op].token
      BY <1>1, <2>1, <3>1, OperationsGrown
    <3>3. worker'[g].pc = "failing" /\ worker'[g].op = worker[g].op /\ worker'[g].token = worker[g].token
      BY <2>1, <2>6 DEF Worker
    <3> QED BY <3>2, <3>3 DEF WorkerOK, OperationOf, Holder
  <2> QED BY <1>2, <2>2, <2>3, <2>4, <2>5, <2>6 DEF Answered
<1>6. ASSUME NEW c \in Conns PROVE ConnOK(c)'
  <2>1. ConnOK(c) BY <1>1 DEF ConnsOK
  <2>2. CASE conn'[c] = conn[c] BY <2>1, <2>2, ConnStaysOK
  <2>3. CASE conn'[c] = NoConn BY <2>3 DEF ConnOK, NoConn, Admitted
  <2>4. CASE /\ conn[c].pc = m.call /\ conn[c].ticket = m.id
             /\ conn'[c].ticket = conn[c].ticket /\ conn'[c].gateway = conn[c].gateway
             /\ m.call = "consume" /\ MayConsume(m.id) /\ ConsumeTicket(m)
    <3>1. /\ conn[c].ticket \in DOMAIN tickets /\ conn[c].gateway \in Gateways /\ m \in Message
      BY <1>1, <2>1, <2>4, WireTypes DEF ConnOK
    <3>2. tickets'[m.id].state = "consumed" /\ DOMAIN tickets' = DOMAIN tickets
      BY <1>1, <2>4, <3>1, Consuming DEF WellFormed
    <3> QED BY <2>4, <3>1, <3>2 DEF ConnOK, Admitted
  <2>5. CASE /\ conn[c].pc \in {"candidate", "invalid", "connected", "heartbeat"}
             /\ conn'[c].ticket = conn[c].ticket /\ conn'[c].gateway = conn[c].gateway
    BY <2>1, <2>5 DEF ConnOK, Admitted, TicketsGrow
  <2> QED BY <1>2, <2>2, <2>3, <2>4, <2>5 DEF Heard
<1>7. ConnsOK' BY <1>1, <1>2, <1>6, TicketCallStaysOK DEF ConnsOK
<1> QED BY <1>3, <1>4, <1>5, <1>7 DEF WorkersOK

\* What the worker of g puts on the wire.
LEMMA WorkerSideCalls ==
  ASSUME NEW g \in Gateways, WorkerSide(g), NEW m \in wire', m \notin wire
  PROVE  m.call \in WorkerCalls
<1>1. ASSUME NEW name \in WorkerCalls, NEW op, NEW token, NEW key, SendWorker(g, name, op, token, key)
      PROVE  m.call \in WorkerCalls
  BY <1>1 DEF SendWorker, Call
<1>2. CASE wire' = wire BY <1>2
<1> QED BY <1>1, <1>2
        DEF WorkerSide, WorkerStep, WorkFails, WorkerGivesUp, Claim, AcquireLock, ReleaseLock,
            GenerateIdentity, PublishKeys, RemoveMarker, DeleteIdentity, ReportFailure, WorkerCalls

LEMMA ConnSideKeeps ==
  ASSUME WellFormed, Kept, TicketsGrow, NEW c \in Conns, ConnSide(c)
  PROVE  ProcessesOK' /\ CallsOK' /\ WorkersOK' /\ ConnsOK'
<1>1. /\ TypeOK /\ RowsOK /\ ProcessesOK /\ CallsOK /\ WorkersOK /\ ConnsOK
      /\ UNCHANGED <<api, browser, worker, up, server, lock>>
  BY ConnSideFrame DEF WellFormed, TypeOK
<1>2. /\ conn' \in [Conns -> Connection] /\ volume' \in Volume /\ volume'.key = volume.key
      /\ spent' \in [keys : 0..MaxKeys, trusts : Nat, faults : Nat]
      /\ \A d \in Conns : d # c => conn'[d] = conn[d]
  BY <1>1, ConnSideMoves
<1>3. ConnOK(c)'
  <2>1. ConnOK(c) BY <1>1 DEF ConnsOK
  <2>2. \/ conn'[c] = NoConn
        \/ /\ conn'[c].pc = "consume"
           /\ conn'[c].ticket \in DOMAIN tickets /\ conn'[c].gateway \in Gateways
        \/ /\ Admitted(c) /\ conn'[c].pc \notin {"consume", "idle"}
           /\ conn'[c].ticket = conn[c].ticket /\ conn'[c].gateway = conn[c].gateway
    BY <1>1, ConnSideMoves
  <2> QED BY <2>1, <2>2 DEF ConnOK, Admitted, NoConn, TicketsGrow
<1>4. \A d \in Conns : ConnOK(d)' BY <1>1, <1>2, <1>3, ConnStaysOK DEF ConnsOK
<1>5. WorkersOK' BY <1>1, <1>2, WorkerStaysOK DEF WorkersOK
<1>6. CASE wire' = wire
  <2>1. CallsOK' BY <1>1, <1>6, CallsFrame
  <2>2. ConnsOK' BY <1>1, <1>4, <1>6, TicketCallStaysOK DEF ConnsOK
  <2> QED BY <1>1, <1>2, <1>5, <1>6, <2>1, <2>2 DEF ProcessesOK
<1>7. ASSUME NEW r \in Message, wire' = wire \cup {r}, r.call \in ConnCalls,
             r.id = conn'[c].ticket, conn'[c].pc = r.call,
             r.call = "candidate" => r.key \in HostKeys
      PROVE  ProcessesOK' /\ CallsOK' /\ ConnsOK'
  <2>1. CallOK(r)' BY <1>7 DEF CallOK, ConnCalls
  <2>2. CallsOK' BY <1>1, <1>7, <2>1, CallsSent
  <2>3. TicketCallOK(r)' BY <1>3, <1>7 DEF TicketCallOK, ConnOK, Admitted, ConnCalls
  <2>4. ConnsOK' BY <1>1, <1>4, <1>7, <2>3, TicketCallStaysOK DEF ConnsOK
  <2> QED BY <1>1, <1>2, <1>7, <2>2, <2>4 DEF ProcessesOK
<1>8. \/ wire' = wire
      \/ \E r \in Message : /\ wire' = wire \cup {r} /\ r.call \in ConnCalls
                            /\ r.id = conn'[c].ticket /\ conn'[c].pc = r.call
                            /\ r.call = "candidate" => r.key \in HostKeys
  BY <1>1, ConnSideMoves
<1> QED BY <1>5, <1>6, <1>7, <1>8

LEMMA CrashKeeps ==
  ASSUME WellFormed, Kept, TicketsGrow, NEW g \in Gateways, Crash(g)
  PROVE  /\ ProcessesOK' /\ CallsOK' /\ WorkersOK' /\ ConnsOK'
         /\ \A h \in Gateways : worker'[h] = worker[h] \/ worker'[h] = RestingWorker
         /\ \A c \in Conns : conn'[c] = conn[c] \/ conn'[c] = NoConn
<1>1. /\ TypeOK /\ RowsOK /\ ProcessesOK /\ CallsOK /\ WorkersOK /\ ConnsOK
      /\ worker \in [Gateways -> Worker] /\ conn \in [Conns -> Connection]
      /\ lock \in Gateways \cup {None}
      /\ spent \in [keys : 0..MaxKeys, trusts : Nat, faults : Nat]
  BY DEF WellFormed, TypeOK, ProcessesOK
<1>2. RestingWorker \in Worker /\ NoConn \in Connection BY DEF RestingWorker, Worker, NoConn, Connection
<1>3. /\ up' = up \ {g} /\ spent' = [spent EXCEPT !.faults = @ + 1]
      /\ worker' = [worker EXCEPT ![g] = RestingWorker]
      /\ conn' = [c \in Conns |-> IF conn[c].gateway = g THEN NoConn ELSE conn[c]]
      /\ lock' = IF lock = g THEN None ELSE lock
      /\ UNCHANGED <<api, browser, wire, volume, server>>
  BY DEF Crash
<1>4. /\ worker' \in [Gateways -> Worker] /\ worker'[g] = RestingWorker
      /\ \A h \in Gateways : h # g => worker'[h] = worker[h]
  BY <1>1, <1>2, <1>3
<1>5. /\ conn' \in [Conns -> Connection]
      /\ \A c \in Conns : conn'[c] = conn[c] \/ conn'[c] = NoConn
  BY <1>1, <1>2, <1>3
<1>6. spent' \in [keys : 0..MaxKeys, trusts : Nat, faults : Nat] BY <1>1, <1>3
<1>7. ProcessesOK' BY <1>1, <1>3, <1>4, <1>5, <1>6 DEF ProcessesOK
<1>8. CallsOK' BY <1>1, <1>3, CallsFrame
<1>9. ASSUME NEW h \in Gateways PROVE WorkerOK(h)'
  <2>1. CASE h = g BY <1>4, <2>1 DEF WorkerOK, Claimant, Holder, RestingWorker
  <2>2. CASE h # g
    <3>1. WorkerOK(h) BY <1>1 DEF WorkersOK
    <3>2. Holder(h) => lock' = lock BY <1>3, <2>2, <3>1 DEF WorkerOK
    <3> QED BY <1>1, <1>3, <1>4, <2>2, <3>1, <3>2, WorkerStaysOK
  <2> QED BY <2>1, <2>2
<1>10. ASSUME NEW c \in Conns PROVE ConnOK(c)'
  <2>1. CASE conn'[c] = conn[c] BY <1>1, <2>1, ConnStaysOK DEF ConnsOK
  <2>2. CASE conn'[c] = NoConn BY <2>2 DEF ConnOK, NoConn, Admitted
  <2> QED BY <1>5, <2>1, <2>2
<1>11. ConnsOK' BY <1>1, <1>3, <1>10, TicketCallStaysOK DEF ConnsOK
<1> QED BY <1>4, <1>5, <1>7, <1>8, <1>9, <1>11 DEF WorkersOK

\* Steps after which workers and connections rest.
LEMMA RestKeeps ==
  ASSUME WellFormed, Kept, TicketsGrow, UNCHANGED <<wire, worker, conn, lock>>, ProcessesOK',
         lock = None \/ volume'.key = volume.key
  PROVE  ProcessesOK' /\ CallsOK' /\ WorkersOK' /\ ConnsOK'
<1>1. TypeOK /\ CallsOK /\ WorkersOK /\ ConnsOK BY DEF WellFormed
<1>2. lock = None => \A g \in Gateways : ~Holder(g) BY <1>1, OneHolder
<1>3. WorkersOK' BY <1>1, <1>2, WorkerStaysOK DEF WorkersOK
<1>4. CallsOK' BY <1>1, CallsFrame
<1>5. ConnsOK' BY <1>1, ConnStaysOK, TicketCallStaysOK DEF ConnsOK
<1> QED BY <1>3, <1>4, <1>5

LEMMA RowStepTypes ==
  ASSUME ProcessesOK, RowStep PROVE ProcessesOK'
<1>1. UNCHANGED <<wire, gateway, server>> BY RowStepFrame
<1>2. browser' \subseteq browser
  BY DEF RowStep, DeleteHost, RetryIdentity, TrustHostKey, BrowserSessionEnds, IssueTicket,
         TicketExpires, SessionFallsSilent, LeaseLapses
<1>3. spent \in [keys : 0..MaxKeys, trusts : Nat, faults : Nat] BY DEF ProcessesOK
<1>4. \/ spent' = spent \/ spent' = [spent EXCEPT !.trusts = @ + 1]
      \/ \E i \in DOMAIN ops : spent' = [spent EXCEPT !.faults = IF Worked(i) THEN @ + 1 ELSE @]
  BY DEF RowStep, DeleteHost, RetryIdentity, TrustHostKey, BrowserSessionEnds, IssueTicket,
         TicketExpires, SessionFallsSilent, LeaseLapses
<1>5. spent' \in [keys : 0..MaxKeys, trusts : Nat, faults : Nat]
  <2>1. spent.trusts + 1 \in Nat /\ spent.faults \in Nat /\ spent.faults + 1 \in Nat BY <1>3
  <2> QED BY <1>3, <1>4, <2>1
<1> QED BY <1>1, <1>2, <1>5 DEF ProcessesOK, gateway

LEMMA WellFormedStep ==
  ASSUME WellFormed, [Next]_vars
  PROVE  WellFormed'
<1>1. Kept /\ TicketsGrow BY RowsKept, TicketsKept
<1>2. TypeOK /\ ProcessesOK /\ CallsOK /\ WorkersOK /\ ConnsOK BY DEF WellFormed, TypeOK
<1>3. ProcessesOK' /\ CallsOK' /\ WorkersOK' /\ ConnsOK'
  <2>1. CASE RowStep
    <3>1. UNCHANGED <<wire, gateway, server>> BY <2>1, RowStepFrame
    <3> QED BY <1>1, <1>2, <2>1, <3>1, RowStepTypes, RestKeeps DEF gateway
  <2>2. CASE \E m \in wire : Serve(m) BY <1>1, <2>2, ServeKeeps
  <2>3. ASSUME NEW g \in Gateways, WorkerSide(g) PROVE ProcessesOK' /\ CallsOK' /\ WorkersOK' /\ ConnsOK'
    <3>1. ProcessesOK' /\ CallsOK' /\ WorkersOK' BY <2>3, WorkerSideKeeps
    <3>2. UNCHANGED conn BY <2>3, WorkerSideFrame
    <3>3. \A m \in wire' : m \in wire \/ m.call \in WorkerCalls BY <1>2, <2>3, WorkerSideCalls
    <3>4. \A m \in wire' : TicketCallOK(m)'
      BY <1>1, <1>2, <3>3, TicketCallStaysOK DEF ConnsOK, TicketCallOK, WorkerCalls, ConnCalls
    <3> QED BY <1>1, <1>2, <3>1, <3>2, <3>4, ConnStaysOK DEF ConnsOK
  <2>4. CASE \E g \in Gateways : Crash(g) BY <1>1, <2>4, CrashKeeps
  <2>5. CASE \E c \in Conns : ConnSide(c) BY <1>1, <2>5, ConnSideKeeps
  <2>6. CASE VolumeLost
    <3>1. EmptyVolume \in Volume BY DEF EmptyVolume, Volume
    <3>2. spent' \in [keys : 0..MaxKeys, trusts : Nat, faults : Nat] BY <1>2, <2>6 DEF VolumeLost, ProcessesOK
    <3>3. ProcessesOK' BY <1>2, <2>6, <3>1, <3>2 DEF VolumeLost, ProcessesOK
    <3> QED BY <1>1, <2>6, <3>3, RestKeeps DEF VolumeLost
  <2>7. CASE HostKeyChanges
    <3>1. ProcessesOK' BY <1>2, <2>7 DEF HostKeyChanges, ProcessesOK, gateway
    <3> QED BY <1>1, <2>7, <3>1, RestKeeps DEF HostKeyChanges, gateway
  <2>8. CASE UNCHANGED vars
    <3>1. ProcessesOK' BY <1>2, <2>8 DEF vars, ProcessesOK, gateway
    <3> QED BY <1>1, <2>8, <3>1, RestKeeps DEF vars, gateway
  <2> QED BY <2>1, <2>2, <2>3, <2>4, <2>5, <2>6, <2>7, <2>8, StepsByActor
<1> QED BY <1>1, <1>3 DEF WellFormed, TypeOK, Kept

LEMMA InitWellFormed == ASSUME Init PROVE WellFormed
<1> USE DEF Init
<1> DEFINE done == [NewOperation("generate") EXCEPT !.state = "completed", !.token = 1]
<1>1. /\ NewOperation("generate") \in Operation /\ done \in Operation
      /\ NewOperation("generate").kind = "generate" /\ done.kind = "generate" /\ done.state = "completed"
  BY DEF NewOperation, Operation
<1>2. server \in HostKeys /\ server # None /\ 1 \in Key /\ 1 # None BY SshAssumption DEF Key
<1>3. /\ host \in Host /\ ~host.deleted
      /\ host.enabled => ~host.deleted /\ host.identity = "ready" /\ host.trusted # None
      /\ host.key # None <=> host.identity = "ready"
  <2> DEFINE used == [CreatedHost EXCEPT !.identity = "ready", !.key = 1, !.trusted = server,
                                         !.enabled = TRUE, !.revision = 4]
  <2>1. CreatedHost \in Host BY DEF CreatedHost, Host
  <2>2. CASE host = CreatedHost BY <2>1, <2>2 DEF CreatedHost
  <2>3. CASE host = used
    <3>1. /\ used \in Host /\ ~used.deleted /\ used.identity = "ready" /\ used.key = 1
          /\ used.trusted = server
      BY <1>2 DEF CreatedHost, Host
    <3> HIDE DEF used
    <3> QED BY <1>2, <2>3, <3>1
  <2> QED BY <2>2, <2>3
<1>4. \E x \in Operation : ops = <<x>> /\ x.kind = "generate" /\ (OpenOperation(1) => host.identity = "pending")
  <2>1. CASE ops = <<NewOperation("generate")>> /\ host = CreatedHost BY <1>1, <2>1 DEF CreatedHost
  <2>2. CASE ops = <<done>> BY <1>1, <2>2 DEF OpenOperation
  <2> QED BY <2>1, <2>2
<1> HIDE DEF done
<1>5. ops \in Seq(Operation) /\ DOMAIN ops = {1} /\ ops[1].kind = "generate" BY <1>4
<1>6. RowsOK
  <2>1. candidates \subseteq HostKeys BY <1>2
  <2> QED BY <1>3, <1>5, <2>1, SshAssumption DEF RowsOK
<1>7. OperationsOK BY <1>3, <1>4, <1>5 DEF OperationsOK, Generating
<1>8. volume \in Volume /\ spent \in [keys : 0..MaxKeys, trusts : Nat, faults : Nat]
  <2>1. Unspent \in [keys : 0..MaxKeys, trusts : Nat, faults : Nat] /\ EmptyVolume \in Volume
    BY SshAssumption DEF EmptyVolume, Volume, Unspent
  <2>2. [Unspent EXCEPT !.keys = 1] \in [keys : 0..MaxKeys, trusts : Nat, faults : Nat]
    BY <2>1, SshAssumption
  <2>3. [dir |-> TRUE, key |-> 1, marker |-> FALSE] \in Volume BY <1>2 DEF Volume
  <2> QED BY <2>1, <2>2, <2>3
<1>9. RestingWorker \in Worker /\ NoConn \in Connection BY DEF RestingWorker, Worker, NoConn, Connection
<1>10. ProcessesOK BY <1>2, <1>8, <1>9 DEF ProcessesOK
<1>11. CallsOK /\ WorkersOK /\ ConnsOK
  BY DEF CallsOK, WorkersOK, WorkerOK, ConnsOK, ConnOK, Claimant, Holder, Admitted, RestingWorker, NoConn
<1> QED BY <1>6, <1>7, <1>10, <1>11 DEF WellFormed, TypeOK

\* The tables, the processes and the calls between them are well formed, and a host's
\* identity has one open operation of a kind.
THEOREM TypeCorrect == Spec => []TypeOK
<1>1. Init => WellFormed BY InitWellFormed
<1>2. WellFormed /\ [Next]_vars => WellFormed' BY WellFormedStep
<1>3. WellFormed => TypeOK BY DEF WellFormed
<1> QED BY <1>1, <1>2, <1>3, PTL DEF Spec

----------------------------------------------------------------------------
(* Sessions *)

\* The ticket t is consumed for a terminal by this step.
ConsumedNow(t) ==
    \E m \in wire :
        /\ m.call = "consume" /\ m.id = t /\ t \in DOMAIN tickets /\ ConsumeTicket(m) /\ MayConsume(t)
        /\ tickets[t].purpose = "terminal" /\ UNCHANGED <<host, candidates, ops, browser>>
        /\ session'[t].trusted = host.trusted /\ session'[t].revision = host.revision

\* A session that stays open, under the authorization it was opened with.
StaysOpen(t) ==
    /\ t \in DOMAIN session /\ Open(session[t])
    /\ session'[t].trusted = session[t].trusted /\ session'[t].revision = session[t].revision

\* A session keeps its revision unless it is closed for good.
StaysUnder(t) ==
    /\ t \in DOMAIN session /\ session'[t].revision = session[t].revision
    /\ session[t].state = "closed" => session'[t].state = "closed"

Begins(t) == t \notin DOMAIN session /\ session'[t] = NoSession

\* Where sessions come from, and that a decision about the host leaves none open.
SessionsMove ==
    \A t \in DOMAIN session' :
        /\ Open(session'[t]) =>
              /\ StaysOpen(t) \/ ConsumedNow(t)
              /\ host'.deleted = host.deleted /\ host'.enabled = host.enabled
              /\ host'.trusted = host.trusted
        /\ session'[t] = Ended \/ Begins(t) \/ StaysUnder(t) \/ ConsumedNow(t)

LEMMA SessionCallMoves ==
  ASSUME WellFormed, NEW m \in wire, m.id \in DOMAIN tickets,
         SessionConnected(m) \/ SessionHeartbeat(m) \/ SessionClosed(m)
  PROVE  /\ SessionsMove /\ UNCHANGED <<host, candidates, ops, tickets>>
         /\ DOMAIN session' = DOMAIN session
         /\ \A t \in DOMAIN session : t # m.id => session'[t] = session[t]
<1>1. RowsOK /\ session \in Seq(Session) BY DEF WellFormed, TypeOK, RowsOK
<1>2. m.id \in DOMAIN session /\ session[m.id] \in Session BY <1>1, RowTypes
<1>3. UNCHANGED <<host, candidates, ops, tickets>>
  BY DEF SessionConnected, SessionHeartbeat, SessionClosed
<1>4. /\ DOMAIN session' = DOMAIN session
      /\ \A t \in DOMAIN session : t # m.id => session'[t] = session[t]
  BY <1>2 DEF SessionConnected, SessionHeartbeat, SessionClosed
<1>5. Open(session'[m.id]) => StaysOpen(m.id)
  <2>1. CASE session' = session BY <1>2, <2>1 DEF StaysOpen
  <2>2. CASE session'[m.id] = Ended BY <2>2, EndedIsSession
  <2>3. CASE Open(session[m.id]) /\ session' = [session EXCEPT ![m.id].state = "active", ![m.id].silent = FALSE]
    BY <1>2, <2>3 DEF StaysOpen, Session
  <2>4. CASE Open(session[m.id]) /\ session' = [session EXCEPT ![m.id].silent = FALSE]
    BY <1>2, <2>4 DEF StaysOpen, Session
  <2> QED BY <1>2, <2>1, <2>2, <2>3, <2>4
          DEF SessionConnected, SessionHeartbeat, SessionClosed, MayContinue, Open
<1>6. session'[m.id] = Ended \/ StaysUnder(m.id)
  <2>1. CASE session' = session BY <1>2, <2>1 DEF StaysUnder
  <2>2. CASE session'[m.id] = Ended BY <2>2
  <2>3. CASE Open(session[m.id]) /\ session' = [session EXCEPT ![m.id].state = "active", ![m.id].silent = FALSE]
    BY <1>2, <2>3 DEF StaysUnder, Session, Open
  <2>4. CASE Open(session[m.id]) /\ session' = [session EXCEPT ![m.id].silent = FALSE]
    BY <1>2, <2>4 DEF StaysUnder, Session
  <2> QED BY <1>2, <2>1, <2>2, <2>3, <2>4
          DEF SessionConnected, SessionHeartbeat, SessionClosed, MayContinue, Open
<1>7. SessionsMove BY <1>3, <1>4, <1>5, <1>6 DEF SessionsMove, StaysOpen, StaysUnder
<1> QED BY <1>3, <1>4, <1>7

LEMMA SessionsMoved ==
  ASSUME WellFormed, [Next]_vars
  PROVE  SessionsMove
<1>1. RowsOK /\ OperationsOK /\ wire \subseteq Message BY DEF WellFormed, TypeOK, ProcessesOK
<1>2. ASSUME session' = session,
             host'.deleted = host.deleted, host'.enabled = host.enabled, host'.trusted = host.trusted
      PROVE  SessionsMove
  BY <1>2 DEF SessionsMove, StaysOpen, StaysUnder
<1>3. CASE session' = CloseSessions
  <2>1. \A t \in DOMAIN session : session'[t] = Ended \/ StaysUnder(t)
    BY <1>3 DEF CloseSessions, StaysUnder
  <2> QED BY <1>1, <1>3, <2>1, Revoking DEF SessionsMove
<1>4. ASSUME session' = session, UNCHANGED host PROVE SessionsMove BY <1>2, <1>4
<1>5. host \in Host BY <1>1 DEF RowsOK
<1>6. CASE RowStep
  <2>1. CASE DeleteHost \/ \E f \in HostKeys : TrustHostKey(f)
    BY <1>3, <2>1 DEF DeleteHost, TrustHostKey
  <2>2. CASE RetryIdentity
    <3>1. session' = session /\ host' = [host EXCEPT !.identity = "pending", !.revision = @ + 1]
      BY <2>2 DEF RetryIdentity
    <3> QED BY <1>2, <1>5, <3>1 DEF Host
  <2>3. ASSUME NEW a \in Admins, NEW l \in Logins, NEW purpose \in {"probe", "terminal"},
               IssueTicket(a, l, purpose)
        PROVE  SessionsMove
    <3>1. session \in Seq(Session) /\ NoSession \in Session /\ ~Open(NoSession) BY <1>1, EndedIsSession DEF RowsOK
    <3>2. /\ DOMAIN session' = DOMAIN session \cup {Len(session) + 1}
          /\ session'[Len(session) + 1] = NoSession
          /\ \A t \in DOMAIN session : session'[t] = session[t]
          /\ UNCHANGED host /\ Len(session) + 1 \notin DOMAIN session
      BY <2>3, <3>1, RowAppended, LenProperties DEF IssueTicket
    <3> QED BY <3>1, <3>2 DEF SessionsMove, StaysOpen, StaysUnder, Begins
  <2>4. ASSUME NEW t \in DOMAIN tickets, SessionFallsSilent(t) PROVE SessionsMove
    <3>1. t \in DOMAIN session /\ session[t] \in Session BY <1>1, RowTypes
    <3>2. /\ session' = [session EXCEPT ![t] = [session[t] EXCEPT !.silent = TRUE]] /\ UNCHANGED host
      BY <2>4 DEF SessionFallsSilent
    <3>3. /\ DOMAIN session' = DOMAIN session
          /\ \A u \in DOMAIN session :
                /\ session'[u].state = session[u].state /\ session'[u].trusted = session[u].trusted
                /\ session'[u].revision = session[u].revision
      BY <3>1, <3>2 DEF Session
    <3> QED BY <3>2, <3>3 DEF SessionsMove, StaysOpen, StaysUnder, Open
  <2> QED BY <1>4, <1>6, <2>1, <2>2, <2>3, <2>4
          DEF RowStep, BrowserSessionEnds, TicketExpires, LeaseLapses, api
<1>7. ASSUME NEW m \in wire, Serve(m) PROVE SessionsMove
  <2>1. m \in Message /\ (m.call \in ConnCalls => m.id \in DOMAIN tickets)
    BY <1>1 DEF WellFormed, ConnsOK, TicketCallOK
  <2>2. CASE m.call = "claim" /\ ClaimIdentityOperation(m) BY <1>4, <2>2 DEF ClaimIdentityOperation
  <2>3. CASE HeartbeatIdentityOperation(m) BY <1>4, <2>3 DEF HeartbeatIdentityOperation, api
  <2>4. CASE CompleteIdentityOperation(m)
    <3>1. CASE UNCHANGED host BY <1>4, <2>4, <3>1 DEF CompleteIdentityOperation, api
    <3>2. CASE host' = [host EXCEPT !.identity = "ready", !.key = m.key, !.revision = @ + 1] /\ session' = session
      BY <1>2, <1>5, <3>2 DEF Host
    <3> QED BY <2>4, <3>1, <3>2 DEF CompleteIdentityOperation, api
  <2>5. CASE FailIdentityOperation(m)
    <3>1. session' = session BY <2>5 DEF FailIdentityOperation
    <3>2. CASE UNCHANGED host BY <1>4, <3>1, <3>2
    <3>3. CASE host' = [host EXCEPT !.identity = "failed", !.revision = @ + 1]
      BY <1>2, <1>5, <3>1, <3>3 DEF Host
    <3> QED BY <2>5, <3>2, <3>3 DEF FailIdentityOperation
  <2>6. CASE m.call = "consume" /\ ConsumeTicket(m)
    <3>1. m.id \in DOMAIN tickets BY <2>1, <2>6 DEF ConnCalls
    <3>2. CASE ~MayConsume(m.id) BY <1>4, <2>6, <3>2 DEF ConsumeTicket, api
    <3>3. CASE MayConsume(m.id)
      <4>1. /\ UNCHANGED <<host, candidates, ops, browser>> /\ DOMAIN session' = DOMAIN tickets
            /\ tickets[m.id].purpose = "probe" => session' = session
            /\ tickets[m.id].purpose = "terminal" =>
                  /\ \A t \in DOMAIN session : t # m.id => session'[t] = Swept[t]
                  /\ session'[m.id] = [state |-> "connecting", revision |-> host.revision,
                                       trusted |-> host.trusted, silent |-> FALSE]
        BY <1>1, <1>7, <2>1, <2>6, <3>1, <3>3, Consuming, ServeFrame
      <4>2. tickets[m.id].purpose \in {"probe", "terminal"} /\ DOMAIN session = DOMAIN tickets
        BY <1>1, <3>1, RowTypes DEF Ticket
      <4>3. CASE tickets[m.id].purpose = "probe" BY <1>4, <4>1, <4>3
      <4>4. CASE tickets[m.id].purpose = "terminal"
        <5>1. ConsumedNow(m.id) BY <2>6, <3>1, <3>3, <4>1, <4>4 DEF ConsumedNow
        <5>2. \A t \in DOMAIN session : t # m.id =>
                  StaysUnder(t) /\ (Open(session'[t]) => StaysOpen(t))
          BY <1>1, <4>1, <4>4, Sweeping DEF StaysOpen, StaysUnder
        <5> QED BY <4>1, <4>2, <5>1, <5>2 DEF SessionsMove
      <4> QED BY <4>2, <4>3, <4>4
    <3> QED BY <3>2, <3>3
  <2>7. CASE ReportHostKeyCandidate(m)
    <3>1. session' = session BY <2>7 DEF ReportHostKeyCandidate
    <3>2. CASE UNCHANGED host BY <1>4, <3>1, <3>2
    <3>3. CASE host' = [host EXCEPT !.revision = @ + 1] BY <1>2, <1>5, <3>1, <3>3 DEF Host
    <3> QED BY <2>7, <3>2, <3>3 DEF ReportHostKeyCandidate
  <2>8. CASE ReportIdentityInvalid(m) BY <1>3, <1>4, <2>8 DEF ReportIdentityInvalid
  <2>9. CASE /\ m.call \in ConnCalls
             /\ SessionConnected(m) \/ SessionHeartbeat(m) \/ SessionClosed(m)
    BY <2>1, <2>9, SessionCallMoves
  <2> QED BY <1>7, <2>2, <2>3, <2>4, <2>5, <2>6, <2>7, <2>8, <2>9 DEF Serve, ConnCalls
<1>8. CASE UNCHANGED api BY <1>4, <1>8 DEF api
<1> QED BY <1>6, <1>7, <1>8, StepsByActor, WorkerSideFrame, ConnSideFrame
        DEF Crash, VolumeLost, HostKeyChanges, vars

\* A consumed ticket is one the host and the administrator's browser session allowed.
LEMMA ConsumedAllowed ==
  ASSUME NEW t, ConsumedNow(t)
  PROVE  /\ ~host.deleted /\ host.enabled /\ host.identity = "ready" /\ host.trusted # None
         /\ LoggedIn(t) /\ ~HasTerminal(tickets[t].admin)
         /\ session'[t].trusted = host.trusted /\ session'[t].revision = host.revision
  BY DEF ConsumedNow, MayConsume, HostAccepts

\* Open sessions are sessions to an enabled host under the host key that is trusted now
\* (delete_host, trust_host_key, report_identity_invalid close the others).
THEOREM SessionsPinned == Spec => []OpenSessionIsPinned
<1> DEFINE Inv == WellFormed /\ OpenSessionIsPinned
<1>1. Init => Inv
  <2>1. Init => WellFormed BY InitWellFormed
  <2>2. Init => OpenSessionIsPinned BY DEF Init, OpenSessionIsPinned
  <2> QED BY <2>1, <2>2
<1>2. Inv /\ [Next]_vars => Inv'
  <2> SUFFICES ASSUME WellFormed, OpenSessionIsPinned, [Next]_vars PROVE Inv' OBVIOUS
  <2>1. WellFormed' BY WellFormedStep
  <2>2. SessionsMove BY SessionsMoved
  <2>3. OpenSessionIsPinned' BY <2>2, ConsumedAllowed DEF OpenSessionIsPinned, SessionsMove, StaysOpen
  <2> QED BY <2>1, <2>3
<1>3. Inv => OpenSessionIsPinned OBVIOUS
<1> QED BY <1>1, <1>2, <1>3, PTL DEF Spec

----------------------------------------------------------------------------
(* Keys *)

\* A claim that the API has just granted to the worker of g.
Granted(g) ==
    /\ worker[g].pc = "claim" /\ worker'[g].pc = "locking"
    /\ worker'[g].op \in DOMAIN ops
    /\ worker'[g].token = ops'[worker'[g].op].token
    /\ ops'[worker'[g].op].token = ops[worker'[g].op].token + 1

\* The worker of g has the file lock, and the API has just confirmed its claim.
Proceeds(g) ==
    /\ worker[g].pc = "proceed" /\ UNCHANGED api
    /\ OpenOperation(worker[g].op) /\ OperationOf(g).token = worker[g].token
    /\ OperationOf(g).kind = "delete" \/ Generating

\* One claim is granted at a time.  A worker that goes on keeps its claim, and comes
\* nearer to its report.
WorkersMove ==
    /\ \A g, h \in Gateways : Granted(g) /\ Granted(h) => g = h
    /\ \A g \in Gateways :
          \/ Claimant(g)' => Granted(g)
          \/ /\ Claimant(g) /\ worker'[g].op = worker[g].op /\ worker'[g].token = worker[g].token
             /\ Unreported(g)' => Unreported(g)
             /\ Acting(g)' => Acting(g) \/ Proceeds(g)
             /\ Finishing(g)' => Finishing(g) \/ Acting(g)

\* A result that g has just sent: of work on the volume, or of its failure.
Reported(g, m) ==
    /\ Claimant(g) /\ m.id = worker[g].op /\ m.token = worker[g].token
    /\ Finishing(g) \/ Acting(g)
    /\ Finishing(g)'
    /\ m.call = "complete" =>
          Acting(g) /\ volume'.key = IF OperationOf(g).kind = "delete" THEN None ELSE m.key

ResultsMove == \A m \in Results' : m \in Results \/ \E g \in Gateways : Reported(g, m)

\* A key is stored by a worker that generates one.
VolumeMoves ==
    \/ volume'.key \in {volume.key, None}
    \/ \E g \in Gateways : Generates(g)

\* An operation that ends was reported about, unless the host was deleted.
OperationsMove ==
    /\ \A i \in DOMAIN ops :
          /\ OpenOperation(i)' => OpenOperation(i)
          /\ OpenOperation(i) => \/ OpenOperation(i)' \/ host'.deleted
                                 \/ \E m \in Results : m.id = i /\ m.token = ops[i].token
          /\ ops'[i].state = "completed" =>
                ops[i].state = "completed" \/ \E m \in wire : m.call = "complete" /\ m.id = i
    /\ \A i \in DOMAIN ops' \ DOMAIN ops : ops'[i].state # "completed"

\* A key is published by the result of a generation.
HostMoves ==
    /\ host.deleted => host'.deleted
    /\ host'.identity = "ready" =>
          \/ host.identity = "ready" /\ host'.key = host.key
          \/ \E m \in Results :
                /\ m.call = "complete" /\ ops[m.id].kind = "generate" /\ OpenOperation(m.id)
                /\ m.token = ops[m.id].token /\ host'.key = m.key /\ UNCHANGED volume

LEMMA ResultsStay == ASSUME wire' \subseteq wire PROVE ResultsMove
  BY DEF ResultsMove, Results

LEMMA TablesStay == ASSUME UNCHANGED api PROVE OperationsMove /\ HostMoves
  BY DEF OperationsMove, HostMoves, OpenOperation, api

\* A worker that rests, or is gone.
LEMMA WorkersStay ==
  ASSUME WorkersOK, \A g \in Gateways : worker'[g] = worker[g] \/ worker'[g] = RestingWorker
  PROVE  WorkersMove
<1>1. ASSUME NEW g \in Gateways, worker'[g] = worker[g], Claimant(g)
      PROVE  /\ worker'[g].op = worker[g].op /\ worker'[g].token = worker[g].token
             /\ Unreported(g)' => Unreported(g)
             /\ Acting(g)' => Acting(g)
             /\ Finishing(g)' => Finishing(g)
  BY <1>1 DEF Unreported, Acting, Finishing
<1>2. ASSUME NEW g \in Gateways, worker'[g] = worker[g], ~Claimant(g) PROVE ~Claimant(g)'
  BY <1>2 DEF Claimant
<1>3. ASSUME NEW g \in Gateways, worker'[g] = RestingWorker PROVE ~Claimant(g)'
  BY <1>3 DEF Claimant, RestingWorker
<1>4. \A g \in Gateways : ~Granted(g) BY DEF Granted, RestingWorker
<1> QED BY <1>1, <1>2, <1>3, <1>4 DEF WorkersMove

\* Administrators and clocks end operations by deleting the host alone.
LEMMA RowStepMoves ==
  ASSUME WellFormed, RowStep PROVE OperationsMove /\ HostMoves
<1>1. RowsOK /\ OperationsOK /\ host \in Host /\ ops \in Seq(Operation)
  BY DEF WellFormed, TypeOK, RowsOK
<1>2. CASE UNCHANGED api BY <1>2, TablesStay
<1>3. CASE UNCHANGED <<host, ops>> BY <1>3 DEF OperationsMove, HostMoves, OpenOperation
<1>4. CASE DeleteHost
  <2> DEFINE d == NewOperation("delete")
  <2>1. d \in Operation /\ d.state = "pending" BY DEF NewOperation, Operation
  <2>2. /\ Cancelled \in Seq(Operation) /\ DOMAIN Cancelled = DOMAIN ops
        /\ \A i \in DOMAIN ops :
              /\ Cancelled[i].state \in {"pending", "claimed"} => OpenOperation(i)
              /\ Cancelled[i].state = "completed" => ops[i].state = "completed"
    BY <1>1, Cancelling DEF SweptTo
  <2>3. ops' = Append(Cancelled, d) /\ host' = [host EXCEPT !.enabled = FALSE, !.deleted = TRUE, !.revision = @ + 1]
    BY <1>4 DEF DeleteHost
  <2>4. host'.deleted /\ host'.identity = host.identity /\ host'.key = host.key
    BY <1>1, <2>3 DEF Host
  <2> HIDE DEF d
  <2>5. /\ DOMAIN ops' = DOMAIN ops \cup {Len(Cancelled) + 1} /\ ops'[Len(Cancelled) + 1] = d
        /\ \A i \in DOMAIN ops : ops'[i] = Cancelled[i]
    BY <2>1, <2>2, <2>3, RowAppended
  <2> QED BY <2>1, <2>2, <2>4, <2>5 DEF OperationsMove, HostMoves, OpenOperation
<1>5. CASE RetryIdentity
  <2> DEFINE d == NewOperation("generate")
  <2>1. d \in Operation /\ d.state = "pending" BY DEF NewOperation, Operation
  <2>2. ops' = Append(ops, d) /\ host' = [host EXCEPT !.identity = "pending", !.revision = @ + 1]
    BY <1>5 DEF RetryIdentity
  <2>3. host'.identity = "pending" /\ host'.deleted = host.deleted BY <1>1, <2>2 DEF Host
  <2> HIDE DEF d
  <2>4. /\ DOMAIN ops' = DOMAIN ops \cup {Len(ops) + 1} /\ ops'[Len(ops) + 1] = d
        /\ \A i \in DOMAIN ops : ops'[i] = ops[i]
    BY <1>1, <2>1, <2>2, RowAppended
  <2> QED BY <2>1, <2>3, <2>4 DEF OperationsMove, HostMoves, OpenOperation
<1>6. CASE \E f \in HostKeys : TrustHostKey(f)
  <2>1. /\ UNCHANGED ops /\ host.identity = "ready"
        /\ \E f \in HostKeys : host' = [host EXCEPT !.trusted = f, !.enabled = TRUE, !.revision = @ + 1]
    BY <1>6 DEF TrustHostKey
  <2>2. host'.deleted = host.deleted /\ host'.key = host.key BY <1>1, <2>1 DEF Host
  <2> QED BY <2>1, <2>2 DEF OperationsMove, HostMoves, OpenOperation
<1>7. ASSUME NEW i \in DOMAIN ops, LeaseLapses(i) PROVE OperationsMove /\ HostMoves
  <2>1. ops[i] \in Operation BY <1>1, RowTypes
  <2>2. UNCHANGED host /\ ops' = [ops EXCEPT ![i].lapsed = TRUE] BY <1>7 DEF LeaseLapses
  <2>3. DOMAIN ops' = DOMAIN ops /\ \A j \in DOMAIN ops : ops'[j].state = ops[j].state
    BY <1>1, <2>1, <2>2 DEF Operation
  <2> QED BY <2>2, <2>3 DEF OperationsMove, HostMoves, OpenOperation
<1> QED BY <1>2, <1>3, <1>4, <1>5, <1>6, <1>7
        DEF RowStep, BrowserSessionEnds, IssueTicket, TicketExpires, SessionFallsSilent

\* An operation ends by a result of its present claim.
LEMMA EndMoves ==
  ASSUME RowsOK, NEW m \in Results, m.id \in DOMAIN ops, HoldsClaim(m),
         NEW state \in {"pending", "completed", "failed"}, ops' = EndOperation(m.id, state),
         state = "completed" => m.call = "complete"
  PROVE  OperationsMove
<1>1. OpenOperation(m.id) /\ m.token = ops[m.id].token BY HeldIsOpen DEF HoldsClaim
<1>2. /\ DOMAIN ops' = DOMAIN ops /\ ops'[m.id].state = state
      /\ \A j \in DOMAIN ops : j # m.id => ops'[j] = ops[j]
  BY <1>1, EndedOperation
<1>3. \A i \in DOMAIN ops :
        /\ OpenOperation(i)' => OpenOperation(i)
        /\ OpenOperation(i) /\ i # m.id => OpenOperation(i)'
        /\ ops'[i].state = "completed" => ops[i].state = "completed" \/ (i = m.id /\ m.call = "complete")
  BY <1>1, <1>2 DEF OpenOperation
<1>4. m \in wire BY DEF Results
<1> QED BY <1>1, <1>2, <1>3, <1>4 DEF OperationsMove

LEMMA ServeMoves ==
  ASSUME WellFormed, NEW m \in wire, Serve(m)
  PROVE  WorkersMove /\ ResultsMove /\ VolumeMoves /\ OperationsMove /\ HostMoves
<1>1. RowsOK /\ OperationsOK /\ host \in Host /\ WorkersOK /\ ProcessesOK /\ m \in Message
  BY WireTypes DEF WellFormed, TypeOK, RowsOK
<1>2. /\ wire' = wire \ {m} /\ UNCHANGED volume /\ Answered(m)
      /\ m.call \in ConnCalls => UNCHANGED worker
  BY <1>1, ServeFrame, WorkerAnswered, WireTypes
<1>3. ResultsMove /\ VolumeMoves BY <1>2, ResultsStay DEF VolumeMoves
<1>4. ASSUME NEW g \in Gateways
      PROVE  \/ Claimant(g)' => Granted(g)
             \/ /\ Claimant(g) /\ worker'[g].op = worker[g].op /\ worker'[g].token = worker[g].token
                /\ Unreported(g)' => Unreported(g)
                /\ Acting(g)' => Acting(g) \/ Proceeds(g)
                /\ Finishing(g)' => Finishing(g) \/ Acting(g)
  <2>1. worker[g] \in Worker BY <1>1, WorkerTypes
  <2>2. CASE worker'[g] = worker[g]
    <3>1. CASE Claimant(g) BY <2>2, <3>1 DEF Unreported, Acting, Finishing
    <3>2. CASE ~Claimant(g) BY <2>2, <3>2 DEF Claimant
    <3> QED BY <3>1, <3>2
  <2>3. CASE worker'[g] = RestingWorker BY <2>3 DEF Claimant, RestingWorker
  <2>4. ASSUME worker[g].pc = "claim", NEW i \in DOMAIN ops, ops'[i].token = ops[i].token + 1,
               worker'[g] = [pc |-> "locking", op |-> i, token |-> ops'[i].token, key |-> None]
        PROVE  Granted(g)
    BY <2>4 DEF Granted
  <2>5. ASSUME worker[g].pc = "proceed", worker[g].op = m.id, worker[g].token = m.token, MayProceed(m),
               UNCHANGED api, worker'[g] = [worker[g] EXCEPT !.pc = "working"]
        PROVE  /\ Claimant(g) /\ worker'[g].op = worker[g].op /\ worker'[g].token = worker[g].token
               /\ Unreported(g) /\ Proceeds(g) /\ ~Finishing(g)'
    <3>1. worker'[g].pc = "working" /\ worker'[g].op = worker[g].op /\ worker'[g].token = worker[g].token
      BY <2>1, <2>5 DEF Worker
    <3>2. Proceeds(g) BY <2>5, HeldIsOpen DEF Proceeds, MayProceed, HoldsClaim, OperationOf
    <3> QED BY <2>5, <3>1, <3>2 DEF Claimant, Unreported, Finishing
  <2>6. ASSUME worker[g].pc = "proceed", worker'[g] = [worker[g] EXCEPT !.pc = "releasing"]
        PROVE  /\ Claimant(g) /\ worker'[g].op = worker[g].op /\ worker'[g].token = worker[g].token
               /\ Unreported(g) /\ ~Acting(g)' /\ ~Finishing(g)'
    <3>1. worker'[g].pc = "releasing" /\ worker'[g].op = worker[g].op /\ worker'[g].token = worker[g].token
      BY <2>1, <2>6 DEF Worker
    <3> QED BY <2>6, <3>1 DEF Claimant, Unreported, Acting, Finishing
  <2>7. ASSUME worker[g].pc = "complete", worker'[g] = [worker[g] EXCEPT !.pc = "failing"]
        PROVE  /\ Claimant(g) /\ worker'[g].op = worker[g].op /\ worker'[g].token = worker[g].token
               /\ ~Unreported(g)' /\ ~Acting(g)' /\ Finishing(g)
    <3>1. worker'[g].pc = "failing" /\ worker'[g].op = worker[g].op /\ worker'[g].token = worker[g].token
      BY <2>1, <2>7 DEF Worker
    <3> QED BY <2>7, <3>1 DEF Claimant, Unreported, Acting, Finishing
  <2> QED BY <1>2, <2>2, <2>3, <2>4, <2>5, <2>6, <2>7 DEF Answered
<1>5. WorkersMove
  <2>1. \A g \in Gateways : Granted(g) => g = m.from BY <1>2 DEF Granted, Answered
  <2> QED BY <1>4, <2>1 DEF WorkersMove
<1>6. OperationsMove /\ HostMoves
  <2>1. m.call \in {"complete", "fail"} => m \in Results /\ m.id \in DOMAIN ops
    BY DEF Results, WellFormed, CallsOK, CallOK
  <2>2. ASSUME UNCHANGED <<host, ops>> PROVE OperationsMove /\ HostMoves
    BY <2>2 DEF OperationsMove, HostMoves, OpenOperation
  <2>3. CASE m.call = "claim" /\ ClaimIdentityOperation(m)
    <3>1. UNCHANGED host BY <2>3 DEF ClaimIdentityOperation
    <3>2. /\ \A i \in DOMAIN ops :
                /\ OpenOperation(i)' => OpenOperation(i)
                /\ ops'[i].state = "completed" => ops[i].state = "completed"
                /\ ~host.deleted /\ OpenOperation(i) => OpenOperation(i)'
      BY <1>1, <2>3, ClaimKeeps
    <3>3. DOMAIN ops' = DOMAIN ops BY <1>1, <2>3, Reclaiming DEF ClaimIdentityOperation, SweptTo
    <3> QED BY <3>1, <3>2, <3>3 DEF OperationsMove, HostMoves
  <2>4. CASE m.call = "complete" /\ CompleteIdentityOperation(m)
    <3>1. CASE HoldsClaim(m) /\ ops' = EndOperation(m.id, "completed") /\ UNCHANGED host
      <4>1. OperationsMove BY <1>1, <2>1, <2>4, <3>1, EndMoves
      <4> QED BY <3>1, <4>1 DEF HostMoves
    <3>2. CASE /\ HoldsClaim(m) /\ ops[m.id].kind = "generate"
               /\ ops' = EndOperation(m.id, "completed")
               /\ host' = [host EXCEPT !.identity = "ready", !.key = m.key, !.revision = @ + 1]
      <4>1. OperationsMove BY <1>1, <2>1, <2>4, <3>2, EndMoves
      <4>2. host'.deleted = host.deleted /\ host'.key = m.key BY <1>1, <3>2 DEF Host
      <4>3. OpenOperation(m.id) /\ m.token = ops[m.id].token BY <3>2, HeldIsOpen DEF HoldsClaim
      <4> QED BY <1>2, <2>1, <2>4, <3>2, <4>1, <4>2, <4>3 DEF HostMoves
    <3> QED BY <2>2, <2>4, <3>1, <3>2 DEF CompleteIdentityOperation, api
  <2>5. CASE m.call = "fail" /\ FailIdentityOperation(m)
    <3>1. UNCHANGED host \/ host' = [host EXCEPT !.identity = "failed", !.revision = @ + 1]
      BY <2>5 DEF FailIdentityOperation
    <3>2. HostMoves BY <1>1, <3>1 DEF HostMoves, Host
    <3>3. CASE UNCHANGED ops BY <3>2, <3>3 DEF OperationsMove, OpenOperation
    <3>4. CASE HoldsClaim(m) /\ \E state \in {"pending", "failed"} : ops' = EndOperation(m.id, state)
      BY <1>1, <2>1, <2>5, <3>2, <3>4, EndMoves
    <3> QED BY <2>5, <3>3, <3>4 DEF FailIdentityOperation
  <2>6. CASE ReportHostKeyCandidate(m)
    <3>1. UNCHANGED ops /\ (UNCHANGED host \/ host' = [host EXCEPT !.revision = @ + 1])
      BY <2>6 DEF ReportHostKeyCandidate
    <3>2. host'.deleted = host.deleted /\ host'.identity = host.identity /\ host'.key = host.key
      BY <1>1, <3>1 DEF Host
    <3> QED BY <3>1, <3>2 DEF OperationsMove, HostMoves, OpenOperation
  <2>7. CASE ReportIdentityInvalid(m)
    <3>1. /\ UNCHANGED ops
          /\ \/ UNCHANGED host
             \/ host' = [host EXCEPT !.enabled = FALSE, !.identity = "failed", !.key = None, !.revision = @ + 1]
      BY <2>7 DEF ReportIdentityInvalid
    <3>2. host'.deleted = host.deleted /\ (host' = host \/ host'.identity = "failed")
      BY <1>1, <3>1 DEF Host
    <3> QED BY <3>1, <3>2 DEF OperationsMove, HostMoves, OpenOperation
  <2> QED BY <2>2, <2>3, <2>4, <2>5, <2>6, <2>7
          DEF Serve, HeartbeatIdentityOperation, ConsumeTicket, SessionConnected, SessionHeartbeat,
              SessionClosed, api
<1> QED BY <1>3, <1>5, <1>6

\* One worker takes a step of its own.
LEMMA OneWorkersMove ==
  ASSUME NEW g \in Gateways, \A h \in Gateways : h # g => worker'[h] = worker[h],
         \/ ~Claimant(g)'
         \/ /\ Claimant(g) /\ worker'[g].op = worker[g].op /\ worker'[g].token = worker[g].token
            /\ Unreported(g)' => Unreported(g)
            /\ Acting(g)' => Acting(g)
            /\ Finishing(g)' => Finishing(g) \/ Acting(g)
  PROVE  WorkersMove
<1>1. ASSUME NEW h \in Gateways, worker'[h] = worker[h]
      PROVE  /\ (Claimant(h)' <=> Claimant(h)) /\ (Unreported(h)' <=> Unreported(h))
             /\ (Acting(h)' <=> Acting(h)) /\ (Finishing(h)' <=> Finishing(h))
             /\ worker'[h].op = worker[h].op /\ worker'[h].token = worker[h].token
  BY <1>1 DEF Claimant, Unreported, Acting, Finishing
<1>2. \A h \in Gateways : Granted(h) => h = g BY DEF Granted
<1> QED BY <1>1, <1>2 DEF WorkersMove

LEMMA WorkerSideMoves ==
  ASSUME WellFormed, NEW g \in Gateways, WorkerSide(g)
  PROVE  WorkersMove /\ ResultsMove /\ VolumeMoves /\ OperationsMove /\ HostMoves
<1> DEFINE o == worker[g].op
           n == worker[g].token
<1>1. /\ RowsOK /\ ProcessesOK /\ WorkerOK(g) /\ UNCHANGED api
      /\ worker \in [Gateways -> Worker] /\ worker[g] \in Worker /\ o \in Nat /\ n \in Nat
      /\ volume \in Volume
  BY WorkerSideFrame, WorkerTypes DEF WellFormed, TypeOK, WorkersOK, ProcessesOK
<1>2. OperationsMove /\ HostMoves BY <1>1, TablesStay
<1>3. UNCHANGED volume => VolumeMoves BY DEF VolumeMoves
<1>4. UNCHANGED wire => ResultsMove BY ResultsStay
\* The worker changes its pc, or rests.
<1>5. ASSUME NEW pc \in {"releasing", "failing", "keygen"}, worker' = [worker EXCEPT ![g].pc = pc],
             Claimant(g), pc = "keygen" => Acting(g),
             pc = "failing" => Acting(g) \/ Finishing(g)
      PROVE  WorkersMove
  <2>1. /\ worker'[g].pc = pc /\ worker'[g].op = o /\ worker'[g].token = n
        /\ \A h \in Gateways : h # g => worker'[h] = worker[h]
    BY <1>1, <1>5 DEF Worker
  <2> QED BY <1>5, <2>1, OneWorkersMove DEF Unreported, Acting, Finishing
<1>6. ASSUME worker' = [worker EXCEPT ![g] = RestingWorker] PROVE WorkersMove
  BY <1>1, <1>6, OneWorkersMove DEF Claimant, RestingWorker
\* The worker calls.
<1>7. ASSUME NEW name \in WorkerCalls, NEW op \in Nat, NEW token \in Nat,
             NEW key \in Key \cup {None}, SendWorker(g, name, op, token, key)
      PROVE  /\ \A h \in Gateways : h # g => worker'[h] = worker[h]
             /\ worker'[g].pc = name /\ worker'[g].op = op /\ worker'[g].token = token
             /\ \A m \in wire' : m \in wire \/ (m.call = name /\ m.id = op /\ m.token = token /\ m.key = key)
  <2>1. /\ worker'[g] = [pc |-> name, op |-> op, token |-> token, key |-> key]
        /\ \A h \in Gateways : h # g => worker'[h] = worker[h]
        /\ \E r \in Message :
               /\ wire' = wire \cup {r} /\ r.call = name /\ r.from = g /\ r.id = op /\ r.token = token
               /\ r.key = key
    BY <1>1, <1>7, WorkerSends
  <2> QED BY <2>1
<1>8. ASSUME NEW name \in {"complete", "fail"}, NEW key \in Key \cup {None},
             SendWorker(g, name, o, n, key), Claimant(g), Acting(g) \/ Finishing(g),
             name = "complete" =>
                Acting(g) /\ volume'.key = IF OperationOf(g).kind = "delete" THEN None ELSE key
      PROVE  WorkersMove /\ ResultsMove
  <2>1. /\ \A h \in Gateways : h # g => worker'[h] = worker[h]
        /\ worker'[g].pc = name /\ worker'[g].op = o /\ worker'[g].token = n
        /\ \A m \in wire' : m \in wire \/ (m.call = name /\ m.id = o /\ m.token = n /\ m.key = key)
    BY <1>1, <1>7, <1>8 DEF WorkerCalls
  <2>2. WorkersMove BY <1>8, <2>1, OneWorkersMove DEF Unreported, Acting, Finishing
  <2>3. \A m \in Results' : m \in Results \/ Reported(g, m)
    BY <1>8, <2>1 DEF Results, Reported, Finishing
  <2> QED BY <2>2, <2>3 DEF ResultsMove
<1>9. CASE Claim(g)
  <2>1. SendWorker(g, "claim", 0, 0, None) /\ UNCHANGED volume BY <1>9 DEF Claim
  <2>2. /\ \A h \in Gateways : h # g => worker'[h] = worker[h]
        /\ worker'[g].pc = "claim" /\ \A m \in wire' : m \in wire \/ m.call = "claim"
    BY <1>7, <2>1 DEF WorkerCalls
  <2>3. WorkersMove BY <2>2, OneWorkersMove DEF Claimant
  <2> QED BY <1>2, <1>3, <2>1, <2>2, <2>3 DEF ResultsMove, Results
<1>10. CASE AcquireLock(g)
  <2>1. worker[g].pc = "locking" /\ SendWorker(g, "proceed", o, n, None) /\ UNCHANGED volume
    BY <1>10 DEF AcquireLock
  <2>2. /\ \A h \in Gateways : h # g => worker'[h] = worker[h]
        /\ worker'[g].pc = "proceed" /\ worker'[g].op = o /\ worker'[g].token = n
        /\ \A m \in wire' : m \in wire \/ m.call = "proceed"
    BY <1>1, <1>7, <2>1 DEF WorkerCalls
  <2>3. WorkersMove BY <2>1, <2>2, OneWorkersMove DEF Claimant, Unreported, Acting, Finishing
  <2> QED BY <1>2, <1>3, <2>1, <2>2, <2>3 DEF ResultsMove, Results
<1>11. CASE ReleaseLock(g)
  BY <1>2, <1>3, <1>4, <1>6, <1>11 DEF ReleaseLock
<1>12. CASE GenerateIdentity(g)
  <2>1. worker[g].pc = "working" /\ OperationOf(g).kind = "generate" /\ Claimant(g) /\ Acting(g)
    BY <1>12 DEF GenerateIdentity, Claimant, Acting
  <2>2. CASE SendWorker(g, "complete", o, n, volume.key) /\ UNCHANGED volume
    <3>1. volume.key \in Key \cup {None} BY <1>1 DEF Volume
    <3> QED BY <1>2, <1>3, <1>8, <2>1, <2>2, <3>1
  <2>3. CASE /\ volume' = [volume EXCEPT !.dir = TRUE, !.key = None]
             /\ worker' = [worker EXCEPT ![g].pc = "keygen"] /\ UNCHANGED wire
    <3>1. volume'.key = None BY <1>1, <2>3 DEF Volume
    <3> QED BY <1>2, <1>4, <1>5, <2>1, <2>3, <3>1 DEF VolumeMoves
  <2> QED BY <1>12, <2>2, <2>3 DEF GenerateIdentity
<1>13. CASE PublishKeys(g)
  <2>1. /\ worker[g].pc = "keygen" /\ UNCHANGED wire
        /\ worker' = [worker EXCEPT ![g].pc = "unmarking", ![g].key = spent.keys + 1]
    BY <1>13 DEF PublishKeys
  <2>2. /\ \A h \in Gateways : h # g => worker'[h] = worker[h]
        /\ worker'[g].pc = "unmarking" /\ worker'[g].op = o /\ worker'[g].token = n
    BY <1>1, <2>1 DEF Worker
  <2>3. WorkersMove BY <2>1, <2>2, OneWorkersMove DEF Claimant, Unreported, Acting, Finishing
  <2>4. Generates(g) BY <1>1, <2>1 DEF WorkerOK, Generates, Acting
  <2> QED BY <1>2, <1>4, <2>1, <2>3, <2>4 DEF VolumeMoves
<1>14. CASE RemoveMarker(g)
  <2>1. /\ worker[g].pc = "unmarking" /\ volume' = [volume EXCEPT !.marker = FALSE]
        /\ SendWorker(g, "complete", o, n, worker[g].key) /\ Claimant(g) /\ Acting(g)
    BY <1>14 DEF RemoveMarker, Claimant, Acting
  <2>2. /\ worker[g].key = volume.key /\ worker[g].key \in Key /\ OperationOf(g).kind = "generate"
    BY <1>1, <2>1 DEF WorkerOK
  <2>3. volume'.key = volume.key BY <1>1, <2>1 DEF Volume
  <2> QED BY <1>2, <1>8, <2>1, <2>2, <2>3 DEF VolumeMoves
<1>15. CASE DeleteIdentity(g)
  <2>1. /\ worker[g].pc = "working" /\ OperationOf(g).kind = "delete" /\ volume'.key = None
        /\ SendWorker(g, "complete", o, n, None) /\ Claimant(g) /\ Acting(g)
    BY <1>15 DEF DeleteIdentity, Claimant, Acting, EmptyVolume
  <2> QED BY <1>2, <1>8, <2>1 DEF VolumeMoves
<1>16. CASE ReportFailure(g)
  <2>1. /\ worker[g].pc = "failing" /\ UNCHANGED volume /\ SendWorker(g, "fail", o, n, None)
        /\ Claimant(g) /\ Finishing(g)
    BY <1>16 DEF ReportFailure, Claimant, Finishing
  <2> QED BY <1>2, <1>3, <1>8, <2>1
<1>17. CASE WorkFails(g)
  <2>1. /\ Claimant(g) /\ Acting(g) /\ worker' = [worker EXCEPT ![g].pc = "failing"]
        /\ UNCHANGED <<wire, volume>>
    BY <1>17 DEF WorkFails, Claimant, Acting
  <2> QED BY <1>2, <1>3, <1>4, <1>5, <2>1
<1>18. CASE WorkerGivesUp(g)
  <2>1. UNCHANGED <<wire, volume>> BY <1>18 DEF WorkerGivesUp
  <2>2. CASE worker' = [worker EXCEPT ![g] = RestingWorker] BY <1>2, <1>3, <1>4, <1>6, <2>1, <2>2
  <2>3. CASE worker[g].pc = "proceed" /\ worker' = [worker EXCEPT ![g].pc = "releasing"]
    <3>1. Claimant(g) BY <2>3 DEF Claimant
    <3> QED BY <1>2, <1>3, <1>4, <1>5, <2>1, <2>3, <3>1
  <2>4. CASE worker[g].pc = "complete" /\ worker' = [worker EXCEPT ![g].pc = "failing"]
    <3>1. Claimant(g) /\ Finishing(g) BY <2>4 DEF Claimant, Finishing
    <3> QED BY <1>2, <1>3, <1>4, <1>5, <2>1, <2>4, <3>1
  <2> QED BY <1>18, <2>2, <2>3, <2>4 DEF WorkerGivesUp, AfterGivingUp, WorkerCalls
<1> QED BY <1>9, <1>10, <1>11, <1>12, <1>13, <1>14, <1>15, <1>16, <1>17, <1>18 DEF WorkerSide, WorkerStep

\* What any step does to claims, results, keys and operations.
LEMMA KeysMove ==
  ASSUME WellFormed, [Next]_vars
  PROVE  WorkersMove /\ ResultsMove /\ VolumeMoves /\ OperationsMove /\ HostMoves
<1>1. WorkersOK /\ ProcessesOK /\ RowsOK /\ ConnsOK BY DEF WellFormed, TypeOK
<1>2. UNCHANGED worker => WorkersMove BY <1>1, WorkersStay
<1>3. UNCHANGED volume => VolumeMoves BY DEF VolumeMoves
<1>4. CASE RowStep
  <2>1. UNCHANGED <<wire, worker, volume>> BY <1>4, RowStepFrame DEF gateway
  <2> QED BY <1>2, <1>3, <1>4, <2>1, RowStepMoves, ResultsStay
<1>5. ASSUME NEW g \in Gateways, Crash(g) PROVE WorkersMove /\ ResultsMove /\ VolumeMoves /\ OperationsMove /\ HostMoves
  <2>1. UNCHANGED <<api, wire, volume>> /\ worker' = [worker EXCEPT ![g] = RestingWorker]
    BY <1>5 DEF Crash
  <2>2. worker \in [Gateways -> Worker] BY <1>1 DEF ProcessesOK
  <2>3. \A h \in Gateways : worker'[h] = worker[h] \/ worker'[h] = RestingWorker BY <2>1, <2>2
  <2> QED BY <1>1, <1>3, <2>1, <2>3, WorkersStay, ResultsStay, TablesStay
<1>6. ASSUME NEW c \in Conns, ConnSide(c) PROVE WorkersMove /\ ResultsMove /\ VolumeMoves /\ OperationsMove /\ HostMoves
  <2>1. UNCHANGED <<api, worker>> BY <1>6, ConnSideFrame
  <2>2. /\ volume'.key = volume.key
        /\ \/ wire' = wire
           \/ \E r \in Message : wire' = wire \cup {r} /\ r.call \in ConnCalls
    BY <1>1, <1>6, ConnSideMoves
  <2>3. ResultsMove BY <2>2 DEF ResultsMove, Results, ConnCalls
  <2> QED BY <1>2, <2>1, <2>2, <2>3, TablesStay DEF VolumeMoves
<1>7. CASE VolumeLost \/ HostKeyChanges \/ UNCHANGED vars
  <2>1. UNCHANGED <<api, worker, wire>> /\ (UNCHANGED volume \/ volume' = EmptyVolume)
    BY <1>7 DEF VolumeLost, HostKeyChanges, vars, gateway
  <2>2. VolumeMoves BY <2>1 DEF VolumeMoves, EmptyVolume
  <2> QED BY <1>2, <2>1, <2>2, ResultsStay, TablesStay
<1> QED BY <1>4, <1>5, <1>6, <1>7, ServeMoves, WorkerSideMoves, StepsByActor

\* The claims after a step.
LEMMA ClaimsMove ==
  ASSUME WellFormed, Kept, ClaimsOK, WorkersMove, ResultsMove
  PROVE  ClaimsOK'
<1>1. /\ RowsOK /\ ProcessesOK /\ WorkersOK /\ CallsOK BY DEF WellFormed, TypeOK
<1>2. \A i \in DOMAIN ops : ops[i].token \in Nat BY <1>1, RowTypes DEF Operation
\* What a worker with a claim had before, if the claim is not new.
<1>3. ASSUME NEW g \in Gateways, Claimant(g)', ~Granted(g)
      PROVE  /\ Claimant(g) /\ worker'[g].op = worker[g].op /\ worker'[g].token = worker[g].token
             /\ Unreported(g)' => Unreported(g)
  BY <1>3 DEF WorkersMove
\* Every claim made so far is older than a new one.
<1>4. ASSUME NEW g \in Gateways, Granted(g), NEW n \in Nat, n <= ops[worker'[g].op].token
      PROVE  n # worker'[g].token
  BY <1>2, <1>4 DEF Granted
<1>5. \A g \in Gateways : Claimant(g) =>
          worker[g].op \in DOMAIN ops /\ worker[g].token \in Nat /\ worker[g].token <= ops[worker[g].op].token
  BY <1>1, WorkerTypes DEF WorkersOK, WorkerOK, OperationOf
<1>6. \A m \in Results : m.id \in DOMAIN ops /\ m.token \in Nat /\ m.token <= ops[m.id].token
  BY <1>1, WireTypes DEF Results, CallsOK, CallOK
<1>7. ASSUME NEW g \in Gateways, NEW h \in Gateways, Claimant(g)', Claimant(h)',
             worker'[g].op = worker'[h].op, worker'[g].token = worker'[h].token
      PROVE  g = h
  <2>1. CASE ~Granted(g) /\ ~Granted(h) BY <1>3, <1>7, <2>1 DEF ClaimsOK
  <2>2. CASE Granted(g) /\ ~Granted(h) BY <1>3, <1>4, <1>5, <1>7, <2>2
  <2>3. CASE ~Granted(g) /\ Granted(h) BY <1>3, <1>4, <1>5, <1>7, <2>3
  <2> QED BY <2>1, <2>2, <2>3 DEF WorkersMove
<1>8. ASSUME NEW g \in Gateways, NEW m \in Results', Claimant(g)',
             worker'[g].op = m.id, worker'[g].token = m.token
      PROVE  ~Unreported(g)'
  <2>1. CASE m \in Results
    <3>1. ~Granted(g) BY <1>4, <1>6, <1>8, <2>1
    <3> QED BY <1>3, <1>8, <2>1, <3>1 DEF ClaimsOK
  <2>2. ASSUME NEW h \in Gateways, Reported(h, m) PROVE ~Unreported(g)'
    <3>1. /\ Claimant(h) /\ m.id = worker[h].op /\ m.token = worker[h].token /\ Finishing(h)'
      BY <2>2 DEF Reported
    <3>2. ~Granted(g) BY <1>4, <1>5, <1>8, <3>1
    <3>3. g = h BY <1>3, <1>8, <3>1, <3>2 DEF ClaimsOK
    <3> QED BY <3>1, <3>3 DEF Finishing, Unreported
  <2> QED BY <2>1, <2>2 DEF ResultsMove
<1> QED BY <1>7, <1>8 DEF ClaimsOK

\* Every result of an operation is of an older claim, from the moment the worker of its
\* claim proceeds: the lock keeps newer claims waiting.
LEMMA SupersededStays ==
  ASSUME WellFormed, ClaimsOK, WorkersMove, ResultsMove, NEW g \in Gateways, Acting(g)',
         \/ Acting(g) /\ Superseded(g)
         \/ Proceeds(g)
  PROVE  Superseded(g)'
<1>1. TypeOK /\ ProcessesOK /\ WorkersOK /\ CallsOK BY DEF WellFormed, TypeOK
<1>2. /\ Claimant(g) /\ worker'[g].op = worker[g].op /\ worker'[g].token = worker[g].token
      /\ Holder(g) /\ Unreported(g)
  BY DEF WorkersMove, Acting, Proceeds, Holder, Granted, Claimant, Unreported
<1>3. Superseded(g)
  <2>1. CASE Proceeds(g)
    <3>1. worker[g].token = ops[worker[g].op].token /\ worker[g].token \in Nat
      BY <1>1, <2>1, WorkerTypes DEF Proceeds, OperationOf
    <3>2. ASSUME NEW m \in Results, m.id = worker[g].op PROVE m.token < worker[g].token
      <4>1. m.token \in Nat /\ m.token <= ops[m.id].token
        BY <1>1, WireTypes DEF Results, CallsOK, CallOK
      <4>2. m.token # worker[g].token BY <1>2, <3>2 DEF ClaimsOK
      <4> QED BY <3>1, <3>2, <4>1, <4>2
    <3>3. ASSUME NEW h \in Gateways, Finishing(h), worker[h].op = worker[g].op
          PROVE  worker[h].token < worker[g].token
      <4>1. Claimant(h) /\ h # g BY <1>2, <3>3 DEF Finishing, Claimant, Unreported
      <4>2. worker[h].token \in Nat /\ worker[h].token <= ops[worker[h].op].token
        BY <1>1, <4>1, WorkerTypes DEF WorkersOK, WorkerOK, OperationOf
      <4>3. worker[h].token # worker[g].token BY <1>2, <3>3, <4>1 DEF ClaimsOK
      <4> QED BY <3>1, <3>3, <4>2, <4>3
    <3> QED BY <3>2, <3>3 DEF Superseded
  <2> QED BY <2>1
<1>4. ASSUME NEW h \in Gateways, Acting(h) PROVE h = g
  BY <1>1, <1>2, <1>4, OneHolder DEF Acting, Holder
<1>5. ASSUME NEW h \in Gateways, Finishing(h)', worker'[h].op = worker[g].op
      PROVE  worker'[h].token < worker[g].token
  <2>1. h # g BY <1>5 DEF Finishing, Acting
  <2>2. Finishing(h) /\ worker'[h].op = worker[h].op /\ worker'[h].token = worker[h].token
    BY <1>4, <1>5, <2>1 DEF WorkersMove, Granted, Finishing, Claimant
  <2> QED BY <1>3, <1>5, <2>2 DEF Superseded
<1>6. ASSUME NEW m \in Results', m.id = worker[g].op PROVE m.token < worker[g].token
  <2>1. CASE m \in Results BY <1>3, <1>6, <2>1 DEF Superseded
  <2>2. ASSUME NEW h \in Gateways, Reported(h, m) PROVE m.token < worker[g].token
    <3>1. h # g BY <2>2 DEF Reported, Finishing, Acting
    <3>2. Finishing(h) BY <1>4, <2>2, <3>1 DEF Reported
    <3> QED BY <1>3, <1>6, <2>2, <3>2 DEF Reported, Superseded
  <2> QED BY <2>1, <2>2, <1>6 DEF ResultsMove
<1> QED BY <1>2, <1>5, <1>6 DEF Superseded

\* A worker that generates a key, before the step and after it.
LEMMA GeneratedBefore ==
  ASSUME WellFormed, Kept, WorkersMove, NEW g \in Gateways, Generates(g)'
  PROVE  /\ Claimant(g) /\ worker'[g].op = worker[g].op /\ worker'[g].token = worker[g].token
         /\ worker[g].op \in DOMAIN ops /\ Acting(g)'
         /\ \/ Generates(g) /\ Acting(g)
            \/ Proceeds(g) /\ Generating
<1>1. /\ Claimant(g) /\ worker'[g].op = worker[g].op /\ worker'[g].token = worker[g].token
      /\ Acting(g)' /\ (Acting(g) \/ Proceeds(g))
  BY DEF WorkersMove, Generates, Acting, Granted, Claimant
<1>2. worker[g].op \in DOMAIN ops BY <1>1 DEF WellFormed, WorkersOK, WorkerOK
<1>3. ops'[worker[g].op].kind = ops[worker[g].op].kind BY <1>2 DEF Kept, Grows
<1>4. OperationOf(g).kind = "generate" BY <1>1, <1>3 DEF Generates, OperationOf
<1> QED BY <1>1, <1>2, <1>4 DEF Generates, Proceeds

\* Generations and their results after a step.
LEMMA GenerationsMove ==
  ASSUME WellFormed, WellFormed', Kept, ClaimsOK, GenerationsOK, WorkersMove, ResultsMove,
         VolumeMoves, OperationsMove, HostMoves
  PROVE  GenerationsOK'
<1>1. RowsOK /\ OperationsOK /\ ProcessesOK /\ WorkersOK /\ CallsOK BY DEF WellFormed, TypeOK
<1>2. \A i \in DOMAIN ops : /\ ops[i].token \in Nat /\ i \in DOMAIN ops'
                            /\ ops'[i].kind = ops[i].kind /\ ops[i].token <= ops'[i].token
                            /\ ops'[i].token \in Nat
  <2>1. \A i \in DOMAIN ops' : ops'[i].token \in Nat
    <3>1. ops' \in Seq(Operation) BY DEF WellFormed, TypeOK, RowsOK
    <3>2. \A i \in DOMAIN ops' : ops'[i] \in Operation BY <3>1, ElementOfSeq, LenProperties
    <3> QED BY <3>2 DEF Operation
  <2> QED BY <1>1, <2>1, RowTypes DEF Kept, Grows, Operation
<1>3. ASSUME NEW g \in Gateways, Generates(g)', ~host'.deleted
      PROVE  OpenOperation(worker[g].op)' /\ Superseded(g)'
  <2>1. /\ Claimant(g) /\ worker'[g].op = worker[g].op /\ worker[g].op \in DOMAIN ops /\ Acting(g)'
        /\ \/ Generates(g) /\ Acting(g)
           \/ Proceeds(g)
    BY <1>3, GeneratedBefore
  <2>2. ~host.deleted BY <1>3 DEF HostMoves
  <2>3. CASE Generates(g) /\ Acting(g)
    <3>1. OpenOperation(worker[g].op) /\ Superseded(g) BY <2>2, <2>3 DEF GenerationsOK
    <3>2. worker[g].token \in Nat /\ worker[g].token <= ops[worker[g].op].token
      BY <1>1, <2>1, WorkerTypes DEF WorkersOK, WorkerOK, OperationOf
    <3>3. ASSUME NEW m \in Results, m.id = worker[g].op PROVE m.token # ops[worker[g].op].token
      <4>1. m.token < worker[g].token /\ m.token \in Nat
        BY <1>1, <3>1, <3>3, WireTypes DEF Superseded, Results
      <4> QED BY <1>2, <2>1, <3>2, <4>1
    <3>4. OpenOperation(worker[g].op)' BY <1>3, <2>1, <3>1, <3>3 DEF OperationsMove
    <3> QED BY <2>1, <2>3, <3>1, <3>4, SupersededStays
  <2>4. CASE Proceeds(g)
    <3>1. OpenOperation(worker[g].op)' BY <2>1, <2>4 DEF Proceeds, OpenOperation, api
    <3> QED BY <2>1, <2>4, <3>1, SupersededStays
  <2> QED BY <2>1, <2>3, <2>4
<1>4. ASSUME NEW m \in Results', m.call = "complete", ops'[m.id].kind = "generate",
             OpenOperation(m.id)', m.token = ops'[m.id].token
      PROVE  volume'.key \in {m.key, None}
  <2>1. CASE m \in Results
    <3>1. m.id \in DOMAIN ops /\ m.token \in Nat /\ m.token <= ops[m.id].token
      BY <1>1, <2>1, WireTypes DEF Results, CallsOK, CallOK
    <3>2. /\ ops[m.id].kind = "generate" /\ OpenOperation(m.id) /\ m.token = ops[m.id].token
      BY <1>2, <1>4, <3>1 DEF OperationsMove
    <3>3. volume.key \in {m.key, None} BY <1>4, <2>1, <3>2 DEF GenerationsOK
    <3>4. ASSUME NEW g \in Gateways PROVE ~Generates(g)
      <4> SUFFICES ASSUME Generates(g) PROVE FALSE OBVIOUS
      <4>1. ~host.deleted BY <1>1, <3>1, <3>2 DEF OperationsOK, Generating
      <4>2. OpenOperation(worker[g].op) /\ Superseded(g) BY <4>1 DEF GenerationsOK
      <4>3. /\ worker[g].op \in DOMAIN ops /\ ops[worker[g].op].kind = "generate"
            /\ worker[g].token \in Nat /\ worker[g].token <= ops[worker[g].op].token
        BY <1>1, WorkerTypes DEF WorkersOK, WorkerOK, OperationOf, Generates, Acting, Claimant
      <4>4. m.id = worker[g].op BY <1>1, <3>1, <3>2, <4>2, <4>3 DEF RowsOK, OpenOperation
      <4>5. m.token < worker[g].token BY <2>1, <4>2, <4>4 DEF Superseded
      <4> QED BY <3>1, <3>2, <4>3, <4>4, <4>5
    <3> QED BY <3>3, <3>4 DEF VolumeMoves
  <2>2. ASSUME NEW g \in Gateways, Reported(g, m) PROVE volume'.key \in {m.key, None}
    BY <1>4, <2>2 DEF Reported
  <2> QED BY <2>1, <2>2 DEF ResultsMove
<1> QED BY <1>3, <1>4 DEF GenerationsOK

\* What is erased stays so once the host is deleted.
LEMMA ErasedStays ==
  ASSUME WellFormed, Kept, WorkersMove, VolumeMoves, host.deleted, Erased
  PROVE  Erased'
<1>1. volume'.key = None BY DEF Erased, VolumeMoves
<1>2. ASSUME NEW g \in Gateways, Generates(g)' PROVE FALSE
  BY <1>2, GeneratedBefore DEF Erased, Generating
<1> QED BY <1>1, <1>2 DEF Erased

LEMMA ErasureMoves ==
  ASSUME WellFormed, Kept, ErasureOK, WorkersMove, ResultsMove, VolumeMoves, OperationsMove
  PROVE  ErasureOK'
<1>1. TypeOK /\ OperationsOK /\ WorkersOK /\ CallsOK BY DEF WellFormed
<1>2. ASSUME NEW i \in DOMAIN ops', ops'[i].kind = "delete",
             \/ ops'[i].state = "completed"
             \/ \E m \in wire' : m.call = "complete" /\ m.id = i
      PROVE  Erased'
  <2>1. ASSUME NEW g \in Gateways, NEW m, Reported(g, m), m.call = "complete", m.id = i PROVE Erased'
    <3>1. /\ Claimant(g) /\ worker[g].op = i /\ Acting(g) /\ Finishing(g)'
      BY <2>1 DEF Reported
    <3>2. i \in DOMAIN ops BY <1>1, <3>1 DEF WorkersOK, WorkerOK
    <3>3. OperationOf(g).kind = "delete" BY <1>2, <3>1, <3>2 DEF OperationOf, Kept, Grows
    <3>4. volume'.key = None BY <2>1, <3>3 DEF Reported
    <3>5. ASSUME NEW h \in Gateways, Generates(h)' PROVE FALSE
      <4>1. Acting(h)' /\ (Acting(h) \/ Proceeds(h)) BY <3>5, GeneratedBefore
      <4>2. Holder(h) /\ Holder(g) BY <3>1, <4>1 DEF Holder, Acting, Proceeds
      <4>3. h = g BY <1>1, <4>2, OneHolder
      <4> QED BY <3>1, <4>1, <4>3 DEF Acting, Finishing
    <3> QED BY <3>4, <3>5 DEF Erased
  <2>2. ASSUME i \in DOMAIN ops, \/ ops[i].state = "completed"
                                 \/ \E m \in wire : m.call = "complete" /\ m.id = i
        PROVE  Erased'
    <3>1. ops[i].kind = "delete" BY <1>2, <2>2 DEF Kept, Grows
    <3>2. host.deleted /\ Erased BY <1>1, <2>2, <3>1 DEF OperationsOK, ErasureOK
    <3> QED BY <3>2, ErasedStays
  <2>3. CASE ops'[i].state = "completed" BY <2>2, <2>3 DEF OperationsMove
  <2>4. ASSUME NEW m \in wire', m.call = "complete", m.id = i PROVE Erased'
    <3>1. CASE m \in wire
      <4>1. i \in DOMAIN ops BY <1>1, <2>4, <3>1 DEF CallsOK, CallOK
      <4> QED BY <2>2, <2>4, <3>1, <4>1
    <3>2. CASE m \notin wire
      <4>1. m \in Results' /\ m \notin Results BY <2>4, <3>2 DEF Results
      <4> QED BY <2>1, <2>4, <4>1 DEF ResultsMove
    <3> QED BY <3>1, <3>2
  <2> QED BY <1>2, <2>3, <2>4
<1> QED BY <1>2 DEF ErasureOK

LEMMA PublicationMoves ==
  ASSUME WellFormed, GenerationsOK, PublishedIsStored, VolumeMoves, HostMoves
  PROVE  PublishedIsStored'
<1> SUFFICES ASSUME host'.identity = "ready", ~host'.deleted PROVE volume'.key \in {host'.key, None}
  BY DEF PublishedIsStored
<1>1. ~host.deleted BY DEF HostMoves
<1>2. CASE host.identity = "ready" /\ host'.key = host.key
  <2>1. volume.key \in {host.key, None} BY <1>1, <1>2 DEF PublishedIsStored
  <2>2. ASSUME NEW g \in Gateways, Generates(g) PROVE FALSE
    <3>1. OpenOperation(worker[g].op) BY <1>1, <2>2 DEF GenerationsOK
    <3>2. worker[g].op \in DOMAIN ops /\ ops[worker[g].op].kind = "generate"
      BY <2>2 DEF WellFormed, WorkersOK, WorkerOK, OperationOf, Generates, Acting, Claimant
    <3> QED BY <1>2, <3>1, <3>2 DEF WellFormed, OperationsOK, Generating
  <2> QED BY <1>2, <2>1, <2>2 DEF VolumeMoves
<1>3. ASSUME NEW m \in Results, m.call = "complete", ops[m.id].kind = "generate", OpenOperation(m.id),
             m.token = ops[m.id].token, host'.key = m.key, UNCHANGED volume
      PROVE  volume'.key \in {host'.key, None}
  BY <1>3 DEF GenerationsOK
<1> QED BY <1>2, <1>3 DEF HostMoves

\* Claims, generations and keys stay as they should.
LEMMA KeysStep ==
  ASSUME WellFormed, ClaimsOK, GenerationsOK, ErasureOK, PublishedIsStored, [Next]_vars
  PROVE  WellFormed' /\ ClaimsOK' /\ GenerationsOK' /\ ErasureOK' /\ PublishedIsStored'
<1>1. WellFormed' /\ Kept BY WellFormedStep, RowsKept
<1>2. WorkersMove /\ ResultsMove /\ VolumeMoves /\ OperationsMove /\ HostMoves BY KeysMove
<1> QED BY <1>1, <1>2, ClaimsMove, GenerationsMove, ErasureMoves, PublicationMoves

LEMMA KeysInit ==
  ASSUME Init PROVE ClaimsOK /\ GenerationsOK /\ ErasureOK /\ PublishedIsStored
<1>1. \A g \in Gateways : ~Claimant(g) /\ ~Generates(g)
  BY DEF Init, Claimant, Generates, Acting, RestingWorker
<1>2. wire = {} /\ Results = {} BY DEF Init, Results
<1>3. ClaimsOK /\ GenerationsOK BY <1>1, <1>2 DEF ClaimsOK, GenerationsOK
<1>4. \A i \in DOMAIN ops : ops[i].kind # "delete"
  <2>1. ~CreatedHost.deleted BY DEF CreatedHost
  <2>2. ~[CreatedHost EXCEPT !.identity = "ready", !.key = 1, !.trusted = server,
                             !.enabled = TRUE, !.revision = 4].deleted
    BY DEF CreatedHost
  <2>3. ~host.deleted BY <2>1, <2>2 DEF Init
  <2> QED BY <2>3, InitWellFormed DEF WellFormed, OperationsOK
<1>5. ErasureOK BY <1>4 DEF ErasureOK
<1>6. PublishedIsStored
  <2>1. CASE host = CreatedHost BY <2>1 DEF PublishedIsStored, CreatedHost
  <2>2. CASE /\ host = [CreatedHost EXCEPT !.identity = "ready", !.key = 1, !.trusted = server,
                                           !.enabled = TRUE, !.revision = 4]
             /\ volume = [dir |-> TRUE, key |-> 1, marker |-> FALSE]
    BY <2>2 DEF PublishedIsStored, CreatedHost
  <2> QED BY <2>1, <2>2 DEF Init
<1> QED BY <1>3, <1>5, <1>6

\* Once the deletion of the identity has been acknowledged no private key of it is on
\* the volume (complete_identity_operation, process_operation).
THEOREM DeletedKeysStayGone == Spec => []DeletedKeyStaysGone
<1>1. Init => KeyInv BY InitWellFormed, KeysInit DEF KeyInv
<1>2. KeyInv /\ [Next]_vars => KeyInv' BY KeysStep DEF KeyInv
<1>3. KeyInv => DeletedKeyStaysGone BY DEF KeyInv, ErasureOK, Erased, DeletedKeyStaysGone
<1> QED BY <1>1, <1>2, <1>3, PTL DEF Spec

\* The key the page shows belongs to the private key on the volume, unless that was lost
\* (generate_identity_blocking, complete_identity_operation).
THEOREM PublishedKeysAreStored == Spec => []PublishedIsStored
<1>1. Init => KeyInv BY InitWellFormed, KeysInit DEF KeyInv
<1>2. KeyInv /\ [Next]_vars => KeyInv' BY KeysStep DEF KeyInv
<1>3. KeyInv => PublishedIsStored BY DEF KeyInv
<1> QED BY <1>1, <1>2, <1>3, PTL DEF Spec

----------------------------------------------------------------------------
(* Terminals *)

\* A connection whose ticket is consumed for it.
Admits(c) ==
    /\ conn[c].pc = "consume" /\ conn[c].ticket \in DOMAIN tickets
    /\ tickets[conn[c].ticket].state = "open" /\ ~Bridged(c)'

\* A terminal that the API has just let go ahead.
Bridges(c) ==
    session' = [session EXCEPT ![conn[c].ticket].state = "active", ![conn[c].ticket].silent = FALSE]

\* What becomes of connections, one of which a step admits at most.
ConnsGoOn ==
    /\ \A c, d \in Conns : Admitted(c)' /\ ~Admitted(c) /\ Admitted(d)' /\ ~Admitted(d) => c = d
    /\ \A c \in Conns :
          /\ conn'[c].missed \in {conn[c].missed} \cup 0..(MaxMissed - 1)
          /\ Admitted(c)' =>
                /\ conn'[c].ticket = conn[c].ticket
                /\ \/ Admits(c)
                   \/ /\ Admitted(c)
                      /\ conn[c].pc = "closed" => conn'[c].pc = "closed"
                      /\ Bridged(c)' => Bridged(c) \/ Bridges(c)

\* A connection reports the end of its terminal and nothing after it.
ClosesGoOn ==
    \A m \in wire' : m.call = "closed" =>
        \/ m \in wire
        \/ \E c \in Conns : Admitted(c) /\ conn[c].ticket = m.id /\ conn'[c].pc = "closed"
                            /\ conn'[c].ticket = conn[c].ticket

\* What a session was opened under does not come back.
AuthorityShrinks ==
    /\ host.deleted => host'.deleted
    /\ host.revision <= host'.revision /\ host'.revision \in Nat
    /\ browser' \subseteq browser

\* Connections that rest or are gone.
LEMMA ConnsRest ==
  ASSUME ProcessesOK, \A c \in Conns : conn'[c] = conn[c] \/ conn'[c] = NoConn
  PROVE  ConnsGoOn
<1>1. ASSUME NEW c \in Conns, conn'[c] = conn[c]
      PROVE  /\ Admitted(c)' <=> Admitted(c)
             /\ Bridged(c)' <=> Bridged(c)
  BY <1>1 DEF Admitted, Bridged
<1>2. ASSUME NEW c \in Conns, conn'[c] = NoConn PROVE ~Admitted(c)' /\ conn'[c].missed = 0
  BY <1>2 DEF Admitted, NoConn
<1>3. 0 \in 0..(MaxMissed - 1) BY SshAssumption
<1> QED BY <1>1, <1>2, <1>3 DEF ConnsGoOn

LEMMA ClosesRest == ASSUME wire' \subseteq wire PROVE ClosesGoOn
  BY DEF ClosesGoOn

LEMMA ConnsMoved ==
  ASSUME WellFormed, [Next]_vars
  PROVE  ConnsGoOn /\ ClosesGoOn
<1>1. WorkersOK /\ ProcessesOK /\ RowsOK /\ OperationsOK /\ ConnsOK BY DEF WellFormed, TypeOK
<1>2. UNCHANGED conn => ConnsGoOn BY <1>1, ConnsRest
<1>3. CASE RowStep \/ VolumeLost \/ HostKeyChanges \/ UNCHANGED vars
  <2>1. UNCHANGED <<wire, conn>> BY <1>3, RowStepFrame DEF VolumeLost, HostKeyChanges, vars, gateway
  <2> QED BY <1>2, <2>1, ClosesRest
<1>4. ASSUME NEW g \in Gateways, WorkerSide(g) PROVE ConnsGoOn /\ ClosesGoOn
  <2>1. UNCHANGED conn BY <1>4, WorkerSideFrame
  <2>2. \A m \in wire' : m \in wire \/ m.call \in WorkerCalls BY <1>4, WorkerSideCalls
  <2> QED BY <1>2, <2>1, <2>2 DEF ClosesGoOn, WorkerCalls
<1>5. ASSUME NEW g \in Gateways, Crash(g) PROVE ConnsGoOn /\ ClosesGoOn
  <2>1. Kept /\ TicketsGrow /\ UNCHANGED wire
    BY <1>5, RowsKept, TicketsKept DEF Crash
  <2>2. \A c \in Conns : conn'[c] = conn[c] \/ conn'[c] = NoConn BY <1>5, <2>1, CrashKeeps
  <2> QED BY <1>1, <2>1, <2>2, ConnsRest, ClosesRest
<1>6. ASSUME NEW c \in Conns, ConnSide(c) PROVE ConnsGoOn /\ ClosesGoOn
  <2>1. /\ \A d \in Conns : d # c => conn'[d] = conn[d]
        /\ \/ wire' = wire
           \/ \E r \in Message :
                /\ wire' = wire \cup {r} /\ r.id = conn'[c].ticket /\ conn'[c].pc = r.call
                /\ r.call = "closed" => conn[c].pc = "closing"
        /\ \/ conn'[c] = NoConn
           \/ /\ conn[c].pc = "idle" /\ conn'[c].pc = "consume" /\ conn'[c].missed = 0
           \/ /\ Admitted(c) /\ conn[c].pc # "closed" /\ conn'[c].pc \notin {"consume", "idle"}
              /\ conn'[c].ticket = conn[c].ticket
              /\ Bridged(c)' => Bridged(c)
              /\ conn'[c].missed = conn[c].missed \/ conn'[c].missed < MaxMissed
    BY <1>1, <1>6, ConnSideMoves
  <2>2. conn'[c].missed \in Nat
    <3>1. conn' \in [Conns -> Connection] BY <1>1, <1>6, ConnSideMoves
    <3> QED BY <3>1 DEF Connection
  <2>3. conn'[c].missed \in {conn[c].missed} \cup 0..(MaxMissed - 1)
    BY <2>1, <2>2, SshAssumption DEF NoConn
  <2>4. Admitted(c)' => /\ Admitted(c) /\ conn[c].pc # "closed" /\ conn'[c].ticket = conn[c].ticket
                        /\ Bridged(c)' => Bridged(c)
    BY <2>1 DEF Admitted, NoConn
  <2>5. ASSUME NEW d \in Conns, d # c
        PROVE  conn'[d] = conn[d] /\ (Admitted(d)' <=> Admitted(d)) /\ (Bridged(d)' <=> Bridged(d))
    BY <2>1, <2>5 DEF Admitted, Bridged
  <2>6. ConnsGoOn BY <2>3, <2>4, <2>5 DEF ConnsGoOn
  <2>7. ASSUME NEW m \in wire', m.call = "closed", m \notin wire
        PROVE  Admitted(c) /\ conn[c].ticket = m.id /\ conn'[c].pc = "closed" /\ conn'[c].ticket = conn[c].ticket
    <3>1. m.id = conn'[c].ticket /\ conn'[c].pc = "closed" BY <2>1, <2>7
    <3> QED BY <2>4, <3>1 DEF Admitted
  <2> QED BY <2>6, <2>7 DEF ClosesGoOn
<1>7. ASSUME NEW m \in wire, Serve(m) PROVE ConnsGoOn /\ ClosesGoOn
  <2>1. Heard(m) /\ wire' = wire \ {m} /\ UNCHANGED browser BY <1>7, ServeFrame, ConnAnswered
  <2>2. ASSUME NEW c \in Conns
        PROVE  /\ conn'[c].missed \in {conn[c].missed} \cup 0..(MaxMissed - 1)
               /\ Admitted(c)' =>
                     /\ conn'[c].ticket = conn[c].ticket
                     /\ \/ Admits(c)
                        \/ /\ Admitted(c)
                           /\ conn[c].pc = "closed" => conn'[c].pc = "closed"
                           /\ Bridged(c)' => Bridged(c) \/ Bridges(c)
    <3>1. 0 \in 0..(MaxMissed - 1) BY SshAssumption
    <3>2. CASE conn'[c] = conn[c] BY <3>2 DEF Admitted, Bridged
    <3>3. CASE conn'[c] = NoConn BY <3>1, <3>3 DEF Admitted, NoConn
    <3>4. CASE /\ conn[c].pc = "consume" /\ m.call = "consume" /\ conn[c].ticket = m.id /\ MayConsume(m.id)
               /\ conn'[c].ticket = conn[c].ticket
               /\ conn'[c].pc = "granted" /\ conn'[c].missed = conn[c].missed
      <4>1. conn[c].ticket \in DOMAIN tickets BY <1>1, <3>4 DEF ConnsOK, ConnOK
      <4>2. Admits(c) BY <3>4, <4>1 DEF Admits, MayConsume, Bridged
      <4> QED BY <3>4, <4>2
    <3>5. CASE /\ conn[c].pc \in {"candidate", "invalid", "connected", "heartbeat"}
               /\ conn'[c].ticket = conn[c].ticket /\ conn'[c].pc = "closing"
               /\ conn'[c].missed = conn[c].missed \/ conn'[c].missed = 0
      BY <3>1, <3>5 DEF Admitted, Bridged
    <3>6. CASE /\ conn[c].pc = "connected" /\ m.call = "connected" /\ conn[c].ticket = m.id
               /\ conn'[c].ticket = conn[c].ticket
               /\ Authorised(m.id) /\ session[m.id].state = "connecting"
               /\ session' = [session EXCEPT ![m.id].state = "active", ![m.id].silent = FALSE]
               /\ conn'[c].pc = "bridging" /\ conn'[c].missed = conn[c].missed
      <4>1. Bridges(c) BY <3>6 DEF Bridges
      <4> QED BY <3>6, <4>1 DEF Admitted
    <3>7. CASE /\ conn[c].pc = "heartbeat" /\ conn'[c].ticket = conn[c].ticket
               /\ conn'[c].pc = "bridging" /\ conn'[c].missed = 0
      BY <3>1, <3>7 DEF Admitted, Bridged
    <3> QED BY <2>1, <3>2, <3>3, <3>4, <3>5, <3>6, <3>7 DEF Heard
  <2>3. \A c \in Conns : Admitted(c)' /\ ~Admitted(c) => c = m.from
    BY <2>1 DEF Heard, Admitted
  <2> QED BY <2>1, <2>2, <2>3, ClosesRest DEF ConnsGoOn
<1> QED BY <1>3, <1>4, <1>5, <1>6, <1>7, StepsByActor

LEMMA AuthorityMoves ==
  ASSUME WellFormed, [Next]_vars
  PROVE  AuthorityShrinks
<1>1. RowsOK /\ host \in Host /\ host.revision \in Nat /\ host.revision <= host.revision + 1
  BY HostTypes DEF WellFormed, TypeOK
<1>2. host'.revision \in Nat
  <2>1. RowsOK' BY WellFormedStep DEF WellFormed, TypeOK
  <2> QED BY <2>1 DEF RowsOK, Host
<1>3. /\ host.deleted => host'.deleted
      /\ host'.revision \in {host.revision, host.revision + 1}
  <2>1. CASE UNCHANGED host BY <2>1
  <2>2. CASE RowStep
    <3>1. CASE DeleteHost BY <1>1, <3>1 DEF DeleteHost, Host
    <3>2. CASE RetryIdentity BY <1>1, <3>2 DEF RetryIdentity, Host
    <3>3. CASE \E f \in HostKeys : TrustHostKey(f) BY <1>1, <3>3 DEF TrustHostKey, Host
    <3> QED BY <2>1, <2>2, <3>1, <3>2, <3>3
            DEF RowStep, BrowserSessionEnds, IssueTicket, TicketExpires, SessionFallsSilent,
                LeaseLapses, api
  <2>3. ASSUME NEW m \in wire, Serve(m)
        PROVE  (host.deleted => host'.deleted) /\ host'.revision \in {host.revision, host.revision + 1}
    <3>1. CASE CompleteIdentityOperation(m) BY <1>1, <2>1, <3>1 DEF CompleteIdentityOperation, Host, api
    <3>2. CASE FailIdentityOperation(m) BY <1>1, <2>1, <3>2 DEF FailIdentityOperation, Host
    <3>3. CASE ReportHostKeyCandidate(m) BY <1>1, <2>1, <3>3 DEF ReportHostKeyCandidate, Host
    <3>4. CASE ReportIdentityInvalid(m) BY <1>1, <2>1, <3>4 DEF ReportIdentityInvalid, Host
    <3> QED BY <2>1, <2>3, <3>1, <3>2, <3>3, <3>4
            DEF Serve, ClaimIdentityOperation, HeartbeatIdentityOperation, ConsumeTicket,
                SessionConnected, SessionHeartbeat, SessionClosed, api
  <2> QED BY <2>1, <2>2, <2>3, StepsByActor, WorkerSideFrame, ConnSideFrame
          DEF Crash, VolumeLost, HostKeyChanges, vars, api
<1>4. browser' \subseteq browser
  <2>1. CASE RowStep
    BY <2>1 DEF RowStep, DeleteHost, RetryIdentity, TrustHostKey, BrowserSessionEnds, IssueTicket,
                TicketExpires, SessionFallsSilent, LeaseLapses
  <2> QED BY <2>1, StepsByActor, ServeFrame, WorkerSideFrame, ConnSideFrame
          DEF Crash, VolumeLost, HostKeyChanges, vars
<1> QED BY <1>1, <1>2, <1>3, <1>4 DEF AuthorityShrinks

\* A session is never of a revision the host has not reached.
LEMMA RevisionsMove ==
  ASSUME WellFormed, WellFormed', AuthorityShrinks, SessionsMove, SessionsOK,
         NEW t \in DOMAIN session'
  PROVE  session'[t].revision <= host'.revision
<1>1. RowsOK /\ RowsOK' /\ host.revision \in Nat
  <2>1. RowsOK /\ RowsOK' BY DEF WellFormed, TypeOK
  <2> QED BY <2>1, HostTypes
<1>2. CASE session'[t] = Ended \/ session'[t] = NoSession
  BY <1>2 DEF Ended, NoSession, AuthorityShrinks
<1>3. CASE StaysUnder(t)
  <2>1. session[t].revision \in Nat BY <1>1, <1>3, RowTypes DEF StaysUnder, Session
  <2>2. session[t].revision <= host.revision BY <1>3 DEF SessionsOK, StaysUnder
  <2> QED BY <1>1, <1>3, <2>1, <2>2 DEF StaysUnder, AuthorityShrinks
<1>4. CASE ConsumedNow(t)
  BY <1>4, ConsumedAllowed DEF AuthorityShrinks
<1> QED BY <1>2, <1>3, <1>4 DEF SessionsMove, Begins

\* An authorization that is withdrawn stays so.
LEMMA WithdrawnStays ==
  ASSUME WellFormed, WellFormed', TicketsGrow, AuthorityShrinks, SessionsMove, SessionsOK,
         NEW t \in DOMAIN tickets, tickets[t].state = "consumed", Withdrawn(t)
  PROVE  Withdrawn(t)'
<1>1. RowsOK /\ t \in DOMAIN session /\ t \in DOMAIN session'
      /\ host.revision \in Nat /\ session[t].revision \in Nat
  <2>1. RowsOK /\ DOMAIN session' = DOMAIN tickets' /\ DOMAIN session = DOMAIN tickets
    <3>1. RowsOK /\ RowsOK' BY DEF WellFormed, TypeOK
    <3> QED BY <3>1, LenProperties DEF RowsOK
  <2>2. session[t] \in Session /\ host.revision \in Nat BY <2>1, RowTypes, HostTypes
  <2> QED BY <2>1, <2>2 DEF TicketsGrow, Session
<1>2. CASE session'[t] = Ended BY <1>2, EndedIsSession DEF Withdrawn
<1>3. CASE StaysUnder(t)
  <2>1. CASE session[t].state = "closed" BY <1>3, <2>1 DEF Withdrawn, StaysUnder
  <2>2. CASE host.deleted BY <2>2 DEF Withdrawn, AuthorityShrinks
  <2>3. CASE host.revision # session[t].revision
    <3>1. session[t].revision < host.revision BY <1>1, <2>3 DEF SessionsOK
    <3> QED BY <1>1, <1>3, <3>1 DEF Withdrawn, StaysUnder, AuthorityShrinks
  <2>4. CASE ~LoggedIn(t) BY <2>4 DEF Withdrawn, LoggedIn, TicketsGrow, AuthorityShrinks
  <2> QED BY <2>1, <2>2, <2>3, <2>4 DEF Withdrawn
<1>4. ~ConsumedNow(t) BY DEF ConsumedNow, MayConsume
<1> QED BY <1>1, <1>2, <1>3, <1>4 DEF SessionsMove, Begins

\* A ticket admits one connection.
LEMMA AdmissionsMove ==
  ASSUME WellFormed, AdmissionsOK, ConnsGoOn, ClosesGoOn
  PROVE  AdmissionsOK'
<1>1. \A c \in Conns : Admitted(c) => conn[c].ticket \in DOMAIN tickets /\ tickets[conn[c].ticket].state = "consumed"
  BY DEF WellFormed, ConnsOK, ConnOK, Admitted
<1>2. \A m \in wire : m.call = "closed" => tickets[m.id].state = "consumed"
  BY DEF WellFormed, ConnsOK, TicketCallOK, ConnCalls
<1>3. ASSUME NEW c \in Conns, NEW d \in Conns, Admitted(c)', Admitted(d)', conn'[c].ticket = conn'[d].ticket
      PROVE  c = d
  <2>1. conn[c].ticket = conn[d].ticket /\ (Admitted(c) \/ Admits(c)) /\ (Admitted(d) \/ Admits(d))
    BY <1>3 DEF ConnsGoOn
  <2>2. CASE Admitted(c) /\ Admitted(d) BY <2>1, <2>2 DEF AdmissionsOK
  <2>3. CASE ~Admitted(c) /\ ~Admitted(d) BY <1>3, <2>3 DEF ConnsGoOn
  <2> QED BY <1>1, <2>1, <2>2, <2>3 DEF Admits
<1>4. ASSUME NEW m \in wire', m.call = "closed", NEW c \in Conns, Admitted(c)', conn'[c].ticket = m.id
      PROVE  conn'[c].pc = "closed"
  <2>1. conn'[c].ticket = conn[c].ticket BY <1>4 DEF ConnsGoOn
  <2>2. CASE m \in wire
    <3>1. tickets[conn[c].ticket].state = "consumed" BY <1>2, <1>4, <2>1, <2>2
    <3>2. Admitted(c) BY <1>4, <3>1 DEF ConnsGoOn, Admits
    <3>3. conn[c].pc = "closed" BY <1>4, <2>1, <2>2, <3>2 DEF AdmissionsOK
    <3> QED BY <1>1, <1>4, <3>1, <3>3 DEF ConnsGoOn, Admits
  <2>3. ASSUME NEW d \in Conns, Admitted(d), conn[d].ticket = m.id, conn'[d].pc = "closed",
               conn'[d].ticket = conn[d].ticket
        PROVE  conn'[c].pc = "closed"
    <3>1. Admitted(d)' BY <2>3 DEF Admitted
    <3> QED BY <1>3, <1>4, <2>3, <3>1
  <2> QED BY <1>4, <2>2, <2>3 DEF ClosesGoOn
<1> QED BY <1>3, <1>4 DEF AdmissionsOK

\* An administrator has one open session: a terminal ticket is not consumed beside one.
LEMMA OneSessionMoves ==
  ASSUME WellFormed, WellFormed', TicketsGrow, OneOpenSession, SessionsMove
  PROVE  OneOpenSession'
<1>1. RowsOK /\ OperationsOK /\ ProcessesOK /\ ConnsOK BY DEF WellFormed, TypeOK
<1>2. DOMAIN session = DOMAIN tickets BY <1>1, RowTypes
<1>3. ASSUME NEW t \in DOMAIN session', NEW u \in DOMAIN session', t # u,
             Open(session'[t]), Open(session'[u]), tickets'[t].admin = tickets'[u].admin,
             ConsumedNow(t)
      PROVE  FALSE
  <2>1. PICK m \in wire : /\ m.call = "consume" /\ m.id = t /\ t \in DOMAIN tickets
                          /\ ConsumeTicket(m) /\ MayConsume(t) /\ tickets[t].purpose = "terminal"
    BY <1>3 DEF ConsumedNow
  <2>2. /\ DOMAIN session' = DOMAIN tickets
        /\ \A v \in DOMAIN session : v # t => session'[v] = Swept[v]
        /\ \A v \in DOMAIN tickets : tickets'[v].admin = tickets[v].admin
    <3>1. m \in Message BY <1>1, WireTypes
    <3> QED BY <1>1, <2>1, <3>1, Consuming
  <2>3. u \in DOMAIN session /\ Open(Swept[u]) /\ tickets[u].admin = tickets[t].admin
    BY <1>2, <1>3, <2>1, <2>2
  <2> QED BY <1>3, <2>3, ConsumedAllowed DEF HasTerminal
<1>4. ASSUME NEW t \in DOMAIN session', NEW u \in DOMAIN session', Open(session'[t]), Open(session'[u]),
             tickets'[t].admin = tickets'[u].admin
      PROVE  t = u
  <2>1. CASE StaysOpen(t) /\ StaysOpen(u)
    <3>1. tickets[t].admin = tickets[u].admin BY <1>2, <1>4, <2>1 DEF StaysOpen, TicketsGrow
    <3> QED BY <2>1, <3>1 DEF OneOpenSession, StaysOpen
  <2> QED BY <1>3, <1>4, <2>1 DEF SessionsMove
<1> QED BY <1>4 DEF OneOpenSession

\* The session of a terminal that answers in time is not taken for abandoned.
LEMMA TerminalStays ==
  ASSUME WellFormed, AdmissionsOK, Margin, Tolerated >= MaxMissed, [Next]_vars,
         NEW c \in Conns, Bridged(c),
         session[conn[c].ticket].state = "active", ~session[conn[c].ticket].silent
  PROVE  \/ session'[conn[c].ticket].state = "active" /\ ~session'[conn[c].ticket].silent
         \/ session'[conn[c].ticket].state = "closed"
<1> DEFINE t == conn[c].ticket
<1>1. RowsOK /\ OperationsOK /\ ProcessesOK /\ ConnsOK /\ host \in Host /\ session \in Seq(Session)
  BY DEF WellFormed, TypeOK, RowsOK
<1>2. t \in DOMAIN tickets /\ tickets[t].state = "consumed" /\ DOMAIN session = DOMAIN tickets
      /\ session[t] \in Session /\ Open(session[t])
  <2>1. t \in DOMAIN tickets /\ tickets[t].state = "consumed"
    BY <1>1 DEF ConnsOK, ConnOK, Admitted, Bridged
  <2> QED BY <1>1, <2>1, RowTypes DEF Open
<1> HIDE DEF t
<1> DEFINE Stays == \/ session'[t].state = "active" /\ ~session'[t].silent
                    \/ session'[t].state = "closed"
<1>3. SUFFICES Stays BY DEF t
<1>4. CASE session' = CloseSessions BY <1>2, <1>4, EndedIsSession DEF CloseSessions
<1>5. session[t].state = "active" /\ ~session[t].silent BY DEF t
<1>6. CASE UNCHANGED session BY <1>5, <1>6
<1>7. CASE RowStep
  <2>1. CASE DeleteHost \/ \E f \in HostKeys : TrustHostKey(f)
    BY <1>4, <2>1 DEF DeleteHost, TrustHostKey
  <2>3. ASSUME NEW a \in Admins, NEW l \in Logins, NEW purpose \in {"probe", "terminal"},
               IssueTicket(a, l, purpose)
        PROVE  session'[t] = session[t]
    BY <1>1, <1>2, <2>3, RowAppended, EndedIsSession DEF IssueTicket
  <2>4. ASSUME NEW u \in DOMAIN tickets, SessionFallsSilent(u) PROVE session'[t] = session[t]
    <3>1. u # t
      <4>1. conn[c].missed < MaxMissed /\ conn[c].missed \in Nat BY <1>1, ConnTypes DEF Margin
      <4>2. ~(conn[c].missed >= Tolerated) BY <4>1, SshAssumption
      <4> QED BY <1>5, <2>4, <4>2 DEF SessionFallsSilent, t
    <3> QED BY <1>2, <2>4, <3>1 DEF SessionFallsSilent
  <2> QED BY <1>5, <1>6, <1>7, <2>1, <2>3, <2>4
          DEF RowStep, RetryIdentity, BrowserSessionEnds, TicketExpires, LeaseLapses, api
<1>8. ASSUME NEW m \in wire, Serve(m) PROVE Stays
  <2>1. m \in Message /\ (m.call \in ConnCalls => m.id \in DOMAIN tickets)
    BY <1>1, WireTypes DEF ConnsOK, TicketCallOK
  <2>2. CASE m.call = "consume" /\ ConsumeTicket(m) /\ MayConsume(m.id)
    <3>1. m.id \in DOMAIN tickets /\ m.id # t BY <1>2, <2>1, <2>2 DEF ConnCalls, MayConsume
    <3>2. Swept[t] = session[t] BY <1>1, <1>2, <1>5, Sweeping
    <3>3. session'[t] \in {session[t], Swept[t]}
      <4>1. tickets[m.id].purpose \in {"probe", "terminal"} BY <1>1, <3>1, RowTypes DEF Ticket
      <4> QED BY <1>1, <1>2, <2>1, <2>2, <3>1, <4>1, Consuming
    <3> QED BY <1>5, <3>2, <3>3
  <2>3. CASE m.call = "invalid" /\ ReportIdentityInvalid(m)
    BY <1>4, <1>6, <2>3 DEF ReportIdentityInvalid
  <2>4. CASE /\ m.call \in {"connected", "heartbeat", "closed"} /\ m.id # t
             /\ SessionConnected(m) \/ SessionHeartbeat(m) \/ SessionClosed(m)
    <3>1. m.id \in DOMAIN tickets BY <2>1, <2>4 DEF ConnCalls
    <3> QED BY <1>2, <1>5, <2>4, <3>1, SessionCallMoves
  <2>5. CASE m.call = "connected" /\ SessionConnected(m) /\ m.id = t
    BY <1>2, <1>5, <1>6, <2>5, EndedIsSession DEF SessionConnected
  <2>6. CASE m.call = "heartbeat" /\ SessionHeartbeat(m) /\ m.id = t
    <3>1. \/ session' = [session EXCEPT ![t].silent = FALSE]
          \/ session' = [session EXCEPT ![t] = Ended]
      BY <1>5, <2>6 DEF SessionHeartbeat
    <3> QED BY <1>2, <1>5, <3>1, EndedIsSession DEF Session
  <2>7. ~(m.call = "closed" /\ m.id = t) BY DEF AdmissionsOK, Bridged, Admitted, t
  <2> QED BY <1>6, <1>8, <2>2, <2>3, <2>4, <2>5, <2>6, <2>7
          DEF Serve, ClaimIdentityOperation, HeartbeatIdentityOperation, CompleteIdentityOperation,
              FailIdentityOperation, ConsumeTicket, ReportHostKeyCandidate, ReportIdentityInvalid, api
<1> QED BY <1>6, <1>7, <1>8, StepsByActor, WorkerSideFrame, ConnSideFrame
        DEF Crash, VolumeLost, HostKeyChanges, vars, api

LEMMA SessionsGoOn ==
  ASSUME WellFormed, WellFormed', TicketsGrow, AdmissionsOK, SessionsOK, Margin, Tolerated >= MaxMissed,
         [Next]_vars, AuthorityShrinks, SessionsMove, ConnsGoOn
  PROVE  SessionsOK'
<1>1. RowsOK /\ ConnsOK /\ DOMAIN session = DOMAIN tickets
  <2>1. RowsOK /\ ConnsOK BY DEF WellFormed, TypeOK
  <2> QED BY <2>1, RowTypes
<1>2. ASSUME NEW c \in Conns, Bridged(c)'
      PROVE  \/ session'[conn'[c].ticket].state = "active" /\ ~session'[conn'[c].ticket].silent
             \/ Withdrawn(conn[c].ticket)' /\ conn'[c].ticket = conn[c].ticket
  <2>1. /\ Admitted(c) /\ conn'[c].ticket = conn[c].ticket /\ (Bridged(c) \/ Bridges(c))
    BY <1>2 DEF ConnsGoOn, Admitted, Bridged, Admits
  <2>2. conn[c].ticket \in DOMAIN tickets /\ tickets[conn[c].ticket].state = "consumed"
    BY <1>1, <2>1 DEF ConnsOK, ConnOK, Admitted
  <2>3. CASE Bridged(c) /\ Withdrawn(conn[c].ticket) BY <2>1, <2>2, <2>3, WithdrawnStays
  <2>4. CASE /\ Bridged(c) /\ session[conn[c].ticket].state = "active"
             /\ ~session[conn[c].ticket].silent
    BY <2>1, <2>4, TerminalStays DEF Withdrawn
  <2>5. CASE Bridges(c)
    <3>1. session[conn[c].ticket] \in Session /\ conn[c].ticket \in DOMAIN session BY <1>1, <2>2, RowTypes
    <3> QED BY <2>1, <2>5, <3>1 DEF Bridges, Session
  <2> QED BY <2>1, <2>3, <2>4, <2>5 DEF SessionsOK
<1> QED BY <1>2, RevisionsMove DEF SessionsOK, Withdrawn, LoggedIn

\* Two terminals of one administrator that are authorised have one session, one ticket
\* and one connection.
LEMMA OneIsAuthorised ==
  ASSUME TerminalInv PROVE OneTerminalPerAdmin
<1> USE DEF TerminalInv
<1> SUFFICES ASSUME NEW c \in Conns, NEW d \in Conns, Bridged(c), Bridged(d), c # d,
                    tickets[conn[c].ticket].admin = tickets[conn[d].ticket].admin,
                    ~Withdrawn(conn[c].ticket), ~Withdrawn(conn[d].ticket)
             PROVE  FALSE
  BY DEF OneTerminalPerAdmin
<1>1. Admitted(c) /\ Admitted(d) BY DEF Admitted, Bridged
<1>2. Open(session[conn[c].ticket]) /\ Open(session[conn[d].ticket]) BY DEF SessionsOK, Open
<1>3. conn[c].ticket \in DOMAIN session /\ conn[d].ticket \in DOMAIN session
  <2>1. conn[c].ticket \in DOMAIN tickets /\ conn[d].ticket \in DOMAIN tickets
    BY <1>1 DEF WellFormed, ConnsOK, ConnOK, Admitted
  <2>2. RowsOK BY DEF WellFormed, TypeOK
  <2> QED BY <2>1, <2>2, RowTypes
<1>4. conn[c].ticket = conn[d].ticket BY <1>2, <1>3 DEF OneOpenSession
<1> QED BY <1>1, <1>4 DEF AdmissionsOK

LEMMA TerminalsInit == ASSUME Init PROVE TerminalInv
<1>1. WellFormed BY InitWellFormed
<1>2. /\ \A c \in Conns : conn[c].pc = "idle" /\ conn[c].missed = 0
      /\ wire = {} /\ DOMAIN session = {}
  BY DEF Init, NoConn
<1>3. \A c \in Conns : ~Admitted(c) /\ ~Bridged(c) BY <1>2 DEF Admitted, Bridged
<1>4. AdmissionsOK BY <1>2, <1>3 DEF AdmissionsOK
<1>5. OneOpenSession /\ SessionsOK BY <1>2, <1>3 DEF OneOpenSession, SessionsOK
<1>6. Margin BY <1>2, SshAssumption DEF Margin
<1> QED BY <1>1, <1>4, <1>5, <1>6 DEF TerminalInv

LEMMA TerminalsStep ==
  ASSUME Tolerated >= MaxMissed, TerminalInv, [Next]_vars
  PROVE  TerminalInv'
<1> USE DEF TerminalInv
<1>1. WellFormed' /\ TicketsGrow BY WellFormedStep, TicketsKept
<1>2. ConnsGoOn /\ ClosesGoOn /\ AuthorityShrinks /\ SessionsMove
  BY ConnsMoved, AuthorityMoves, SessionsMoved
<1>3. AdmissionsOK' BY <1>2, AdmissionsMove
<1>4. OneOpenSession' BY <1>1, <1>2, OneSessionMoves
<1>5. SessionsOK' BY <1>1, <1>2, SessionsGoOn
<1>6. Margin'
  <2> SUFFICES ASSUME NEW c \in Conns PROVE conn'[c].missed < MaxMissed BY DEF Margin
  <2>1. conn'[c].missed \in {conn[c].missed} \cup 0..(MaxMissed - 1) BY <1>2 DEF ConnsGoOn
  <2>2. conn[c].missed < MaxMissed BY DEF Margin
  <2> QED BY <2>1, <2>2, SshAssumption
<1> QED BY <1>1, <1>3, <1>4, <1>5, <1>6

\* An administrator has at most one terminal whose authorization is not withdrawn,
\* whatever tickets, logins and decisions about the host's keys there are, where the
\* gateway ends a terminal before the API takes it for abandoned: at the default interval
\* of 15 seconds it gives up at the second heartbeat without an answer, and the API waits
\* for 45 seconds (consume_ticket, bridge_terminal).
THEOREM OneTerminal ==
  ASSUME Tolerated >= MaxMissed
  PROVE  Spec => []OneTerminalPerAdmin
<1>1. Init => TerminalInv BY TerminalsInit
<1>2. TerminalInv /\ [Next]_vars => TerminalInv' BY TerminalsStep
<1>3. TerminalInv => OneTerminalPerAdmin BY OneIsAuthorised
<1> QED BY <1>1, <1>2, <1>3, PTL DEF Spec
=============================================================================
