---------------------------- MODULE PortalLocks ----------------------------
(***************************************************************************)
(* The locks the API's transactions take in PostgreSQL: transaction-scoped *)
(* advisory locks, shared or exclusive, and locked rows.  A transaction    *)
(* takes its locks one at a time, in the order of its statements, and      *)
(* keeps them until it commits or rolls back.                              *)
(***************************************************************************)
EXTENDS Naturals, Sequences, FiniteSets

\* pg_advisory_xact_lock_shared and pg_advisory_xact_lock.
Shared(name)    == [lock |-> <<name>>, mode |-> "shared"]
Exclusive(name) == [lock |-> <<name>>, mode |-> "exclusive"]
ExclusiveOn(name, key) == [lock |-> <<name, key>>, mode |-> "exclusive"]

\* Row locks.  SELECT ... FOR UPDATE and DELETE exclude every other one; an UPDATE
\* of columns that are no key tolerates the KEY SHARE a foreign key takes on the
\* row it names.
ForUpdate(kind, id)   == [lock |-> <<kind, id>>, mode |-> "exclusive"]
NoKeyUpdate(kind, id) == [lock |-> <<kind, id>>, mode |-> "no_key_update"]
KeyShare(kind, id)    == [lock |-> <<kind, id>>, mode |-> "key_share"]

Compatible(a, b) ==
    a.lock # b.lock
    \/ {a.mode, b.mode} \in {{"shared"}, {"key_share"}, {"key_share", "no_key_update"}}

\* The first n locks of a transaction that takes the locks of seq in turn.
Taken(seq, n) == {seq[i] : i \in 1..n}

\* held: the locks of each process.  A process never waits for itself.
MayTake(held, p, l) ==
    \A q \in DOMAIN held \ {p} : \A h \in held[q] : Compatible(h, l)

\* What granting locks by MayTake is for.
Exclusion(held) ==
    \A p, q \in DOMAIN held : p # q => \A l \in held[p], h \in held[q] : Compatible(l, h)

\* wanted: the set of locks each process is waiting for.
Blocks(held, wanted, q, p) ==
    q # p /\ \E l \in wanted[p] : \E h \in held[q] : ~Compatible(h, l)

\* A set of processes each of which waits for another one of the set.
CircularWait(held, wanted) ==
    \E S \in (SUBSET (DOMAIN held)) \ {{}} :
        \A p \in S : \E q \in S : Blocks(held, wanted, q, p)
=============================================================================
