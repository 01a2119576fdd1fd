------------------------- MODULE RemoteHelperProofs -------------------------
(***************************************************************************)
(* What the runtime helper keeps for any number of generations, calls and  *)
(* faults: the safety properties of RemoteHelper and that it implements    *)
(* HostSlot.                                                               *)
(*                                                                         *)
(* The argument is about the list of effects a process has ahead of it     *)
(* while it holds the lock.  Safe says of an effect what must hold for it  *)
(* to be harmless, given the effects that come before it: a container is   *)
(* removed after its tombstone, a state file is written after its timer    *)
(* was armed, a deadline is confirmed after all of them.  Every plan is    *)
(* safe when it is made, every effect leaves the rest of the plan safe,    *)
(* and what is undone after an effect that raised is safe as well; the     *)
(* rest is what a process finds when it takes the lock from one that died. *)
(*                                                                         *)
(* The second half is about the other end of the calls, the journal the    *)
(* controller stops workloads by while it has no database session.  Its    *)
(* lines, current or not, never say more than the database promised: every *)
(* record is of the deadline of its generation or of a later one, and a    *)
(* generation marked as cleaned up has no workload and cannot get one      *)
(* back.  What the file forgets is then a question of lines alone: append  *)
(* and compaction keep a current record of every command they do not close.*)
(***************************************************************************)
EXTENDS RemoteHelper, OperationJournal, SequenceTheorems, TLAPS

\* no confirmed deadline binds the helper: fenced, or the deadline has passed
Free == tomb # 0 \/ history.promised <= now

\* a stop was asked for or the last confirmed deadline has passed: what a tombstone needs
MayFence == history.stopAsked \/ history.promised <= now

Process == [op : Operations \cup {"expire-instance", "sweep-instances", "unused", "finished"},
            gen : 0..MaxGeneration, since : Nat, created : BOOLEAN,
            prev : 0..MaxGeneration, locked : BOOLEAN, todo : Seq(Effect)]

Types ==
    /\ TypeOK
    /\ faults \in Nat
    /\ proc \in [Procs -> Process]
    /\ history \in [stopAsked : BOOLEAN, stopped : BOOLEAN, ended : BOOLEAN,
                    promised : Nat, unswept : BOOLEAN]

\* a state file names a generation and carries its deadline
StateFile(f) == f = NoState \/ (f.gen \in Generations /\ f.exp = Deadline[f.gen])

Files ==
    /\ StateFile(file) /\ StateFile(disk)
    /\ file \in {disk, NoState}
    /\ container.present => container.gen \in Generations

\* what holds whenever the lock is free, and between any two effects
World ==
    /\ Files
    /\ tomb # 0 => MayFence
    /\ history.ended \/ history.stopped => tomb # 0 /\ ~container.present
    /\ ~Free => /\ container.present
                /\ history.promised <= file.exp
                /\ file.gen \in timers \/ history.unswept

\* what a process was started for, and what the clock said
Purpose(p) ==
    /\ proc[p].op \in Operations => p \in Calls /\ proc[p].gen \in Generations
    /\ proc[p].op = "stop-instance" => history.stopAsked
    /\ proc[p].op = "expire-instance" =>
          /\ proc[p].gen \in Generations /\ p = <<"expire", proc[p].gen>>
          /\ Deadline[proc[p].gen] <= now
    /\ proc[p].op = "sweep-instances" => p = Sweeper /\ proc[p].since <= now
    /\ p \in Calls => proc[p].op \notin {"expire-instance", "sweep-instances"}
    /\ lock = p => proc[p].op \notin {"unused", "finished"}

\* the effects ahead of the n-th
Ahead(todo, n) == {todo[m] : m \in 1..(n - 1)}

Holds(before, what) == \E e \in before : e.do = what
Only(before, whats) == \A e \in before : e.do \in whats

FencedBy(before) == tomb # 0 \/ Holds(before, "tombstone")

CanFence(g) == g \in Generations /\ MayFence

\* undoing one's own start is no end of the instance
CanRemove(q, before) ==
    /\ Free \/ FencedBy(before)
    /\ q.op = "ensure-instance" \/ FencedBy(before)

\* the file names another generation by then, or the sweep is still to come
CanCancel(g, before) ==
    \/ Free \/ FencedBy(before) \/ history.unswept
    \/ /\ file.gen # g \/ Holds(before, "write-state")
       /\ [do |-> "write-state", gen |-> g] \notin before

CanRun(g, before) == g \in Generations /\ ~FencedBy(before)

Armed(g, before) == g \in timers \/ [do |-> "schedule-timer", gen |-> g] \in before

CanWrite(q, g, before) ==
    /\ g \in Generations /\ file.gen <= g /\ tomb = 0
    /\ Only(before, {"create-network", "run-container", "schedule-timer"})
    /\ Free \/ (history.promised <= Deadline[g] /\ Armed(g, before))
    /\ q.op = "update-deadline" => file.gen = q.prev

CanConfirm(g, before) ==
    /\ g \in Generations /\ tomb = 0
    /\ Only(before, {"create-network", "run-container", "schedule-timer",
                     "write-state", "cancel-timer", "wait-for-startup"})
    /\ container.present \/ Holds(before, "run-container")
    /\ file.gen = g \/ Holds(before, "write-state")
    /\ \A f \in before : f.do = "write-state" => f.gen = g
    /\ Armed(g, before)
    /\ [do |-> "cancel-timer", gen |-> g] \notin before

CanDeny(before) ==
    /\ FencedBy(before)
    /\ ~container.present \/ Holds(before, "remove-container")
    /\ ~Holds(before, "run-container")

\* the end of a service takes its timer with it, the end of a sweep vouches for all timers
CanExit(q, before) ==
    /\ ~Holds(before, "write-state")
    /\ q.op = "expire-instance" => Free \/ FencedBy(before) \/ file.gen # q.gen
    /\ q.op = "sweep-instances" =>
          \/ Free \/ FencedBy(before)
          \/ Armed(file.gen, before) /\ ~Holds(before, "cancel-timer")

\* the effect e of a process with the record q does no harm after the effects in before
Safe(q, e, before) ==
    /\ e.do = "tombstone" => CanFence(e.gen)
    /\ e.do = "remove-container" => CanRemove(q, before)
    /\ e.do = "remove-state" => Free \/ FencedBy(before)
    /\ e.do = "cancel-timer" => CanCancel(e.gen, before)
    /\ e.do = "schedule-timer" => e.gen \in Generations
    /\ e.do = "run-container" => CanRun(e.gen, before)
    /\ e.do = "write-state" => CanWrite(q, e.gen, before)
    /\ e.do = "reply-present" /\ q.op # "inspect-instance" => CanConfirm(e.gen, before)
    /\ e.do = "reply-absent" /\ q.op = "stop-instance" => CanDeny(before)
    /\ e.do = "exit" => CanExit(q, before)

SafePlan(q, todo) == \A n \in DOMAIN todo : Safe(q, todo[n], Ahead(todo, n))

Holder(p) ==
    lock = p => /\ SafePlan(proc[p], proc[p].todo)
                /\ proc[p].created => Free

HInv ==
    /\ Types /\ World
    /\ \A p \in Procs : Purpose(p) /\ Holder(p)

----------------------------------------------------------------------------
(* Lists of effects.                                                        *)

\* The lock has no holder exactly when NoProc is written in it.
LEMMA ProcsAreNamed == NoProc \notin Procs
BY DEF NoProc, Procs, Calls, Services, Sweeper

\* What is ahead of the effects of a list once its first one was carried out.
LEMMA AheadOfTail ==
  ASSUME NEW t \in Seq(Effect), t # <<>>
  PROVE  /\ 1 \in DOMAIN t /\ Head(t) = t[1] /\ Head(t) \in Effect /\ Ahead(t, 1) = {}
         /\ Tail(t) \in Seq(Effect)
         /\ \A n \in DOMAIN Tail(t) :
               /\ n + 1 \in DOMAIN t /\ Tail(t)[n] = t[n + 1] /\ Tail(t)[n] \in Effect
               /\ Ahead(Tail(t), n) \subseteq Effect
               /\ Ahead(t, n + 1) = {Head(t)} \cup Ahead(Tail(t), n)
<1>1. /\ 1 \in DOMAIN t /\ Head(t) = t[1] /\ Head(t) \in Effect /\ Tail(t) \in Seq(Effect)
      /\ Len(t) \in Nat /\ DOMAIN t = 1..Len(t) /\ Len(t) >= 1
      /\ DOMAIN Tail(t) = 1..(Len(t) - 1)
      /\ \A m \in 1..(Len(t) - 1) : Tail(t)[m] = t[m + 1]
      /\ \A m \in 1..Len(t) : t[m] \in Effect
  OBVIOUS
<1>2. Ahead(t, 1) = {} BY <1>1 DEF Ahead
<1>3. ASSUME NEW n \in DOMAIN Tail(t)
      PROVE  /\ n + 1 \in DOMAIN t /\ Tail(t)[n] = t[n + 1] /\ Tail(t)[n] \in Effect
             /\ Ahead(Tail(t), n) \subseteq Effect
             /\ Ahead(t, n + 1) = {Head(t)} \cup Ahead(Tail(t), n)
  <2>1. n \in Nat /\ n >= 1 /\ n <= Len(t) - 1 BY <1>1
  <2>2. n + 1 \in DOMAIN t /\ Tail(t)[n] = t[n + 1] /\ Tail(t)[n] \in Effect BY <1>1, <2>1
  <2>3. \A m \in 1..(n - 1) : Tail(t)[m] = t[m + 1] /\ Tail(t)[m] \in Effect BY <1>1, <2>1
  <2>4. Ahead(Tail(t), n) \subseteq Effect BY <2>3 DEF Ahead
  <2>5. Ahead(t, n + 1) \subseteq {Head(t)} \cup Ahead(Tail(t), n)
    <3> SUFFICES ASSUME NEW m \in 1..n, m # 1 PROVE t[m] \in Ahead(Tail(t), n)
      BY <1>1, <2>1 DEF Ahead
    <3>1. m - 1 \in 1..(n - 1) /\ (m - 1) + 1 = m BY <2>1
    <3>2. Tail(t)[m - 1] = t[m] BY <2>3, <3>1
    <3> QED BY <3>1, <3>2 DEF Ahead
  <2>6. {Head(t)} \cup Ahead(Tail(t), n) \subseteq Ahead(t, n + 1)
    <3>1. Head(t) \in Ahead(t, n + 1) BY <1>1, <2>1 DEF Ahead
    <3> SUFFICES ASSUME NEW m \in 1..(n - 1) PROVE Tail(t)[m] \in Ahead(t, n + 1)
      BY <3>1 DEF Ahead
    <3>2. m + 1 \in 1..((n + 1) - 1) BY <2>1
    <3> QED BY <2>3, <3>2 DEF Ahead
  <2> QED BY <2>2, <2>4, <2>5, <2>6
<1> QED BY <1>1, <1>2, <1>3

\* A list that agrees with s and ends with x is s with x appended.
LEMMA AppendedIs ==
  ASSUME NEW S, NEW s \in Seq(S), NEW x \in S, NEW t \in Seq(S),
         Len(t) = Len(s) + 1, t[Len(s) + 1] = x, \A i \in 1..Len(s) : t[i] = s[i]
  PROVE  s \o <<x>> = t
<1>1. /\ <<x>> \in Seq(S) /\ Len(<<x>>) = 1 /\ <<x>>[1] = x /\ Len(s) \in Nat OBVIOUS
<1>2. /\ s \o <<x>> \in Seq(S) /\ Len(s \o <<x>>) = Len(s) + 1
      /\ \A i \in 1..(Len(s) + 1) :
            (s \o <<x>>)[i] = IF i <= Len(s) THEN s[i] ELSE <<x>>[i - Len(s)]
  BY <1>1, ConcatProperties
<1>3. \A i \in 1..Len(s \o <<x>>) : (s \o <<x>>)[i] = t[i] BY <1>1, <1>2
<1>4. Len(s \o <<x>>) = Len(t) BY <1>2
<1> QED BY ONLY <1>2, <1>3, <1>4, SeqEqual, t \in Seq(S)

\* Lists one effect longer: the concatenations that plans are made of.
LEMMA Lengthened ==
  /\ \A a, b : <<a>> \o <<b>> = <<a, b>>
  /\ \A a, b, c : <<a, b>> \o <<c>> = <<a, b, c>>
  /\ \A a, b, c, d : <<a, b, c>> \o <<d>> = <<a, b, c, d>>
  /\ \A a, b, c, d, e : <<a, b, c, d>> \o <<e>> = <<a, b, c, d, e>>
  /\ \A a, b, c, d, e, f : <<a, b, c, d, e>> \o <<f>> = <<a, b, c, d, e, f>>
  /\ \A a, b, c, d, e, f, g : <<a, b, c, d, e, f>> \o <<g>> = <<a, b, c, d, e, f, g>>
  /\ \A a, b, c : <<a>> \o <<b, c>> = <<a, b, c>>
<1>1. ASSUME NEW a, NEW b PROVE <<a>> \o <<b>> = <<a, b>>
  <2> DEFINE S == {a, b}
  <2>1. <<a>> \in Seq(S) /\ <<a, b>> \in Seq(S) /\ b \in S OBVIOUS
  <2> HIDE DEF S
  <2>2. /\ Len(<<a>>) = 1 /\ Len(<<a, b>>) = 1 + 1
        /\ <<a, b>>[1 + 1] = b
        /\ \A i \in 1..1 : <<a, b>>[i] = <<a>>[i]
    OBVIOUS
  <2> QED BY <2>1, <2>2, AppendedIs
<1>2. ASSUME NEW a, NEW b, NEW c PROVE <<a, b>> \o <<c>> = <<a, b, c>>
  <2> DEFINE S == {a, b, c}
  <2>1. <<a, b>> \in Seq(S) /\ <<a, b, c>> \in Seq(S) /\ c \in S OBVIOUS
  <2> HIDE DEF S
  <2>2. /\ Len(<<a, b>>) = 2 /\ Len(<<a, b, c>>) = 2 + 1
        /\ <<a, b, c>>[2 + 1] = c
        /\ \A i \in 1..2 : <<a, b, c>>[i] = <<a, b>>[i]
    OBVIOUS
  <2> QED BY <2>1, <2>2, AppendedIs
<1>3. ASSUME NEW a, NEW b, NEW c, NEW d PROVE <<a, b, c>> \o <<d>> = <<a, b, c, d>>
  <2> DEFINE S == {a, b, c, d}
  <2>1. <<a, b, c>> \in Seq(S) /\ <<a, b, c, d>> \in Seq(S) /\ d \in S OBVIOUS
  <2> HIDE DEF S
  <2>2. /\ Len(<<a, b, c>>) = 3 /\ Len(<<a, b, c, d>>) = 3 + 1
        /\ <<a, b, c, d>>[3 + 1] = d
        /\ \A i \in 1..3 : <<a, b, c, d>>[i] = <<a, b, c>>[i]
    OBVIOUS
  <2> QED BY <2>1, <2>2, AppendedIs
<1>4. ASSUME NEW a, NEW b, NEW c, NEW d, NEW e PROVE <<a, b, c, d>> \o <<e>> = <<a, b, c, d, e>>
  <2> DEFINE S == {a, b, c, d, e}
  <2>1. <<a, b, c, d>> \in Seq(S) /\ <<a, b, c, d, e>> \in Seq(S) /\ e \in S OBVIOUS
  <2> HIDE DEF S
  <2>2. /\ Len(<<a, b, c, d>>) = 4 /\ Len(<<a, b, c, d, e>>) = 4 + 1
        /\ <<a, b, c, d, e>>[4 + 1] = e
        /\ \A i \in 1..4 : <<a, b, c, d, e>>[i] = <<a, b, c, d>>[i]
    OBVIOUS
  <2> QED BY <2>1, <2>2, AppendedIs
<1>5. ASSUME NEW a, NEW b, NEW c, NEW d, NEW e, NEW f
      PROVE  <<a, b, c, d, e>> \o <<f>> = <<a, b, c, d, e, f>>
  <2> DEFINE S == {a, b, c, d, e, f}
  <2>1. <<a, b, c, d, e>> \in Seq(S) /\ <<a, b, c, d, e, f>> \in Seq(S) /\ f \in S OBVIOUS
  <2> HIDE DEF S
  <2>2. /\ Len(<<a, b, c, d, e>>) = 5 /\ Len(<<a, b, c, d, e, f>>) = 5 + 1
        /\ <<a, b, c, d, e, f>>[5 + 1] = f
        /\ \A i \in 1..5 : <<a, b, c, d, e, f>>[i] = <<a, b, c, d, e>>[i]
    OBVIOUS
  <2> QED BY <2>1, <2>2, AppendedIs
<1>6. ASSUME NEW a, NEW b, NEW c, NEW d, NEW e, NEW f, NEW g
      PROVE  <<a, b, c, d, e, f>> \o <<g>> = <<a, b, c, d, e, f, g>>
  <2> DEFINE S == {a, b, c, d, e, f, g}
  <2>1. <<a, b, c, d, e, f>> \in Seq(S) /\ <<a, b, c, d, e, f, g>> \in Seq(S) /\ g \in S OBVIOUS
  <2> HIDE DEF S
  <2>2. /\ Len(<<a, b, c, d, e, f>>) = 6 /\ Len(<<a, b, c, d, e, f, g>>) = 6 + 1
        /\ <<a, b, c, d, e, f, g>>[6 + 1] = g
        /\ \A i \in 1..6 : <<a, b, c, d, e, f, g>>[i] = <<a, b, c, d, e, f>>[i]
    OBVIOUS
  <2> QED BY <2>1, <2>2, AppendedIs
<1>7. ASSUME NEW a, NEW b, NEW c PROVE <<a>> \o <<b, c>> = <<a, b, c>>
  <2> DEFINE S == {a, b, c}
  <2>1. <<a>> \in Seq(S) /\ <<b>> \in Seq(S) /\ <<c>> \in Seq(S) OBVIOUS
  <2> HIDE DEF S
  <2>2. (<<a>> \o <<b>>) \o <<c>> = <<a>> \o (<<b>> \o <<c>>)
    BY <2>1, ConcatAssociative
  <2>3. <<a>> \o <<b>> = <<a, b>> BY <1>1
  <2>4. <<b>> \o <<c>> = <<b, c>> BY <1>1
  <2>5. <<a, b>> \o <<c>> = <<a, b, c>> BY <1>2
  <2> QED BY ONLY <2>2, <2>3, <2>4, <2>5
<1> QED BY <1>1, <1>2, <1>3, <1>4, <1>5, <1>6, <1>7

\* Nothing appended or put in front.
LEMMA NotLengthened ==
  /\ \A a : <<>> \o <<a>> = <<a>>
  /\ \A a, b : <<a, b>> \o <<>> = <<a, b>>
  /\ \A a, b, c : <<a, b, c>> \o <<>> = <<a, b, c>>
  /\ \A a, b, c, d : <<a, b, c, d>> \o <<>> = <<a, b, c, d>>
<1>1. ASSUME NEW a PROVE <<>> \o <<a>> = <<a>>
  <2>1. <<a>> \in Seq({a}) OBVIOUS
  <2> QED BY <2>1, ConcatEmptySeq
<1>2. ASSUME NEW a, NEW b PROVE <<a, b>> \o <<>> = <<a, b>>
  <2>1. <<a, b>> \in Seq({a, b}) OBVIOUS
  <2> QED BY <2>1, ConcatEmptySeq
<1>3. ASSUME NEW a, NEW b, NEW c PROVE <<a, b, c>> \o <<>> = <<a, b, c>>
  <2>1. <<a, b, c>> \in Seq({a, b, c}) OBVIOUS
  <2> QED BY <2>1, ConcatEmptySeq
<1>4. ASSUME NEW a, NEW b, NEW c, NEW d PROVE <<a, b, c, d>> \o <<>> = <<a, b, c, d>>
  <2>1. <<a, b, c, d>> \in Seq({a, b, c, d}) OBVIOUS
  <2> QED BY <2>1, ConcatEmptySeq
<1> QED BY <1>1, <1>2, <1>3, <1>4

----------------------------------------------------------------------------
(* Every effect keeps World, and leaves what comes after it safe.           *)

\* what an effect may change in the history: the end it notes or the timer it lost
Marked(p) ==
    /\ history' \in [stopAsked : BOOLEAN, stopped : BOOLEAN, ended : BOOLEAN,
                     promised : Nat, unswept : BOOLEAN]
    /\ history'.stopAsked = history.stopAsked /\ history'.stopped = history.stopped
    /\ history'.promised = history.promised
    /\ history'.ended =>
          history.ended \/ (/\ container.present /\ ~container'.present
                            /\ proc[p].op # "ensure-instance" \/ tomb # 0)
    /\ history.unswept => history'.unswept

\* Perform and a failed effect touch the history only that far.
LEMMA MarksAre ==
  ASSUME Types, NEW p \in Procs,
         NoteEnd(p) \/ (Next1(p).do = "write-state" /\ NoteLostTimer(p))
  PROVE  Marked(p)
<1>1. CASE NoteEnd(p)
  <2>1. PICK b \in BOOLEAN :
           /\ b <=> history.ended \/ (/\ container.present /\ ~container'.present
                                      /\ proc[p].op # "ensure-instance" \/ tomb # 0)
           /\ history' = [history EXCEPT !.ended = b]
    BY <1>1 DEF NoteEnd, Types
  <2> QED BY <2>1 DEF Marked, Types
<1>2. CASE Next1(p).do = "write-state" /\ NoteLostTimer(p)
  BY <1>2 DEF NoteLostTimer, Marked, Types
<1> QED BY <1>1, <1>2

\* The effect at hand is safe, with nothing ahead of it.
LEMMA HeadIsSafe ==
  ASSUME HInv, NEW p \in Procs, lock = p, proc[p].todo # <<>>
  PROVE  /\ Next1(p) \in Effect /\ Next1(p).do \in Effects /\ Next1(p).gen \in 0..MaxGeneration
         /\ Safe(proc[p], Next1(p), {})
         /\ proc[p].todo \in Seq(Effect) /\ Tail(proc[p].todo) \in Seq(Effect)
<1>1. proc[p].todo \in Seq(Effect) BY DEF HInv, Types, TypeOK
<1>2. /\ Next1(p) \in Effect /\ 1 \in DOMAIN proc[p].todo /\ Next1(p) = proc[p].todo[1]
      /\ Ahead(proc[p].todo, 1) = {} /\ Tail(proc[p].todo) \in Seq(Effect)
  BY <1>1, AheadOfTail DEF Next1
<1>3. Safe(proc[p], Next1(p), {}) BY <1>2 DEF HInv, Holder, SafePlan
<1> QED BY <1>1, <1>2, <1>3 DEF Effect

\* The parts of Types that an effect changes.
WorldTypes ==
    /\ now \in Nat /\ faults \in Nat
    /\ container \in [present : BOOLEAN, gen : 0..MaxGeneration, up : BOOLEAN]
    /\ network \in BOOLEAN
    /\ file \in [gen : 0..MaxGeneration, exp : Nat]
    /\ disk \in [gen : 0..MaxGeneration, exp : Nat]
    /\ tomb \in 0..MaxGeneration
    /\ timers \subseteq Generations
    /\ history \in [stopAsked : BOOLEAN, stopped : BOOLEAN, ended : BOOLEAN,
                    promised : Nat, unswept : BOOLEAN]

\* Records without a container and without a state file have their types.
LEMMA Constants ==
  /\ NoContainer \in [present : BOOLEAN, gen : 0..MaxGeneration, up : BOOLEAN]
  /\ NoState \in [gen : 0..MaxGeneration, exp : Nat]
  /\ NoState.gen = 0 /\ NoState.exp = 0 /\ ~NoContainer.present
  /\ Generations \subseteq 0..MaxGeneration /\ 0 \in 0..MaxGeneration /\ 0 \notin Generations
  /\ \A g \in Generations : Deadline[g] \in Nat
BY HelperAssumption DEF NoContainer, NoState, Generations

\* An effect keeps the types of files, engine, timers and tombstone.
LEMMA EffectKeepsTypes ==
  ASSUME HInv, NEW p \in Procs, lock = p, proc[p].todo # <<>>, Apply(p),
         Marked(p), now' = now, faults' \in Nat
  PROVE  WorldTypes'
<1> DEFINE g == Next1(p).gen
<1>0. /\ WorldTypes /\ Safe(proc[p], Next1(p), {}) /\ g \in 0..MaxGeneration
  BY HeadIsSafe DEF HInv, Types, TypeOK, WorldTypes
<1>h. /\ now' \in Nat /\ faults' \in Nat
      /\ history' \in [stopAsked : BOOLEAN, stopped : BOOLEAN, ended : BOOLEAN,
                       promised : Nat, unswept : BOOLEAN]
  BY <1>0 DEF Marked, WorldTypes
<1>1. CASE WriteTombstone(p)
  BY <1>0, <1>h, <1>1 DEF WriteTombstone, WorldTypes, Larger
<1>2. CASE RemoveContainer(p)
  BY <1>0, <1>h, <1>2, Constants DEF RemoveContainer, WorldTypes
<1>3. CASE RemoveNetwork(p) BY <1>0, <1>h, <1>3 DEF RemoveNetwork, WorldTypes
<1>4. CASE RemoveState(p) BY <1>0, <1>h, <1>4, Constants DEF RemoveState, WorldTypes
<1>5. CASE CancelTimer(p) BY <1>0, <1>h, <1>5 DEF CancelTimer, WorldTypes
<1>6. CASE CreateNetwork(p) BY <1>0, <1>h, <1>6 DEF CreateNetwork, WorldTypes
<1>7. CASE RunContainer(p) BY <1>0, <1>h, <1>7 DEF RunContainer, WorldTypes
<1>8. CASE ScheduleTimer(p)
  <2>1. g \in Generations BY <1>0, <1>8 DEF ScheduleTimer, Running, Safe
  <2> QED BY <1>0, <1>h, <1>8, <2>1 DEF ScheduleTimer, WorldTypes
<1>9. CASE WriteState(p)
  <2>1. g \in Generations BY <1>0, <1>9 DEF WriteState, Running, Safe, CanWrite
  <2> QED BY <1>0, <1>h, <1>9, <2>1, Constants DEF WriteState, WorldTypes
<1>10. CASE StartupSeen(p) BY <1>0, <1>h, <1>10 DEF StartupSeen, WorldTypes, worldVars
<1> QED
  BY <1>1, <1>2, <1>3, <1>4, <1>5, <1>6, <1>7, <1>8, <1>9, <1>10 DEF Apply

\* An effect of the holder keeps World, whether it raised afterwards or not.
LEMMA EffectKeepsWorld ==
  ASSUME HInv, NEW p \in Procs, lock = p, proc[p].todo # <<>>, Apply(p),
         Marked(p), now' = now
  PROVE  World'
<1> DEFINE g == Next1(p).gen
<1>0. /\ WorldTypes /\ Safe(proc[p], Next1(p), {}) /\ g \in 0..MaxGeneration
      /\ World
  BY HeadIsSafe DEF HInv, Types, TypeOK, WorldTypes
<1>m. /\ history'.promised = history.promised /\ history'.stopAsked = history.stopAsked
      /\ history'.stopped = history.stopped /\ (history.unswept => history'.unswept)
  BY DEF Marked
<1>e. container'.present = container.present => (history'.ended => history.ended)
  BY DEF Marked
<1>w. Safe(proc[p], Next1(p), {}) BY <1>0
<1> USE DEF Running
<1>1. CASE WriteTombstone(p)
  <2>1. g \in Generations /\ MayFence BY <1>w, <1>1 DEF WriteTombstone, Safe, CanFence
  <2>2. tomb' \in Nat /\ tomb' # 0 BY <1>0, <2>1, <1>1, Constants
    DEF WriteTombstone, Larger, WorldTypes, Generations
  <2>3. Files' /\ MayFence' BY <1>0, <1>1, <2>1, <1>m
      DEF WriteTombstone, World, Files, StateFile, MayFence
  <2> QED BY <1>0, <1>m, <1>e, <1>1, <2>2, <2>3 DEF WriteTombstone, World, Free
<1>2. CASE RemoveContainer(p)
  <2>1. /\ Free
        /\ proc[p].op = "ensure-instance" \/ tomb # 0
    BY <1>w, <1>2 DEF RemoveContainer, Safe, CanRemove, FencedBy, Holds, Free
  <2>2. Files' BY <1>0, <1>2, Constants DEF RemoveContainer, World, Files, StateFile
  <2>3. history'.ended => history.ended \/ tomb # 0 BY <2>1 DEF Marked
  <2> QED BY <1>0, <1>m, <1>2, <2>1, <2>2, <2>3, Constants
      DEF RemoveContainer, World, Free, MayFence
<1>3. CASE RemoveNetwork(p)
  BY <1>0, <1>m, <1>e, <1>3 DEF RemoveNetwork, World, Files, StateFile, Free, MayFence
<1>4. CASE RemoveState(p)
  <2>1. Free BY <1>w, <1>4 DEF RemoveState, Safe, FencedBy, Holds, Free
  <2>2. Files' BY <1>0, <1>4, Constants DEF RemoveState, World, Files, StateFile
  <2> QED BY <1>0, <1>m, <1>e, <1>4, <2>1, <2>2 DEF RemoveState, World, Free, MayFence
<1>5. CASE CancelTimer(p)
  <2>1. Free \/ history.unswept \/ file.gen # g
    BY <1>w, <1>5 DEF CancelTimer, Safe, CanCancel, FencedBy, Holds, Free
  <2>2. Files' BY <1>0, <1>5 DEF CancelTimer, World, Files, StateFile
  <2> QED BY <1>0, <1>m, <1>e, <1>5, <2>1, <2>2 DEF CancelTimer, World, Free, MayFence
<1>6. CASE CreateNetwork(p)
  BY <1>0, <1>m, <1>e, <1>6 DEF CreateNetwork, World, Files, StateFile, Free, MayFence
<1>7. CASE RunContainer(p)
  <2>1. tomb = 0 /\ g \in Generations
    BY <1>w, <1>7 DEF RunContainer, Safe, CanRun, FencedBy
  <2>2. Files' /\ container'.present
    BY <1>0, <1>7, <2>1 DEF RunContainer, World, Files, StateFile
  <2>3. history'.ended => history.ended BY <2>2 DEF Marked
  <2> QED BY <1>0, <1>m, <1>7, <2>1, <2>2, <2>3 DEF RunContainer, World, Free, MayFence
<1>8. CASE ScheduleTimer(p)
  BY <1>0, <1>m, <1>e, <1>8 DEF ScheduleTimer, World, Files, StateFile, Free, MayFence
<1>9. CASE WriteState(p)
  <2>1. /\ g \in Generations
        /\ Free \/ (history.promised <= Deadline[g] /\ g \in timers)
    BY <1>w, <1>9 DEF WriteState, Safe, CanWrite, Armed
  <2>2. Files' BY <1>0, <1>9, <2>1 DEF WriteState, World, Files, StateFile
  <2>3. file'.gen = g /\ file'.exp = Deadline[g] BY <1>9 DEF WriteState
  <2> QED BY <1>0, <1>m, <1>e, <1>9, <2>1, <2>2, <2>3 DEF WriteState, World, Free, MayFence
<1>10. CASE StartupSeen(p)
  BY <1>0, <1>m, <1>e, <1>10 DEF StartupSeen, worldVars, World, Files, StateFile, Free, MayFence
<1> QED
  BY <1>1, <1>2, <1>3, <1>4, <1>5, <1>6, <1>7, <1>8, <1>9, <1>10 DEF Apply

\* The effect that was carried out no longer counts as ahead: what it was needed
\* for now holds of the host itself.
LEMMA EffectKeepsSafe ==
  ASSUME HInv, NEW p \in Procs, lock = p, proc[p].todo # <<>>, Apply(p),
         Marked(p), now' = now,
         NEW q, q.op = proc[p].op, q.gen = proc[p].gen, q.prev = proc[p].prev,
         NEW e \in Effect, NEW before \in SUBSET Effect,
         Safe(q, e, {Next1(p)} \cup before)
  PROVE  Safe(q, e, before)'
<1> DEFINE h == Next1(p)
           g == Next1(p).gen
           all == {Next1(p)} \cup before
<1>0. /\ WorldTypes /\ h \in Effect /\ Safe(proc[p], h, {}) /\ g \in 0..MaxGeneration
      /\ World /\ h.do \in Effects /\ h = [do |-> h.do, gen |-> g]
  BY HeadIsSafe DEF HInv, Types, TypeOK, WorldTypes, Effect
<1>m. /\ history'.promised = history.promised /\ history'.stopAsked = history.stopAsked
      /\ history'.stopped = history.stopped /\ (history.unswept => history'.unswept)
  BY DEF Marked
<1>a. Safe(q, e, all) OBVIOUS
<1>b. \A what : Holds(all, what) <=> h.do = what \/ Holds(before, what)
  BY DEF Holds
<1>c. \A what, k : [do |-> what, gen |-> k] \in all
                     <=> (h.do = what /\ g = k) \/ [do |-> what, gen |-> k] \in before
  BY <1>0
<1>d. \A whats : Only(all, whats) <=> h.do \in whats /\ Only(before, whats)
  BY DEF Only
<1>w. \A k : (\A f \in all : f.do = "write-state" => f.gen = k)
               <=> /\ h.do = "write-state" => g = k
                   /\ \A f \in before : f.do = "write-state" => f.gen = k
  OBVIOUS
<1>1. CASE WriteTombstone(p)
  <2>h. h.do = "tombstone" BY <1>1 DEF WriteTombstone, Running
  <2>t. tomb' # 0
    BY <1>0, <1>1, <2>h, Constants
        DEF WriteTombstone, Larger, WorldTypes, Generations, Safe, CanFence
  <2>1. FencedBy(all) => FencedBy(before)'
    BY <1>1, <1>m, <1>a, <2>h, <2>t, <1>b DEF WriteTombstone, FencedBy
  <2>2. MayFence => MayFence' BY <1>1, <1>m, <1>a, <2>h, <2>t DEF WriteTombstone, MayFence
  <2>3. Free => Free' BY <1>1, <1>m, <1>a, <2>h, <2>t DEF WriteTombstone, Free
  <2>4. e.do = "tombstone" => CanFence(e.gen)' BY <1>a, <2>2 DEF Safe, CanFence
  <2>5. e.do = "remove-container" => CanRemove(q, before)' BY <1>a, <2>1, <2>3 DEF Safe, CanRemove
  <2>6. e.do = "remove-state" => Free' \/ FencedBy(before)' BY <1>a, <2>1, <2>3 DEF Safe
  <2>7. e.do = "cancel-timer" => CanCancel(e.gen, before)'
    BY <1>1, <1>m, <1>a, <2>h, <2>t, <1>b, <1>c, <2>1, <2>3 DEF WriteTombstone, Safe, CanCancel
  <2>8. e.do = "run-container" => CanRun(e.gen, before)'
    BY <1>1, <1>m, <1>a, <2>h, <2>t, <1>b DEF WriteTombstone, Safe, CanRun, FencedBy
  <2>9. e.do = "write-state" => CanWrite(q, e.gen, before)'
    BY <1>1, <1>m, <1>a, <2>h, <2>t, <1>c, <1>d, <2>3 DEF WriteTombstone, Safe, CanWrite, Armed
  <2>10. e.do = "reply-present" /\ q.op # "inspect-instance" => CanConfirm(e.gen, before)'
    BY <1>1, <1>m, <1>a, <2>h, <2>t, <1>b, <1>c, <1>d, <1>w
        DEF WriteTombstone, Safe, CanConfirm, Armed
  <2>11. e.do = "reply-absent" /\ q.op = "stop-instance" => CanDeny(before)'
    BY <1>1, <1>m, <1>a, <2>h, <2>t, <1>b, <2>1 DEF WriteTombstone, Safe, CanDeny
  <2>12. e.do = "exit" => CanExit(q, before)'
    BY <1>1, <1>m, <1>a, <2>h, <2>t, <1>b, <1>c, <2>1, <2>3
        DEF WriteTombstone, Safe, CanExit, Armed
  <2> QED BY <1>a, <2>4, <2>5, <2>6, <2>7, <2>8, <2>9, <2>10, <2>11, <2>12 DEF Safe
<1>2. CASE RemoveContainer(p)
  <2>h. h.do = "remove-container" BY <1>2 DEF RemoveContainer, Running
  <2>1. FencedBy(all) => FencedBy(before)'
    BY <1>2, <1>m, <1>a, <2>h, Constants, <1>b DEF RemoveContainer, FencedBy
  <2>2. MayFence => MayFence' BY <1>2, <1>m, <1>a, <2>h, Constants DEF RemoveContainer, MayFence
  <2>3. Free => Free' BY <1>2, <1>m, <1>a, <2>h, Constants DEF RemoveContainer, Free
  <2>4. e.do = "tombstone" => CanFence(e.gen)' BY <1>a, <2>2 DEF Safe, CanFence
  <2>5. e.do = "remove-container" => CanRemove(q, before)' BY <1>a, <2>1, <2>3 DEF Safe, CanRemove
  <2>6. e.do = "remove-state" => Free' \/ FencedBy(before)' BY <1>a, <2>1, <2>3 DEF Safe
  <2>7. e.do = "cancel-timer" => CanCancel(e.gen, before)'
    BY <1>2, <1>m, <1>a, <2>h, Constants, <1>b, <1>c, <2>1, <2>3
        DEF RemoveContainer, Safe, CanCancel
  <2>8. e.do = "run-container" => CanRun(e.gen, before)'
    BY <1>2, <1>m, <1>a, <2>h, Constants, <1>b DEF RemoveContainer, Safe, CanRun, FencedBy
  <2>9. e.do = "write-state" => CanWrite(q, e.gen, before)'
    BY <1>2, <1>m, <1>a, <2>h, Constants, <1>c, <1>d, <2>3
        DEF RemoveContainer, Safe, CanWrite, Armed
  <2>10. e.do = "reply-present" /\ q.op # "inspect-instance" => CanConfirm(e.gen, before)'
    BY <1>2, <1>m, <1>a, <2>h, Constants, <1>b, <1>c, <1>d, <1>w
        DEF RemoveContainer, Safe, CanConfirm, Armed
  <2>11. e.do = "reply-absent" /\ q.op = "stop-instance" => CanDeny(before)'
    BY <1>2, <1>m, <1>a, <2>h, Constants, <1>b, <2>1 DEF RemoveContainer, Safe, CanDeny
  <2>12. e.do = "exit" => CanExit(q, before)'
    BY <1>2, <1>m, <1>a, <2>h, Constants, <1>b, <1>c, <2>1, <2>3
        DEF RemoveContainer, Safe, CanExit, Armed
  <2> QED BY <1>a, <2>4, <2>5, <2>6, <2>7, <2>8, <2>9, <2>10, <2>11, <2>12 DEF Safe
<1>3. CASE RemoveNetwork(p)
  <2>h. h.do = "remove-network" BY <1>3 DEF RemoveNetwork, Running
  <2>1. FencedBy(all) => FencedBy(before)'
    BY <1>3, <1>m, <1>a, <2>h, <1>b DEF RemoveNetwork, FencedBy
  <2>2. MayFence => MayFence' BY <1>3, <1>m, <1>a, <2>h DEF RemoveNetwork, MayFence
  <2>3. Free => Free' BY <1>3, <1>m, <1>a, <2>h DEF RemoveNetwork, Free
  <2>4. e.do = "tombstone" => CanFence(e.gen)' BY <1>a, <2>2 DEF Safe, CanFence
  <2>5. e.do = "remove-container" => CanRemove(q, before)' BY <1>a, <2>1, <2>3 DEF Safe, CanRemove
  <2>6. e.do = "remove-state" => Free' \/ FencedBy(before)' BY <1>a, <2>1, <2>3 DEF Safe
  <2>7. e.do = "cancel-timer" => CanCancel(e.gen, before)'
    BY <1>3, <1>m, <1>a, <2>h, <1>b, <1>c, <2>1, <2>3 DEF RemoveNetwork, Safe, CanCancel
  <2>8. e.do = "run-container" => CanRun(e.gen, before)'
    BY <1>3, <1>m, <1>a, <2>h, <1>b DEF RemoveNetwork, Safe, CanRun, FencedBy
  <2>9. e.do = "write-state" => CanWrite(q, e.gen, before)'
    BY <1>3, <1>m, <1>a, <2>h, <1>c, <1>d, <2>3 DEF RemoveNetwork, Safe, CanWrite, Armed
  <2>10. e.do = "reply-present" /\ q.op # "inspect-instance" => CanConfirm(e.gen, before)'
    BY <1>3, <1>m, <1>a, <2>h, <1>b, <1>c, <1>d, <1>w DEF RemoveNetwork, Safe, CanConfirm, Armed
  <2>11. e.do = "reply-absent" /\ q.op = "stop-instance" => CanDeny(before)'
    BY <1>3, <1>m, <1>a, <2>h, <1>b, <2>1 DEF RemoveNetwork, Safe, CanDeny
  <2>12. e.do = "exit" => CanExit(q, before)'
    BY <1>3, <1>m, <1>a, <2>h, <1>b, <1>c, <2>1, <2>3 DEF RemoveNetwork, Safe, CanExit, Armed
  <2> QED BY <1>a, <2>4, <2>5, <2>6, <2>7, <2>8, <2>9, <2>10, <2>11, <2>12 DEF Safe
<1>4. CASE RemoveState(p)
  <2>h. h.do = "remove-state" BY <1>4 DEF RemoveState, Running
  <2>f. Free BY <1>0, <2>h DEF Safe, FencedBy, Holds, Free
  <2>1. FencedBy(all) => FencedBy(before)'
    BY <1>4, <1>m, <1>a, <2>h, Constants, <1>b DEF RemoveState, FencedBy
  <2>2. MayFence => MayFence' BY <1>4, <1>m, <1>a, <2>h, Constants DEF RemoveState, MayFence
  <2>3. Free => Free' BY <1>4, <1>m, <1>a, <2>h, Constants DEF RemoveState, Free
  <2>4. e.do = "tombstone" => CanFence(e.gen)' BY <1>a, <2>2 DEF Safe, CanFence
  <2>5. e.do = "remove-container" => CanRemove(q, before)' BY <1>a, <2>1, <2>3 DEF Safe, CanRemove
  <2>6. e.do = "remove-state" => Free' \/ FencedBy(before)' BY <1>a, <2>1, <2>3 DEF Safe
  <2>7. e.do = "cancel-timer" => CanCancel(e.gen, before)'
    BY <1>4, <1>m, <1>a, <2>h, Constants, <1>b, <1>c, <2>1, <2>3, <2>f
        DEF RemoveState, Safe, CanCancel
  <2>8. e.do = "run-container" => CanRun(e.gen, before)'
    BY <1>4, <1>m, <1>a, <2>h, Constants, <1>b DEF RemoveState, Safe, CanRun, FencedBy
  <2>9. e.do = "write-state" => CanWrite(q, e.gen, before)'
    BY <1>4, <1>m, <1>a, <2>h, Constants, <1>c, <1>d, <2>3 DEF RemoveState, Safe, CanWrite, Armed
  <2>10. e.do = "reply-present" /\ q.op # "inspect-instance" => CanConfirm(e.gen, before)'
    BY <1>4, <1>m, <1>a, <2>h, Constants, <1>b, <1>c, <1>d, <1>w
        DEF RemoveState, Safe, CanConfirm, Armed
  <2>11. e.do = "reply-absent" /\ q.op = "stop-instance" => CanDeny(before)'
    BY <1>4, <1>m, <1>a, <2>h, Constants, <1>b, <2>1 DEF RemoveState, Safe, CanDeny
  <2>12. e.do = "exit" => CanExit(q, before)'
    BY <1>4, <1>m, <1>a, <2>h, Constants, <1>b, <1>c, <2>1, <2>3, <2>f
        DEF RemoveState, Safe, CanExit, Armed
  <2> QED BY <1>a, <2>4, <2>5, <2>6, <2>7, <2>8, <2>9, <2>10, <2>11, <2>12 DEF Safe
<1>5. CASE CancelTimer(p)
  <2>h. h.do = "cancel-timer" BY <1>5 DEF CancelTimer, Running
  <2>1. FencedBy(all) => FencedBy(before)'
    BY <1>5, <1>m, <1>a, <2>h, <1>b DEF CancelTimer, FencedBy
  <2>2. MayFence => MayFence' BY <1>5, <1>m, <1>a, <2>h DEF CancelTimer, MayFence
  <2>3. Free => Free' BY <1>5, <1>m, <1>a, <2>h DEF CancelTimer, Free
  <2>4. e.do = "tombstone" => CanFence(e.gen)' BY <1>a, <2>2 DEF Safe, CanFence
  <2>5. e.do = "remove-container" => CanRemove(q, before)' BY <1>a, <2>1, <2>3 DEF Safe, CanRemove
  <2>6. e.do = "remove-state" => Free' \/ FencedBy(before)' BY <1>a, <2>1, <2>3 DEF Safe
  <2>7. e.do = "cancel-timer" => CanCancel(e.gen, before)'
    BY <1>5, <1>m, <1>a, <2>h, <1>b, <1>c, <2>1, <2>3 DEF CancelTimer, Safe, CanCancel
  <2>8. e.do = "run-container" => CanRun(e.gen, before)'
    BY <1>5, <1>m, <1>a, <2>h, <1>b DEF CancelTimer, Safe, CanRun, FencedBy
  <2>9. e.do = "write-state" => CanWrite(q, e.gen, before)'
    BY <1>5, <1>m, <1>a, <2>h, <1>c, <1>d, <2>3 DEF CancelTimer, Safe, CanWrite, Armed
  <2>10. e.do = "reply-present" /\ q.op # "inspect-instance" => CanConfirm(e.gen, before)'
    BY <1>5, <1>m, <1>a, <2>h, <1>b, <1>c, <1>d, <1>w DEF CancelTimer, Safe, CanConfirm, Armed
  <2>11. e.do = "reply-absent" /\ q.op = "stop-instance" => CanDeny(before)'
    BY <1>5, <1>m, <1>a, <2>h, <1>b, <2>1 DEF CancelTimer, Safe, CanDeny
  <2>12. e.do = "exit" => CanExit(q, before)'
    BY <1>5, <1>m, <1>a, <2>h, <1>b, <1>c, <2>1, <2>3 DEF CancelTimer, Safe, CanExit, Armed
  <2> QED BY <1>a, <2>4, <2>5, <2>6, <2>7, <2>8, <2>9, <2>10, <2>11, <2>12 DEF Safe
<1>6. CASE CreateNetwork(p)
  <2>h. h.do = "create-network" BY <1>6 DEF CreateNetwork, Running
  <2>1. FencedBy(all) => FencedBy(before)'
    BY <1>6, <1>m, <1>a, <2>h, <1>b DEF CreateNetwork, FencedBy
  <2>2. MayFence => MayFence' BY <1>6, <1>m, <1>a, <2>h DEF CreateNetwork, MayFence
  <2>3. Free => Free' BY <1>6, <1>m, <1>a, <2>h DEF CreateNetwork, Free
  <2>4. e.do = "tombstone" => CanFence(e.gen)' BY <1>a, <2>2 DEF Safe, CanFence
  <2>5. e.do = "remove-container" => CanRemove(q, before)' BY <1>a, <2>1, <2>3 DEF Safe, CanRemove
  <2>6. e.do = "remove-state" => Free' \/ FencedBy(before)' BY <1>a, <2>1, <2>3 DEF Safe
  <2>7. e.do = "cancel-timer" => CanCancel(e.gen, before)'
    BY <1>6, <1>m, <1>a, <2>h, <1>b, <1>c, <2>1, <2>3 DEF CreateNetwork, Safe, CanCancel
  <2>8. e.do = "run-container" => CanRun(e.gen, before)'
    BY <1>6, <1>m, <1>a, <2>h, <1>b DEF CreateNetwork, Safe, CanRun, FencedBy
  <2>9. e.do = "write-state" => CanWrite(q, e.gen, before)'
    BY <1>6, <1>m, <1>a, <2>h, <1>c, <1>d, <2>3 DEF CreateNetwork, Safe, CanWrite, Armed
  <2>10. e.do = "reply-present" /\ q.op # "inspect-instance" => CanConfirm(e.gen, before)'
    BY <1>6, <1>m, <1>a, <2>h, <1>b, <1>c, <1>d, <1>w DEF CreateNetwork, Safe, CanConfirm, Armed
  <2>11. e.do = "reply-absent" /\ q.op = "stop-instance" => CanDeny(before)'
    BY <1>6, <1>m, <1>a, <2>h, <1>b, <2>1 DEF CreateNetwork, Safe, CanDeny
  <2>12. e.do = "exit" => CanExit(q, before)'
    BY <1>6, <1>m, <1>a, <2>h, <1>b, <1>c, <2>1, <2>3 DEF CreateNetwork, Safe, CanExit, Armed
  <2> QED BY <1>a, <2>4, <2>5, <2>6, <2>7, <2>8, <2>9, <2>10, <2>11, <2>12 DEF Safe
<1>7. CASE RunContainer(p)
  <2>h. h.do = "run-container" BY <1>7 DEF RunContainer, Running
  <2>1. FencedBy(all) => FencedBy(before)'
    BY <1>7, <1>m, <1>a, <2>h, <1>b DEF RunContainer, FencedBy
  <2>2. MayFence => MayFence' BY <1>7, <1>m, <1>a, <2>h DEF RunContainer, MayFence
  <2>3. Free => Free' BY <1>7, <1>m, <1>a, <2>h DEF RunContainer, Free
  <2>4. e.do = "tombstone" => CanFence(e.gen)' BY <1>a, <2>2 DEF Safe, CanFence
  <2>5. e.do = "remove-container" => CanRemove(q, before)' BY <1>a, <2>1, <2>3 DEF Safe, CanRemove
  <2>6. e.do = "remove-state" => Free' \/ FencedBy(before)' BY <1>a, <2>1, <2>3 DEF Safe
  <2>7. e.do = "cancel-timer" => CanCancel(e.gen, before)'
    BY <1>7, <1>m, <1>a, <2>h, <1>b, <1>c, <2>1, <2>3 DEF RunContainer, Safe, CanCancel
  <2>8. e.do = "run-container" => CanRun(e.gen, before)'
    BY <1>7, <1>m, <1>a, <2>h, <1>b DEF RunContainer, Safe, CanRun, FencedBy
  <2>9. e.do = "write-state" => CanWrite(q, e.gen, before)'
    BY <1>7, <1>m, <1>a, <2>h, <1>c, <1>d, <2>3 DEF RunContainer, Safe, CanWrite, Armed
  <2>10. e.do = "reply-present" /\ q.op # "inspect-instance" => CanConfirm(e.gen, before)'
    BY <1>7, <1>m, <1>a, <2>h, <1>b, <1>c, <1>d, <1>w DEF RunContainer, Safe, CanConfirm, Armed
  <2>11. e.do = "reply-absent" /\ q.op = "stop-instance" => CanDeny(before)'
    BY <1>7, <1>m, <1>a, <2>h, <1>b, <2>1 DEF RunContainer, Safe, CanDeny
  <2>12. e.do = "exit" => CanExit(q, before)'
    BY <1>7, <1>m, <1>a, <2>h, <1>b, <1>c, <2>1, <2>3 DEF RunContainer, Safe, CanExit, Armed
  <2> QED BY <1>a, <2>4, <2>5, <2>6, <2>7, <2>8, <2>9, <2>10, <2>11, <2>12 DEF Safe
<1>8. CASE ScheduleTimer(p)
  <2>h. h.do = "schedule-timer" BY <1>8 DEF ScheduleTimer, Running
  <2>1. FencedBy(all) => FencedBy(before)'
    BY <1>8, <1>m, <1>a, <2>h, <1>b DEF ScheduleTimer, FencedBy
  <2>2. MayFence => MayFence' BY <1>8, <1>m, <1>a, <2>h DEF ScheduleTimer, MayFence
  <2>3. Free => Free' BY <1>8, <1>m, <1>a, <2>h DEF ScheduleTimer, Free
  <2>4. e.do = "tombstone" => CanFence(e.gen)' BY <1>a, <2>2 DEF Safe, CanFence
  <2>5. e.do = "remove-container" => CanRemove(q, before)' BY <1>a, <2>1, <2>3 DEF Safe, CanRemove
  <2>6. e.do = "remove-state" => Free' \/ FencedBy(before)' BY <1>a, <2>1, <2>3 DEF Safe
  <2>7. e.do = "cancel-timer" => CanCancel(e.gen, before)'
    BY <1>8, <1>m, <1>a, <2>h, <1>b, <1>c, <2>1, <2>3 DEF ScheduleTimer, Safe, CanCancel
  <2>8. e.do = "run-container" => CanRun(e.gen, before)'
    BY <1>8, <1>m, <1>a, <2>h, <1>b DEF ScheduleTimer, Safe, CanRun, FencedBy
  <2>9. e.do = "write-state" => CanWrite(q, e.gen, before)'
    BY <1>8, <1>m, <1>a, <2>h, <1>c, <1>d, <2>3 DEF ScheduleTimer, Safe, CanWrite, Armed
  <2>10. e.do = "reply-present" /\ q.op # "inspect-instance" => CanConfirm(e.gen, before)'
    BY <1>8, <1>m, <1>a, <2>h, <1>b, <1>c, <1>d, <1>w DEF ScheduleTimer, Safe, CanConfirm, Armed
  <2>11. e.do = "reply-absent" /\ q.op = "stop-instance" => CanDeny(before)'
    BY <1>8, <1>m, <1>a, <2>h, <1>b, <2>1 DEF ScheduleTimer, Safe, CanDeny
  <2>12. e.do = "exit" => CanExit(q, before)'
    BY <1>8, <1>m, <1>a, <2>h, <1>b, <1>c, <2>1, <2>3 DEF ScheduleTimer, Safe, CanExit, Armed
  <2> QED BY <1>a, <2>4, <2>5, <2>6, <2>7, <2>8, <2>9, <2>10, <2>11, <2>12 DEF Safe
<1>9. CASE WriteState(p)
  <2>h. h.do = "write-state" BY <1>9 DEF WriteState, Running
  <2>1. FencedBy(all) => FencedBy(before)'
    BY <1>9, <1>m, <1>a, <2>h, <1>b DEF WriteState, FencedBy
  <2>2. MayFence => MayFence' BY <1>9, <1>m, <1>a, <2>h DEF WriteState, MayFence
  <2>3. Free => Free' BY <1>9, <1>m, <1>a, <2>h DEF WriteState, Free
  <2>4. e.do = "tombstone" => CanFence(e.gen)' BY <1>a, <2>2 DEF Safe, CanFence
  <2>5. e.do = "remove-container" => CanRemove(q, before)' BY <1>a, <2>1, <2>3 DEF Safe, CanRemove
  <2>6. e.do = "remove-state" => Free' \/ FencedBy(before)' BY <1>a, <2>1, <2>3 DEF Safe
  <2>7. e.do = "cancel-timer" => CanCancel(e.gen, before)'
    BY <1>9, <1>m, <1>a, <2>h, <1>b, <1>c, <2>1, <2>3 DEF WriteState, Safe, CanCancel
  <2>8. e.do = "run-container" => CanRun(e.gen, before)'
    BY <1>9, <1>m, <1>a, <2>h, <1>b DEF WriteState, Safe, CanRun, FencedBy
  <2>9. e.do = "write-state" => CanWrite(q, e.gen, before)'
    BY <1>9, <1>m, <1>a, <2>h, <1>c, <1>d, <2>3 DEF WriteState, Safe, CanWrite, Armed
  <2>10. e.do = "reply-present" /\ q.op # "inspect-instance" => CanConfirm(e.gen, before)'
    BY <1>9, <1>m, <1>a, <2>h, <1>b, <1>c, <1>d, <1>w DEF WriteState, Safe, CanConfirm, Armed
  <2>11. e.do = "reply-absent" /\ q.op = "stop-instance" => CanDeny(before)'
    BY <1>9, <1>m, <1>a, <2>h, <1>b, <2>1 DEF WriteState, Safe, CanDeny
  <2>12. e.do = "exit" => CanExit(q, before)'
    BY <1>9, <1>m, <1>a, <2>h, <1>b, <1>c, <2>1, <2>3 DEF WriteState, Safe, CanExit, Armed
  <2> QED BY <1>a, <2>4, <2>5, <2>6, <2>7, <2>8, <2>9, <2>10, <2>11, <2>12 DEF Safe
<1>10. CASE StartupSeen(p)
  <2>h. h.do = "wait-for-startup" BY <1>10 DEF StartupSeen, Running
  <2>1. FencedBy(all) => FencedBy(before)'
    BY <1>10, <1>m, <1>a, <2>h, <1>b DEF StartupSeen, worldVars, FencedBy
  <2>2. MayFence => MayFence' BY <1>10, <1>m, <1>a, <2>h DEF StartupSeen, worldVars, MayFence
  <2>3. Free => Free' BY <1>10, <1>m, <1>a, <2>h DEF StartupSeen, worldVars, Free
  <2>4. e.do = "tombstone" => CanFence(e.gen)' BY <1>a, <2>2 DEF Safe, CanFence
  <2>5. e.do = "remove-container" => CanRemove(q, before)' BY <1>a, <2>1, <2>3 DEF Safe, CanRemove
  <2>6. e.do = "remove-state" => Free' \/ FencedBy(before)' BY <1>a, <2>1, <2>3 DEF Safe
  <2>7. e.do = "cancel-timer" => CanCancel(e.gen, before)'
    BY <1>10, <1>m, <1>a, <2>h, <1>b, <1>c, <2>1, <2>3 DEF StartupSeen, worldVars, Safe, CanCancel
  <2>8. e.do = "run-container" => CanRun(e.gen, before)'
    BY <1>10, <1>m, <1>a, <2>h, <1>b DEF StartupSeen, worldVars, Safe, CanRun, FencedBy
  <2>9. e.do = "write-state" => CanWrite(q, e.gen, before)'
    BY <1>10, <1>m, <1>a, <2>h, <1>c, <1>d, <2>3 DEF StartupSeen, worldVars, Safe, CanWrite, Armed
  <2>10. e.do = "reply-present" /\ q.op # "inspect-instance" => CanConfirm(e.gen, before)'
    BY <1>10, <1>m, <1>a, <2>h, <1>b, <1>c, <1>d, <1>w
        DEF StartupSeen, worldVars, Safe, CanConfirm, Armed
  <2>11. e.do = "reply-absent" /\ q.op = "stop-instance" => CanDeny(before)'
    BY <1>10, <1>m, <1>a, <2>h, <1>b, <2>1 DEF StartupSeen, worldVars, Safe, CanDeny
  <2>12. e.do = "exit" => CanExit(q, before)'
    BY <1>10, <1>m, <1>a, <2>h, <1>b, <1>c, <2>1, <2>3
        DEF StartupSeen, worldVars, Safe, CanExit, Armed
  <2> QED BY <1>a, <2>4, <2>5, <2>6, <2>7, <2>8, <2>9, <2>10, <2>11, <2>12 DEF Safe
<1> QED
  BY <1>1, <1>2, <1>3, <1>4, <1>5, <1>6, <1>7, <1>8, <1>9, <1>10 DEF Apply

----------------------------------------------------------------------------
(* Every plan is safe when it is made.                                      *)

\* A list of effects is safe if each is safe after those before it.
LEMMA SafeList1 ==
  ASSUME NEW q, NEW a,
         Safe(q, a, {})
  PROVE  SafePlan(q, <<a>>)
<1> DEFINE t == <<a>>
<1>1. DOMAIN t = 1..1 OBVIOUS
<1>2. t[1] = a OBVIOUS
<1> HIDE DEF t
<1>3. Ahead(t, 1) = {} BY <1>2 DEF Ahead
<1>4. ASSUME NEW n \in DOMAIN t PROVE Safe(q, t[n], Ahead(t, n))
  <2>1. n = 1 BY <1>1
  <2> QED BY <1>2, <1>3, <2>1
<1> QED BY <1>4 DEF SafePlan, t

\* A list of two effects is safe when each is safe after those before it.
LEMMA SafeList2 ==
  ASSUME NEW q, NEW a, NEW b,
         Safe(q, a, {}), Safe(q, b, {a})
  PROVE  SafePlan(q, <<a, b>>)
<1> DEFINE t == <<a, b>>
<1>1. DOMAIN t = 1..2 OBVIOUS
<1>2. t[1] = a /\ t[2] = b OBVIOUS
<1> HIDE DEF t
<1>3. /\ Ahead(t, 1) = {}
      /\ Ahead(t, 2) = {a}
  BY <1>2 DEF Ahead
<1>4. ASSUME NEW n \in DOMAIN t PROVE Safe(q, t[n], Ahead(t, n))
  <2>1. n = 1 \/ n = 2 BY <1>1
  <2> QED BY <1>2, <1>3, <2>1
<1> QED BY <1>4 DEF SafePlan, t

\* The same for three effects.
LEMMA SafeList3 ==
  ASSUME NEW q, NEW a, NEW b, NEW c,
         Safe(q, a, {}), Safe(q, b, {a}), Safe(q, c, {a, b})
  PROVE  SafePlan(q, <<a, b, c>>)
<1> DEFINE t == <<a, b, c>>
<1>1. DOMAIN t = 1..3 OBVIOUS
<1>2. t[1] = a /\ t[2] = b /\ t[3] = c OBVIOUS
<1> HIDE DEF t
<1>3. /\ Ahead(t, 1) = {}
      /\ Ahead(t, 2) = {a}
      /\ Ahead(t, 3) = {a, b}
  BY <1>2 DEF Ahead
<1>4. ASSUME NEW n \in DOMAIN t PROVE Safe(q, t[n], Ahead(t, n))
  <2>1. n = 1 \/ n = 2 \/ n = 3 BY <1>1
  <2> QED BY <1>2, <1>3, <2>1
<1> QED BY <1>4 DEF SafePlan, t

\* The same for four effects.
LEMMA SafeList4 ==
  ASSUME NEW q, NEW a, NEW b, NEW c, NEW d,
         Safe(q, a, {}), Safe(q, b, {a}), Safe(q, c, {a, b}),
         Safe(q, d, {a, b, c})
  PROVE  SafePlan(q, <<a, b, c, d>>)
<1> DEFINE t == <<a, b, c, d>>
<1>1. DOMAIN t = 1..4 OBVIOUS
<1>2. t[1] = a /\ t[2] = b /\ t[3] = c /\ t[4] = d OBVIOUS
<1> HIDE DEF t
<1>3. /\ Ahead(t, 1) = {}
      /\ Ahead(t, 2) = {a}
      /\ Ahead(t, 3) = {a, b}
      /\ Ahead(t, 4) = {a, b, c}
  BY <1>2 DEF Ahead
<1>4. ASSUME NEW n \in DOMAIN t PROVE Safe(q, t[n], Ahead(t, n))
  <2>1. n = 1 \/ n = 2 \/ n = 3 \/ n = 4 BY <1>1
  <2> QED BY <1>2, <1>3, <2>1
<1> QED BY <1>4 DEF SafePlan, t

\* The same for five effects.
LEMMA SafeList5 ==
  ASSUME NEW q, NEW a, NEW b, NEW c, NEW d, NEW e,
         Safe(q, a, {}), Safe(q, b, {a}), Safe(q, c, {a, b}),
         Safe(q, d, {a, b, c}), Safe(q, e, {a, b, c, d})
  PROVE  SafePlan(q, <<a, b, c, d, e>>)
<1> DEFINE t == <<a, b, c, d, e>>
<1>1. DOMAIN t = 1..5 OBVIOUS
<1>2. t[1] = a /\ t[2] = b /\ t[3] = c /\ t[4] = d /\ t[5] = e OBVIOUS
<1> HIDE DEF t
<1>3. /\ Ahead(t, 1) = {}
      /\ Ahead(t, 2) = {a}
      /\ Ahead(t, 3) = {a, b}
      /\ Ahead(t, 4) = {a, b, c}
      /\ Ahead(t, 5) = {a, b, c, d}
  BY <1>2 DEF Ahead
<1>4. ASSUME NEW n \in DOMAIN t PROVE Safe(q, t[n], Ahead(t, n))
  <2>1. n = 1 \/ n = 2 \/ n = 3 \/ n = 4 \/ n = 5 BY <1>1
  <2> QED BY <1>2, <1>3, <2>1
<1> QED BY <1>4 DEF SafePlan, t

\* The same for six effects.
LEMMA SafeList6 ==
  ASSUME NEW q, NEW a, NEW b, NEW c, NEW d, NEW e, NEW f,
         Safe(q, a, {}), Safe(q, b, {a}), Safe(q, c, {a, b}),
         Safe(q, d, {a, b, c}), Safe(q, e, {a, b, c, d}),
         Safe(q, f, {a, b, c, d, e})
  PROVE  SafePlan(q, <<a, b, c, d, e, f>>)
<1> DEFINE t == <<a, b, c, d, e, f>>
<1>1. DOMAIN t = 1..6 OBVIOUS
<1>2. t[1] = a /\ t[2] = b /\ t[3] = c /\ t[4] = d /\ t[5] = e /\ t[6] = f OBVIOUS
<1> HIDE DEF t
<1>3. /\ Ahead(t, 1) = {}
      /\ Ahead(t, 2) = {a}
      /\ Ahead(t, 3) = {a, b}
      /\ Ahead(t, 4) = {a, b, c}
      /\ Ahead(t, 5) = {a, b, c, d}
      /\ Ahead(t, 6) = {a, b, c, d, e}
  BY <1>2 DEF Ahead
<1>4. ASSUME NEW n \in DOMAIN t PROVE Safe(q, t[n], Ahead(t, n))
  <2>1. n = 1 \/ n = 2 \/ n = 3 \/ n = 4 \/ n = 5 \/ n = 6 BY <1>1
  <2> QED BY <1>2, <1>3, <2>1
<1> QED BY <1>4 DEF SafePlan, t

\* The same for seven effects.
LEMMA SafeList7 ==
  ASSUME NEW q, NEW a, NEW b, NEW c, NEW d, NEW e, NEW f, NEW g,
         Safe(q, a, {}), Safe(q, b, {a}), Safe(q, c, {a, b}),
         Safe(q, d, {a, b, c}), Safe(q, e, {a, b, c, d}),
         Safe(q, f, {a, b, c, d, e}), Safe(q, g, {a, b, c, d, e, f})
  PROVE  SafePlan(q, <<a, b, c, d, e, f, g>>)
<1> DEFINE t == <<a, b, c, d, e, f, g>>
<1>1. DOMAIN t = 1..7 OBVIOUS
<1>2. t[1] = a /\ t[2] = b /\ t[3] = c /\ t[4] = d /\ t[5] = e /\ t[6] = f /\ t[7] = g OBVIOUS
<1> HIDE DEF t
<1>3. /\ Ahead(t, 1) = {}
      /\ Ahead(t, 2) = {a}
      /\ Ahead(t, 3) = {a, b}
      /\ Ahead(t, 4) = {a, b, c}
      /\ Ahead(t, 5) = {a, b, c, d}
      /\ Ahead(t, 6) = {a, b, c, d, e}
      /\ Ahead(t, 7) = {a, b, c, d, e, f}
  BY <1>2 DEF Ahead
<1>4. ASSUME NEW n \in DOMAIN t PROVE Safe(q, t[n], Ahead(t, n))
  <2>1. n = 1 \/ n = 2 \/ n = 3 \/ n = 4 \/ n = 5 \/ n = 6 \/ n = 7 BY <1>1
  <2> QED BY <1>2, <1>3, <2>1
<1> QED BY <1>4 DEF SafePlan, t

\* Effects that need nothing.
LEMMA HarmlessEffects ==
  ASSUME NEW q, NEW g, NEW before,
         NEW what \in {"remove-network", "create-network", "wait-for-startup",
                       "reply-error", "reply-stale"}
  PROVE  Safe(q, [do |-> what, gen |-> g], before)
BY DEF Safe

\* What removes a workload for good: tombstone, workload, timer of h, state file.
FencedRemoval(g, h) ==
    <<[do |-> "tombstone", gen |-> g], [do |-> "remove-container", gen |-> 0],
      [do |-> "remove-network", gen |-> 0], [do |-> "cancel-timer", gen |-> h],
      [do |-> "remove-state", gen |-> 0]>>

\* A removal that starts with its tombstone is safe.
LEMMA FencedRemovalIsSafe ==
  ASSUME NEW q, NEW g \in Generations, NEW h \in 0..MaxGeneration, MayFence,
         NEW last \in {"reply-stale", "reply-absent", "exit"}
  PROVE  /\ FencedRemoval(g, h) \o Do(last) \in Seq(Effect)
         /\ SafePlan(q, FencedRemoval(g, h) \o Do(last))
         /\ DoFor("tombstone", g) \o RemoveWorkload \o Do("remove-state") \o Do(last)
               \in Seq(Effect)
         /\ SafePlan(q, DoFor("tombstone", g) \o RemoveWorkload \o Do("remove-state") \o Do(last))
         /\ DoFor("tombstone", g) \o RemoveWorkload \o DoFor("cancel-timer", h)
                \o Do("remove-state") = FencedRemoval(g, h)
<1> DEFINE a == [do |-> "tombstone", gen |-> g]
           b == [do |-> "remove-container", gen |-> 0]
           c == [do |-> "remove-network", gen |-> 0]
           d == [do |-> "cancel-timer", gen |-> h]
           e == [do |-> "remove-state", gen |-> 0]
           f == [do |-> last, gen |-> 0]
<1>1. /\ a \in Effect /\ b \in Effect /\ c \in Effect /\ d \in Effect /\ e \in Effect
      /\ f \in Effect
  BY HelperAssumption DEF Effect, Effects, Generations
<1>2. /\ FencedRemoval(g, h) = <<a, b, c, d, e>> /\ Do(last) = <<f>>
      /\ DoFor("tombstone", g) = <<a>> /\ RemoveWorkload = <<b, c>>
      /\ DoFor("cancel-timer", h) = <<d>> /\ Do("remove-state") = <<e>>
  BY Lengthened DEF FencedRemoval, RemoveWorkload, Do, DoFor
<1>3. /\ FencedRemoval(g, h) \o Do(last) = <<a, b, c, d, e, f>>
      /\ DoFor("tombstone", g) \o RemoveWorkload \o Do("remove-state") \o Do(last)
            = <<a, b, c, e, f>>
      /\ DoFor("tombstone", g) \o RemoveWorkload \o DoFor("cancel-timer", h)
             \o Do("remove-state") = FencedRemoval(g, h)
  <2> HIDE DEF a, b, c, d, e, f
  <2>1. /\ <<a>> \o <<b, c>> = <<a, b, c>>
        /\ <<a, b, c>> \o <<e>> = <<a, b, c, e>> /\ <<a, b, c>> \o <<d>> = <<a, b, c, d>>
    BY Lengthened
  <2>2. /\ <<a, b, c, e>> \o <<f>> = <<a, b, c, e, f>>
        /\ <<a, b, c, d>> \o <<e>> = <<a, b, c, d, e>>
        /\ <<a, b, c, d, e>> \o <<f>> = <<a, b, c, d, e, f>>
    BY Lengthened
  <2> QED BY <1>2, <2>1, <2>2
<1>4. /\ Safe(q, a, {}) /\ Safe(q, c, {a, b})
  BY DEF Safe, CanFence
<1>5. ASSUME NEW before, a \in before PROVE FencedBy(before) BY <1>5 DEF FencedBy, Holds
<1>6. /\ Safe(q, b, {a}) /\ Safe(q, d, {a, b, c})
      /\ Safe(q, e, {a, b, c, d}) /\ Safe(q, e, {a, b, c})
  BY <1>5 DEF Safe, CanRemove, CanCancel
<1>7. ASSUME NEW before \in {{a, b, c, d, e}, {a, b, c, e}}
      PROVE  Safe(q, f, before)
  <2>1. FencedBy(before) BY <1>5
  <2>2. \A x \in before : x \in {a, b, c, d, e} OBVIOUS
  <2>3. \A x \in before : x.do \notin {"run-container", "write-state"} BY <2>2
  <2>4. b \in before /\ b.do = "remove-container" OBVIOUS
  <2>5. /\ Holds(before, "remove-container") /\ ~Holds(before, "run-container")
        /\ ~Holds(before, "write-state")
    BY <2>3, <2>4 DEF Holds
  <2> QED BY <2>1, <2>5 DEF Safe, CanDeny, CanExit
<1>8. /\ <<a, b, c, d, e, f>> \in Seq(Effect) /\ <<a, b, c, e, f>> \in Seq(Effect)
  BY <1>1
<1> HIDE DEF a, b, c, d, e, f
<1>9. SafePlan(q, <<a, b, c, d, e, f>>) BY <1>4, <1>6, <1>7, SafeList6
<1>10. SafePlan(q, <<a, b, c, e, f>>) BY <1>4, <1>6, <1>7, SafeList5
<1> QED BY <1>3, <1>8, <1>9, <1>10

\* What a planning process knows: files, deadlines and whether it may fence.
LEMMA AtPlanning ==
  ASSUME HInv
  PROVE  /\ WorldTypes /\ World
         /\ KnownGeneration \in 0..MaxGeneration
         /\ file # NoState => /\ KnownGeneration = file.gen /\ file.gen \in Generations
                              /\ file.exp = Deadline[file.gen]
         /\ file = NoState => file.gen = 0 /\ file.exp = 0 /\ KnownGeneration = container.gen
         /\ Free => MayFence
         /\ ~container.present => Free
         /\ Irrecoverable => container.gen \in Generations /\ MayFence
         /\ file.exp <= now => MayFence
<1>1. WorldTypes /\ World BY DEF HInv, Types, TypeOK, WorldTypes
<1>2. Free => MayFence BY <1>1 DEF World, Free, MayFence
<1>3. ~container.present => Free BY <1>1 DEF World
<1>4. file.exp <= now => Free BY <1>1 DEF World, WorldTypes, Free
<1>5. file = NoState => file.gen = 0 /\ file.exp = 0 BY Constants
<1> QED BY <1>1, <1>2, <1>3, <1>4, <1>5
    DEF World, WorldTypes, Files, StateFile, KnownGeneration, Irrecoverable

\* An answer without any effect.
LEMMA AnswerIsSafe ==
  ASSUME NEW q, NEW what \in {"reply-error", "reply-stale"}
  PROVE  Do(what) \in Seq(Effect) /\ SafePlan(q, Do(what))
<1> DEFINE a == [do |-> what, gen |-> 0]
<1>1. a \in Effect BY HelperAssumption DEF Effect, Effects
<1>2. Safe(q, a, {}) BY HarmlessEffects
<1>3. Do(what) = <<a>> BY DEF Do
<1> HIDE DEF a
<1> QED BY <1>1, <1>2, <1>3, SafeList1

\* remove_irrecoverable_instance_unlocked
LEMMA IrrecoverableIsSafe ==
  ASSUME HInv, Irrecoverable, NEW q, NEW last \in {"reply-stale", "reply-absent", "exit"}
  PROVE  /\ RemoveIrrecoverable \o Do(last) \in Seq(Effect)
         /\ SafePlan(q, RemoveIrrecoverable \o Do(last))
<1>1. container.gen \in Generations /\ MayFence BY AtPlanning
<1>2. container.gen \in 0..MaxGeneration BY <1>1, Constants
<1>3. RemoveIrrecoverable = FencedRemoval(container.gen, container.gen)
  BY <1>1, <1>2, FencedRemovalIsSafe DEF RemoveIrrecoverable
<1> QED BY <1>1, <1>2, <1>3, FencedRemovalIsSafe

\* ensure_instance: a new workload is created while no deadline binds the helper, and
\* an existing one is confirmed for the generation and deadline it has.
LEMMA EnsureIsSafe ==
  ASSUME HInv, NEW g \in Generations, NEW q, q.op = "ensure-instance"
  PROVE  EnsurePlan(g) \in Seq(Effect) /\ SafePlan(q, EnsurePlan(g))
<1> DEFINE known == KnownGeneration
           n == [do |-> "create-network", gen |-> 0]
           r == [do |-> "run-container", gen |-> g]
           s == [do |-> "schedule-timer", gen |-> g]
           w == [do |-> "write-state", gen |-> g]
           c == [do |-> "cancel-timer", gen |-> known]
           t == [do |-> "wait-for-startup", gen |-> 0]
           y == [do |-> "reply-present", gen |-> g]
<1>k. known \in 0..MaxGeneration /\ known \in Nat /\ g \in Nat /\ g \in 0..MaxGeneration
  BY AtPlanning, Constants DEF Generations
<1>e. /\ n \in Effect /\ r \in Effect /\ s \in Effect /\ w \in Effect /\ c \in Effect
      /\ t \in Effect /\ y \in Effect
  BY <1>k, HelperAssumption DEF Effect, Effects
<1>1. CASE tomb # 0
  <2>1. EnsurePlan(g) = Do("reply-stale") BY <1>1 DEF EnsurePlan
  <2> QED BY <2>1, AnswerIsSafe
<1>2. CASE tomb = 0 /\ Deadline[g] <= now
  <2>1. EnsurePlan(g) = Do("reply-error") BY <1>2 DEF EnsurePlan
  <2> QED BY <2>1, AnswerIsSafe
<1>3. CASE tomb = 0 /\ ~(Deadline[g] <= now) /\ Irrecoverable
  <2>1. EnsurePlan(g) = RemoveIrrecoverable \o Do("reply-stale") BY <1>3 DEF EnsurePlan
  <2> QED BY <1>3, <2>1, IrrecoverableIsSafe
<1>4. CASE /\ tomb = 0 /\ ~(Deadline[g] <= now) /\ ~Irrecoverable
           /\ known > g \/ (container.present /\ known # g)
  <2>1. EnsurePlan(g) = Do("reply-stale") BY <1>4 DEF EnsurePlan
  <2> QED BY <2>1, AnswerIsSafe
<1>5. CASE /\ tomb = 0 /\ ~(Deadline[g] <= now) /\ ~Irrecoverable
           /\ ~(known > g \/ (container.present /\ known # g))
  <2>1. EnsurePlan(g) =
           When(~container.present, Do("create-network") \o DoFor("run-container", g))
               \o DoFor("schedule-timer", g) \o DoFor("write-state", g)
               \o When(known \notin {0, g}, DoFor("cancel-timer", known))
               \o Do("wait-for-startup") \o DoFor("reply-present", g)
    BY <1>5 DEF EnsurePlan
  <2>2. /\ Do("create-network") = <<n>> /\ DoFor("run-container", g) = <<r>>
        /\ DoFor("schedule-timer", g) = <<s>> /\ DoFor("write-state", g) = <<w>>
        /\ DoFor("cancel-timer", known) = <<c>> /\ Do("wait-for-startup") = <<t>>
        /\ DoFor("reply-present", g) = <<y>>
    BY DEF Do, DoFor
  <2>3. file.gen <= g /\ file.gen \in Nat BY <1>5, <1>k, AtPlanning, Constants DEF Generations
  <2>4. \A before : /\ Safe(q, n, before) /\ Safe(q, s, before) /\ Safe(q, t, before)
    BY DEF Safe
  <2>5. CASE ~container.present
    <3>1. Free BY <2>5, AtPlanning
    <3>2. Safe(q, r, {n}) BY <1>5 DEF Safe, CanRun, FencedBy, Holds
    <3>3. Safe(q, w, {n, r, s}) BY <1>5, <2>3, <3>1 DEF Safe, CanWrite, Only
    <3>4. Safe(q, c, {n, r, s, w}) BY <3>1 DEF Safe, CanCancel
    <3>5. CASE known \notin {0, g}
      <4>1. EnsurePlan(g) = <<n, r, s, w, c, t, y>>
        <5>1. EnsurePlan(g) = <<n>> \o <<r>> \o <<s>> \o <<w>> \o <<c>> \o <<t>> \o <<y>>
          BY <2>1, <2>2, <2>5, <3>5 DEF When
        <5> HIDE DEF n, r, s, w, c, t, y
        <5>2. /\ <<n>> \o <<r>> = <<n, r>> /\ <<n, r>> \o <<s>> = <<n, r, s>>
              /\ <<n, r, s>> \o <<w>> = <<n, r, s, w>>
          BY Lengthened
        <5>3. /\ <<n, r, s, w>> \o <<c>> = <<n, r, s, w, c>>
              /\ <<n, r, s, w, c>> \o <<t>> = <<n, r, s, w, c, t>>
              /\ <<n, r, s, w, c, t>> \o <<y>> = <<n, r, s, w, c, t, y>>
          BY Lengthened
        <5> QED BY <5>1, <5>2, <5>3
      <4>2. Safe(q, y, {n, r, s, w, c, t})
        BY <1>5, <1>k, <3>5 DEF Safe, CanConfirm, Only, Holds, Armed
      <4> HIDE DEF n, r, s, w, c, t, y
      <4>3. <<n, r, s, w, c, t, y>> \in Seq(Effect) BY <1>e
      <4>4. SafePlan(q, <<n, r, s, w, c, t, y>>)
        BY <2>4, <3>2, <3>3, <3>4, <4>2, SafeList7
      <4> QED BY <4>1, <4>3, <4>4
    <3>6. CASE known \in {0, g}
      <4>1. EnsurePlan(g) = <<n, r, s, w, t, y>>
        <5>1. EnsurePlan(g) = <<n>> \o <<r>> \o <<s>> \o <<w>> \o <<>> \o <<t>> \o <<y>>
          BY <2>1, <2>2, <2>5, <3>6 DEF When
        <5> HIDE DEF n, r, s, w, c, t, y
        <5>2. /\ <<n>> \o <<r>> = <<n, r>> /\ <<n, r>> \o <<s>> = <<n, r, s>>
              /\ <<n, r, s>> \o <<w>> = <<n, r, s, w>>
          BY Lengthened
        <5>3. /\ <<n, r, s, w>> \o <<>> = <<n, r, s, w>>
              /\ <<n, r, s, w>> \o <<t>> = <<n, r, s, w, t>>
              /\ <<n, r, s, w, t>> \o <<y>> = <<n, r, s, w, t, y>>
          BY Lengthened, NotLengthened
        <5> QED BY <5>1, <5>2, <5>3
      <4>2. Safe(q, y, {n, r, s, w, t})
        BY <1>5, <1>k DEF Safe, CanConfirm, Only, Holds, Armed
      <4> HIDE DEF n, r, s, w, c, t, y
      <4>3. <<n, r, s, w, t, y>> \in Seq(Effect) BY <1>e
      <4>4. SafePlan(q, <<n, r, s, w, t, y>>) BY <2>4, <3>2, <3>3, <4>2, SafeList6
      <4> QED BY <4>1, <4>3, <4>4
    <3> QED BY <3>5, <3>6
  <2>6. CASE container.present
    <3>1. known = g /\ file # NoState /\ file.gen = g /\ file.exp = Deadline[g]
      BY <1>5, <1>k, <2>6, AtPlanning DEF Irrecoverable
    <3>2. Safe(q, w, {s})
      <4>1. Free \/ history.promised <= Deadline[g] BY <3>1, AtPlanning DEF World
      <4> QED BY <1>5, <2>3, <4>1 DEF Safe, CanWrite, Only, Armed
    <3>3. EnsurePlan(g) = <<s, w, t, y>>
      <4>1. EnsurePlan(g) = <<>> \o <<s>> \o <<w>> \o <<>> \o <<t>> \o <<y>>
        BY <2>1, <2>2, <2>6, <3>1 DEF When
      <4> HIDE DEF n, r, s, w, c, t, y
      <4>2. /\ <<>> \o <<s>> = <<s>> /\ <<s>> \o <<w>> = <<s, w>>
            /\ <<s, w>> \o <<>> = <<s, w>>
        BY Lengthened, NotLengthened
      <4>3. <<s, w>> \o <<t>> = <<s, w, t>> /\ <<s, w, t>> \o <<y>> = <<s, w, t, y>>
        BY Lengthened
      <4> QED BY <4>1, <4>2, <4>3
    <3>4. Safe(q, y, {s, w, t})
      BY <1>5, <2>6, <3>1 DEF Safe, CanConfirm, Only, Holds, Armed
    <3> HIDE DEF n, r, s, w, c, t, y
    <3>5. <<s, w, t, y>> \in Seq(Effect) BY <1>e
    <3>6. SafePlan(q, <<s, w, t, y>>) BY <2>4, <3>2, <3>4, SafeList4
    <3> QED BY <3>3, <3>5, <3>6
  <2> QED BY <2>5, <2>6
<1> QED BY <1>1, <1>2, <1>3, <1>4, <1>5

\* stop_instance: the identifier is fenced before anything is removed.
LEMMA StopIsSafe ==
  ASSUME HInv, NEW g \in Generations, NEW q, q.op = "stop-instance", history.stopAsked
  PROVE  StopPlan(g) \in Seq(Effect) /\ SafePlan(q, StopPlan(g))
<1> DEFINE known == KnownGeneration
           fence == Larger(g, known)
<1>0. MayFence BY DEF MayFence
<1>k. known \in 0..MaxGeneration /\ fence \in Generations
  BY AtPlanning DEF Larger, Generations
<1>1. CASE Irrecoverable
  <2>1. StopPlan(g) = RemoveIrrecoverable \o Do("reply-absent") BY <1>1 DEF StopPlan
  <2> QED BY <1>1, <2>1, IrrecoverableIsSafe
<1>2. CASE ~Irrecoverable /\ known > g
  <2>1. StopPlan(g) = Do("reply-stale") BY <1>2 DEF StopPlan
  <2> QED BY <2>1, AnswerIsSafe
<1>3. CASE ~Irrecoverable /\ ~(known > g)
  <2>1. StopPlan(g) =
           DoFor("tombstone", fence) \o RemoveWorkload
               \o When(known # 0, DoFor("cancel-timer", known))
               \o Do("remove-state") \o Do("reply-absent")
    BY <1>3 DEF StopPlan
  <2>2. CASE known # 0
    <3>1. StopPlan(g) = FencedRemoval(fence, known) \o Do("reply-absent")
      <4>1. StopPlan(g) =
               DoFor("tombstone", fence) \o RemoveWorkload \o DoFor("cancel-timer", known)
                   \o Do("remove-state") \o Do("reply-absent")
        BY <2>1, <2>2 DEF When
      <4> HIDE DEF known, fence
      <4> QED BY <1>0, <1>k, <4>1, FencedRemovalIsSafe
    <3> HIDE DEF known, fence
    <3> QED BY <1>0, <1>k, <3>1, FencedRemovalIsSafe
  <2>3. CASE known = 0
    <3>1. StopPlan(g) =
             DoFor("tombstone", fence) \o RemoveWorkload \o <<>>
                 \o Do("remove-state") \o Do("reply-absent")
      BY <2>1, <2>3 DEF When
    <3>2. DoFor("tombstone", fence) \o RemoveWorkload \o <<>>
             = DoFor("tombstone", fence) \o RemoveWorkload
      <4> DEFINE a == [do |-> "tombstone", gen |-> fence]
                 b == [do |-> "remove-container", gen |-> 0]
                 c == [do |-> "remove-network", gen |-> 0]
      <4>1. DoFor("tombstone", fence) = <<a>> /\ RemoveWorkload = <<b, c>>
        BY Lengthened DEF RemoveWorkload, Do, DoFor
      <4> HIDE DEF a, b, c
      <4>2. <<a>> \o <<b, c>> = <<a, b, c>> /\ <<a, b, c>> \o <<>> = <<a, b, c>>
        BY Lengthened, NotLengthened
      <4> QED BY <4>1, <4>2
    <3> HIDE DEF known, fence
    <3> QED BY <1>0, <1>k, <3>1, <3>2, FencedRemovalIsSafe
  <2> QED BY <2>2, <2>3
<1> QED BY <1>1, <1>2, <1>3

\* update_deadline: the timer of the new generation is armed before the file names
\* it, and the old one goes last.
LEMMA UpdateIsSafe ==
  ASSUME HInv, NEW g \in Generations, NEW q, q.op = "update-deadline",
         q.prev = KnownGeneration
  PROVE  UpdatePlan(g) \in Seq(Effect) /\ SafePlan(q, UpdatePlan(g))
<1> DEFINE old == file.gen
           s == [do |-> "schedule-timer", gen |-> g]
           w == [do |-> "write-state", gen |-> g]
           c == [do |-> "cancel-timer", gen |-> old]
           y == [do |-> "reply-present", gen |-> g]
<1>1. CASE tomb # 0
  <2>1. UpdatePlan(g) = Do("reply-stale") BY <1>1 DEF UpdatePlan
  <2> QED BY <2>1, AnswerIsSafe
<1>2. CASE tomb = 0 /\ Irrecoverable
  <2>1. UpdatePlan(g) = RemoveIrrecoverable \o Do("reply-stale") BY <1>2 DEF UpdatePlan
  <2> QED BY <1>2, <2>1, IrrecoverableIsSafe
<1>3. CASE /\ tomb = 0 /\ ~Irrecoverable
           /\ ~container.present \/ old > g \/ Deadline[g] <= now
  <2>1. UpdatePlan(g) \in {Do("reply-error"), Do("reply-stale")} BY <1>3 DEF UpdatePlan
  <2> QED BY <2>1, AnswerIsSafe
<1>4. CASE /\ tomb = 0 /\ ~Irrecoverable
           /\ ~(~container.present \/ old > g \/ Deadline[g] <= now)
  <2>1. UpdatePlan(g) =
           DoFor("schedule-timer", g) \o DoFor("write-state", g)
               \o When(old # g, DoFor("cancel-timer", old))
               \o DoFor("reply-present", g)
    BY <1>4 DEF UpdatePlan
  <2>2. /\ DoFor("schedule-timer", g) = <<s>> /\ DoFor("write-state", g) = <<w>>
        /\ DoFor("cancel-timer", old) = <<c>> /\ DoFor("reply-present", g) = <<y>>
    BY DEF DoFor
  <2>3. /\ file # NoState /\ old \in Generations /\ old <= g
        /\ file.exp = Deadline[old] /\ KnownGeneration = old
    BY <1>4, AtPlanning DEF Irrecoverable, Generations
  <2>4. s \in Effect /\ w \in Effect /\ c \in Effect /\ y \in Effect
    BY <2>3, HelperAssumption DEF Effect, Effects, Generations
  <2>5. Free \/ history.promised <= Deadline[g]
    <3>1. Free \/ history.promised <= file.exp BY AtPlanning DEF World
    <3>2. Deadline[old] <= Deadline[g] BY <2>3, HelperAssumption
    <3>3. history.promised \in Nat /\ Deadline[old] \in Nat /\ Deadline[g] \in Nat
      BY <2>3, AtPlanning, Constants DEF WorldTypes
    <3> QED BY <2>3, <3>1, <3>2, <3>3
  <2>6. \A before : Safe(q, s, before) BY DEF Safe
  <2>7. Safe(q, w, {s})
    BY <1>4, <2>3, <2>5 DEF Safe, CanWrite, Only, Armed
  <2>8. CASE old # g
    <3>1. UpdatePlan(g) = <<s, w, c, y>>
      <4>1. UpdatePlan(g) = <<s>> \o <<w>> \o <<c>> \o <<y>> BY <2>1, <2>2, <2>8 DEF When
      <4> HIDE DEF s, w, c, y
      <4>2. /\ <<s>> \o <<w>> = <<s, w>> /\ <<s, w>> \o <<c>> = <<s, w, c>>
            /\ <<s, w, c>> \o <<y>> = <<s, w, c, y>>
        BY Lengthened
      <4> QED BY <4>1, <4>2
    <3>2. Safe(q, c, {s, w}) BY <2>8 DEF Safe, CanCancel, Holds
    <3>3. Safe(q, y, {s, w, c})
      BY <1>4, <2>8 DEF Safe, CanConfirm, Only, Holds, Armed
    <3> HIDE DEF s, w, c, y
    <3>4. <<s, w, c, y>> \in Seq(Effect) BY <2>4
    <3>5. SafePlan(q, <<s, w, c, y>>) BY <2>6, <2>7, <3>2, <3>3, SafeList4
    <3> QED BY <3>1, <3>4, <3>5
  <2>9. CASE old = g
    <3>1. UpdatePlan(g) = <<s, w, y>>
      <4>1. UpdatePlan(g) = <<s>> \o <<w>> \o <<>> \o <<y>> BY <2>1, <2>2, <2>9 DEF When
      <4> HIDE DEF s, w, c, y
      <4>2. /\ <<s>> \o <<w>> = <<s, w>> /\ <<s, w>> \o <<>> = <<s, w>>
            /\ <<s, w>> \o <<y>> = <<s, w, y>>
        BY Lengthened, NotLengthened
      <4> QED BY <4>1, <4>2
    <3>3. Safe(q, y, {s, w}) BY <1>4, <2>9 DEF Safe, CanConfirm, Only, Holds, Armed
    <3> HIDE DEF s, w, c, y
    <3>4. <<s, w, y>> \in Seq(Effect) BY <2>4
    <3>5. SafePlan(q, <<s, w, y>>) BY <2>6, <2>7, <3>3, SafeList3
    <3> QED BY <3>1, <3>4, <3>5
  <2> QED BY <2>8, <2>9
<1> QED BY <1>1, <1>2, <1>3, <1>4

\* inspect_instance: it confirms nothing.
LEMMA InspectIsSafe ==
  ASSUME HInv, NEW q, q.op = "inspect-instance"
  PROVE  InspectPlan \in Seq(Effect) /\ SafePlan(q, InspectPlan)
<1>1. CASE Irrecoverable
  <2>1. InspectPlan = RemoveIrrecoverable \o Do("reply-absent")
    BY <1>1 DEF InspectPlan, Irrecoverable
  <2> QED BY <1>1, <2>1, IrrecoverableIsSafe
<1>2. CASE ~Irrecoverable
  <2> DEFINE a == [do |-> "reply-absent", gen |-> 0]
             y == [do |-> "reply-present", gen |-> file.gen]
  <2>1. InspectPlan = <<a>> \/ InspectPlan = <<y>> BY <1>2 DEF InspectPlan, Do, DoFor
  <2>2. a \in Effect /\ y \in Effect
    BY AtPlanning, Constants DEF Effect, Effects, WorldTypes
  <2>3. Safe(q, a, {}) /\ Safe(q, y, {}) BY DEF Safe
  <2> HIDE DEF a, y
  <2>4. SafePlan(q, <<a>>) /\ SafePlan(q, <<y>>) BY <2>3, SafeList1
  <2>5. <<a>> \in Seq(Effect) /\ <<y>> \in Seq(Effect) BY <2>2
  <2> QED BY <2>1, <2>4, <2>5
<1> QED BY <1>1, <1>2

\* expire_instance_unlocked: only the file's own generation, and only in time.
LEMMA ExpireIsSafe ==
  ASSUME HInv, NEW g \in Generations, NEW q,
         \/ q.op = "expire-instance" /\ q.gen = g /\ Deadline[g] <= now
         \/ q.op = "sweep-instances" /\ g = file.gen /\ file # NoState /\ file.exp <= now
  PROVE  ExpirePlan(g) \in Seq(Effect) /\ SafePlan(q, ExpirePlan(g))
<1>1. CASE file = NoState \/ file.gen # g
  <2> DEFINE x == [do |-> "exit", gen |-> 0]
  <2>1. ExpirePlan(g) = <<x>> BY <1>1 DEF ExpirePlan, Do
  <2>2. file.gen # g BY <1>1, AtPlanning, Constants
  <2>3. q.op # "sweep-instances" /\ q.gen = g BY <1>1, <2>2
  <2>4. Safe(q, x, {}) BY <2>2, <2>3 DEF Safe, CanExit, Holds
  <2>5. x \in Effect BY Constants DEF Effect, Effects
  <2> HIDE DEF x
  <2> QED BY <2>1, <2>4, <2>5, SafeList1
<1>2. CASE ~(file = NoState \/ file.gen # g)
  <2>1. file.exp = Deadline[g] BY <1>2, AtPlanning
  <2>2. file.exp <= now /\ file.exp \in Nat /\ now \in Nat /\ MayFence
    BY <1>2, <2>1, AtPlanning DEF WorldTypes
  <2>3. ExpirePlan(g) = DoFor("tombstone", g) \o RemoveWorkload \o Do("remove-state") \o Do("exit")
    BY <1>2, <2>2 DEF ExpirePlan
  <2> QED BY <2>2, <2>3, FencedRemovalIsSafe, Constants
<1> QED BY <1>1, <1>2

\* sweep_instances: leftovers go, what is not overdue gets its timer back.
LEMMA SweepIsSafe ==
  ASSUME HInv, NEW since \in Nat, since <= now, NEW q, q.op = "sweep-instances"
  PROVE  SweepPlan(since) \in Seq(Effect) /\ SafePlan(q, SweepPlan(since))
<1> DEFINE old == file.gen
           b == [do |-> "remove-container", gen |-> 0]
           n == [do |-> "remove-network", gen |-> 0]
           c == [do |-> "cancel-timer", gen |-> tomb]
           d == [do |-> "cancel-timer", gen |-> old]
           f == [do |-> "tombstone", gen |-> old]
           s == [do |-> "schedule-timer", gen |-> old]
           e == [do |-> "remove-state", gen |-> 0]
           x == [do |-> "exit", gen |-> 0]
<1>e. /\ b \in Effect /\ n \in Effect /\ c \in Effect /\ d \in Effect /\ f \in Effect
      /\ s \in Effect /\ e \in Effect /\ x \in Effect
  BY AtPlanning, Constants DEF Effect, Effects, WorldTypes
<1>d. /\ Do("remove-network") = <<n>> /\ DoFor("cancel-timer", tomb) = <<c>>
      /\ DoFor("cancel-timer", old) = <<d>> /\ DoFor("tombstone", old) = <<f>>
      /\ DoFor("schedule-timer", old) = <<s>> /\ Do("remove-state") = <<e>>
      /\ Do("exit") = <<x>> /\ RemoveWorkload = <<b, n>>
  BY Lengthened DEF Do, DoFor, RemoveWorkload
<1>n. \A before : Safe(q, n, before) BY DEF Safe
<1>1. CASE tomb # 0
  <2>1. \A before : /\ Safe(q, b, before) /\ Safe(q, c, before) /\ Safe(q, d, before)
                    /\ Safe(q, e, before)
    BY <1>1 DEF Safe, CanRemove, CanCancel, FencedBy
  <2>2. SweepPlan(since) =
           RemoveWorkload \o DoFor("cancel-timer", tomb)
               \o When(old \notin {0, tomb}, DoFor("cancel-timer", old))
               \o Do("remove-state") \o Do("exit")
    BY <1>1 DEF SweepPlan
  <2>3. CASE old \notin {0, tomb}
    <3>1. SweepPlan(since) = <<b, n, c, d, e, x>>
      <4>1. SweepPlan(since) = <<b, n>> \o <<c>> \o <<d>> \o <<e>> \o <<x>>
        BY <1>d, <2>2, <2>3 DEF When
      <4> HIDE DEF b, n, c, d, e, x
      <4>2. /\ <<b, n>> \o <<c>> = <<b, n, c>> /\ <<b, n, c>> \o <<d>> = <<b, n, c, d>>
            /\ <<b, n, c, d>> \o <<e>> = <<b, n, c, d, e>>
            /\ <<b, n, c, d, e>> \o <<x>> = <<b, n, c, d, e, x>>
        BY Lengthened
      <4> QED BY <4>1, <4>2
    <3>2. Safe(q, x, {b, n, c, d, e}) BY <1>1 DEF Safe, CanExit, Holds, FencedBy
    <3> HIDE DEF b, n, c, d, e, x
    <3>3. <<b, n, c, d, e, x>> \in Seq(Effect) BY <1>e
    <3>4. SafePlan(q, <<b, n, c, d, e, x>>) BY <1>n, <2>1, <3>2, SafeList6
    <3> QED BY <3>1, <3>3, <3>4
  <2>4. CASE old \in {0, tomb}
    <3>1. SweepPlan(since) = <<b, n, c, e, x>>
      <4>1. SweepPlan(since) = <<b, n>> \o <<c>> \o <<>> \o <<e>> \o <<x>>
        BY <1>d, <2>2, <2>4 DEF When
      <4> HIDE DEF b, n, c, d, e, x
      <4>2. /\ <<b, n>> \o <<c>> = <<b, n, c>> /\ <<b, n, c>> \o <<>> = <<b, n, c>>
            /\ <<b, n, c>> \o <<e>> = <<b, n, c, e>>
            /\ <<b, n, c, e>> \o <<x>> = <<b, n, c, e, x>>
        BY Lengthened, NotLengthened
      <4> QED BY <4>1, <4>2
    <3>2. Safe(q, x, {b, n, c, e}) BY <1>1 DEF Safe, CanExit, Holds, FencedBy
    <3> HIDE DEF b, n, c, d, e, x
    <3>3. <<b, n, c, e, x>> \in Seq(Effect) BY <1>e
    <3>4. SafePlan(q, <<b, n, c, e, x>>) BY <1>n, <2>1, <3>2, SafeList5
    <3> QED BY <3>1, <3>3, <3>4
  <2> QED BY <2>3, <2>4
<1>2. CASE tomb = 0 /\ ~container.present
  <2>0. Free /\ MayFence BY <1>2, AtPlanning
  <2>1. \A before : Safe(q, e, before) /\ Safe(q, d, before)
    BY <2>0 DEF Safe, CanCancel
  <2>2. SweepPlan(since) =
           When(file # NoState, DoFor("tombstone", old))
               \o Do("remove-network") \o Do("remove-state")
               \o When(file # NoState, DoFor("cancel-timer", old)) \o Do("exit")
    BY <1>2 DEF SweepPlan
  <2>3. CASE file # NoState
    <3>1. SweepPlan(since) = <<f, n, e, d, x>>
      <4>1. SweepPlan(since) = <<f>> \o <<n>> \o <<e>> \o <<d>> \o <<x>>
        BY <1>d, <2>2, <2>3 DEF When
      <4> HIDE DEF f, n, d, e, x
      <4>2. /\ <<f>> \o <<n>> = <<f, n>> /\ <<f, n>> \o <<e>> = <<f, n, e>>
            /\ <<f, n, e>> \o <<d>> = <<f, n, e, d>>
            /\ <<f, n, e, d>> \o <<x>> = <<f, n, e, d, x>>
        BY Lengthened
      <4> QED BY <4>1, <4>2
    <3>2. Safe(q, x, {f, n, e, d}) BY <2>0 DEF Safe, CanExit, Holds
    <3>3. Safe(q, f, {}) BY <2>0, <2>3, AtPlanning DEF Safe, CanFence
    <3> HIDE DEF f, n, d, e, x
    <3>4. <<f, n, e, d, x>> \in Seq(Effect) BY <1>e
    <3>5. SafePlan(q, <<f, n, e, d, x>>) BY <1>n, <2>1, <3>2, <3>3, SafeList5
    <3> QED BY <3>1, <3>4, <3>5
  <2>4. CASE file = NoState
    <3>1. SweepPlan(since) = <<n, e, x>>
      <4>1. SweepPlan(since) = <<>> \o <<n>> \o <<e>> \o <<>> \o <<x>>
        BY <1>d, <2>2, <2>4 DEF When
      <4> HIDE DEF f, n, d, e, x
      <4>2. /\ <<>> \o <<n>> = <<n>> /\ <<n>> \o <<e>> = <<n, e>>
            /\ <<n, e>> \o <<>> = <<n, e>> /\ <<n, e>> \o <<x>> = <<n, e, x>>
        BY Lengthened, NotLengthened
      <4> QED BY <4>1, <4>2
    <3>2. Safe(q, x, {n, e}) BY <2>0 DEF Safe, CanExit, Holds
    <3> HIDE DEF f, n, d, e, x
    <3>3. <<n, e, x>> \in Seq(Effect) BY <1>e
    <3>4. SafePlan(q, <<n, e, x>>) BY <1>n, <2>1, <3>2, SafeList3
    <3> QED BY <3>1, <3>3, <3>4
  <2> QED BY <2>3, <2>4
<1>3. CASE tomb = 0 /\ Irrecoverable
  <2>1. SweepPlan(since) = RemoveIrrecoverable \o Do("exit")
    BY <1>3 DEF SweepPlan, Irrecoverable
  <2> QED BY <1>3, <2>1, IrrecoverableIsSafe
<1>4. CASE tomb = 0 /\ container.present /\ ~Irrecoverable
  <2>0. file # NoState /\ old \in Generations /\ file.exp \in Nat /\ now \in Nat
    BY <1>4, AtPlanning DEF Irrecoverable, WorldTypes
  <2>1. CASE file.exp <= since
    <3>1. SweepPlan(since) = ExpirePlan(old) BY <1>4, <2>1 DEF SweepPlan
    <3>2. file.exp <= now BY <2>0, <2>1
    <3> QED BY <2>0, <3>1, <3>2, ExpireIsSafe
  <2>2. CASE ~(file.exp <= since)
    <3>1. SweepPlan(since) = When(old \notin timers, DoFor("schedule-timer", old)) \o Do("exit")
      BY <1>4, <2>2 DEF SweepPlan
    <3>2. CASE old \in timers
      <4>1. SweepPlan(since) = <<x>>
        <5>1. SweepPlan(since) = <<>> \o <<x>> BY <1>d, <3>1, <3>2 DEF When
        <5> QED BY <5>1, NotLengthened
      <4>2. Safe(q, x, {}) BY <3>2 DEF Safe, CanExit, Holds, Armed
      <4> HIDE DEF x
      <4>3. <<x>> \in Seq(Effect) BY <1>e
      <4> QED BY <4>1, <4>2, <4>3, SafeList1
    <3>3. CASE old \notin timers
      <4>1. SweepPlan(since) = <<s, x>>
        <5>1. SweepPlan(since) = <<s>> \o <<x>> BY <1>d, <3>1, <3>3 DEF When
        <5> QED BY <5>1, Lengthened
      <4>2. Safe(q, x, {s}) BY DEF Safe, CanExit, Holds, Armed
      <4>3. Safe(q, s, {}) BY <2>0 DEF Safe
      <4> HIDE DEF s, x
      <4>4. <<s, x>> \in Seq(Effect) BY <1>e
      <4> QED BY <4>1, <4>2, <4>3, <4>4, SafeList2
    <3> QED BY <3>2, <3>3
  <2> QED BY <2>1, <2>2
<1> QED BY <1>1, <1>2, <1>3, <1>4

\* Whatever a process was started for, what it plans under the lock is safe.
LEMMA PlanIsSafe ==
  ASSUME HInv, NEW p \in Procs, proc[p].op \notin {"unused", "finished"},
         NEW q, q.op = proc[p].op, q.gen = proc[p].gen, q.prev = KnownGeneration
  PROVE  Plan(p) \in Seq(Effect) /\ SafePlan(q, Plan(p))
<1> DEFINE g == proc[p].gen
<1>1. /\ proc[p] \in Process /\ Purpose(p) BY DEF HInv, Types
<1>2. CASE proc[p].op = "ensure-instance"
  <2>1. g \in Generations BY <1>1, <1>2 DEF Purpose, Operations
  <2> QED BY <1>2, <2>1, EnsureIsSafe DEF Plan
<1>3. CASE proc[p].op = "stop-instance"
  <2>1. g \in Generations /\ history.stopAsked BY <1>1, <1>3 DEF Purpose, Operations
  <2> QED BY <1>3, <2>1, StopIsSafe DEF Plan
<1>4. CASE proc[p].op = "update-deadline"
  <2>1. g \in Generations BY <1>1, <1>4 DEF Purpose, Operations
  <2> QED BY <1>4, <2>1, UpdateIsSafe DEF Plan
<1>5. CASE proc[p].op = "inspect-instance"
  BY <1>5, InspectIsSafe DEF Plan
<1>6. CASE proc[p].op = "expire-instance"
  <2>1. g \in Generations /\ Deadline[g] <= now BY <1>1, <1>6 DEF Purpose
  <2> QED BY <1>6, <2>1, ExpireIsSafe DEF Plan
<1>7. CASE proc[p].op = "sweep-instances"
  <2>1. proc[p].since \in Nat /\ proc[p].since <= now BY <1>1, <1>7 DEF Purpose, Process
  <2> QED BY <1>7, <2>1, SweepIsSafe DEF Plan
<1> QED BY <1>1, <1>2, <1>3, <1>4, <1>5, <1>6, <1>7 DEF Process, Operations

----------------------------------------------------------------------------
(* What is undone after an effect that raised is safe where it left things. *)

\* SafeList for the state an effect leads to.
LEMMA SafeNext1 ==
  ASSUME NEW q, NEW a,
         Safe(q, a, {})'
  PROVE  SafePlan(q, <<a>>)'
<1> DEFINE t == <<a>>
<1>1. DOMAIN t = 1..1 OBVIOUS
<1>2. t[1] = a OBVIOUS
<1> HIDE DEF t
<1>3. Ahead(t, 1) = {} BY <1>2 DEF Ahead
<1>4. ASSUME NEW n \in DOMAIN t PROVE Safe(q, t[n], Ahead(t, n))'
  <2>1. n = 1 BY <1>1
  <2> QED BY <1>2, <1>3, <2>1
<1> QED BY <1>4 DEF SafePlan, t

\* SafeList2 about the state after a step.
LEMMA SafeNext2 ==
  ASSUME NEW q, NEW a, NEW b,
         Safe(q, a, {})', Safe(q, b, {a})'
  PROVE  SafePlan(q, <<a, b>>)'
<1> DEFINE t == <<a, b>>
<1>1. DOMAIN t = 1..2 OBVIOUS
<1>2. t[1] = a /\ t[2] = b OBVIOUS
<1> HIDE DEF t
<1>3. /\ Ahead(t, 1) = {}
      /\ Ahead(t, 2) = {a}
  BY <1>2 DEF Ahead
<1>4. ASSUME NEW n \in DOMAIN t PROVE Safe(q, t[n], Ahead(t, n))'
  <2>1. n = 1 \/ n = 2 BY <1>1
  <2> QED BY <1>2, <1>3, <2>1
<1> QED BY <1>4 DEF SafePlan, t

\* SafeList5 about the state after a step.
LEMMA SafeNext5 ==
  ASSUME NEW q, NEW a, NEW b, NEW c, NEW d, NEW e,
         Safe(q, a, {})', Safe(q, b, {a})', Safe(q, c, {a, b})',
         Safe(q, d, {a, b, c})', Safe(q, e, {a, b, c, d})'
  PROVE  SafePlan(q, <<a, b, c, d, e>>)'
<1> DEFINE t == <<a, b, c, d, e>>
<1>1. DOMAIN t = 1..5 OBVIOUS
<1>2. t[1] = a /\ t[2] = b /\ t[3] = c /\ t[4] = d /\ t[5] = e OBVIOUS
<1> HIDE DEF t
<1>3. /\ Ahead(t, 1) = {}
      /\ Ahead(t, 2) = {a}
      /\ Ahead(t, 3) = {a, b}
      /\ Ahead(t, 4) = {a, b, c}
      /\ Ahead(t, 5) = {a, b, c, d}
  BY <1>2 DEF Ahead
<1>4. ASSUME NEW n \in DOMAIN t PROVE Safe(q, t[n], Ahead(t, n))'
  <2>1. n = 1 \/ n = 2 \/ n = 3 \/ n = 4 \/ n = 5 BY <1>1
  <2> QED BY <1>2, <1>3, <2>1
<1> QED BY <1>4 DEF SafePlan, t

\* What is undone after an effect that raised is safe (ensure_instance, update_deadline).
LEMMA UndoIsSafe ==
  ASSUME HInv, NEW p \in Calls, lock = p, proc[p].todo # <<>>, now' = now,
         history'.promised = history.promised,
         Next1(p).do # "tombstone" => tomb' = tomb,
         Next1(p).do = "write-state" => file' = file \/ history'.unswept,
         NEW q, q.op = proc[p].op, NEW g, g = proc[p].gen,
         NEW t, t = Undo(p) \o Do("reply-error")
  PROVE  t \in Seq(Effect) /\ SafePlan(q, t)'
<1> DEFINE b == [do |-> "remove-container", gen |-> 0]
           n == [do |-> "remove-network", gen |-> 0]
           c == [do |-> "cancel-timer", gen |-> g]
           e == [do |-> "remove-state", gen |-> 0]
           y == [do |-> "reply-error", gen |-> 0]
<1>p. p \in Procs /\ proc[p] \in Process BY DEF HInv, Types, Procs
<1>e. /\ b \in Effect /\ n \in Effect /\ c \in Effect /\ e \in Effect /\ y \in Effect
  BY <1>p, Constants DEF Effect, Effects, Process
<1>n. \A before : Safe(q, n, before)' /\ Safe(q, y, before)' BY DEF Safe
<1>y. Do("reply-error") = <<y>> BY DEF Do
<1>1. CASE proc[p].op = "ensure-instance" /\ Next1(p).do = "run-container"
  <2>1. t = <<n, y>>
    <3>1. Undo(p) = <<n>> BY <1>1 DEF Undo, Do
    <3> HIDE DEF n, y
    <3> QED BY <1>y, <3>1, Lengthened
  <2> HIDE DEF n, y
  <2>2. <<n, y>> \in Seq(Effect) BY <1>e
  <2> QED BY <1>n, <2>1, <2>2, SafeNext2
<1>2. CASE /\ proc[p].op = "ensure-instance" /\ proc[p].created
           /\ Next1(p).do \in {"schedule-timer", "write-state", "cancel-timer", "wait-for-startup"}
  <2>1. t = <<b, n, c, e, y>>
    <3>1. Undo(p) = RemoveWorkload \o DoFor("cancel-timer", g) \o Do("remove-state")
      BY <1>2 DEF Undo
    <3>2. /\ RemoveWorkload = <<b, n>> /\ DoFor("cancel-timer", g) = <<c>>
          /\ Do("remove-state") = <<e>>
      BY Lengthened DEF RemoveWorkload, Do, DoFor
    <3> HIDE DEF b, n, c, e, y
    <3>3. /\ <<b, n>> \o <<c>> = <<b, n, c>> /\ <<b, n, c>> \o <<e>> = <<b, n, c, e>>
          /\ <<b, n, c, e>> \o <<y>> = <<b, n, c, e, y>>
      BY Lengthened
    <3> QED BY <1>y, <3>1, <3>2, <3>3
  <2>2. Free' BY <1>2, <1>p DEF HInv, Holder, Free
  <2>3. \A before : Safe(q, b, before)' /\ Safe(q, c, before)' /\ Safe(q, e, before)'
    BY <1>2, <2>2 DEF Safe, CanRemove, CanCancel
  <2> HIDE DEF b, n, c, e, y
  <2>4. <<b, n, c, e, y>> \in Seq(Effect) BY <1>e
  <2>5. SafePlan(q, <<b, n, c, e, y>>)' BY <1>n, <2>3, SafeNext5
  <2> QED BY <2>1, <2>4, <2>5
<1>3. CASE proc[p].op = "update-deadline" /\ Next1(p).do = "write-state" /\ proc[p].prev # g
  <2>1. t = <<c, y>>
    <3>1. Undo(p) = <<c>> BY <1>3 DEF Undo, DoFor
    <3> HIDE DEF c, y
    <3> QED BY <1>y, <3>1, Lengthened
  <2>2. file.gen = proc[p].prev BY <1>3, <1>p, HeadIsSafe DEF Safe, CanWrite
  <2>3. Safe(q, c, {})' BY <1>3, <2>2 DEF Safe, CanCancel
  <2> HIDE DEF c, y
  <2>4. <<c, y>> \in Seq(Effect) BY <1>e
  <2> QED BY <1>n, <2>1, <2>3, <2>4, SafeNext2
<1>4. CASE Undo(p) = <<>>
  <2>1. t = <<y>> BY <1>4, <1>y, NotLengthened
  <2> HIDE DEF y
  <2>2. <<y>> \in Seq(Effect) BY <1>e
  <2> QED BY <1>n, <2>1, <2>2, SafeNext1
<1> QED BY <1>1, <1>2, <1>3, <1>4 DEF Undo

\* What is safe stays safe while time passes, calls arrive and containers exit.
LEMMA SafeStays ==
  ASSUME now \in Nat, now' \in Nat, now <= now', history.promised \in Nat,
         UNCHANGED <<tomb, file, timers>>, container'.present = container.present,
         history'.promised = history.promised,
         history.stopAsked => history'.stopAsked,
         history.unswept => history'.unswept,
         NEW q, NEW t, SafePlan(q, t)
  PROVE  SafePlan(q, t)' /\ (Free => Free')
<1>1. (Free => Free') /\ (MayFence => MayFence') BY DEF Free, MayFence
<1>2. ASSUME NEW e, NEW before, Safe(q, e, before) PROVE Safe(q, e, before)'
  <2>1. FencedBy(before)' <=> FencedBy(before) BY DEF FencedBy
  <2>2. \A g : Armed(g, before)' <=> Armed(g, before) BY DEF Armed
  <2> QED BY <1>1, <1>2, <2>1, <2>2
      DEF Safe, CanFence, CanRemove, CanCancel, CanRun, CanWrite, CanConfirm, CanDeny, CanExit
<1> QED BY <1>1, <1>2 DEF SafePlan

----------------------------------------------------------------------------
(* HInv is inductive.                                                       *)

ProcTypes ==
    /\ lock \in Procs \cup {NoProc}
    /\ proc \in [Procs -> Process]
    /\ \A p \in Procs : proc[p].locked <=> lock = p

\* Types is one part about the world and one about the processes.
LEMMA TypesSplit ==
  /\ Types <=> WorldTypes /\ ProcTypes
  /\ Types' <=> (WorldTypes /\ ProcTypes)'
<1>1. Types <=> WorldTypes /\ ProcTypes
  BY DEF Types, TypeOK, WorldTypes, ProcTypes, Process
<1>2. Types' <=> (WorldTypes /\ ProcTypes)'
  BY DEF Types, TypeOK, WorldTypes, ProcTypes, Process
<1> QED BY <1>1, <1>2

\* Records of processes.
LEMMA ProcessRecords ==
  /\ Unused \in Process /\ Finished \in Process
  /\ Unused.op = "unused" /\ Finished.op = "finished"
  /\ ~Unused.locked /\ ~Finished.locked
  /\ \A p : Ended(p) \in {Unused, Finished}
<1>1. <<>> \in Seq(Effect) OBVIOUS
<1>2. Unused \in Process BY <1>1, Constants DEF Unused, Process
<1>3. Finished \in Process BY <1>2 DEF Finished, Process
<1>4. /\ Unused.op = "unused" /\ ~Unused.locked
      /\ Finished.op = "finished" /\ ~Finished.locked
  BY DEF Unused, Finished
<1> QED BY <1>2, <1>3, <1>4 DEF Ended

\* What became of a process in a step: it is what it was, with other effects
\* ahead of it, or it is over.
Goes(p) ==
    \/ /\ proc'[p].op = proc[p].op /\ proc'[p].gen = proc[p].gen
       /\ proc'[p].since = proc[p].since
       /\ lock' = p => lock = p \/ proc[p].op \notin {"unused", "finished"}
    \/ proc'[p] \in {Unused, Finished} /\ lock' # p

\* A process that goes on keeps its purpose while time passes and requests are kept.
LEMMA PurposeStays ==
  ASSUME NEW p \in Procs, Purpose(p), Goes(p), proc[p] \in Process,
         now \in Nat, now' \in Nat, now <= now', history.stopAsked => history'.stopAsked
  PROVE  Purpose(p)'
<1>1. CASE proc'[p] \in {Unused, Finished} /\ lock' # p
  BY <1>1, ProcessRecords DEF Purpose, Operations
<1>2. CASE /\ proc'[p].op = proc[p].op /\ proc'[p].gen = proc[p].gen
           /\ proc'[p].since = proc[p].since
           /\ lock' = p => lock = p \/ proc[p].op \notin {"unused", "finished"}
  <2>1. \A g \in Generations : Deadline[g] <= now => Deadline[g] <= now'
    BY Constants
  <2>2. proc[p].since \in Nat BY DEF Process
  <2> QED BY <1>2, <2>1, <2>2 DEF Purpose
<1> QED BY <1>1, <1>2 DEF Goes

\* The invariant holds before the first call.
LEMMA HInvInit == Init => HInv
<1> SUFFICES ASSUME Init PROVE HInv OBVIOUS
<1>1. ProcTypes BY ProcsAreNamed, ProcessRecords DEF Init, ProcTypes
<1>2. WorldTypes BY Constants DEF Init, WorldTypes
<1>3. World BY Constants DEF Init, World, Files, StateFile, Free, MayFence
<1>4. \A p \in Procs : Purpose(p) /\ Holder(p)
  BY ProcsAreNamed, ProcessRecords DEF Init, Purpose, Holder, Operations
<1> QED BY <1>1, <1>2, <1>3, <1>4, TypesSplit DEF HInv

\* A new process: the world stands still, the holder of the lock is somebody else.
LEMMA StartKeepsHInv ==
  ASSUME HInv, NEW p \in Procs, proc[p].op = "unused",
         NEW r \in Process, proc' = [proc EXCEPT ![p] = r], ~r.locked,
         r.op # "unused" /\ r.op # "finished",
         r.op \in Operations => p \in Calls /\ r.gen \in Generations,
         r.op = "stop-instance" => history'.stopAsked,
         r.op = "expire-instance" =>
            r.gen \in Generations /\ p = <<"expire", r.gen>> /\ Deadline[r.gen] <= now,
         r.op = "sweep-instances" => p = Sweeper /\ r.since <= now,
         p \in Calls => r.op \in Operations,
         UNCHANGED <<now, worldVars, lock, faults>>,
         history' = [history EXCEPT !.stopAsked = history'.stopAsked],
         history'.stopAsked \in BOOLEAN, history.stopAsked => history'.stopAsked
  PROVE  HInv'
<1>0. WorldTypes /\ ProcTypes /\ World BY TypesSplit DEF HInv
<1>1. lock # p BY DEF HInv, Purpose
<1>2. WorldTypes'
  BY <1>0 DEF WorldTypes, worldVars
<1>h. /\ history'.promised = history.promised /\ history'.stopped = history.stopped
      /\ history'.ended = history.ended /\ history'.unswept = history.unswept
  BY <1>0 DEF WorldTypes
<1>3. ProcTypes' BY <1>0, <1>1 DEF ProcTypes
<1>4. World'
  BY <1>0, <1>h DEF World, Files, StateFile, Free, MayFence, worldVars
<1>5. ASSUME NEW o \in Procs PROVE Purpose(o)' /\ Holder(o)'
  <2>1. CASE o = p
    <3>1. proc'[p] = r /\ lock' # p BY <1>0, <1>1 DEF ProcTypes
    <3> QED BY <2>1, <3>1 DEF Purpose, Holder, Operations
  <2>2. CASE o # p
    <3>1. proc'[o] = proc[o] BY <1>0, <2>2 DEF ProcTypes
    <3>2. Purpose(o)'
      BY <1>0, <3>1, PurposeStays DEF Goes, HInv, WorldTypes, ProcTypes
    <3>3. Holder(o)'
      <4>1. CASE lock = o
        <5>1. SafePlan(proc[o], proc[o].todo) /\ (proc[o].created => Free)
          BY <4>1 DEF HInv, Holder
        <5>2. \A q, t : SafePlan(q, t) => SafePlan(q, t)' /\ (Free => Free')
          BY <1>0, <1>h, SafeStays DEF worldVars, WorldTypes
        <5> QED BY <3>1, <5>1, <5>2 DEF Holder
      <4>2. CASE lock # o BY <4>2 DEF Holder
      <4> QED BY <4>1, <4>2
    <3> QED BY <3>2, <3>3
  <2> QED BY <2>1, <2>2
<1> QED BY <1>2, <1>3, <1>4, <1>5, TypesSplit DEF HInv

\* A call arrives.
LEMMA CallKeepsHInv ==
  ASSUME HInv, NEW p \in Calls, NEW op \in Operations, NEW g \in Generations, Call(p, op, g)
  PROVE  HInv'
<1> DEFINE r == Started(op, g)
           b == history.stopAsked \/ op = "stop-instance"
<1>1. /\ r \in Process /\ ~r.locked /\ r.op = op /\ r.gen = g
  BY ProcessRecords, Constants DEF Started, Process, Operations
<1>2. p \in Procs BY DEF Procs
<1>3. history' = [history EXCEPT !.stopAsked = b] BY DEF Call
<1>4. history'.stopAsked = b BY <1>3 DEF HInv, Types
<1>5. history' = [history EXCEPT !.stopAsked = history'.stopAsked] BY <1>3, <1>4
<1>6. history'.stopAsked \in BOOLEAN BY <1>4
<1>7. /\ proc' = [proc EXCEPT ![p] = r] /\ proc[p].op = "unused"
      /\ UNCHANGED <<now, worldVars, lock, faults>>
  BY DEF Call
<1>8. op \notin {"unused", "finished", "expire-instance", "sweep-instances"} BY DEF Operations
<1> HIDE DEF r, b
<1> QED BY <1>1, <1>2, <1>4, <1>5, <1>6, <1>7, <1>8, StartKeepsHInv DEF b

\* A timer elapses and its service starts.
LEMMA TimerKeepsHInv ==
  ASSUME HInv, NEW g \in Generations, TimerElapses(g) PROVE HInv'
<1> DEFINE p == <<"expire", g>>
           r == Started("expire-instance", g)
<1>1. /\ r \in Process /\ ~r.locked /\ r.op = "expire-instance" /\ r.gen = g
  BY ProcessRecords, Constants DEF Started, Process
<1>2. p \in Procs /\ p \notin Calls BY DEF Procs, Services, Calls
<1>3. history' = [history EXCEPT !.stopAsked = history'.stopAsked] /\ history' = history
  BY DEF TimerElapses, HInv, Types
<1>4. history'.stopAsked \in BOOLEAN BY <1>3 DEF HInv, Types
<1>5. /\ proc' = [proc EXCEPT ![p] = r] /\ proc[p].op = "unused" /\ Deadline[g] <= now
      /\ UNCHANGED <<now, worldVars, lock, faults>>
  BY DEF TimerElapses
<1> HIDE DEF r
<1>6. r.op \notin Operations BY <1>1 DEF Operations
<1> QED BY <1>1, <1>2, <1>3, <1>4, <1>5, <1>6, StartKeepsHInv

\* The sweep starts.
LEMMA SweepKeepsHInv ==
  ASSUME HInv, SweepStarts PROVE HInv'
<1> DEFINE r == Started("sweep-instances", 0)
<1>0. now \in Nat BY DEF HInv, Types, TypeOK
<1>1. /\ r \in Process /\ ~r.locked /\ r.op = "sweep-instances" /\ r.since = now
  BY <1>0, ProcessRecords, Constants DEF Started, Process
<1>2. Sweeper \in Procs /\ Sweeper \notin Calls BY DEF Procs, Sweeper, Calls
<1>3. history' = [history EXCEPT !.stopAsked = history'.stopAsked] /\ history' = history
  BY DEF SweepStarts, HInv, Types
<1>4. history'.stopAsked \in BOOLEAN BY <1>3 DEF HInv, Types
<1>5. /\ proc' = [proc EXCEPT ![Sweeper] = r] /\ proc[Sweeper].op = "unused"
      /\ UNCHANGED <<now, worldVars, lock, faults>>
  BY DEF SweepStarts
<1> HIDE DEF r
<1>6. r.op \notin Operations /\ now <= now BY <1>0, <1>1 DEF Operations
<1> QED BY <1>1, <1>2, <1>3, <1>4, <1>5, <1>6, StartKeepsHInv

\* The world stands still, or only time passes, calls arrive or containers stop running.
LEMMA CalmKeepsWorld ==
  ASSUME HInv, now' \in Nat, now <= now', UNCHANGED <<file, disk, tomb, timers, history>>,
         container'.present = container.present, container'.gen = container.gen
  PROVE  World'
BY DEF HInv, Types, TypeOK, World, Files, StateFile, Free, MayFence

\* A process takes the lock and makes its plan.
LEMMA BeginKeepsHInv ==
  ASSUME HInv, NEW p \in Procs, Begin(p) PROVE HInv'
<1> DEFINE r == [proc[p] EXCEPT !.locked = TRUE, !.todo = Plan(p), !.prev = KnownGeneration,
                                !.created = ~container.present]
<1>0. WorldTypes /\ ProcTypes /\ World /\ lock = NoProc /\ proc[p] \in Process
  BY TypesSplit DEF HInv, ProcTypes, Begin
<1>1. /\ proc' = [proc EXCEPT ![p] = r] /\ lock' = p
      /\ proc[p].op \notin {"unused", "finished"} /\ ~proc[p].locked
      /\ UNCHANGED <<now, worldVars, faults, history>>
  BY DEF Begin
<1>2. /\ r.op = proc[p].op /\ r.gen = proc[p].gen /\ r.since = proc[p].since
      /\ r.prev = KnownGeneration /\ r.locked
      /\ r.todo = Plan(p) /\ (r.created <=> ~container.present)
  BY <1>0 DEF Process
<1>3. Plan(p) \in Seq(Effect) /\ SafePlan(r, Plan(p))
  <2> HIDE DEF r
  <2> QED BY <1>1, <1>2, PlanIsSafe
<1>4. r \in Process
  <2>1. (~container.present) \in BOOLEAN /\ KnownGeneration \in 0..MaxGeneration
    BY AtPlanning
  <2> QED BY <1>0, <1>3, <2>1 DEF Process
<1> HIDE DEF r
<1>5. proc'[p] = r /\ \A o \in Procs : o # p => proc'[o] = proc[o]
  BY <1>0, <1>1 DEF ProcTypes
<1>6. WorldTypes' BY <1>0, <1>1 DEF WorldTypes, worldVars
<1>7. ProcTypes' BY <1>0, <1>1, <1>2, <1>4, ProcsAreNamed DEF ProcTypes
<1>8. World'
  BY <1>0, <1>1, CalmKeepsWorld DEF worldVars, WorldTypes
<1>9. ASSUME NEW o \in Procs PROVE Purpose(o)' /\ Holder(o)'
  <2>1. Goes(o)
    BY <1>1, <1>2, <1>5 DEF Goes
  <2>2. Purpose(o)'
    BY <1>0, <1>1, <2>1, PurposeStays DEF HInv, WorldTypes, ProcTypes
  <2>3. Holder(o)'
    <3>1. CASE o = p
      <4>1. r.created => Free BY <1>2, AtPlanning
      <4>2. SafePlan(r, r.todo) BY <1>2, <1>3
      <4>3. \A q, t : SafePlan(q, t) => SafePlan(q, t)' /\ (Free => Free')
        BY <1>0, <1>1, SafeStays DEF worldVars, WorldTypes
      <4> QED BY <1>5, <3>1, <4>1, <4>2, <4>3 DEF Holder
    <3>2. CASE o # p BY <1>1, <3>2 DEF Holder
    <3> QED BY <3>1, <3>2
  <2> QED BY <2>2, <2>3
<1> QED BY <1>6, <1>7, <1>8, <1>9, TypesSplit DEF HInv

\* Cancelling a timer may take the waiting service of its generation along.
LEMMA StepOverIs ==
  ASSUME HInv, NEW p \in Procs, lock = p, NEW r \in Process, StepOver(p, r)
  PROVE  /\ proc' \in [Procs -> Process] /\ proc'[p] = r
         /\ \A o \in Procs : o # p => proc'[o] \in {proc[o], Unused}
BY ProcessRecords DEF StepOver, HInv, Types

\* The others, while one works: they wait as they did, or their service was stopped.
LEMMA OthersStay ==
  ASSUME HInv, NEW p \in Procs, lock = p, lock' \in {p, NoProc},
         NEW o \in Procs, o # p, proc'[o] \in {proc[o], Unused},
         now' = now, history.stopAsked => history'.stopAsked
  PROVE  Purpose(o)' /\ Holder(o)' /\ (proc'[o].locked <=> lock' = o)
<1>0. WorldTypes /\ ProcTypes BY TypesSplit DEF HInv
<1>1. lock # o /\ lock' # o BY ProcsAreNamed
<1>2. Goes(o) BY <1>1 DEF Goes
<1>3. Purpose(o)'
  BY <1>0, <1>2, PurposeStays DEF HInv, WorldTypes, ProcTypes
<1>4. ~proc'[o].locked BY <1>0, <1>1, ProcessRecords DEF ProcTypes
<1> QED BY <1>1, <1>3, <1>4 DEF Holder

\* No effect brings a deadline back that binds the helper.
LEMMA EffectKeepsFree ==
  ASSUME HInv, NEW p \in Procs, lock = p, proc[p].todo # <<>>, Apply(p),
         Marked(p), now' = now, Free
  PROVE  Free'
<1>1. history'.promised = history.promised BY DEF Marked
<1>2. CASE WriteTombstone(p)
  <2>1. Next1(p).do = "tombstone" BY <1>2 DEF WriteTombstone, Running
  <2>2. Next1(p).gen \in Generations BY <2>1, HeadIsSafe DEF Safe, CanFence
  <2>3. tomb \in Nat BY DEF HInv, Types, TypeOK
  <2>4. tomb' # 0 BY <1>2, <2>2, <2>3 DEF WriteTombstone, Larger, Generations
  <2> QED BY <2>4 DEF Free
<1>3. CASE tomb' = tomb BY <1>1, <1>3 DEF Free
<1> QED BY <1>2, <1>3
    DEF Apply, RemoveContainer, RemoveNetwork, RemoveState, CancelTimer, CreateNetwork,
        RunContainer, ScheduleTimer, WriteState, StartupSeen, worldVars

\* The holder carries out its first effect.
LEMMA PerformKeepsHInv ==
  ASSUME HInv, NEW p \in Procs, Perform(p) PROVE HInv'
<1> DEFINE r == [proc[p] EXCEPT !.todo = Tail(@)]
<1>0. /\ WorldTypes /\ ProcTypes /\ proc[p] \in Process
      /\ Apply(p) /\ NoteEnd(p) /\ UNCHANGED <<now, lock, faults>> /\ StepOver(p, r)
  BY TypesSplit DEF HInv, ProcTypes, Perform
<1>1. lock = p /\ proc[p].todo # <<>>
  BY <1>0 DEF Apply, WriteTombstone, RemoveContainer, RemoveNetwork, RemoveState, CancelTimer,
        CreateNetwork, RunContainer, ScheduleTimer, WriteState, StartupSeen, Running
<1>2. Marked(p) BY <1>0, MarksAre DEF HInv
<1>3. WorldTypes'
  <2>1. faults' \in Nat BY <1>0 DEF WorldTypes
  <2> QED BY <1>0, <1>1, <1>2, <2>1, EffectKeepsTypes
<1>4. World' BY <1>0, <1>1, <1>2, EffectKeepsWorld
<1>5. /\ r \in Process /\ r.op = proc[p].op /\ r.gen = proc[p].gen /\ r.since = proc[p].since
      /\ r.prev = proc[p].prev /\ r.created = proc[p].created /\ r.locked = proc[p].locked
      /\ r.todo = Tail(proc[p].todo)
  BY <1>0, <1>1, HeadIsSafe DEF Process
<1> HIDE DEF r
<1>6. /\ proc' \in [Procs -> Process] /\ proc'[p] = r
      /\ \A o \in Procs : o # p => proc'[o] \in {proc[o], Unused}
  BY <1>0, <1>1, <1>5, StepOverIs
<1>7. ASSUME NEW o \in Procs, o # p
      PROVE  Purpose(o)' /\ Holder(o)' /\ (proc'[o].locked <=> lock' = o)
  <2>1. history.stopAsked => history'.stopAsked BY <1>2 DEF Marked
  <2>2. lock' \in {p, NoProc} /\ now' = now BY <1>0, <1>1
  <2> QED BY <1>1, <1>6, <1>7, <2>1, <2>2, OthersStay
<1>8. Purpose(p)'
  <2>1. Goes(p) BY <1>0, <1>1, <1>5, <1>6 DEF Goes
  <2>2. history.stopAsked => history'.stopAsked BY <1>2 DEF Marked
  <2>3. now \in Nat /\ now' = now /\ now <= now' BY <1>0 DEF WorldTypes
  <2> QED BY <1>0, <2>1, <2>2, <2>3, PurposeStays DEF HInv
<1>9. Holder(p)'
  <2>1. r.created => Free' BY <1>0, <1>1, <1>2, <1>5, EffectKeepsFree DEF HInv, Holder
  <2>2. ASSUME NEW q, q.op = proc[p].op, q.gen = proc[p].gen, q.prev = proc[p].prev,
               NEW t, t = Tail(proc[p].todo)
        PROVE  SafePlan(q, t)'
    <3> SUFFICES ASSUME NEW n \in DOMAIN t PROVE Safe(q, t[n], Ahead(t, n))'
      BY DEF SafePlan
    <3> DEFINE e == t[n]
               before == Ahead(t, n)
    <3>1. proc[p].todo \in Seq(Effect) BY <1>0 DEF Process
    <3>2. /\ n + 1 \in DOMAIN proc[p].todo /\ e = proc[p].todo[n + 1] /\ e \in Effect
          /\ before \in SUBSET Effect
          /\ Ahead(proc[p].todo, n + 1) = {Next1(p)} \cup before
      BY <1>1, <2>2, <3>1, AheadOfTail DEF Next1
    <3>3. Safe(proc[p], e, {Next1(p)} \cup before)
      BY <1>1, <3>2 DEF HInv, Holder, SafePlan
    <3>4. Safe(q, e, {Next1(p)} \cup before)
      BY <2>2, <3>3 DEF Safe, CanRemove, CanWrite, CanExit
    <3>5. before' = before /\ e' = e BY DEF Ahead
    <3> HIDE DEF e, before
    <3>6. \A f \in Effect, bf \in SUBSET Effect :
             Safe(q, f, {Next1(p)} \cup bf) => Safe(q, f, bf)'
      BY <1>0, <1>1, <1>2, <2>2, EffectKeepsSafe
    <3> QED BY <3>2, <3>4, <3>5, <3>6 DEF e, before
  <2> QED BY <1>5, <1>6, <2>1, <2>2 DEF Holder
<1>10. ProcTypes'
  <2>1. proc'[p].locked <=> lock' = p BY <1>0, <1>1, <1>5, <1>6 DEF ProcTypes
  <2> QED BY <1>0, <1>1, <1>6, <1>7, <2>1 DEF ProcTypes
<1> QED BY <1>3, <1>4, <1>7, <1>8, <1>9, <1>10, TypesSplit DEF HInv

\* A process that is over gives the lock back; what is left to show is the world.
LEMMA OverKeepsProcs ==
  ASSUME HInv, NEW p \in Procs, lock = p, lock' = NoProc,
         proc' = [proc EXCEPT ![p] = Ended(p)], now' = now,
         history.stopAsked => history'.stopAsked
  PROVE  ProcTypes' /\ \A o \in Procs : Purpose(o)' /\ Holder(o)'
<1>0. ProcTypes /\ WorldTypes BY TypesSplit DEF HInv
<1>1. /\ proc' \in [Procs -> Process] /\ proc'[p] \in {Unused, Finished}
      /\ \A o \in Procs : o # p => proc'[o] = proc[o]
  BY <1>0, ProcessRecords DEF ProcTypes
<1>2. \A o \in Procs : Purpose(o)' /\ Holder(o)' /\ (proc'[o].locked <=> lock' = o)
  <2> SUFFICES ASSUME NEW o \in Procs
               PROVE  Purpose(o)' /\ Holder(o)' /\ (proc'[o].locked <=> lock' = o)
    OBVIOUS
  <2>1. lock' # o BY ProcsAreNamed
  <2>2. CASE o # p BY <1>1, <2>2, OthersStay
  <2>3. CASE o = p
    <3>1. Goes(o) BY <1>1, <2>1, <2>3 DEF Goes
    <3>2. Purpose(o)'
      BY <1>0, <3>1, PurposeStays DEF HInv, ProcTypes, WorldTypes
    <3> QED BY <1>1, <2>1, <2>3, <3>2, ProcessRecords DEF Holder
  <2> QED BY <2>2, <2>3
<1> QED BY <1>1, <1>2 DEF ProcTypes

\* The holder answers its call and drops the lock.
LEMMA ReplyKeepsHInv ==
  ASSUME HInv, NEW p \in Procs, Reply(p) PROVE HInv'
<1> DEFINE g == Next1(p).gen
           done == Next1(p).do
           confirmed == done = "reply-present" /\ proc[p].op # "inspect-instance"
           denied == proc[p].op = "stop-instance" /\ done = "reply-absent"
<1>0. /\ WorldTypes /\ ProcTypes /\ World /\ lock = p /\ proc[p].todo # <<>>
      /\ lock' = NoProc /\ proc' = [proc EXCEPT ![p] = Ended(p)]
      /\ UNCHANGED <<now, worldVars, faults>>
  BY TypesSplit DEF HInv, Reply
<1>1. Safe(proc[p], Next1(p), {}) BY <1>0, HeadIsSafe
<1>2. PICK s \in BOOLEAN, m \in Nat :
         /\ s <=> history.stopped \/ denied
         /\ m = IF confirmed THEN Larger(history.promised, Deadline[g]) ELSE history.promised
         /\ history' = [history EXCEPT !.stopped = s, !.promised = m]
  <2>1. confirmed => Deadline[g] \in Nat BY <1>1, Constants DEF Safe, CanConfirm
  <2>2. (IF confirmed THEN Larger(history.promised, Deadline[g]) ELSE history.promised) \in Nat
    BY <1>0, <2>1 DEF Larger, WorldTypes
  <2>3. (history.stopped \/ denied) \in BOOLEAN OBVIOUS
  <2>4. history' = [history EXCEPT !.stopped = history.stopped \/ denied,
                       !.promised = IF confirmed THEN Larger(history.promised, Deadline[g])
                                                 ELSE history.promised]
    BY <1>0 DEF Reply, WorldTypes
  <2> HIDE DEF confirmed, denied, g
  <2> QED BY <2>2, <2>3, <2>4
<1>3. /\ history'.stopAsked = history.stopAsked /\ history'.ended = history.ended
      /\ history'.unswept = history.unswept /\ history'.stopped = s /\ history'.promised = m
  BY <1>0, <1>2 DEF WorldTypes
<1>4. WorldTypes' BY <1>0, <1>2 DEF WorldTypes, worldVars
<1>5. World'
  <2>1. Files' BY <1>0 DEF World, Files, StateFile, worldVars
  <2>2. denied => tomb # 0 /\ ~container.present
    BY <1>1 DEF Safe, CanDeny, FencedBy, Holds
  <2>3. history'.ended \/ history'.stopped => tomb' # 0 /\ ~container'.present
    BY <1>0, <1>2, <1>3, <2>2 DEF World, worldVars
  <2>4. CASE ~confirmed
    <3>1. m = history.promised BY <1>2, <2>4
    <3> QED BY <1>0, <1>3, <2>1, <2>3, <3>1 DEF World, Free, MayFence, worldVars
  <2>5. CASE confirmed
    <3>1. /\ g \in Generations /\ tomb = 0 /\ container.present /\ file.gen = g /\ g \in timers
      BY <1>1, <2>5 DEF Safe, CanConfirm, Armed, Holds
    <3>2. file.exp = Deadline[g] /\ Deadline[g] \in Nat
      BY <3>1, Constants, <1>0 DEF World, Files, StateFile
    <3>3. m = Larger(history.promised, Deadline[g]) BY <1>2, <2>5
    <3>4. history.promised <= now \/ history.promised <= file.exp
      BY <1>0, <3>1 DEF World, Free
    <3>5. m <= now \/ m <= file.exp
      BY <1>0, <3>2, <3>3, <3>4 DEF Larger, WorldTypes
    <3> QED BY <1>0, <1>3, <2>1, <2>3, <3>1, <3>5 DEF World, Free, MayFence, worldVars
  <2> QED BY <2>4, <2>5
<1>6. ProcTypes' /\ \A o \in Procs : Purpose(o)' /\ Holder(o)'
  BY <1>0, <1>3, OverKeepsProcs
<1> QED BY <1>4, <1>5, <1>6, TypesSplit DEF HInv

\* A service or the sweep ends.
LEMMA ExitKeepsHInv ==
  ASSUME HInv, NEW p \in Procs, Exit(p) PROVE HInv'
<1>0. /\ WorldTypes /\ ProcTypes /\ World /\ lock = p /\ proc[p].todo # <<>>
      /\ Next1(p).do = "exit"
      /\ lock' = NoProc /\ proc' = [proc EXCEPT ![p] = Ended(p)]
      /\ UNCHANGED <<now, container, network, file, disk, tomb, faults>>
      /\ timers' = IF proc[p].op = "expire-instance" THEN timers \ {proc[p].gen} ELSE timers
  BY TypesSplit DEF HInv, Exit, Running
<1>1. CanExit(proc[p], {}) BY <1>0, HeadIsSafe DEF Safe
<1>2. PICK u \in BOOLEAN :
         /\ u <=> history.unswept /\ proc[p].op # "sweep-instances"
         /\ history' = [history EXCEPT !.unswept = u]
  BY DEF Exit
<1>3. /\ history'.stopAsked = history.stopAsked /\ history'.ended = history.ended
      /\ history'.unswept = u /\ history'.stopped = history.stopped
      /\ history'.promised = history.promised
  BY <1>0, <1>2 DEF WorldTypes
<1>4. WorldTypes' BY <1>0, <1>2 DEF WorldTypes
<1>5. World'
  <2>1. Files' BY <1>0 DEF World, Files, StateFile
  <2>2. ~Free' => file'.gen \in timers' \/ history'.unswept
    <3> SUFFICES ASSUME ~Free' PROVE file.gen \in timers' \/ u BY <1>0, <1>3
    <3>1. ~Free BY <1>0, <1>3 DEF Free
    <3>2. ~FencedBy({}) BY <3>1 DEF FencedBy, Holds, Free
    <3>3. CASE proc[p].op = "expire-instance"
      <4>1. file.gen # proc[p].gen BY <1>1, <3>1, <3>2, <3>3 DEF CanExit
      <4> QED BY <1>0, <1>2, <3>1, <3>3, <4>1 DEF World
    <3>4. CASE proc[p].op = "sweep-instances"
      <4>1. file.gen \in timers BY <1>1, <3>1, <3>2, <3>4 DEF CanExit, Armed
      <4> QED BY <1>0, <3>4, <4>1
    <3>5. CASE proc[p].op \notin {"expire-instance", "sweep-instances"}
      BY <1>0, <1>2, <3>1, <3>5 DEF World
    <3> QED BY <3>3, <3>4, <3>5
  <2> QED BY <1>0, <1>3, <2>1, <2>2 DEF World, Free, MayFence
<1>6. ProcTypes' /\ \A o \in Procs : Purpose(o)' /\ Holder(o)'
  BY <1>0, <1>3, OverKeepsProcs
<1> QED BY <1>4, <1>5, <1>6, TypesSplit DEF HInv

\* An effect raised: a call undoes and reports, a service or a sweep gives the lock back.
LEMMA RaiseKeepsProcs ==
  ASSUME HInv, NEW p \in Procs, lock = p, proc[p].todo # <<>>, Raise(p), now' = now,
         history'.promised = history.promised, history.stopAsked => history'.stopAsked,
         Next1(p).do # "tombstone" => tomb' = tomb,
         Next1(p).do = "write-state" => file' = file \/ history'.unswept
  PROVE  ProcTypes' /\ \A o \in Procs : Purpose(o)' /\ Holder(o)'
<1>0. ProcTypes /\ WorldTypes /\ proc[p] \in Process BY TypesSplit DEF HInv, ProcTypes
<1>1. CASE p \in Calls
  <2> DEFINE r == [proc[p] EXCEPT !.todo = Undo(p) \o Do("reply-error"), !.created = FALSE]
  <2>1. StepOver(p, r) /\ lock' = lock BY <1>1 DEF Raise
  <2>2. \A q, t : q.op = proc[p].op /\ t = Undo(p) \o Do("reply-error") =>
           t \in Seq(Effect) /\ SafePlan(q, t)'
    BY <1>1, UndoIsSafe
  <2>3. /\ r \in Process /\ r.op = proc[p].op /\ r.gen = proc[p].gen
        /\ r.since = proc[p].since /\ r.locked = proc[p].locked /\ ~r.created
        /\ r.todo = Undo(p) \o Do("reply-error")
    <3>1. Undo(p) \o Do("reply-error") \in Seq(Effect) BY <2>2
    <3> QED BY <1>0, <3>1 DEF Process
  <2> HIDE DEF r
  <2>4. /\ proc' \in [Procs -> Process] /\ proc'[p] = r
        /\ \A o \in Procs : o # p => proc'[o] \in {proc[o], Unused}
    BY <2>1, <2>3, StepOverIs
  <2>5. ASSUME NEW o \in Procs
        PROVE  Purpose(o)' /\ Holder(o)' /\ (proc'[o].locked <=> lock' = o)
    <3>1. CASE o # p BY <2>1, <2>4, <3>1, OthersStay
    <3>2. CASE o = p
      <4>1. Goes(p) BY <2>1, <2>3, <2>4 DEF Goes
      <4>2. Purpose(p)' BY <1>0, <4>1, PurposeStays DEF HInv, WorldTypes
      <4>3. Holder(p)'
        <5>1. SafePlan(proc[p], proc[p].todo)' BY <2>2, <2>3, <2>4
        <5> QED BY <2>3, <2>4, <5>1 DEF Holder
      <4> QED BY <1>0, <2>1, <2>3, <2>4, <3>2, <4>2, <4>3 DEF ProcTypes
    <3> QED BY <3>1, <3>2
  <2> QED BY <1>0, <2>1, <2>4, <2>5 DEF ProcTypes
<1>2. CASE p \notin Calls
  <2>1. StepOver(p, Unused) /\ lock' = NoProc BY <1>2 DEF Raise
  <2>2. /\ proc' \in [Procs -> Process] /\ proc'[p] = Unused
        /\ \A o \in Procs : o # p => proc'[o] \in {proc[o], Unused}
    BY <2>1, StepOverIs, ProcessRecords
  <2>3. ASSUME NEW o \in Procs
        PROVE  Purpose(o)' /\ Holder(o)' /\ (proc'[o].locked <=> lock' = o)
    <3>1. CASE o # p BY <2>1, <2>2, <3>1, OthersStay
    <3>2. CASE o = p
      <4>0. lock' # p BY <2>1, ProcsAreNamed
      <4>1. Goes(p) BY <2>2, <4>0 DEF Goes
      <4>2. Purpose(p)' BY <1>0, <4>1, PurposeStays DEF HInv, WorldTypes
      <4> QED BY <2>2, <3>2, <4>0, <4>2, ProcessRecords DEF Holder
    <3> QED BY <3>1, <3>2
  <2> QED BY <2>1, <2>2, <2>3 DEF ProcTypes
<1> QED BY <1>1, <1>2

\* schedule_timer refuses an elapsed deadline, a container that did not come up is reported.
LEMMA RefusalKeepsHInv ==
  ASSUME HInv, NEW p \in Procs, DeadlineElapsed(p) \/ StartupFailed(p) PROVE HInv'
<1>0. /\ WorldTypes /\ ProcTypes /\ lock = p /\ proc[p].todo # <<>> /\ Raise(p)
      /\ UNCHANGED <<now, worldVars, faults, history>>
  BY TypesSplit DEF HInv, DeadlineElapsed, StartupFailed, Running
<1>1. now' \in Nat /\ now <= now' BY <1>0 DEF WorldTypes
<1>2. World' BY <1>0, <1>1, CalmKeepsWorld DEF worldVars
<1>3. WorldTypes' BY <1>0 DEF WorldTypes, worldVars
<1>4. ProcTypes' /\ \A o \in Procs : Purpose(o)' /\ Holder(o)'
  BY <1>0, RaiseKeepsProcs DEF worldVars
<1> QED BY <1>2, <1>3, <1>4, TypesSplit DEF HInv

\* An effect reports an error, whether or not it happened.
LEMMA FailureKeepsHInv ==
  ASSUME HInv, NEW p \in Procs, EffectFails(p) PROVE HInv'
<1>0. /\ WorldTypes /\ ProcTypes /\ lock = p /\ proc[p].todo # <<>> /\ Raise(p)
      /\ now' = now /\ faults' \in Nat
      /\ Apply(p) \/ UNCHANGED worldVars
      /\ IF Next1(p).do = "write-state" THEN NoteLostTimer(p) ELSE NoteEnd(p)
  <2>1. faults \in Nat /\ faults' = faults + 1 BY DEF EffectFails, Fault, HInv, Types
  <2> QED BY <2>1, TypesSplit DEF HInv, EffectFails
<1>1. Marked(p) BY <1>0, MarksAre DEF HInv
<1>2. WorldTypes' /\ World'
  <2>1. CASE Apply(p) BY <1>0, <1>1, <2>1, EffectKeepsTypes, EffectKeepsWorld
  <2>2. CASE UNCHANGED worldVars
    <3>1. WorldTypes' BY <1>0, <1>1, <2>2 DEF WorldTypes, worldVars, Marked
    <3>2. /\ history'.promised = history.promised /\ history'.stopAsked = history.stopAsked
          /\ history'.stopped = history.stopped /\ (history'.ended => history.ended)
          /\ history.unswept => history'.unswept
      BY <1>1, <2>2 DEF Marked, worldVars
    <3>3. World BY DEF HInv
    <3> QED BY <1>0, <2>2, <3>1, <3>2, <3>3
        DEF World, Files, StateFile, Free, MayFence, worldVars
  <2> QED BY <1>0, <2>1, <2>2
<1>3. /\ history'.promised = history.promised
      /\ history.stopAsked => history'.stopAsked
  BY <1>1 DEF Marked
<1>4. Next1(p).do # "tombstone" => tomb' = tomb
  BY <1>0 DEF Apply, WriteTombstone, RemoveContainer, RemoveNetwork, RemoveState, CancelTimer,
        CreateNetwork, RunContainer, ScheduleTimer, WriteState, StartupSeen, Running, worldVars
<1>5. Next1(p).do = "write-state" => file' = file \/ history'.unswept
  BY <1>0 DEF NoteLostTimer, HInv, Types
<1>6. ProcTypes' /\ \A o \in Procs : Purpose(o)' /\ Holder(o)'
  BY <1>0, <1>3, <1>4, <1>5, RaiseKeepsProcs
<1> QED BY <1>2, <1>6, TypesSplit DEF HInv

\* A process that dies leaves the world as it is.
LEMMA KillKeepsHInv ==
  ASSUME HInv, NEW p \in Procs, Killed(p) PROVE HInv'
<1>0. /\ WorldTypes /\ ProcTypes /\ faults' \in Nat
      /\ proc' = [proc EXCEPT ![p] = Ended(p)]
      /\ lock' = IF lock = p THEN NoProc ELSE lock
      /\ UNCHANGED <<now, worldVars, history>>
  <2>1. faults \in Nat /\ faults' = faults + 1 BY DEF Killed, Fault, HInv, Types
  <2> QED BY <2>1, TypesSplit DEF HInv, Killed
<1>1. WorldTypes' BY <1>0 DEF WorldTypes, worldVars
<1>2. now' \in Nat /\ now <= now' BY <1>0 DEF WorldTypes
<1>3. World' BY <1>0, <1>2, CalmKeepsWorld DEF worldVars
<1>4. /\ proc' \in [Procs -> Process] /\ proc'[p] \in {Unused, Finished}
      /\ \A o \in Procs : o # p => proc'[o] = proc[o]
  BY <1>0, ProcessRecords DEF ProcTypes
<1>5. ASSUME NEW o \in Procs
      PROVE  Purpose(o)' /\ Holder(o)' /\ (proc'[o].locked <=> lock' = o)
  <2>1. lock' = o => lock = o /\ o # p BY <1>0, ProcsAreNamed
  <2>2. Goes(o) BY <1>4, <2>1 DEF Goes
  <2>3. Purpose(o)' BY <1>0, <1>2, <2>2, PurposeStays DEF HInv, WorldTypes, ProcTypes
  <2>4. Holder(o)'
    <3>1. CASE lock' = o
      <4>1. \A q, t : SafePlan(q, t) => SafePlan(q, t)' /\ (Free => Free')
        BY <1>0, <1>2, SafeStays DEF worldVars, WorldTypes
      <4>2. SafePlan(proc[o], proc[o].todo) /\ (proc[o].created => Free)
        BY <2>1, <3>1 DEF HInv, Holder
      <4> QED BY <1>4, <2>1, <3>1, <4>1, <4>2 DEF Holder
    <3>2. CASE lock' # o BY <3>2 DEF Holder
    <3> QED BY <3>1, <3>2
  <2>5. proc'[o].locked <=> lock' = o
    BY <1>0, <1>4, <2>1, ProcessRecords, ProcsAreNamed DEF ProcTypes
  <2> QED BY <2>3, <2>4, <2>5
<1>6. lock' \in Procs \cup {NoProc} BY <1>0 DEF ProcTypes
<1> QED BY <1>1, <1>3, <1>4, <1>5, <1>6, TypesSplit DEF HInv, ProcTypes

\* A power loss ends all processes and timers; the state file may come back.
LEMMA PowerLossKeepsHInv ==
  ASSUME HInv, PowerLoss PROVE HInv'
<1>0. /\ WorldTypes /\ ProcTypes /\ World /\ faults' \in Nat /\ lock' = NoProc
      /\ proc' = [p \in Procs |-> IF proc[p].op \in {"unused", "finished"} THEN proc[p]
                                  ELSE Ended(p)]
      /\ timers' = {} /\ container' = [container EXCEPT !.up = FALSE]
      /\ file' \in {file, disk} /\ disk' = file'
      /\ history' = [history EXCEPT !.unswept = TRUE]
      /\ UNCHANGED <<now, network, tomb>>
  <2>1. faults \in Nat /\ faults' = faults + 1 BY DEF PowerLoss, Fault, HInv, Types
  <2> QED BY <2>1, TypesSplit DEF HInv, PowerLoss
<1>1. WorldTypes' BY <1>0 DEF WorldTypes
<1>2. /\ history'.promised = history.promised /\ history'.stopAsked = history.stopAsked
      /\ history'.stopped = history.stopped /\ history'.ended = history.ended
      /\ history'.unswept
      /\ container'.present = container.present /\ container'.gen = container.gen
  BY <1>0 DEF WorldTypes
<1>3. World'
  <2>1. Files' BY <1>0, <1>2 DEF World, Files
  <2>2. ~Free' => history'.promised <= file'.exp
    <3> SUFFICES ASSUME ~Free' PROVE history.promised <= file'.exp BY <1>2
    <3>1. ~Free BY <1>0, <1>2 DEF Free
    <3>2. history.promised <= file.exp /\ ~(history.promised <= now)
      BY <1>0, <3>1 DEF World, Free
    <3>3. file # NoState BY <1>0, <3>2, Constants DEF WorldTypes
    <3>4. file' = file BY <1>0, <3>3 DEF World, Files
    <3> QED BY <3>2, <3>4
  <2> QED BY <1>0, <1>2, <2>1, <2>2 DEF World, Free, MayFence
<1>4. ASSUME NEW o \in Procs
      PROVE  proc'[o] \in Process /\ Purpose(o)' /\ Holder(o)' /\ (proc'[o].locked <=> lock' = o)
  <2>1. lock' # o BY <1>0, ProcsAreNamed
  <2>2. \/ proc'[o] = proc[o] /\ proc[o].op \in {"unused", "finished"}
        \/ proc'[o] \in {Unused, Finished}
    BY <1>0, ProcessRecords
  <2>3. Goes(o) BY <2>1, <2>2 DEF Goes
  <2>4. Purpose(o)' BY <1>0, <1>2, <2>3, PurposeStays DEF HInv, WorldTypes, ProcTypes
  <2>5. ~proc'[o].locked
    <3>1. proc[o].op \in {"unused", "finished"} => lock # o BY DEF HInv, Purpose
    <3> QED BY <1>0, <2>2, <3>1, ProcessRecords DEF ProcTypes
  <2> QED BY <1>0, <2>1, <2>2, <2>4, <2>5, ProcessRecords DEF Holder, ProcTypes
<1>5. proc' \in [Procs -> Process] BY <1>0, <1>4
<1> QED BY <1>0, <1>1, <1>3, <1>4, <1>5, TypesSplit DEF HInv, ProcTypes

\* Time passes, or a container stops running.
LEMMA EnvironmentKeepsHInv ==
  ASSUME HInv, Tick \/ ContainerExits PROVE HInv'
<1>0. /\ WorldTypes /\ ProcTypes /\ faults' \in Nat
      /\ now' \in Nat /\ now <= now'
      /\ UNCHANGED <<network, file, disk, tomb, timers, lock, proc, history>>
      /\ container' = container \/ container' = [container EXCEPT !.up = FALSE]
  <2>1. faults \in Nat /\ now \in Nat BY DEF HInv, Types, TypeOK
  <2>2. faults' \in Nat /\ now' \in Nat /\ now <= now'
    BY <2>1 DEF Tick, ContainerExits, Fault
  <2> QED BY <2>2, TypesSplit DEF HInv, Tick, ContainerExits, worldVars
<1>1. WorldTypes' BY <1>0 DEF WorldTypes
<1>2. container'.present = container.present /\ container'.gen = container.gen
  BY <1>0 DEF WorldTypes
<1>3. World' BY <1>0, <1>2, CalmKeepsWorld
<1>4. ProcTypes' BY <1>0 DEF ProcTypes
<1>5. ASSUME NEW o \in Procs PROVE Purpose(o)' /\ Holder(o)'
  <2>1. Goes(o) BY <1>0 DEF Goes
  <2>2. Purpose(o)' BY <1>0, <2>1, PurposeStays DEF HInv, WorldTypes, ProcTypes
  <2>3. \A q, t : SafePlan(q, t) => SafePlan(q, t)' /\ (Free => Free')
    BY <1>0, <1>2, SafeStays DEF WorldTypes
  <2> QED BY <1>0, <2>2, <2>3 DEF HInv, Holder
<1> QED BY <1>1, <1>3, <1>4, <1>5, TypesSplit DEF HInv

\* Every step keeps the invariant.
LEMMA NextKeepsHInv == HInv /\ [Next]_vars => HInv'
<1> SUFFICES ASSUME HInv, [Next]_vars PROVE HInv' OBVIOUS
<1>1. ASSUME NEW p \in Calls, NEW op \in Operations, NEW g \in Generations, Call(p, op, g)
      PROVE  HInv'
  BY <1>1, CallKeepsHInv
<1>2. ASSUME NEW g \in Generations, TimerElapses(g) PROVE HInv' BY <1>2, TimerKeepsHInv
<1>3. CASE SweepStarts BY <1>3, SweepKeepsHInv
<1>4. ASSUME NEW p \in Procs, Begin(p) \/ Work(p) \/ EffectFails(p) \/ Killed(p) PROVE HInv'
  BY <1>4, BeginKeepsHInv, PerformKeepsHInv, ReplyKeepsHInv, ExitKeepsHInv, RefusalKeepsHInv,
     FailureKeepsHInv, KillKeepsHInv DEF Work
<1>5. CASE Tick \/ ContainerExits BY <1>5, EnvironmentKeepsHInv
<1>6. CASE PowerLoss BY <1>6, PowerLossKeepsHInv
<1>7. CASE UNCHANGED vars
  <2>1. UNCHANGED <<now, worldVars, lock, proc, faults, history>> BY <1>7 DEF vars
  <2>2. HInv' = HInv
    BY <2>1 DEF HInv, Types, TypeOK, World, Files, StateFile, Free, MayFence, Purpose, Holder,
        SafePlan, Safe, CanFence, CanRemove, CanCancel, CanRun, CanWrite, CanConfirm, CanDeny,
        CanExit, Armed, FencedBy, worldVars
  <2> QED BY <2>2
<1> QED BY <1>1, <1>2, <1>3, <1>4, <1>5, <1>6, <1>7 DEF Next

\* The invariant of the helper: its files, its promises and its plans fit together.
THEOREM HelperInvariance == Spec => []HInv
<1> QED BY HInvInit, NextKeepsHInv, PTL DEF Spec

----------------------------------------------------------------------------
(* The properties of RemoteHelper.                                          *)

\* Types of files, engine, timers and processes, for any number of generations,
\* calls and faults.
THEOREM HelperTypes == Spec => []TypeOK
<1>1. HInv => TypeOK BY DEF HInv, Types
<1> QED BY <1>1, HelperInvariance, PTL

\* Once an instance was stopped or its workload removed for good no delayed ensure
\* brings it back (stop_instance, expire_instance_unlocked, ensure_instance).
THEOREM EndIsForGood == Spec => []EndedStaysGone
<1>1. HInv => EndedStaysGone BY DEF HInv, World, EndedStaysGone
<1> QED BY <1>1, HelperInvariance, PTL

\* A confirmed deadline is covered by the state file and by a live timer
\* (ensure_instance, update_deadline, schedule_timer).
THEOREM ConfirmedMeansArmed == Spec => []TimerBacksWorkload
<1>1. HInv => TimerBacksWorkload
  <2> SUFFICES ASSUME HInv, container.present, tomb = 0, now < history.promised
               PROVE  /\ history.promised <= file.exp
                      /\ file.gen \in timers \/ history.unswept
    BY DEF TimerBacksWorkload
  <2>1. ~Free BY DEF Free, HInv, Types, TypeOK
  <2> QED BY <2>1 DEF HInv, World
<1> QED BY <1>1, HelperInvariance, PTL

\* What a step does to the container, the state file and the tombstone: nothing, one
\* effect of the holder of the lock, or what a power loss brings back.
LEMMA StepsOfWorld ==
  ASSUME HInv, [Next]_vars
  PROVE  \/ container'.present = container.present /\ file' = file /\ tomb' = tomb
         \/ /\ container'.present = container.present /\ file' \in {file, disk} /\ tomb' = tomb
         \/ \E p \in Procs : Apply(p) /\ lock = p /\ proc[p].todo # <<>>
                             /\ history'.promised = history.promised
<1>t. WorldTypes BY TypesSplit DEF HInv
<1>1. CASE \E p \in Procs : Perform(p) \/ EffectFails(p)
  <2> PICK p \in Procs : Perform(p) \/ EffectFails(p) BY <1>1
  <2>1. /\ Apply(p) \/ UNCHANGED worldVars
        /\ NoteEnd(p) \/ (Next1(p).do = "write-state" /\ NoteLostTimer(p))
    BY DEF Perform, EffectFails
  <2>2. CASE UNCHANGED worldVars BY <2>2 DEF worldVars
  <2>3. CASE Apply(p)
    <3>1. lock = p /\ proc[p].todo # <<>>
      BY <2>3 DEF Apply, WriteTombstone, RemoveContainer, RemoveNetwork, RemoveState, CancelTimer,
            CreateNetwork, RunContainer, ScheduleTimer, WriteState, StartupSeen, Running
    <3>2. history'.promised = history.promised BY <2>1, MarksAre DEF HInv, Marked
    <3> QED BY <2>3, <3>1, <3>2
  <2> QED BY <2>1, <2>2, <2>3
<1>2. CASE \E p \in Procs : \/ Begin(p) \/ Reply(p) \/ Exit(p) \/ DeadlineElapsed(p)
                            \/ StartupFailed(p) \/ Killed(p)
  BY <1>2 DEF Begin, Reply, Exit, DeadlineElapsed, StartupFailed, Killed, worldVars
<1>3. CASE \/ \E p \in Calls, op \in Operations, g \in Generations : Call(p, op, g)
           \/ \E g \in Generations : TimerElapses(g)
           \/ SweepStarts \/ Tick \/ UNCHANGED vars
  BY <1>3 DEF Call, TimerElapses, SweepStarts, Tick, vars, worldVars
<1>4. CASE ContainerExits \/ PowerLoss BY <1>t, <1>4 DEF ContainerExits, PowerLoss, WorldTypes
<1> QED BY <1>1, <1>2, <1>3, <1>4 DEF Next, Work

\* No workload is removed before the deadline last confirmed unless a stop was asked
\* for (expire_instance_unlocked, sweep_instances, remove_irrecoverable_instance_unlocked).
THEOREM NoEarlyRemoval == Spec => PromiseKept
<1>1. HInv /\ [Next]_vars =>
         [container.present /\ ~container'.present =>
            history.stopAsked \/ history.promised <= now]_vars
  <2> SUFFICES ASSUME HInv, [Next]_vars, container.present, ~container'.present
               PROVE  history.stopAsked \/ history.promised <= now
    OBVIOUS
  <2>1. PICK p \in Procs : Apply(p) /\ lock = p /\ proc[p].todo # <<>> BY StepsOfWorld
  <2>2. Next1(p).do = "remove-container"
    BY <2>1 DEF Apply, WriteTombstone, RemoveContainer, RemoveNetwork, RemoveState, CancelTimer,
          CreateNetwork, RunContainer, ScheduleTimer, WriteState, StartupSeen, Running, worldVars
  <2>3. Free BY <2>1, <2>2, HeadIsSafe DEF Safe, CanRemove, FencedBy, Holds, Free
  <2> QED BY <2>3, AtPlanning DEF MayFence
<1> QED BY <1>1, HelperInvariance, PTL DEF Spec, PromiseKept

\* What a step does to the slot is what it does to these three.
LEMMA SlotMoves ==
  ASSUME HInv, WorldTypes'
  PROVE  /\ (container'.present /\ file' # NoState) = (container.present /\ file # NoState)
            /\ file' = file /\ tomb' = tomb
            => UNCHANGED Slot!slotVars
         /\ (tomb' = 0) = (tomb = 0) /\ ~(container.present /\ file # NoState)
            => UNCHANGED Slot!slotVars \/ Slot!Create
         /\ (tomb' = 0) = (tomb = 0) /\ ~(container'.present /\ file' # NoState)
            => UNCHANGED Slot!slotVars \/ Slot!Withdraw
         /\ tomb' # 0 => Slot!Fence
         /\ /\ container.present /\ file # NoState /\ container'.present /\ file' # NoState
            /\ tomb' = 0 /\ tomb = 0 /\ file.gen <= file'.gen /\ file.exp <= file'.exp
            => Slot!Extend
<1> DEFINE here == container.present /\ file # NoState /\ tomb = 0
           here2 == container'.present /\ file' # NoState /\ tomb' = 0
           full == [present |-> TRUE, gen |-> file.gen, deadline |-> file.exp]
           full2 == [present |-> TRUE, gen |-> file'.gen, deadline |-> file'.exp]
           none == [present |-> FALSE, gen |-> 0, deadline |-> 0]
<1>1. /\ Slot!slotVars = <<IF here THEN full ELSE none, tomb # 0>>
      /\ Slot!slotVars' = <<IF here2 THEN full2 ELSE none, tomb' # 0>>
  BY DEF Slot!slotVars
<1>2. ASSUME (container'.present /\ file' # NoState) = (container.present /\ file # NoState),
             file' = file, tomb' = tomb
      PROVE  UNCHANGED Slot!slotVars
  <2>1. here2 = here BY <1>2
  <2>2. full2 = full BY <1>2
  <2> QED BY <1>1, <1>2, <2>1, <2>2
<1>3. ASSUME (tomb' = 0) = (tomb = 0), ~(container.present /\ file # NoState)
      PROVE  UNCHANGED Slot!slotVars \/ Slot!Create
  <2>0. (tomb' # 0) = (tomb # 0) BY <1>3
  <2>1. CASE here2 BY <1>3, <2>0, <2>1 DEF Slot!Create
  <2>2. CASE ~here2 BY <1>1, <1>3, <2>0, <2>2
  <2> QED BY <2>1, <2>2
<1>4. ASSUME (tomb' = 0) = (tomb = 0), ~(container'.present /\ file' # NoState)
      PROVE  UNCHANGED Slot!slotVars \/ Slot!Withdraw
  <2>0. (tomb' # 0) = (tomb # 0) BY <1>4
  <2>1. CASE here BY <1>4, <2>0, <2>1 DEF Slot!Withdraw, Slot!Nothing
  <2>2. CASE ~here BY <1>1, <1>4, <2>0, <2>2
  <2> QED BY <2>1, <2>2
<1>5. ASSUME tomb' # 0 PROVE Slot!Fence
  BY <1>5 DEF Slot!Fence, Slot!Nothing
<1>6. ASSUME container.present, file # NoState, container'.present, file' # NoState,
             tomb' = 0, tomb = 0, file.gen <= file'.gen, file.exp <= file'.exp
      PROVE  Slot!Extend
  <2>1. (tomb' # 0) = (tomb # 0) BY <1>6
  <2> QED BY <1>6, <2>1 DEF Slot!Extend
<1> QED BY <1>2, <1>3, <1>4, <1>5, <1>6

\* Every step of the helper is one of HostSlot or leaves the slot as it is.
LEMMA StepIsSlotStep == HInv /\ [Next]_vars => [Slot!SlotNext]_(Slot!slotVars)
<1> SUFFICES ASSUME HInv, [Next]_vars PROVE [Slot!SlotNext]_(Slot!slotVars) OBVIOUS
<1>t. WorldTypes /\ WorldTypes' /\ Files
  <2>1. HInv' BY NextKeepsHInv
  <2>2. Types /\ Types' BY <2>1 DEF HInv
  <2> QED BY <2>2, TypesSplit DEF HInv, World
<1>m. Slot!Create \/ Slot!Extend \/ Slot!Withdraw \/ Slot!Fence \/ UNCHANGED Slot!slotVars
      => [Slot!SlotNext]_(Slot!slotVars)
  BY DEF Slot!SlotNext
<1>1. CASE container'.present = container.present /\ file' = file /\ tomb' = tomb
  BY <1>t, <1>m, <1>1, SlotMoves
<1>2. CASE container'.present = container.present /\ file' \in {file, disk} /\ tomb' = tomb
  <2>1. CASE file' = file BY <1>1, <1>2, <2>1
  <2>2. CASE file' # file
    <3>1. file = NoState BY <1>t, <1>2, <2>2 DEF Files
    <3> QED BY <1>t, <1>m, <1>2, <3>1, SlotMoves
  <2> QED BY <2>1, <2>2
<1>3. ASSUME NEW p \in Procs, Apply(p), lock = p, proc[p].todo # <<>>
      PROVE  [Slot!SlotNext]_(Slot!slotVars)
  <2>s. Safe(proc[p], Next1(p), {}) /\ Next1(p).gen \in 0..MaxGeneration BY <1>3, HeadIsSafe
  <2>1. CASE WriteTombstone(p)
    <3>1. tomb' = Larger(tomb, Next1(p).gen) /\ Next1(p).gen \in 1..MaxGeneration
      BY <2>s, <2>1 DEF WriteTombstone, Running, Safe, CanFence, Generations
    <3>2. tomb' # 0 BY <1>t, <3>1, HelperAssumption DEF Larger, WorldTypes
    <3> QED BY <1>t, <1>m, <3>2, SlotMoves
  <2>2. CASE RemoveContainer(p) \/ RemoveState(p)
    <3>1. tomb' = tomb /\ ~(container'.present /\ file' # NoState)
      BY <2>2 DEF RemoveContainer, RemoveState, NoContainer
    <3> QED BY <1>t, <1>m, <3>1, SlotMoves
  <2>3. CASE RunContainer(p)
    <3>1. container'.present /\ file' = file /\ tomb' = tomb BY <2>3 DEF RunContainer
    <3>2. CASE container.present /\ file # NoState BY <1>t, <1>m, <3>1, <3>2, SlotMoves
    <3>3. CASE ~(container.present /\ file # NoState) BY <1>t, <1>m, <3>1, <3>3, SlotMoves
    <3> QED BY <3>2, <3>3
  <2>4. CASE WriteState(p)
    <3> DEFINE g == Next1(p).gen
    <3>1. /\ file' = [gen |-> g, exp |-> Deadline[g]] /\ container' = container /\ tomb' = tomb
          /\ g \in Generations /\ file.gen <= g /\ tomb = 0
      BY <2>s, <2>4 DEF WriteState, Running, Safe, CanWrite
    <3>2. file' # NoState /\ file'.gen = g /\ file'.exp = Deadline[g]
      BY <3>1, Constants DEF NoState
    <3>3. CASE container.present /\ file # NoState
      <4>1. file.gen \in Generations /\ file.exp = Deadline[file.gen]
        BY <1>t, <3>3 DEF Files, StateFile
      <4>2. file.exp <= Deadline[g] BY <3>1, <4>1, HelperAssumption
      <4> QED BY <1>t, <1>m, <3>1, <3>2, <3>3, <4>2, SlotMoves
    <3>4. CASE ~(container.present /\ file # NoState)
      BY <1>t, <1>m, <3>1, <3>4, SlotMoves
    <3> QED BY <3>3, <3>4
  <2>5. CASE \/ RemoveNetwork(p) \/ CancelTimer(p) \/ CreateNetwork(p) \/ ScheduleTimer(p)
             \/ StartupSeen(p)
    <3>1. UNCHANGED <<container, file, tomb>>
      BY <2>5 DEF RemoveNetwork, CancelTimer, CreateNetwork, ScheduleTimer, StartupSeen, worldVars
    <3> QED BY <1>1, <3>1
  <2> QED BY <1>3, <2>1, <2>2, <2>3, <2>4, <2>5 DEF Apply
<1> QED BY <1>1, <1>2, <1>3, StepsOfWorld

\* The helper implements HostSlot: generation and deadline of a living workload only
\* grow, and a fenced identifier stays fenced (update_deadline, write_tombstone).
THEOREM HelperImplementsSlot == Spec => ImplementsHostSlot
<1>1. Init => Slot!SlotInit
  BY DEF Init, Slot!SlotInit, Slot!Nothing, NoContainer
<1> QED BY <1>1, StepIsSlotStep, HelperInvariance, PTL DEF Spec, ImplementsHostSlot, Slot!SlotSpec

----------------------------------------------------------------------------
(* The operation journal.                                                   *)

\* No workload of generation g is left or can come back.
Cleaned(g) == vm.gone \/ (vm.up /\ g < vm.gen)

\* A record is of its command and of the deadline of its generation, or of a later
\* one that the host has answered with.
RecordFits(r) ==
    /\ r \in JournalRecord
    /\ rows[r.cmd].kind # "none" /\ r.gen = rows[r.cmd].gen
    /\ r.gen \in DOMAIN deadlines /\ deadlines[r.gen] <= r.exp
    /\ r.phase = "degraded_cleanup" => Cleaned(r.gen)

DeadlinesGrow ==
    \A g, h \in DOMAIN deadlines : g <= h => deadlines[g] <= deadlines[h]

RowsFit ==
    \A c \in Commands :
        /\ rows[c].kind # "none" => rows[c].gen \in DOMAIN deadlines
        /\ rows[c].kind = "none" <=> rows[c].status = "none"

VmFits ==
    /\ vm.up => vm.gen \in DOMAIN deadlines /\ vm.exp = deadlines[vm.gen]
    /\ vm.gone => ~vm.up

FileFits ==
    /\ \A i \in DOMAIN journal.lines : IsRecord(journal.lines[i]) => RecordFits(journal.lines[i])
    /\ ~journal.ended => journal.lines # <<>>

InExecution == {"intend", "call", "record", "stale", "commit", "ack"}

HandFits ==
    /\ \A r \in task.todo : RecordFits(r)
    /\ task.pc \in InExecution \cup {"retry"} =>
          task.cmd \in Commands /\ rows[task.cmd].kind # "none"
    /\ task.pc \in InExecution =>
          /\ task.gen = rows[task.cmd].gen /\ task.op \in {"ensure", "stop", "update", "inspect"}
          /\ deadlines[task.gen] <= task.exp
          /\ task.pc \in {"intend", "call"} /\ task.op # "stop" => task.exp = deadlines[task.gen]
    /\ task.pc = "ack" => rows[task.cmd].status \in Final

\* The inductive invariant.
JournalInv == JournalTypeOK /\ DeadlinesGrow /\ RowsFit /\ VmFits /\ FileFits /\ HandFits

\* Nothing is taken back: commands keep their generation, generations their deadline,
\* and what is cleaned up stays away.
Grows ==
    /\ \A c \in Commands : rows[c].kind # "none" =>
          /\ rows'[c].kind = rows[c].kind /\ rows'[c].gen = rows[c].gen
          /\ rows[c].status \in Final => rows'[c].status \in Final
    /\ \A g \in DOMAIN deadlines : g \in DOMAIN deadlines' /\ deadlines'[g] = deadlines[g]
    /\ \A g \in Nat : Cleaned(g) => Cleaned(g)'

\* A record that fits goes on to fit.
LEMMA RecordStaysFit ==
  ASSUME JournalTypeOK, Grows, NEW r, RecordFits(r) PROVE RecordFits(r)'
<1>1. r \in JournalRecord /\ r.cmd \in Commands /\ r.gen \in Nat BY DEF RecordFits, JournalRecord
<1> QED BY <1>1 DEF RecordFits, Grows

\* What is left of a line has no fields of a record.
LEMMA PartsAreNoRecords == /\ ~IsRecord(Torn) /\ ~IsRecord(Cut) /\ Torn \in Line /\ Cut \in Line
                           /\ \A r \in JournalRecord : IsRecord(r)
  BY DEF IsRecord, Torn, Cut, Line, JournalRecord

\* Every line that was not written just now was there before.
OldOrNew(lines, x) ==
    \A i \in DOMAIN lines : \/ ~IsRecord(lines[i]) \/ lines[i] = x
                            \/ \E j \in DOMAIN journal.lines : lines[i] = journal.lines[j]

\* The command of r is not forgotten.
Known(lines, r) == \E q \in Unacknowledged(lines) : q.cmd = r.cmd

\* The line that write_all continues.
Unfinished(r) == ~journal.ended /\ r = journal.lines[Len(journal.lines)]

\* write_all adds one line, or spoils the last one.
LEMMA GluedLines ==
  ASSUME JournalTypeOK, FileFits, NEW x \in Line
  PROVE  /\ Glued(x) \in Seq(Line) /\ Glued(x) # <<>> /\ OldOrNew(Glued(x), x)
         /\ journal.ended => Glued(x) = Append(journal.lines, x)
         /\ ~journal.ended => /\ Len(journal.lines) \in DOMAIN journal.lines
                              /\ DOMAIN Glued(x) = DOMAIN journal.lines
                              /\ ~IsRecord(Glued(x)[Len(journal.lines)])
                              /\ \A i \in DOMAIN journal.lines :
                                    i # Len(journal.lines) => Glued(x)[i] = journal.lines[i]
<1>1. journal.lines \in Seq(Line) /\ journal.ended \in BOOLEAN BY DEF JournalTypeOK
<1>2. CASE journal.ended
  <2>1. Glued(x) = Append(journal.lines, x) BY <1>2 DEF Glued
  <2>2. /\ Glued(x) \in Seq(Line) /\ DOMAIN Glued(x) = 1 .. Len(journal.lines) + 1
        /\ Glued(x)[Len(journal.lines) + 1] = x /\ Len(journal.lines) \in Nat
        /\ \A i \in DOMAIN journal.lines : Glued(x)[i] = journal.lines[i]
        /\ DOMAIN journal.lines = 1 .. Len(journal.lines)
    BY <1>1, <2>1
  <2>3. OldOrNew(Glued(x), x) BY <2>2 DEF OldOrNew
  <2> QED BY <1>2, <2>1, <2>2, <2>3
<1>3. CASE ~journal.ended
  <2> DEFINE n == Len(journal.lines)
  <2>1. n \in DOMAIN journal.lines /\ DOMAIN journal.lines = 1 .. n BY <1>1, <1>3 DEF FileFits
  <2>2. PICK part \in {Torn, Cut} : Glued(x) = [journal.lines EXCEPT ![n] = part] BY <1>3 DEF Glued
  <2>3. part \in Line /\ ~IsRecord(part) BY PartsAreNoRecords
  <2>4. /\ Glued(x) \in Seq(Line) /\ DOMAIN Glued(x) = 1 .. n /\ Glued(x)[n] = part
        /\ \A i \in DOMAIN journal.lines : i # n => Glued(x)[i] = journal.lines[i]
    BY <1>1, <2>1, <2>2, <2>3
  <2>5. OldOrNew(Glued(x), x) BY <2>1, <2>3, <2>4 DEF OldOrNew
  <2> QED BY <1>3, <2>1, <2>3, <2>4, <2>5
<1> QED BY <1>1, <1>2, <1>3

\* A record stays known when something else is written, unless it was unfinished.
LEMMA GluedKeeps ==
  ASSUME JournalTypeOK, FileFits, NEW x \in Line, NEW r \in Records,
         IsRecord(x) => x.cmd # r.cmd \/ x.phase # "acknowledged"
  PROVE  Known(Glued(x), r) \/ Unfinished(r)
<1>1. journal.lines \in Seq(Line) BY DEF JournalTypeOK
<1>2. PICK j \in DOMAIN journal.lines :
        /\ r = journal.lines[j] /\ IsRecord(r) /\ r.phase # "acknowledged"
        /\ \A k \in DOMAIN journal.lines :
              j < k /\ IsRecord(journal.lines[k]) => journal.lines[k].cmd # r.cmd
  BY DEF Records, Unacknowledged
<1>3. CASE journal.ended
  <2> DEFINE n == Len(journal.lines)
  <2>1. /\ DOMAIN Glued(x) = 1 .. n + 1 /\ Glued(x)[n + 1] = x /\ n \in Nat
        /\ \A i \in 1 .. n : Glued(x)[i] = journal.lines[i]
        /\ DOMAIN journal.lines = 1 .. n
    <3>1. Glued(x) = Append(journal.lines, x) BY <1>3, GluedLines
    <3> QED BY <1>1, <3>1
  <2>2. CASE IsRecord(x) /\ x.cmd = r.cmd
    <3>1. x.phase # "acknowledged" BY <2>2
    <3>2. x \in Unacknowledged(Glued(x)) BY <2>1, <2>2, <3>1 DEF Unacknowledged
    <3> QED BY <2>2, <3>2 DEF Known
  <2>3. CASE ~IsRecord(x) \/ x.cmd # r.cmd
    <3>1. Glued(x)[j] = r /\ j \in DOMAIN Glued(x) BY <1>2, <2>1
    <3>2. ASSUME NEW k \in DOMAIN Glued(x), j < k, IsRecord(Glued(x)[k]) PROVE Glued(x)[k].cmd # r.cmd
      BY <1>2, <2>1, <2>3, <3>2
    <3>3. r \in Unacknowledged(Glued(x)) BY <1>2, <3>1, <3>2 DEF Unacknowledged
    <3> QED BY <3>3 DEF Known
  <2> QED BY <2>2, <2>3
<1>4. CASE ~journal.ended
  <2> DEFINE n == Len(journal.lines)
  <2>1. /\ DOMAIN Glued(x) = DOMAIN journal.lines /\ n \in DOMAIN journal.lines
        /\ ~IsRecord(Glued(x)[n])
        /\ \A i \in DOMAIN journal.lines : i # n => Glued(x)[i] = journal.lines[i]
    BY <1>4, GluedLines
  <2>2. CASE j = n BY <1>2, <1>4, <2>2 DEF Unfinished
  <2>3. CASE j # n
    <3>1. Glued(x)[j] = r /\ j \in DOMAIN Glued(x) BY <1>2, <2>1, <2>3
    <3>2. ASSUME NEW k \in DOMAIN Glued(x), j < k, IsRecord(Glued(x)[k]) PROVE Glued(x)[k].cmd # r.cmd
      BY <1>2, <2>1, <3>2
    <3>3. r \in Unacknowledged(Glued(x)) BY <1>2, <3>1, <3>2 DEF Unacknowledged
    <3> QED BY <3>3 DEF Known
  <2> QED BY <2>2, <2>3
<1>5. journal.ended \in BOOLEAN BY DEF JournalTypeOK
<1> QED BY <1>3, <1>4, <1>5

\* Two records that are current are of two commands.
LEMMA OneRecordPerCommand ==
  ASSUME NEW lines \in Seq(Line), NEW q \in Unacknowledged(lines), NEW r \in Unacknowledged(lines),
         q.cmd = r.cmd
  PROVE  q = r
<1>1. PICK i \in DOMAIN lines :
        /\ q = lines[i] /\ IsRecord(q)
        /\ \A k \in DOMAIN lines : i < k /\ IsRecord(lines[k]) => lines[k].cmd # q.cmd
  BY DEF Unacknowledged
<1>2. PICK j \in DOMAIN lines :
        /\ r = lines[j] /\ IsRecord(r)
        /\ \A k \in DOMAIN lines : j < k /\ IsRecord(lines[k]) => lines[k].cmd # r.cmd
  BY DEF Unacknowledged
<1>3. i \in Nat /\ j \in Nat OBVIOUS
<1>4. ~(i < j) /\ ~(j < i) BY <1>1, <1>2
<1> QED BY <1>1, <1>2, <1>3, <1>4

\* Compaction writes only what it read, and forgets nothing that is current.
LEMMA CompactedLines ==
  ASSUME NEW book \in [lines : Seq(Line), ended : BOOLEAN], NEW new \in Compacted(book)
  PROVE  /\ new \in [lines : Seq(Line), ended : BOOLEAN]
         /\ new.ended \/ new = book
         /\ \A i \in DOMAIN new.lines : \E j \in DOMAIN book.lines : new.lines[i] = book.lines[j]
         /\ \A r : Known(book.lines, r) => Known(new.lines, r)
<1>1. CASE ~Readable(book.lines) BY <1>1 DEF Compacted
<1>2. CASE Readable(book.lines)
  <2> DEFINE kept == Unacknowledged(book.lines)
  <2>1. PICK l \in Listings(kept, Len(book.lines)) : new = [lines |-> l, ended |-> TRUE]
    BY <1>2 DEF Compacted
  <2>2. PICK n \in Nat : l \in [1..n -> kept] BY DEF Listings
  <2>3. ASSUME NEW q \in kept PROVE IsRecord(q) /\ q.phase # "acknowledged" /\ q \in Line
                                    /\ \E j \in DOMAIN book.lines : q = book.lines[j]
    BY DEF Unacknowledged
  <2>4. kept \subseteq Line BY <2>3
  <2>5. l \in Seq(Line) /\ DOMAIN l = 1..n BY <2>2, <2>4
  <2>6. new.lines = l /\ new.ended BY <2>1
  <2>7. \A i \in DOMAIN l : \E j \in DOMAIN book.lines : l[i] = book.lines[j] BY <2>2, <2>3
  <2>8. ASSUME NEW r, Known(book.lines, r) PROVE Known(l, r)
    <3>1. PICK q \in kept : q.cmd = r.cmd BY <2>8 DEF Known
    <3>2. PICK i \in DOMAIN l : l[i] = q /\ \A k \in DOMAIN l : l[k] = q => k = i
      BY <3>1 DEF Listings
    <3>3. ASSUME NEW k \in DOMAIN l, i < k, l[k].cmd = q.cmd PROVE FALSE
      <4>1. l[k] \in kept BY <2>2
      <4>2. l[k] = q BY <3>3, <4>1, OneRecordPerCommand
      <4> QED BY <3>2, <3>3, <4>2, <2>5
    <3>4. q \in Unacknowledged(l) BY <2>3, <3>2, <3>3 DEF Unacknowledged
    <3> QED BY <3>1, <3>4 DEF Known
  <2> QED BY <2>1, <2>5, <2>6, <2>7, <2>8
<1> QED BY <1>1, <1>2

\* append leaves well-formed lines, and nothing of its own but x.
LEMMA AppendedLines ==
  ASSUME JournalTypeOK, FileFits, NEW x \in JournalRecord, NEW n, NEW f, AppendRecord(x, n, f)
  PROVE  /\ journal' \in [lines : Seq(Line), ended : BOOLEAN]
         /\ ~journal'.ended => journal'.lines # <<>>
         /\ OldOrNew(journal'.lines, x)
         /\ task' \in {n, f, Off} /\ mishaps' \in Nat
<1>1. journal \in [lines : Seq(Line), ended : BOOLEAN] /\ mishaps \in Nat BY DEF JournalTypeOK
<1>2. task' \in {n, f, Off} /\ mishaps' \in Nat BY <1>1 DEF AppendRecord, Mishap
<1>3. x \in Line /\ IsRecord(x) BY PartsAreNoRecords DEF Line
<1> DEFINE Good(book) == /\ book \in [lines : Seq(Line), ended : BOOLEAN]
                         /\ ~book.ended => book.lines # <<>>
                         /\ OldOrNew(book.lines, x)
<1>4. Good(journal) BY <1>1 DEF OldOrNew, FileFits
<1>5. Good(Written(x)) BY <1>3, GluedLines DEF Written
<1>6. ASSUME NEW part \in {x, Torn, Cut} PROVE Good([lines |-> Glued(part), ended |-> FALSE])
  <2>1. part \in Line BY <1>3, PartsAreNoRecords
  <2>2. /\ Glued(part) \in Seq(Line) /\ Glued(part) # <<>> /\ OldOrNew(Glued(part), part)
    BY <2>1, GluedLines
  <2>3. part = x \/ ~IsRecord(part) BY PartsAreNoRecords
  <2>4. OldOrNew(Glued(part), x) BY <2>2, <2>3 DEF OldOrNew
  <2> QED BY <2>2, <2>4
<1>7. ASSUME NEW book \in Interrupted(x) PROVE Good(book)
  BY <1>4, <1>5, <1>6 DEF Interrupted
<1>8. ASSUME NEW book \in Compacted(Written(x)) PROVE Good(book)
  <2>1. Written(x) \in [lines : Seq(Line), ended : BOOLEAN] /\ Written(x).ended BY <1>5 DEF Written
  <2>2. /\ book \in [lines : Seq(Line), ended : BOOLEAN] /\ (book.ended \/ book = Written(x))
        /\ \A i \in DOMAIN book.lines :
              \E j \in DOMAIN Written(x).lines : book.lines[i] = Written(x).lines[j]
    BY <1>8, <2>1, CompactedLines
  <2>3. OldOrNew(book.lines, x) BY <1>5, <2>2 DEF OldOrNew
  <2> QED BY <2>1, <2>2, <2>3
<1>9. journal' \in Stored(x) \cup {Written(x)} \cup Interrupted(x) \cup Compacted(Written(x))
  BY DEF AppendRecord
<1>10. Stored(x) \subseteq {Written(x)} \cup Compacted(Written(x)) BY DEF Stored
<1>11. Good(journal') BY <1>5, <1>7, <1>8, <1>9, <1>10
<1> QED BY <1>2, <1>11

\* append forgets at most the command it acknowledges, and one whose only record was
\* in an unfinished line.
LEMMA AppendKeeps ==
  ASSUME JournalTypeOK, FileFits, NEW x \in JournalRecord, NEW n, NEW f, AppendRecord(x, n, f),
         NEW r \in Records, x.cmd # r.cmd \/ x.phase # "acknowledged"
  PROVE  Known(journal'.lines, r) \/ Unfinished(r)
<1> SUFFICES ASSUME ~Unfinished(r) PROVE Known(journal'.lines, r) OBVIOUS
<1>1. x \in Line /\ IsRecord(x) BY PartsAreNoRecords DEF Line
<1>2. ASSUME NEW part \in {x, Torn, Cut} PROVE Known(Glued(part), r)
  <2>1. part \in Line BY <1>1, PartsAreNoRecords
  <2>2. IsRecord(part) => part = x BY PartsAreNoRecords
  <2> QED BY <2>1, <2>2, GluedKeeps
<1>3. Known(journal.lines, r) BY DEF Known, Records
<1>4. ASSUME NEW book \in Interrupted(x) \cup {Written(x)} PROVE Known(book.lines, r)
  BY <1>2, <1>3 DEF Interrupted, Written
<1>5. ASSUME NEW book \in Compacted(Written(x)) PROVE Known(book.lines, r)
  <2>1. Glued(x) \in Seq(Line) BY <1>1, GluedLines
  <2>2. Written(x) \in [lines : Seq(Line), ended : BOOLEAN] BY <2>1 DEF Written
  <2>3. Known(Written(x).lines, r) BY <1>4
  <2> QED BY <1>5, <2>2, <2>3, CompactedLines
<1>6. journal' \in {Written(x)} \cup Interrupted(x) \cup Compacted(Written(x))
  BY DEF AppendRecord, Stored
<1> QED BY <1>4, <1>5, <1>6

Vms == [up : BOOLEAN, gen : Nat, exp : Nat, gone : BOOLEAN]
Ops == {"ensure", "stop", "update", "inspect"}

\* What a call leaves behind: a workload of a generation of the instance with its
\* deadline, and never one that was cleaned up.
Sound(v) ==
    /\ v \in Vms
    /\ v.up => v.gen \in DOMAIN deadlines /\ v.exp = deadlines[v.gen]
    /\ v.gone => ~v.up
    /\ \A h \in Nat : Cleaned(h) => v.gone \/ (v.up /\ h < v.gen)

\* The workload as it is, or gone, is sound.
LEMMA GoneIsSound == ASSUME JournalTypeOK, VmFits PROVE Sound(vm) /\ Sound(Gone)
<1>1. vm \in Vms BY DEF JournalTypeOK, Vms
<1>2. Gone \in Vms /\ Gone.gone /\ ~Gone.up BY DEF Gone, NoVm, Vms
<1> QED BY <1>1, <1>2 DEF Sound, VmFits, Cleaned

\* The four calls of the host.
LEMMA ServedIsSound ==
  ASSUME JournalTypeOK, VmFits, NEW op \in Ops, NEW g \in DOMAIN deadlines, NEW e \in Nat,
         op \in {"ensure", "update"} => e = deadlines[g]
  PROVE  /\ Sound(Served(op, g, e).vm)
         /\ op = "stop" => /\ Served(op, g, e).vm.gone \/ (vm.up /\ g < vm.gen)
                           /\ Served(op, g, e).vm.gone /\ vm.up => vm.gen <= g
                           /\ Served(op, g, e).vm \in {vm, Gone}
         /\ Served(op, g, e).says = "stale" => Served(op, g, e).vm = vm
         /\ Served(op, g, e).says = "present" => Served(op, g, e).vm.up
         /\ op # "inspect" /\ Served(op, g, e).says = "present" => Served(op, g, e).vm.gen = g
         /\ op = "inspect" => Served(op, g, e).vm = vm
         /\ op \in {"stop", "update"} /\ Served(op, g, e).says = "stale" /\ vm.up => g < vm.gen
         /\ Served(op, g, e).says = "absent" => ~Served(op, g, e).vm.up
<1>1. /\ vm \in Vms /\ deadlines \in Seq(Nat) /\ clock \in Nat /\ g \in Nat
      /\ vm.gen \in Nat /\ vm.up \in BOOLEAN /\ vm.gone \in BOOLEAN
  BY DEF JournalTypeOK, Vms
<1>2. Sound(vm) /\ Sound(Gone) /\ Gone.gone /\ ~Gone.up BY GoneIsSound DEF Gone, NoVm
<1>3. CASE op = "stop"
  <2>1. CASE vm.up /\ g < vm.gen
    <3>1. Served(op, g, e) = [vm |-> vm, says |-> "stale"] BY <1>3, <2>1 DEF Served
    <3> QED BY <1>1, <1>2, <1>3, <2>1, <3>1 DEF VmFits
  <2>2. CASE ~(vm.up /\ g < vm.gen)
    <3>1. Served(op, g, e) = [vm |-> Gone, says |-> "absent"] BY <1>3, <2>2 DEF Served
    <3> QED BY <1>1, <1>2, <1>3, <2>2, <3>1
  <2> QED BY <2>1, <2>2
<1>4. CASE op = "ensure"
  <2> DEFINE new == [up |-> TRUE, gen |-> g, exp |-> e, gone |-> FALSE]
  <2>1. \/ Served(op, g, e) \in {[vm |-> vm, says |-> "stale"], [vm |-> vm, says |-> "error"]}
        \/ /\ Served(op, g, e) = [vm |-> new, says |-> "present"]
           /\ ~vm.gone /\ (vm.up => vm.gen = g)
    BY <1>1, <1>4 DEF Served
  <2>2. new \in Vms /\ new.up /\ ~new.gone /\ new.gen = g /\ new.exp = deadlines[g]
    BY <1>1, <1>4 DEF Vms
  <2> HIDE DEF new
  <2>3. ~vm.gone /\ (vm.up => vm.gen = g) => Sound(new) BY <2>2 DEF Sound, Cleaned
  <2> QED BY <1>2, <1>4, <2>1, <2>2, <2>3
<1>5. CASE op = "update"
  <2> DEFINE new == [vm EXCEPT !.gen = g, !.exp = e]
  <2>1. \/ /\ Served(op, g, e) = [vm |-> vm, says |-> "stale"]
           /\ vm.gone \/ (vm.up /\ g < vm.gen)
        \/ Served(op, g, e) = [vm |-> vm, says |-> "error"]
        \/ /\ Served(op, g, e) = [vm |-> new, says |-> "present"]
           /\ ~vm.gone /\ vm.up /\ vm.gen <= g
    BY <1>1, <1>5 DEF Served
  <2>2. new \in Vms /\ new.up = vm.up /\ new.gone = vm.gone /\ new.gen = g /\ new.exp = deadlines[g]
    BY <1>1, <1>5 DEF Vms
  <2> HIDE DEF new
  <2>3. ~vm.gone /\ vm.up /\ vm.gen <= g => Sound(new) BY <1>1, <2>2 DEF Sound, Cleaned
  <2> QED BY <1>2, <1>5, <2>1, <2>2, <2>3 DEF VmFits
<1>6. CASE op = "inspect"
  <2>1. Served(op, g, e) = [vm |-> vm, says |-> IF vm.up THEN "present" ELSE "absent"]
    BY <1>6 DEF Served
  <2> QED BY <1>2, <1>6, <2>1
<1> QED BY <1>3, <1>4, <1>5, <1>6 DEF Ops

\* A version of the command table in which no command is new, reopened or another.
KeepsRows(t) ==
    /\ t \in [Commands -> RowSet]
    /\ \A c \in Commands :
          /\ t[c].kind = rows[c].kind /\ t[c].gen = rows[c].gen
          /\ rows[c].status \in Final => t[c].status \in Final
          /\ t[c].status = "none" <=> rows[c].status = "none"

\* Writing the status of a command that exists.
LEMMA StatusKeeps ==
  ASSUME JournalTypeOK, RowsFit, NEW c \in Commands, rows[c].kind # "none",
         NEW st \in {"pending", "claimed"} \cup Final, rows[c].status \in Final => st \in Final
  PROVE  KeepsRows([rows EXCEPT ![c].status = st])
<1>1. rows \in [Commands -> RowSet] /\ rows[c] \in RowSet BY DEF JournalTypeOK
<1>2. PICK n : n = [rows[c] EXCEPT !.status = st] OBVIOUS
<1>3. /\ n \in RowSet /\ n.kind = rows[c].kind /\ n.gen = rows[c].gen /\ n.status = st
  BY <1>1, <1>2 DEF RowSet
<1>4. PICK t : t = [rows EXCEPT ![c] = n] OBVIOUS
<1>5. t = [rows EXCEPT ![c].status = st] BY <1>2, <1>4
<1>6. t \in [Commands -> RowSet] /\ t[c] = n /\ \A d \in Commands : d # c => t[d] = rows[d]
  BY <1>1, <1>3, <1>4
<1>7. st # "none" /\ rows[c].status # "none" BY DEF Final, RowsFit
<1>8. KeepsRows(t) BY <1>3, <1>6, <1>7 DEF KeepsRows
<1> QED BY <1>5, <1>8

\* Claiming one.
LEMMA ClaimKeeps ==
  ASSUME JournalTypeOK, RowsFit, NEW c \in Commands, rows[c].status = "pending"
  PROVE  /\ KeepsRows(Claimed(c))
         /\ rows[c].kind # "none"
<1>1. rows \in [Commands -> RowSet] /\ rows[c] \in RowSet BY DEF JournalTypeOK
<1>2. PICK n : n = [rows[c] EXCEPT !.status = "claimed", !.tries = rows[c].tries + 1] OBVIOUS
<1> rows[c].tries + 1 \in Nat BY <1>1 DEF RowSet
<1>3. /\ n \in RowSet /\ n.kind = rows[c].kind /\ n.gen = rows[c].gen /\ n.status = "claimed"
  BY <1>1, <1>2 DEF RowSet
<1>4. PICK t : t = [rows EXCEPT ![c] = n] OBVIOUS
<1>5. t = Claimed(c) BY <1>2, <1>4 DEF Claimed
<1>6. t \in [Commands -> RowSet] /\ t[c] = n /\ \A d \in Commands : d # c => t[d] = rows[d]
  BY <1>1, <1>3, <1>4
<1>7. KeepsRows(t) BY <1>3, <1>6 DEF KeepsRows, Final
<1> QED BY <1>5, <1>7 DEF RowsFit

\* What a step may do to the database and to the host.
RowsMove ==
    /\ rows' \in [Commands -> RowSet] /\ RowsFit'
    /\ \A c \in Commands : rows[c].kind # "none" =>
          /\ rows'[c].kind = rows[c].kind /\ rows'[c].gen = rows[c].gen
          /\ rows[c].status \in Final => rows'[c].status \in Final

DeadlinesMove ==
    /\ deadlines' \in Seq(Nat) /\ DeadlinesGrow'
    /\ \A g \in DOMAIN deadlines : g \in DOMAIN deadlines' /\ deadlines'[g] = deadlines[g]

VmMoves ==
    /\ vm' \in Vms /\ VmFits'
    /\ \A g \in Nat : Cleaned(g) => Cleaned(g)'

LEMMA MovesGrow == ASSUME RowsMove, DeadlinesMove, VmMoves PROVE Grows
  BY DEF RowsMove, DeadlinesMove, VmMoves, Grows

LEMMA RowsKept ==
  ASSUME RowsFit, KeepsRows(rows'), DeadlinesMove PROVE RowsMove
  BY DEF RowsFit, KeepsRows, DeadlinesMove, RowsMove

LEMMA RowsSame == ASSUME JournalTypeOK, RowsFit, DeadlinesMove, rows' = rows PROVE RowsMove
<1>1. KeepsRows(rows') BY DEF KeepsRows, JournalTypeOK
<1> QED BY <1>1, RowsKept

LEMMA DeadlinesSame ==
  ASSUME JournalTypeOK, DeadlinesGrow, deadlines' = deadlines PROVE DeadlinesMove
  BY DEF JournalTypeOK, DeadlinesGrow, DeadlinesMove

LEMMA VmSame == ASSUME DeadlinesMove, Sound(vm') PROVE VmMoves
  BY DEF DeadlinesMove, Sound, VmMoves, VmFits, Cleaned

\* A new command, with a new generation or of the one there is, on a version of the
\* table that keeps the others.
LEMMA NewCommandMoves ==
  ASSUME JournalTypeOK, RowsFit, NEW t, KeepsRows(t), NEW c \in Commands, Vacant(c),
         DeadlinesMove, NEW kind \in Kinds \ {"none"}, NEW g \in DOMAIN deadlines',
         rows' = [t EXCEPT ![c] = New(kind, g)]
  PROVE  RowsMove
<1>1. g \in Nat BY DEF DeadlinesMove
<1>2. PICK n : n = New(kind, g) OBVIOUS
<1>3. n \in RowSet /\ n.kind = kind /\ n.gen = g /\ n.status = "pending"
  BY <1>1, <1>2 DEF New, RowSet
<1>4. /\ rows' \in [Commands -> RowSet] /\ rows'[c] = n
      /\ \A d \in Commands : d # c => rows'[d] = t[d]
  BY <1>2, <1>3 DEF KeepsRows
<1>5. ASSUME NEW d \in Commands
      PROVE  /\ rows'[d].kind # "none" => rows'[d].gen \in DOMAIN deadlines'
             /\ rows'[d].kind = "none" <=> rows'[d].status = "none"
             /\ rows[d].kind # "none" =>
                   /\ rows'[d].kind = rows[d].kind /\ rows'[d].gen = rows[d].gen
                   /\ rows[d].status \in Final => rows'[d].status \in Final
  <2>1. CASE d = c BY <1>3, <1>4, <2>1 DEF Vacant
  <2>2. CASE d # c BY <1>4, <2>2 DEF KeepsRows, RowsFit, DeadlinesMove
  <2> QED BY <2>1, <2>2
<1> QED BY <1>4, <1>5 DEF RowsMove, RowsFit

\* A generation more, that does not end before the last one.
LEMMA LaterDeadlineMoves ==
  ASSUME JournalTypeOK, DeadlinesGrow, NEW e \in Nat, deadlines' = Append(deadlines, e),
         deadlines # <<>> => deadlines[Generation] <= e
  PROVE  DeadlinesMove /\ Generation + 1 \in DOMAIN deadlines'
<1>1. deadlines \in Seq(Nat) /\ Len(deadlines) \in Nat BY DEF JournalTypeOK
<1>2. /\ deadlines' \in Seq(Nat) /\ DOMAIN deadlines' = 1 .. Len(deadlines) + 1
      /\ deadlines'[Len(deadlines) + 1] = e
      /\ \A g \in DOMAIN deadlines : deadlines'[g] = deadlines[g]
      /\ DOMAIN deadlines = 1 .. Len(deadlines)
  BY <1>1
<1>3. ASSUME NEW g \in DOMAIN deadlines', NEW h \in DOMAIN deadlines', g <= h
      PROVE  deadlines'[g] <= deadlines'[h]
  <2>1. CASE h \in DOMAIN deadlines
    <3>1. g \in DOMAIN deadlines BY <1>1, <1>2, <1>3, <2>1
    <3> QED BY <1>2, <1>3, <2>1, <3>1 DEF DeadlinesGrow
  <2>2. CASE h \notin DOMAIN deadlines /\ g \in DOMAIN deadlines
    <3>1. h = Len(deadlines) + 1 BY <1>1, <1>2, <2>2
    <3>2. Len(deadlines) \in DOMAIN deadlines /\ g <= Len(deadlines) BY <1>1, <1>2, <2>2
    <3>3. deadlines[g] <= deadlines[Len(deadlines)] BY <2>2, <3>2 DEF DeadlinesGrow
    <3>4. deadlines[Len(deadlines)] <= e BY <3>2 DEF Generation
    <3>5. deadlines[g] \in Nat /\ deadlines[Len(deadlines)] \in Nat BY <1>1, <2>2, <3>2
    <3> QED BY <1>2, <2>2, <3>1, <3>3, <3>4, <3>5
  <2>3. CASE h \notin DOMAIN deadlines /\ g \notin DOMAIN deadlines
    <3>1. g = h BY <1>1, <1>2, <2>3
    <3>2. deadlines'[h] \in Nat BY <1>2
    <3> QED BY <3>1, <3>2
  <2> QED BY <2>1, <2>2, <2>3
<1>4. DeadlinesMove BY <1>1, <1>2, <1>3 DEF DeadlinesMove, DeadlinesGrow
<1> QED BY <1>1, <1>2, <1>4 DEF Generation

\* A stop that is queued.
LEMMA WithStopMoves ==
  ASSUME JournalTypeOK, DeadlinesGrow, RowsFit, NEW t, KeepsRows(t), NEW c \in Commands, WithStop(t, c)
  PROVE  RowsMove /\ DeadlinesMove
<1>1. deadlines \in Seq(Nat) /\ deadlines # <<>> BY DEF JournalTypeOK, WithStop
<1>2. Generation \in DOMAIN deadlines /\ deadlines[Generation] \in Nat BY <1>1 DEF Generation
<1>3. DeadlinesMove /\ Generation + 1 \in DOMAIN deadlines'
  BY <1>2, LaterDeadlineMoves DEF WithStop
<1>4. "terminate" \in Kinds \ {"none"} BY DEF Kinds
<1>5. Vacant(c) /\ rows' = [t EXCEPT ![c] = New("terminate", Generation + 1)] BY DEF WithStop
<1> QED BY <1>3, <1>4, <1>5, NewCommandMoves

\* The API.
LEMMA AskingMoves ==
  ASSUME JournalTypeOK, DeadlinesGrow, RowsFit, NEW c \in Commands,
         AskStart(c) \/ AskExtend(c) \/ AskStop(c) \/ AskInspect(c)
  PROVE  RowsMove /\ DeadlinesMove
<1>1. KeepsRows(rows) BY DEF KeepsRows, JournalTypeOK
<1>2. /\ deadlines \in Seq(Nat) /\ clock \in Nat
      /\ deadlines # <<>> => Generation \in DOMAIN deadlines /\ deadlines[Generation] \in Nat
      /\ LastInstant \in Nat
  BY JournalAssumption DEF JournalTypeOK, Generation
<1>3. {"start", "extend", "terminate", "inspect"} = Kinds \ {"none"} BY DEF Kinds
<1>4. CASE AskStart(c)
  <2>1. PICK e \in clock + 1 .. LastInstant : deadlines' = <<e>> BY <1>4 DEF AskStart
  <2>2. e \in Nat /\ deadlines = <<>> BY <1>2, <1>4 DEF AskStart
  <2>3. deadlines' = Append(deadlines, e) BY <2>1, <2>2
  <2>4. DeadlinesMove /\ 1 \in DOMAIN deadlines' BY <2>1, <2>2, <2>3, LaterDeadlineMoves
  <2>5. Vacant(c) /\ rows' = [rows EXCEPT ![c] = New("start", 1)] BY <1>4 DEF AskStart
  <2> QED BY <1>1, <1>3, <2>4, <2>5, NewCommandMoves
<1>5. CASE AskExtend(c)
  <2>1. PICK e \in deadlines[Generation] + 1 .. LastInstant : deadlines' = Append(deadlines, e)
    BY <1>5 DEF AskExtend
  <2>2. e \in Nat /\ deadlines[Generation] <= e BY <1>2, <1>5 DEF AskExtend
  <2>3. DeadlinesMove /\ Generation + 1 \in DOMAIN deadlines'
    BY <2>1, <2>2, LaterDeadlineMoves
  <2>4. Vacant(c) /\ rows' = [rows EXCEPT ![c] = New("extend", Generation + 1)] BY <1>5 DEF AskExtend
  <2> QED BY <1>1, <1>3, <2>3, <2>4, NewCommandMoves
<1>6. CASE AskStop(c) BY <1>1, <1>6, WithStopMoves DEF AskStop
<1>7. CASE AskInspect(c)
  <2>1. /\ Vacant(c) /\ rows' = [rows EXCEPT ![c] = New("inspect", Generation)]
        /\ deadlines' = deadlines /\ Generation \in DOMAIN deadlines
    BY <1>2, <1>7 DEF AskInspect
  <2>2. DeadlinesMove BY <2>1, DeadlinesSame
  <2> QED BY <1>1, <1>3, <2>1, <2>2, NewCommandMoves
<1> QED BY <1>4, <1>5, <1>6, <1>7

\* A step that leaves the database alone.
LEMMA DatabaseSame ==
  ASSUME JournalInv, UNCHANGED <<deadlines, rows>> PROVE RowsMove /\ DeadlinesMove
  BY RowsSame, DeadlinesSame DEF JournalInv

\* The workload is only touched by the calls, the timer and failures of a start.
LEMMA VmStep ==
  ASSUME JournalInv, JournalNext, DeadlinesMove PROVE VmMoves
<1> USE DEF JournalInv
<1> SUFFICES Sound(vm') BY VmSame
<1>1. Sound(vm) /\ Sound(Gone) BY GoneIsSound
<1>2. ASSUME NEW r \in task.todo, StopOverdue(r) \/ StopUnanswered(r) PROVE Sound(vm')
  <2>1. RecordFits(r) /\ r.exp \in Nat BY DEF HandFits, RecordFits, JournalRecord
  <2>2. r.gen \in DOMAIN deadlines BY <2>1 DEF RecordFits
  <2>3. Sound(Served("stop", r.gen, r.exp).vm) BY <2>1, <2>2, ServedIsSound DEF Ops
  <2> QED BY <1>1, <1>2, <2>3 DEF StopOverdue, StopUnanswered
<1>3. CASE RemoteCall \/ RemoteCallFails
  <2>1. task.pc = "call" BY <1>3 DEF RemoteCall, RemoteCallFails
  <2>2. /\ task.cmd \in Commands /\ rows[task.cmd].kind # "none" /\ task.gen = rows[task.cmd].gen
        /\ task.op \in Ops /\ task.exp \in Nat
        /\ task.op # "stop" => task.exp = deadlines[task.gen]
    BY <2>1 DEF HandFits, InExecution, JournalTypeOK, Ops
  <2>3. task.gen \in DOMAIN deadlines BY <2>2 DEF RowsFit
  <2>4. Sound(Served(task.op, task.gen, task.exp).vm) BY <2>2, <2>3, ServedIsSound
  <2>5. vm' \in {vm, Gone, Served(task.op, task.gen, task.exp).vm}
    BY <1>3 DEF RemoteCall, RemoteCallFails
  <2> QED BY <1>1, <2>4, <2>5
<1>4. CASE VmExpires BY <1>1, <1>4 DEF VmExpires
<1>5. CASE Boot \/ CleanUp \/ Connect \/ PassEnds \/ ReconcileAgain
           \/ \E r \in task.todo : SkipRecord(r) \/ KeepRecord(r) \/ AcknowledgeRecord(r)
  BY <1>1, <1>5 DEF Boot, CleanUp, Connect, PassEnds, ReconcileAgain, SkipRecord, KeepRecord,
                    AcknowledgeRecord
<1>6. CASE \/ \E c \in Commands : ClaimAndLoad(c) \/ Decline(c)
           \/ JournalIntent \/ JournalResult \/ FinishCommand \/ ExtensionTooLate
           \/ MovedOn \/ JournalAcknowledged \/ RetryOrFail
  BY <1>1, <1>6 DEF ClaimAndLoad, Decline, JournalIntent, JournalResult, FinishCommand,
                    ExtensionTooLate, MovedOn, JournalAcknowledged, RetryOrFail
<1>7. CASE Asking \/ CommitUnconfirmed \/ SessionEnds \/ Crash \/ JournalTick
  BY <1>1, <1>7 DEF Asking, AskStart, AskExtend, AskStop, AskInspect, CommitUnconfirmed,
                    SessionEnds, Crash, JournalTick
<1> QED BY <1>2, <1>3, <1>4, <1>5, <1>6, <1>7 DEF JournalNext, Passes, Executing

\* The command in hand is closed or put back.
LEMMA ClosedKeeps ==
  ASSUME JournalInv, task.pc \in InExecution \cup {"retry"}, NEW st \in {"pending"} \cup Final,
         rows[task.cmd].status \in Final => st \in Final
  PROVE  KeepsRows(Closed(st))
<1>1. task.cmd \in Commands /\ rows[task.cmd].kind # "none" BY DEF JournalInv, HandFits
<1>2. JournalTypeOK /\ RowsFit BY DEF JournalInv
<1>3. KeepsRows([rows EXCEPT ![task.cmd].status = st]) BY <1>1, <1>2, StatusKeeps
<1> QED BY <1>3 DEF Closed

\* The database only moves forward.
LEMMA DatabaseStep ==
  ASSUME JournalInv, JournalNext PROVE RowsMove /\ DeadlinesMove
<1>0. JournalTypeOK /\ RowsFit /\ DeadlinesGrow BY DEF JournalInv
<1>1. CASE Connect
  <2>1. PICK t : t = [c \in Commands |-> [rows[c] EXCEPT
                   !.status = IF rows[c].status = "claimed" THEN "pending" ELSE rows[c].status]]
    OBVIOUS
  <2>2. ASSUME NEW c \in Commands
        PROVE  /\ t[c] \in RowSet /\ t[c].kind = rows[c].kind /\ t[c].gen = rows[c].gen
               /\ t[c].status = IF rows[c].status = "claimed" THEN "pending" ELSE rows[c].status
    <3>1. rows[c] \in RowSet BY <1>0 DEF JournalTypeOK
    <3>2. PICK st : st = IF rows[c].status = "claimed" THEN "pending" ELSE rows[c].status OBVIOUS
    <3>3. st \in {"none", "pending", "claimed"} \cup Final BY <3>1, <3>2 DEF RowSet
    <3>4. PICK n : n = [rows[c] EXCEPT !.status = st] OBVIOUS
    <3>5. n \in RowSet /\ n.kind = rows[c].kind /\ n.gen = rows[c].gen /\ n.status = st
      BY <3>1, <3>3, <3>4 DEF RowSet
    <3>6. t[c] = n BY <2>1, <3>2, <3>4
    <3> QED BY <3>2, <3>5, <3>6
  <2>3. t \in [Commands -> RowSet] BY <2>1, <2>2
  <2>4. KeepsRows(t) BY <2>2, <2>3 DEF KeepsRows, Final
  <2>5. rows' = t /\ deadlines' = deadlines BY <1>1, <2>1 DEF Connect
  <2> QED BY <1>0, <2>4, <2>5, DeadlinesSame, RowsKept
<1>2. ASSUME NEW c \in Commands, ClaimAndLoad(c) \/ Decline(c) PROVE RowsMove /\ DeadlinesMove
  <2>1. rows[c].status = "pending" /\ deadlines' = deadlines BY <1>2 DEF ClaimAndLoad, Decline
  <2>2. KeepsRows(Claimed(c)) /\ rows[c].kind # "none" BY <1>0, <2>1, ClaimKeeps
  <2>3. ASSUME NEW st \in {"completed", "cancelled"} PROVE KeepsRows([rows EXCEPT ![c].status = st])
    <3>1. st \in Final BY DEF Final
    <3> QED BY <1>0, <2>2, <3>1, StatusKeeps
  <2>4. rows' = Claimed(c) \/ \E st \in {"completed", "cancelled"} : rows' = [rows EXCEPT ![c].status = st]
    BY <1>2 DEF ClaimAndLoad, Decline
  <2>5. KeepsRows(rows') BY <2>2, <2>3, <2>4
  <2> QED BY <1>0, <2>1, <2>5, DeadlinesSame, RowsKept
<1>3. CASE MovedOn \/ CommitUnconfirmed \/ FinishCommand
  <2>1. task.pc \in InExecution BY <1>3 DEF MovedOn, CommitUnconfirmed, FinishCommand, InExecution
  <2>2. KeepsRows(Closed("cancelled")) /\ KeepsRows(Closed("completed"))
    BY <2>1, ClosedKeeps DEF Final
  <2>3. KeepsRows(rows) BY <1>0 DEF KeepsRows, JournalTypeOK
  <2>4. CASE deadlines' = deadlines /\ rows' \in {rows, Closed("cancelled"), Closed("completed")}
    BY <1>0, <2>2, <2>3, <2>4, DeadlinesSame, RowsKept
  <2>5. CASE \E c \in Commands : WithStop(Closed("completed"), c)
    BY <1>0, <2>2, <2>5, WithStopMoves
  <2> QED BY <1>3, <2>4, <2>5 DEF MovedOn, CommitUnconfirmed, FinishCommand
<1>4. CASE RetryOrFail
  <2>1. task.pc \in InExecution \cup {"retry"} BY <1>4 DEF RetryOrFail
  <2>2. KeepsRows(Closed("failed")) BY <2>1, ClosedKeeps DEF Final
  <2>3. rows[task.cmd].status = "claimed" => KeepsRows(Closed("pending"))
    BY <2>1, ClosedKeeps DEF Final
  <2>4. KeepsRows(rows) BY <1>0 DEF KeepsRows, JournalTypeOK
  <2>5. CASE deadlines' = deadlines /\ KeepsRows(rows') BY <1>0, <2>5, DeadlinesSame, RowsKept
  <2>6. CASE \E c \in Commands : WithStop(Closed("failed"), c) BY <1>0, <2>2, <2>6, WithStopMoves
  <2> QED BY <1>4, <2>2, <2>3, <2>4, <2>5, <2>6 DEF RetryOrFail
<1>5. CASE Asking BY <1>0, <1>5, AskingMoves DEF Asking
<1>6. CASE Boot \/ CleanUp \/ PassEnds \/ ReconcileAgain
           \/ \E r \in task.todo : SkipRecord(r) \/ StopOverdue(r) \/ StopUnanswered(r)
                                   \/ KeepRecord(r) \/ AcknowledgeRecord(r)
  BY <1>6, DatabaseSame DEF Boot, CleanUp, PassEnds, ReconcileAgain, SkipRecord, StopOverdue,
                            StopUnanswered, KeepRecord, AcknowledgeRecord
<1>7. CASE \/ JournalIntent \/ RemoteCall \/ JournalResult \/ ExtensionTooLate \/ JournalAcknowledged
           \/ RemoteCallFails \/ SessionEnds \/ Crash \/ JournalTick \/ VmExpires
  BY <1>7, DatabaseSame DEF JournalIntent, RemoteCall, JournalResult, ExtensionTooLate,
                 JournalAcknowledged, RemoteCallFails, SessionEnds, Crash, JournalTick, VmExpires
<1> QED BY <1>1, <1>2, <1>3, <1>4, <1>5, <1>6, <1>7 DEF JournalNext, Passes, Executing

LEMMA JournalGrows == ASSUME JournalInv, JournalNext PROVE Grows /\ RowsMove /\ DeadlinesMove /\ VmMoves
  BY DatabaseStep, VmStep, MovesGrow

Tasks == [pc : {"off", "connect", "ended", "away", "sync", "ready"} \cup InExecution \cup {"retry"},
          cmd : Commands \cup {NoCommand}, gen : Nat, exp : Nat,
          op : {"none"} \cup Ops, todo : SUBSET JournalRecord]

HandTypeOK == task \in Tasks

LEMMA TaskTypes == JournalTypeOK => HandTypeOK
  BY DEF JournalTypeOK, HandTypeOK, Tasks, Ops, InExecution

\* What the steps make of the task: nothing in hand,
LEMMA IdleFits ==
  ASSUME NEW pc \in {"off", "connect", "ended", "ready"}, task' = Idle(pc)
  PROVE  HandTypeOK' /\ HandFits'
<1>1. /\ task'.pc = pc /\ task'.todo = {} /\ task'.cmd = NoCommand /\ task'.gen = 0
      /\ task'.exp = 0 /\ task'.op = "none" /\ task' \in Tasks
  BY DEF Idle, Off, Tasks, Ops, InExecution
<1> QED BY <1>1 DEF HandTypeOK, HandFits, InExecution

LEMMA OffFits == ASSUME task' = Off PROVE HandTypeOK' /\ HandFits'
<1>1. task' = Idle("off") BY DEF Idle, Off
<1> QED BY <1>1, IdleFits

\* the records of the file,
LEMMA RecordsFit == ASSUME JournalInv, NEW r \in Records PROVE RecordFits(r)
  BY DEF JournalInv, FileFits, Records, Unacknowledged

LEMMA ReadingFits ==
  ASSUME JournalInv, Grows, NEW pc \in {"away", "sync"}, NEW failed \in {"connect", "ended"},
         task' = Reading(pc, failed)
  PROVE  HandTypeOK' /\ HandFits'
<1>1. CASE ~Readable(journal.lines) BY <1>1, IdleFits DEF Reading
<1>2. CASE Readable(journal.lines)
  <2>1. JournalTypeOK BY DEF JournalInv
  <2>2. \A r \in Records : RecordFits(r) /\ RecordFits(r)' /\ r \in JournalRecord
    BY <2>1, RecordsFit, RecordStaysFit DEF RecordFits
  <2>3. /\ task'.pc = pc /\ task'.todo = Records /\ task'.cmd = NoCommand /\ task'.gen = 0
        /\ task'.exp = 0 /\ task'.op = "none"
        /\ task' = [pc |-> pc, cmd |-> NoCommand, gen |-> 0, exp |-> 0, op |-> "none", todo |-> Records]
    BY <1>2 DEF Reading, Off
  <2>4. Records \in SUBSET JournalRecord BY <2>2
  <2>5. task' \in Tasks BY <2>3, <2>4 DEF Tasks
  <2> QED BY <2>2, <2>3, <2>5 DEF HandTypeOK, HandFits, InExecution
<1> QED BY <1>1, <1>2

\* one of them less,
LEMMA OverFits ==
  ASSUME JournalInv, Grows, task.pc \in {"away", "sync"}, NEW r, task' = Over(r)
  PROVE  HandTypeOK' /\ HandFits'
<1>1. JournalTypeOK /\ task \in Tasks BY TaskTypes DEF JournalInv, HandTypeOK
<1>2. PICK left : left = task.todo \ {r} OBVIOUS
<1>3. left \in SUBSET JournalRecord BY <1>1, <1>2 DEF Tasks
<1>4. task' = [task EXCEPT !.todo = left] BY <1>2 DEF Over
<1>5. task' \in Tasks /\ task'.pc = task.pc /\ task'.todo = left BY <1>1, <1>3, <1>4 DEF Tasks
<1>6. \A q \in task'.todo : RecordFits(q) BY <1>2, <1>5 DEF JournalInv, HandFits
<1>7. \A q \in task'.todo : RecordFits(q)' BY <1>1, <1>6, RecordStaysFit
<1> QED BY <1>5, <1>7 DEF HandTypeOK, HandFits, InExecution

\* What is known of a command in hand.
LEMMA InHandIs ==
  ASSUME JournalInv, task.pc \in InExecution
  PROVE  /\ task.cmd \in Commands /\ rows[task.cmd].kind # "none" /\ task.gen = rows[task.cmd].gen
         /\ task.gen \in DOMAIN deadlines /\ task.gen \in Nat /\ task.exp \in Nat
         /\ deadlines[task.gen] <= task.exp /\ task.op \in Ops
         /\ task.pc \in {"intend", "call"} /\ task.op # "stop" => task.exp = deadlines[task.gen]
  BY DEF JournalInv, HandFits, JournalTypeOK, RowsFit, Ops

\* a command that is carried on with, or goes wrong.
LEMMA HandedOnFits ==
  ASSUME JournalInv, Grows, task.pc \in InExecution,
         NEW pc \in InExecution \cup {"retry"}, NEW op \in Ops, NEW e \in Nat,
         task' = [task EXCEPT !.pc = pc, !.op = op, !.exp = e],
         deadlines[task.gen] <= e,
         pc \in {"intend", "call"} => op = "stop" \/ e = deadlines[task.gen],
         pc = "ack" => rows'[task.cmd].status \in Final
  PROVE  HandTypeOK' /\ HandFits'
<1>1. JournalTypeOK /\ task \in Tasks BY TaskTypes DEF JournalInv, HandTypeOK
<1>2. /\ task' \in Tasks /\ task'.pc = pc /\ task'.op = op /\ task'.exp = e
      /\ task'.cmd = task.cmd /\ task'.gen = task.gen /\ task'.todo = task.todo
  BY <1>1 DEF Tasks
<1>3. /\ task.cmd \in Commands /\ rows[task.cmd].kind # "none" /\ task.gen = rows[task.cmd].gen
      /\ task.gen \in DOMAIN deadlines /\ deadlines[task.gen] <= task.exp /\ task.exp \in Nat
  BY InHandIs
<1>4. /\ rows'[task.cmd].kind # "none" /\ rows'[task.cmd].gen = rows[task.cmd].gen
      /\ deadlines'[task.gen] = deadlines[task.gen]
  BY <1>3 DEF Grows
<1>5. \A q \in task'.todo : RecordFits(q)' BY <1>1, <1>2, RecordStaysFit DEF JournalInv, HandFits
<1> QED BY <1>2, <1>3, <1>4, <1>5 DEF HandTypeOK, HandFits, Ops, InExecution

LEMMA GoToFits ==
  ASSUME JournalInv, Grows, task.pc \in InExecution, NEW pc \in InExecution \cup {"retry"},
         task' = GoTo(pc), pc \in {"intend", "call"} => task.pc \in {"intend", "call"},
         pc = "ack" => rows'[task.cmd].status \in Final
  PROVE  HandTypeOK' /\ HandFits'
<1>1. task \in Tasks BY TaskTypes DEF JournalInv, HandTypeOK
<1>2. task' = [task EXCEPT !.pc = pc, !.op = task.op, !.exp = task.exp] BY <1>1 DEF GoTo, Tasks
<1>3. task.op \in Ops /\ task.exp \in Nat /\ deadlines[task.gen] <= task.exp
      /\ (task.pc \in {"intend", "call"} => task.op = "stop" \/ task.exp = deadlines[task.gen])
  BY InHandIs
<1> QED BY <1>2, <1>3, HandedOnFits

\* A step that leaves the task alone.
LEMMA HandSame ==
  ASSUME JournalInv, Grows, task' = task PROVE HandTypeOK' /\ HandFits'
<1>1. JournalTypeOK /\ task \in Tasks BY TaskTypes DEF JournalInv, HandTypeOK
<1>2. \A q \in task'.todo : RecordFits(q)' BY <1>1, RecordStaysFit DEF JournalInv, HandFits
<1>3. CASE task.pc \in InExecution
  <2>1. /\ task.cmd \in Commands /\ rows[task.cmd].kind # "none" /\ task.gen = rows[task.cmd].gen
        /\ task.gen \in DOMAIN deadlines /\ deadlines[task.gen] <= task.exp /\ task.op \in Ops
        /\ task.pc \in {"intend", "call"} /\ task.op # "stop" => task.exp = deadlines[task.gen]
    BY <1>3, InHandIs
  <2>2. /\ rows'[task.cmd].kind # "none" /\ rows'[task.cmd].gen = rows[task.cmd].gen
        /\ deadlines'[task.gen] = deadlines[task.gen]
        /\ rows[task.cmd].status \in Final => rows'[task.cmd].status \in Final
    BY <2>1 DEF Grows
  <2>3. task.pc = "ack" => rows[task.cmd].status \in Final BY DEF JournalInv, HandFits
  <2> QED BY <1>1, <1>2, <1>3, <2>1, <2>2, <2>3 DEF HandTypeOK, HandFits, Ops
<1>4. CASE task.pc \notin InExecution
  <2>1. task.pc = "retry" => task.cmd \in Commands /\ rows[task.cmd].kind # "none"
    BY DEF JournalInv, HandFits
  <2>2. task.pc = "retry" => rows'[task.cmd].kind # "none" BY <2>1 DEF Grows
  <2> QED BY <1>1, <1>2, <1>4, <2>1, <2>2 DEF HandTypeOK, HandFits, InExecution
<1> QED BY <1>3, <1>4

\* A step that leaves the file alone.
LEMMA FileSame ==
  ASSUME JournalInv, Grows, journal' = journal PROVE FileFits'
<1>1. JournalTypeOK BY DEF JournalInv
<1>2. \A i \in DOMAIN journal.lines : IsRecord(journal.lines[i]) => RecordFits(journal.lines[i])'
  BY <1>1, RecordStaysFit DEF JournalInv, FileFits
<1> QED BY <1>2 DEF JournalInv, FileFits

\* Appending a record that fits.
LEMMA FileAppended ==
  ASSUME JournalInv, Grows, NEW x \in JournalRecord, RecordFits(x)', NEW n, NEW f,
         AppendRecord(x, n, f)
  PROVE  FileFits'
<1>1. JournalTypeOK /\ FileFits BY DEF JournalInv
<1>2. OldOrNew(journal'.lines, x) /\ (~journal'.ended => journal'.lines # <<>>)
  BY <1>1, AppendedLines
<1>3. \A q : q \in {journal.lines[j] : j \in DOMAIN journal.lines} /\ IsRecord(q) => RecordFits(q)'
  BY <1>1, RecordStaysFit DEF FileFits
<1>4. ASSUME NEW i \in DOMAIN journal'.lines
      PROVE  \E q : q = journal'.lines[i] /\ (IsRecord(q) => RecordFits(q)')
  <2>1. PICK q : q = journal'.lines[i] OBVIOUS
  <2>2. CASE q = x BY <2>1, <2>2
  <2>3. CASE \E j \in DOMAIN journal.lines : q = journal.lines[j] BY <1>3, <2>1, <2>3
  <2> QED BY <1>2, <2>1, <2>2, <2>3 DEF OldOrNew
<1>5. \A i \in DOMAIN journal'.lines : IsRecord(journal'.lines[i]) => RecordFits(journal.lines[i])'
  BY <1>4
<1> QED BY <1>2, <1>5 DEF FileFits

\* The record of the command in hand fits.
LEMMA InHandFits ==
  ASSUME JournalInv, Grows, task.pc \in InExecution,
         NEW phase \in {"intent", "remote_result", "acknowledged"},
         NEW x, x = InHand(phase)
  PROVE  x \in JournalRecord /\ RecordFits(x)'
<1>1. /\ task.cmd \in Commands /\ rows[task.cmd].kind # "none" /\ task.gen = rows[task.cmd].gen
      /\ task.gen \in DOMAIN deadlines /\ task.gen \in Nat /\ task.exp \in Nat
      /\ deadlines[task.gen] <= task.exp
  BY InHandIs
<1>2. /\ x \in JournalRecord /\ x.cmd = task.cmd /\ x.gen = task.gen /\ x.exp = task.exp
      /\ x.phase # "degraded_cleanup"
  BY <1>1 DEF InHand, JournalRecord
<1>3. RecordFits(x) BY <1>1, <1>2 DEF RecordFits
<1> QED BY <1>2, <1>3, RecordStaysFit DEF JournalInv

\* Another phase for a record, when what it says is so.
LEMMA RephasedFits ==
  ASSUME JournalInv, Grows, NEW r \in task.todo, NEW phase \in {"acknowledged", "degraded_cleanup"},
         phase = "degraded_cleanup" => Cleaned(r.gen)',
         NEW x, x = [r EXCEPT !.phase = phase]
  PROVE  x \in JournalRecord /\ RecordFits(x)'
<1>1. RecordFits(r) /\ r \in JournalRecord BY DEF JournalInv, HandFits, RecordFits
<1>2. /\ x \in JournalRecord /\ x.cmd = r.cmd /\ x.gen = r.gen /\ x.exp = r.exp /\ x.phase = phase
  BY <1>1 DEF JournalRecord
<1>3. RecordFits(r)' BY <1>1, RecordStaysFit DEF JournalInv
<1> QED BY <1>2, <1>3 DEF RecordFits

\* Closing the command in hand.
LEMMA ClosedIs ==
  ASSUME JournalInv, task.pc \in InExecution \cup {"retry"}, NEW st, NEW t, t = Closed(st)
  PROVE  t[task.cmd].status = st
<1>1. task.cmd \in Commands BY DEF JournalInv, HandFits
<1>2. rows \in [Commands -> RowSet] /\ rows[task.cmd] \in RowSet BY <1>1 DEF JournalInv, JournalTypeOK
<1>3. PICK n : n = [rows[task.cmd] EXCEPT !.status = st] OBVIOUS
<1>4. n.status = st BY <1>2, <1>3 DEF RowSet
<1>5. t = [rows EXCEPT ![task.cmd] = n] BY <1>3 DEF Closed
<1> QED BY <1>1, <1>2, <1>4, <1>5

\* What a stop that is queued leaves of the command in hand.
LEMMA ClosedWithStopIs ==
  ASSUME JournalInv, task.pc \in InExecution, NEW st, NEW c \in Commands, WithStop(Closed(st), c)
  PROVE  rows'[task.cmd].status = st
<1>1. PICK t : t = Closed(st) OBVIOUS
<1>2. t[task.cmd].status = st BY <1>1, ClosedIs
<1>3. rows' = [t EXCEPT ![c] = New("terminate", Generation + 1)] /\ Vacant(c) BY <1>1 DEF WithStop
<1>4. rows[task.cmd].kind # "none" /\ task.cmd \in Commands BY InHandIs
<1>5. c # task.cmd BY <1>3, <1>4 DEF Vacant
<1>6. rows \in [Commands -> RowSet] BY DEF JournalInv, JournalTypeOK
<1>7. DOMAIN t = Commands BY <1>1, <1>6 DEF Closed
<1> QED BY <1>2, <1>3, <1>4, <1>5, <1>7

\* What a step does to the file and the task.
FileTypeOK == journal \in [lines : Seq(Line), ended : BOOLEAN]
TaskMoves == FileTypeOK' /\ FileFits' /\ HandTypeOK' /\ HandFits'

LEMMA FileUntouched ==
  ASSUME JournalInv, Grows, journal' = journal, HandTypeOK', HandFits' PROVE TaskMoves
<1>1. FileTypeOK' BY DEF JournalInv, JournalTypeOK, FileTypeOK
<1> QED BY <1>1, FileSame DEF TaskMoves

LEMMA AppendMoves ==
  ASSUME JournalInv, Grows, NEW x \in JournalRecord, RecordFits(x)', NEW n, NEW f,
         AppendRecord(x, n, f),
         task' = n => HandTypeOK' /\ HandFits', task' = f => HandTypeOK' /\ HandFits'
  PROVE  TaskMoves
<1>1. JournalTypeOK /\ FileFits BY DEF JournalInv
<1>2. FileTypeOK' /\ task' \in {n, f, Off} BY <1>1, AppendedLines DEF FileTypeOK
<1>3. HandTypeOK' /\ HandFits' BY <1>2, OffFits
<1> QED BY <1>2, <1>3, FileAppended DEF TaskMoves

\* The passes over the records of the file.
LEMMA PassesMove == ASSUME JournalInv, Grows, JournalNext, Passes PROVE TaskMoves
<1>1. CASE Boot
  <2>1. task' = Idle("connect") /\ journal' = journal BY <1>1 DEF Boot
  <2> QED BY <2>1, IdleFits, FileUntouched
<1>2. CASE CleanUp
  <2>1. task' = Reading("away", "connect") /\ journal' = journal BY <1>2 DEF CleanUp
  <2> QED BY <2>1, ReadingFits, FileUntouched
<1>3. CASE Connect \/ ReconcileAgain
  <2>1. task' = Reading("sync", "ended") /\ journal' = journal BY <1>3 DEF Connect, ReconcileAgain
  <2> QED BY <2>1, ReadingFits, FileUntouched
<1>4. CASE PassEnds
  <2>1. (task' = Idle("connect") \/ task' = Idle("ready")) /\ journal' = journal
    BY <1>4 DEF PassEnds
  <2> QED BY <2>1, IdleFits, FileUntouched
<1>5. ASSUME NEW r \in task.todo, SkipRecord(r) \/ StopUnanswered(r) \/ KeepRecord(r) PROVE TaskMoves
  <2>1. task.pc \in {"away", "sync"} /\ task' = Over(r) /\ journal' = journal
    BY <1>5 DEF SkipRecord, StopUnanswered, KeepRecord
  <2> QED BY <2>1, OverFits, FileUntouched
<1>6. ASSUME NEW r \in task.todo, StopOverdue(r) PROVE TaskMoves
  <2>1. /\ task.pc = "away" /\ vm' = Served("stop", r.gen, r.exp).vm
        /\ AppendRecord([r EXCEPT !.phase = "degraded_cleanup"], Over(r), Idle("connect"))
    BY <1>6 DEF StopOverdue
  <2>2. RecordFits(r) /\ r \in JournalRecord BY DEF JournalInv, HandFits, RecordFits
  <2>3. r.gen \in DOMAIN deadlines /\ r.exp \in Nat BY <2>2 DEF RecordFits, JournalRecord
  <2>4. /\ vm'.gone \/ (vm.up /\ r.gen < vm.gen)
        /\ vm' \in {vm, Gone}
    BY <2>1, <2>3, ServedIsSound DEF JournalInv, Ops
  <2>5. Gone.gone BY DEF Gone, NoVm
  <2>6. Cleaned(r.gen)' BY <2>4, <2>5 DEF Cleaned
  <2>7. PICK x : x = [r EXCEPT !.phase = "degraded_cleanup"] OBVIOUS
  <2>8. x \in JournalRecord /\ RecordFits(x)' BY <2>6, <2>7, RephasedFits
  <2>9. AppendRecord(x, Over(r), Idle("connect")) BY <2>1, <2>7
  <2>10. task' = Over(r) => HandTypeOK' /\ HandFits' BY <2>1, OverFits
  <2>11. task' = Idle("connect") => HandTypeOK' /\ HandFits' BY IdleFits
  <2> HIDE DEF Over, Idle
  <2> QED BY <2>8, <2>9, <2>10, <2>11, AppendMoves
<1>7. ASSUME NEW r \in task.todo, AcknowledgeRecord(r) PROVE TaskMoves
  <2>1. task.pc = "sync" /\ AppendRecord([r EXCEPT !.phase = "acknowledged"], Over(r), Idle("ended"))
    BY <1>7 DEF AcknowledgeRecord
  <2>2. PICK x : x = [r EXCEPT !.phase = "acknowledged"] OBVIOUS
  <2>3. x \in JournalRecord /\ RecordFits(x)' BY <2>2, RephasedFits
  <2>4. AppendRecord(x, Over(r), Idle("ended")) BY <2>1, <2>2
  <2>5. task' = Over(r) => HandTypeOK' /\ HandFits' BY <2>1, OverFits
  <2>6. task' = Idle("ended") => HandTypeOK' /\ HandFits' BY IdleFits
  <2> QED BY <2>3, <2>4, <2>5, <2>6, AppendMoves
<1> QED BY <1>1, <1>2, <1>3, <1>4, <1>5, <1>6, <1>7 DEF Passes

\* Carrying out a command.
LEMMA ExecutingMoves == ASSUME JournalInv, Grows, JournalNext, Executing PROVE TaskMoves
<1>1. ASSUME NEW c \in Commands, ClaimAndLoad(c) PROVE TaskMoves
  <2>1. /\ rows[c].status = "pending" /\ rows[c].gen = Generation /\ rows' = Claimed(c)
        /\ task' = [pc |-> "intend", cmd |-> c, gen |-> Generation, exp |-> deadlines[Generation],
                    op |-> OpOf(rows[c].kind), todo |-> {}]
        /\ journal' = journal
    BY <1>1 DEF ClaimAndLoad, Off
  <2>2. JournalTypeOK /\ RowsFit BY DEF JournalInv
  <2>3. rows[c].kind # "none" BY <2>1, <2>2, ClaimKeeps
  <2>4. Generation \in DOMAIN deadlines BY <2>1, <2>2, <2>3 DEF RowsFit
  <2>5. Generation \in Nat /\ deadlines[Generation] \in Nat BY <2>2, <2>4 DEF JournalTypeOK, Generation
  <2>6. /\ rows'[c].kind # "none" /\ rows'[c].gen = Generation
        /\ deadlines'[Generation] = deadlines[Generation]
    BY <2>1, <2>3, <2>4 DEF Grows
  <2>7. OpOf(rows[c].kind) \in Ops BY DEF OpOf, Ops
  <2>8. /\ task'.pc = "intend" /\ task'.cmd = c /\ task'.gen = Generation
        /\ task'.exp = deadlines[Generation] /\ task'.op \in Ops /\ task'.todo = {}
    BY <2>1, <2>7
  <2>9. HandTypeOK' BY <2>1, <2>5, <2>7 DEF HandTypeOK, Tasks, InExecution
  <2>10. HandFits' BY <2>5, <2>6, <2>8 DEF HandFits, InExecution, Ops
  <2> QED BY <2>1, <2>9, <2>10, FileUntouched
<1>2. ASSUME NEW c \in Commands, Decline(c) PROVE TaskMoves
  <2>1. /\ rows[c].status = "pending" /\ journal' = journal
        /\ \/ task' = task
           \/ task' = [pc |-> "retry", cmd |-> c, gen |-> 0, exp |-> 0, op |-> "none", todo |-> {}]
    BY <1>2 DEF Decline, Off
  <2>2. CASE task' = task BY <2>1, <2>2, HandSame, FileUntouched
  <2>3. CASE task' = [pc |-> "retry", cmd |-> c, gen |-> 0, exp |-> 0, op |-> "none", todo |-> {}]
    <3>1. rows[c].kind # "none" BY <2>1, ClaimKeeps DEF JournalInv
    <3>2. rows'[c].kind # "none" BY <3>1 DEF Grows
    <3>3. task'.pc = "retry" /\ task'.cmd = c /\ task'.todo = {} BY <2>3
    <3>4. HandTypeOK' BY <2>3 DEF HandTypeOK, Tasks
    <3>5. HandFits' BY <3>2, <3>3 DEF HandFits, InExecution
    <3> QED BY <2>1, <3>4, <3>5, FileUntouched
  <2> QED BY <2>1, <2>2, <2>3
<1>3. CASE JournalIntent
  <2>1. task.pc = "intend" /\ AppendRecord(InHand("intent"), GoTo("call"), GoTo("retry"))
    BY <1>3 DEF JournalIntent
  <2>2. task.pc \in InExecution BY <2>1 DEF InExecution
  <2>3. PICK x : x = InHand("intent") OBVIOUS
  <2>4. x \in JournalRecord /\ RecordFits(x)' BY <2>2, <2>3, InHandFits
  <2>5. "call" \in InExecution BY DEF InExecution
  <2>6. task' = GoTo("call") => HandTypeOK' /\ HandFits' BY <2>1, <2>2, <2>5, GoToFits
  <2>7. task' = GoTo("retry") => HandTypeOK' /\ HandFits' BY <2>2, GoToFits
  <2>8. AppendRecord(x, GoTo("call"), GoTo("retry")) BY <2>1, <2>3
  <2> QED BY <2>4, <2>6, <2>7, <2>8, AppendMoves
<1>4. CASE JournalResult
  <2>1. /\ task.pc \in {"record", "stale"}
        /\ AppendRecord(InHand("remote_result"), GoTo(IF task.pc = "stale" THEN "retry" ELSE "commit"),
                        GoTo("retry"))
    BY <1>4 DEF JournalResult
  <2>2. task.pc \in InExecution BY <2>1 DEF InExecution
  <2>3. PICK x : x = InHand("remote_result") OBVIOUS
  <2>4. x \in JournalRecord /\ RecordFits(x)' BY <2>2, <2>3, InHandFits
  <2>5. PICK pc : pc = IF task.pc = "stale" THEN "retry" ELSE "commit" OBVIOUS
  <2>6. pc \in InExecution \cup {"retry"} /\ pc \notin {"intend", "call", "ack"}
    BY <2>5 DEF InExecution
  <2>7. task' = GoTo(pc) => HandTypeOK' /\ HandFits' BY <2>2, <2>6, GoToFits
  <2>8. task' = GoTo("retry") => HandTypeOK' /\ HandFits' BY <2>2, GoToFits
  <2>9. AppendRecord(x, GoTo(pc), GoTo("retry")) BY <2>1, <2>3, <2>5
  <2> QED BY <2>4, <2>7, <2>8, <2>9, AppendMoves
<1>5. CASE RemoteCall
  <2> DEFINE answer == Served(task.op, task.gen, task.exp)
  <2>1. /\ task.pc = "call" /\ vm' = answer.vm /\ journal' = journal
        /\ \/ task' = GoTo("retry")
           \/ /\ Accepted(answer.says)
              /\ task' = [task EXCEPT !.pc = IF answer.says = "stale" THEN "stale" ELSE "record",
                                      !.exp = IF vm'.up THEN vm'.exp ELSE task.exp]
    BY <1>5 DEF RemoteCall
  <2>2. task.pc \in InExecution BY <2>1 DEF InExecution
  <2>3. CASE task' = GoTo("retry") BY <2>1, <2>2, <2>3, GoToFits, FileUntouched
  <2>4. CASE /\ Accepted(answer.says)
             /\ task' = [task EXCEPT !.pc = IF answer.says = "stale" THEN "stale" ELSE "record",
                                     !.exp = IF vm'.up THEN vm'.exp ELSE task.exp]
    <3>1. /\ task.gen \in DOMAIN deadlines /\ task.gen \in Nat /\ task.exp \in Nat
          /\ task.op \in Ops /\ deadlines[task.gen] <= task.exp
          /\ task.op # "stop" => task.exp = deadlines[task.gen]
      BY <2>1, <2>2, InHandIs
    <3>2. JournalTypeOK /\ VmFits /\ DeadlinesGrow BY DEF JournalInv
    <3>3. /\ Sound(answer.vm)
          /\ answer.says = "stale" => answer.vm = vm
          /\ task.op # "inspect" /\ answer.says = "present" => answer.vm.gen = task.gen
          /\ task.op = "inspect" => answer.vm = vm
          /\ task.op \in {"stop", "update"} /\ answer.says = "stale" /\ vm.up => task.gen < vm.gen
          /\ answer.says = "absent" => ~answer.vm.up
      BY <3>1, <3>2, ServedIsSound
    <3>4. PICK e : e = IF vm'.up THEN vm'.exp ELSE task.exp OBVIOUS
    <3>5. PICK pc : pc = IF answer.says = "stale" THEN "stale" ELSE "record" OBVIOUS
    <3>6. vm'.up => task.gen <= vm'.gen
      <4> HIDE DEF answer
      <4>1. CASE answer.says = "present" BY <2>1, <2>4, <3>1, <3>3, <4>1 DEF Accepted, Ops
      <4>2. CASE answer.says = "absent" BY <2>1, <3>3, <4>2
      <4>3. CASE answer.says = "stale"
        <5>1. task.op \in {"stop", "update"} BY <2>4, <3>1, <4>3 DEF Accepted, Ops
        <5> QED BY <2>1, <3>1, <3>2, <3>3, <4>3, <5>1 DEF JournalTypeOK
      <4>4. answer.says \in {"present", "absent", "stale"} BY <2>4, <3>1 DEF Accepted, Ops
      <4> QED BY <4>1, <4>2, <4>3, <4>4
    <3>7. vm'.up => vm'.gen \in DOMAIN deadlines /\ vm'.exp = deadlines[vm'.gen]
      BY <2>1, <3>3 DEF Sound
    <3>8. vm'.up => deadlines[task.gen] <= vm'.exp /\ vm'.exp \in Nat
      BY <3>1, <3>2, <3>6, <3>7 DEF DeadlinesGrow, JournalTypeOK
    <3>9. deadlines[task.gen] <= e /\ e \in Nat BY <3>1, <3>4, <3>8
    <3>10. task' = [task EXCEPT !.pc = pc, !.op = task.op, !.exp = e]
      <4>1. task \in Tasks BY <3>2, TaskTypes DEF HandTypeOK
      <4> QED BY <2>4, <3>4, <3>5, <4>1 DEF Tasks
    <3>11. pc \in InExecution /\ pc \notin {"intend", "call", "ack"} BY <3>5 DEF InExecution
    <3>12. HandTypeOK' /\ HandFits' BY ONLY JournalInv, Grows, <2>2, <3>1, <3>9, <3>10, <3>11, HandedOnFits
    <3> QED BY <2>1, <3>12, FileUntouched
  <2> QED BY <2>1, <2>3, <2>4
<1>6. CASE FinishCommand
  <2>1. task.pc = "commit" /\ task' = GoTo("ack") /\ journal' = journal BY <1>6 DEF FinishCommand
  <2>2. task.pc \in InExecution /\ "ack" \in InExecution BY <2>1 DEF InExecution
  <2>3. rows'[task.cmd].status = "completed"
    <3>1. CASE rows' = Closed("completed") BY <2>2, <3>1, ClosedIs
    <3>2. CASE \E c \in Commands : WithStop(Closed("completed"), c) BY <2>2, <3>2, ClosedWithStopIs
    <3> QED BY <1>6, <3>1, <3>2 DEF FinishCommand
  <2>4. rows'[task.cmd].status \in Final BY <2>3 DEF Final
  <2> QED BY <2>1, <2>2, <2>4, GoToFits, FileUntouched
<1>7. CASE ExtensionTooLate
  <2>1. task.pc = "commit" /\ task' = GoTo("retry") /\ journal' = journal BY <1>7 DEF ExtensionTooLate
  <2>2. task.pc \in InExecution BY <2>1 DEF InExecution
  <2> QED BY <2>1, <2>2, GoToFits, FileUntouched
<1>8. CASE MovedOn
  <2>1. /\ task.pc = "commit" /\ journal' = journal
        /\ \/ task' = [task EXCEPT !.pc = "intend", !.op = "stop"]
           \/ task' = GoTo("ack") /\ rows' = Closed("cancelled")
    BY <1>8 DEF MovedOn
  <2>2. task.pc \in InExecution /\ {"ack", "intend"} \subseteq InExecution BY <2>1 DEF InExecution
  <2>3. CASE task' = [task EXCEPT !.pc = "intend", !.op = "stop"]
    <3>1. task \in Tasks BY TaskTypes DEF JournalInv, HandTypeOK
    <3>2. PICK pc, op : pc = "intend" /\ op = "stop" OBVIOUS
    <3>3. task' = [task EXCEPT !.pc = pc, !.op = op, !.exp = task.exp]
      BY <2>3, <3>1, <3>2 DEF Tasks
    <3>4. /\ op \in Ops /\ op = "stop" /\ task.exp \in Nat /\ deadlines[task.gen] <= task.exp
          /\ pc \in InExecution /\ pc # "ack" /\ task.pc \in InExecution
      BY <2>2, <3>2, InHandIs DEF Ops
    <3>5. HandTypeOK' /\ HandFits' BY ONLY JournalInv, Grows, <3>3, <3>4, HandedOnFits
    <3> QED BY <2>1, <3>5, FileUntouched
  <2>4. CASE task' = GoTo("ack") /\ rows' = Closed("cancelled")
    <3>1. rows'[task.cmd].status = "cancelled" BY <2>2, <2>4, ClosedIs
    <3>2. rows'[task.cmd].status \in Final BY <3>1 DEF Final
    <3> QED BY <2>1, <2>2, <2>4, <3>2, GoToFits, FileUntouched
  <2> QED BY <2>1, <2>3, <2>4
<1>9. CASE JournalAcknowledged
  <2>1. /\ task.pc = "ack" /\ rows' = rows
        /\ AppendRecord(InHand("acknowledged"),
                        IF Undoing THEN [task EXCEPT !.op = "ensure"] ELSE Idle("ready"),
                        GoTo("retry"))
    BY <1>9 DEF JournalAcknowledged
  <2>2. task.pc \in InExecution /\ task.pc = "ack" BY <2>1 DEF InExecution
  <2>3. PICK x : x = InHand("acknowledged") OBVIOUS
  <2>4. x \in JournalRecord /\ RecordFits(x)' BY <2>2, <2>3, InHandFits
  <2>5. rows'[task.cmd].status \in Final BY <2>1 DEF JournalInv, HandFits
  <2>6. task' = [task EXCEPT !.op = "ensure"] => HandTypeOK' /\ HandFits'
    <3>1. task \in Tasks BY TaskTypes DEF JournalInv, HandTypeOK
    <3>2. task' = [task EXCEPT !.op = "ensure"] =>
             task' = [task EXCEPT !.pc = "ack", !.op = "ensure", !.exp = task.exp]
      BY <2>1, <3>1 DEF Tasks
    <3>3. "ensure" \in Ops /\ "ack" \in InExecution /\ task.exp \in Nat
          /\ deadlines[task.gen] <= task.exp
      BY <2>2, InHandIs DEF Ops
    <3> QED BY <2>2, <2>5, <3>2, <3>3, HandedOnFits
  <2>7. task' = Idle("ready") => HandTypeOK' /\ HandFits' BY IdleFits
  <2>8. task' = GoTo("retry") => HandTypeOK' /\ HandFits' BY <2>2, GoToFits
  <2>9. PICK n : n = IF Undoing THEN [task EXCEPT !.op = "ensure"] ELSE Idle("ready") OBVIOUS
  <2>10. task' = n => HandTypeOK' /\ HandFits' BY <2>6, <2>7, <2>9
  <2>11. AppendRecord(x, n, GoTo("retry")) BY <2>1, <2>3, <2>9
  <2> QED BY <2>4, <2>8, <2>10, <2>11, AppendMoves
<1>10. CASE RetryOrFail
  <2>1. task' = Idle("ready") /\ journal' = journal BY <1>10 DEF RetryOrFail
  <2> QED BY <2>1, IdleFits, FileUntouched
<1> QED BY <1>1, <1>2, <1>3, <1>4, <1>5, <1>6, <1>7, <1>8, <1>9, <1>10 DEF Executing

\* Everything else.
LEMMA OthersMove ==
  ASSUME JournalInv, Grows, JournalNext, ~Passes, ~Executing PROVE TaskMoves
<1>1. CASE Asking \/ JournalTick \/ VmExpires
  <2>1. task' = task /\ journal' = journal
    BY <1>1 DEF Asking, AskStart, AskExtend, AskStop, AskInspect, JournalTick, VmExpires
  <2> QED BY <2>1, HandSame, FileUntouched
<1>2. CASE RemoteCallFails \/ CommitUnconfirmed
  <2>1. task.pc \in {"call", "commit"} /\ task' = GoTo("retry") /\ journal' = journal
    BY <1>2 DEF RemoteCallFails, CommitUnconfirmed
  <2>2. task.pc \in InExecution BY <2>1 DEF InExecution
  <2> QED BY <2>1, <2>2, GoToFits, FileUntouched
<1>3. CASE SessionEnds
  <2>1. task' = Idle("ended") /\ journal' = journal BY <1>3 DEF SessionEnds
  <2> QED BY <2>1, IdleFits, FileUntouched
<1>4. CASE Crash
  <2>1. task' = Off /\ journal' = journal BY <1>4 DEF Crash
  <2> QED BY <2>1, OffFits, FileUntouched
<1> QED BY <1>1, <1>2, <1>3, <1>4 DEF JournalNext

\* Clock and faults.
LEMMA CountersStep ==
  ASSUME JournalInv, JournalNext PROVE clock' \in Nat /\ mishaps' \in Nat
<1>1. clock \in Nat /\ mishaps \in Nat BY DEF JournalInv, JournalTypeOK
<1>2. clock' \in {clock, clock + 1}
  BY DEF JournalNext, Passes, Executing, Asking, Boot, CleanUp, Connect, PassEnds, ReconcileAgain,
         SkipRecord, StopOverdue, StopUnanswered, KeepRecord, AcknowledgeRecord, ClaimAndLoad,
         Decline, JournalIntent, RemoteCall, JournalResult, FinishCommand, ExtensionTooLate,
         MovedOn, JournalAcknowledged, RetryOrFail, AskStart, AskExtend, AskStop, AskInspect,
         RemoteCallFails, CommitUnconfirmed, SessionEnds, Crash, JournalTick, VmExpires
<1>3. mishaps' \in {mishaps, mishaps + 1}
  BY DEF JournalNext, Passes, Executing, Asking, Boot, CleanUp, Connect, PassEnds, ReconcileAgain,
         SkipRecord, StopOverdue, StopUnanswered, KeepRecord, AcknowledgeRecord, ClaimAndLoad,
         Decline, JournalIntent, RemoteCall, JournalResult, FinishCommand, ExtensionTooLate,
         MovedOn, JournalAcknowledged, RetryOrFail, AskStart, AskExtend, AskStop, AskInspect,
         RemoteCallFails, CommitUnconfirmed, SessionEnds, Crash, JournalTick, VmExpires,
         AppendRecord, Mishap
<1> QED BY <1>1, <1>2, <1>3

LEMMA JournalInvInit == ASSUME JournalInit PROVE JournalInv
<1> USE DEF JournalInit
<1>1. /\ deadlines = <<>> /\ DOMAIN deadlines = {} /\ deadlines \in Seq(Nat)
      /\ journal.lines = <<>> /\ DOMAIN journal.lines = {} /\ journal.lines \in Seq(Line)
      /\ journal.ended = TRUE
  OBVIOUS
<1>2. NoneYet \in RowSet BY DEF NoneYet, RowSet, Kinds
<1>3. rows \in [Commands -> RowSet] /\ \A c \in Commands : rows[c].kind = "none" /\ rows[c].status = "none"
  BY <1>2 DEF NoneYet
<1>4. task.pc = "off" /\ task.todo = {} BY DEF Off
<1>5. ~vm.up /\ ~vm.gone BY DEF NoVm
<1>6. JournalTypeOK BY <1>1, <1>3 DEF JournalTypeOK, Off, NoVm
<1>7. DeadlinesGrow /\ RowsFit BY <1>1, <1>3 DEF DeadlinesGrow, RowsFit
<1>8. VmFits /\ FileFits BY <1>1, <1>5 DEF VmFits, FileFits
<1>9. HandFits BY <1>4 DEF HandFits, InExecution
<1> QED BY <1>6, <1>7, <1>8, <1>9 DEF JournalInv

LEMMA JournalInvStep == ASSUME JournalInv, [JournalNext]_journalVars PROVE JournalInv'
<1>1. CASE JournalNext
  <2>1. Grows /\ RowsMove /\ DeadlinesMove /\ VmMoves BY <1>1, JournalGrows
  <2>2. TaskMoves BY <1>1, <2>1, PassesMove, ExecutingMoves, OthersMove
  <2>3. clock' \in Nat /\ mishaps' \in Nat BY <1>1, CountersStep
  <2>4. JournalTypeOK'
    BY <2>1, <2>2, <2>3 DEF JournalTypeOK, RowsMove, DeadlinesMove, VmMoves, Vms, TaskMoves,
                            FileTypeOK, HandTypeOK, Tasks, Ops, InExecution
  <2> QED BY <2>1, <2>2, <2>4 DEF JournalInv, RowsMove, DeadlinesMove, VmMoves, TaskMoves
<1>2. CASE UNCHANGED journalVars
  BY <1>2 DEF journalVars, JournalInv, JournalTypeOK, DeadlinesGrow, RowsFit, VmFits, FileFits,
              HandFits, RecordFits, Cleaned
<1> QED BY <1>1, <1>2

LEMMA JournalInvariant == JournalSpec => []JournalInv
<1>1. JournalInit => JournalInv BY JournalInvInit
<1>2. JournalInv /\ [JournalNext]_journalVars => JournalInv' BY JournalInvStep
<1> QED BY <1>1, <1>2, PTL DEF JournalSpec

\* The properties of the run.
THEOREM JournalTypes == JournalSpec => []JournalTypeOK
<1>1. JournalInv => JournalTypeOK BY DEF JournalInv
<1> QED BY <1>1, JournalInvariant, PTL

THEOREM CleanupIsFinal == JournalSpec => []CleanedStaysDown
<1>1. ASSUME JournalInv PROVE CleanedStaysDown
  <2>1. \A r \in Records : r.phase = "degraded_cleanup" => Cleaned(r.gen)
    BY <1>1, RecordsFit DEF RecordFits
  <2>2. vm.gone => ~vm.up BY <1>1 DEF JournalInv, VmFits
  <2> QED BY <2>1, <2>2 DEF CleanedStaysDown, Cleaned
<1>2. JournalInv => CleanedStaysDown BY <1>1
<1> QED BY <1>2, JournalInvariant, PTL

THEOREM CleanupIsNotEarly == JournalSpec => NoEarlyStop
<1>1. ASSUME JournalInv, [JournalNext]_journalVars, task.pc = "away", vm.up, ~vm'.up
      PROVE  vm.exp <= clock
  <2>1. CASE \E r \in task.todo : StopOverdue(r) \/ StopUnanswered(r)
    <3>1. PICK r \in task.todo : StopOverdue(r) \/ StopUnanswered(r) BY <2>1
    <3>2. r.exp <= clock /\ vm' \in {vm, Served("stop", r.gen, r.exp).vm}
      BY <3>1 DEF StopOverdue, StopUnanswered, IsDue
    <3>3. RecordFits(r) BY <1>1 DEF JournalInv, HandFits
    <3>4. r.gen \in DOMAIN deadlines /\ r.exp \in Nat /\ deadlines[r.gen] <= r.exp
      BY <3>3 DEF RecordFits, JournalRecord
    <3>5. vm' = Served("stop", r.gen, r.exp).vm BY <1>1, <3>2
    <3>6. vm'.gone \/ (vm.up /\ r.gen < vm.gen)
      BY <1>1, <3>4, <3>5, ServedIsSound DEF JournalInv, Ops
    <3>7. vm' \in {vm, Gone} BY <1>1, <3>4, <3>5, ServedIsSound DEF JournalInv, Ops
    <3>8. vm'.gone BY <1>1, <3>7 DEF Gone, NoVm
    <3>9. vm.gen <= r.gen BY <1>1, <3>4, <3>5, <3>8, ServedIsSound DEF JournalInv, Ops
    <3>10. vm.gen \in DOMAIN deadlines /\ vm.exp = deadlines[vm.gen] BY <1>1 DEF JournalInv, VmFits
    <3>11. deadlines[vm.gen] <= deadlines[r.gen] BY <1>1, <3>4, <3>9, <3>10 DEF JournalInv, DeadlinesGrow
    <3>12. /\ deadlines[vm.gen] \in Nat /\ deadlines[r.gen] \in Nat /\ clock \in Nat
      BY <1>1, <3>4, <3>10 DEF JournalInv, JournalTypeOK
    <3> QED BY <3>2, <3>4, <3>10, <3>11, <3>12
  <2>2. CASE VmExpires BY <2>2 DEF VmExpires
  <2>3. CASE UNCHANGED vm BY <1>1, <2>3
  <2>4. vm' = vm \/ VmExpires \/ \E r \in task.todo : StopOverdue(r) \/ StopUnanswered(r)
    BY <1>1 DEF journalVars, JournalNext, Passes, Executing, Asking, Boot, CleanUp, Connect, PassEnds,
         ReconcileAgain, SkipRecord, KeepRecord, AcknowledgeRecord, ClaimAndLoad,
         Decline, JournalIntent, RemoteCall, JournalResult, FinishCommand, ExtensionTooLate,
         MovedOn, JournalAcknowledged, RetryOrFail, AskStart, AskExtend, AskStop, AskInspect,
         RemoteCallFails, CommitUnconfirmed, SessionEnds, Crash, JournalTick
  <2> QED BY <2>1, <2>2, <2>3, <2>4
<1>2. JournalInv /\ [JournalNext]_journalVars
        => [task.pc = "away" /\ vm.up /\ ~vm'.up => vm.exp <= clock]_journalVars
  BY <1>1
<1> QED BY <1>2, JournalInvariant, PTL DEF JournalSpec, NoEarlyStop

\* An append of another phase forgets nothing; an acknowledgement at most its own
\* command.
LEMMA ForgottenByAppend ==
  ASSUME JournalInv, NEW x \in JournalRecord, NEW n, NEW f, AppendRecord(x, n, f),
         NEW r \in Records, \A q \in Records' : q.cmd # r.cmd
  PROVE  Unfinished(r) \/ (x.cmd = r.cmd /\ x.phase = "acknowledged")
<1>1. ~Known(journal'.lines, r) BY DEF Known, Records
<1> QED BY <1>1, AppendKeeps DEF JournalInv

LEMMA ForgettingStep ==
  ASSUME JournalInv, JournalNext, NEW r \in Records, \A q \in Records' : q.cmd # r.cmd
  PROVE  rows[r.cmd].status \in Final \/ Generation # r.gen \/ Unfinished(r)
<1>1. RecordFits(r) BY RecordsFit
<1>2. CASE \E q \in task.todo : StopOverdue(q) \/ AcknowledgeRecord(q)
  <2>1. PICK q \in task.todo : StopOverdue(q) \/ AcknowledgeRecord(q) BY <1>2
  <2>2. RecordFits(q) /\ q \in JournalRecord BY DEF JournalInv, HandFits, RecordFits
  <2>3. CASE StopOverdue(q)
    <3>1. AppendRecord([q EXCEPT !.phase = "degraded_cleanup"], Over(q), Idle("connect"))
      BY <2>3 DEF StopOverdue
    <3>2. PICK x : x = [q EXCEPT !.phase = "degraded_cleanup"] OBVIOUS
    <3>3. x \in JournalRecord /\ x.phase # "acknowledged" BY <2>2, <3>2 DEF JournalRecord
    <3>4. AppendRecord(x, Over(q), Idle("connect")) BY <3>1, <3>2
    <3> QED BY <3>3, <3>4, ForgottenByAppend
  <2>4. CASE AcknowledgeRecord(q)
    <3>1. /\ AppendRecord([q EXCEPT !.phase = "acknowledged"], Over(q), Idle("ended"))
          /\ DatabaseFinished(q)
      BY <2>4 DEF AcknowledgeRecord
    <3>2. PICK x : x = [q EXCEPT !.phase = "acknowledged"] OBVIOUS
    <3>3. x \in JournalRecord /\ x.cmd = q.cmd BY <2>2, <3>2 DEF JournalRecord
    <3>4. AppendRecord(x, Over(q), Idle("ended")) BY <3>1, <3>2
    <3>5. Unfinished(r) \/ q.cmd = r.cmd BY <3>3, <3>4, ForgottenByAppend
    <3>6. q.cmd = r.cmd => q.gen = r.gen BY <1>1, <2>2 DEF RecordFits
    <3> QED BY <1>1, <2>2, <3>1, <3>5, <3>6 DEF DatabaseFinished, RecordFits
  <2> QED BY <2>1, <2>3, <2>4
<1>3. CASE JournalIntent \/ JournalResult \/ JournalAcknowledged
  <2>1. task.pc \in InExecution BY <1>3 DEF JournalIntent, JournalResult, JournalAcknowledged, InExecution
  <2>2. PICK phase \in {"intent", "remote_result", "acknowledged"} :
          /\ \E n, f : AppendRecord(InHand(phase), n, f)
          /\ phase = "acknowledged" => task.pc = "ack"
    BY <1>3 DEF JournalIntent, JournalResult, JournalAcknowledged
  <2>3. PICK n, f : AppendRecord(InHand(phase), n, f) BY <2>2
  <2>4. PICK x : x = InHand(phase) OBVIOUS
  <2>5. task.cmd \in Commands /\ task.gen \in Nat /\ task.exp \in Nat BY <2>1, InHandIs
  <2>6. x \in JournalRecord /\ x.cmd = task.cmd /\ x.phase = phase
    BY <2>4, <2>5 DEF InHand, JournalRecord
  <2>7. Unfinished(r) \/ (task.cmd = r.cmd /\ phase = "acknowledged")
    BY <2>3, <2>4, <2>6, ForgottenByAppend
  <2>8. task.pc = "ack" => rows[task.cmd].status \in Final BY DEF JournalInv, HandFits
  <2> QED BY <2>2, <2>7, <2>8
<1>4. CASE journal' = journal BY <1>4 DEF Records
<1>5. \/ journal' = journal \/ JournalIntent \/ JournalResult \/ JournalAcknowledged
      \/ \E q \in task.todo : StopOverdue(q) \/ AcknowledgeRecord(q)
  BY DEF JournalNext, Passes, Executing, Asking, Boot, CleanUp, Connect, PassEnds,
         ReconcileAgain, SkipRecord, StopUnanswered, KeepRecord, ClaimAndLoad,
         Decline, RemoteCall, FinishCommand, ExtensionTooLate,
         MovedOn, RetryOrFail, AskStart, AskExtend, AskStop, AskInspect,
         RemoteCallFails, CommitUnconfirmed, SessionEnds, Crash, JournalTick, VmExpires
<1> QED BY <1>2, <1>3, <1>4, <1>5

THEOREM ForgettingIsSafe == JournalSpec => ForgottenOnlyWhenSettled
<1>1. ASSUME JournalInv, [JournalNext]_journalVars, NEW r \in Records, \A q \in Records' : q.cmd # r.cmd
      PROVE  \/ rows[r.cmd].status \in Final \/ Generation # r.gen
             \/ ~journal.ended /\ r = journal.lines[Len(journal.lines)]
  <2>1. CASE JournalNext BY <1>1, <2>1, ForgettingStep DEF Unfinished
  <2>2. CASE UNCHANGED journalVars BY <1>1, <2>2 DEF journalVars, Records
  <2> QED BY <1>1, <2>1, <2>2
<1>2. JournalInv /\ [JournalNext]_journalVars =>
        [\A r \in Records : (\A q \in Records' : q.cmd # r.cmd) =>
            \/ rows[r.cmd].status \in Final \/ Generation # r.gen
            \/ ~journal.ended /\ r = journal.lines[Len(journal.lines)]]_journalVars
  BY <1>1
<1> QED BY <1>2, JournalInvariant, PTL DEF JournalSpec, ForgottenOnlyWhenSettled
=============================================================================
