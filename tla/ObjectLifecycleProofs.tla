------------------------ MODULE ObjectLifecycleProofs ------------------------
(***************************************************************************)
(* Stored objects, for any number of objects, requests, workers and        *)
(* faults: what is offered has its bytes, what is deleted has none, and    *)
(* the icon is the newest choice.                                          *)
(*                                                                         *)
(* The argument.  A row changes only while nobody holds it, or at the hand *)
(* of its holder, and the bytes under the final key only at the hand of    *)
(* its holder.  So what a request or a worker read under the lock is       *)
(* still true when it writes.  Bytes under the staging key have no lock:   *)
(* there it is time that protects them, once no upload can be under way.   *)
(***************************************************************************)
EXTENDS ObjectLifecycle, TLAPS

\* a request, and a worker, inside a transaction that holds the row of its object
Promotes(r) == req[r].pc \in {"promoting", "promoted"}
Removes(w)  == wk[w].pc \in {"staging", "cleared", "erasing", "erased"}

\* one transaction at most holds a row
OneHolder ==
    /\ \A r, s \in Requests : Promotes(r) /\ Promotes(s) /\ req[r].obj = req[s].obj => r = s
    /\ \A v, w \in Workers : Removes(v) /\ Removes(w) /\ wk[v].obj = wk[w].obj => v = w
    /\ \A r \in Requests, w \in Workers : Promotes(r) /\ Removes(w) => req[r].obj # wk[w].obj

\* the cleanup of the staging key of o
Clearing(o) == ops[o]["delete_upload"]

\* it was done once: no upload can be under way and nothing is staged
Cleared(o) == Clearing(o).done # {}

\* a deleting object cannot lose its pending cleanup
Pursued(o) ==
    \/ Cleared(o)
    \/ Open(Clearing(o)) /\ Clearing(o).rev = obj[o].rev
    \/ obj[o].rev \in Clearing(o).failed

\* what a completion found and did under the lock is still so
RequestOK(r) ==
    /\ req[r].pc # "idle" => req[r].obj \in Objects /\ obj[req[r].obj].status # "none"
    /\ Promotes(r) => obj[req[r].obj].status = "pending"
    /\ req[r].pc = "promoted" => req[r].obj \in final

\* and so it is for a worker
JobOK(w) ==
    /\ wk[w].pc # "idle" => /\ wk[w].obj \in Objects /\ wk[w].kind \in Kinds
                            /\ obj[wk[w].obj].status # "none"
    /\ wk[w].pc \in {"staging", "cleared"} => wk[w].kind = "delete_upload"
    /\ wk[w].pc \in {"erasing", "erased"} =>
          /\ wk[w].kind = "delete"
          /\ obj[wk[w].obj].status \in {"failed", "deleting"}
          /\ obj[wk[w].obj].status = "deleting" => Cleared(wk[w].obj)
    /\ wk[w].pc = "erased" => wk[w].obj \notin final

Unborn(o) ==
    obj[o].status = "none" =>
        /\ o \notin staged \cup final \cup puts
        /\ ~Cleared(o) /\ \A k \in Kinds : ops[o][k].status = "none" /\ ~ops[o][k].wait

\* uploads end in time, and nothing is staged when they have and the key was cleared
StagingOK(o) ==
    /\ o \in puts => now < obj[o].upExp + MaxUploadDuration
    /\ Cleared(o) => obj[o].upExp + MaxUploadDuration <= now /\ o \notin staged

\* every draft of an icon was prepared after the last choice
DraftOK(o) ==
    obj[o].status = "pending" /\ IsIcon(o) => obj[o].seen = choice[obj[o].target]

ObjectOK(o) ==
    /\ Unborn(o) /\ StagingOK(o) /\ DraftOK(o)
    /\ obj[o].status = "deleting" => Pursued(o)
    /\ obj[o].status = "deleted" => Cleared(o) /\ o \notin final
    /\ obj[o].status = "ready" => o \in final

\* the inductive invariant
OInv ==
    /\ TypeOK /\ OneHolder /\ IconIsReady
    /\ \A r \in Requests : RequestOK(r)
    /\ \A w \in Workers : JobOK(w)
    /\ \A o \in Objects : ObjectOK(o)

----------------------------------------------------------------------------
(* What a step may do.                                                      *)

\* nobody else holds the row: it is free, or its holder ends its transaction
Changeable(o) ==
    \/ RowFree(o)
    \/ \E r \in Requests : Promotes(r) /\ req[r].obj = o /\ req'[r].pc = "idle"
    \/ \E w \in Workers : Removes(w) /\ wk[w].obj = o /\ wk'[w].pc = "idle"

\* A row stays, is prepared, loses its target, is completed or failed, given up, or
\* deleted.
RowMoves(o) ==
    \/ obj'[o] = obj[o]
    \/ /\ RowFree(o) /\ obj'[o].target = None
       /\ obj'[o].status = obj[o].status /\ obj'[o].status # "pending"
       /\ obj'[o].rev = obj[o].rev /\ obj'[o].upExp = obj[o].upExp
    \/ /\ obj[o].status = "none" /\ obj'[o].status = "pending"
       /\ obj'[o].target \in IconTargets => obj'[o].seen = choice'[obj'[o].target]
    \/ /\ Changeable(o) /\ obj'[o].upExp = obj[o].upExp
       /\ \/ /\ obj[o].status = "pending" /\ obj'[o].status \in {"ready", "failed"}
             /\ obj'[o].status = "ready" => o \in final
          \/ /\ Doomed(o) /\ obj'[o].status = "deleting" /\ Pursued(o)'
          \/ /\ obj[o].status = "deleting" /\ obj'[o].status = "deleted"
             /\ Cleared(o) /\ o \notin final

\* An icon stays, with its object, or is a ready object of its category.
IconMoves(t) ==
    \/ icon'[t] = None
    \/ icon'[t] = icon[t] /\ obj'[icon[t]] = obj[icon[t]]
    \/ obj'[icon'[t]].status = "ready" /\ obj'[icon'[t]].target = t

\* A choice leaves no draft behind.
ChoiceMoves(t) ==
    \/ choice'[t] = choice[t]
    \/ \A o \in Objects : obj'[o].target = t => obj'[o].status # "pending"

RowStep ==
    /\ \A o \in Objects : RowMoves(o)
    /\ \A t \in IconTargets : IconMoves(t) /\ ChoiceMoves(t)

\* The cleanup of a staging key stays recorded, and is done only when no upload can
\* be under way and nothing is staged.
QueueMoves(o) ==
    \/ ops'[o] = ops[o]
    \/ /\ obj'[o].status # "none"
       /\ Cleared(o) => Cleared(o)'
       /\ Cleared(o)' => \/ Cleared(o)
                         \/ /\ obj[o].status # "none" /\ o \notin staged
                            /\ obj[o].upExp + MaxUploadDuration <= now
       /\ /\ obj[o].status = "deleting" /\ obj'[o].status = "deleting"
          /\ obj'[o].rev = obj[o].rev /\ Pursued(o)
          => Pursued(o)'

ByteMoves(o) ==
    /\ o \in final' => \/ o \in final
                       \/ \E r \in Requests : req[r].pc = "promoting" /\ req[r].obj = o
    /\ o \in final => \/ o \in final'
                      \/ \E w \in Workers : wk[w].pc = "erasing" /\ wk[w].obj = o
    /\ o \in staged' => o \in staged \cup puts
    /\ o \in puts' => o \in puts \/ (obj[o].status # "none" /\ now < obj[o].upExp)

\* Time passes only as long as no upload outlasts its limit.
TimeMoves ==
    \/ now' = now
    \/ /\ now' = now + 1 /\ \A o \in puts : now' < obj[o].upExp + MaxUploadDuration
       /\ puts' = puts

RequestMoves(r) ==
    \/ req'[r] = req[r]
    \/ req'[r].pc = "idle"
    \/ /\ req'[r].pc \in {"loaded", "failing"} /\ req'[r].obj \in Objects
       /\ obj[req'[r].obj].status # "none"
    \/ /\ req[r].pc = "loaded" /\ req'[r].pc = "promoting" /\ req'[r].obj = req[r].obj
       /\ RowFree(req[r].obj) /\ obj[req[r].obj].status = "pending" /\ obj' = obj
    \/ /\ req[r].pc = "promoting" /\ req'[r].pc = "promoted" /\ req'[r].obj = req[r].obj
       /\ req[r].obj \in final'

JobMoves(w) ==
    \/ wk'[w] = wk[w]
    \/ wk'[w].pc = "idle"
    \/ /\ wk'[w].pc \in {"claimed", "error"} /\ wk'[w].obj \in Objects /\ wk'[w].kind \in Kinds
       /\ obj[wk'[w].obj].status # "none"
    \/ /\ wk'[w].obj = wk[w].obj /\ wk'[w].kind = wk[w].kind
       /\ \/ /\ wk[w].pc = "claimed" /\ RowFree(wk[w].obj) /\ obj' = obj
             /\ \/ wk'[w].pc = "staging" /\ wk[w].kind = "delete_upload"
                \/ /\ wk'[w].pc = "erasing" /\ wk[w].kind = "delete"
                   /\ obj[wk[w].obj].status \in {"failed", "deleting"}
                   /\ obj[wk[w].obj].status = "deleting" => Cleared(wk[w].obj)
          \/ wk[w].pc = "staging" /\ wk'[w].pc = "cleared"
          \/ wk[w].pc = "erasing" /\ wk'[w].pc = "erased" /\ wk[w].obj \notin final'

HandStep ==
    /\ \A r \in Requests : RequestMoves(r)
    /\ \A w \in Workers : JobMoves(w)
    /\ \A r, s \in Requests : req'[r] # req[r] /\ req'[s] # req[s] => r = s
    /\ \A v, w \in Workers : wk'[v] # wk[v] /\ wk'[w] # wk[w] => v = w
    /\ req' = req \/ wk' = wk

Step ==
    /\ RowStep /\ TimeMoves /\ HandStep
    /\ \A o \in Objects : QueueMoves(o) /\ ByteMoves(o)

----------------------------------------------------------------------------
(* Such a step keeps the invariant.                                         *)

\* The row of a transaction that goes on does not change.
LEMMA HeldRowsStay ==
  ASSUME OInv, Step
  PROVE  /\ \A r \in Requests : Promotes(r) /\ Promotes(r)' =>
               req'[r].obj = req[r].obj /\ obj'[req[r].obj] = obj[req[r].obj]
         /\ \A w \in Workers : Removes(w) /\ Removes(w)' =>
               wk'[w].obj = wk[w].obj /\ obj'[wk[w].obj] = obj[wk[w].obj]
<1>1. ASSUME NEW r \in Requests, Promotes(r), Promotes(r)'
      PROVE  req'[r].obj = req[r].obj /\ obj'[req[r].obj] = obj[req[r].obj]
  <2> DEFINE o == req[r].obj
  <2>1. req'[r].obj = o BY <1>1 DEF Step, HandStep, RequestMoves, Promotes
  <2>2. o \in Objects /\ obj[o].status = "pending" BY <1>1 DEF OInv, RequestOK, Promotes
  <2>3. ~Changeable(o)
    <3>1. ~RowFree(o) BY <1>1 DEF RowFree, Promotes
    <3>2. \A s \in Requests : Promotes(s) /\ req[s].obj = o => s = r
      BY <1>1 DEF OInv, OneHolder
    <3>3. \A w \in Workers : Removes(w) => wk[w].obj # o BY <1>1 DEF OInv, OneHolder
    <3>4. req'[r].pc # "idle" BY <1>1 DEF Promotes
    <3> QED BY <3>1, <3>2, <3>3, <3>4 DEF Changeable
  <2>4. obj'[o] = obj[o] BY <2>2, <2>3 DEF Step, RowStep, RowMoves, Changeable
  <2> QED BY <2>1, <2>4
<1>2. ASSUME NEW w \in Workers, Removes(w), Removes(w)'
      PROVE  wk'[w].obj = wk[w].obj /\ obj'[wk[w].obj] = obj[wk[w].obj]
  <2> DEFINE o == wk[w].obj
  <2>1. wk'[w].obj = o BY <1>2 DEF Step, HandStep, JobMoves, Removes
  <2>2. o \in Objects /\ obj[o].status # "none" BY <1>2 DEF OInv, JobOK, Removes
  <2>3. ~Changeable(o)
    <3>1. ~RowFree(o) BY <1>2 DEF RowFree, Removes
    <3>2. \A v \in Workers : Removes(v) /\ wk[v].obj = o => v = w
      BY <1>2 DEF OInv, OneHolder
    <3>3. \A r \in Requests : Promotes(r) => req[r].obj # o BY <1>2 DEF OInv, OneHolder
    <3>4. wk'[w].pc # "idle" BY <1>2 DEF Removes
    <3> QED BY <3>1, <3>2, <3>3, <3>4 DEF Changeable
  <2>4. obj'[o] = obj[o] BY <2>2, <2>3 DEF Step, RowStep, RowMoves, Changeable
  <2> QED BY <2>1, <2>4
<1> QED BY <1>1, <1>2

\* Whoever takes a row finds it free, and nobody else moves at the same time.
LEMMA OneHolderStays == OInv /\ Step => OneHolder'
<1> SUFFICES ASSUME OInv, Step PROVE OneHolder' OBVIOUS
<1>1. ASSUME NEW r \in Requests, Promotes(r)'
      PROVE  /\ req'[r].obj = req[r].obj
             /\ Promotes(r) \/ (req'[r] # req[r] /\ RowFree(req[r].obj))
  BY <1>1 DEF Step, HandStep, RequestMoves, Promotes
<1>2. ASSUME NEW w \in Workers, Removes(w)'
      PROVE  /\ wk'[w].obj = wk[w].obj
             /\ Removes(w) \/ (wk'[w] # wk[w] /\ RowFree(wk[w].obj))
  BY <1>2 DEF Step, HandStep, JobMoves, Removes
<1>3. ASSUME NEW r \in Requests, NEW s \in Requests, Promotes(r)', Promotes(s)',
             req'[r].obj = req'[s].obj
      PROVE  r = s
  BY <1>1, <1>3 DEF OInv, OneHolder, RowFree, Promotes, Step, HandStep
<1>4. ASSUME NEW v \in Workers, NEW w \in Workers, Removes(v)', Removes(w)',
             wk'[v].obj = wk'[w].obj
      PROVE  v = w
  BY <1>2, <1>4 DEF OInv, OneHolder, RowFree, Removes, Step, HandStep
<1>5. ASSUME NEW r \in Requests, NEW w \in Workers, Promotes(r)', Removes(w)',
             req'[r].obj = wk'[w].obj
      PROVE  FALSE
  BY <1>1, <1>2, <1>5 DEF OInv, OneHolder, RowFree, Promotes, Removes, Step, HandStep
<1> QED BY <1>3, <1>4, <1>5 DEF OneHolder

\* A row is never forgotten, and neither is a cleanup.
LEMMA Lasting ==
  ASSUME OInv, Step, NEW o \in Objects
  PROVE  /\ obj[o].status # "none" => obj'[o].status # "none" /\ obj'[o].upExp = obj[o].upExp
         /\ Cleared(o) => Cleared(o)'
<1>1. RowMoves(o) /\ QueueMoves(o) BY DEF Step, RowStep
<1>2. obj[o].status # "none" => obj'[o].status # "none" /\ obj'[o].upExp = obj[o].upExp
  BY <1>1 DEF RowMoves
<1>3. Cleared(o) => Cleared(o)' BY <1>1 DEF QueueMoves, Cleared, Clearing
<1> QED BY <1>2, <1>3

\* What a completion knows is still so.
LEMMA RequestsStayOK ==
  ASSUME OInv, Step, NEW r \in Requests PROVE RequestOK(r)'
<1>0. RequestMoves(r) /\ RequestOK(r) BY DEF OInv, Step, HandStep
<1>1. req'[r].pc # "idle" => req'[r].obj \in Objects /\ obj'[req'[r].obj].status # "none"
  BY <1>0, Lasting DEF RequestMoves, RequestOK
<1>2. Promotes(r)' => obj'[req'[r].obj].status = "pending"
  BY <1>0, HeldRowsStay DEF RequestMoves, RequestOK, Promotes
<1>3. ASSUME req'[r].pc = "promoted" PROVE req'[r].obj \in final'
  <2>1. CASE req'[r] = req[r]
    <3> DEFINE o == req[r].obj
    <3>1. o \in Objects /\ o \in final /\ Promotes(r) BY <1>0, <1>3, <2>1 DEF RequestOK, Promotes
    <3>2. \A w \in Workers : Removes(w) => wk[w].obj # o BY <3>1 DEF OInv, OneHolder
    <3> QED BY <2>1, <3>1, <3>2 DEF Step, ByteMoves, Removes
  <2> QED BY <1>0, <1>3, <2>1 DEF RequestMoves
<1> QED BY <1>1, <1>2, <1>3 DEF RequestOK, Promotes

\* What a worker knows is still so.
LEMMA JobsStayOK ==
  ASSUME OInv, Step, NEW w \in Workers PROVE JobOK(w)'
<1>0. JobMoves(w) /\ JobOK(w) BY DEF OInv, Step, HandStep
<1>1. wk'[w].pc # "idle" => /\ wk'[w].obj \in Objects /\ wk'[w].kind \in Kinds
                            /\ obj'[wk'[w].obj].status # "none"
  BY <1>0, Lasting DEF JobMoves, JobOK
<1>2. wk'[w].pc \in {"staging", "cleared"} => wk'[w].kind = "delete_upload"
  BY <1>0 DEF JobMoves, JobOK
<1>3. ASSUME wk'[w].pc \in {"erasing", "erased"}
      PROVE  /\ wk'[w].kind = "delete"
             /\ obj'[wk'[w].obj].status \in {"failed", "deleting"}
             /\ obj'[wk'[w].obj].status = "deleting" => Cleared(wk[w].obj)'
  <2> PICK o : o = wk[w].obj OBVIOUS
  <2>1. /\ wk'[w].obj = o /\ wk'[w].kind = "delete" /\ o \in Objects
        /\ obj[o].status \in {"failed", "deleting"}
        /\ obj[o].status = "deleting" => Cleared(o)
    BY <1>0, <1>3 DEF JobMoves, JobOK
  <2>2. obj'[o] = obj[o]
    <3>1. Removes(w)' BY <1>3 DEF Removes
    <3>2. Removes(w) \/ obj' = obj BY <1>0, <1>3 DEF JobMoves, Removes
    <3> QED BY <3>1, <3>2, HeldRowsStay
  <2>3. obj[o].status = "deleting" => Cleared(o)' BY <2>1, Lasting
  <2> QED BY <2>1, <2>2, <2>3 DEF Cleared, Clearing
<1>4. ASSUME wk'[w].pc = "erased" PROVE wk'[w].obj \notin final'
  <2>1. CASE wk'[w] = wk[w]
    <3> DEFINE o == wk[w].obj
    <3>1. o \in Objects /\ o \notin final /\ Removes(w) BY <1>0, <1>4, <2>1 DEF JobOK, Removes
    <3>2. \A r \in Requests : Promotes(r) => req[r].obj # o BY <3>1 DEF OInv, OneHolder
    <3> QED BY <2>1, <3>1, <3>2 DEF Step, ByteMoves, Promotes
  <2> QED BY <1>0, <1>4, <2>1 DEF JobMoves
<1> QED BY <1>1, <1>2, <1>3, <1>4 DEF JobOK

\* Each object stays consistent with the bucket, the queue and the icons.
LEMMA ObjectsStayOK ==
  ASSUME OInv, Step, TypeOK', NEW o \in Objects PROVE ObjectOK(o)'
<1>0. /\ ObjectOK(o) /\ RowMoves(o) /\ QueueMoves(o) /\ ByteMoves(o) /\ TimeMoves
      /\ obj[o] \in Row /\ obj'[o] \in Row /\ now \in Nat /\ MaxUploadDuration \in Nat
  BY StorageAssumption DEF OInv, TypeOK, Step, RowStep
<1>n. obj[o].upExp \in Nat /\ now' \in Nat /\ now <= now' BY <1>0 DEF Row, TimeMoves
<1>1. ASSUME obj'[o].status = "none"
      PROVE  /\ o \notin staged' \cup final' \cup puts'
             /\ ~Cleared(o)' /\ \A k \in Kinds : ops'[o][k].status = "none" /\ ~ops'[o][k].wait
  <2>1. obj[o].status = "none" /\ ops'[o] = ops[o] BY <1>0, <1>1 DEF RowMoves, QueueMoves
  <2>2. /\ o \notin staged \cup final \cup puts
        /\ ~Cleared(o) /\ \A k \in Kinds : ops[o][k].status = "none" /\ ~ops[o][k].wait
    BY <1>0, <1>1, <2>1 DEF ObjectOK, Unborn
  <2>3. o \notin final'
    <3>1. \A r \in Requests : req[r].pc = "promoting" => req[r].obj # o
      BY <1>1, <2>1 DEF OInv, RequestOK
    <3> QED BY <1>0, <2>2, <3>1 DEF ByteMoves
  <2> QED BY <1>0, <1>1, <2>1, <2>2, <2>3 DEF ByteMoves, Cleared, Clearing
<1>2. o \in puts' => now' < obj'[o].upExp + MaxUploadDuration
  <2> SUFFICES ASSUME o \in puts' PROVE now' < obj'[o].upExp + MaxUploadDuration OBVIOUS
  <2>1. obj'[o].upExp = obj[o].upExp
    BY <1>0, Lasting DEF ByteMoves, ObjectOK, Unborn
  <2>2. now < obj[o].upExp + MaxUploadDuration
    BY <1>0, <1>n DEF ByteMoves, ObjectOK, StagingOK
  <2> QED BY <1>0, <2>1, <2>2 DEF TimeMoves
<1>3. Cleared(o)' => obj'[o].upExp + MaxUploadDuration <= now' /\ o \notin staged'
  <2> SUFFICES ASSUME Cleared(o)'
               PROVE  obj'[o].upExp + MaxUploadDuration <= now' /\ o \notin staged'
    OBVIOUS
  <2>1. obj[o].status # "none"
    <3> SUFFICES ASSUME obj[o].status = "none" PROVE ~Cleared(o)' OBVIOUS
    <3> QED BY <1>0 DEF ObjectOK, Unborn, QueueMoves, Cleared, Clearing
  <2>2. obj[o].upExp + MaxUploadDuration <= now /\ o \notin staged
    <3>1. Cleared(o) \/ (obj[o].upExp + MaxUploadDuration <= now /\ o \notin staged)
      BY <1>0 DEF QueueMoves, Cleared, Clearing
    <3> QED BY <1>0, <3>1 DEF ObjectOK, StagingOK
  <2>3. o \notin puts BY <1>0, <1>n, <2>2 DEF ObjectOK, StagingOK
  <2>4. o \notin staged' BY <1>0, <2>2, <2>3 DEF ByteMoves
  <2>5. obj'[o].upExp = obj[o].upExp BY <2>1, Lasting
  <2> QED BY <1>0, <1>n, <2>2, <2>4, <2>5
<1>4. obj'[o].status = "pending" /\ IsIcon(o)' => obj'[o].seen = choice'[obj'[o].target]
  <2> SUFFICES ASSUME obj'[o].status = "pending", obj'[o].target \in IconTargets
               PROVE  obj'[o].seen = choice'[obj'[o].target]
    BY DEF IsIcon
  <2>1. CASE obj'[o] = obj[o]
    <3>1. choice'[obj[o].target] = choice[obj[o].target] BY <2>1 DEF Step, RowStep, ChoiceMoves
    <3> QED BY <1>0, <2>1, <3>1 DEF ObjectOK, DraftOK, IsIcon
  <2> QED BY <1>0, <2>1 DEF RowMoves
<1>5. obj'[o].status = "deleting" => Pursued(o)'
  <2> SUFFICES ASSUME obj'[o].status = "deleting" PROVE Pursued(o)' OBVIOUS
  <2>1. CASE obj[o].status = "deleting" /\ obj'[o].rev = obj[o].rev
    <3>1. Pursued(o) BY <1>0, <2>1 DEF ObjectOK
    <3> QED BY <1>0, <2>1, <3>1 DEF QueueMoves, Pursued, Clearing, Cleared
  <2> QED BY <1>0, <2>1 DEF RowMoves
<1>6. obj'[o].status = "deleted" => Cleared(o)' /\ o \notin final'
  <2> SUFFICES ASSUME obj'[o].status = "deleted" PROVE Cleared(o)' /\ o \notin final' OBVIOUS
  <2>1. Cleared(o) /\ o \notin final /\ obj[o].status # "pending"
    BY <1>0 DEF RowMoves, ObjectOK
  <2>2. \A r \in Requests : req[r].pc = "promoting" => req[r].obj # o
    BY <2>1 DEF OInv, RequestOK, Promotes
  <2> QED BY <1>0, <2>1, <2>2, Lasting DEF ByteMoves
<1>7. obj'[o].status = "ready" => o \in final'
  <2> SUFFICES ASSUME obj'[o].status = "ready" PROVE o \in final' OBVIOUS
  <2>1. o \in final /\ obj[o].status \in {"pending", "ready"}
    BY <1>0 DEF RowMoves, ObjectOK
  <2>2. \A w \in Workers : wk[w].pc = "erasing" => wk[w].obj # o
    BY <2>1 DEF OInv, JobOK
  <2> QED BY <1>0, <2>1, <2>2 DEF ByteMoves
<1> QED BY <1>1, <1>2, <1>3, <1>4, <1>5, <1>6, <1>7 DEF ObjectOK, Unborn, StagingOK, DraftOK

\* The icon stays a ready object of its category.
LEMMA IconStaysReady == OInv /\ Step => IconIsReady'
<1> SUFFICES ASSUME OInv, Step, NEW t \in IconTargets, icon'[t] # None
             PROVE  obj'[icon'[t]].status = "ready" /\ obj'[icon'[t]].target = t
  BY DEF IconIsReady
<1>1. IconMoves(t) BY DEF Step, RowStep
<1>2. icon[t] # None => obj[icon[t]].status = "ready" /\ obj[icon[t]].target = t
  BY DEF OInv, IconIsReady
<1> QED BY <1>1, <1>2 DEF IconMoves

\* The whole invariant, from the parts.
LEMMA StepKeepsOInv == OInv /\ Step /\ TypeOK' => OInv'
BY OneHolderStays, RequestsStayOK, JobsStayOK, ObjectsStayOK, IconStaysReady DEF OInv

----------------------------------------------------------------------------
(* Rows, queues and hands: what the helpers return.                         *)

\* The values that stand for nothing have their types.
LEMMA NothingTyped ==
  /\ NoRow \in Row /\ NoQueue \in Queue /\ NoCompletion \in Completion /\ NoJob \in Job
  /\ NoQueue.status = "none" /\ ~NoQueue.wait /\ NoQueue.done = {}
  /\ NoRow.status = "none" /\ NoCompletion.pc = "idle" /\ NoJob.pc = "idle"
BY DEF NoRow, Row, Statuses, NoQueue, Queue, NoCompletion, Completion, NoJob, Job

\* enqueue_operation and the end of an operation keep what is closed.
LEMMA QueuesTyped ==
  ASSUME NEW q \in Queue, NEW rev \in Nat, NEW avail \in Nat
  PROVE  /\ Enqueued(q, rev, avail) \in Queue /\ Closed(q) \in Queue
         /\ Enqueued(q, rev, avail).done = q.done /\ Enqueued(q, rev, avail).failed = q.failed
         /\ Closed(q).done = q.done /\ Closed(q).failed = q.failed /\ ~Open(Closed(q))
         /\ Open(Enqueued(q, rev, avail))
         /\ Open(q) => Enqueued(q, rev, avail) = q
         /\ ~Open(q) => Enqueued(q, rev, avail).rev = rev
BY DEF Queue, NoQueue, Enqueued, Closed, Open

\* The instants at which a cleanup is due.
LEMMA InstantsTyped ==
  ASSUME TypeOK, NEW o \in Objects
  PROVE  /\ obj[o] \in Row /\ obj[o].rev \in Nat /\ obj[o].upExp \in Nat /\ now \in Nat
         /\ obj[o].rev + 1 \in Nat
         /\ StagingCleanupAt(o) \in Nat /\ TerminalStagingCleanupAt(o) \in Nat
         /\ obj[o].upExp + MaxUploadDuration <= TerminalStagingCleanupAt(o)
         /\ ops[o] \in [Kinds -> Queue] /\ Clearing(o) \in Queue
BY StorageAssumption DEF TypeOK, Row, Kinds, StagingCleanupAt, TerminalStagingCleanupAt, Clearing

\* When an object is given up its open operations end and both deletions are queued.
LEMMA CleanupIs ==
  ASSUME TypeOK, NEW o \in Objects, NEW rev \in Nat
  PROVE  /\ Cleanup(o, rev) \in [Kinds -> Queue]
         /\ Open(Cleanup(o, rev)["delete_upload"])
         /\ Cleanup(o, rev)["delete_upload"].rev = rev
         /\ Cleanup(o, rev)["delete_upload"].done = Clearing(o).done
<1>1. /\ \A k \in Kinds : ops[o][k] \in Queue
      /\ StagingCleanupAt(o) \in Nat /\ now \in Nat
  BY InstantsTyped
<1>2. ASSUME NEW k \in Kinds PROVE Cleanup(o, rev)[k] \in Queue
  <2>1. CASE k = "reconcile" BY <1>1, <2>1, QueuesTyped DEF Cleanup, Kinds
  <2>2. CASE k = "delete_upload" BY <1>1, <2>2, QueuesTyped DEF Cleanup, Kinds
  <2>3. CASE k = "delete" BY <1>1, <2>3, QueuesTyped DEF Cleanup, Kinds
  <2> QED BY <2>1, <2>2, <2>3 DEF Kinds
<1>3. Cleanup(o, rev) \in [Kinds -> Queue] BY <1>2 DEF Cleanup
<1>4. "delete_upload" \in Kinds BY DEF Kinds
<1>5. Cleanup(o, rev)["delete_upload"]
         = Enqueued(Closed(ops[o]["delete_upload"]), rev, StagingCleanupAt(o))
  BY <1>4 DEF Cleanup
<1>6. Closed(Clearing(o)) \in Queue /\ ~Open(Closed(Clearing(o)))
      /\ Closed(Clearing(o)).done = Clearing(o).done
  BY <1>1, <1>4, QueuesTyped DEF Clearing
<1>7. \A q \in Queue, avail \in Nat : ~Open(q) =>
         /\ Open(Enqueued(q, rev, avail)) /\ Enqueued(q, rev, avail).rev = rev
         /\ Enqueued(q, rev, avail).done = q.done
  BY QueuesTyped
<1>8. /\ Open(Enqueued(Closed(Clearing(o)), rev, StagingCleanupAt(o)))
      /\ Enqueued(Closed(Clearing(o)), rev, StagingCleanupAt(o)).rev = rev
      /\ Enqueued(Closed(Clearing(o)), rev, StagingCleanupAt(o)).done = Clearing(o).done
  BY <1>1, <1>6, <1>7
<1> QED BY <1>3, <1>5, <1>8 DEF Clearing

\* mark_object_deleting_in_transaction: who is doomed and who is not.
LEMMA MarkedTyped ==
  ASSUME TypeOK, NEW S \in SUBSET Objects, NEW rows \in [Objects -> Row]
  PROVE  /\ MarkedDeleting(rows, S) \in [Objects -> Row]
         /\ OpsMarkedDeleting(S) \in [Objects -> [Kinds -> Queue]]
         /\ \A p \in Objects :
               /\ p \in S /\ Doomed(p) =>
                     /\ MarkedDeleting(rows, S)[p] =
                           [rows[p] EXCEPT !.status = "deleting", !.rev = obj[p].rev + 1]
                     /\ OpsMarkedDeleting(S)[p] = Cleanup(p, obj[p].rev + 1)
               /\ ~(p \in S /\ Doomed(p)) =>
                     MarkedDeleting(rows, S)[p] = rows[p] /\ OpsMarkedDeleting(S)[p] = ops[p]
<1>1. ASSUME NEW p \in Objects
      PROVE  /\ MarkedDeleting(rows, S)[p] \in Row /\ OpsMarkedDeleting(S)[p] \in [Kinds -> Queue]
             /\ p \in S /\ Doomed(p) =>
                   /\ MarkedDeleting(rows, S)[p] =
                         [rows[p] EXCEPT !.status = "deleting", !.rev = obj[p].rev + 1]
                   /\ OpsMarkedDeleting(S)[p] = Cleanup(p, obj[p].rev + 1)
             /\ ~(p \in S /\ Doomed(p)) =>
                   MarkedDeleting(rows, S)[p] = rows[p] /\ OpsMarkedDeleting(S)[p] = ops[p]
  <2>1. rows[p] \in Row /\ obj[p].rev + 1 \in Nat /\ ops[p] \in [Kinds -> Queue]
    BY InstantsTyped
  <2>2. [rows[p] EXCEPT !.status = "deleting", !.rev = obj[p].rev + 1] \in Row
    BY <2>1 DEF Row, Statuses
  <2>3. Cleanup(p, obj[p].rev + 1) \in [Kinds -> Queue] BY <2>1, CleanupIs
  <2> QED BY <2>1, <2>2, <2>3 DEF MarkedDeleting, OpsMarkedDeleting
<1>2. /\ MarkedDeleting(rows, S) \in [Objects -> Row]
      /\ OpsMarkedDeleting(S) \in [Objects -> [Kinds -> Queue]]
  BY <1>1 DEF MarkedDeleting, OpsMarkedDeleting
<1> QED BY <1>1, <1>2

\* What a row and its cleanup are then.
LEMMA MarkedIs ==
  ASSUME TypeOK, NEW S \in SUBSET Objects, NEW rows \in [Objects -> Row], NEW o \in Objects
  PROVE  /\ o \in S /\ Doomed(o) =>
               /\ MarkedDeleting(rows, S)[o].status = "deleting"
               /\ MarkedDeleting(rows, S)[o].rev = obj[o].rev + 1
               /\ MarkedDeleting(rows, S)[o].upExp = rows[o].upExp
               /\ MarkedDeleting(rows, S)[o].target = rows[o].target
               /\ Open(OpsMarkedDeleting(S)[o]["delete_upload"])
               /\ OpsMarkedDeleting(S)[o]["delete_upload"].rev = obj[o].rev + 1
               /\ OpsMarkedDeleting(S)[o]["delete_upload"].done = Clearing(o).done
         /\ ~(o \in S /\ Doomed(o)) =>
               MarkedDeleting(rows, S)[o] = rows[o] /\ OpsMarkedDeleting(S)[o] = ops[o]
<1>1. obj[o].rev + 1 \in Nat /\ rows[o] \in Row BY InstantsTyped
<1>2. ASSUME o \in S, Doomed(o)
      PROVE  /\ MarkedDeleting(rows, S)[o].status = "deleting"
             /\ MarkedDeleting(rows, S)[o].rev = obj[o].rev + 1
             /\ MarkedDeleting(rows, S)[o].upExp = rows[o].upExp
             /\ MarkedDeleting(rows, S)[o].target = rows[o].target
  <2>1. MarkedDeleting(rows, S)[o] =
           [rows[o] EXCEPT !.status = "deleting", !.rev = obj[o].rev + 1]
    BY <1>2 DEF MarkedDeleting
  <2> QED BY <1>1, <2>1 DEF Row
<1>3. o \in S /\ Doomed(o) => OpsMarkedDeleting(S)[o] = Cleanup(o, obj[o].rev + 1)
  BY DEF OpsMarkedDeleting
<1>4. ~(o \in S /\ Doomed(o)) =>
         MarkedDeleting(rows, S)[o] = rows[o] /\ OpsMarkedDeleting(S)[o] = ops[o]
  BY DEF MarkedDeleting, OpsMarkedDeleting
<1> QED BY <1>1, <1>2, <1>3, <1>4, CleanupIs

----------------------------------------------------------------------------
(* Steps that leave a part alone.                                           *)

\* No row, icon or target is written.
LEMMA RowsStay == ASSUME UNCHANGED rowVars PROVE RowStep
BY DEF rowVars, RowStep, RowMoves, IconMoves, ChoiceMoves

\* The bucket is not touched.
LEMMA BytesStay == ASSUME UNCHANGED bucketVars, NEW o \in Objects PROVE ByteMoves(o)
BY DEF bucketVars, ByteMoves

\* No request and no worker goes on.
LEMMA HandsStay == ASSUME UNCHANGED <<req, wk>> PROVE HandStep
BY DEF HandStep, RequestMoves, JobMoves

\* One worker goes on, or has nothing in hand any more.
LEMMA WorkerMoves ==
  ASSUME TypeOK, NEW w \in Workers, req' = req, JobMoves(w),
         \A v \in Workers : v # w => wk'[v] = wk[v]
  PROVE  HandStep
BY DEF HandStep, RequestMoves, JobMoves

\* One request goes on, or has nothing in hand any more.
LEMMA CompletionMoves ==
  ASSUME TypeOK, NEW r \in Requests, wk' = wk, RequestMoves(r),
         \A s \in Requests : s # r => req'[s] = req[s]
  PROVE  HandStep
BY DEF HandStep, RequestMoves, JobMoves

\* What a worker has in hand after a statement.
LEMMA WorkersGoOn ==
  ASSUME TypeOK, NEW w \in Workers
  PROVE  /\ Idles(w) => /\ wk' \in [Workers -> Job] /\ wk'[w].pc = "idle"
                        /\ \A v \in Workers : v # w => wk'[v] = wk[v]
         /\ \A pc \in {"staging", "cleared", "erasing", "erased", "error"} :
               WorksOn(w, pc) => /\ wk' \in [Workers -> Job] /\ wk'[w].pc = pc
                                 /\ wk'[w].obj = wk[w].obj /\ wk'[w].kind = wk[w].kind
                                 /\ \A v \in Workers : v # w => wk'[v] = wk[v]
<1>0. wk \in [Workers -> Job] BY DEF TypeOK
<1> QED BY <1>0, NothingTyped DEF Idles, WorksOn, Job

\* What a completion has in hand after a statement.
LEMMA RequestsGoOn ==
  ASSUME TypeOK, NEW r \in Requests
  PROVE  /\ Ends(r) => /\ req' \in [Requests -> Completion] /\ req'[r].pc = "idle"
                       /\ \A s \in Requests : s # r => req'[s] = req[s]
         /\ \A pc \in {"failing", "promoting", "promoted"} :
               GoesOn(r, pc) => /\ req' \in [Requests -> Completion] /\ req'[r].pc = pc
                                /\ req'[r].obj = req[r].obj /\ req'[r].target = req[r].target
                                /\ \A s \in Requests : s # r => req'[s] = req[s]
<1>0. req \in [Requests -> Completion] BY DEF TypeOK
<1> QED BY <1>0, NothingTyped DEF Ends, GoesOn, Completion

\* One operation of one object is written.
LEMMA OneQueueWritten ==
  ASSUME TypeOK, NEW o \in Objects, NEW k \in Kinds, NEW q \in Queue,
         ops' = [ops EXCEPT ![o][k] = q], obj' = obj, obj[o].status # "none",
         k = "delete_upload" =>
            /\ Cleared(o) => q.done # {}
            /\ q.done # {} => \/ Cleared(o)
                              \/ o \notin staged /\ obj[o].upExp + MaxUploadDuration <= now
            /\ obj[o].status = "deleting" /\ Pursued(o) =>
                  q.done # {} \/ (Open(q) /\ q.rev = obj[o].rev) \/ obj[o].rev \in q.failed
  PROVE  /\ ops' \in [Objects -> [Kinds -> Queue]]
         /\ \A p \in Objects : QueueMoves(p)
<1>0. ops \in [Objects -> [Kinds -> Queue]] BY DEF TypeOK
<1>1. /\ ops' \in [Objects -> [Kinds -> Queue]] /\ ops'[o][k] = q
      /\ \A l \in Kinds : l # k => ops'[o][l] = ops[o][l]
      /\ \A p \in Objects : p # o => ops'[p] = ops[p]
  BY <1>0
<1>2. QueueMoves(o)
  <2>1. CASE k = "delete_upload"
    BY <1>1, <2>1 DEF QueueMoves, Cleared, Clearing, Pursued
  <2>2. CASE k # "delete_upload"
    <3>1. Clearing(o)' = Clearing(o) BY <1>1, <2>2 DEF Clearing, Kinds
    <3> QED BY <3>1 DEF QueueMoves, Cleared, Pursued
  <2> QED BY <2>1, <2>2
<1> QED BY <1>1, <1>2 DEF QueueMoves

----------------------------------------------------------------------------
(* Every action is such a step.                                             *)

\* A completion starts, opens its transaction, or is refused.
LEMMA ReadingIsStep ==
  ASSUME OInv, NEW r \in Requests,
         (\E o \in Objects : BeginCompletion(r, o)) \/ OpenPromotion(r) \/ PromotionRefused(r)
  PROVE  Step /\ TypeOK'
<1>0. TypeOK /\ RequestOK(r) BY DEF OInv
<1>1. UNCHANGED <<now, rowVars, ops, bucketVars, wk, faults>>
  BY DEF BeginCompletion, OpenPromotion, PromotionRefused
<1>2. /\ req' \in [Requests -> Completion] /\ RequestMoves(r)
      /\ \A s \in Requests : s # r => req'[s] = req[s]
  <2>1. ASSUME NEW o \in Objects, BeginCompletion(r, o)
        PROVE  /\ req' \in [Requests -> Completion] /\ RequestMoves(r)
               /\ \A s \in Requests : s # r => req'[s] = req[s]
    <3>1. PICK pc \in {"loaded", "failing"} :
             req' = [req EXCEPT ![r] = [pc |-> pc, obj |-> o, target |-> obj[o].target]]
      BY <2>1 DEF BeginCompletion
    <3>2. [pc |-> pc, obj |-> o, target |-> obj[o].target] \in Completion
      BY <1>0, InstantsTyped DEF Row, Completion
    <3>3. req \in [Requests -> Completion] BY <1>0 DEF TypeOK
    <3>4. /\ req' \in [Requests -> Completion] /\ req'[r].pc = pc /\ req'[r].obj = o
          /\ \A s \in Requests : s # r => req'[s] = req[s]
      BY <3>1, <3>2, <3>3
    <3>5. obj[o].status = "pending" BY <2>1 DEF BeginCompletion
    <3> QED BY <3>4, <3>5 DEF RequestMoves
  <2>2. CASE OpenPromotion(r)
    <3>1. /\ req[r].pc = "loaded"
          /\ \/ GoesOn(r, "failing") \/ Ends(r)
             \/ /\ GoesOn(r, "promoting") /\ RowFree(req[r].obj)
                /\ obj[req[r].obj].status = "pending" /\ obj' = obj
      BY <2>2 DEF OpenPromotion, Promotable, rowVars
    <3> QED BY <1>0, <3>1, RequestsGoOn DEF RequestMoves, RequestOK
  <2>3. CASE PromotionRefused(r)
    <3>1. req[r].pc = "promoted" /\ GoesOn(r, "failing") BY <2>3 DEF PromotionRefused
    <3> QED BY <1>0, <3>1, RequestsGoOn DEF RequestMoves, RequestOK
  <2> QED BY <2>1, <2>2, <2>3
<1>3. HandStep BY <1>0, <1>1, <1>2, CompletionMoves
<1>4. TypeOK' BY <1>0, <1>1, <1>2 DEF TypeOK, rowVars, bucketVars
<1> QED BY <1>1, <1>3, <1>4, RowsStay, BytesStay DEF Step, QueueMoves, TimeMoves

\* The bytes are copied, by a request that may die of it.
LEMMA CopyIsStep ==
  ASSUME OInv, NEW r \in Requests, CopyToFinalKey(r) \/ RequestDies(r) PROVE Step /\ TypeOK'
<1>0. TypeOK /\ RequestOK(r) BY DEF OInv
<1>1. /\ UNCHANGED <<now, rowVars, ops, staged, puts, wk>> /\ faults' \in Nat
      /\ \/ final' = final /\ Ends(r)
         \/ /\ req[r].pc = "promoting" /\ req[r].obj \in Objects
            /\ final' = final \cup {req[r].obj} /\ (Ends(r) \/ GoesOn(r, "promoted"))
  BY <1>0 DEF CopyToFinalKey, RequestDies, Fault, TypeOK, RequestOK
<1>2. /\ req' \in [Requests -> Completion] /\ RequestMoves(r)
      /\ \A s \in Requests : s # r => req'[s] = req[s]
  BY <1>0, <1>1, RequestsGoOn DEF RequestMoves
<1>3. HandStep BY <1>0, <1>1, <1>2, CompletionMoves
<1>4. TypeOK'
  <2>1. final' \subseteq Objects BY <1>0, <1>1 DEF TypeOK
  <2> QED BY <1>0, <1>1, <1>2, <2>1 DEF TypeOK, rowVars
<1>5. ASSUME NEW o \in Objects PROVE ByteMoves(o) BY <1>1 DEF ByteMoves
<1> QED BY <1>1, <1>3, <1>4, <1>5, RowsStay DEF Step, QueueMoves, TimeMoves

\* A worker removes bytes, opens its transaction for that, or dies.
LEMMA RemovalIsStep ==
  ASSUME OInv, NEW w \in Workers,
         BeginDeleteUpload(w) \/ ClearStaging(w) \/ EraseFinal(w) \/ DeleteFails(w) \/ WorkerDies(w)
  PROVE  Step /\ TypeOK'
<1>0. TypeOK /\ JobOK(w) BY DEF OInv
<1>1. /\ UNCHANGED <<now, rowVars, ops, puts, req>> /\ faults' \in Nat
      /\ staged' \in {staged, staged \ {wk[w].obj}}
      /\ final' = final \/ (wk[w].pc = "erasing" /\ final' = final \ {wk[w].obj})
  BY <1>0 DEF BeginDeleteUpload, ClearStaging, EraseFinal, DeleteFails, WorkerDies, Fault, TypeOK,
              bucketVars
<1>2. /\ wk' \in [Workers -> Job] /\ JobMoves(w)
      /\ \A v \in Workers : v # w => wk'[v] = wk[v]
  <2>1. CASE BeginDeleteUpload(w)
    <3>1. /\ wk[w].pc = "claimed" /\ wk[w].kind = "delete_upload" /\ RowFree(wk[w].obj)
          /\ WorksOn(w, "staging") /\ obj' = obj
      BY <2>1 DEF BeginDeleteUpload, Takes, rowVars
    <3> QED BY <1>0, <3>1, WorkersGoOn DEF JobMoves
  <2>2. CASE ClearStaging(w)
    <3>1. wk[w].pc = "staging" /\ WorksOn(w, "cleared") BY <2>2 DEF ClearStaging
    <3> QED BY <1>0, <3>1, WorkersGoOn DEF JobMoves
  <2>3. CASE EraseFinal(w)
    <3>1. wk[w].pc = "erasing" /\ WorksOn(w, "erased") /\ wk[w].obj \notin final'
      BY <2>3 DEF EraseFinal
    <3> QED BY <1>0, <3>1, WorkersGoOn DEF JobMoves
  <2>4. CASE DeleteFails(w)
    <3>1. wk[w].pc # "idle" /\ WorksOn(w, "error") BY <2>4 DEF DeleteFails
    <3> QED BY <1>0, <3>1, WorkersGoOn DEF JobMoves, JobOK
  <2>5. CASE WorkerDies(w)
    <3>1. Idles(w) BY <2>5 DEF WorkerDies
    <3> QED BY <1>0, <3>1, WorkersGoOn DEF JobMoves
  <2> QED BY <2>1, <2>2, <2>3, <2>4, <2>5
<1>3. HandStep BY <1>0, <1>1, <1>2, WorkerMoves
<1>4. TypeOK'
  <2>1. final' \subseteq Objects /\ staged' \subseteq Objects BY <1>0, <1>1 DEF TypeOK
  <2> QED BY <1>0, <1>1, <1>2, <2>1 DEF TypeOK, rowVars
<1>5. ASSUME NEW o \in Objects PROVE ByteMoves(o) BY <1>1 DEF ByteMoves
<1> QED BY <1>1, <1>3, <1>4, <1>5, RowsStay DEF Step, QueueMoves, TimeMoves

\* An upload starts or ends, or time passes.
LEMMA UploadIsStep ==
  ASSUME OInv, (\E o \in Objects : StartPut(o) \/ EndPut(o)) \/ Tick PROVE Step /\ TypeOK'
<1>0. TypeOK BY DEF OInv
<1>1. CASE \E o \in Objects : StartPut(o) \/ EndPut(o)
  <2> PICK o \in Objects : StartPut(o) \/ EndPut(o) BY <1>1
  <2>1. /\ UNCHANGED <<now, rowVars, ops, final, req, wk, faults>>
        /\ staged' = staged \/ (staged' = staged \cup {o} /\ o \in puts)
        /\ \/ puts' = puts \ {o}
           \/ puts' = puts \cup {o} /\ obj[o].status # "none" /\ now < obj[o].upExp
    BY DEF StartPut, EndPut
  <2>2. TypeOK'
    <3>1. staged' \subseteq Objects /\ puts' \subseteq Objects BY <1>0, <2>1 DEF TypeOK
    <3> QED BY <1>0, <2>1, <3>1 DEF TypeOK, rowVars
  <2>3. ASSUME NEW p \in Objects PROVE ByteMoves(p) BY <2>1 DEF ByteMoves
  <2> QED BY <2>1, <2>2, <2>3, RowsStay, HandsStay DEF Step, QueueMoves, TimeMoves
<1>2. CASE Tick
  <2>1. /\ UNCHANGED <<rowVars, ops, bucketVars, req, wk, faults>> /\ now' = now + 1
        /\ \A o \in puts : now' < obj[o].upExp + MaxUploadDuration
    BY <1>2 DEF Tick
  <2>2. TypeOK' BY <1>0, <2>1 DEF TypeOK, rowVars, bucketVars
  <2> QED BY <2>1, <2>2, RowsStay, BytesStay, HandsStay DEF Step, QueueMoves, TimeMoves, bucketVars
<1> QED BY <1>1, <1>2

\* An operation as it is put back, completed, or closed.
LEMMA MyQueueTyped ==
  ASSUME OInv, NEW w \in Workers, wk[w].pc # "idle"
  PROVE  /\ wk[w].obj \in Objects /\ wk[w].kind \in Kinds /\ wk[w].rev \in Nat
         /\ obj[wk[w].obj].status # "none" /\ Mine(w) \in Queue
         /\ Completed(w) \in Queue /\ Closed(Mine(w)) \in Queue
         /\ Completed(w).done = Mine(w).done \cup {wk[w].rev}
         /\ Closed(Mine(w)).done = Mine(w).done /\ Closed(Mine(w)).failed = Mine(w).failed
         /\ \A avail \in Nat, wait \in BOOLEAN :
               /\ Deferred(w, avail, wait) \in Queue
               /\ Deferred(w, avail, wait).status = "pending"
               /\ Deferred(w, avail, wait).rev = Mine(w).rev
               /\ Deferred(w, avail, wait).done = Mine(w).done
               /\ Deferred(w, avail, wait).failed = Mine(w).failed
<1>1. /\ wk[w].obj \in Objects /\ wk[w].kind \in Kinds /\ wk[w].rev \in Nat
      /\ obj[wk[w].obj].status # "none" /\ Mine(w) \in Queue
  BY DEF OInv, JobOK, TypeOK, Job, Mine
<1>2. /\ Closed(Mine(w)) \in Queue /\ Closed(Mine(w)).done = Mine(w).done
      /\ Closed(Mine(w)).failed = Mine(w).failed
  BY <1>1 DEF Closed, Queue, NoQueue
<1>3. Completed(w) \in Queue /\ Completed(w).done = Mine(w).done \cup {wk[w].rev}
  BY <1>1, <1>2 DEF Completed, Queue
<1>4. ASSUME NEW avail \in Nat, NEW wait \in BOOLEAN
      PROVE  /\ Deferred(w, avail, wait) \in Queue
             /\ Deferred(w, avail, wait).status = "pending"
             /\ Deferred(w, avail, wait).rev = Mine(w).rev
             /\ Deferred(w, avail, wait).done = Mine(w).done
             /\ Deferred(w, avail, wait).failed = Mine(w).failed
  <2>1. (IF Mine(w).attempts > 0 THEN Mine(w).attempts - 1 ELSE 0) \in Nat BY <1>1 DEF Queue
  <2> QED BY <1>1, <2>1 DEF Deferred, Queue
<1> QED BY <1>1, <1>2, <1>3, <1>4

\* One operation is written, and nothing but the workers moves besides.
LEMMA QueueWriteIsStep ==
  ASSUME OInv, NEW o \in Objects, NEW k \in Kinds, NEW q \in Queue,
         ops' = [ops EXCEPT ![o][k] = q], obj[o].status # "none",
         k = "delete_upload" =>
            /\ Cleared(o) => q.done # {}
            /\ q.done # {} => \/ Cleared(o)
                              \/ o \notin staged /\ obj[o].upExp + MaxUploadDuration <= now
            /\ obj[o].status = "deleting" /\ Pursued(o) =>
                  q.done # {} \/ (Open(q) /\ q.rev = obj[o].rev) \/ obj[o].rev \in q.failed,
         UNCHANGED <<now, rowVars, bucketVars, req>>, faults' \in Nat,
         HandStep, wk' \in [Workers -> Job]
  PROVE  Step /\ TypeOK'
<1>0. TypeOK /\ obj' = obj BY DEF OInv, rowVars
<1>1. /\ ops' \in [Objects -> [Kinds -> Queue]]
      /\ \A p \in Objects : QueueMoves(p)
  BY <1>0, OneQueueWritten
<1>2. TypeOK' BY <1>0, <1>1 DEF TypeOK, rowVars, bucketVars
<1> QED BY <1>1, <1>2, RowsStay, BytesStay DEF Step, TimeMoves

\* The maintenance pass, recovered claims, and waits that are over.
LEMMA QueuePassIsStep ==
  ASSUME OInv, NEW o \in Objects, NEW k \in Kinds,
         \/ EnqueueMissing(o, k) \/ RecoverStaleClaim(o, k)
         \/ WaitElapses(o, k) \/ ClaimGoesStale(o, k)
  PROVE  Step /\ TypeOK'
<1>0. /\ TypeOK /\ UNCHANGED <<now, rowVars, bucketVars, req, wk>> /\ faults' \in Nat
      /\ wk' \in [Workers -> Job] /\ ops[o][k] \in Queue /\ Unborn(o)
  BY DEF OInv, ObjectOK, TypeOK, EnqueueMissing, RecoverStaleClaim, WaitElapses, ClaimGoesStale,
         Fault
<1>1. CASE EnqueueMissing(o, k)
  <2> DEFINE avail == IF k = "delete_upload" /\ now < StagingCleanupAt(o)
                      THEN StagingCleanupAt(o) ELSE now
             q == Enqueued(ops[o][k], obj[o].rev, avail)
  <2>1. avail \in Nat /\ obj[o].rev \in Nat BY <1>0, InstantsTyped
  <2>2. ops' = [ops EXCEPT ![o][k] = q] /\ ~Open(ops[o][k]) /\ obj[o].status # "none"
    BY <1>1 DEF EnqueueMissing, Desired, Kinds
  <2>3. /\ q \in Queue /\ q.done = ops[o][k].done /\ Open(q) /\ q.rev = obj[o].rev
    <3> HIDE DEF avail
    <3>1. \A a \in Nat, rev \in Nat :
             /\ Enqueued(ops[o][k], rev, a) \in Queue
             /\ Enqueued(ops[o][k], rev, a).done = ops[o][k].done
             /\ Open(Enqueued(ops[o][k], rev, a)) /\ Enqueued(ops[o][k], rev, a).rev = rev
      BY <1>0, <2>2, QueuesTyped
    <3> QED BY <2>1, <3>1
  <2> HIDE DEF q
  <2> QED BY <1>0, <2>2, <2>3, HandsStay, QueueWriteIsStep DEF Cleared, Clearing
<1>2. CASE RecoverStaleClaim(o, k) \/ ClaimGoesStale(o, k)
  <2> DEFINE q == Unclaimed(ops[o][k])
  <2>1. ops' = [ops EXCEPT ![o][k] = q] /\ ops[o][k].status = "claimed"
    BY <1>2 DEF RecoverStaleClaim, ClaimGoesStale, Abandoned
  <2>2. /\ q \in Queue /\ q.done = ops[o][k].done /\ q.failed = ops[o][k].failed
        /\ Open(q) /\ q.rev = ops[o][k].rev
    BY <1>0 DEF Unclaimed, Queue, Open, TypeOK
  <2>3. obj[o].status # "none" BY <1>0, <2>1 DEF Unborn
  <2> HIDE DEF q
  <2>4. k = "delete_upload" =>
          /\ Cleared(o) => q.done # {}
          /\ q.done # {} => \/ Cleared(o)
                            \/ o \notin staged /\ obj[o].upExp + MaxUploadDuration <= now
          /\ obj[o].status = "deleting" /\ Pursued(o) =>
                q.done # {} \/ (Open(q) /\ q.rev = obj[o].rev) \/ obj[o].rev \in q.failed
    BY <1>0, <2>2 DEF Cleared, Clearing, Pursued
  <2>5. UNCHANGED <<now, rowVars, bucketVars, req>> /\ faults' \in Nat BY <1>0, <1>2
  <2>6. HandStep /\ wk' \in [Workers -> Job] BY <1>0, <1>2, HandsStay
  <2> QED BY <2>1, <2>2, <2>3, <2>4, <2>5, <2>6, QueueWriteIsStep
<1>3. CASE WaitElapses(o, k)
  <2> DEFINE q == [ops[o][k] EXCEPT !.wait = FALSE]
  <2>0. ops \in [Objects -> [Kinds -> Queue]] BY <1>0 DEF TypeOK
  <2>1. ops' = [ops EXCEPT ![o][k] = q] /\ ops[o][k].wait
    BY <1>3, <2>0 DEF WaitElapses
  <2>2. /\ q \in Queue /\ q.done = ops[o][k].done /\ q.failed = ops[o][k].failed
        /\ (Open(ops[o][k]) => Open(q)) /\ q.rev = ops[o][k].rev
    BY <1>0 DEF Queue, Open
  <2>3. obj[o].status # "none" BY <1>0, <2>1 DEF Unborn
  <2> HIDE DEF q
  <2> QED BY <1>0, <2>1, <2>2, <2>3, HandsStay, QueueWriteIsStep DEF Cleared, Clearing, Pursued
<1> QED BY <1>1, <1>2, <1>3

\* A worker claims an operation.
LEMMA ClaimIsStep ==
  ASSUME OInv, NEW w \in Workers, NEW o \in Objects, NEW k \in Kinds, ClaimOperation(w, o, k)
  PROVE  Step /\ TypeOK'
<1> DEFINE q == [ops[o][k] EXCEPT !.status = "claimed", !.by = w, !.attempts = ops[o][k].attempts + 1]
           j == [pc |-> "claimed", obj |-> o, kind |-> k, rev |-> ops[o][k].rev]
<1>0. /\ TypeOK /\ UNCHANGED <<now, rowVars, bucketVars, req>> /\ faults' \in Nat
      /\ Unborn(o)
  BY DEF OInv, ObjectOK, TypeOK, ClaimOperation
<1>1. ops[o][k] \in Queue /\ ops[o][k].status = "pending" BY <1>0 DEF ClaimOperation, TypeOK
<1>2. ops' = [ops EXCEPT ![o][k] = q] /\ wk' = [wk EXCEPT ![w] = j] BY DEF ClaimOperation
<1>3. obj[o].status # "none" BY <1>0, <1>1 DEF Unborn
<1>4. j \in Job /\ j.pc = "claimed" /\ j.obj = o /\ j.kind = k BY <1>1 DEF Queue, Job
<1>5. /\ q \in Queue /\ q.done = ops[o][k].done /\ q.failed = ops[o][k].failed
      /\ Open(q) /\ q.rev = ops[o][k].rev
  <2>1. ops[o][k].attempts + 1 \in Nat BY <1>1 DEF Queue
  <2>2. \A old \in Queue, n \in Nat :
           LET new == [old EXCEPT !.status = "claimed", !.by = w, !.attempts = n] IN
           /\ new \in Queue /\ new.done = old.done /\ new.failed = old.failed
           /\ new.status = "claimed" /\ new.rev = old.rev
    BY DEF Queue
  <2> QED BY <1>1, <2>1, <2>2 DEF Open
<1> HIDE DEF q, j
<1>6. /\ wk' \in [Workers -> Job] /\ wk'[w] = j
      /\ \A v \in Workers : v # w => wk'[v] = wk[v]
  BY <1>0, <1>2, <1>4 DEF TypeOK
<1>7. HandStep
  <2>1. JobMoves(w) BY <1>3, <1>4, <1>6 DEF JobMoves
  <2> QED BY <1>0, <1>6, <2>1, WorkerMoves
<1>8. k = "delete_upload" =>
         /\ Cleared(o) <=> q.done # {}
         /\ Pursued(o) => q.done # {} \/ (Open(q) /\ q.rev = obj[o].rev) \/ obj[o].rev \in q.failed
  BY <1>5 DEF Cleared, Clearing, Pursued
<1> QED BY <1>0, <1>2, <1>3, <1>5, <1>6, <1>7, <1>8, QueueWriteIsStep

\* A worker writes back the operation it has in hand, and is idle again.
LEMMA WriteBackIsStep ==
  ASSUME OInv, NEW w \in Workers, wk[w].pc # "idle", NEW q \in Queue, ops' = Replace(w, q),
         NEW o \in Objects, o = wk[w].obj,
         wk[w].kind = "delete_upload" =>
            /\ Cleared(o) => q.done # {}
            /\ q.done # {} => \/ Cleared(o)
                              \/ o \notin staged /\ obj[o].upExp + MaxUploadDuration <= now
            /\ obj[o].status = "deleting" /\ Pursued(o) =>
                  q.done # {} \/ (Open(q) /\ q.rev = obj[o].rev) \/ obj[o].rev \in q.failed,
         UNCHANGED <<now, rowVars, bucketVars, req, faults>>, Idles(w)
  PROVE  Step /\ TypeOK'
<1>0. TypeOK /\ faults' \in Nat BY DEF OInv, TypeOK
<1>1. wk[w].kind \in Kinds /\ obj[o].status # "none" BY MyQueueTyped
<1>2. ops' = [ops EXCEPT ![o][wk[w].kind] = q] BY DEF Replace
<1>3. HandStep /\ wk' \in [Workers -> Job] BY <1>0, WorkersGoOn, WorkerMoves DEF JobMoves
<1>4. PICK k : k = wk[w].kind OBVIOUS
<1>5. k \in Kinds /\ obj[o].status # "none" /\ ops' = [ops EXCEPT ![o][k] = q]
  BY <1>1, <1>2, <1>4
<1>6. k = "delete_upload" =>
        /\ Cleared(o) => q.done # {}
        /\ q.done # {} => \/ Cleared(o)
                          \/ o \notin staged /\ obj[o].upExp + MaxUploadDuration <= now
        /\ obj[o].status = "deleting" /\ Pursued(o) =>
              q.done # {} \/ (Open(q) /\ q.rev = obj[o].rev) \/ obj[o].rev \in q.failed
  BY <1>4
<1>7. UNCHANGED <<now, rowVars, bucketVars, req>> OBVIOUS
<1> QED BY ONLY OInv, <1>0, <1>3, <1>5, <1>6, <1>7, QueueWriteIsStep, Zenon

\* A worker that found nothing to write, and goes on with what it has in hand.
LEMMA IdlingIsStep ==
  ASSUME OInv, NEW w \in Workers, UNCHANGED <<now, rowVars, ops, bucketVars, req, faults>>,
         wk' \in [Workers -> Job], JobMoves(w), \A v \in Workers : v # w => wk'[v] = wk[v]
  PROVE  Step /\ TypeOK'
<1>0. TypeOK BY DEF OInv
<1>1. HandStep BY <1>0, WorkerMoves
<1>2. TypeOK' BY <1>0 DEF TypeOK, rowVars, bucketVars
<1> QED BY <1>1, <1>2, RowsStay, BytesStay DEF Step, QueueMoves, TimeMoves

\* A worker that lost its claim fails and writes nothing.
LEMMA LosingIsStep ==
  ASSUME OInv, NEW w \in Workers, wk[w].pc # "idle", WorksOn(w, "error") \/ Idles(w),
         UNCHANGED <<now, rowVars, ops, bucketVars, req, faults>>
  PROVE  Step /\ TypeOK'
<1>0. TypeOK /\ JobOK(w) BY DEF OInv
<1>1. /\ wk' \in [Workers -> Job] /\ JobMoves(w)
      /\ \A v \in Workers : v # w => wk'[v] = wk[v]
  BY <1>0, WorkersGoOn DEF JobMoves, JobOK
<1> QED BY <1>1, IdlingIsStep

\* An operation of another revision is cancelled, one that failed is tried again.
LEMMA EndingIsStep ==
  ASSUME OInv, NEW w \in Workers, CancelOutdated(w) \/ ScheduleRetry(w) PROVE Step /\ TypeOK'
<1>0. /\ UNCHANGED <<now, rowVars, bucketVars, req, faults>> /\ wk[w].pc # "idle"
  BY DEF CancelOutdated, ScheduleRetry, Takes
<1> PICK o \in Objects : o = wk[w].obj BY <1>0, MyQueueTyped
<1>1. /\ Mine(w) \in Queue /\ Closed(Mine(w)) \in Queue /\ wk[w].rev \in Nat
      /\ Closed(Mine(w)).done = Mine(w).done /\ Closed(Mine(w)).failed = Mine(w).failed
  BY <1>0, MyQueueTyped
<1>2. wk[w].kind = "delete_upload" => Mine(w) = Clearing(o) BY DEF Mine, Clearing
<1>3. CASE UNCHANGED ops /\ (WorksOn(w, "error") \/ Idles(w)) BY <1>0, <1>3, LosingIsStep
<1>4. CASE CancelOutdated(w) /\ HoldsClaim(w)
  <2>1. ops' = Replace(w, Closed(Mine(w))) /\ Idles(w) /\ Outdated(w)
    BY <1>4 DEF CancelOutdated
  <2>2. wk[w].kind = "delete_upload" /\ obj[o].status = "deleting" => Mine(w).rev # obj[o].rev
    BY <1>4, <2>1 DEF Outdated, Current, Applies, HoldsClaim
  <2>3. wk[w].kind = "delete_upload" =>
           /\ Cleared(o) <=> Closed(Mine(w)).done # {}
           /\ obj[o].status = "deleting" /\ Pursued(o) =>
                 Closed(Mine(w)).done # {} \/ obj[o].rev \in Closed(Mine(w)).failed
    BY <1>1, <1>2, <2>2 DEF Cleared, Pursued
  <2> QED BY <1>0, <1>1, <2>1, <2>3, WriteBackIsStep
<1>5. CASE ScheduleRetry(w) /\ HoldsClaim(w)
  <2> DEFINE q == IF Mine(w).attempts >= MaxAttempts
                  THEN [Closed(Mine(w)) EXCEPT !.failed = @ \cup {wk[w].rev}]
                  ELSE [Mine(w) EXCEPT !.status = "pending", !.by = None, !.wait = TRUE]
  <2>1. ops' = Replace(w, q) /\ Idles(w) BY <1>5 DEF ScheduleRetry
  <2>2. Mine(w).rev = wk[w].rev BY <1>5 DEF HoldsClaim
  <2>3. /\ q \in Queue /\ q.done = Mine(w).done /\ Mine(w).failed \subseteq q.failed
        /\ \/ Mine(w).rev \in q.failed
           \/ Open(q) /\ q.rev = Mine(w).rev
    <3>1. CASE Mine(w).attempts >= MaxAttempts BY <1>1, <2>2, <3>1 DEF Queue
    <3>2. CASE ~(Mine(w).attempts >= MaxAttempts) BY <1>1, <2>2, <3>2 DEF Queue, Open
    <3> QED BY <3>1, <3>2
  <2> HIDE DEF q
  <2>4. wk[w].kind = "delete_upload" =>
           /\ Cleared(o) <=> q.done # {}
           /\ Pursued(o) => q.done # {} \/ (Open(q) /\ q.rev = obj[o].rev) \/ obj[o].rev \in q.failed
    BY <1>2, <2>3 DEF Cleared, Pursued
  <2> QED BY <1>0, <2>1, <2>3, <2>4, WriteBackIsStep
<1> QED BY <1>3, <1>4, <1>5 DEF CancelOutdated, ScheduleRetry

\* A final deletion waits, is complete already, or starts to erase.
LEMMA BeginDeleteIsStep ==
  ASSUME OInv, NEW w \in Workers, BeginDelete(w) PROVE Step /\ TypeOK'
<1>0. /\ UNCHANGED <<now, rowVars, bucketVars, req, faults>> /\ wk[w].pc = "claimed"
      /\ wk[w].kind = "delete" /\ RowFree(wk[w].obj) /\ ~Outdated(w)
  BY DEF BeginDelete, Takes
<1>t. TypeOK /\ now \in Nat BY DEF OInv, TypeOK
<1> PICK o \in Objects : o = wk[w].obj BY <1>0, MyQueueTyped
<1>1. obj[o].status \in {"failed", "deleting", "deleted"}
  BY <1>0 DEF Outdated, Applies
<1>2. CASE UNCHANGED ops /\ WorksOn(w, "error") BY <1>0, <1>2, LosingIsStep
<1>3. ASSUME NEW q \in {Completed(w), Deferred(w, now, TRUE)}, ops' = Replace(w, q), Idles(w)
      PROVE  Step /\ TypeOK'
  <2>1. q \in Queue BY <1>0, <1>t, <1>3, MyQueueTyped
  <2> QED BY <1>0, <1>3, <2>1, WriteBackIsStep
<1>4. CASE /\ UNCHANGED ops /\ WorksOn(w, "erasing") /\ obj[o].status # "deleted"
           /\ ~(obj[o].status = "deleting" /\ StagingCleanupOpen(o))
  <2>1. obj[o].status = "deleting" => Cleared(o)
    <3>1. obj[o].status = "deleting" => Pursued(o) BY DEF OInv, ObjectOK
    <3> QED BY <1>4, <3>1 DEF Pursued, StagingCleanupOpen, Cleared, Clearing
  <2>2. /\ wk' \in [Workers -> Job] /\ JobMoves(w)
        /\ \A v \in Workers : v # w => wk'[v] = wk[v]
    BY <1>t, <1>0, <1>1, <1>4, <2>1, WorkersGoOn DEF JobMoves, rowVars
  <2> QED BY <1>0, <1>4, <2>2, IdlingIsStep
<1> QED BY <1>1, <1>2, <1>3, <1>4 DEF BeginDelete

\* The staging key is clear for good, or the operation comes back.
LEMMA FinishDeleteUploadIsStep ==
  ASSUME OInv, NEW w \in Workers, FinishDeleteUpload(w) PROVE Step /\ TypeOK'
<1>0. /\ UNCHANGED <<now, rowVars, bucketVars, req, faults>> /\ wk[w].pc = "cleared"
      /\ wk[w].kind = "delete_upload" /\ TypeOK
  BY DEF FinishDeleteUpload, OInv, JobOK
<1>d. LET x == wk[w].obj
          ends == TerminalStagingCleanupAt(x) IN
      /\ HoldsClaim(w) /\ ~(ends <= now /\ x \in staged) => Idles(w)
      /\ ~(HoldsClaim(w) /\ ~(ends <= now /\ x \in staged)) =>
            UNCHANGED ops /\ WorksOn(w, "error")
      /\ HoldsClaim(w) /\ ~(ends <= now /\ x \in staged) /\ now < ends =>
            ops' = Replace(w, Deferred(w, ends, FALSE))
      /\ HoldsClaim(w) /\ ~(ends <= now /\ x \in staged) /\ ~(now < ends) =>
            ops' = [ops EXCEPT ![x]["delete_upload"] = Completed(w),
                               ![x]["delete"] = [ops[x]["delete"] EXCEPT
                !.wait = @ /\ ~(ops[x]["delete"].status = "pending"
                                /\ ops[x]["delete"].rev = obj[x].rev)]]
  BY DEF FinishDeleteUpload
<1> PICK o \in Objects : o = wk[w].obj BY <1>0, MyQueueTyped
<1> DEFINE terminal == TerminalStagingCleanupAt(o)
<1>1. /\ Mine(w) = Clearing(o) /\ obj[o].status # "none" /\ terminal \in Nat
      /\ obj[o].upExp + MaxUploadDuration <= terminal
      /\ now \in Nat /\ obj[o].upExp \in Nat /\ MaxUploadDuration \in Nat
  BY <1>0, MyQueueTyped, InstantsTyped, StorageAssumption DEF Mine, Clearing
<1>2. CASE UNCHANGED ops /\ WorksOn(w, "error") BY <1>0, <1>2, LosingIsStep
<1>3. CASE HoldsClaim(w) /\ now < terminal
  <2> DEFINE q == Deferred(w, terminal, FALSE)
  <2>0. HoldsClaim(w) /\ now < terminal /\ ~(terminal <= now) BY <1>1, <1>3
  <2>1. ops' = Replace(w, q) /\ Idles(w) BY <1>d, <2>0, Zenon
  <2>2. /\ q \in Queue /\ q.status = "pending" /\ q.rev = Mine(w).rev
        /\ q.done = Mine(w).done /\ q.failed = Mine(w).failed
    BY <1>0, <1>1, MyQueueTyped
  <2> HIDE DEF q
  <2>3. /\ Cleared(o) <=> q.done # {}
        /\ Pursued(o) => q.done # {} \/ (Open(q) /\ q.rev = obj[o].rev) \/ obj[o].rev \in q.failed
    BY <1>1, <2>2 DEF Cleared, Pursued, Open
  <2> QED BY <1>0, <2>1, <2>2, <2>3, WriteBackIsStep
<1>4. CASE HoldsClaim(w) /\ ~(now < terminal) /\ o \notin staged
  <2> DEFINE last == ops[o]["delete"]
             unblocked == [last EXCEPT
                !.wait = @ /\ ~(last.status = "pending" /\ last.rev = obj[o].rev)]
  <2>1. /\ ops' = [ops EXCEPT ![o]["delete_upload"] = Completed(w), ![o]["delete"] = unblocked]
        /\ Idles(w)
    BY <1>d, <1>1, <1>4
  <2>2. Completed(w) \in Queue /\ Completed(w).done # {} BY <1>0, MyQueueTyped
  <2>3. unblocked \in Queue
    <3>1. last \in Queue BY <1>0 DEF TypeOK, Kinds
    <3> QED BY <3>1 DEF Queue
  <2>4. ops \in [Objects -> [Kinds -> Queue]] BY <1>0 DEF TypeOK
  <2> HIDE DEF unblocked
  <2>5. /\ ops' \in [Objects -> [Kinds -> Queue]] /\ ops'[o]["delete_upload"] = Completed(w)
        /\ \A p \in Objects : p # o => ops'[p] = ops[p]
    BY <2>1, <2>2, <2>3, <2>4 DEF Kinds
  <2>6. obj' = obj /\ obj[o].upExp + MaxUploadDuration <= now BY <1>0, <1>1, <1>4 DEF rowVars
  <2>7. ASSUME NEW p \in Objects PROVE QueueMoves(p)
    BY <1>1, <1>4, <2>2, <2>5, <2>6 DEF QueueMoves, Cleared, Clearing, Pursued
  <2>8. HandStep /\ wk' \in [Workers -> Job]
    BY <1>0, <2>1, WorkersGoOn, WorkerMoves DEF JobMoves
  <2>9. TypeOK' BY <1>0, <2>5, <2>8 DEF TypeOK, rowVars, bucketVars
  <2> QED BY <1>0, <2>7, <2>8, <2>9, RowsStay, BytesStay DEF Step, TimeMoves
<1> QED BY <1>d, <1>1, <1>2, <1>3, <1>4

\* Steps that write rows, and leave time, bytes and targets alone.
LEMMA RowsWrittenIsStep ==
  ASSUME OInv, RowStep, HandStep, \A o \in Objects : QueueMoves(o),
         UNCHANGED <<now, bucketVars, faults>>,
         obj' \in [Objects -> Row], ops' \in [Objects -> [Kinds -> Queue]],
         alive' \subseteq Targets, icon' \in [IconTargets -> Objects \cup {None}],
         choice' \in [IconTargets -> Nat],
         req' \in [Requests -> Completion], wk' \in [Workers -> Job]
  PROVE  Step /\ TypeOK'
<1>1. TypeOK' BY DEF OInv, TypeOK, bucketVars
<1> QED BY <1>1, BytesStay DEF Step, TimeMoves

\* One row is written, of an object that is no icon.
LEMMA OneRowIsStep ==
  ASSUME OInv, NEW o \in Objects, NEW row \in Row, NEW q \in [Kinds -> Queue],
         obj' = [obj EXCEPT ![o] = row], ops' = [ops EXCEPT ![o] = q],
         RowMoves(o), QueueMoves(o), \A t \in IconTargets : icon[t] # o, HandStep,
         UNCHANGED <<now, alive, icon, choice, bucketVars, faults>>,
         req' \in [Requests -> Completion], wk' \in [Workers -> Job]
  PROVE  Step /\ TypeOK'
<1>0. TypeOK BY DEF OInv
<1>1. /\ obj' \in [Objects -> Row] /\ ops' \in [Objects -> [Kinds -> Queue]]
      /\ \A p \in Objects : p # o => obj'[p] = obj[p] /\ ops'[p] = ops[p]
  BY <1>0 DEF TypeOK
<1>2. \A p \in Objects : RowMoves(p) /\ QueueMoves(p) BY <1>1 DEF RowMoves, QueueMoves
<1>3. ASSUME NEW t \in IconTargets PROVE IconMoves(t) /\ ChoiceMoves(t)
  <2>1. icon[t] \in Objects \cup {None} BY <1>0 DEF TypeOK
  <2> QED BY <1>1, <2>1 DEF IconMoves, ChoiceMoves
<1>4. RowStep BY <1>2, <1>3 DEF RowStep
<1> QED BY <1>0, <1>1, <1>2, <1>4, RowsWrittenIsStep DEF TypeOK

\* Only ready objects are icons.
LEMMA UnreadyIsNoIcon ==
  ASSUME OInv, NEW o \in Objects, obj[o].status # "ready"
  PROVE  \A t \in IconTargets : icon[t] # o
BY StorageAssumption DEF OInv, IconIsReady

\* An upload is prepared.
LEMMA InitiateIsStep ==
  ASSUME OInv, NEW o \in Objects, NEW t \in Targets, InitiateUpload(o, t) PROVE Step /\ TypeOK'
<1> DEFINE row == [status |-> "pending", rev |-> 1, target |-> t,
                   expects |-> IF t \in IconTargets THEN icon[t] ELSE None,
                   seen |-> IF t \in IconTargets THEN choice[t] ELSE 0,
                   upExp |-> now + PresignTtl]
           e == Enqueued(ops[o]["reconcile"], 1, now + PresignTtl)
           q == [ops[o] EXCEPT !["reconcile"] = e]
<1>0. TypeOK /\ UNCHANGED <<now, alive, icon, choice, bucketVars, req, wk, faults>>
  BY DEF OInv, InitiateUpload
<1>1. obj' = [obj EXCEPT ![o] = row] /\ ops' = [ops EXCEPT ![o] = q] /\ obj[o].status = "none"
  BY DEF InitiateUpload
<1>2. row \in Row /\ row.status = "pending" /\ row.target = t
      /\ (t \in IconTargets => row.seen = choice[t])
  <2>1. now + PresignTtl \in Nat BY <1>0, StorageAssumption DEF TypeOK
  <2>2. t \in IconTargets => icon[t] \in Objects \cup {None} /\ choice[t] \in Nat
    BY <1>0 DEF TypeOK
  <2> QED BY <2>1, <2>2 DEF Row, Statuses
<1>3. ops[o] \in [Kinds -> Queue] /\ q \in [Kinds -> Queue]
      /\ q["delete_upload"] = ops[o]["delete_upload"]
  <2>1. ops[o] \in [Kinds -> Queue] BY <1>0, InstantsTyped
  <2>2. ops[o]["reconcile"] \in Queue BY <2>1 DEF Kinds
  <2>3. now + PresignTtl \in Nat BY <1>0, StorageAssumption DEF TypeOK
  <2>4. e \in Queue BY <2>2, <2>3, QueuesTyped
  <2> HIDE DEF e
  <2> QED BY <2>1, <2>4 DEF Kinds
<1> HIDE DEF row, q
<1>4. obj'[o] = row /\ ops'[o] = q BY <1>0, <1>1 DEF TypeOK
<1>5. RowMoves(o) BY <1>0, <1>1, <1>2, <1>4 DEF RowMoves
<1>6. QueueMoves(o)
  BY <1>1, <1>2, <1>3, <1>4 DEF QueueMoves, Cleared, Clearing
<1> QED BY <1>0, <1>1, <1>2, <1>3, <1>5, <1>6, UnreadyIsNoIcon, OneRowIsStep, HandsStay DEF TypeOK

\* An upload that was pending has failed, and its cleanup is queued.
LEMMA FailedRow ==
  ASSUME OInv, NEW o \in Objects, NEW q \in [Kinds -> Queue],
         obj[o].status = "pending", RowFree(o),
         obj' = [obj EXCEPT ![o].status = "failed", ![o].rev = @ + 1],
         ops' = [ops EXCEPT ![o] = q], q["delete_upload"].done = Clearing(o).done,
         HandStep, UNCHANGED <<now, alive, icon, choice, bucketVars, faults>>,
         req' \in [Requests -> Completion], wk' \in [Workers -> Job]
  PROVE  Step /\ TypeOK'
<1> DEFINE row == [obj[o] EXCEPT !.status = "failed", !.rev = @ + 1]
<1>0. TypeOK /\ obj \in [Objects -> Row] /\ ops \in [Objects -> [Kinds -> Queue]]
  BY DEF OInv, TypeOK
<1>1. row \in Row /\ row.status = "failed" /\ row.upExp = obj[o].upExp
  BY <1>0 DEF Row, Statuses
<1>2. obj' = [obj EXCEPT ![o] = row] BY <1>0
<1> HIDE DEF row
<1>3. obj'[o] = row /\ ops'[o] = q BY <1>0, <1>2
<1>4. RowMoves(o) BY <1>1, <1>3 DEF RowMoves, Changeable
<1>5. QueueMoves(o) BY <1>1, <1>3 DEF QueueMoves, Cleared, Clearing
<1> QED BY <1>1, <1>2, <1>4, <1>5, UnreadyIsNoIcon, OneRowIsStep

\* fail_upload.
LEMMA FailIsStep ==
  ASSUME OInv, NEW r \in Requests, FailUpload(r) PROVE Step /\ TypeOK'
<1>0. /\ TypeOK /\ RequestOK(r) /\ req[r].pc = "failing" /\ Ends(r) /\ RowFree(req[r].obj)
      /\ UNCHANGED <<now, alive, icon, choice, bucketVars, wk, faults>>
  BY DEF OInv, FailUpload
<1> PICK o \in Objects : o = req[r].obj BY <1>0 DEF RequestOK
<1>1. HandStep /\ req' \in [Requests -> Completion] /\ wk' \in [Workers -> Job]
  BY <1>0, RequestsGoOn, CompletionMoves DEF RequestMoves, TypeOK
<1>2. CASE obj[o].status = "pending"
  <2>1. /\ obj' = [obj EXCEPT ![o].status = "failed", ![o].rev = @ + 1]
        /\ ops' = [ops EXCEPT ![o] = Cleanup(o, obj[o].rev + 1)]
    BY <1>2 DEF FailUpload
  <2>2. obj[o].rev + 1 \in Nat BY <1>0, InstantsTyped
  <2>3. /\ Cleanup(o, obj[o].rev + 1) \in [Kinds -> Queue]
        /\ Cleanup(o, obj[o].rev + 1)["delete_upload"].done = Clearing(o).done
    BY <1>0, <2>2, CleanupIs
  <2> QED BY <1>0, <1>1, <1>2, <2>1, <2>3, FailedRow
<1>3. CASE obj[o].status # "pending"
  <2>1. UNCHANGED <<obj, ops>> BY <1>3 DEF FailUpload
  <2>2. UNCHANGED rowVars BY <1>0, <2>1 DEF rowVars
  <2> QED BY <1>0, <1>1, <2>1, <2>2, RowsStay, RowsWrittenIsStep DEF QueueMoves, TypeOK
<1> QED BY <1>2, <1>3

\* An upload that was never completed fails when its grant has ended.
LEMMA ReconcileIsStep ==
  ASSUME OInv, NEW w \in Workers, ReconcileUpload(w) PROVE Step /\ TypeOK'
<1>0. /\ TypeOK /\ wk[w].pc = "claimed" /\ wk[w].kind = "reconcile" /\ RowFree(wk[w].obj)
      /\ ~Outdated(w) /\ UNCHANGED <<now, alive, icon, choice, bucketVars, req, faults>>
  BY DEF OInv, ReconcileUpload, Takes
<1>1. wk[w].obj \in Objects BY <1>0, MyQueueTyped
<1>2. obj[wk[w].obj].status = "pending" BY <1>0 DEF Outdated, Applies
<1>3. obj[wk[w].obj].upExp \in Nat /\ obj[wk[w].obj].rev + 1 \in Nat
  BY <1>0, <1>1, InstantsTyped
<1>4. CASE UNCHANGED <<obj, ops>> /\ (WorksOn(w, "error") \/ Idles(w))
  BY <1>0, <1>4, LosingIsStep DEF rowVars
<1>5. CASE UNCHANGED obj /\ ops' = Replace(w, Deferred(w, obj[wk[w].obj].upExp, FALSE)) /\ Idles(w)
  <2>1. Deferred(w, obj[wk[w].obj].upExp, FALSE) \in Queue BY <1>0, <1>3, MyQueueTyped
  <2>2. UNCHANGED <<now, rowVars, bucketVars, req, faults>> BY <1>0, <1>5 DEF rowVars
  <2> QED BY <1>0, <1>1, <1>5, <2>1, <2>2, WriteBackIsStep
<1>6. ASSUME NEW o \in Objects, o = wk[w].obj, Idles(w),
             obj' = [obj EXCEPT ![o].status = "failed", ![o].rev = @ + 1],
             ops' = [ops EXCEPT ![o] =
                [k \in Kinds |->
                    CASE k = "reconcile"     -> Completed(w)
                      [] k = "delete_upload" -> Enqueued(ops[o][k], obj[o].rev + 1, StagingCleanupAt(o))
                      [] k = "delete"        -> Enqueued(ops[o][k], obj[o].rev + 1, now)]]
      PROVE  Step /\ TypeOK'
  <2> DEFINE q == [k \in Kinds |->
                    CASE k = "reconcile"     -> Completed(w)
                      [] k = "delete_upload" -> Enqueued(ops[o][k], obj[o].rev + 1, StagingCleanupAt(o))
                      [] k = "delete"        -> Enqueued(ops[o][k], obj[o].rev + 1, now)]
  <2>1. /\ Completed(w) \in Queue /\ StagingCleanupAt(o) \in Nat /\ now \in Nat
        /\ \A k \in Kinds : ops[o][k] \in Queue
    BY <1>0, MyQueueTyped, InstantsTyped
  <2>2. /\ q["reconcile"] = Completed(w)
        /\ q["delete_upload"] = Enqueued(Clearing(o), obj[o].rev + 1, StagingCleanupAt(o))
        /\ q["delete"] = Enqueued(ops[o]["delete"], obj[o].rev + 1, now)
        /\ q = [k \in Kinds |-> q[k]]
    BY DEF Kinds, Clearing
  <2>3. ops' = [ops EXCEPT ![o] = q] BY <1>6
  <2> HIDE DEF q
  <2>a. \A old \in Queue, avail \in Nat :
           /\ Enqueued(old, obj[o].rev + 1, avail) \in Queue
           /\ Enqueued(old, obj[o].rev + 1, avail).done = old.done
    <3>1. obj[o].rev + 1 \in Nat BY <1>0, InstantsTyped
    <3>2. \A old \in Queue, rev, avail \in Nat :
             Enqueued(old, rev, avail) \in Queue /\ Enqueued(old, rev, avail).done = old.done
      BY QueuesTyped
    <3> QED BY <3>1, <3>2
  <2>b. Clearing(o) \in Queue /\ ops[o]["delete"] \in Queue BY <2>1 DEF Clearing, Kinds
  <2>4. q \in [Kinds -> Queue]
    <3>1. q["reconcile"] \in Queue BY <2>1, <2>2
    <3>2. q["delete_upload"] \in Queue BY <2>1, <2>2, <2>a, <2>b
    <3>3. q["delete"] \in Queue BY <2>1, <2>2, <2>a, <2>b
    <3> QED BY <2>2, <3>1, <3>2, <3>3 DEF Kinds
  <2>5. q["delete_upload"].done = Clearing(o).done BY <2>1, <2>2, <2>a, <2>b
  <2>6. HandStep /\ wk' \in [Workers -> Job] /\ req' \in [Requests -> Completion]
    BY <1>0, <1>6, WorkersGoOn, WorkerMoves DEF JobMoves, TypeOK
  <2> QED BY <1>0, <1>2, <1>6, <2>3, <2>4, <2>5, <2>6, FailedRow
<1> QED BY <1>0, <1>1, <1>4, <1>5, <1>6 DEF ReconcileUpload

\* A row says deleted once the final key is erased.
LEMMA FinishDeleteIsStep ==
  ASSUME OInv, NEW w \in Workers, FinishDelete(w) PROVE Step /\ TypeOK'
<1>0. /\ TypeOK /\ JobOK(w) /\ wk[w].pc = "erased"
      /\ UNCHANGED <<now, alive, icon, choice, bucketVars, req, faults>>
  BY DEF OInv, FinishDelete
<1>1. /\ wk[w].obj \in Objects /\ wk[w].kind = "delete"
      /\ obj[wk[w].obj].status \in {"failed", "deleting"} /\ wk[w].obj \notin final
      /\ obj[wk[w].obj].status = "deleting" => Cleared(wk[w].obj)
      /\ Completed(w) \in Queue
  BY <1>0, MyQueueTyped DEF JobOK
<1>2. CASE UNCHANGED <<obj, ops>> /\ WorksOn(w, "error")
  BY <1>0, <1>2, LosingIsStep DEF rowVars
<1>3. CASE UNCHANGED obj /\ ops' = Replace(w, Completed(w)) /\ Idles(w)
  <2>1. UNCHANGED <<now, rowVars, bucketVars, req, faults>> BY <1>0, <1>3 DEF rowVars
  <2> QED BY <1>0, <1>1, <1>3, <2>1, WriteBackIsStep
<1>4. ASSUME NEW o \in Objects, o = wk[w].obj, obj[o].status = "deleting", Idles(w),
             obj' = [obj EXCEPT ![o].status = "deleted", ![o].rev = @ + 1],
             ops' = Replace(w, Completed(w))
      PROVE  Step /\ TypeOK'
  <2> DEFINE row == [obj[o] EXCEPT !.status = "deleted", !.rev = @ + 1]
             q == [ops[o] EXCEPT !["delete"] = Completed(w)]
  <2>0. obj \in [Objects -> Row] /\ ops \in [Objects -> [Kinds -> Queue]] BY <1>0 DEF TypeOK
  <2>1. row \in Row /\ row.status = "deleted" /\ row.upExp = obj[o].upExp
    <3>1. obj[o] \in Row /\ obj[o].rev + 1 \in Nat BY <1>0, InstantsTyped
    <3> QED BY <3>1 DEF Row, Statuses
  <2>2. /\ obj' = [obj EXCEPT ![o] = row] /\ ops' = [ops EXCEPT ![o] = q]
        /\ q \in [Kinds -> Queue] /\ q["delete_upload"] = Clearing(o)
    BY <1>1, <1>4, <2>0 DEF Replace, Clearing, Kinds
  <2> HIDE DEF row, q
  <2>3. obj'[o] = row /\ ops'[o] = q BY <2>0, <2>2
  <2>4. /\ HandStep /\ wk' \in [Workers -> Job] /\ req' \in [Requests -> Completion]
        /\ wk'[w].pc = "idle"
    BY <1>0, <1>4, WorkersGoOn, WorkerMoves DEF JobMoves, TypeOK
  <2>5. RowMoves(o) BY <1>0, <1>1, <1>4, <2>1, <2>3, <2>4 DEF RowMoves, Changeable, Removes
  <2>6. QueueMoves(o) BY <2>1, <2>2, <2>3 DEF QueueMoves, Cleared, Clearing
  <2> QED BY <1>0, <1>4, <2>1, <2>2, <2>4, <2>5, <2>6, UnreadyIsNoIcon, OneRowIsStep
<1> QED BY <1>0, <1>1, <1>2, <1>3, <1>4 DEF FinishDelete
\* An object that nobody else holds is given up.
LEMMA GivenUp ==
  ASSUME OInv, NEW o \in Objects, Doomed(o), Changeable(o), NEW S \in SUBSET Objects, o \in S,
         obj'[o].status = "deleting", obj'[o].rev = obj[o].rev + 1,
         obj'[o].upExp = obj[o].upExp, ops'[o] = OpsMarkedDeleting(S)[o]
  PROVE  RowMoves(o) /\ QueueMoves(o)
<1>0. TypeOK /\ obj \in [Objects -> Row] BY DEF OInv, TypeOK
<1>1. /\ Open(OpsMarkedDeleting(S)[o]["delete_upload"])
      /\ OpsMarkedDeleting(S)[o]["delete_upload"].rev = obj[o].rev + 1
      /\ OpsMarkedDeleting(S)[o]["delete_upload"].done = Clearing(o).done
  BY <1>0, MarkedIs
<1>2. Pursued(o)' BY <1>1 DEF Pursued, Clearing
<1>3. Cleared(o)' <=> Cleared(o) BY <1>1 DEF Cleared, Clearing
<1> QED BY <1>2, <1>3 DEF RowMoves, QueueMoves

\* A set of objects that nobody holds is given up.
LEMMA SetGivenUp ==
  ASSUME OInv, NEW S \in SUBSET Objects, \A o \in Objects : o \in S => RowFree(o),
         obj' = MarkedDeleting(obj, S), ops' = OpsMarkedDeleting(S)
  PROVE  /\ obj' \in [Objects -> Row] /\ ops' \in [Objects -> [Kinds -> Queue]]
         /\ \A o \in Objects :
               /\ RowMoves(o) /\ QueueMoves(o) /\ obj'[o].target = obj[o].target
               /\ o \in S /\ Doomed(o) => obj'[o].status = "deleting"
               /\ ~(o \in S /\ Doomed(o)) => obj'[o] = obj[o]
<1>0. TypeOK /\ obj \in [Objects -> Row] BY DEF OInv, TypeOK
<1>1. obj' \in [Objects -> Row] /\ ops' \in [Objects -> [Kinds -> Queue]]
  BY <1>0, MarkedTyped
<1>2. ASSUME NEW o \in Objects
      PROVE  /\ RowMoves(o) /\ QueueMoves(o) /\ obj'[o].target = obj[o].target
             /\ o \in S /\ Doomed(o) => obj'[o].status = "deleting"
             /\ ~(o \in S /\ Doomed(o)) => obj'[o] = obj[o]
  <2>1. CASE o \in S /\ Doomed(o)
    <3>1. /\ obj'[o].status = "deleting" /\ obj'[o].rev = obj[o].rev + 1
          /\ obj'[o].upExp = obj[o].upExp /\ obj'[o].target = obj[o].target
      BY <1>0, <2>1, MarkedIs
    <3>2. RowMoves(o) /\ QueueMoves(o) BY <2>1, <3>1, GivenUp DEF Changeable
    <3> QED BY <2>1, <3>1, <3>2
  <2>2. CASE ~(o \in S /\ Doomed(o))
    <3>1. obj'[o] = obj[o] /\ ops'[o] = ops[o] BY <1>0, <2>2, MarkedIs
    <3> QED BY <2>2, <3>1 DEF RowMoves, QueueMoves
  <2> QED BY <2>1, <2>2
<1> QED BY <1>1, <1>2

\* schedule_delete.
LEMMA DeleteObjectIsStep ==
  ASSUME OInv, NEW o \in Objects, DeleteObject(o) PROVE Step /\ TypeOK'
<1>0. /\ TypeOK /\ UNCHANGED <<now, alive, icon, choice, bucketVars, req, wk, faults>>
      /\ obj' = MarkedDeleting(obj, {o}) /\ ops' = OpsMarkedDeleting({o}) /\ RowFree(o)
      /\ ~IsAttached(o)
  BY DEF OInv, DeleteObject
<1>1. /\ obj' \in [Objects -> Row] /\ ops' \in [Objects -> [Kinds -> Queue]]
      /\ \A p \in Objects : RowMoves(p) /\ QueueMoves(p) /\ (p # o => obj'[p] = obj[p])
  <2> DEFINE S == {o}
  <2>1. /\ S \in SUBSET Objects /\ \A p \in Objects : p \in S => RowFree(p)
        /\ obj' = MarkedDeleting(obj, S) /\ ops' = OpsMarkedDeleting(S)
        /\ \A p \in Objects : p # o => p \notin S
    BY <1>0
  <2> HIDE DEF S
  <2> QED BY <2>1, SetGivenUp
<1>2. ASSUME NEW t \in IconTargets PROVE IconMoves(t) /\ ChoiceMoves(t)
  <2>1. icon[t] \in Objects \cup {None} BY <1>0 DEF TypeOK
  <2>2. icon[t] # None => icon[t] # o BY <1>0 DEF OInv, IconIsReady, IsAttached, IsIcon
  <2> QED BY <1>0, <1>1, <2>1, <2>2 DEF IconMoves, ChoiceMoves
<1>3. RowStep BY <1>1, <1>2 DEF RowStep
<1> QED BY <1>0, <1>1, <1>3, HandsStay, RowsWrittenIsStep DEF TypeOK

\* The icon is removed, and with it every draft.
LEMMA DeleteIconIsStep ==
  ASSUME OInv, NEW t \in IconTargets, DeleteCategoryIcon(t) PROVE Step /\ TypeOK'
<1> DEFINE ends == {icon[t]} \cup Drafts(t)
<1>0. /\ TypeOK /\ UNCHANGED <<now, alive, bucketVars, req, wk, faults>>
      /\ obj' = MarkedDeleting(obj, ends) /\ ops' = OpsMarkedDeleting(ends)
      /\ (\A o \in ends : RowFree(o)) /\ icon[t] # None
      /\ icon' = [icon EXCEPT ![t] = None] /\ choice' = [choice EXCEPT ![t] = @ + 1]
  BY DEF OInv, DeleteCategoryIcon
<1>1. /\ obj' \in [Objects -> Row] /\ ops' \in [Objects -> [Kinds -> Queue]]
      /\ \A o \in Objects :
            /\ RowMoves(o) /\ QueueMoves(o) /\ obj'[o].target = obj[o].target
            /\ o \in ends /\ Doomed(o) => obj'[o].status = "deleting"
            /\ ~(o \in ends /\ Doomed(o)) => obj'[o] = obj[o]
  <2>1. ends \in SUBSET Objects BY <1>0 DEF TypeOK, Drafts
  <2> HIDE DEF ends
  <2> QED BY <1>0, <2>1, SetGivenUp
<1>2. /\ icon \in [IconTargets -> Objects \cup {None}] /\ choice \in [IconTargets -> Nat]
  BY <1>0 DEF TypeOK
<1>3. ASSUME NEW c \in IconTargets PROVE IconMoves(c) /\ ChoiceMoves(c)
  <2>1. CASE c = t
    <3>1. icon'[t] = None BY <1>0, <1>2
    <3>2. \A o \in Objects : obj'[o].target = t => obj'[o].status # "pending"
      BY <1>1 DEF Drafts, Doomed
    <3> QED BY <2>1, <3>1, <3>2 DEF IconMoves, ChoiceMoves
  <2>2. CASE c # t
    <3>1. icon'[c] = icon[c] /\ choice'[c] = choice[c] BY <1>0, <1>2, <2>2
    <3>2. icon[c] # None => icon[c] \in Objects /\ icon[c] \notin ends
      BY <1>0, <1>2, <2>2 DEF OInv, IconIsReady, Drafts
    <3> QED BY <1>1, <3>1, <3>2 DEF IconMoves, ChoiceMoves
  <2> QED BY <2>1, <2>2
<1>4. RowStep BY <1>1, <1>3 DEF RowStep
<1>5. icon' \in [IconTargets -> Objects \cup {None}] /\ choice' \in [IconTargets -> Nat]
  BY <1>0, <1>2
<1> QED BY <1>0, <1>1, <1>4, <1>5, HandsStay, RowsWrittenIsStep DEF TypeOK
\* The target is deleted, and every object linked to it is given up.
LEMMA DeleteTargetIsStep ==
  ASSUME OInv, NEW t \in Targets, DeleteTarget(t) PROVE Step /\ TypeOK'
<1> DEFINE linked == {o \in Objects : obj[o].target = t}
           rows == MarkedDeleting(obj, linked)
<1>0. /\ TypeOK /\ UNCHANGED <<now, choice, bucketVars, req, wk, faults>>
      /\ (\A o \in linked : RowFree(o)) /\ alive' = alive \ {t}
      /\ icon' = [c \in IconTargets |-> IF c = t THEN None ELSE icon[c]]
      /\ obj' = [o \in Objects |-> [rows[o] EXCEPT !.target = IF o \in linked THEN None ELSE @]]
      /\ ops' = OpsMarkedDeleting(linked)
  BY DEF OInv, DeleteTarget
<1>1. /\ linked \in SUBSET Objects /\ obj \in [Objects -> Row]
      /\ icon \in [IconTargets -> Objects \cup {None}]
      /\ \A o \in Objects : o \in linked <=> obj[o].target = t
  BY <1>0 DEF TypeOK
<1>n. t # None BY StorageAssumption
<1> HIDE DEF linked
<1>2. rows \in [Objects -> Row] /\ ops' \in [Objects -> [Kinds -> Queue]]
  BY <1>0, <1>1, MarkedTyped
<1>3. ASSUME NEW o \in Objects
      PROVE  /\ obj'[o] \in Row /\ RowMoves(o) /\ QueueMoves(o)
             /\ o \notin linked => obj'[o] = obj[o]
             /\ o \in linked => obj'[o].target = None
  <2>1. obj[o] \in Row /\ rows[o] \in Row BY <1>1, <1>2
  <2>2. obj'[o] = [rows[o] EXCEPT !.target = IF o \in linked THEN None ELSE @] BY <1>0
  <2>3. CASE o \in linked /\ Doomed(o)
    <3>1. /\ rows[o].status = "deleting" /\ rows[o].rev = obj[o].rev + 1
          /\ rows[o].upExp = obj[o].upExp
      BY <1>0, <1>1, <2>3, MarkedIs
    <3> HIDE DEF rows
    <3>2. /\ obj'[o] \in Row /\ obj'[o].target = None /\ obj'[o].status = "deleting"
          /\ obj'[o].rev = obj[o].rev + 1 /\ obj'[o].upExp = obj[o].upExp
      BY <2>1, <2>2, <2>3, <3>1 DEF Row
    <3>3. RowMoves(o) /\ QueueMoves(o) BY <1>0, <1>1, <2>3, <3>2, GivenUp DEF Changeable
    <3> QED BY <2>3, <3>2, <3>3
  <2>4. CASE ~(o \in linked /\ Doomed(o))
    <3>1. rows[o] = obj[o] /\ ops'[o] = ops[o] BY <1>0, <1>1, <2>4, MarkedIs
    <3> HIDE DEF rows
    <3>2. /\ obj'[o] \in Row /\ obj'[o].status = obj[o].status /\ obj'[o].rev = obj[o].rev
          /\ obj'[o].upExp = obj[o].upExp
          /\ o \in linked => obj'[o].target = None
          /\ o \notin linked => obj'[o] = obj[o]
      BY <2>1, <2>2, <3>1 DEF Row
    <3>3. RowMoves(o) BY <1>0, <2>4, <3>2 DEF RowMoves, Doomed
    <3>4. QueueMoves(o) BY <3>1 DEF QueueMoves
    <3> QED BY <3>2, <3>3, <3>4
  <2> QED BY <2>3, <2>4
<1>4. obj' \in [Objects -> Row]
  <2>1. obj' = [o \in Objects |-> obj'[o]] BY <1>0
  <2> QED BY <1>3, <2>1
<1>5. ASSUME NEW c \in IconTargets PROVE IconMoves(c) /\ ChoiceMoves(c)
  <2>1. CASE c = t BY <1>0, <2>1 DEF IconMoves, ChoiceMoves
  <2>2. CASE c # t
    <3>1. icon'[c] = icon[c] BY <1>0, <2>2
    <3>2. icon[c] # None => icon[c] \in Objects /\ icon[c] \notin linked
      BY <1>1, <2>2 DEF OInv, IconIsReady
    <3> QED BY <1>0, <1>3, <3>1, <3>2 DEF IconMoves, ChoiceMoves
  <2> QED BY <2>1, <2>2
<1>6. RowStep BY <1>3, <1>5 DEF RowStep
<1>7. icon' \in [IconTargets -> Objects \cup {None}] /\ alive' \subseteq Targets
  BY <1>0, <1>1 DEF TypeOK
<1> QED BY <1>0, <1>2, <1>3, <1>4, <1>6, <1>7, HandsStay, RowsWrittenIsStep DEF TypeOK
\* What the promotion of an icon ends: the previous icon and every older draft.
Superseded(o) ==
    IF IsIcon(o) THEN ({icon[obj[o].target]} \cup Drafts(obj[o].target)) \ {o, None} ELSE {}

\* The commit of a promotion: what it writes, and what it ends.
LEMMA CommitWrites ==
  ASSUME OInv, NEW r \in Requests, CommitPromotion(r), NEW o \in Objects, o = req[r].obj
  PROVE  /\ obj[o].status = "pending" /\ o \in final /\ req[r].pc = "promoted"
         /\ req' \in [Requests -> Completion] /\ HandStep /\ Changeable(o)
         /\ obj' \in [Objects -> Row] /\ ops' \in [Objects -> [Kinds -> Queue]]
         /\ obj'[o].status = "ready" /\ obj'[o].target = obj[o].target
         /\ obj'[o].upExp = obj[o].upExp /\ ops'[o]["delete_upload"].done = Clearing(o).done
         /\ \A p \in Objects : p # o =>
               /\ RowMoves(p) /\ QueueMoves(p) /\ obj'[p].target = obj[p].target
               /\ p \in Superseded(o) /\ Doomed(p) => obj'[p].status = "deleting"
               /\ ~(p \in Superseded(o) /\ Doomed(p)) => obj'[p] = obj[p]
<1> DEFINE rows == [obj EXCEPT ![o].status = "ready", ![o].rev = @ + 1]
           ends == Superseded(o)
<1>0. /\ TypeOK /\ RequestOK(r) /\ req[r].pc = "promoted" /\ Ends(r)
      /\ UNCHANGED <<now, alive, bucketVars, wk, faults>>
  BY DEF OInv, CommitPromotion
<1>a. (\A p \in ends : RowFree(p)) /\ obj' = MarkedDeleting(rows, ends)
  BY DEF CommitPromotion, Superseded
<1>b. ops' = [OpsMarkedDeleting(ends) EXCEPT
            ![o]["reconcile"] = Closed(@),
            ![o]["delete_upload"] = Enqueued(@, obj[o].rev + 1, StagingCleanupAt(o))]
  BY DEF CommitPromotion, Superseded
<1>1. obj[o].status = "pending" /\ o \in final BY <1>0 DEF RequestOK, Promotes
<1>2. /\ req' \in [Requests -> Completion] /\ HandStep /\ req'[r].pc = "idle"
  BY <1>0, RequestsGoOn, CompletionMoves DEF RequestMoves
<1>3. Changeable(o) BY <1>0, <1>2 DEF Changeable, Promotes
<1>4. ends \in SUBSET Objects /\ o \notin ends
  <2>1. IsIcon(o) => obj[o].target \in IconTargets BY DEF IsIcon
  <2> QED BY <1>0, <2>1 DEF TypeOK, Drafts, Superseded
<1>5. /\ obj \in [Objects -> Row] /\ obj[o] \in Row /\ obj[o].rev + 1 \in Nat
      /\ StagingCleanupAt(o) \in Nat /\ Clearing(o) \in Queue /\ ops[o]["reconcile"] \in Queue
  BY <1>0, InstantsTyped DEF TypeOK, Kinds
<1>6. /\ rows \in [Objects -> Row] /\ rows[o].status = "ready" /\ rows[o].target = obj[o].target
      /\ rows[o].upExp = obj[o].upExp /\ \A p \in Objects : p # o => rows[p] = obj[p]
  BY <1>5 DEF Row, Statuses
<1> HIDE DEF rows, ends
<1>7. /\ obj' \in [Objects -> Row]
      /\ OpsMarkedDeleting(ends) \in [Objects -> [Kinds -> Queue]]
  BY <1>0, <1>a, <1>4, <1>6, MarkedTyped
<1>8. obj'[o] = rows[o] /\ OpsMarkedDeleting(ends)[o] = ops[o]
  BY <1>0, <1>a, <1>4, <1>6, MarkedIs
<1>9. /\ ops' \in [Objects -> [Kinds -> Queue]]
      /\ ops'[o]["delete_upload"].done = Clearing(o).done
      /\ \A p \in Objects : p # o => ops'[p] = OpsMarkedDeleting(ends)[p]
  <2>1. /\ Closed(ops[o]["reconcile"]) \in Queue
        /\ Enqueued(Clearing(o), obj[o].rev + 1, StagingCleanupAt(o)) \in Queue
        /\ Enqueued(Clearing(o), obj[o].rev + 1, StagingCleanupAt(o)).done = Clearing(o).done
    <3>1. \A old \in Queue, rev, avail \in Nat :
             /\ Closed(old) \in Queue
             /\ Enqueued(old, rev, avail) \in Queue /\ Enqueued(old, rev, avail).done = old.done
      BY QueuesTyped
    <3> QED BY <1>5, <3>1
  <2> DEFINE given == OpsMarkedDeleting(ends)
             closed == Closed(ops[o]["reconcile"])
             queued == Enqueued(Clearing(o), obj[o].rev + 1, StagingCleanupAt(o))
  <2>2. given[o]["reconcile"] = ops[o]["reconcile"]
        /\ given[o]["delete_upload"] = Clearing(o)
    BY <1>8 DEF Clearing
  <2>3. ops' = [given EXCEPT ![o]["reconcile"] = closed, ![o]["delete_upload"] = queued]
    <3>1. given \in [Objects -> [Kinds -> Queue]] BY <1>7
    <3> HIDE DEF given
    <3> QED BY <1>b, <2>2, <3>1 DEF given, Kinds
  <2>4. given \in [Objects -> [Kinds -> Queue]] /\ closed \in Queue /\ queued \in Queue
        /\ queued.done = Clearing(o).done
    BY <1>7, <2>1
  <2> HIDE DEF given, closed, queued
  <2>5. /\ ops' \in [Objects -> [Kinds -> Queue]] /\ ops'[o]["delete_upload"] = queued
        /\ \A p \in Objects : p # o => ops'[p] = given[p]
    BY <2>3, <2>4 DEF Kinds
  <2> QED BY <2>4, <2>5 DEF given
<1>10. ASSUME NEW p \in Objects, p # o
       PROVE  /\ RowMoves(p) /\ QueueMoves(p) /\ obj'[p].target = obj[p].target
              /\ p \in ends /\ Doomed(p) => obj'[p].status = "deleting"
              /\ ~(p \in ends /\ Doomed(p)) => obj'[p] = obj[p]
  <2>0. rows[p] = obj[p] /\ ops'[p] = OpsMarkedDeleting(ends)[p] BY <1>6, <1>9, <1>10
  <2>1. CASE p \in ends /\ Doomed(p)
    <3>1. /\ obj'[p].status = "deleting" /\ obj'[p].rev = obj[p].rev + 1
          /\ obj'[p].upExp = obj[p].upExp /\ obj'[p].target = obj[p].target
      BY <1>0, <1>a, <1>4, <1>6, <2>0, <2>1, MarkedIs
    <3>2. Changeable(p) BY <1>a, <2>1 DEF Changeable
    <3>3. RowMoves(p) /\ QueueMoves(p) BY <1>4, <2>0, <2>1, <3>1, <3>2, GivenUp
    <3> QED BY <2>1, <3>1, <3>3
  <2>2. CASE ~(p \in ends /\ Doomed(p))
    <3>1. obj'[p] = obj[p] /\ ops'[p] = ops[p] BY <1>0, <1>a, <1>4, <1>6, <2>0, <2>2, MarkedIs
    <3> QED BY <2>2, <3>1 DEF RowMoves, QueueMoves
  <2> QED BY <2>1, <2>2
<1> QED BY <1>0, <1>1, <1>2, <1>3, <1>6, <1>7, <1>8, <1>9, <1>10 DEF ends

\* The upload is complete, and for an icon all that came before it ends.
LEMMA CommitIsStep ==
  ASSUME OInv, NEW r \in Requests, CommitPromotion(r) PROVE Step /\ TypeOK'
<1>0. TypeOK /\ RequestOK(r) /\ req[r].pc = "promoted" BY DEF OInv, CommitPromotion
<1> PICK o \in Objects : o = req[r].obj BY <1>0 DEF RequestOK
<1> DEFINE t == obj[o].target
           ends == Superseded(o)
<1>1. /\ UNCHANGED <<now, alive, bucketVars, wk, faults>>
      /\ icon' = IF IsIcon(o) THEN [icon EXCEPT ![t] = o] ELSE icon
      /\ choice' = IF IsIcon(o) THEN [choice EXCEPT ![t] = @ + 1] ELSE choice
  BY DEF CommitPromotion
<1>2. /\ obj[o].status = "pending" /\ o \in final /\ HandStep /\ Changeable(o)
      /\ req' \in [Requests -> Completion]
      /\ obj' \in [Objects -> Row] /\ ops' \in [Objects -> [Kinds -> Queue]]
      /\ obj'[o].status = "ready" /\ obj'[o].target = t
      /\ obj'[o].upExp = obj[o].upExp /\ ops'[o]["delete_upload"].done = Clearing(o).done
      /\ \A p \in Objects : p # o =>
            /\ RowMoves(p) /\ QueueMoves(p) /\ obj'[p].target = obj[p].target
            /\ p \in ends /\ Doomed(p) => obj'[p].status = "deleting"
            /\ ~(p \in ends /\ Doomed(p)) => obj'[p] = obj[p]
  BY CommitWrites
<1>3. RowMoves(o) BY <1>2 DEF RowMoves
<1>4. QueueMoves(o) BY <1>2 DEF QueueMoves, Cleared, Clearing
<1>5. /\ icon \in [IconTargets -> Objects \cup {None}] /\ choice \in [IconTargets -> Nat]
      /\ (IsIcon(o) => t \in IconTargets)
      /\ \A c \in IconTargets : icon[c] # o
  BY <1>0, <1>2, UnreadyIsNoIcon DEF TypeOK, IsIcon
<1>6. ASSUME NEW c \in IconTargets PROVE IconMoves(c) /\ ChoiceMoves(c)
  <2>1. CASE IsIcon(o) /\ c = t
    <3>1. icon'[c] = o BY <1>1, <1>5, <2>1
    <3>2. \A p \in Objects : obj'[p].target = c => obj'[p].status # "pending"
      <4> SUFFICES ASSUME NEW p \in Objects, obj'[p].target = c PROVE obj'[p].status # "pending"
        OBVIOUS
      <4>1. CASE p = o BY <1>2, <4>1
      <4>2. CASE p # o /\ p \in ends /\ Doomed(p)
        <5> HIDE DEF ends
        <5> QED BY <1>2, <4>2
      <4>3. CASE p # o /\ ~(p \in ends /\ Doomed(p))
        <5>1. obj'[p] = obj[p] BY <1>2, <4>3
        <5>2. p # None BY StorageAssumption
        <5> QED BY <2>1, <4>3, <5>1, <5>2 DEF Drafts, Superseded, Doomed
      <4> QED BY <4>1, <4>2, <4>3
    <3> QED BY <1>2, <2>1, <3>1, <3>2 DEF IconMoves, ChoiceMoves
  <2>2. CASE ~(IsIcon(o) /\ c = t)
    <3>1. icon'[c] = icon[c] /\ choice'[c] = choice[c] BY <1>1, <1>5, <2>2
    <3>2. icon[c] # None => icon[c] \in Objects /\ icon[c] # o /\ icon[c] \notin ends
      <4> SUFFICES ASSUME icon[c] # None, icon[c] \in ends PROVE FALSE BY <1>5
      <4>1. obj[icon[c]].target = c BY DEF OInv, IconIsReady
      <4>2. IsIcon(o) /\ icon[c] \in {icon[t]} \cup Drafts(t) BY DEF Superseded
      <4>3. icon[c] # icon[t] BY <1>5, <2>2, <4>1, <4>2 DEF OInv, IconIsReady
      <4> QED BY <2>2, <4>1, <4>2, <4>3 DEF Drafts
    <3> QED BY <1>2, <3>1, <3>2 DEF IconMoves, ChoiceMoves
  <2> QED BY <2>1, <2>2
<1>7. RowStep BY <1>2, <1>3, <1>6 DEF RowStep
<1>8. icon' \in [IconTargets -> Objects \cup {None}] /\ choice' \in [IconTargets -> Nat]
  BY <1>1, <1>5
<1>9. \A p \in Objects : QueueMoves(p) BY <1>2, <1>4
<1> QED BY <1>0, <1>1, <1>2, <1>7, <1>8, <1>9, RowsWrittenIsStep DEF TypeOK
----------------------------------------------------------------------------
(* The theorems.                                                            *)

\* At first there are no objects, nothing is stored and nobody works.
LEMMA OInvInit == Init => OInv
<1> SUFFICES ASSUME Init PROVE OInv OBVIOUS
<1>1. /\ \A o \in Objects : obj[o] = NoRow /\ ops[o] = [k \in Kinds |-> NoQueue]
      /\ \A r \in Requests : req[r] = NoCompletion
      /\ \A w \in Workers : wk[w] = NoJob
      /\ \A t \in IconTargets : icon[t] = None
      /\ staged = {} /\ final = {} /\ puts = {}
  BY DEF Init
<1>2. TypeOK
  <2>1. obj \in [Objects -> Row] BY NothingTyped DEF Init
  <2>2. ops \in [Objects -> [Kinds -> Queue]] BY NothingTyped DEF Init
  <2>3. req \in [Requests -> Completion] /\ wk \in [Workers -> Job] BY NothingTyped DEF Init
  <2> QED BY <2>1, <2>2, <2>3 DEF Init, TypeOK
<1>3. (\A r \in Requests : ~Promotes(r)) /\ (\A w \in Workers : ~Removes(w))
  BY <1>1, NothingTyped DEF Promotes, Removes
<1>4. OneHolder /\ IconIsReady BY <1>1, <1>3 DEF OneHolder, IconIsReady
<1>5. \A r \in Requests : RequestOK(r) BY <1>1, NothingTyped DEF RequestOK, Promotes
<1>6. \A w \in Workers : JobOK(w) BY <1>1, NothingTyped DEF JobOK
<1>7. ASSUME NEW o \in Objects PROVE ObjectOK(o)
  <2>1. /\ obj[o].status = "none"
        /\ \A k \in Kinds : ops[o][k].status = "none" /\ ~ops[o][k].wait /\ ops[o][k].done = {}
    BY <1>1, NothingTyped
  <2>2. ~Cleared(o) BY <2>1 DEF Cleared, Clearing, Kinds
  <2> QED BY <1>1, <2>1, <2>2 DEF ObjectOK, Unborn, StagingOK, DraftOK
<1> QED BY <1>2, <1>4, <1>5, <1>6, <1>7 DEF OInv

\* Every operation of the API, the workers and the browsers is one of the steps above.
LEMMA NextIsStep == OInv /\ Next => Step /\ TypeOK'
<1> SUFFICES ASSUME OInv, Next PROVE Step /\ TypeOK' OBVIOUS
<1>1. CASE \E o \in Objects, t \in Targets : InitiateUpload(o, t) BY <1>1, InitiateIsStep
<1>2. CASE \E r \in Requests : \/ \E o \in Objects : BeginCompletion(r, o)
                               \/ Completing(r) \/ RequestDies(r)
  BY <1>2, ReadingIsStep, CopyIsStep, CommitIsStep, FailIsStep DEF Completing
<1>3. CASE \E t \in IconTargets : DeleteCategoryIcon(t) BY <1>3, DeleteIconIsStep
<1>4. CASE \E t \in Targets : DeleteTarget(t) BY <1>4, DeleteTargetIsStep
<1>5. CASE \E o \in Objects : DeleteObject(o) \/ StartPut(o) \/ EndPut(o)
  BY <1>5, DeleteObjectIsStep, UploadIsStep
<1>6. CASE \E o \in Objects, k \in Kinds :
              \/ EnqueueMissing(o, k) \/ RecoverStaleClaim(o, k)
              \/ WaitElapses(o, k) \/ ClaimGoesStale(o, k)
              \/ \E w \in Workers : ClaimOperation(w, o, k)
  BY <1>6, QueuePassIsStep, ClaimIsStep
<1>7. CASE \E w \in Workers : Working(w) \/ DeleteFails(w) \/ WorkerDies(w)
  BY <1>7, EndingIsStep, ReconcileIsStep, RemovalIsStep, FinishDeleteUploadIsStep,
     BeginDeleteIsStep, FinishDeleteIsStep
  DEF Working
<1>8. CASE Tick BY <1>8, UploadIsStep
<1> QED BY <1>1, <1>2, <1>3, <1>4, <1>5, <1>6, <1>7, <1>8 DEF Next

\* So the invariant is inductive.
LEMMA NextKeepsOInv == OInv /\ [Next]_vars => OInv'
<1> SUFFICES ASSUME OInv, [Next]_vars PROVE OInv' OBVIOUS
<1>1. CASE Next BY <1>1, NextIsStep, StepKeepsOInv
<1>2. CASE UNCHANGED vars
  BY <1>2 DEF vars, rowVars, bucketVars, OInv, TypeOK, OneHolder, IconIsReady, RequestOK, JobOK,
     ObjectOK, Unborn, StagingOK, DraftOK, Pursued, Cleared, Clearing, Promotes, Removes, IsIcon
<1> QED BY <1>1, <1>2

\* In every reachable state a row has one holder, what a request or a worker read
\* under its lock is so, and rows, queue and bucket agree.
THEOREM ObjectsInvariance == Spec => []OInv
<1>1. Init => OInv BY OInvInit
<1>2. OInv /\ [Next]_vars => OInv' BY NextKeepsOInv
<1> QED BY <1>1, <1>2, PTL DEF Spec

\* TypeOK.
THEOREM ObjectsTyped == Spec => []TypeOK
<1>1. OInv => TypeOK BY DEF OInv
<1> QED BY <1>1, ObjectsInvariance, PTL

\* ReadyHasBytes: whatever workers, retries, late cleanups and failed completions do,
\* an object offered for download has its bytes.
THEOREM ReadyObjectsHaveBytes == Spec => []ReadyHasBytes
<1>1. OInv => ReadyHasBytes BY DEF OInv, ObjectOK, ReadyHasBytes
<1> QED BY <1>1, ObjectsInvariance, PTL

\* IconIsReady: the icon of a category is a ready object of that category.
THEOREM IconsAreReady == Spec => []IconIsReady
<1>1. OInv => IconIsReady BY DEF OInv
<1> QED BY <1>1, ObjectsInvariance, PTL

\* DeletedIsGone: a deleted object has no bytes, and no upload is under way that could
\* bring any back.
THEOREM DeletedObjectsAreGone == Spec => []DeletedIsGone
<1>1. OInv => DeletedIsGone
  <2> SUFFICES ASSUME OInv, NEW o \in Objects, obj[o].status = "deleted"
               PROVE  o \notin staged \cup final \cup puts
    BY DEF DeletedIsGone
  <2>1. Cleared(o) /\ o \notin final /\ StagingOK(o) BY DEF OInv, ObjectOK
  <2>2. now \in Nat /\ obj[o].upExp + MaxUploadDuration \in Nat
    BY InstantsTyped, StorageAssumption DEF OInv
  <2>3. o \notin staged /\ o \notin puts BY <2>1, <2>2 DEF StagingOK
  <2> QED BY <2>1, <2>3
<1> QED BY <1>1, ObjectsInvariance, PTL

\* Only the commit of a promotion chooses an icon.
LEMMA OnlyCommitsChoose ==
  ASSUME Next, TypeOK, NEW t \in IconTargets, icon'[t] # icon[t], icon'[t] # None
  PROVE  \E r \in Requests : CommitPromotion(r)
<1> SUFFICES ASSUME \A r \in Requests : ~CommitPromotion(r) PROVE FALSE OBVIOUS
<1>1. icon \in [IconTargets -> Objects \cup {None}] BY DEF TypeOK
<1>2. ASSUME NEW c \in IconTargets, DeleteCategoryIcon(c) PROVE FALSE
  BY <1>1, <1>2 DEF DeleteCategoryIcon
<1>3. ASSUME NEW c \in Targets, DeleteTarget(c) PROVE FALSE BY <1>3 DEF DeleteTarget
<1>4. CASE \E r \in Requests : \/ \E o \in Objects : BeginCompletion(r, o)
                               \/ Completing(r) \/ RequestDies(r)
  BY <1>4 DEF Completing, BeginCompletion, OpenPromotion, CopyToFinalKey, PromotionRefused,
              FailUpload, RequestDies, rowVars
<1>5. CASE \E w \in Workers : Working(w) \/ DeleteFails(w) \/ WorkerDies(w)
  BY <1>5 DEF Working, DeleteFails, WorkerDies, CancelOutdated, ReconcileUpload, BeginDeleteUpload,
              ClearStaging, FinishDeleteUpload, BeginDelete, EraseFinal, FinishDelete,
              ScheduleRetry, rowVars
<1>6. CASE \E o \in Objects : \/ \E c \in Targets : InitiateUpload(o, c)
                             \/ DeleteObject(o) \/ StartPut(o) \/ EndPut(o)
  BY <1>6 DEF InitiateUpload, DeleteObject, StartPut, EndPut, rowVars
<1>7. CASE \E o \in Objects, k \in Kinds :
             \/ EnqueueMissing(o, k) \/ RecoverStaleClaim(o, k)
             \/ WaitElapses(o, k) \/ ClaimGoesStale(o, k)
             \/ \E w \in Workers : ClaimOperation(w, o, k)
  <2> SUFFICES ASSUME NEW o \in Objects, NEW k \in Kinds,
                      \/ EnqueueMissing(o, k) \/ RecoverStaleClaim(o, k)
                      \/ WaitElapses(o, k) \/ ClaimGoesStale(o, k)
                      \/ \E w \in Workers : ClaimOperation(w, o, k)
               PROVE  icon' = icon
    BY <1>7
  <2>1. CASE EnqueueMissing(o, k) BY <2>1 DEF EnqueueMissing, rowVars
  <2>2. CASE RecoverStaleClaim(o, k) BY <2>2 DEF RecoverStaleClaim, rowVars
  <2>3. CASE WaitElapses(o, k) BY <2>3 DEF WaitElapses, rowVars
  <2>4. CASE ClaimGoesStale(o, k) BY <2>4 DEF ClaimGoesStale, rowVars
  <2>5. ASSUME NEW w \in Workers, ClaimOperation(w, o, k) PROVE icon' = icon
    BY <2>5 DEF ClaimOperation, rowVars
  <2> QED BY <2>1, <2>2, <2>3, <2>4, <2>5
<1>8. CASE Tick BY <1>8 DEF Tick, rowVars
<1> QED BY <1>2, <1>3, <1>4, <1>5, <1>6, <1>7, <1>8 DEF Next

\* NewestChoiceWins: an upload prepared before the last choice never becomes the icon,
\* however often the pointer has come back to what the upload expects.
THEOREM NewestIconWins == Spec => NewestChoiceWins
<1>1. OInv /\ [Next]_vars =>
         [\A t \in IconTargets :
             icon'[t] # icon[t] /\ icon'[t] # None => obj[icon'[t]].seen = choice[t]]_vars
  <2> SUFFICES ASSUME OInv, Next, NEW t \in IconTargets, icon'[t] # icon[t], icon'[t] # None
               PROVE  obj[icon'[t]].seen = choice[t]
    OBVIOUS
  <2>1. TypeOK /\ icon \in [IconTargets -> Objects \cup {None}] BY DEF OInv, TypeOK
  <2> PICK r \in Requests : CommitPromotion(r) BY <2>1, OnlyCommitsChoose
  <2>2. RequestOK(r) /\ req[r].pc = "promoted" BY DEF OInv, CommitPromotion
  <2> PICK o \in Objects : o = req[r].obj BY <2>2 DEF RequestOK
  <2>3. icon' = IF IsIcon(o) THEN [icon EXCEPT ![obj[o].target] = o] ELSE icon
    BY DEF CommitPromotion
  <2>4. IsIcon(o) /\ obj[o].target = t /\ icon'[t] = o BY <2>1, <2>3 DEF IsIcon
  <2>5. obj[o].status = "pending" /\ DraftOK(o) BY <2>2 DEF RequestOK, Promotes, OInv, ObjectOK
  <2> QED BY <2>4, <2>5 DEF DraftOK
<1> QED BY <1>1, ObjectsInvariance, PTL DEF Spec, NewestChoiceWins
=============================================================================
