----------------------------- MODULE NvmeQueue -----------------------------
(***************************************************************************)
(* An NVMe completion queue (the NCQ) and the submission queues attached   *)
(* to it, as the driver and the controller share them: commands copied     *)
(* into a ring and announced by a doorbell, completions found by a phase   *)
(* bit, doorbells replaced by shadow memory and an event index, interrupts *)
(* that get lost and the timeout handler that polls for them.              *)
(*                                                                         *)
(* All the submission queues share the tags of their NCQ, of which there   *)
(* are one fewer than queue entries.  Tags are alike, so the lowest free   *)
(* one is taken.  The controller is external: it does what the driver's    *)
(* code and comments expect of one.  An action is a stretch of code with   *)
(* one access to what others change without the same lock.                 *)
(***************************************************************************)
EXTENDS Integers, Sequences, FiniteSets, FiniteSetsExt, Functions

CONSTANTS
  Sqs,        \* the submission queues of the NCQ
  HasCq,      \* those created together with a completion queue
  Depth,      \* nvmeq->q_depth, of every queue
  Setups,     \* the ways the queues may be driven: NVMEQ_POLLED or not, the
              \* doorbells that have a shadow, the submission queues in use, those
              \* whose requests may time out, ctrl.abort_limit, and two bounds: the
              \* requests in a plug list and the interrupts that get lost
  None

Width == 2 ^ 16
Tags  == 0 .. Depth - 2
Slots == 0 .. Depth - 1
Cq    == "cq"
Bells == Sqs \cup {Cq}                 \* each ring has one doorbell
Consumers == {"irq", "poll", "timeout"}

ASSUME QueueAssumption ==
  /\ Depth \in 2 .. Width - 1 /\ Cq \notin Sqs
  /\ HasCq \subseteq Sqs
  /\ Setups \subseteq [polled : BOOLEAN, shadow : SUBSET Bells, sqs : SUBSET Sqs,
                       timed : SUBSET HasCq, limit : Nat, batch : Nat, lost : Nat]
  /\ None \notin Tags

VARIABLES
  setup,    \* which of Setups this is
  rq,       \* what the driver knows of each tag's request
  tail,     \* nvmeq->sq_tail
  last,     \* nvmeq->last_sq_tail
  mem,      \* nvmeq->sq_cmds
  lock,     \* who is inside nvmeq->sq_lock, and where
  owed,     \* the block layer still has to commit or to queue a last request
  batch,    \* nvme_queue_rqs(): the rest of the list and what is prepared
  shadow,   \* *nvmeq->dbbuf_sq_db and *nvmeq->dbbuf_cq_db
  old,      \* old_value of whoever writes the doorbell
  ei,       \* *nvmeq->dbbuf_sq_ei and *nvmeq->dbbuf_cq_ei
  seen,     \* the doorbell values the controller knows
  sleep,    \* whether the controller has stopped looking at the shadow
  fetch,    \* the controller's head in each submission queue
  inside,   \* commands the controller works on
  post,     \* the controller's tail in the completion queue, and its phase
  cqe,      \* nvmeq->cqes
  head,     \* nvmeq->cq_head and nvmeq->cq_phase
  cpc,      \* where each consumer of the completion queue is
  irq,      \* an interrupt is pending
  masked,   \* the vector is disabled
  polling,  \* nvmeq->cq_poll_lock is held
  late,     \* the request nvme_timeout() works for, and what it knew
  aborts,   \* abort commands outstanding
  lost,     \* interrupts that may still get lost
  stopped   \* the controller is being reset

driverVars == <<rq, tail, last, mem, lock, owed, batch>>
bellVars   == <<shadow, old, ei, seen, sleep>>
ctrlVars   == <<fetch, inside, post, cqe>>
cqVars     == <<head, cpc, irq, masked, polling>>
timeVars   == <<late, aborts, lost, stopped>>
vars == <<setup, driverVars, bellVars, ctrlVars, cqVars, timeVars>>

-----------------------------------------------------------------------------
(* Rings.  Doorbell arithmetic is on 16-bit values, whatever the depth.    *)

U16(x)    == x % Width
Advance(i) == IF i + 1 = Depth THEN 0 ELSE i + 1
Span(a, b) == {i \in Slots : IF a <= b THEN a <= i /\ i < b ELSE i >= a \/ i < b}

(* Mutant of NeedEvent: the comparison is off by one. *)
NeedEventLate(event, new, was) == U16(new - event) < U16(new - was)

NeedEvent(event, new, was) == U16(new - event - 1) < U16(new - was)

(* nvme_dbbuf_update_and_check_event(), first half, or a plain MMIO write. *)
WriteBell(d, value) ==
  IF d \in setup.shadow
  THEN /\ old' = [old EXCEPT ![d] = shadow[d]]
       /\ shadow' = [shadow EXCEPT ![d] = value]
       /\ UNCHANGED <<ei, seen, sleep>>
  ELSE /\ seen' = [seen EXCEPT ![d] = value]
       /\ UNCHANGED <<shadow, old, ei, sleep>>

(* Second half: ring if the value has passed the event index. *)
CheckEvent(d, value) ==
  /\ IF NeedEvent(ei[d], value, old[d])
     THEN /\ seen' = [seen EXCEPT ![d] = value]
          /\ sleep' = [sleep EXCEPT ![d] = "awake"]
     ELSE UNCHANGED <<seen, sleep>>
  /\ old' = [old EXCEPT ![d] = 0]
  /\ UNCHANGED <<shadow, ei>>

(* Where the commands are. *)
Unfetched(q) == Span(fetch[q], tail[q])
Unhandled    == Span(head.at, post.at)
Queued(q)    == {mem[q][i] : i \in Unfetched(q)}
Posted       == {cqe[i].tag : i \in Unhandled}

NoLate == [tag |-> None, pc |-> "idle", posted |-> FALSE]
Idle   == [st |-> "idle", sq |-> None, aborted |-> FALSE]
Flight(q) == [st |-> "flight", sq |-> q, aborted |-> FALSE]

(* A request whose timeout is being handled keeps its tag: the block layer *)
(* holds a reference to it.                                                *)
FreeTags == {t \in Tags : rq[t].st = "idle" /\ late.tag # t}

InitWith(w) ==
  /\ setup = w
  /\ rq = [t \in Tags |-> Idle]
  /\ tail = [q \in Sqs |-> 0] /\ last = [q \in Sqs |-> 0]
  /\ mem = [q \in Sqs |-> [i \in Slots |-> None]]
  /\ lock = [q \in Sqs |-> "free"] /\ owed = [q \in Sqs |-> FALSE]
  /\ batch = [list |-> <<>>, ready |-> <<>>]
  /\ shadow = [d \in Bells |-> 0] /\ old = [d \in Bells |-> 0]
  /\ ei = [d \in Bells |-> 0] /\ seen = [d \in Bells |-> 0]
  /\ sleep = [d \in Bells |-> "awake"]
  /\ fetch = [q \in Sqs |-> 0] /\ inside = {}
  /\ post = [at |-> 0, phase |-> 1]
  /\ cqe = [i \in Slots |-> [tag |-> None, phase |-> 0]]
  /\ head = [at |-> 0, phase |-> 1]
  /\ cpc = [c \in Consumers |-> "idle"]
  /\ irq = FALSE /\ masked = FALSE /\ polling = FALSE
  /\ late = NoLate /\ aborts = 0 /\ lost = w.lost /\ stopped = FALSE

(* nvme_init_queue() and nvme_dbbuf_init(). *)
Init == \E w \in Setups : InitWith(w)

-----------------------------------------------------------------------------
(* Submission.                                                             *)

(* nvme_sq_copy_cmd(), for each of the requests ts in turn. *)
CopyTo(q, ts) ==
  LET n == Len(ts)
      slot(k) == (tail[q] + k - 1) % Depth
  IN /\ mem' = [mem EXCEPT ![q] = [i \in Slots |->
                  IF \E k \in 1 .. n : slot(k) = i
                  THEN ts[CHOOSE k \in 1 .. n : slot(k) = i] ELSE @[i]]]
     /\ tail' = [tail EXCEPT ![q] = slot(n + 1)]

(* nvme_write_sq_db(): asked to, or the next command would wrap.  t is the *)
(* tail after the copy.                                                    *)
RingNow(q, t, isLast) == isLast \/ Advance(t) = last[q]

(* nvme_write_sq_db() once the copies have made t the tail.  The copies    *)
(* are invisible to the controller until then, so both are one action;     *)
(* with a shadow doorbell the event index is read in a second one.         *)
WriteSqDb(q, t, ring) ==
  IF ~ring THEN UNCHANGED <<lock, last, bellVars>>
  ELSE /\ WriteBell(q, t)
       /\ IF q \in setup.shadow
          THEN lock' = [lock EXCEPT ![q] = "event"] /\ UNCHANGED last
          ELSE last' = [last EXCEPT ![q] = t] /\ UNCHANGED lock

CheckSqEvent(q) ==
  /\ ~stopped /\ lock[q] = "event"
  /\ CheckEvent(q, tail[q])
  /\ lock' = [lock EXCEPT ![q] = "free"]
  /\ last' = [last EXCEPT ![q] = tail[q]]
  /\ UNCHANGED <<setup, rq, tail, mem, owed, batch, ctrlVars, cqVars, timeVars>>

(* nvme_queue_rq(): the command is copied and, if it must be, announced.   *)
(* A request whose preparation fails goes back to the block layer and      *)
(* leaves no trace here.                                                   *)
QueueRq(q, isLast) ==
  /\ ~stopped /\ q \in setup.sqs /\ lock[q] = "free" /\ FreeTags # {}
  /\ LET t == Min(FreeTags) IN
     /\ rq' = [rq EXCEPT ![t] = Flight(q)]
     /\ CopyTo(q, <<t>>)
  /\ WriteSqDb(q, tail'[q], RingNow(q, tail'[q], isLast))
  /\ owed' = [owed EXCEPT ![q] = ~isLast]
  /\ UNCHANGED <<setup, batch, ctrlVars, cqVars, timeVars>>

(* Mutant of CommitRqs: it leaves the doorbell to the next request. *)
CommitRqsLazy(q) ==
  /\ ~stopped /\ lock[q] = "free" /\ owed[q]
  /\ owed' = [owed EXCEPT ![q] = FALSE]
  /\ UNCHANGED <<setup, rq, tail, last, mem, lock, batch, bellVars, ctrlVars, cqVars, timeVars>>

(* nvme_commit_rqs(): rings if anything was copied since the last ring. *)
CommitRqs(q) ==
  /\ ~stopped /\ lock[q] = "free" /\ owed[q]
  /\ owed' = [owed EXCEPT ![q] = FALSE]
  /\ WriteSqDb(q, tail[q], tail[q] # last[q])
  /\ UNCHANGED <<setup, rq, tail, mem, batch, ctrlVars, cqVars, timeVars>>

(* A plug list of n requests for the queues qs reaches nvme_queue_rqs(). *)
QueueRqs(qs) ==
  /\ ~stopped /\ batch.list = <<>> /\ batch.ready = <<>> /\ Range(qs) \subseteq setup.sqs
  /\ Len(qs) <= Cardinality(FreeTags)
  /\ LET free == [k \in 1 .. Len(qs) |->
                    CHOOSE t \in FreeTags : Cardinality({u \in FreeTags : u < t}) = k - 1]
     IN /\ batch' = [list |-> [k \in 1 .. Len(qs) |-> [tag |-> free[k], sq |-> qs[k]]],
                     ready |-> <<>>]
        /\ rq' = [t \in Tags |->
                    IF \E k \in 1 .. Len(qs) : free[k] = t
                    THEN [Idle EXCEPT !.st = "listed"] ELSE rq[t]]
  /\ UNCHANGED <<setup, tail, last, mem, lock, owed, bellVars, ctrlVars, cqVars, timeVars>>

(* Mutant of EndsRun: only the end of the list submits. *)
EndsRunAtEnd(ready, rest) == ready # <<>> /\ rest = <<>>

(* The prepared requests are submitted when the list ends or the next      *)
(* request is another queue's.                                             *)
EndsRun(ready, rest) ==
  ready # <<>> /\ (rest = <<>> \/ Head(rest).sq # ready[Len(ready)].sq)

(* One turn of nvme_queue_rqs(): a request is prepared, or detached for    *)
(* the block layer; a complete run is copied and announced in one          *)
(* critical section.                                                       *)
PrepNext(ok) ==
  /\ ~stopped /\ batch.list # <<>>
  /\ LET r == Head(batch.list)
         rest == Tail(batch.list)
         ready == IF ok THEN Append(batch.ready, r) ELSE batch.ready
         q == ready[Len(ready)].sq
         ts == [k \in DOMAIN ready |-> ready[k].tag]
     IN /\ rq' = [rq EXCEPT ![r.tag] = IF ok THEN Flight(r.sq) ELSE Idle]
        /\ IF EndsRun(ready, rest)
           THEN /\ lock[q] = "free"
                /\ CopyTo(q, ts)
                /\ WriteSqDb(q, tail'[q], TRUE)
                /\ batch' = [list |-> rest, ready |-> <<>>]
           ELSE /\ batch' = [list |-> rest, ready |-> ready]
                /\ UNCHANGED <<tail, mem, lock, last, bellVars>>
  /\ UNCHANGED <<setup, owed, ctrlVars, cqVars, timeVars>>

-----------------------------------------------------------------------------
(* The controller (external).                                              *)

CqFull == Advance(post.at) = seen[Cq]
Wants(d) == IF d = Cq THEN CqFull ELSE fetch[d] = seen[d]

(* What a fetched slot still holds no longer matters. *)
FetchCmd(q) ==
  /\ ~stopped /\ fetch[q] # seen[q]
  /\ inside' = inside \cup {mem[q][fetch[q]]}
  /\ fetch' = [fetch EXCEPT ![q] = Advance(@)]
  /\ mem' = [mem EXCEPT ![q][fetch[q]] = None]
  /\ UNCHANGED <<setup, rq, tail, last, lock, owed, batch, bellVars, post, cqe, cqVars, timeVars>>

(* Nothing left to do on a ring: publish where, then look once more. *)
ArmEvent(d) ==
  /\ ~stopped /\ d \in setup.shadow /\ sleep[d] = "awake" /\ Wants(d)
  /\ ei' = [ei EXCEPT ![d] = seen[d]]
  /\ sleep' = [sleep EXCEPT ![d] = "armed"]
  /\ UNCHANGED <<setup, driverVars, shadow, old, seen, ctrlVars, cqVars, timeVars>>

LookAgain(d) ==
  /\ ~stopped /\ sleep[d] = "armed"
  /\ seen' = [seen EXCEPT ![d] = shadow[d]]
  /\ sleep' = [sleep EXCEPT ![d] = IF shadow[d] = seen[d] THEN "asleep" ELSE "awake"]
  /\ UNCHANGED <<setup, driverVars, shadow, old, ei, ctrlVars, cqVars, timeVars>>

(* An entry is written with the phase of this round; then an interrupt is  *)
(* raised, or gets lost.                                                   *)
PostCqe(t, raised) ==
  /\ ~stopped /\ t \in inside /\ ~CqFull
  /\ inside' = inside \ {t}
  /\ cqe' = [cqe EXCEPT ![post.at] = [tag |-> t, phase |-> post.phase]]
  /\ post' = [at |-> Advance(post.at),
              phase |-> IF Advance(post.at) = 0 THEN 1 - post.phase ELSE post.phase]
  /\ \/ ~setup.polled /\ raised /\ irq' = TRUE /\ UNCHANGED lost
     \/ ~setup.polled /\ ~raised /\ lost > 0 /\ lost' = lost - 1 /\ UNCHANGED irq
     \/ setup.polled /\ raised /\ UNCHANGED <<irq, lost>>
  /\ UNCHANGED <<setup, driverVars, bellVars, fetch, head, cpc, masked, polling,
                 late, aborts, stopped>>

-----------------------------------------------------------------------------
(* Completion: nvme_poll_cq() in the interrupt handler, in nvme_poll() and *)
(* in the timeout handler.                                                 *)

(* nvme_cqe_pending() *)
CqePending(h) == cqe[h.at].phase = h.phase

Step(c, l) == cpc' = [cpc EXCEPT ![c] = l]

(* The consumer leaves: the timeout handler enables the interrupt again or *)
(* the poll lock is dropped.                                               *)
Leave(c) ==
  /\ Step(c, "idle")
  /\ polling' = IF c = "irq" THEN polling ELSE FALSE
  /\ masked' = IF c = "timeout" THEN FALSE ELSE masked
  /\ late' = IF c = "timeout" THEN [late EXCEPT !.pc = "decide"] ELSE late

(* nvme_irq() enters the loop of nvme_poll_cq(), or has nothing to do. *)
Irq ==
  /\ ~stopped /\ ~setup.polled /\ irq /\ ~masked /\ cpc["irq"] = "idle"
  /\ irq' = FALSE
  /\ Step("irq", IF CqePending(head) THEN "handle" ELSE "idle")
  /\ UNCHANGED <<setup, driverVars, bellVars, ctrlVars, head, masked, polling, timeVars>>

(* nvme_poll() *)
Poll ==
  /\ ~stopped /\ setup.polled /\ CqePending(head) /\ ~polling
  /\ polling' = TRUE
  /\ Step("poll", "handle")
  /\ UNCHANGED <<setup, driverVars, bellVars, ctrlVars, head, irq, masked, timeVars>>

(* nvme_update_cq_head() *)
NextHead(h) == [at |-> Advance(h.at), phase |-> IF Advance(h.at) = 0 THEN 1 - h.phase ELSE h.phase]

(* nvme_ring_cq_doorbell(), when no more entries are found. *)
RingCqDb(c, value) ==
  /\ WriteBell(Cq, value)
  /\ IF Cq \in setup.shadow THEN Step(c, "event") /\ UNCHANGED <<masked, polling, late>>
                  ELSE Leave(c)

(* One turn of nvme_poll_cq(): nvme_handle_cqe() completes the request and *)
(* frees its tag, before the controller hears that the entry was taken (an *)
(* entry handled before names no request any more); then the next entry is *)
(* looked at.                                                              *)
HandleCqe(c) ==
  /\ ~stopped /\ cpc[c] = "handle"
  /\ rq' = [t \in Tags |-> IF t = cqe[head.at].tag THEN Idle ELSE rq[t]]
  /\ cqe' = [cqe EXCEPT ![head.at].tag = None]
  /\ head' = NextHead(head)
  /\ \/ CqePending(head') /\ UNCHANGED <<bellVars, cpc, masked, polling, late>>
     \/ ~CqePending(head') /\ RingCqDb(c, head'.at)
  /\ UNCHANGED <<setup, tail, last, mem, lock, owed, batch, fetch, inside, post, irq,
                 aborts, lost, stopped>>

CheckCqEvent(c) ==
  /\ ~stopped /\ cpc[c] = "event"
  /\ CheckEvent(Cq, head.at)
  /\ Leave(c)
  /\ UNCHANGED <<setup, driverVars, ctrlVars, head, irq, aborts, lost, stopped>>

-----------------------------------------------------------------------------
(* Timeouts.                                                               *)

(* Mutant of Disable: the interrupt handler is left alone. *)
DisableNot == UNCHANGED masked

(* nvme_poll_irqdisable(): disable_irq() waits for a running handler. *)
Disable == cpc["irq"] = "idle" /\ masked' = TRUE

(* The poll of the timeout handler begins. *)
PollFor(t) ==
  /\ \/ ~setup.polled /\ Disable /\ UNCHANGED polling
     \/ setup.polled /\ ~polling /\ polling' = TRUE /\ UNCHANGED masked
  /\ late' = [tag |-> t, pc |-> "poll", posted |-> t \in Posted]
  /\ Step("timeout", "look")
  /\ UNCHANGED stopped

(* nvme_timeout() for a request in flight: "Did we miss an interrupt?"  It *)
(* polls the queue the request was submitted to.  The block layer only     *)
(* finds the expired requests of queues with a completion queue of their   *)
(* own (BlkRequest), hence setup.timed.                                    *)
Timeout(t) ==
  /\ ~stopped /\ late.pc = "idle" /\ rq[t].st = "flight" /\ rq[t].sq \in setup.timed
  /\ PollFor(t)
  /\ UNCHANGED <<setup, driverVars, bellVars, ctrlVars, head, irq, aborts, lost>>

(* Mutant of LookForMissed: nothing is polled. *)
LookForMissedNever ==
  /\ ~stopped /\ cpc["timeout"] = "look"
  /\ Leave("timeout")
  /\ UNCHANGED <<setup, driverVars, bellVars, ctrlVars, head, irq, aborts, lost, stopped>>

(* It enters the loop, or finds nothing. *)
LookForMissed ==
  /\ ~stopped /\ cpc["timeout"] = "look"
  /\ \/ CqePending(head) /\ Step("timeout", "handle") /\ UNCHANGED <<masked, polling, late>>
     \/ ~CqePending(head) /\ Leave("timeout")
  /\ UNCHANGED <<setup, driverVars, bellVars, ctrlVars, head, irq, aborts, lost, stopped>>

(* The rest of nvme_timeout() on a live controller: done if the request    *)
(* was completed meanwhile, a reset if it had been marked aborted before,  *)
(* else an abort command if one may be sent and can be allocated.  The     *)
(* mark is set before the allocation.                                      *)
DecideTimeout(allocated) ==
  /\ ~stopped /\ late.pc = "decide"
  /\ late' = NoLate
  /\ LET t == late.tag
         waiting == rq[t].st = "flight"
     IN \/ ~waiting /\ UNCHANGED <<rq, aborts, stopped>>
        \/ waiting /\ rq[t].aborted /\ stopped' = TRUE /\ UNCHANGED <<rq, aborts>>
        \/ waiting /\ ~rq[t].aborted /\ aborts >= setup.limit /\ UNCHANGED <<rq, aborts, stopped>>
        \/ /\ waiting /\ ~rq[t].aborted /\ aborts < setup.limit
           /\ rq' = [rq EXCEPT ![t].aborted = TRUE]
           /\ aborts' = IF allocated THEN aborts + 1 ELSE aborts
           /\ UNCHANGED stopped
  /\ UNCHANGED <<setup, tail, last, mem, lock, owed, batch, bellVars, ctrlVars, cqVars, lost>>

(* abort_endio() *)
AbortEndio ==
  /\ ~stopped /\ aborts > 0
  /\ aborts' = aborts - 1
  /\ UNCHANGED <<setup, driverVars, bellVars, ctrlVars, cqVars, late, lost, stopped>>

-----------------------------------------------------------------------------
Consume(c)  == HandleCqe(c) \/ CheckCqEvent(c)
Decide      == \E allocated \in BOOLEAN : DecideTimeout(allocated)
Complete(t) == \E raised \in BOOLEAN : PostCqe(t, raised)
Lists       == UNION {[1 .. n -> Sqs] : n \in 1 .. setup.batch}

Next ==
  \/ \E q \in Sqs : \/ \E isLast \in BOOLEAN : QueueRq(q, isLast)
                    \/ CommitRqs(q) \/ CheckSqEvent(q) \/ FetchCmd(q)
  \/ \E qs \in Lists : QueueRqs(qs)
  \/ \E ok \in BOOLEAN : PrepNext(ok)
  \/ \E d \in Bells : ArmEvent(d) \/ LookAgain(d)
  \/ \E t \in Tags : Complete(t) \/ Timeout(t)
  \/ Irq \/ Poll \/ LookForMissed \/ Decide \/ AbortEndio
  \/ \E c \in Consumers : Consume(c)

(* Locks are granted in turn, code that runs goes on running, the block    *)
(* layer commits what it queued, the controller works, and the timer of a  *)
(* request in flight keeps firing.                                         *)
Fairness ==
  /\ \A q \in Sqs : SF_vars(CommitRqs(q)) /\ WF_vars(FetchCmd(q))
  /\ WF_vars(\E q \in Sqs : CheckSqEvent(q))
  /\ SF_vars(\E ok \in BOOLEAN : PrepNext(ok))
  /\ WF_vars(\E d \in Bells : ArmEvent(d) \/ LookAgain(d))
  /\ \A t \in Tags : SF_vars(Complete(t))
  /\ SF_vars(\E t \in Tags : Timeout(t)) /\ WF_vars(LookForMissed \/ Decide)
  /\ WF_vars(Irq) /\ WF_vars(Poll)
  /\ WF_vars(\E c \in Consumers : Consume(c))

Spec == Init /\ [][Next]_vars /\ Fairness

-----------------------------------------------------------------------------
(* Properties.                                                             *)

(* Every variable has its type. *)
TypeOK ==
  /\ setup \in Setups
  /\ rq \in [Tags -> [st : {"idle", "listed", "flight"}, sq : Sqs \cup {None}, aborted : BOOLEAN]]
  /\ tail \in [Sqs -> Slots] /\ last \in [Sqs -> Slots] /\ fetch \in [Sqs -> Slots]
  /\ mem \in [Sqs -> [Slots -> Tags \cup {None}]]
  /\ lock \in [Sqs -> {"free", "event"}] /\ owed \in [Sqs -> BOOLEAN]
  /\ shadow \in [Bells -> Slots] /\ old \in [Bells -> Slots]
  /\ ei \in [Bells -> Slots] /\ seen \in [Bells -> Slots]
  /\ sleep \in [Bells -> {"awake", "armed", "asleep"}]
  /\ inside \subseteq Tags
  /\ cqe \in [Slots -> [tag : Tags \cup {None}, phase : {0, 1}]]
  /\ head \in [at : Slots, phase : {0, 1}] /\ post \in [at : Slots, phase : {0, 1}]
  /\ cpc \in [Consumers -> {"idle", "look", "handle", "event"}]
  /\ irq \in BOOLEAN /\ masked \in BOOLEAN /\ polling \in BOOLEAN /\ stopped \in BOOLEAN
  /\ aborts \in 0 .. setup.limit /\ lost \in 0 .. setup.lost

Prepared == {batch.ready[k].tag : k \in DOMAIN batch.ready}

Where == [t \in Tags |->
  IF rq[t].st # "flight" THEN "idle"
  ELSE IF t \in Posted THEN "posted"
  ELSE IF t \in inside THEN "device"
  ELSE IF t \in Queued(rq[t].sq) THEN "queued"
  ELSE IF t \in Prepared THEN "idle"
  ELSE "lost"]

(* Each command is submitted, fetched, answered and completed exactly once *)
(* and in this order: the rings, the phase bit and the consumers of the    *)
(* completion queue implement one command after another per tag.           *)
Commands == INSTANCE NvmeCommand WITH where <- Where
ImplementsCommands == Commands!Spec

(* Every variable has its type, the phase bit tells the entries that have  *)
(* not been handled from those of earlier rounds, and several submission   *)
(* queues never overflow the completion queue they share.                  *)
PhaseTellsNew ==
  TypeOK /\ \A i \in Slots : (i \in Unhandled) <=>
    cqe[i].phase = (IF i >= head.at THEN head.phase ELSE 1 - head.phase)

(* When the controller has gone to sleep on a ring's doorbell and nobody   *)
(* is about to ring it or owes it a ring, the controller has seen all.     *)
NoLostBell ==
  \A q \in Sqs : (sleep[q] = "asleep" \/ q \notin setup.shadow) /\ lock[q] = "free" /\ ~owed[q]
                   => seen[q] = tail[q]

(* A request whose completion the controller had posted before the timeout *)
(* handler looked is completed by the poll, never aborted: a missed        *)
(* interrupt does not cost a reset.                                        *)
MissedInterruptFound ==
  late.pc = "decide" /\ late.posted => rq[late.tag].st # "flight"

(* Every command completes, even if its interrupt got lost, unless the     *)
(* controller is reset.                                                    *)
EveryCommandCompletes ==
  \A t \in Tags : rq[t].st = "flight" ~> (rq[t].st # "flight" \/ stopped)
=============================================================================
