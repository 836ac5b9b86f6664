---------------------------- MODULE BlexDispatch ----------------------------
(***************************************************************************)
(* One hardware context (hctx, the block layer's side of an NQ) and how    *)
(* requests get through it to the driver: staged in the per-CPU virtual    *)
(* NQs (vNQs), collected by whoever runs the queue, put back on            *)
(* hctx->dispatch when the driver has no resources, woken up again by the  *)
(* restart flag, and held back while the queue is quiesced.                *)
(*                                                                         *)
(* Doorbells: the driver copies a request into the submission queue and   *)
(* rings for all that is in it when it is told that no more follows; the   *)
(* device sees nothing before.                                             *)
(*                                                                         *)
(* The contexts are submitting threads, the queue's work item, the         *)
(* completion interrupt and quiescers.  An action is a stretch of code     *)
(* with one access to what others share; a spinlock's critical section is  *)
(* one action.  Lists are sets: nothing here depends on their order.       *)
(***************************************************************************)
EXTENDS Integers, FiniteSets, FiniteSetsExt

CONSTANTS
  Cpus,        \* CPUs, each with a vNQ in the hctx
  Requests,
  Threads,     \* contexts that submit requests
  Quiescers,   \* contexts that quiesce the queue
  Setups,      \* the workloads looked at, see below
  None

(* A setup: who takes part, rq->mq_ctx->cpu of the requests, how threads   *)
(* submit (requests one by one, or plugs, see BlexPlug), and bounds: how   *)
(* often the driver is out of resources or fails a request, and how often  *)
(* the queue is quiesced.                                                  *)
Setup == [requests : SUBSET Requests, threads : SUBSET Threads,
          quiescers : SUBSET Quiescers, cpuOf : [Requests -> Cpus],
          paths : SUBSET {"direct", "flush", "schedule"}, busy : Nat, rounds : Nat]

ASSUME DispatchAssumption ==
  /\ Cpus \subseteq Nat /\ IsFiniteSet(Cpus)
  /\ \A s \in Setups : s \in Setup
  /\ None \notin Requests
  /\ "worker" \notin Threads \cup Quiescers /\ "irq" \notin Threads \cup Quiescers
  /\ Threads \cap Quiescers = {}

Contexts == Threads \cup Quiescers \cup {"worker", "irq"}

VARIABLES
  setup,     \* the setup, which never changes
  staged,    \* vnqs[cpu].dispatch_list
  mask,      \* hctx->run_cpumask
  dispatch,  \* hctx->dispatch
  restart,   \* BLK_MQ_S_SCHED_RESTART
  work,      \* hctx->run_work is queued, at once or after a delay
  depth,     \* q->quiesce_depth; QUEUE_FLAG_QUIESCED is set while positive
  waits,     \* the readers each quiescer's grace period still waits for
  driver,    \* requests the driver has accepted
  posted,    \* those of them the doorbell has not been rung for
  done,      \* requests that have completed
  pc,        \* where each context is
  loc,       \* its locals
  busy,      \* times the driver will still refuse a request
  rounds     \* times the queue will still be quiesced

vars == <<setup, staged, mask, dispatch, restart, work, depth, waits, driver, posted,
          done, pc, loc, busy, rounds>>

CpuOf == setup.cpuOf

NoLoc == [rq |-> None, batch |-> {}, cpu |-> 0, again |-> FALSE,
          rcu |-> FALSE, run |-> "none", sent |-> FALSE, failed |-> FALSE]

Quiesced == depth > 0

At(c, l) == pc[c] = l
Goto(c, l) == pc' = [pc EXCEPT ![c] = l]
Finish(c) == Goto(c, "idle") /\ loc' = [loc EXCEPT ![c] = NoLoc]

(* Not yet given to the hctx by any thread. *)
Held(c) == loc[c].batch \cup (IF loc[c].rq = None THEN {} ELSE {loc[c].rq})
InHctx == dispatch \cup UNION {staged[i] : i \in Cpus}
Fresh  == setup.requests \ (InHctx \cup driver \cup done \cup UNION {Held(c) : c \in Contexts})

Init ==
  /\ setup \in Setups
  /\ staged = [i \in Cpus |-> {}]
  /\ mask = {} /\ dispatch = {} /\ restart = FALSE /\ work = FALSE
  /\ depth = 0 /\ waits = [q \in Quiescers |-> {}]
  /\ driver = {} /\ posted = {} /\ done = {}
  /\ pc = [c \in Contexts |-> "idle"]
  /\ loc = [c \in Contexts |-> NoLoc]
  /\ busy = setup.busy /\ rounds = setup.rounds

-----------------------------------------------------------------------------
(* Submission. *)

(* blk_mq_try_issue_directly(): on a quiesced queue the request is staged  *)
(* and the queue not run; out of resources it is staged and the queue run. *)
IssueDirectly(t, r) ==
  /\ "direct" \in setup.paths /\ At(t, "idle") /\ r \in Fresh
  /\ \/ /\ Quiesced
        /\ loc' = [loc EXCEPT ![t].rq = r, ![t].rcu = TRUE]
        /\ Goto(t, "mark") /\ UNCHANGED <<driver, busy>>
     \/ /\ ~Quiesced
        /\ loc' = [loc EXCEPT ![t].rq = r, ![t].rcu = TRUE]
        /\ Goto(t, "direct") /\ UNCHANGED <<driver, busy>>
  /\ UNCHANGED <<staged, mask, dispatch, restart, work, depth, waits, posted, done, rounds>>

(* queue_rq() of r, told whether it is the last: accepted, with the         *)
(* doorbell rung for all that is posted if it is the last; or failed, which *)
(* is taken for an acceptance without a doorbell that completes at any time;*)
(* or refused for want of resources.                                        *)
Accepted(r, last) ==
  /\ driver' = driver \cup {r}
  /\ posted' = IF last THEN {} ELSE posted \cup {r}
  /\ UNCHANGED busy

Failed(r) ==
  /\ busy > 0 /\ busy' = busy - 1
  /\ driver' = driver \cup {r} /\ UNCHANGED posted

Refused == busy > 0 /\ busy' = busy - 1 /\ UNCHANGED <<driver, posted>>

(* Ring the doorbell, if need be, for what was posted. *)
CommitRqs(needed) == posted' = IF needed THEN {} ELSE posted

(* blk_mq_request_bypass_insert(): stage the request, then run the queue.  *)
BypassInsert(t, r, run) ==
  /\ loc' = [loc EXCEPT ![t].rq = r, ![t].run = IF run THEN "sync" ELSE "none"]
  /\ Goto(t, "mark")

QueueDirectly(t) ==
  /\ At(t, "direct")
  /\ \/ (Accepted(loc[t].rq, TRUE) \/ Failed(loc[t].rq)) /\ Finish(t)
     \/ Refused /\ BypassInsert(t, loc[t].rq, TRUE)
  /\ UNCHANGED <<staged, mask, dispatch, restart, work, depth, waits, done, rounds>>

(* blk_blex_stage_request(): the mark comes before the lock. *)
MarkCpu(t) ==
  /\ At(t, "mark")
  /\ mask' = mask \cup {CpuOf[loc[t].rq]}
  /\ Goto(t, "stage")
  /\ UNCHANGED <<staged, dispatch, restart, work, depth, waits, driver, posted, done, loc, busy, rounds>>

Stage(t) ==
  /\ At(t, "stage")
  /\ staged' = [staged EXCEPT ![CpuOf[loc[t].rq]] = @ \cup {loc[t].rq}]
  /\ IF loc[t].run = "none"
       THEN Finish(t)
       ELSE loc' = [loc EXCEPT ![t].rq = None] /\ Goto(t, "run")
  /\ UNCHANGED <<mask, dispatch, restart, work, depth, waits, driver, posted, done, busy, rounds>>

-----------------------------------------------------------------------------
(* Running the queue. *)

(* blk_mq_run_hw_queue(): nothing to do when quiesced or when              *)
(* blk_mq_hctx_has_pending() sees neither a put-back request nor a marked  *)
(* CPU.  Otherwise run it inline, if asked (every CPU is in hctx->cpumask),*)
(* or queue its work.  (A quiesce between the check and the look at        *)
(* dispatch would only queue work that Enter gives up.)                    *)
NeedRun(c) ==
  IF loc[c].run = "sync"
    THEN Goto(c, "enter") /\ UNCHANGED <<work, loc>>
    ELSE work' = TRUE /\ Finish(c)

RunCheckDispatch(c) ==
  /\ At(c, "run")
  /\ \/ Quiesced /\ Finish(c) /\ UNCHANGED work
     \/ ~Quiesced /\ dispatch # {} /\ NeedRun(c)
     \/ ~Quiesced /\ dispatch = {} /\ Goto(c, "run_mask") /\ UNCHANGED <<work, loc>>
  /\ UNCHANGED <<staged, mask, dispatch, restart, depth, waits, driver, posted, done, busy, rounds>>

RunCheckMask(c) ==
  /\ At(c, "run_mask")
  /\ IF mask # {} THEN NeedRun(c) ELSE Finish(c) /\ UNCHANGED work
  /\ UNCHANGED <<staged, mask, dispatch, restart, depth, waits, driver, posted, done, busy, rounds>>

(* kblockd starts blk_mq_run_work_fn(). *)
WorkStart ==
  /\ work /\ At("worker", "idle")
  /\ work' = FALSE
  /\ Goto("worker", "enter")
  /\ UNCHANGED <<staged, mask, dispatch, restart, depth, waits, driver, posted, done, loc, busy, rounds>>

(* Mutant of Enter: the quiesced flag is not looked at. *)
EnterQuiesced(c) ==
  /\ At(c, "enter")
  /\ loc' = [loc EXCEPT ![c].rcu = TRUE] /\ Goto(c, "grab")
  /\ UNCHANGED <<staged, mask, dispatch, restart, work, depth, waits, driver, posted, done, busy, rounds>>

(* rcu_read_lock(); blk_mq_sched_dispatch_requests() on a quiesced queue   *)
(* returns.                                                                *)
Enter(c) ==
  /\ At(c, "enter")
  /\ IF Quiesced
       THEN Finish(c)
       ELSE loc' = [loc EXCEPT ![c].rcu = TRUE] /\ Goto(c, "grab")
  /\ UNCHANGED <<staged, mask, dispatch, restart, work, depth, waits, driver, posted, done, busy, rounds>>

-----------------------------------------------------------------------------
(* __blk_mq_sched_dispatch_requests() *)

(* Mutant: the list is copied, not spliced. *)
GrabCopy(c) ==
  /\ At(c, "grab")
  /\ loc' = [loc EXCEPT ![c].batch = dispatch, ![c].cpu = 0,
                         ![c].sent = FALSE, ![c].failed = FALSE]
  /\ Goto(c, "collect")
  /\ UNCHANGED <<staged, mask, dispatch, restart, work, depth, waits, driver, posted, done, busy, rounds>>

Grab(c) ==
  /\ At(c, "grab")
  /\ loc' = [loc EXCEPT ![c].batch = dispatch, ![c].cpu = 0,
                         ![c].sent = FALSE, ![c].failed = FALSE]
  /\ dispatch' = {}
  /\ Goto(c, "collect")
  /\ UNCHANGED <<staged, mask, restart, work, depth, waits, driver, posted, done, busy, rounds>>

(* for_each_cpu(cpu, hctx->run_cpumask): the next marked CPU, if any; a    *)
(* non-empty list is taken and its CPU unmarked in one critical section,   *)
(* an empty one leaves the mark.                                           *)
MarkedFrom(c) == {i \in mask : i >= loc[c].cpu}

Collect(c) ==
  /\ At(c, "collect") /\ MarkedFrom(c) # {}
  /\ LET i == Min(MarkedFrom(c))
     IN  /\ loc' = [loc EXCEPT ![c].batch = @ \cup staged[i], ![c].cpu = i + 1]
         /\ staged' = [staged EXCEPT ![i] = {}]
         /\ mask' = IF staged[i] = {} THEN mask ELSE mask \ {i}
  /\ UNCHANGED <<dispatch, restart, work, depth, waits, driver, posted, done, pc, busy, rounds>>

(* All CPUs visited.  With requests collected, ask for a restart and issue *)
(* them; without, look again if the hctx has been busy (dispatch_busy, a   *)
(* moving average that is left open here).                                 *)
CollectEnd(c) ==
  /\ At(c, "collect") /\ MarkedFrom(c) = {}
  /\ IF loc[c].batch # {}
       THEN restart' = TRUE /\ Goto(c, "issue") /\ UNCHANGED loc
       ELSE /\ UNCHANGED restart
            /\ \/ Goto(c, "look_again") /\ UNCHANGED loc
               \/ Finish(c)
  /\ UNCHANGED <<staged, mask, dispatch, work, depth, waits, driver, posted, done, busy, rounds>>

(* blk_mq_dispatch_rq_list(): queue_rq() of each request, until the driver  *)
(* refuses one.                                                             *)
Issue(c, r) ==
  LET last == loc[c].batch = {r}
  IN  /\ At(c, "issue") /\ r \in loc[c].batch
      /\ \/ /\ Accepted(r, last)
            /\ loc' = [loc EXCEPT ![c].batch = @ \ {r}, ![c].sent = TRUE]
            /\ IF last THEN Goto(c, "commit") ELSE UNCHANGED pc
         \/ /\ Failed(r)
            /\ loc' = [loc EXCEPT ![c].batch = @ \ {r}, ![c].failed = TRUE]
            /\ IF last THEN Goto(c, "commit") ELSE UNCHANGED pc
         \/ Refused /\ Goto(c, "commit") /\ UNCHANGED loc
      /\ UNCHANGED <<staged, mask, dispatch, restart, work, depth, waits, done, rounds>>

AfterIssue(c) == IF loc[c].batch = {} THEN "look_again" ELSE "put_back"

(* "If we didn't flush the entire list, we could have told the driver there *)
(* was more coming": ring the doorbell for what was accepted.               *)
Commit(c) ==
  /\ At(c, "commit")
  /\ CommitRqs(loc[c].sent /\ (loc[c].batch # {} \/ loc[c].failed))
  /\ Goto(c, AfterIssue(c))
  /\ UNCHANGED <<staged, mask, dispatch, restart, work, depth, waits, driver, done, loc,
                 busy, rounds>>

PutBack(c) ==
  /\ At(c, "put_back")
  /\ dispatch' = dispatch \cup loc[c].batch
  /\ loc' = [loc EXCEPT ![c].batch = {}]
  /\ Goto(c, "rerun")
  /\ UNCHANGED <<staged, mask, restart, work, depth, waits, driver, posted, done, busy, rounds>>

(* A restart flag that is gone was taken by a completion that may have     *)
(* come too early: run again.  Otherwise run again after a delay.          *)
Rerun(c) ==
  /\ At(c, "rerun")
  /\ IF restart
       THEN work' = TRUE /\ Finish(c)
       ELSE /\ loc' = [loc EXCEPT ![c].run = "async"]
            /\ Goto(c, "run")
            /\ UNCHANGED work
  /\ UNCHANGED <<staged, mask, dispatch, restart, depth, waits, driver, posted, done, busy, rounds>>

(* blk_mq_do_dispatch_ctx() answers -EAGAIN if requests were put back      *)
(* meanwhile: a second pass, and then another run of the queue.            *)
LookAgain(c) ==
  /\ At(c, "look_again")
  /\ \/ dispatch = {} /\ Finish(c)
     \/ /\ dispatch # {} /\ ~loc[c].again
        /\ loc' = [loc EXCEPT ![c].again = TRUE] /\ Goto(c, "grab")
     \/ /\ dispatch # {} /\ loc[c].again
        /\ loc' = [loc EXCEPT ![c].run = "async"] /\ Goto(c, "run")
  /\ UNCHANGED <<staged, mask, dispatch, restart, work, depth, waits, driver, posted, done, busy, rounds>>

-----------------------------------------------------------------------------
(* Completion: blk_mq_free_request(), then blk_mq_sched_restart(). *)

Complete(r) ==
  /\ At("irq", "idle") /\ r \in driver \ posted
  /\ driver' = driver \ {r} /\ done' = done \cup {r}
  /\ Goto("irq", "restart")
  /\ UNCHANGED <<staged, mask, dispatch, restart, work, depth, waits, posted, loc, busy, rounds>>

Restart ==
  /\ At("irq", "restart")
  /\ restart' = FALSE
  /\ IF restart
       THEN loc' = [loc EXCEPT !["irq"].run = "async"] /\ Goto("irq", "run")
       ELSE Finish("irq")
  /\ UNCHANGED <<staged, mask, dispatch, work, depth, waits, driver, posted, done, busy, rounds>>

(* Quiescing: set the flag, wait for the readers that may have missed it.  *)

Reading(c) == loc[c].rcu

QuiesceBegin(q) ==
  /\ At(q, "idle") /\ rounds > 0 /\ rounds' = rounds - 1
  /\ depth' = depth + 1
  /\ waits' = [waits EXCEPT ![q] = {c \in Contexts : Reading(c)}]
  /\ Goto(q, "wait")
  /\ UNCHANGED <<staged, mask, dispatch, restart, work, driver, posted, done, loc, busy>>

(* One reader the grace period waits for has left its section, or all have.*)
QuiesceWait(q) ==
  /\ At(q, "wait")
  /\ \/ /\ \E c \in waits[q] : ~Reading(c) /\ waits' = [waits EXCEPT ![q] = @ \ {c}]
        /\ UNCHANGED pc
     \/ /\ waits[q] = {} /\ Goto(q, "quiesced") /\ UNCHANGED waits
  /\ UNCHANGED <<staged, mask, dispatch, restart, work, depth, driver, posted, done, loc, busy, rounds>>

(* Mutant of Unquiesce: the queue is not run. *)
UnquiesceNoRun(q) ==
  /\ At(q, "quiesced")
  /\ depth' = depth - 1
  /\ Finish(q)
  /\ UNCHANGED <<staged, mask, dispatch, restart, work, waits, driver, posted, done, busy, rounds>>

(* blk_mq_unquiesce_queue(): the last one runs the queue. *)
Unquiesce(q) ==
  /\ At(q, "quiesced")
  /\ depth' = depth - 1
  /\ IF depth = 1
       THEN loc' = [loc EXCEPT ![q].run = "async"] /\ Goto(q, "run")
       ELSE Finish(q)
  /\ UNCHANGED <<staged, mask, dispatch, restart, work, waits, driver, posted, done, busy, rounds>>

-----------------------------------------------------------------------------
Submit(t) == \E r \in Requests : IssueDirectly(t, r)

Dispatch(c) ==
  \/ Enter(c) \/ Grab(c) \/ Collect(c) \/ CollectEnd(c)
  \/ (\E r \in Requests : Issue(c, r)) \/ Commit(c) \/ PutBack(c) \/ Rerun(c) \/ LookAgain(c)

Step(c) ==
  \/ QueueDirectly(c) \/ MarkCpu(c) \/ Stage(c)
  \/ RunCheckDispatch(c) \/ RunCheckMask(c) \/ Dispatch(c)

QuiesceStep(q) == QuiesceWait(q) \/ Unquiesce(q)
CompleteAny == \E r \in Requests : Complete(r)

Next ==
  \/ \E t \in setup.threads : Submit(t)
  \/ \E c \in Contexts : Step(c)
  \/ WorkStart \/ CompleteAny \/ Restart
  \/ \E q \in setup.quiescers : QuiesceBegin(q) \/ QuiesceStep(q)

Spec == Init /\ [][Next /\ UNCHANGED setup]_vars

(* Threads and interrupts keep running, kblockd gets round to queued work  *)
(* (a delay ends), the device completes what it accepted, and whoever has  *)
(* quiesced the queue unquiesces it.                                       *)
FairSpec ==
  /\ Spec
  /\ \A c \in Contexts : WF_vars(Step(c) /\ UNCHANGED setup)
  /\ WF_vars(WorkStart /\ UNCHANGED setup) /\ WF_vars(CompleteAny /\ UNCHANGED setup)
  /\ WF_vars(Restart /\ UNCHANGED setup)
  /\ \A q \in Quiescers : WF_vars(QuiesceStep(q) /\ UNCHANGED setup)

-----------------------------------------------------------------------------
InDispatch == {"grab", "collect", "issue", "commit", "put_back", "rerun", "look_again"}
Places == {"idle", "direct", "mark", "stage", "run", "run_mask", "enter",
           "restart", "wait", "quiesced"} \cup InDispatch

TypeOK ==
  /\ staged \in [Cpus -> SUBSET Requests]
  /\ mask \subseteq Cpus
  /\ dispatch \subseteq Requests /\ done \subseteq Requests
  /\ driver \subseteq Requests /\ posted \subseteq driver
  /\ restart \in BOOLEAN /\ work \in BOOLEAN
  /\ depth \in Nat /\ waits \in [Quiescers -> SUBSET Contexts]
  /\ pc \in [Contexts -> Places]
  /\ loc \in [Contexts -> [rq : Requests \cup {None}, batch : SUBSET Requests,
                           cpu : Nat, again : BOOLEAN, rcu : BOOLEAN,
                           run : {"none", "sync", "async"},
                           sent : BOOLEAN, failed : BOOLEAN]]
  /\ busy \in 0 .. setup.busy /\ rounds \in 0 .. setup.rounds

(* Every submitted request is issued and completes.                        *)
EveryRequestCompletes ==
  \A r \in Requests : (r \in setup.requests \ Fresh) ~> r \in done
=============================================================================
