------------------------------ MODULE NvmeCtrl ------------------------------
(***************************************************************************)
(* The life of an NVMe controller under the driver: probe and reset bring  *)
(* it up with as many NQs and interrupt vectors as it and the host allow,  *)
(* timeouts, power management, error recovery and removal take it down,    *)
(* at any moment and in several threads at once:                           *)
(*                                                                         *)
(*   Reset    nvme_reset_work(), on its work queue                         *)
(*   Timer    nvme_timeout(), on the block layer's                         *)
(*   Manager  whoever holds the device lock: suspend, resume, function     *)
(*            level reset, error handlers, remove                          *)
(*                                                                         *)
(* shutdown_lock serialises nvme_dev_disable() with the sections of the    *)
(* reset that touch queues.  Layouts are those of BlexQueueMap.  External, *)
(* after the use pci.c makes of them: the controller, the NVMe core's      *)
(* state machine and its helpers on namespaces, PCI and work queues.       *)
(***************************************************************************)
EXTENDS BlexQueueMap, Integers, FiniteSets

CONSTANTS
  Reqs,     \* requests to the namespaces
  Setups,   \* what there is and what may go wrong: I/O queues the controller
            \* grants, CPUs, MSI-X vectors, host memory wanted; the steps that
            \* may fail and how often one does; what the controller may turn
            \* into and how often; the operations of the manager and how many
  None

Reset == "reset"
Timer == "timer"
Manager == "manager"
Threads == {Reset, Timer, Manager}

Faulty == {"mute", "failed", "absent"}
Ops == {"suspend", "power", "flr", "aer", "hmb", "remove"}
Steps == {"enable", "vectors", "admin", "adminirq", "tags", "identify", "hostmem",
          "count", "array", "bar", "irqs", "memory", "cq", "sq", "irq", "power"}

ASSUME CtrlAssumption ==
  Setups \subseteq [limit : Nat, cpus : Nat \ {0}, msix : Nat \ {0}, hmb : BOOLEAN,
                    fail : SUBSET Steps, fails : Nat, turn : SUBSET Faulty,
                    faults : Nat, ops : SUBSET Ops, nops : Nat]

VARIABLES
  setup,
  st,       \* dev->ctrl.state
  queued,   \* reset_work is queued
  reset,    \* where nvme_reset_work() is
  timer,    \* where nvme_timeout() is, and whether it resets
  mgr,      \* what the manager does and where it is
  dis,      \* each thread's nvme_dev_disable()
  lock,     \* dev->shutdown_lock
  dev,      \* the fields of nvme_dev, ctrl.queue_count and ctrl_config's enable bit
  queues,   \* dev->queues
  irqs,     \* queues whose interrupt is requested
  ctl,      \* the controller
  csq, ccq, \* the queues that exist in it
  hmb,      \* host memory: allocated, used by the controller, dev->hmb
  ns,       \* the namespaces: their queues' freeze depth, quiesced, dying
  tags,     \* the I/O tag set: its hardware queues, and blex_info
  rq,       \* the requests
  broken,   \* what the kernel would have crashed on
  removal,  \* remove_work is queued
  budget    \* failures, faults and operations left

threadVars == <<queued, reset, timer, mgr, dis, lock, removal>>
hardVars   == <<ctl, csq, ccq>>
queueVars  == <<dev, queues, irqs>>
vars == <<setup, st, threadVars, hardVars, queueVars, hmb, ns, tags, rq, broken, budget>>

MaxQueues == 4                              \* bound on setup.limit
Qids      == 0 .. MaxQueues
IoQids(n) == 1 .. n - 1                     \* queues below n, without the admin queue

NoQueue == [cq |-> FALSE, sq |-> FALSE, on |-> FALSE]
NoDis   == [pc |-> "idle", shutdown |-> FALSE, dead |-> TRUE]
NoInfo  == [state |-> "none", max |-> 0, cqs |-> 0]

(* nvme_probe(). *)
InitWith(s) ==
  /\ setup = s
  /\ st = "RESETTING" /\ queued = TRUE
  /\ reset = "idle" /\ timer = [pc |-> "idle", resets |-> FALSE]
  /\ mgr = [op |-> None, pc |-> "idle"]
  /\ dis = [t \in Threads |-> NoDis] /\ lock = None
  /\ dev = [pci |-> FALSE, vecs |-> 0, num_vecs |-> 0, nr_cqs |-> 0, max_qid |-> 0,
            room |-> s.cpus + 1, count |-> 0, online |-> 0, nr |-> 0, cc |-> FALSE,
            adminq |-> FALSE, adminstop |-> FALSE, frozen |-> FALSE, cancelled |-> {}]
  /\ queues = [q \in Qids |-> NoQueue] /\ irqs = {}
  /\ ctl = "off" /\ csq = {} /\ ccq = {}
  /\ hmb = [mem |-> FALSE, used |-> FALSE, flag |-> FALSE]
  /\ ns = [there |-> FALSE, depth |-> 0, stopped |-> FALSE, dying |-> FALSE]
  /\ tags = [nr |-> 0, info |-> NoInfo]
  /\ rq = [r \in Reqs |-> [st |-> "out", q |-> 0]]
  /\ broken = {} /\ removal = FALSE
  /\ budget = [fails |-> s.fails, faults |-> s.faults, ops |-> s.nops]

Init == \E s \in Setups : InitWith(s)

-----------------------------------------------------------------------------
(* Shared parts.                                                           *)

(* blex_nvmeq_has_cq(), by the layout of the moment. *)
NvmeqHasCq(q) == q = 0 \/ HasCq(q, dev.max_qid, dev.nr_cqs)
CqOf(q) == IF q = 0 THEN 0 ELSE GetCqid(q, dev.max_qid, dev.nr_cqs)

InUse == {r \in Reqs : rq[r].st # "out"}

(* nvme_change_ctrl_state(). *)
MayBecome(new) ==
  CASE new = "LIVE"       -> st \in {"RESETTING", "CONNECTING"}
    [] new = "RESETTING"  -> st = "LIVE"
    [] new = "CONNECTING" -> st = "RESETTING"
    [] new = "DELETING"   -> st \in {"LIVE", "RESETTING", "CONNECTING"}
    [] new = "DEAD"       -> st = "DELETING"
ChangeState(new) == st' = IF MayBecome(new) THEN new ELSE st

(* nvme_reset_ctrl(). *)
ResetCtrl == /\ ChangeState("RESETTING")
             /\ queued' = (queued \/ MayBecome("RESETTING"))

(* nvme_try_sched_reset(). *)
TrySchedReset == /\ queued' = (queued \/ st = "RESETTING")
                 /\ UNCHANGED st

Fails(step) == /\ step \in setup.fail /\ budget.fails > 0
               /\ budget' = [budget EXCEPT !.fails = @ - 1]

(* A thread's command to the admin queue is answered; it fails if the queue *)
(* is disabled before or under it.  Otherwise it can only time out.         *)
AdminWorks(t) == /\ queues[0].on /\ 0 \in irqs /\ ~dev.adminstop /\ ctl = "ready"
                 /\ t \notin dev.cancelled
AdminFails(t) == t \in dev.cancelled \/ (~queues[0].on /\ ~dev.adminstop)

AdminPcs == {"identify", "hostmem", "count", "create", "sq", "burst", "hmboff", "setps", "wake"}
Commanding == {t \in {Reset, Manager} : IF t = Reset THEN reset \in AdminPcs
                                                   ELSE mgr.pc \in AdminPcs}

-----------------------------------------------------------------------------
(* nvme_dev_disable(), by any thread.                                      *)

StartDisable(t, shutdown) ==
  dis' = [dis EXCEPT ![t] = [pc |-> "lock", shutdown |-> shutdown, dead |-> TRUE]]

Dead == ~dev.pci \/ ctl \notin {"ready", "mute"} \/ dev.frozen

(* Mutant of Freezes: a device that is down already is frozen again. *)
FreezesAgain == st \in {"LIVE", "RESETTING"} /\ ns.there

Freezes == dev.pci /\ st \in {"LIVE", "RESETTING"} /\ ns.there

DisableLock(t) ==
  /\ dis[t].pc = "lock" /\ lock = None
  /\ lock' = t
  /\ ns' = [ns EXCEPT !.depth = IF Freezes THEN @ + 1 ELSE @]
  /\ dis' = [dis EXCEPT ![t].pc = "stop", ![t].dead = Dead]
  /\ UNCHANGED <<setup, st, queued, removal, reset, timer, mgr, hardVars, queueVars, hmb, tags,
                 rq, broken, budget>>

(* nvme_stop_queues() quiesces the queues ... *)
DisableStop(t) ==
  /\ dis[t].pc = "stop"
  /\ ns' = [ns EXCEPT !.stopped = ns.there]
  /\ dis' = [dis EXCEPT ![t].pc = "delete"]
  /\ UNCHANGED <<setup, st, queued, removal, reset, timer, mgr, lock, hardVars, queueVars, hmb,
                 tags, rq, broken, budget>>

(* ... and waits until nothing is being dispatched. *)
NothingDispatched == \A r \in Reqs : rq[r].st # "dispatch"

(* nvme_disable_io_queues() and nvme_disable_admin_queue(); with a mute     *)
(* controller the deletions time out, yet it is reset.                      *)
DisableDelete(t) ==
  /\ dis[t].pc = "delete" /\ NothingDispatched
  /\ IF dis[t].dead \/ dev.count = 0
     THEN UNCHANGED <<hardVars, dev, hmb>>
     ELSE /\ ctl' = IF ctl \in {"ready", "mute"} THEN "off" ELSE ctl
          /\ csq' = {} /\ ccq' = {}
          /\ hmb' = [hmb EXCEPT !.used = FALSE]
          /\ dev' = [dev EXCEPT !.cc = @ /\ dis[t].shutdown]
  /\ dis' = [dis EXCEPT ![t].pc = "suspend"]
  /\ UNCHANGED <<setup, st, queued, removal, reset, timer, mgr, lock, queues, irqs, ns, tags, rq,
                 broken, budget>>

(* Mutant of Suspended: the interrupts of queues without a CQ are freed too, *)
(* in place of those of the NCQs.                                            *)
SuspendedNsqsOnly(qs) == {q \in qs : queues[q].on /\ ~NvmeqHasCq(q)}

(* The queues among qs whose interrupt nvme_suspend_queue() frees. *)
Suspended(qs) == {q \in qs : queues[q].on /\ NvmeqHasCq(q)}

TurnOff(qs) == [q \in Qids |-> IF q \in qs THEN [queues[q] EXCEPT !.on = FALSE]
                                           ELSE queues[q]]
NrOn(qs) == Cardinality({q \in qs : queues[q].on})

(* Mutant of Cancelled: posted completions are not reaped. *)
CancelledUnreaped(r) ==
  IF rq[r].st = "issued" THEN [rq[r] EXCEPT !.st = "wait"] ELSE rq[r]

(* What becomes of a request: found by nvme_reap_pending_cqes(), or         *)
(* cancelled and tried again.                                               *)
Cancelled(r) ==
  CASE rq[r].st = "posted" -> [st |-> "out", q |-> 0]
    [] rq[r].st = "issued" -> [rq[r] EXCEPT !.st = IF ns.dying THEN "out" ELSE "wait"]
    [] OTHER -> rq[r]

(* The polled queues of which memory is missing. *)
PollsNothing == {q \in IoQids(dev.count) : NvmeqHasCq(q) /\ ~queues[q].cq}

(* Suspends the queues, releases PCI, reaps and cancels, and starts the     *)
(* queues again before a shutdown so that what is left can fail.            *)
DisableRest(t) ==
  LET qs == {0} \cup IoQids(dev.count) IN
  /\ dis[t].pc = "suspend"
  /\ queues' = TurnOff(qs)
  /\ irqs' = irqs \ Suspended(qs)
  /\ dev' = [dev EXCEPT !.online = @ - NrOn(qs), !.pci = FALSE, !.vecs = 0,
                        !.adminstop = (@ \/ (queues[0].on /\ dev.adminq))
                                        /\ ~dis[t].shutdown,
                        !.cancelled = IF queues[0].on THEN @ \cup Commanding ELSE @]
  /\ hmb' = [hmb EXCEPT !.used = FALSE]
  /\ broken' = broken \cup {<<"poll", q>> : q \in PollsNothing}
  /\ rq' = [r \in Reqs |-> Cancelled(r)]
  /\ ns' = [ns EXCEPT !.stopped = ns.there /\ ~dis[t].shutdown]
  /\ lock' = None
  /\ dis' = [dis EXCEPT ![t].pc = "idle"]
  /\ UNCHANGED <<setup, st, queued, removal, reset, timer, mgr, hardVars, tags, budget>>

Disable(t) == DisableLock(t) \/ DisableStop(t) \/ DisableDelete(t) \/ DisableRest(t)

-----------------------------------------------------------------------------
(* nvme_reset_work().  nr is the number of I/O queues still aimed at; the  *)
(* next queue to create is dev.online.                                     *)

At(pc)  == reset = pc
Goto(pc) == reset' = pc /\ UNCHANGED <<setup, queued, removal, timer, mgr>>
elseVars == <<ns, tags, rq>>

ResetStart ==
  /\ At("idle") /\ queued
  /\ queued' = FALSE
  /\ reset' = IF st = "RESETTING" THEN "sync" ELSE "dead"
  /\ IF st = "RESETTING" /\ dev.cc THEN StartDisable(Reset, FALSE) ELSE UNCHANGED dis
  /\ UNCHANGED <<setup, st, removal, timer, mgr, lock, hardVars, queueVars, hmb, elseVars,
                 broken, budget>>

(* nvme_sync_queues() waits for the timeout handler. *)
ResetSync ==
  /\ At("sync") /\ dis[Reset].pc = "idle" /\ timer.pc = "idle"
  /\ Goto("enable")
  /\ UNCHANGED <<st, dis, lock, hardVars, queueVars, hmb, elseVars, broken, budget>>

(* nvme_pci_configure_admin_queue(), up to its interrupt. *)
AdminUp(on) ==
  /\ ctl' = "ready" /\ csq' = {} /\ ccq' = {}
  /\ queues' = [queues EXCEPT ![0] = [cq |-> TRUE, sq |-> TRUE, on |-> on]]
  /\ irqs' = IF on THEN irqs \cup {0} ELSE irqs
  /\ dev' = [dev EXCEPT !.pci = TRUE, !.vecs = 1, !.cc = TRUE,
                        !.count = IF @ = 0 THEN 1 ELSE @,
                        !.online = IF on THEN @ + 1 ELSE @,
                        !.adminq = (@ \/ (on /\ reset' = "connecting")),
                        !.adminstop = FALSE, !.cancelled = @ \ {Reset}]

(* nvme_pci_enable(), nvme_pci_configure_admin_queue() and the admin queue, *)
(* all under the lock.                                                      *)
EnableFails ==
  /\ At("enable") /\ lock = None /\ Goto("dead")
  /\ \/ /\ Fails("enable") \/ (ctl = "absent" /\ UNCHANGED budget)
        /\ UNCHANGED <<hardVars, queueVars, hmb>>
     \/ /\ Fails("vectors") /\ ctl # "absent"
        /\ dev' = [dev EXCEPT !.pci = TRUE]
        /\ UNCHANGED <<hardVars, queues, irqs, hmb>>
     \/ /\ Fails("admin") /\ ctl # "absent"
        /\ dev' = [dev EXCEPT !.pci = TRUE, !.vecs = 1]
        /\ ctl' = "off" /\ csq' = {} /\ ccq' = {}
        /\ UNCHANGED <<queues, irqs, hmb>>
     \/ /\ Fails("adminirq") /\ ctl # "absent" /\ AdminUp(FALSE)
        /\ UNCHANGED hmb
     \/ /\ Fails("tags") /\ ctl # "absent" /\ ~dev.adminq /\ AdminUp(TRUE)
        /\ UNCHANGED hmb
  /\ UNCHANGED <<st, dis, lock, elseVars, broken>>

EnableWorks ==
  /\ At("enable") /\ lock = None /\ ctl # "absent"
  /\ Goto("connecting") /\ AdminUp(TRUE)
  /\ UNCHANGED <<st, dis, lock, hmb, elseVars, broken, budget>>

ResetConnecting ==
  /\ At("connecting")
  /\ ChangeState("CONNECTING")
  /\ Goto(IF MayBecome("CONNECTING") THEN "identify" ELSE "dead")
  /\ UNCHANGED <<dis, lock, hardVars, queueVars, hmb, elseVars, broken, budget>>

(* nvme_init_ctrl_finish(). *)
ResetIdentify ==
  /\ At("identify")
  /\ \/ AdminWorks(Reset) /\ Goto("hostmem") /\ UNCHANGED budget
     \/ AdminWorks(Reset) /\ Fails("identify") /\ Goto("dead")
     \/ AdminFails(Reset) /\ Goto("dead") /\ UNCHANGED budget
  /\ UNCHANGED <<st, dis, lock, hardVars, queueVars, hmb, elseVars, broken>>

(* nvme_setup_host_mem(): memory is allocated or used again, and freed if   *)
(* the controller does not take it; no memory is no error.                  *)
HostMemTaken  == hmb' = [mem |-> TRUE, used |-> TRUE, flag |-> TRUE]
HostMemFreed  == hmb' = [hmb EXCEPT !.mem = FALSE]

ResetHostMem ==
  /\ At("hostmem")
  /\ \/ ~setup.hmb /\ Goto("count") /\ UNCHANGED <<hmb, budget>>
     \/ setup.hmb /\ ~hmb.mem /\ Fails("hostmem") /\ Goto("count") /\ UNCHANGED hmb
     \/ setup.hmb /\ AdminWorks(Reset) /\ HostMemTaken /\ Goto("count") /\ UNCHANGED budget
     \/ setup.hmb /\ AdminWorks(Reset) /\ Fails("hostmem") /\ HostMemFreed /\ Goto("count")
     \/ setup.hmb /\ AdminFails(Reset) /\ HostMemFreed /\ Goto("dead") /\ UNCHANGED budget
  /\ UNCHANGED <<st, dis, lock, hardVars, queueVars, elseVars, broken>>

(* nvme_set_queue_count(): an error of the controller means no queues. *)
ResetCount ==
  /\ At("count")
  /\ \/ /\ AdminWorks(Reset) /\ UNCHANGED budget
        /\ dev' = [dev EXCEPT !.nr = setup.limit]
        /\ Goto(IF setup.limit = 0 THEN "bringup" ELSE "prepare")
     \/ AdminWorks(Reset) /\ Fails("count") /\ Goto("bringup") /\ UNCHANGED dev
     \/ AdminFails(Reset) /\ Goto("dead") /\ UNCHANGED <<dev, budget>>
  /\ UNCHANGED <<st, dis, lock, hardVars, queues, irqs, hmb, elseVars, broken>>

(* nvme_setup_io_queues_trylock(). *)
MayLock == lock = None /\ st = "CONNECTING"

AdminOff == /\ queues' = [queues EXCEPT ![0].on = FALSE]
            /\ irqs' = IF queues[0].on THEN irqs \ {0} ELSE irqs

(* A larger array of queues: the admin queue is copied, the others are new. *)
ExtraqQueues == [q \in Qids |-> IF q = 0 THEN [queues[0] EXCEPT !.on = FALSE] ELSE NoQueue]

(* nvme_setup_io_queues() under the lock, before the label retry.  A failed *)
(* allocation of a larger array returns with the lock held.                 *)
ResetPrepare ==
  /\ At("prepare")
  /\ \/ ~MayLock /\ Goto("dead") /\ UNCHANGED <<lock, queueVars, budget>>
     \/ /\ MayLock /\ lock' = Reset
        /\ dev.nr > dev.room - 1 /\ Fails("array") /\ Goto("dead")
        /\ AdminOff /\ UNCHANGED dev
     \/ /\ MayLock /\ lock' = Reset /\ Goto("bar") /\ UNCHANGED budget
        /\ IF dev.nr <= dev.room - 1
           THEN AdminOff /\ UNCHANGED dev
           ELSE /\ queues' = ExtraqQueues
                /\ irqs' = irqs \ {0}
                /\ dev' = [dev EXCEPT !.room = dev.nr + 1]
  /\ UNCHANGED <<st, dis, hardVars, hmb, elseVars, broken>>

(* The doorbells have to fit into the BAR, for fewer queues if need be. *)
ResetBar ==
  /\ At("bar")
  /\ \/ Goto("irqs") /\ UNCHANGED <<lock, dev, budget>>
     \/ /\ Fails("bar")
        /\ dev' = [dev EXCEPT !.nr = @ - 1]
        /\ IF dev.nr = 1 THEN lock' = None /\ Goto("dead")
                         ELSE UNCHANGED lock /\ Goto("bar")
  /\ UNCHANGED <<st, dis, hardVars, queues, irqs, hmb, elseVars, broken>>

(* nvme_setup_irqs(). *)
NrVectors == Min({dev.nr + 1, setup.cpus + 1, setup.msix})

NrCqs(vecs) == IF vecs - 1 > 1 THEN vecs - 1 ELSE 1

(* From the label retry to mutex_unlock(): every interrupt must have been   *)
(* freed before pci_free_irq_vectors().                                     *)
ResetIrqs ==
  LET rest == IF queues[0].on THEN irqs \ {0} ELSE irqs IN
  /\ At("irqs")
  /\ lock' = None
  /\ broken' = broken \cup {<<"irq", q>> : q \in rest}
  /\ \/ /\ Fails("irqs") /\ Goto("dead") /\ AdminOff
        /\ dev' = [dev EXCEPT !.vecs = 0]
     \/ \E works \in BOOLEAN :
          /\ IF works THEN Goto("alloc") /\ UNCHANGED budget
                      ELSE Goto("dead") /\ Fails("adminirq")
          /\ dev' = [dev EXCEPT !.vecs = NrVectors, !.num_vecs = NrVectors,
                                !.nr_cqs = NrCqs(NrVectors), !.max_qid = dev.nr]
          /\ queues' = [queues EXCEPT ![0].on = works]
          /\ irqs' = IF works THEN rest \cup {0} ELSE rest
  /\ UNCHANGED <<st, dis, hardVars, hmb, elseVars>>

(* nvme_blex_create_io_queues(), the allocations: queues there before keep  *)
(* what they have.                                                          *)
AllocUpTo(n) ==
  /\ queues' = [q \in Qids |->
       IF q \in dev.count .. n - 1
         THEN [cq |-> NvmeqHasCq(q), sq |-> TRUE, on |-> FALSE] ELSE queues[q]]
  /\ dev' = [dev EXCEPT !.count = IF n > @ THEN n ELSE @]

ResetAlloc ==
  /\ At("alloc")
  /\ \/ AllocUpTo(dev.max_qid + 1) /\ Goto("create") /\ UNCHANGED budget
     \/ \E n \in dev.count .. dev.max_qid :
          Fails("memory") /\ AllocUpTo(n) /\ Goto(IF n = 1 THEN "dead" ELSE "create")
  /\ UNCHANGED <<st, dis, lock, hardVars, irqs, hmb, elseVars, broken>>

(* nvme_blex_create_queue().  An error of the controller ends the creation  *)
(* of queues, any other the reset.                                          *)
NextQid == dev.online                          \* the queue being created
MoreQueues == NextQid <= Min({dev.max_qid, dev.count - 1})

CreateCq ==
  /\ At("create") /\ MoreQueues /\ NvmeqHasCq(NextQid)
  /\ \/ AdminWorks(Reset) /\ ccq' = ccq \cup {NextQid} /\ Goto("sq") /\ UNCHANGED budget
     \/ AdminWorks(Reset) /\ Fails("cq") /\ Goto("created") /\ UNCHANGED ccq
     \/ AdminFails(Reset) /\ Goto("dead") /\ UNCHANGED <<ccq, budget>>
  /\ UNCHANGED <<st, dis, lock, ctl, csq, queueVars, hmb, elseVars, broken>>

(* Mutant of AssocCqid: every SQ is attached to the CQ of its own number. *)
AssocCqidOwn == NextQid

AssocCqid == CqOf(NextQid)

(* A controller refuses an SQ whose CQ does not exist. *)
CreateSq ==
  /\ At("sq") \/ (At("create") /\ MoreQueues /\ ~NvmeqHasCq(NextQid))
  /\ \/ /\ AdminWorks(Reset) /\ AssocCqid \in ccq /\ UNCHANGED <<ccq, budget>>
        /\ csq' = csq \cup {NextQid} /\ Goto("init")
     \/ /\ AdminWorks(Reset) /\ Goto("created") /\ UNCHANGED csq
        /\ IF AssocCqid \in ccq THEN Fails("sq") ELSE UNCHANGED budget
        /\ ccq' = IF NvmeqHasCq(NextQid) THEN ccq \ {NextQid} ELSE ccq
     \/ AdminFails(Reset) /\ Goto("dead") /\ UNCHANGED <<ccq, csq, budget>>
  /\ UNCHANGED <<st, dis, lock, ctl, queueVars, hmb, elseVars, broken>>

(* nvme_init_queue() clears the CQ's memory; without its interrupt a queue  *)
(* is taken back.                                                           *)
InitQueue ==
  /\ At("init")
  /\ \/ /\ ~MayLock /\ Goto("dead")
        /\ UNCHANGED <<hardVars, queueVars, broken, budget>>
     \/ /\ MayLock
        /\ broken' = IF NvmeqHasCq(NextQid) /\ ~queues[NextQid].cq
                       THEN broken \cup {<<"clear", NextQid>>} ELSE broken
        /\ \/ /\ Goto("create") /\ UNCHANGED <<hardVars, budget>>
              /\ queues' = [queues EXCEPT ![NextQid].on = TRUE]
              /\ irqs' = IF NvmeqHasCq(NextQid) THEN irqs \cup {NextQid} ELSE irqs
              /\ dev' = [dev EXCEPT !.online = @ + 1]
           \/ /\ NvmeqHasCq(NextQid) /\ Fails("irq") /\ Goto("dead")
              /\ csq' = csq \ {NextQid} /\ ccq' = ccq \ {NextQid}
              /\ UNCHANGED <<ctl, queueVars>>
  /\ UNCHANGED <<st, dis, lock, hmb, elseVars>>

(* Fewer queues than wanted: delete them all and start over with as many as *)
(* came online.                                                             *)
Created ==
  /\ At("created") \/ (At("create") /\ ~MoreQueues)
  /\ Goto(IF dev.online < 2 THEN "bringup"
          ELSE IF dev.online - 1 < dev.max_qid THEN "delete" ELSE "burst")
  /\ dev' = IF reset' = "delete" THEN [dev EXCEPT !.nr = dev.online - 1] ELSE dev
  /\ UNCHANGED <<st, dis, lock, hardVars, queues, irqs, hmb, elseVars, broken, budget>>

(* nvme_disable_io_queues(), which gives up after a timeout. *)
ResetDelete ==
  /\ At("delete") /\ Goto("relock")
  /\ IF AdminWorks(Reset) THEN csq' = csq \ IoQids(dev.online) /\ ccq' = ccq \ IoQids(dev.online)
                   ELSE UNCHANGED <<csq, ccq>>
  /\ UNCHANGED <<st, dis, lock, ctl, queueVars, hmb, elseVars, broken, budget>>

ResetRelock ==
  LET qs == IoQids(dev.count) IN
  /\ At("relock")
  /\ \/ ~MayLock /\ Goto("dead") /\ UNCHANGED <<lock, queueVars>>
     \/ /\ MayLock /\ lock' = Reset /\ Goto("irqs")
        /\ queues' = TurnOff(qs)
        /\ irqs' = irqs \ Suspended(qs)
        /\ dev' = [dev EXCEPT !.online = @ - NrOn(qs)]
  /\ UNCHANGED <<st, dis, hardVars, hmb, elseVars, broken, budget>>

(* nvme_blex_get_arbitration_burst(). *)
ResetBurst ==
  /\ At("burst")
  /\ \/ AdminWorks(Reset) /\ Goto("bringup")
     \/ AdminFails(Reset) /\ Goto("dead")
  /\ UNCHANGED <<st, dis, lock, hardVars, queueVars, hmb, elseVars, broken, budget>>

(* Without a working I/O queue the namespaces are killed and removed ... *)
ResetNoQueues ==
  /\ At("bringup") /\ dev.online < 2
  /\ ns' = [ns EXCEPT !.dying = ns.there, !.stopped = FALSE]
  /\ Goto("remove")
  /\ UNCHANGED <<st, dis, lock, hardVars, queueVars, hmb, tags, rq, broken, budget>>

(* nvme_free_tagset(): blex_info is freed, and not forgotten. *)
FreeTagset ==
  /\ tags' = [nr |-> 0, info |-> IF tags.info.state = "none" THEN tags.info
                                 ELSE [tags.info EXCEPT !.state = "freed"]]
  /\ broken' = IF tags.info.state = "freed" THEN broken \cup {<<"info", 0>>} ELSE broken

NoNs == [there |-> FALSE, depth |-> 0, stopped |-> FALSE, dying |-> FALSE]

ResetRemoveNs ==
  /\ At("remove") /\ InUse = {}
  /\ ns' = NoNs
  /\ FreeTagset
  /\ Goto("golive")
  /\ UNCHANGED <<st, dis, lock, hardVars, queueVars, hmb, rq, budget>>

(* ... otherwise the queues run again, so that nvme_wait_freeze() returns. *)
ResetRestart ==
  /\ At("bringup") /\ dev.online >= 2
  /\ ns' = [ns EXCEPT !.stopped = FALSE]
  /\ Goto("thaw")
  /\ UNCHANGED <<st, dis, lock, hardVars, queueVars, hmb, tags, rq, broken, budget>>

(* nvme_unfreeze(). *)
Unfrozen == IF ns.there THEN ns.depth - 1 ELSE ns.depth

TagsUpdated ==
  [nr |-> dev.online - 1,
   info |-> IF tags.nr # 0 THEN tags.info
            ELSE [state |-> IF dev.online > 2 THEN "live" ELSE tags.info.state,
                  max |-> dev.max_qid, cqs |-> dev.nr_cqs]]

(* nvme_pci_alloc_tag_set() or nvme_pci_update_nr_queues(), which leaves    *)
(* blex_info alone and frees the memory of queues no longer used.           *)
ResetThaw ==
  /\ At("thaw") /\ InUse = {}
  /\ tags' = TagsUpdated
  /\ IF tags.nr = 0 THEN UNCHANGED <<queues, dev>>
     ELSE /\ queues' = [q \in Qids |-> IF q >= dev.online THEN NoQueue ELSE queues[q]]
          /\ dev' = [dev EXCEPT !.count = Min({@, dev.online})]
  /\ ns' = [ns EXCEPT !.depth = Unfrozen]
  /\ Goto("golive")
  /\ UNCHANGED <<st, dis, lock, hardVars, irqs, hmb, rq, broken, budget>>

(* nvme_start_ctrl() starts the queues and scans for namespaces. *)
ResetLive ==
  /\ At("golive")
  /\ ChangeState("LIVE")
  /\ Goto(IF MayBecome("LIVE") THEN "idle" ELSE "dead")
  /\ ns' = IF MayBecome("LIVE")
             THEN [ns EXCEPT !.there = (tags.nr > 0), !.stopped = FALSE] ELSE ns
  /\ UNCHANGED <<dis, lock, hardVars, queueVars, hmb, tags, rq, broken, budget>>

(* nvme_remove_dead_ctrl(). *)
ResetDead ==
  /\ At("dead")
  /\ ChangeState("DELETING")
  /\ StartDisable(Reset, FALSE)
  /\ Goto("kill")
  /\ UNCHANGED <<lock, hardVars, queueVars, hmb, elseVars, broken, budget>>

KillQueues ==
  /\ ns' = [ns EXCEPT !.dying = ns.there, !.stopped = FALSE]
  /\ dev' = [dev EXCEPT !.adminstop = FALSE]

ResetKill ==
  /\ At("kill") /\ dis[Reset].pc = "idle"
  /\ KillQueues
  /\ removal' = TRUE /\ reset' = "idle"
  /\ UNCHANGED <<setup, st, queued, timer, mgr, dis, lock, hardVars, queues, irqs, hmb, tags,
                 rq, broken, budget>>

ResetWork ==
  \/ ResetStart \/ ResetSync \/ EnableFails \/ EnableWorks \/ ResetConnecting
  \/ ResetIdentify \/ ResetHostMem \/ ResetCount \/ ResetPrepare \/ ResetBar \/ ResetIrqs
  \/ ResetAlloc \/ CreateCq \/ CreateSq \/ InitQueue \/ Created \/ ResetDelete
  \/ ResetRelock \/ ResetBurst \/ ResetNoQueues \/ ResetRemoveNs \/ ResetRestart
  \/ ResetThaw \/ ResetLive \/ ResetDead \/ ResetKill

-----------------------------------------------------------------------------
(* Requests to the namespaces, and the controller.                         *)

reqElse == <<setup, st, threadVars, queueVars, hmb, tags, broken, budget>>

Enter(r) ==
  /\ rq[r].st = "out" /\ ns.there /\ ns.depth <= 0 /\ ~ns.dying
  /\ rq' = [rq EXCEPT ![r].st = "wait"]
  /\ UNCHANGED <<reqElse, ns, hardVars>>

(* Any hctx, of which there are tags.nr, dispatches to the NQ it stands for. *)
Dispatch(r) ==
  /\ rq[r].st = "wait" /\ ~ns.stopped
  /\ \E q \in 1 .. tags.nr : rq' = [rq EXCEPT ![r] = [st |-> "dispatch", q |-> q]]
  /\ UNCHANGED <<reqElse, ns, hardVars>>

(* nvme_queue_rq() fails a request for a queue that is not enabled. *)
Submit(r) ==
  /\ rq[r].st = "dispatch"
  /\ rq' = [rq EXCEPT ![r].st = IF queues[rq[r].q].on THEN "issued" ELSE "out"]
  /\ UNCHANGED <<reqElse, ns, hardVars>>

Post(r) ==
  /\ rq[r].st = "issued" /\ ctl = "ready" /\ rq[r].q \in csq
  /\ rq' = [rq EXCEPT ![r].st = "posted"]
  /\ UNCHANGED <<reqElse, ns, hardVars>>

(* nvme_irq(), of the NCQ's vector. *)
Interrupt(r) ==
  /\ rq[r].st = "posted" /\ CqOf(rq[r].q) \in irqs
  /\ rq' = [rq EXCEPT ![r] = [st |-> "out", q |-> 0]]
  /\ UNCHANGED <<reqElse, ns, hardVars>>

(* The controller stops answering, fails, or is pulled out. *)
Turn(f) ==
  /\ f \in setup.turn /\ budget.faults > 0 /\ ctl = "ready"
  /\ ctl' = f
  /\ IF f = "absent" THEN csq' = {} /\ ccq' = {} ELSE UNCHANGED <<csq, ccq>>
  /\ budget' = [budget EXCEPT !.faults = @ - 1]
  /\ UNCHANGED <<setup, st, threadVars, queueVars, hmb, tags, broken, ns, rq>>

-----------------------------------------------------------------------------
(* nvme_timeout(), for a request of an I/O queue or a command of the admin *)
(* queue which the controller does not answer.                             *)

(* The block layer only visits the requests of queues that have their own  *)
(* completion queue, by blex_info.                                         *)
Visited(q) == HasCq(q, tags.info.max, tags.info.cqs)
Stuck(r)   == rq[r].st = "issued" /\ (ctl # "ready" \/ rq[r].q \notin csq)

Unanswered ==
  \/ \E r \in Reqs : Stuck(r) /\ Visited(rq[r].q)
  \/ queues[0].on /\ ctl # "ready" /\ Commanding # {}

(* Mutant of ExpireState: only a live controller is taken for one that works. *)
ExpireStateKept == st

ExpireState == IF st = "CONNECTING" THEN "DELETING" ELSE st

(* A failed or absent controller is reset unless a reset is on its way; one *)
(* that is being set up or removed is shut down for good.                   *)
Expire ==
  LET failed == ctl \in {"failed", "absent"} /\ st \notin {"RESETTING", "CONNECTING"}
      starts == st \in {"CONNECTING", "DELETING"}
  IN
  /\ timer.pc = "idle" /\ Unanswered /\ ~dev.frozen
  /\ failed \/ st # "RESETTING"
  /\ IF ~failed /\ starts
     THEN /\ st' = ExpireState
          /\ StartDisable(Timer, TRUE)
          /\ timer' = [pc |-> "busy", resets |-> FALSE]
     ELSE /\ StartDisable(Timer, FALSE)
          /\ timer' = [pc |-> "busy", resets |-> TRUE]
          /\ UNCHANGED st
  /\ UNCHANGED <<setup, queued, removal, reset, mgr, lock, hardVars, queueVars, hmb,
                 elseVars, broken, budget>>

ExpireEnds ==
  /\ timer.pc = "busy" /\ dis[Timer].pc = "idle"
  /\ timer' = [pc |-> "idle", resets |-> FALSE]
  /\ IF timer.resets THEN ResetCtrl ELSE UNCHANGED <<st, queued>>
  /\ UNCHANGED <<setup, removal, reset, mgr, dis, lock, hardVars, queueVars, hmb, elseVars,
                 broken, budget>>

-----------------------------------------------------------------------------
(* The manager.  Operations hold the device lock, so there is one at a     *)
(* time; the device can be suspended once its namespaces are there.        *)

Mgr(op, pc)  == mgr = [op |-> op, pc |-> pc]
MgrGoto(pc)  == mgr' = [mgr EXCEPT !.pc = pc]
MgrDone      == mgr' = [op |-> None, pc |-> "idle"]
mgrElse      == <<setup, removal, reset, timer, lock>>
Idle(t)      == dis[t].pc = "idle"
ResetIdle    == reset = "idle" /\ ~queued

MgrStart(op) ==
  /\ mgr.op = None
  /\ \/ /\ op \in setup.ops /\ budget.ops > 0
        /\ op # "remove" => ns.there
        /\ op \in {"aer", "hmb"} => st = "LIVE" /\ ResetIdle
        /\ budget' = [budget EXCEPT !.ops = @ - 1]
     \/ op = "remove" /\ removal /\ UNCHANGED budget
  /\ mgr' = [op |-> op, pc |-> CASE op \in {"suspend", "flr"} -> "waitreset"
                                 [] op = "power" -> "frozen"
                                 [] OTHER -> "start"]
  /\ ns' = IF op = "power" THEN [ns EXCEPT !.depth = @ + 1] ELSE ns
  /\ dev' = [dev EXCEPT !.cancelled = @ \ {Manager}]
  /\ UNCHANGED <<mgrElse, st, queued, dis, hardVars, queues, irqs, hmb, tags, rq, broken>>

(* nvme_disable_prepare_reset(); nvme_reset_prepare() goes on if it fails. *)
WaitReset ==
  /\ mgr.pc = "waitreset"
  /\ MayBecome("RESETTING") \/ st \in {"DELETING", "DEAD"}
  /\ ChangeState("RESETTING")
  /\ IF MayBecome("RESETTING")
     THEN StartDisable(Manager, mgr.op # "flr") /\ MgrGoto("down")
     ELSE UNCHANGED dis /\ IF mgr.op = "flr" THEN MgrGoto("down") ELSE MgrGoto("thaw")
  /\ UNCHANGED <<mgrElse, queued, hardVars, queueVars, hmb, elseVars, broken, budget>>

(* nvme_resume() and nvme_simple_resume() after a shutdown, nvme_reset_done(). *)
Down ==
  /\ mgr.pc = "down" /\ Idle(Manager)
  /\ mgr.op = "flr" => timer.pc = "idle"
  /\ IF mgr.op = "power" THEN UNCHANGED <<st, queued>> ELSE TrySchedReset
  /\ CASE mgr.op = "power" -> MgrGoto("slept")
       [] mgr.op = "flr"   -> MgrGoto("flush")
       [] OTHER            -> MgrDone
  /\ UNCHANGED <<mgrElse, dis, hardVars, queueVars, hmb, elseVars, broken, budget>>

(* nvme_reset_done() and nvme_error_resume() wait for the reset. *)
Flush ==
  /\ mgr.op \in {"flr", "aer"} /\ mgr.pc = "flush" /\ ResetIdle
  /\ MgrDone
  /\ UNCHANGED <<mgrElse, st, queued, dis, hardVars, queueVars, hmb, elseVars, broken, budget>>

(* nvme_suspend() with power states: freeze, take the host memory back, set *)
(* the state, and unfreeze in any case.                                     *)
PowerFrozen ==
  /\ Mgr("power", "frozen") /\ InUse = {} /\ timer.pc = "idle"
  /\ MgrGoto(IF st # "LIVE" THEN "thaw" ELSE IF hmb.flag THEN "hmboff" ELSE "setps")
  /\ UNCHANGED <<mgrElse, st, queued, dis, hardVars, queueVars, hmb, elseVars, broken, budget>>

PowerHmbOff ==
  /\ Mgr("power", "hmboff")
  /\ \/ /\ AdminWorks(Manager) /\ MgrGoto("setps") /\ UNCHANGED budget
        /\ hmb' = [hmb EXCEPT !.used = FALSE, !.flag = FALSE]
     \/ AdminWorks(Manager) /\ Fails("hostmem") /\ MgrGoto("setps") /\ UNCHANGED hmb
     \/ AdminFails(Manager) /\ MgrGoto("thaw") /\ UNCHANGED <<hmb, budget>>
  /\ UNCHANGED <<mgrElse, st, queued, dis, hardVars, queueVars, elseVars, broken>>

PowerSet ==
  /\ Mgr("power", "setps")
  /\ \/ AdminWorks(Manager) /\ MgrGoto("saved") /\ UNCHANGED budget
     \/ AdminWorks(Manager) /\ Fails("power") /\ MgrGoto("waitreset")
     \/ AdminFails(Manager) /\ MgrGoto("thaw") /\ UNCHANGED budget
  /\ UNCHANGED <<mgrElse, st, queued, dis, hardVars, queueVars, hmb, elseVars, broken>>

(* Unfreezes.  Only a device that was suspended is resumed later. *)
PowerThaw ==
  /\ mgr.op \in {"power", "suspend"} /\ mgr.pc \in {"thaw", "saved", "slept"}
  /\ ns' = IF mgr.op = "power" THEN [ns EXCEPT !.depth = Unfrozen] ELSE ns
  /\ IF mgr.pc = "saved" THEN MgrGoto("wake") ELSE MgrDone
  /\ IF mgr.pc = "slept" THEN TrySchedReset ELSE UNCHANGED <<st, queued>>
  /\ UNCHANGED <<mgrElse, dis, hardVars, queueVars, hmb, tags, rq, broken, budget>>

(* nvme_resume(). *)
PowerWake ==
  /\ Mgr("power", "wake") /\ MgrDone
  /\ \/ /\ AdminWorks(Manager) /\ UNCHANGED <<st, queued, budget>>
        /\ IF setup.hmb THEN HostMemTaken ELSE UNCHANGED hmb
     \/ AdminWorks(Manager) /\ Fails("power") /\ TrySchedReset /\ UNCHANGED hmb
     \/ AdminFails(Manager) /\ TrySchedReset /\ UNCHANGED <<hmb, budget>>
  /\ UNCHANGED <<mgrElse, dis, hardVars, queueVars, elseVars, broken>>

(* nvme_error_detected() with a frozen channel. *)
AerDetected ==
  /\ Mgr("aer", "start")
  /\ dev' = [dev EXCEPT !.frozen = TRUE]
  /\ StartDisable(Manager, FALSE) /\ MgrGoto("reset")
  /\ UNCHANGED <<mgrElse, st, queued, hardVars, queues, irqs, hmb, elseVars, broken, budget>>

(* nvme_slot_reset(). *)
AerReset ==
  /\ Mgr("aer", "reset") /\ Idle(Manager)
  /\ dev' = [dev EXCEPT !.frozen = FALSE]
  /\ ResetCtrl /\ MgrGoto("flush")
  /\ UNCHANGED <<mgrElse, dis, hardVars, queues, irqs, hmb, elseVars, broken, budget>>

(* hmb_store().  It takes no lock: what it does beside a reset is left out. *)
HmbStore ==
  /\ Mgr("hmb", "start") /\ ResetIdle /\ MgrDone
  /\ \/ /\ AdminWorks(Manager)
        /\ hmb' = IF hmb.flag THEN [mem |-> FALSE, used |-> FALSE, flag |-> FALSE]
                              ELSE [mem |-> TRUE, used |-> TRUE, flag |-> TRUE]
     \/ ~AdminWorks(Manager) /\ hmb' = IF hmb.flag THEN hmb ELSE [hmb EXCEPT !.mem = FALSE]
  /\ UNCHANGED <<mgrElse, st, queued, dis, hardVars, queueVars, elseVars, broken, budget>>

(* nvme_remove(). *)
RemoveStart ==
  /\ Mgr("remove", "start")
  /\ IF ctl = "absent"
     THEN st' = "DEAD" /\ StartDisable(Manager, TRUE)
     ELSE ChangeState("DELETING") /\ UNCHANGED dis
  /\ removal' = FALSE
  /\ MgrGoto("flush")
  /\ UNCHANGED <<setup, queued, reset, timer, lock, hardVars, queueVars, hmb, elseVars, broken,
                 budget>>

(* nvme_remove_namespaces() kills the queues of a dead controller first. *)
RemoveKill ==
  /\ Mgr("remove", "flush") /\ Idle(Manager) /\ ResetIdle
  /\ IF st = "DEAD" THEN KillQueues ELSE UNCHANGED <<ns, dev>>
  /\ MgrGoto("empty")
  /\ UNCHANGED <<mgrElse, st, queued, dis, hardVars, queues, irqs, hmb, tags, rq, broken,
                 budget>>

RemoveNs ==
  /\ Mgr("remove", "empty") /\ InUse = {}
  /\ ns' = NoNs
  /\ StartDisable(Manager, TRUE) /\ MgrGoto("free")
  /\ UNCHANGED <<mgrElse, st, queued, hardVars, queueVars, hmb, tags, rq, broken, budget>>

(* Mutant of MayFree: memory is freed while the device is being disabled. *)
MayFreeEarly == TRUE

MayFree == Idle(Manager)

(* nvme_free_host_mem(), nvme_dev_remove_admin(), nvme_free_queues(0) and   *)
(* nvme_pci_free_ctrl().                                                    *)
RemoveFree ==
  /\ Mgr("remove", "free") /\ MayFree
  /\ HostMemFreed
  /\ dev' = [dev EXCEPT !.adminq = FALSE, !.count = 0]
  /\ queues' = [q \in Qids |-> NoQueue]
  /\ FreeTagset
  /\ MgrGoto("removed")
  /\ UNCHANGED <<mgrElse, st, queued, dis, hardVars, irqs, ns, rq, budget>>

Manage ==
  \/ WaitReset \/ Down \/ Flush \/ PowerFrozen \/ PowerHmbOff \/ PowerSet \/ PowerThaw
  \/ PowerWake \/ AerDetected \/ AerReset \/ HmbStore \/ RemoveStart \/ RemoveKill
  \/ RemoveNs \/ RemoveFree

Next ==
  \/ ResetWork \/ Expire \/ ExpireEnds \/ Manage
  \/ \E t \in Threads : Disable(t)
  \/ \E op \in Ops : MgrStart(op)
  \/ \E f \in Faulty : Turn(f)
  \/ \E r \in Reqs : Enter(r) \/ Dispatch(r) \/ Submit(r) \/ Post(r) \/ Interrupt(r)

(* Work queues and threads run, timeouts expire, a controller that works   *)
(* answers.  Nobody has to enter requests, start an operation or break the *)
(* controller; a dead controller is removed.                               *)
Spec ==
  /\ Init /\ [][Next]_vars
  /\ WF_vars(ResetWork) /\ WF_vars(Expire \/ ExpireEnds) /\ WF_vars(Manage)
  /\ WF_vars(\E t \in Threads : Disable(t))
  /\ WF_vars(removal /\ MgrStart("remove"))
  /\ \A r \in Reqs : WF_vars(Dispatch(r) \/ Submit(r) \/ Post(r) \/ Interrupt(r))

-----------------------------------------------------------------------------
(* Properties.                                                             *)

Quiet == ResetIdle /\ timer.pc = "idle" /\ mgr.op = None /\ \A t \in Threads : Idle(t)

TypeOK ==
  /\ setup \in Setups
  /\ st \in {"LIVE", "RESETTING", "CONNECTING", "DELETING", "DEAD"}
  /\ queued \in BOOLEAN /\ removal \in BOOLEAN /\ lock \in Threads \cup {None}
  /\ timer \in [pc : {"idle", "busy"}, resets : BOOLEAN]
  /\ mgr.op \in Ops \cup {None}
  /\ dis \in [Threads -> [pc : {"idle", "lock", "stop", "delete", "suspend"},
                          shutdown : BOOLEAN, dead : BOOLEAN]]
  /\ dev.online \in 0 .. MaxQueues + 1 /\ dev.count \in 0 .. dev.room
  /\ dev.nr \in 0 .. setup.limit /\ dev.max_qid \in 0 .. setup.limit
  /\ queues \in [Qids -> [cq : BOOLEAN, sq : BOOLEAN, on : BOOLEAN]]
  /\ irqs \subseteq Qids /\ csq \subseteq Qids /\ ccq \subseteq Qids
  /\ ctl \in {"off", "ready"} \cup Faulty
  /\ hmb \in [mem : BOOLEAN, used : BOOLEAN, flag : BOOLEAN]
  /\ ns.depth \in 0 .. 3
  /\ rq \in [Reqs -> [st : {"out", "wait", "dispatch", "issued", "posted"}, q : Qids]]

(* Every variable has its type, no interrupt outlives its vector, and no    *)
(* completion queue is cleared or polled without memory, whatever failed    *)
(* and was tried again (pci.c:1709, 1833, 2814).                            *)
NothingBroken == TypeOK /\ \A q \in Qids : {<<"irq", q>>, <<"clear", q>>, <<"poll", q>>} \cap broken = {}

(* blex_info is freed once.  It is not: a reset that finds no I/O queue     *)
(* frees it with the tag set, and so does the removal later (pci.c:3353).   *)
FreedOnce == <<"info", 0>> \notin broken

(* A queue that accepts requests exists in the controller, and so does the  *)
(* NCQ that answers them, with its interrupt and memory, whatever failed    *)
(* while queues were created, deleted and created again (pci.c:2117).       *)
OpenQueuesAnswer ==
  \A q \in Qids \ {0} :
    queues[q].on /\ ns.there /\ ~ns.stopped /\ ctl = "ready" =>
      /\ q \in csq /\ queues[q].sq
      /\ CqOf(q) \in ccq \cap irqs /\ queues[CqOf(q)].cq /\ queues[CqOf(q)].on

(* A request is never left in a queue that was taken down: quiescing,       *)
(* reaping and cancelling catch all of them, also one that was on its way   *)
(* when the queue was disabled (pci.c:3264).                                *)
NoStrandedRequest ==
  \A r \in Reqs : rq[r].st \in {"issued", "posted"} => queues[rq[r].q].on

(* Every freeze is undone once, whichever of suspend, timeout, error        *)
(* recovery and reset made it: a live controller nobody works on lets       *)
(* requests in (pci.c:3264, 3392, 3866).                                    *)
FreezesBalance == st = "LIVE" /\ Quiet => ns.depth = 0

(* No queue is unfrozen more often than it was frozen, as the warning in    *)
(* blk-mq.c:244 demands.  With error recovery beside a reset one is: the    *)
(* handler disables the device while it is being connected, without a       *)
(* freeze, and the reset after the recovery unfreezes (pci.c:3278).         *)
NeverOverthawed == ns.depth >= 0

(* The controller never uses host memory that was given back (pci.c:2445).  *)
HostMemOwned == hmb.used => hmb.mem

(* The hardware queues the block layer sees are the enabled queues of a     *)
(* live controller, also after a reset that got fewer (pci.c:3149).         *)
LayoutsAgree ==
  st = "LIVE" /\ tags.nr > 0 /\ lock = None /\ dev.pci =>
    {q \in Qids \ {0} : queues[q].on} = 1 .. tags.nr

(* What a request is in flight in, the block layer, the driver and the      *)
(* controller agree on which queues there are.                              *)
QueuesAgree == OpenQueuesAnswer /\ NoStrandedRequest /\ LayoutsAgree

(* The NQ scheduler's copy of the layout agrees with them.  It does not:    *)
(* blex_info is filled once, and kept when a reset gets fewer queues        *)
(* (pci.c:3022, 3149).                                                      *)
InfoCurrent ==
  st = "LIVE" /\ tags.nr > 0 /\ lock = None /\ tags.info.state = "live" =>
    tags.info.max = dev.max_qid /\ tags.info.cqs = dev.nr_cqs

(* A request in a queue whose requests never time out is with a controller  *)
(* that no longer answers (blk-mq-tag.c:568).                               *)
Forgotten(r) == Stuck(r) /\ ~Visited(rq[r].q)

(* Every reset ends, with the controller live or given up, unless it has    *)
(* locked itself out: nvme_setup_io_queues() returns with shutdown_lock     *)
(* held if the larger array of queues cannot be had (pci.c:2838); or it     *)
(* waits for a forgotten request (pci.c:3392).                              *)
LockedOut == lock = Reset /\ dis[Reset].pc = "lock"

ResetEnds ==
  (queued \/ reset # "idle") ~> ResetIdle \/ LockedOut \/ (\E r \in Reqs : Forgotten(r))

(* Every request ends, across timeouts, resets and suspension, unless it is *)
(* forgotten or the device is removed meanwhile: a timeout handler that     *)
(* disables it once more leaves the queues stopped (pci.c:1584, 3264).      *)
EveryRequestEnds ==
  \A r \in Reqs :
    rq[r].st # "out" ~> rq[r].st = "out" \/ mgr.op = "remove" \/ Forgotten(r)
=============================================================================
