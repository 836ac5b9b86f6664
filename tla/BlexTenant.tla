----------------------------- MODULE BlexTenant -----------------------------
(***************************************************************************)
(* The I/O contexts of tasks (tenants) on one device: how a task gets its  *)
(* blk-blex context and its default NQ, how profiling, CPU migration and   *)
(* I/O priority changes update them, how a request is given an NQ, newly   *)
(* allocated or from the plug, and how the per-CPU maps that count the     *)
(* tasks of each NQ are kept.                                              *)
(*                                                                         *)
(* NQs stand for their hctxs.  Which NQ of a group blk_blex_recommend_nsq()*)
(* or round robin picks is left open here (BlexNqSched models it).  Tasks  *)
(* run on CPUs, may move between them, and are interrupted only where they *)
(* sleep or the kernel may preempt them.  An io_context and a              *)
(* blk_blex_task_ioc bear the name of the task that allocated them.        *)
(***************************************************************************)
EXTENDS BlexQueueMap, Integers, FiniteSets

CONSTANTS
  Tasks,
  Setters,     \* other processes that call ioprio_set() on a task
  Setups,      \* the devices, modes and tasks looked at, see below
  Magnitude,   \* how much more is dominance: 10
  None

(* A setup: a device's NQs and NCQs and the CPUs; the module's modes and   *)
(* the kernel's; the CPUs and the io_context (a task's name or None) of    *)
(* each task; what setters and tasks ask for; and bounds.                  *)
Setup == [nqs : Nat \ {0}, cqs : Nat, cpus : Nat \ {0},
          opt : 0 .. 2,           \* daredevil_blex_opt_level
          profile : BOOLEAN,      \* daredevil_io_profile_on
          preempt : BOOLEAN,      \* the kernel preempts kernel code
          tasks : SUBSET Tasks, setters : SUBSET Setters,
          home : [Tasks -> SUBSET Nat], io : [Tasks -> Tasks \cup {None}],
          classes : SUBSET {"rt", "be"},           \* I/O priority classes
          bios : SUBSET {"sync", "meta", "async"}, \* meta: of high priority, not sync
          early : BOOLEAN,        \* setters also pick tasks without a context
          reuse : BOOLEAN,        \* a freed io_context may be reused at once
          batch : BOOLEAN,        \* plugs get two requests at once
          waits : BOOLEAN,        \* tags run out, tasks sleep for them
          fails : Nat, moves : Nat, sets : Nat, submits : Nat]

(* A task without an io_context will allocate one of its own name, so      *)
(* nobody has that one already.                                            *)
ASSUME TenantAssumption ==
  /\ \A s \in Setups :
       /\ s \in Setup /\ s.cqs \in 2 .. s.nqs
       /\ \A t \in Tasks : /\ s.home[t] # {} /\ s.home[t] \subseteq 0 .. s.cpus - 1
                           /\ s.io[t] = None => \A u \in Tasks : s.io[u] # t
  /\ IsFiniteSet(Tasks)
  /\ Magnitude \in Nat \ {0}
  /\ None \notin Tasks /\ None \notin Nat /\ Tasks \cap Setters = {}

Contexts == Tasks \cup Setters

VARIABLES
  setup,    \* the setup, which never changes
  cpu,      \* the CPU of each task
  io,       \* task->io_context
  ioprio,   \* io_context->ioprio
  ctx,      \* io_context->blk_blex_iocs, its entry for the device
  obj,      \* the blk_blex_task_ioc each task allocated
  nsqMap,   \* nsq_maps[cpu].xa_nsq_map; 0 stands for no entry
  inUse,    \* nsq_maps[cpu].nr_in_use
  claimed,  \* ensq.claimed_core_cpumask of each NQ
  pc, loc,  \* where each context is, and its locals
  asked,    \* ghost: the class last asked for by a setter
  sent,     \* ghost: how the request of each task's last bio got its NQ
  cached,   \* current->plug->cached_rq: the NQ of the one cached request
  left      \* how often the bounded events may still happen

mapVars == <<nsqMap, inUse, claimed>>
vars == <<setup, cpu, io, ioprio, ctx, obj, mapVars, pc, loc, asked, sent, cached, left>>

MaxNqid == setup.nqs
NrCqs   == setup.cqs
NrCpus  == setup.cpus
Nqs     == 1 .. MaxNqid
Cpus    == 0 .. NrCpus - 1

OutlierPrio == 3

(* blk_blex_ioprio_simple_map() *)
SimpleMap(class) == IF class = "rt" THEN LPrio ELSE TPrio

(* BLK_BLEX_L_PRIO_MASK is bit 0: it is set in OutlierPrio, too. *)
HasLBit(prio) == prio % 2 = 1

GroupNqs(prio) ==
  UNION {q .. q + GetCqNrNsqs(q, MaxNqid, NrCqs) - 1
           : q \in GroupOf(prio, MaxNqid, NrCqs).ncqs}

NoCtx == [live |-> FALSE, prio |-> TPrio, hctx |-> None, outlier |-> None,
          last |-> 0, need |-> FALSE, sync |-> 0, async |-> 0]
NoLoc == [ctx |-> None, target |-> None, class |-> "be", bio |-> "async",
          prio |-> TPrio, old |-> None, nq |-> None, cpu |-> 0, v |-> 0, mcpu |-> 0,
          mnq |-> None, next |-> "idle", pinned |-> FALSE, changed |-> FALSE, steady |-> TRUE]

Init ==
  /\ setup \in Setups
  /\ cpu \in {f \in [Tasks -> Cpus] : \A t \in Tasks : f[t] \in setup.home[t]}
  /\ io = setup.io
  /\ ioprio = [x \in Tasks |-> "be"]
  /\ ctx = [x \in Tasks |-> None]
  /\ obj = [t \in Tasks |-> NoCtx]
  /\ nsqMap = [c \in Cpus |-> [n \in Nqs |-> 0]]
  /\ inUse = [c \in Cpus |-> 0]
  /\ claimed = [n \in Nqs |-> {}]
  /\ pc = [c \in Contexts |-> IF c \in setup.tasks \cup setup.setters THEN "idle" ELSE "dead"]
  /\ loc = [c \in Contexts |-> NoLoc]
  /\ asked = [x \in Tasks |-> "be"]
  /\ sent = [t \in Tasks |-> None] /\ cached = [t \in Tasks |-> None]
  /\ left = [fail |-> setup.fails, move |-> setup.moves, set |-> setup.sets,
             submit |-> [t \in Tasks |-> setup.submits]]

-----------------------------------------------------------------------------
(* Contexts, CPUs and preemption. *)

Goto(c, l) == pc' = [pc EXCEPT ![c] = l]
Finish(c) == Goto(c, "idle") /\ loc' = [loc EXCEPT ![c] = NoLoc]

(* A NULL or wild pointer is used: the context never gets further. *)
Oops(c) == Goto(c, "oops")

AtRest(t) == pc[t] \in {"idle", "dead", "oops"}

(* Where a task may sleep: it allocates memory, has an NQ recommended and  *)
(* waits in synchronize_rcu(), or waits for a tag.                         *)
Sleeps == {"io_alloc", "init", "insert", "recommend", "tag"}

(* Kernel code that another task on the CPU cannot interrupt; without      *)
(* kernel preemption it only lets others in where it sleeps.               *)
Section(t) ==
  \/ loc[t].pinned
  \/ ~setup.preempt /\ ~AtRest(t) /\ pc[t] \notin Sleeps

At(t, l) ==
  /\ pc[t] = l
  /\ t \in Tasks => \A u \in Tasks \ {t} : Section(u) => cpu[u] # cpu[t]

Migrate(t, c) ==
  /\ left.move > 0 /\ pc[t] \notin {"dead", "oops"} /\ ~Section(t)
  /\ c \in setup.home[t] \ {cpu[t]}
  /\ cpu' = [cpu EXCEPT ![t] = c]
  /\ left' = [left EXCEPT !.move = @ - 1]
  /\ UNCHANGED <<io, ioprio, ctx, obj, mapVars, pc, loc, asked, sent, cached>>

Fails == left.fail > 0 /\ left' = [left EXCEPT !.fail = @ - 1]

-----------------------------------------------------------------------------
(* blk_blex_set_maps() and blk_blex_clear_maps(): shared accesses one by   *)
(* one.  They are entered with mcpu, mnq and the step to go on with.       *)

Call(t, op, c, n, next, l) ==
  /\ Goto(t, op)
  /\ loc' = [loc EXCEPT ![t] = [l EXCEPT !.mcpu = c, !.mnq = n, !.next = next]]

SetClaim(t) ==
  /\ At(t, "set")
  /\ claimed' = [claimed EXCEPT ![loc[t].mnq] = @ \cup {loc[t].mcpu}]
  /\ Goto(t, "set_load")
  /\ UNCHANGED <<cpu, io, ioprio, ctx, obj, nsqMap, inUse, loc, asked, sent, cached, left>>

SetLoad(t) ==
  /\ At(t, "set_load")
  /\ loc' = [loc EXCEPT ![t].v = nsqMap[loc[t].mcpu][loc[t].mnq]]
  /\ Goto(t, "set_store")
  /\ UNCHANGED <<cpu, io, ioprio, ctx, obj, mapVars, asked, sent, cached, left>>

SetStore(t) ==
  /\ At(t, "set_store")
  /\ LET l == loc[t] IN
       /\ inUse' = [inUse EXCEPT ![l.mcpu] = IF l.v = 0 THEN @ + 1 ELSE @]
       /\ nsqMap' = [nsqMap EXCEPT ![l.mcpu][l.mnq] = l.v + 1]
       /\ Goto(t, l.next)
  /\ UNCHANGED <<cpu, io, ioprio, ctx, obj, claimed, loc, asked, sent, cached, left>>

ClearLoad(t) ==
  /\ At(t, "clear")
  /\ loc' = [loc EXCEPT ![t].v = nsqMap[loc[t].mcpu][loc[t].mnq]]
  /\ Goto(t, "clear_store")
  /\ UNCHANGED <<cpu, io, ioprio, ctx, obj, mapVars, asked, sent, cached, left>>

ClearStore(t) ==
  /\ At(t, "clear_store")
  /\ LET l == loc[t] IN
       /\ claimed' = [claimed EXCEPT ![l.mnq] = IF l.v > 1 THEN @ ELSE @ \ {l.mcpu}]
       /\ inUse' = [inUse EXCEPT ![l.mcpu] = IF l.v = 1 THEN @ - 1 ELSE @]
       /\ nsqMap' = [nsqMap EXCEPT ![l.mcpu][l.mnq] =
                       IF l.v > 1 THEN l.v - 1 ELSE IF l.v = 1 THEN 0 ELSE @]
       /\ Goto(t, l.next)
  /\ UNCHANGED <<cpu, io, ioprio, ctx, obj, loc, asked, sent, cached, left>>

-----------------------------------------------------------------------------
(* set_task_ioprio(), by a setter or by the task itself, which gives       *)
(* itself an io_context with IOPRIO_DEFAULT on its first submission.       *)

Unsteady(x) == [c \in Contexts |->
                  IF c \in Tasks /\ io[c] = x THEN [loc[c] EXCEPT !.steady = FALSE] ELSE loc[c]]

HasContext(x) == x # None /\ ctx[x] # None

(* The task has an io_context: its priority is written under task_lock. *)
SetIoprio(s, t, class) ==
  /\ pc[s] = "idle" /\ left.set > 0 /\ pc[t] # "dead"
  /\ io[t] # None /\ (setup.early \/ HasContext(io[t]))
  /\ left' = [left EXCEPT !.set = @ - 1]
  /\ ioprio' = [ioprio EXCEPT ![io[t]] = class]
  /\ asked' = [asked EXCEPT ![io[t]] = class]
  /\ loc' = [Unsteady(io[t]) EXCEPT ![s].target = t]
  /\ Goto(s, IF ioprio[io[t]] = class THEN "idle" ELSE "notify")
  /\ UNCHANGED <<cpu, io, ctx, obj, mapVars, sent, cached>>

SetIoprioNew(s, t, class) ==
  /\ pc[s] = "idle" /\ left.set > 0 /\ pc[t] # "dead"
  /\ io[t] = None /\ setup.early
  /\ left' = [left EXCEPT !.set = @ - 1]
  /\ loc' = [loc EXCEPT ![s].target = t, ![s].class = class]
  /\ Goto(s, "io_alloc")
  /\ UNCHANGED <<cpu, io, ioprio, ctx, obj, mapVars, asked, sent, cached>>

(* task_lock again after the allocation: somebody else's io_context, found *)
(* now, is used, and the priority written to it all the same.              *)
IoAlloc(c) ==
  /\ At(c, "io_alloc")
  /\ LET t == loc[c].target
         x == IF io[t] = None THEN t ELSE io[t]
         Return == Goto(c, IF c = t THEN "lookup" ELSE "idle")
     IN \/ /\ pc[t] # "dead"
           /\ io' = [io EXCEPT ![t] = x]
           /\ ioprio' = [ioprio EXCEPT ![x] = loc[c].class]
           /\ asked' = IF c = t THEN asked ELSE [asked EXCEPT ![x] = loc[c].class]
           /\ loc' = IF c = t THEN loc ELSE [loc EXCEPT ![t].steady = FALSE]
           /\ Return /\ UNCHANGED left
        \/ pc[t] = "dead" /\ Return /\ UNCHANGED <<io, ioprio, asked, loc, left>>
        \/ /\ Fails
           /\ Goto(c, IF c = t THEN "route" ELSE "idle")
           /\ UNCHANGED <<io, ioprio, asked, loc>>
  /\ UNCHANGED <<cpu, ctx, obj, mapVars, sent, cached>>

(* Mutant of Notify: nobody is told. *)
NotifyNobody(s) ==
  /\ pc[s] = "notify" /\ Finish(s)
  /\ UNCHANGED <<cpu, io, ioprio, ctx, obj, mapVars, asked, sent, cached, left>>

(* After task_unlock: every context of the task needs an update. *)
Notify(s) ==
  /\ pc[s] = "notify"
  /\ LET x == io[loc[s].target] IN
       IF x = None
         THEN Oops(s) /\ UNCHANGED <<obj, loc>>
         ELSE /\ obj' = IF ctx[x] = None THEN obj
                                         ELSE [obj EXCEPT ![ctx[x]].need = TRUE]
              /\ Finish(s)
  /\ UNCHANGED <<cpu, io, ioprio, ctx, mapVars, asked, sent, cached, left>>

-----------------------------------------------------------------------------
(* blk_mq_submit_bio() up to the task's context on the device. *)

SubmitBio(t, bio) ==
  /\ At(t, "idle") /\ left.submit[t] > 0
  /\ left' = [left EXCEPT !.submit[t] = @ - 1]
  /\ loc' = [loc EXCEPT ![t] =
               [NoLoc EXCEPT !.bio = bio, !.target = t, !.steady =
                  \A s \in Setters : pc[s] \notin {"idle", "dead"} => io[loc[s].target] # io[t]]]
  /\ Goto(t, IF io[t] = None THEN "io_alloc" ELSE "lookup")
  /\ UNCHANGED <<cpu, io, ioprio, ctx, obj, mapVars, asked, sent, cached>>

(* The context's priority is that of the moment it is allocated. *)
Lookup(t) ==
  /\ At(t, "lookup")
  /\ LET x == io[t] IN
       IF ctx[x] = None
         THEN loc' = [loc EXCEPT ![t].prio = SimpleMap(ioprio[x])] /\ Goto(t, "init")
         ELSE loc' = [loc EXCEPT ![t].ctx = ctx[x]] /\ Goto(t, "profile")
  /\ UNCHANGED <<cpu, io, ioprio, ctx, obj, mapVars, asked, sent, cached, left>>

(* Mutant of InitTaskIoc: the maps are not set at opt level 2 either. *)
InitTaskIocNoMaps(t) ==
  /\ At(t, "init")
  /\ \/ /\ \E n \in GroupNqs(loc[t].prio) :
             obj' = [obj EXCEPT ![t] = [NoCtx EXCEPT !.live = TRUE, !.prio = loc[t].prio,
                                                     !.hctx = n]]
        /\ Goto(t, "insert") /\ UNCHANGED <<loc, left>>
     \/ Fails /\ Goto(t, "route") /\ UNCHANGED <<obj, loc>>
  /\ UNCHANGED <<cpu, io, ioprio, ctx, mapVars, asked, sent, cached>>

(* blk_blex_alloc_and_init_task_ioc() and blk_blex_sched_task_init(): only *)
(* opt level 2 counts the task in the maps, between get_cpu() and put_cpu().*)
InitTaskIoc(t) ==
  /\ At(t, "init")
  /\ \/ /\ \E n \in GroupNqs(loc[t].prio) :
             /\ obj' = [obj EXCEPT ![t] = [NoCtx EXCEPT !.live = TRUE, !.prio = loc[t].prio,
                                                        !.hctx = n]]
             /\ IF setup.opt < 2
                  THEN Goto(t, "insert") /\ UNCHANGED loc
                  ELSE Call(t, "set", cpu[t], n, "init_end",
                            [loc[t] EXCEPT !.pinned = TRUE, !.cpu = cpu[t]])
        /\ UNCHANGED left
     \/ Fails /\ Goto(t, "route") /\ UNCHANGED <<obj, loc>>
  /\ UNCHANGED <<cpu, io, ioprio, ctx, mapVars, asked, sent, cached>>

InitEnd(t) ==
  /\ At(t, "init_end")
  /\ obj' = [obj EXCEPT ![t].last = loc[t].cpu]
  /\ loc' = [loc EXCEPT ![t].pinned = FALSE]
  /\ Goto(t, "insert")
  /\ UNCHANGED <<cpu, io, ioprio, ctx, mapVars, asked, sent, cached, left>>

(* xa_insert(): a context that a task sharing the io_context was faster to *)
(* insert, or no memory, and the new one is freed; the maps stay.          *)
InsertTaskIoc(t) ==
  /\ At(t, "insert")
  /\ \/ /\ ctx[io[t]] = None
        /\ ctx' = [ctx EXCEPT ![io[t]] = t]
        /\ loc' = [loc EXCEPT ![t].ctx = t]
        /\ Goto(t, "profile")
        /\ UNCHANGED <<obj, left>>
     \/ /\ IF ctx[io[t]] = None THEN Fails ELSE UNCHANGED left
        /\ obj' = [obj EXCEPT ![t].live = FALSE]
        /\ Goto(t, "route")
        /\ UNCHANGED <<ctx, loc>>
  /\ UNCHANGED <<cpu, io, ioprio, mapVars, asked, sent, cached>>

-----------------------------------------------------------------------------
(* blk_blex_tenant_ioc_profile() *)

(* blk_blex_decide_dominance(), as C parses it: / binds before +. *)
Outweighs(a, b) == a + (b \div 2) \div b >= Magnitude
DecideDominance(a, b, type) ==
  IF type = 0
    THEN IF a > 0 /\ b > 0
           THEN IF Outweighs(a, b) THEN 0 ELSE IF Outweighs(b, a) THEN 1 ELSE -1
           ELSE IF a > 0 THEN 0 ELSE IF b > 0 THEN 1 ELSE -1
    ELSE IF b = 0 THEN 0 ELSE IF Outweighs(a, b) THEN 1 ELSE 0

(* blk_blex_map_task_ioc_ioprio(): the result of DecideDominance() as a    *)
(* bool, which -1 makes true.                                              *)
MapIoprio(o, class) ==
  IF class = "be" /\ DecideDominance(obj[o].async, obj[o].sync, 0) # 0
    THEN OutlierPrio ELSE SimpleMap(class)

(* Counters are only compared with Magnitude and 0, and stop there. *)
Counted(o, bio) ==
  LET Inc(i) == IF i < Magnitude THEN i + 1 ELSE i
  IN  IF bio = "sync" THEN [o EXCEPT !.sync = Inc(@)] ELSE [o EXCEPT !.async = Inc(@)]

UpdateStats(t) ==
  /\ At(t, "profile")
  /\ LET o    == loc[t].ctx
         now  == Counted(obj[o], loc[t].bio)
         Dom(x) == DecideDominance(x.sync, x.async, 1)
     IN IF setup.profile
          THEN /\ obj' = [obj EXCEPT ![o] = now]
               /\ loc' = [loc EXCEPT ![t].changed = Dom(now) # Dom(obj[o])]
          ELSE UNCHANGED <<obj, loc>>
  /\ Goto(t, "moved")
  /\ UNCHANGED <<cpu, io, ioprio, ctx, mapVars, asked, sent, cached, left>>

(* The task has come to another CPU. *)
ClearOldCpu(t) ==
  /\ At(t, "moved")
  /\ LET o == obj[loc[t].ctx] IN
       IF o.last # cpu[t]
         THEN Call(t, "clear", o.last, o.hctx, "moved_set", loc[t])
         ELSE Goto(t, "notice") /\ UNCHANGED loc
  /\ UNCHANGED <<cpu, io, ioprio, ctx, obj, mapVars, asked, sent, cached, left>>

SetNewCpu(t) ==
  /\ At(t, "moved_set")
  /\ Call(t, "set", cpu[t], obj[loc[t].ctx].hctx, "moved_end", loc[t])
  /\ UNCHANGED <<cpu, io, ioprio, ctx, obj, mapVars, asked, sent, cached, left>>

MoveEnd(t) ==
  /\ At(t, "moved_end")
  /\ obj' = [obj EXCEPT ![loc[t].ctx].last = cpu[t]]
  /\ Goto(t, "notice")
  /\ UNCHANGED <<cpu, io, ioprio, ctx, mapVars, loc, asked, sent, cached, left>>

(* need_update is cleared before the priority is read. *)
TakeNotice(t) ==
  /\ At(t, "notice")
  /\ obj' = [obj EXCEPT ![loc[t].ctx].need = FALSE]
  /\ Goto(t, IF obj[loc[t].ctx].need THEN "resched" ELSE "outlier")
  /\ UNCHANGED <<cpu, io, ioprio, ctx, mapVars, loc, asked, sent, cached, left>>

(* blk_blex_sched_nq_allright(): at opt level 2 only the top of the        *)
(* group's heap is right, and that may be any of its NQs.                  *)
Allright(prio, nq) ==
  IF nq \notin GroupNqs(prio) THEN {FALSE} ELSE IF setup.opt = 2 THEN BOOLEAN ELSE {TRUE}

(* blk_blex_sched_task_update(), with the default NQ as it is at entry: it *)
(* is kept while it is right, opt level 1 takes the next one in turn, and  *)
(* the other levels have one recommended.                                  *)
SchedUpdate(t, prio, new) ==
  LET old == obj[loc[t].ctx].hctx
      l   == [loc[t] EXCEPT !.prio = new, !.old = old]
  IN \E right \in Allright(prio, old) :
       IF right \/ setup.opt = 1
         THEN /\ Goto(t, "assign")
              /\ \E n \in IF right THEN {old} ELSE GroupNqs(prio) :
                   loc' = [loc EXCEPT ![t] = [l EXCEPT !.nq = n]]
         ELSE Goto(t, "recommend") /\ loc' = [loc EXCEPT ![t] = l]

(* OutlierPrio is no group: nq_groups[3] lies behind the array. *)
Reschedule(t) ==
  /\ At(t, "resched")
  /\ LET new == MapIoprio(loc[t].ctx, ioprio[io[t]]) IN
       IF new \in Prios
         THEN SchedUpdate(t, new, new)
         ELSE Oops(t) /\ loc' = [loc EXCEPT ![t].prio = new]
  /\ UNCHANGED <<cpu, io, ioprio, ctx, obj, mapVars, asked, sent, cached, left>>

(* Mutant of Recommend: the count on the CPU that was left stays. *)
RecommendStays(t) ==
  /\ At(t, "recommend")
  /\ \E n \in GroupNqs(IF loc[t].prio = OutlierPrio THEN LPrio ELSE loc[t].prio) :
       /\ Goto(t, IF n = loc[t].old THEN "assign" ELSE "pin")
       /\ loc' = [loc EXCEPT ![t].nq = n]
  /\ UNCHANGED <<cpu, io, ioprio, ctx, obj, mapVars, asked, sent, cached, left>>

(* The NQ is recommended, awake again.  A new one leaves the CPU of the    *)
(* last update, where that is not the CPU of parent_task any more.         *)
Recommend(t) ==
  /\ At(t, "recommend")
  /\ \E n \in GroupNqs(IF loc[t].prio = OutlierPrio THEN LPrio ELSE loc[t].prio) :
       LET l    == [loc[t] EXCEPT !.nq = n]
           last == obj[l.ctx].last
       IN IF n # l.old /\ last # cpu[l.ctx]
            THEN Call(t, "clear", last, l.old, "pin", l)
            ELSE /\ Goto(t, IF n = l.old THEN "assign" ELSE "pin")
                 /\ loc' = [loc EXCEPT ![t] = l]
  /\ UNCHANGED <<cpu, io, ioprio, ctx, obj, mapVars, asked, sent, cached, left>>

(* blk_blex_sched_update_mappings(), on one CPU throughout. *)
GetCpu(t) ==
  /\ At(t, "pin")
  /\ Call(t, "set", cpu[t], loc[t].nq, "pin_clear",
          [loc[t] EXCEPT !.pinned = TRUE, !.cpu = cpu[t]])
  /\ UNCHANGED <<cpu, io, ioprio, ctx, obj, mapVars, asked, sent, cached, left>>

ClearOldNq(t) ==
  /\ At(t, "pin_clear")
  /\ Call(t, "clear", loc[t].cpu, loc[t].old, "unpin", loc[t])
  /\ UNCHANGED <<cpu, io, ioprio, ctx, obj, mapVars, asked, sent, cached, left>>

PutCpu(t) ==
  /\ At(t, "unpin")
  /\ obj' = [obj EXCEPT ![loc[t].ctx].last = loc[t].cpu]
  /\ loc' = [loc EXCEPT ![t].pinned = FALSE]
  /\ Goto(t, "assign")
  /\ UNCHANGED <<cpu, io, ioprio, ctx, mapVars, asked, sent, cached, left>>

(* What was scheduled becomes the default NQ, or the NQ for outliers. *)
Assign(t) ==
  /\ At(t, "assign")
  /\ LET l == loc[t] IN
       IF l.prio = OutlierPrio
         THEN /\ obj' = [obj EXCEPT ![l.ctx].outlier = l.nq, ![l.ctx].prio = l.prio,
                                    ![l.ctx].sync = 0, ![l.ctx].async = 0]
              /\ Goto(t, "route")
         ELSE /\ obj' = [obj EXCEPT ![l.ctx].hctx = l.nq, ![l.ctx].prio = l.prio]
              /\ Goto(t, "outlier")
  /\ UNCHANGED <<cpu, io, ioprio, ctx, mapVars, loc, asked, sent, cached, left>>

(* Mutant of Outlier: a change of pattern always gives the NQ up. *)
OutlierGivesUp(t) ==
  /\ At(t, "outlier")
  /\ LET o   == loc[t].ctx
         new == MapIoprio(o, ioprio[io[t]])
     IN \/ ~loc[t].changed /\ Goto(t, "route") /\ UNCHANGED <<obj, loc>>
        \/ /\ loc[t].changed /\ new = OutlierPrio /\ obj[o].outlier = None
           /\ SchedUpdate(t, LPrio, OutlierPrio) /\ UNCHANGED obj
        \/ /\ loc[t].changed /\ (new = OutlierPrio => obj[o].outlier # None)
           /\ obj' = [obj EXCEPT ![o].prio = new, ![o].sync = 0, ![o].async = 0,
                                 ![o].outlier = None]
           /\ Goto(t, "route") /\ UNCHANGED loc
  /\ UNCHANGED <<cpu, io, ioprio, ctx, mapVars, asked, sent, cached, left>>

(* The pattern of synchronous I/O has changed. *)
Outlier(t) ==
  /\ At(t, "outlier")
  /\ LET o   == loc[t].ctx
         new == MapIoprio(o, ioprio[io[t]])
     IN \/ ~loc[t].changed /\ Goto(t, "route") /\ UNCHANGED <<obj, loc>>
        \/ /\ loc[t].changed /\ new = OutlierPrio /\ obj[o].outlier = None
           /\ SchedUpdate(t, LPrio, OutlierPrio) /\ UNCHANGED obj
        \/ /\ loc[t].changed /\ (new = OutlierPrio => obj[o].outlier # None)
           /\ obj' = [obj EXCEPT ![o].prio = new, ![o].sync = 0, ![o].async = 0,
                        ![o].outlier = IF new # OutlierPrio /\ obj[o].prio = OutlierPrio
                                         THEN None ELSE @]
           /\ Goto(t, "route") /\ UNCHANGED loc
  /\ UNCHANGED <<cpu, io, ioprio, ctx, mapVars, asked, sent, cached, left>>

-----------------------------------------------------------------------------
(* The request for the bio, and exit. *)

Urgent(t) == loc[t].bio \in {"sync", "meta"}

(* bio_set_ioprio() *)
BioPrio(t) == IF io[t] = None THEN TPrio ELSE SimpleMap(ioprio[io[t]])

(* blk_blex_sched_req_alloc(): a request of high priority leaves the       *)
(* default NQ of a T-task.                                                 *)
Promoted(t) == ~HasLBit(obj[ctx[io[t]]].prio) /\ (HasLBit(BioPrio(t)) \/ Urgent(t))

ReqAlloc(t) ==
  LET o      == obj[ctx[io[t]]]
      lStart == GroupOf(LPrio, MaxNqid, NrCqs).ncq_start
  IN  IF ~Promoted(t) THEN o.hctx
      ELSE IF o.prio = OutlierPrio THEN o.outlier
      ELSE HctxToNqid(NonDefaultNqid(o.last, NrCpus, MaxNqid, lStart))

(* After a sleep for a tag, the task's CPU's hctx for the priority:        *)
(* OutlierPrio is behind the array, and an hctx may be missing (None).     *)
AfterSleep(t) ==
  LET prio == obj[ctx[io[t]]].prio
      nq   == HctxToNqid(DefaultHctxIdx(GroupOf(prio, MaxNqid, NrCqs), cpu[t]))
  IN  IF prio \in Prios /\ nq \in Nqs THEN nq ELSE None

(* blk_mq_get_cached_request(): whether the cached request will do.        *)
CachedFits(t) ==
  /\ cached[t] # None
  /\ IF cached[t] \in GroupNqs(LPrio) THEN HasLBit(BioPrio(t)) \/ Urgent(t)
                                      ELSE ~(HasLBit(BioPrio(t)) /\ Urgent(t))

(* The task gets a request of the NQ, in one way or another. *)
Get(t, how, nq) ==
  LET new == how = "new"
      o   == ctx[io[t]]
  IN /\ sent' = [sent EXCEPT ![t] =
          [how |-> how, nq |-> nq, urgent |-> Urgent(t),
           class |-> IF io[t] = None THEN "be" ELSE asked[io[t]],
           steady |-> loc[t].steady, promoted |-> new /\ Promoted(t),
           outlier |-> IF new /\ obj[o].prio = OutlierPrio THEN obj[o].outlier ELSE None]]
     /\ Finish(t)

(* A bio that is merged or refused gets no request. *)
NoRequest(t) ==
  /\ At(t, "route")
  /\ sent' = [sent EXCEPT ![t] = None] /\ Finish(t)
  /\ UNCHANGED <<cpu, io, ioprio, ctx, obj, mapVars, asked, cached, left>>

TakeCached(t) ==
  /\ At(t, "route") /\ CachedFits(t)
  /\ Get(t, "cached", cached[t])
  /\ cached' = [cached EXCEPT ![t] = None]
  /\ UNCHANGED <<cpu, io, ioprio, ctx, obj, mapVars, asked, left>>

(* __blk_mq_alloc_requests(): opt level 0 takes the static mapping.  Of a  *)
(* batch one request is used and the other cached.                         *)
Route(t) ==
  /\ At(t, "route") /\ ~CachedFits(t)
  /\ IF ~HasContext(io[t]) /\ (setup.opt > 0 \/ io[t] = None)
       THEN Oops(t) /\ UNCHANGED <<loc, sent, cached>>
       ELSE \/ \E nq \in IF setup.opt = 0 THEN Nqs ELSE {ReqAlloc(t)} :
                 /\ Get(t, IF setup.opt = 0 THEN "mapped" ELSE "new", nq)
                 /\ \/ UNCHANGED cached
                    \/ /\ setup.batch /\ cached[t] = None
                       /\ cached' = [cached EXCEPT ![t] = nq]
            \/ /\ setup.waits /\ Goto(t, "tag")
               /\ cached' = [cached EXCEPT ![t] = None] /\ UNCHANGED <<loc, sent>>
  /\ UNCHANGED <<cpu, io, ioprio, ctx, obj, mapVars, asked, left>>

(* blk_mq_get_tag() has slept. *)
GetTag(t) ==
  /\ At(t, "tag")
  /\ \E nq \in IF setup.opt = 0 THEN Nqs ELSE {AfterSleep(t)} :
       IF nq = None THEN Oops(t) /\ UNCHANGED <<loc, sent>>
                    ELSE Get(t, IF setup.opt = 0 THEN "mapped" ELSE "slept", nq)
  /\ UNCHANGED <<cpu, io, ioprio, ctx, obj, mapVars, asked, cached, left>>

(* The plug ends, or the task sleeps: cached requests are freed. *)
Unplug(t) ==
  /\ pc[t] \in Sleeps \cup {"idle"} /\ At(t, pc[t]) /\ cached[t] # None
  /\ cached' = [cached EXCEPT ![t] = None]
  /\ UNCHANGED <<cpu, io, ioprio, ctx, obj, mapVars, pc, loc, asked, sent, left>>

(* exit_io_context(): the last task frees the io_context, then its entries *)
(* are iterated, if the memory still holds them.                           *)
Exit(t) ==
  /\ At(t, "idle") /\ cached[t] = None
  /\ io' = [io EXCEPT ![t] = None]
  /\ LET x    == io[t]
         last == \A u \in Tasks \ {t} : io[u] # x
     IN \/ /\ ~HasContext(x) \/ (last /\ setup.reuse)
           /\ Goto(t, "dead") /\ UNCHANGED loc
        \/ /\ HasContext(x)
           /\ Call(t, "clear", obj[ctx[x]].last, obj[ctx[x]].hctx, "free",
                   [NoLoc EXCEPT !.ctx = ctx[x]])
  /\ UNCHANGED <<cpu, ioprio, ctx, obj, mapVars, asked, sent, cached, left>>

FreeTaskIoc(t) ==
  /\ At(t, "free")
  /\ obj' = [obj EXCEPT ![loc[t].ctx].live = FALSE]
  /\ loc' = [loc EXCEPT ![t] = NoLoc]
  /\ Goto(t, "dead")
  /\ UNCHANGED <<cpu, io, ioprio, ctx, mapVars, asked, sent, cached, left>>

-----------------------------------------------------------------------------
Maps(t) == SetClaim(t) \/ SetLoad(t) \/ SetStore(t) \/ ClearLoad(t) \/ ClearStore(t)

Profile(t) ==
  \/ Lookup(t) \/ InitTaskIoc(t) \/ InitEnd(t) \/ InsertTaskIoc(t)
  \/ UpdateStats(t) \/ ClearOldCpu(t) \/ SetNewCpu(t) \/ MoveEnd(t)
  \/ TakeNotice(t) \/ Reschedule(t) \/ Recommend(t) \/ GetCpu(t) \/ ClearOldNq(t)
  \/ PutCpu(t) \/ Assign(t) \/ Outlier(t)

Send(t) == NoRequest(t) \/ TakeCached(t) \/ Route(t) \/ GetTag(t) \/ Unplug(t)

Set(s) ==
  \/ \E t \in Tasks, class \in setup.classes : SetIoprio(s, t, class) \/ SetIoprioNew(s, t, class)
  \/ Notify(s)

Next ==
  \/ \E t \in Tasks :
       \/ \E c \in Cpus : Migrate(t, c)
       \/ \E bio \in setup.bios : SubmitBio(t, bio)
       \/ Profile(t) \/ Maps(t) \/ Send(t) \/ Exit(t) \/ FreeTaskIoc(t)
  \/ \E c \in Contexts : IoAlloc(c)
  \/ \E s \in Setters : Set(s)

Spec == Init /\ [][Next /\ UNCHANGED setup]_vars

-----------------------------------------------------------------------------
(* Properties. *)

(* Every variable has the values the C types and the bounds allow. *)
TypeOK ==
  /\ cpu \in [Tasks -> Cpus] /\ io \in [Tasks -> Tasks \cup {None}]
  /\ ioprio \in [Tasks -> {"rt", "be"}] /\ asked \in [Tasks -> {"rt", "be"}]
  /\ ctx \in [Tasks -> Tasks \cup {None}]
  /\ obj \in [Tasks -> [live : BOOLEAN, prio : {TPrio, LPrio, OutlierPrio},
                        hctx : Nqs \cup {None}, outlier : Nqs \cup {None}, last : Cpus,
                        need : BOOLEAN, sync : 0 .. Magnitude, async : 0 .. Magnitude]]
  /\ nsqMap \in [Cpus -> [Nqs -> Nat]] /\ inUse \in [Cpus -> Int]
  /\ claimed \in [Nqs -> SUBSET Cpus]
  /\ DOMAIN pc = Contexts /\ DOMAIN loc = Contexts
  /\ \A t \in Tasks : sent[t] # None => sent[t].nq \in Nqs
  /\ cached \in [Tasks -> Nqs \cup {None}]

(* No task that may run on the CPU is on its way through the block layer. *)
SettledOn(c) == \A t \in Tasks : c \in setup.home[t] => AtRest(t)

Published(t) == obj[t].live /\ \E x \in Tasks : ctx[x] = t
Using(c, n) == {t \in Tasks : Published(t) /\ obj[t].last = c /\ obj[t].hctx = n}

Alone == \A t, u \in setup.tasks : t # u /\ setup.io[t] # None => setup.io[t] # setup.io[u]
MapsExact == setup.opt = 2 /\ Alone /\ left.fail = setup.fails

(* A CPU's NSQ map counts the tasks that last ran there and use the NSQ,   *)
(* across starts, migrations, priority changes and exits.                  *)
NsqMapCounts == MapsExact =>
  \A c \in Cpus : SettledOn(c) => \A n \in Nqs : nsqMap[c][n] = Cardinality(Using(c, n))

(* nr_in_use and the claimed-core masks, from which NQ scheduling takes    *)
(* the contention for an NSQ, agree with the maps.                         *)
ClaimsFollowMaps == MapsExact =>
  \A c \in Cpus : SettledOn(c) =>
    /\ inUse[c] = Cardinality({n \in Nqs : nsqMap[c][n] > 0})
    /\ \A n \in Nqs : c \in claimed[n] <=> nsqMap[c][n] > 0

(* A task that exits and shares its io_context with nobody leaves no       *)
(* context behind.                                                         *)
ExitFreesContext == Alone /\ ~setup.reuse =>
  \A t \in Tasks : pc[t] = "dead" => ~obj[t].live

(* At opt level 2, unless an allocation failed or tasks share an           *)
(* io_context, tasks, their contexts, the NSQ maps and the contention that *)
(* NQ scheduling reads agree (blk-blex.c:379).                             *)
MapsCountTasks == TypeOK /\ ExitFreesContext /\ NsqMapCounts /\ ClaimsFollowMaps

(* No NSQ looks less used than it is. *)
NotTooFew ==
  \A c \in Cpus : SettledOn(c) => \A n \in Nqs : nsqMap[c][n] >= Cardinality(Using(c, n))

(* Whatever allocation or insertion fails, and whenever the io_context is  *)
(* freed, at opt level 2 and unless tasks share an io_context, no NSQ      *)
(* looks less used than it is: the error paths of                          *)
(* blk_blex_tenant_ioc_profile() and exit may leave counts behind, never   *)
(* take one too many (blk-blex.c:189).                                     *)
NeverUndercounted == setup.opt = 2 /\ Alone => NotTooFew

(* With no ioprio_set() on the task under way or newly begun, unless tasks *)
(* share an io_context: a newly allocated request that need not wait for a *)
(* tag gets an NQ of the group of the priority last set, except that an    *)
(* urgent request of a T-task may leave it; and a cached request,          *)
(* allocated under whatever priority, gives no L NQ to plain requests of   *)
(* best effort and no T NQ to urgent ones of real time.                    *)
PriorityRespected == ~setup.early /\ Alone =>
  \A t \in Tasks : sent[t] # None /\ sent[t].steady =>
    LET r    == sent[t]
        high == r.nq \in GroupNqs(LPrio)
    IN /\ r.how = "new" /\ (r.promoted => r.class = "rt") => (high <=> r.class = "rt")
       /\ r.how = "cached" /\ r.class = "be" /\ ~r.urgent => ~high
       /\ r.how = "cached" /\ r.class = "rt" /\ r.urgent => high

(* An outlier, a T-task of mostly synchronous I/O, always has an NQ        *)
(* scheduled for it: the one its urgent requests would be sent to.         *)
OutlierHasNq ==
  \A t \in Tasks : obj[t].prio = OutlierPrio => obj[t].outlier # None

-----------------------------------------------------------------------------
(* What comments of the source promise and the code does not keep.  The    *)
(* README tells in which instances each of these fails.                    *)

(* A task's update never schedules for a priority that has no NQ group. *)
GroupIndexValid ==
  \A t \in Tasks : pc[t] = "resched" => MapIoprio(loc[t].ctx, ioprio[io[t]]) \in Prios

(* A request promoted out of its T-task's default NQ is served by the      *)
(* group of latency-critical tasks.                                        *)
PromotedServedByL ==
  \A t \in Tasks : sent[t] # None /\ sent[t].promoted => sent[t].nq \in GroupNqs(LPrio)

(* Urgent requests of an outlier go to the NQ scheduled for outliers. *)
OutlierNqUsed ==
  \A t \in Tasks :
    sent[t] # None /\ sent[t].outlier # None /\ (sent[t].urgent \/ sent[t].class = "rt")
      => sent[t].nq = sent[t].outlier

(* The context a task works on has not been freed by another task that     *)
(* shares the io_context.                                                  *)
ContextAlive ==
  \A t \in Tasks : loc[t].ctx # None => obj[loc[t].ctx].live
=============================================================================
