# Daredevil (blk-blex) in TLA+

This project models the Daredevil I/O stack: the changes it makes to Linux
6.1 blk-mq and to the NVMe PCI driver so that every CPU may submit to every NVMe
queue, and a per-device *NQ regulator* decides which queue a task uses. Paths
below are relative to `src/daredevil/` unless they start with `src/`.

## 1. The system

### Terms

An *NQ* is an NVMe I/O queue with an ID from 1 to `max_nqid`. Every NQ has a
submission queue (NSQ). Only `nr_cqs` of them also have a completion queue (NCQ);
the other NSQs are *attached* to one of those. An *hctx* is blk-mq's side of an NQ:
hctx `i` stands for NQ `i + 1`. Within an hctx each CPU has a *virtual NQ* (vNQ),
a list of staged requests. NQs are divided into two *groups*, one for
throughput-oriented tasks (T) and one for latency-critical ones (L).

### Components

| component | state | operations | interacts with |
|---|---|---|---|
| NQ layout arithmetic (`include/linux/blk-blex.h`) | none | conversions between NQ IDs, NCQ IDs, NCQ indices, hctx and tag-set indices | everyone |
| NQ regulator bring-up (`block/blk-blex.c`, `blk_blex_map_swqueue()` in `block/blk-mq.c`) | eNQs, groups, heaps, per-CPU maps, tag-set and default-hctx mappings | allocate, initialise, unwind, free, map | tag sets, PCI driver |
| NQ scheduling (`block/blk-blex.c`) | a priority array per group and per multi-NSQ NCQ: heap, lock, published top, `mru`, merits | recommend, charge, rotate, refill | tenants ask for an NSQ; completions change the statistics |
| tenant I/O contexts (`block/blk-blex.c`, `block/blk-ioc.c`) | per task and device: priority, hctx, outlier hctx, counters, `need_update`; per-CPU NSQ maps | profile, update, ioprio change, exit | NQ scheduling, request allocation |
| hctx dispatch and plugs (`block/blk-mq.c`, `block/blk-mq-sched.c`, `block/blk-blex.h`) | vNQ lists, `run_cpumask`, `hctx->dispatch`, restart flag, run work, quiesce depth, plug lists | stage, run, collect, issue, put back, restart, quiesce, unquiesce, flush a plug | driver's `queue_rq()`, `queue_rqs()`, `commit_rqs()`, completions |
| requests and tags (`block/blk-mq.c`, `block/blk-mq-tag.c`) | tag bitmaps shared by the hctxs of an NCQ, requests, references, waiters, `q_usage_counter`, freeze depth | allocate, wait, free, iterate, time out, cancel, freeze, requeue, drain an offline hctx | NQ scheduling, dispatch, driver's `timeout()` |
| flush (`block/blk-flush.c`) | a flush queue per vNQ with a double-buffered pending list, a flush request with a borrowed tag | insert, kick, complete, put | dispatch, walks over tags |
| tag sets and queue construction (`block/blk-mq.c`, `block/blk-mq-tag.c`, `block/blk-mq-sched.c`) | tag maps, hctx tables, CPU maps, sharing of a set by queues, elevators | allocate, map, share, update the number of queues, release | regulator, driver |
| NVMe queues (`drivers/nvme/host/pci.c`) | SQ tail, last doorbell, shadow doorbells, CQ head and phase | submit, commit, batch, poll, interrupt, time out, abort | dispatch, tags, the controller |
| NVMe data mapping (`drivers/nvme/host/pci.c`) | `nvme_iod`, PRP lists, SGLs | map, unmap | submission, completion |
| NVMe controller life (`drivers/nvme/host/pci.c`) | controller state, queues online, `max_nqid`/`nr_cqs`, vectors, host memory buffer | probe, reset, disable, suspend, resume, error recovery, remove | tag sets, freezing, timeouts |

`src/eval/` holds measurement scripts and another project's kernel files that
Daredevil is compared with; it is not part of the system.

### What is hard here

* NQ scheduling has no lock around its counter or its published top: several CPUs
  charge, fail a trylock, rotate and refill in any order.
* `run_cpumask` is a hint kept next to the vNQ lists, and running the queue is
  decided from it.
* Requests survive a driver without resources only because a flag, a
  list and a work item are changed in the right order; a doorbell promised by
  "more follows" must be rung by somebody.
* Quiescing relies on a grace period; nested and concurrent quiesces are legal.
* A tag is freed, reused, walked over, expired and cancelled at the same time; only
  references and the order of a few stores keep its uses apart.
* Tags belong to completion queues but are used by several submission queues.
* A flush request borrows a tag, and is shared by lists that swap roles.
* Bring-up, growth and reset have many steps, each of which may fail in the middle.
* Reset, timeout handler and power management disable the device from different
  threads, each expecting the other to have frozen, or to unfreeze, the queues.

`PROJECT.json` lists these hazards with the lines where they bite and the
properties that cover them.

### What makes each component correct

* *Layout*: NCQs partition the NSQs, each shares its tag set with exactly its NSQs,
  groups partition the NCQs, round-robin reaches a whole group and stays in it.
* *Bring-up*: all or nothing, whatever fails; a release leaves nothing; maps, tables and
  CPU maps agree after every update; nothing freed is used.
* *NQ scheduling*: no NQ is ever lost from a heap; what is recommended without
  the lock is the heap's top; a spent counter is always refilled.
* *Dispatch*: a request is issued at most once and not lost; a waiting request is
  always on somebody's way; it completes; nothing is dispatched while quiesced.
* *Tenants*: the NSQ maps count the tasks that use an NSQ; a changed priority
  reaches the task's next request.
* *Requests*: references balance; a tag keeps its request while anybody holds it; no
  waiter is forgotten; a drained queue is empty.
* *Flush*: a request's steps come in order, and what ended well is on the medium.
* *NVMe queues*: every command goes out and comes back once; no doorbell and no
  completion is lost for good.
* *NVMe controller*: the block layer, the driver and the controller agree on the queues; every
  freeze is undone; no request is stranded; memory lent to the controller stays allocated.

## 2. Modules

| module | models |
|---|---|
| `BlexQueueMap` | the layout arithmetic, as operators that keep the C functions' parameters |
| `BlexRegulator` | bring-up, unwinding and release of a regulator, on the operators of `BlexQueueMap` |
| `BlkTagSet`, `MCBlkTagSet`, `BlkTagSet_proofs` | tag sets and the queues on them; extends `BlexRegulator`, whose bring-up is the first stage of an allocation |
| `BlexMru` | what the `mru` counter of a priority array promises, without heap and lock |
| `BlexNqSched`, `MCBlexNqSched`, `BlexNqSched_proofs` | NQ scheduling by concurrent CPUs; `ImplementsMru` is the refinement of `BlexMru` |
| `BlexDispatch`, `MCBlexDispatch` | one hctx: staging, direct issue, dispatch, restart, quiesce |
| `BlexPlug`, `MCBlexPlug`, `BlexPlug_proofs` | flushes of plugs into the hctx of `BlexDispatch`, which it extends |
| `BlexTenant`, `MCBlexTenant`, `BlexTenant_proofs` | tasks' I/O contexts on one device, on the groups of `BlexQueueMap` |
| `BlkRequest`, `MCBlkRequest`, `BlkRequest_proofs` | requests, tags, timeouts, freezes, hotplug on one queue |
| `BlkFlush`, `MCBlkFlush`, `BlkFlush_proofs` | sequences of flushes and writes |
| `NvmeCommand` | what a queue pair promises: commands go to the device and come back |
| `NvmeQueue`, `MCNvmeQueue`, `NvmeQueue_proofs` | rings, doorbells, phases, interrupts; `ImplementsCommands` is the refinement of `NvmeCommand` under the map `Where` |
| `NvmeData`, `MCNvmeData`, `NvmeData_proofs` | the data pointer of a command and what is acquired for it |
| `NvmeCtrl`, `MCNvmeCtrl` | probe, reset, power management, recovery and removal, on the layouts of `BlexQueueMap` |

`MCBlexNqSched` builds its arrays with the operators of `BlexQueueMap`, so the
scheduler is checked on the groups and NCQs that bring-up would make. Where a module
needs another part only as an environment it says so at its head: `BlkRequest` takes
any hctx for a bio (whatever `BlexNqSched` recommends), `BlkFlush` issues inserted
requests in any order (whatever `BlexDispatch` does).

### Correspondence

*BlexRegulator.* `pc` is the stage of
`blk_blex_nq_regulator_alloc_and_init()`, `next` its loop variable. `live` is the set of
allocations that exist; a failing stage removes what its `goto` label frees.
`InitGroup` is one turn of the loop over priorities, `InitEnqOk`/`InitEnqFail` one turn
of the loop over NQs, with a failure possible at each allocation of
`blk_blex_enq_init()`.

*BlkTagSet.* `set`, `maps`, `qs`, `hctx` are the tag set, its maps, the request queues and
their hctxs. Functions of the code that only other functions call are operators on a record
of these (`AllocMap`, `ReallocHwCtxs`, `MapSwqueue`, ...) and a failure is their parameter;
the actions are what a driver calls: `AllocInfo`/`AllocTags`/`AllocMaps`, `CreateQueue`,
`AddQueue`, `MapQueue`, `InsertHost` (the insertion into the regulator's online hosts), elevator switches, `Destroy`/`DelQueue`/`Release`, `FreeTagSet`, and
`blk_mq_update_nr_hw_queues()` as one action per queue it visits (`UpdFreeze`,
`UpdNone`, `UpdTags`, `UpdQueue`, `UpdBack`). `TagBusy`/`BusyCount` and
`TagIdles`/`IdleCount` are the two steps each of `__blk_mq_tag_busy()` and `__blk_mq_tag_idle()`.
The layout `plain` is a device without regulator.

*BlexNqSched.* Variables are the fields of `struct blex_priority_array` per array and the
locals of `blk_blex_update_priority_array()` per caller. `PeekNcq`/`PeekNsq` are the two
peeks of `blk_blex_recommend_nsq()`; `Charge` the `atomic_sub_return()`; `TryLock`,
`Sift`, `Swap`, `Publish`, `Unlock`, `Refill`, `Clear` the update in program order.
`Complete` is what completions and interrupts do to an NCQ's statistics.
The heap's swap is two actions although it runs under the lock: were the lock not
exclusive, the model would show it.

*BlexDispatch and BlexPlug.* `staged[cpu]` is `vnqs[cpu].dispatch_list`, `mask` is `run_cpumask`,
`dispatch`, `restart`, `work`, `depth` are `hctx->dispatch`, the restart flag,
`run_work` and `quiesce_depth`; `driver` the requests the driver accepted and `posted` those
no doorbell was rung for. `pc` and `loc` are the program points and locals of
the contexts: submitting threads, the work item, the completion interrupt and
quiescers. `loc[c].rcu` says that a context is in an RCU reader section; a
quiescer's `waits` are the readers its grace period waits for. One critical
section of a spinlock is one action. `plug[t]` is the flush a thread is in: the plug's list,
the group of one CPU, the request in hand and the phase (`rqs` for `queue_rqs()`, `each` for
`blk_mq_plug_issue_direct()`, `groups`/`list`/`insert` for `blk_mq_dispatch_plug_list()`).
While a thread is in `BlexDispatch`'s code for its flush, `pc` says where. The RCU section is
reopened for each request, which can only shorten the grace period. A request
that fails counts as accepted without a doorbell and completes at any time.

*BlexTenant.* `cpu` is where each task runs, `io` its `io_context`, `ctx` the device's entry
in `blk_blex_iocs`, `obj` the `struct blk_blex_task_ioc`; `nsqMap`, `inUse` and `claimed` are the
per-CPU maps and masks. `pc` and `loc` are a context's program point and locals.
`blk_blex_set_maps()` and `blk_blex_clear_maps()` are entered with `Call`, which remembers the
step to go on with, and take one step per access to the maps. A task whose section the
kernel does not preempt keeps other tasks off its CPU (`At`) until it sleeps (`Sleeps`): where it allocates, where
it waits for a tag, and in the `synchronize_rcu()` of `blk_blex_recommend_nsq()`. So `blk_blex_sched_task_update()` is
`SchedUpdate`, which reads the default NQ (`block/blk-blex.c:510`), and `Recommend`, after the sleep
at `block/blk-blex.c:523`, which changes the maps; other tasks run in between. NQ IDs stand for hctxs.
Which NQ of a group is recommended is left open, so whatever `BlexNqSched` does is covered.
A bio's request comes from one of three places: the plug (`TakeCached`), a fresh allocation (`Route`), whose batch leaves one
in the plug (`cached`), or, after a sleep for a tag, the CPU's default hctx of the task's priority (`GetTag`, `AfterSleep`).
`asked` and `sent` are history variables: the priority last set and how each task's last
request got its NQ. After `Oops` (a NULL or wild pointer) a context stops.

*BlkRequest.* A request goes by its tag. `bits` are the sbitmaps, `listed` is `tags->rqs`, `rq` the
request's state, references, hctx and deadline; `waits` and `wakes` are the wait queues and the
contexts between clearing a tag and waking somebody. `Enter` to `CtxInitOne` are
`blk_mq_submit_bio()` and `blk_mq_get_tag()`, with `PrepareToWait`, `Sleep`, `Woken` and `FakeWake` the
loop that sleeps and turns to another hctx; `StartRequest` and `Submit` are `blk_mq_start_request()` and
the driver's submission; `Complete`, `EndRequests`, `Requeue`, `PutRefs` the ends. `timer` and
`walk` are `blk_mq_timeout_work()` and its walks, one visit a step; `Handler`, `Drain`, `Cancel` the
driver's handler that cancels everything. `FreezeStart`, `FreezeWait`, `Unfreeze` and
`NotifyOffline`, `HasRequests` are freezing and the hotplug callback. `blk_queue_enter()`,
plugs, sbitmap and `blk_add_timer()` are external.

*BlkFlush.* `fq` are the `struct blk_flush_queue`s with their two lists, indices and flush request;
`seq` is `rq->flush.seq`. `CompleteSeq` and `Kick` are `blk_flush_complete_seq()` and
`blk_kick_flush()`; `FlushEndIo` is entered by the completion and by walks that put a
reference. `durable`, `cached` and `snap` are an abstract device: what a flush covers is fixed when
the device starts it. `before` is a history variable: what had ended when a request was submitted.

*NvmeQueue.* `tail`, `last`, `mem`, `head`, `cqe` are the driver's ring indices and rings, `fetch`, `inside`,
`post`, `seen` the controller's; `shadow`, `ei` the doorbell buffer. `nvme_dbbuf_update_and_check_event()`
is two actions (`WriteBell`, then `CheckEvent`), as is the controller's counterpart (`ArmEvent`,
`LookAgain`). A consumer of the CQ (interrupt, poller, timeout) goes through `CqePending`, `HandleCqe`,
`RingCqDb`, `Leave`. The controller is external. `Where` maps each tag to where its command is.

*NvmeData.* `iod` is `struct nvme_iod`, which keeps its contents from one request to the
next; `held` and `live` are what is acquired and which lists are allocated; `FillPrps` is one turn
of the loop of `nvme_pci_setup_prps()`. `wrong` is a history variable that a release sets when it is not
entitled to it.

*NvmeCtrl.* Three threads: `nvme_reset_work()`, `nvme_timeout()`, and whoever holds the device
lock (the manager). Each has its own `nvme_dev_disable()` (`dis`), serialised by `shutdown_lock`. `queues`
is the driver's view of the queues, `csq` and `ccq` the controller's, `tags` the block layer's;
`ns` the freeze depth and flags of the namespaces. The actions of the reset are named for the
stretch of `nvme_reset_work()` they are: `ResetSync`, `EnableWorks`, `ResetPrepare`, `ResetIrqs`,
`CreateCq`, `CreateSq`, `ResetThaw`, ... A step named in `setup.fail` may fail. The NVMe core's state
machine, PCI and the controller are external, modelled after the use `pci.c` makes of them.

## 3. Runs

A run takes its workloads from a set `Setups`: each initial state picks one, so that one
exhaustive run covers several small instances, each with one or two difficulties. The passing runs
are exhaustive. Type invariants are conjuncts of a safety invariant of each module. The mutants that
`PROJECT.json` lists for each property stand in the modules beside the definitions they change.

| run | instance | shows |
|---|---|---|
| `nqsched` | a device of 5 NQs and 2 NCQs, of which the one looked at serves several NSQs; two CPUs, both kinds of call, changing statistics | heap intact, the inductive invariant, `BlexMru` implemented, spent counters refilled |
| `dispatch` | six workloads: plugs flushed by their thread, from `schedule()`, both at once; a busy or failing driver; one or two quiescers against plugs and a direct submitter | a request in one place at a time; nothing stalls or waits for a doorbell nobody owes; quiesced means no dispatch; every flushed plug completes |
| `dispatch_staging` | two direct submitters on one vNQ | **violated**: a request is left on an unmarked vNQ |
| `tenant` | a task that migrates within its own CPUs beside one on another CPU; two tasks on one CPU with failing allocations and reused memory, or with a shared `io_context`; a task that plugs, runs out of tags and migrates; a profiled task whose priority two processes set | NSQ maps count tasks; uses are not undercounted, whatever fails; new and cached requests respect the priority; an outlier has its NQ |
| `tag_set` | regulator bring-up on every device of 2 to 9 NQs with at least 2 NCQs, any allocation failing; nine workloads of one or two queues: allocation with retries, an insertion that fails, sharing, elevators, growing, shrinking, memory short for good | the layout covers every NQ once; tables and maps lead every CPU to an hctx with tags; nothing freed is used; users of a shared set are counted; nothing is left but what section 3 names |
| `nvme_queue` | depth 3; an NCQ's own SQ and an attached one; shadow doorbells of SQ or CQ; batches; a lost interrupt; polled queues with an abort | the phase tells new entries; no doorbell is lost; a missed interrupt is found and not aborted; `NvmeCommand` implemented; every command completes |
| `nvme_data` | pages of 4 bytes, lists of 3 entries, requests of up to 8 pages in every cut, two failing steps, one request after another | the command describes exactly the data; everything is released once and as it was acquired |
| `nvme_ctrl` | up to 3 queues granted, eight workloads of failing steps, faults of the controller and manager operations, one request | nothing breaks; block layer, driver and controller agree on the queues; freezes balance; host memory is not used after release; resets and requests end |
| `blk_request` | three hctxs, two of them on one tag map, maps of one or two tags; eight workloads | references balance; a held tag is not reused; a drained queue is empty; a timed-out request was submitted; tasks proceed; freezes and unplugs end |
| `blk_request_nsq` | one request in an NSQ without NCQ | **violated**: the timeout walk does not meet it |
| `blk_flush` | three requests in two flush queues, eight combinations of PREFLUSH, FUA and plain writes, with a cache or without, FUA in the device or not, a failure, a retry, a walk | lists keep apart; a walked flush stays; what ended well is durable; every flush ends |
| `blk_flush_error` | a flush fails while two walks hold it | **violated**: its requests end well |

The violations are disagreements between the code and what its comments say;
`PROJECT.json` quotes the comments (`findings`).

### Properties the code does not have

These were met while modelling. Where a name is given, the property is stated in the module and kept out of the
runs; each is violated by the model in the instance named.

| property | instance | what happens |
|---|---|---|
| `TopNqExists` (`BlexRegulator`) | a device with one CQ | the T group has no NCQ, its top NQ is read from index -1 (`block/blk-blex.c:739`) |
| `DefaultHctxServesPrio` (`BlkTagSet`) | any | an NQ ID is used as an hctx index (`block/blk-mq.c:4242`): a CPU's default hctx may be of the other group, or NULL |
| `NothingLeft` without its exception | a queue in the blex layout, one failing allocation | when `xa_insert()` fails (`block/blk-mq.c:4525`), the queue is put without an exit: its hctxs stay behind, of which `block/blk-mq.c:4487` warns, and it stays on `tag_list`, where the next queue that joins or leaves writes to freed memory (`StrayQueue`) |
| `EveryNsqRecommended` (`BlexNqSched`) | `BusySpec`, an NCQ with three NSQs | ties are broken so that the third is never recommended |
| `EveryRequestCompletes` (`BlexDispatch`) | one direct submitter, one quiescer | a submitter that saw the queue quiesced stages its request after the unquiesce has run the queue (`block/blk-mq.c:2807`) |
| `DoorbellOwed` without its premise `Plugged` | a flush with a quiescer | request A was accepted with "more follows", then the queue is quiesced and B is staged, which counts as success: nobody rings for A (`block/blk-mq.c:3068`) |
| `MapsCountTasks` (`BlexTenant`) | two tasks that share a CPU one of them leaves | a migrated task clears its old CPU's map while a task there sets it; an update is lost (`block/blk-blex.c:207`) |
| `MapsCountTasks` (`BlexTenant`) | `profile` at opt level 2 | an outlier's new NQ is counted on its CPU in place of its default NQ, which it keeps (`block/blk-blex.c:246`) |
| `MapsCountTasks` (`BlexTenant`) | `preempt` | a task migrates between the test of its last CPU and `get_cpu()`: the old CPU keeps a count of it (`block/blk-blex.c:536`) |
| `NotTooFew` (`BlexTenant`) | a shared `io_context`, three priority changes | both tasks sleep in `synchronize_rcu()` with the same old NQ in hand, then both take a count off it, one of them another task's (`block/blk-blex.c:523`) |
| `NotTooFew` | a shared `io_context`, exits | each task that exits takes the count of the shared context off once more (`block/blk-ioc.c:242`) |
| `PriorityRespected` for requests that slept | `waits` | after a sleep for a tag the request goes to the CPU's default hctx (`block/blk-mq-tag.c:214`), which need not be of the group (`DefaultHctxServesPrio`) |
| `PriorityRespected` for all cached requests | `batch` | a plain request of real time takes a cached T request, an urgent one of best effort a cached L request: only the opposite cases are refused (`block/blk-mq.c:3152`) |
| `PriorityRespected` | `early` | a priority set while the context is made reaches neither it nor its flag (`block/blk-blex.c:182`) |
| `PriorityRespected` | a shared `io_context` | the task that clears the flag sleeps before it updates the NQ, or is preempted; another finds no flag and uses the old NQ (`block/blk-blex.c:222`) |
| `GroupIndexValid` | a priority lowered without profile | a task without statistics counts as an outlier, and the outlier priority is used as the index of a group (`block/blk-blex.c:224`) |
| `OutlierNqUsed` | profiling | the outlier priority has the L bit, so an outlier's requests use its default NQ (`block/blk-blex.c:582`) |
| `PromotedServedByL` | urgent requests of a T-task | the CPU's NQ is counted from NQ 1, not from the L group's first (`block/blk-blex.c:555`) |
| `ContextAlive` | a shared `io_context` | a task that exits frees the contexts the other still uses (`block/blk-ioc.c:242`) |
| `ExitFreesContext` | `reuse` | the `io_context` may be reused before its contexts are iterated (`block/blk-ioc.c:242`) |
| `FreedOnce` (`NvmeCtrl`) | a reset that finds no I/O queue, then removal | `blex_info` is freed with the tag set and again by the removal (`drivers/nvme/host/pci.c:3353`) |
| `NeverOverthawed` (`NvmeCtrl`) | a controller that stops answering once, and error recovery | the recovery disables the device while a reset connects it, without a freeze; the reset after the recovery unfreezes, and the depth is -1, of which `block/blk-mq.c:244` warns (`drivers/nvme/host/pci.c:3278`) |
| `InfoCurrent` | a reset that gets fewer queues | `blex_info` keeps the old layout (`drivers/nvme/host/pci.c:3149`) |
| `NothingFreedIsUsed` (`BlkTagSet`) | `overlap`: scans of tags or elevator switches during an update | stale entries are found |

Other behaviour of the code that the models contain, and that the properties' premises name:

* A walk over the tags between `blk_add_timer()` and the store of the state counts a request for nothing and
  may leave the timer unset (`block/blk-mq.c:1319`); such a request is in `slipped`, the exception of
  `EveryTaskProceeds` and `EveryFreezeEnds`.
* A request whose allocation has its tag and no hctx yet is overlooked by the hotplug wait (`cpuhp.missed`, the exception of
  `InactiveDrained`). Batch allocation does not test for inactive hctxs at all, so the hotplug
  workloads allocate one request at a time. Under blex an hctx has all CPUs and never becomes inactive.
* A reset waits in the freeze for a request of an NSQ that no walk times out (`drivers/nvme/host/pci.c:3392`; `Forgotten`);
  and `nvme_setup_io_queues()` may return with `shutdown_lock` held (`drivers/nvme/host/pci.c:2838`; `LockedOut`).
* A timeout handler that disables the device during its removal leaves the queues stopped: `EveryRequestEnds` excepts removal.
* A failed creation with extra queues, followed by another layout, clears CQ entries that were never
  allocated; `NothingBroken` holds where every queue of the second layout has its own CQ.
* Shrinking a tag set leaks the maps beyond the new number (`NothingLeft` excepts it), and hctxs added by
  an update do not learn that the set is shared (`SharedAgrees` excepts them).
* A regulator whose initialisation fails leaks its name (`drivers/nvme/host/pci.c:3106`), which is not among the allocations of `live`.
* Freeing a tag set reads `set->tags[]` beyond its entries, and leaving an hctx clears the wrong
  map's flush requests in the blex layout (`StrayTags`, `ClearFlushRq`).

### Bounds

* Devices: all remainders and both parities of the group split occur
  with up to nine NQs; the arithmetic depends on quotient and remainder only.
* `MruFloor`: only the sign of `mru` is used and a refill sets it to a constant, so
  the values below the floor are not told apart.
* `Stats`: an NCQ's statistics (unsigned counters that wrap) are any value of a
  small set; only the order of merits matters to the heap.
* `busy`, `rounds`: how often the driver refuses or fails a request and how often the queue is
  quiesced. Each of the races needs one or two. One disjunct of `LookAgain` (a look at the queue repeated with
  requests put back in between) needs more refusals than the runs have and fires in none.
* Lists are sets in `BlexDispatch`: no property depends on their order.
* `Magnitude` is 10 in the code; counters are only compared with it and 0, so 2 has
  all cases, and counters stop there.
* `home`, `preempt`, `early`, `reuse` say which tasks may migrate where, whether kernel code
  is preempted, whether a priority may be set before the context exists, and whether freed
  memory is reused. `moves`, `sets`, `submits`, `fails` allow a use, a change and a further use of a context.
  `batch` and `waits` say whether plugs get requests in advance and whether tags run out. A batch is of two requests, so one is
  cached. An hctx that goes offline under a task that waits for a tag, which has it allocate anew, is left to `BlkRequest`.
  The maps' `xa_store()`s find the node they need without sleeping.
  Tasks on one CPU are interchangeable (SYMMETRY), and no liveness is checked in that run.
* `BlkTagSet`: at most one failure per update and index, and the second attempt with the old hctx
  succeeds, as the code expects; scans and elevator switches do not overlap updates.
* `BlkRequest`: one or two tags per map and three hctxs suffice for tasks that sleep on the one map and turn to
  the other; `mutes`, `retries`, `resets`, `unplugs` bound unanswered commands, retries, extensions by the handler
  and unplugs. One CPU is unplugged at a time.
* `BlkFlush`: three requests fill both lists and leave a plain write; one failure, one retry and one walk hit each step.
* `NvmeQueue`: depth 3 makes the rings wrap with two tags in use; indices are 16 bits wide (`Width`) as far as the event
  comparison is concerned, which the assumption `Depth < Width` keeps meaningful.
* `NvmeData`: `Page` 4 and `ListPrps` 3 make chains of three lists; the code's numbers are 4096 and 512.
* `NvmeCtrl`: `MaxQueues` 4; one fault and one or two operations at a time. Error recovery and `hmb_store()` begin on a
  live controller with no reset under way; a reset may start beside the recovery, not beside `hmb_store()`.
* Memory is sequentially consistent. Where the code pairs `smp_mb()`s this is what
  they establish; elsewhere it is an assumption.

### Fairness

* `BlexNqSched`: a CPU inside `blk_blex_recommend_nsq()` keeps running (`WF` on `Step(c)`): it
  takes no lock it waits for, and `synchronize_rcu()` waits for readers that do not block.
* `BlexDispatch`, `BlexPlug`: threads and the interrupt keep running, `kblockd` gets round to
  queued work, the device completes what it was told of, and a context that quiesced the
  queue unquiesces it. Submission is not fair. `PluggedComplete` and `NoStall` are about flushes from `schedule()`, and
  about flushes by the only thread of a queue nobody quiesces (`Plugged`); the table above says why.
* `BlkRequest`: running code goes on, a deadline passes, the timer fires, plugs end, freezes are undone, an answered request
  completes. Taking a pending request is strongly fair: the worker is one of several that a requeue disables for a while.
* `BlkFlush`: one weak fairness of the disjunction of work item, walks and device. Nothing in it repeats for
  ever, so none can starve the others. Time (`Age`) is not fair: `FLUSH_PENDING_TIMEOUT` has no timer of its own.
* `NvmeQueue`: consumers, controller and committing code are weakly fair; what waits for a lock that others take in turn, or for a slot
  of the CQ, is strongly fair; the timer of a request in flight keeps firing.
* `NvmeCtrl`: work queues and threads run, timeouts expire, a working controller answers, a dead one is removed. Nobody has to
  submit, to operate or to break anything.
* `BlkTagSet`, `BlexTenant`, `NvmeData`: safety only, no fairness.


## 4. Proofs

All theorems hold for every value of the constants that satisfies the named assumptions of the
modules (`TopologyAssumption`, `MruAssumption`, ..., `DispatchAssumption`, `PlugAssumption`,
`DataAssumption`, `QueueAssumption`, `RequestAssumption`, `GeometryAssumption`, `TagSetAssumption`,
`TenantAssumption`, `FlushAssumption`); nothing else is assumed. TLC evaluates the assumptions in every run.
A module `X_proofs` holds the proofs about module `X`: one lemma per action and
kind of fact, a lemma `InitHolds`, and one that combines the steps.

**`BlexNqSched_proofs`**: type correctness (`TypeCorrectness`), no NQ lost from a heap (`NoNqLost`), the published top is the
heap's top (`PeekSeesTop`), a spent counter has an updater (`TryLockIsEnough`), the whole inductive
invariant `IInv` (`Invariance`), and that the scheduler implements `BlexMru` (`Refinement`).
None of the first four is inductive alone. `HeapIntact` speaks of a free lock;
while it is held, what is true is that the heap *would* be complete once the holder
wrote the element in its hand (`HolderCompletes`), and this is only stable because
exactly the callers between trylock and unlock own the lock (`LockOwned`) and their
indices stay in the heap (`LocalsOK`). The refinement
maps each step to a step of `BlexMru` or a stutter, the failed trylock to a withdrawal,
which needs the lock's holder as the other responsible caller. What `BlexMru` promises, that each spent array has somebody
responsible, is proved of its specification (`AbstractPromise`) and so carries over to the scheduler (`MruPromise`).

**`BlexPlug_proofs`**: for any CPUs, threads, quiescers, requests and workloads, type correctness
(`PlugTypeCorrectness`) and `QuiescedNoDispatch` (`QuiesceIsRespected`). The invariant `IndInv` (`PlugInvariance`) is needed
because `QuiescedNoDispatch` says nothing of the time a quiescer still waits. It adds: the depth is the number of
quiescers between setting the flag and unquiescing (`Counted`), so that depth 0 means nobody quiesces; every context that has
found the queue not quiesced and is on its way to `queue_rq()` or `queue_rqs()` is in a reader section
(`DrivingReads`); and each quiescer that waits still waits for all such contexts (`DrivingAwaited`).
A context joins them only at depth 0, when there is no quiescer to miss it; `FlushShape` says that a flush has a
request in its hand only where its thread's reader section is the flush's own.
Two more invariants rest on it.
* `PlaceInv` gives `InOnePlace` (`IssuedOnce`, from `PlaceInvariance`): `InOnePlace` only says that the places are disjoint, `OneSpot` that a request is
  in at most one pair of a kind of place and its owner, two contexts or two plugs included. A step that moves requests must not find its target
  occupied by leftovers: `HandsEmpty` says where in its code a context keeps a single request or a batch, and
  `DirectHasNoPlug` that a thread that issues directly has no plug.
* `StallInv` gives `NoStall` (`NothingForgotten`). `NoStall` is about the end, when all hands are empty; what holds on the way is that staged
  requests are marked and somebody will visit their vNQ, a context on its way, the work, or the thread of an unquiesce
  (`StagedKnown`); that nobody unmarks a vNQ between the mark and the staging (`StageMarked`); that requests put back
  have a context that will look at them (`PutBackKnown`); and that whoever sent requests without
  ringing the doorbell still has the rest of a batch or a failure in hand, which make it ring (`PostedOwed`).
  `Shaped` says how a context comes to be where it is in the workloads that `NoStall` speaks of.

**`NvmeData_proofs`**: for any page size, sizes of lists and pools, and requests with any segments within the driver's boundary mask,
`AllReleased` (`EverythingReleased`). The invariant `DInv` (`DataInvariance`) tells for each place in the code what is held (`HeldAt`), and that
`nvme_iod` agrees: `dma_len` and `nr_allocations` say which of page, small list and chain
it is, and the lists are linked by their last entries (`LinkedLists`), which is what the release follows. That an
allocation in the middle of a list never takes the chain's error path with a
small list needs `Room`: the bytes that are left fit what is left of it. The assumption that a request's
length is a number (`BytesOf(r) \in Nat`) stands in for an induction over its segments.
`DescribesData` is not proved: it compares sums and concatenations over the segments.

**`NvmeQueue_proofs`**: for any submission queues that share a completion queue, any tags, depth and way of driving
them, `PhaseTellsNew` (`PhaseIsRight`), `NoLostBell` (`BellsAreHeard`), `MissedInterruptFound` (`MissedInterruptHarmless`) and
the refinement of `NvmeCommand` (`QueueRefinement`). The invariant `QInv` (`QueueInvariance`) says in parts what each of them relies on:
* `Alone`: one context at a time consumes the completion queue, so that head and phase belong together.
* `CqInv`: on the way round the ring the driver's head is behind the device's, and the phase changes exactly where the device's
  has wrapped and the driver's has not. That the device never overtakes the driver is not a guard of the model but a
  matter of counting (`Room`): the ring has a slot more than there are tags, and an entry not yet seen keeps its tag.
* `SqInv`: on each submission queue what the controller fetched, what it was told of, the shadow doorbell and the tail come in this order;
  with the event index this makes the 16-bit comparison of `nvme_dbbuf_need_event()` right (`EventPassed`).
* `TagInv`: each command in flight is in exactly one place (a submission queue, the controller, the completion queue, a list),
  where the tag's own record says it is. The refinement maps a tag to this place (`WhereIsPlace`), and each step moves the
  tags of one place to the next (`Moves`).

**`BlkRequest_proofs`**: for any finite sets of hctxs, tasks and freezers, any sharing of tag maps and any workload, `RefsBalance`
(`ReferencesBalance`), `HeldKeepsTag` (`TagsAreKept`), `TimedOutWasSubmitted` (`HandlerComesLater`) and `DrainsLeaveNone`
(`NothingIsLeft`). They rest on one invariant, `ReqInv` (`RequestInvariance`), whose parts need each other:
* `Refs` and `Users` are `RefsBalance` with the sums written out. They are not inductive alone: that a put frees a request exactly when
  nobody else has it takes `OneOwner` (a request is in one plug, on the requeue list, or in one task's hand, in a state that suits
  its owner) and `Hands` (where in its code a task has a request).
* `TagsKept`: a set bit belongs to a request with references or to the one task between taking the tag and initialising
  the request (`BitsHeld`, `NewTags`), and a free request has none of a former use's state (`FreeIsFree`).
* `WalksPlaced` and `NotDueYet`: whoever is submitting when the first walk ends is waited for, and whoever begins later
  has a deadline in the future; so the second walk meets no request whose submission is under way.
* `Cancelling`: the handler's walk still has before it whatever is in flight, because the queue is quiesced and
  no context is between the quiesced test and the submission.
* `Frozen` and `Offline`: the depth of freezes is a number of freezers, and a frozen queue has no users; the requests of an hctx that
  is offline are only those in `cpuhp.missed`. `blk_mq_get_tag()` tests `BLK_MQ_S_INACTIVE` (`block/blk-mq-tag.c:191`), the allocation of a
  batch (`block/blk-mq.c:437`) does not, so that a batch taken after the callback looked stays unnoticed.

**`BlkTagSet_proofs`**: for any numbers of NQs and NCQs with at most as many NCQs as NQs, `AllOrNothing` (`BringUpIsAllOrNothing`) and
`NcqsPartitionNqs` (`NcqsPartition`); with several NCQs, `LayoutCovers` (`LayoutServes`). With one NCQ the group of the T priority is empty and
`LayoutCovers` is false (see section 3). The proof has three layers.
* Arithmetic: `First(k)`, the ID after the first `k` NCQs and their NSQs, is what all conversions of `BlexQueueMap` have in common. It
  grows by `Width(k)`, so the blocks between its values are disjoint and cover `1 .. max_nqid` (`BlockOf`, `InBlock`,
  `Blocks`). `KthIsFirst` and `NcqFacts` state each conversion in these terms.
* Groups: `nr_attach_nsqs` is a sum over a group's NCQs. Induction over data is replaced by a least counterexample
  (`Least` on numbers, `Smallest` on finite sets), and the sum is shown to count the attached NQs, which is its recursive
  definition (`GroupFacts`); then round-robin is wrapping around an interval (`Wraps`, `RrNsq`, `RrNcq`).
* The regulator: `RegInv` says for each stage which groups and NQs are initialised, with which values (`RegBuilt`), and exactly
  which allocations are live (`RegLive`), which is why each `goto` label frees just what there is. `RegMoves` shows that no other
  action of `BlkTagSet` changes the regulator.

`RegInv` says nothing of tag maps, hctxs and queues: the rest of `NothingLeft`, and the other properties of `BlkTagSet`, are model-checked.

**`BlexTenant_proofs`**: for any devices with several NCQs and any tasks, setters, CPUs and modes, type correctness (`TypesHold`), `OutlierHasNq`
(`OutliersHaveNqs`) and, for tasks that do not share an `io_context`, `PriorityRespected` (`PrioritiesRespected`); under `Orderly`,
`MapsCountTasks` (`MapsAreExact`) and `NeverUndercounted` (`NeverTooFew`).
* `TInv` is inductive for types. It tells what a context may rely on at each place in the code (`Placed`; `Stage` looks through the two steps of
  an update of the maps), and that a published context has an NQ (`Made`), without which `hctx` would be read before it is set. That what is
  scheduled exists is arithmetic (`GroupBlock`): the groups are disjoint blocks of existing NQs, and the L group does not begin at NQ 1, so
  that the misplaced count for urgent requests (see section 3) still ends on the device.
* `OutlierHasNq` is inductive together with `TInv`, since the priority and the outlier NQ are written in the same places.
* `PInv` is what `PriorityRespected` needs of a new request: the default NQ is in the group of the class (`Follows`), or the task is about to assign one
  that is (`WillFollow`), unless a setter has yet to leave its notice (`Pending`) or the notice has not been taken (`need`). A submission that began after
  the last change meets neither. The premise `Own`, no shared `io_context` and no `early`,
  is needed: section 3 has a counterexample for each. For a cached request nothing is known of the past, only that it was
  compared with the bio; its two clauses rest on that comparison, and on the fact that the bio's class is the one last asked for (`OwnContext`).
* The maps are updated without a lock, and agree only where nobody comes between an update's load and its store. `Orderly` says where: opt level 2, no
  kernel preemption, no profiling, no shared `io_context`, and tasks that can meet on a CPU bound to it; a task with CPUs of its
  own may migrate. Section 3 has counterexamples with preemption, with profiling, with a shared CPU that a task leaves, and with a shared
  `io_context`, whose tasks meet in the sleep between reading the default NQ and changing the maps. With contexts of their own the sleep is
  harmless: others change other contexts, and what they change in the maps they change in whole updates.
  The setups of `tenant.cfg` that the two properties speak of are orderly.
  `MInv` is inductive there. `HInv`: one task at a time is inside a section on each CPU. `OInv`: whose context is whose, who is making or freeing it, and that
  its last CPU is one of its owner's. `CInv`: the CPU and NQ an update was called with are those of the context at hand, and a value loaded is
  still the entry's. Then each context is counted in one place, given by where the task working on it is
  (`CountedAt`: at two NQs between the update of the new entry and that of the old, nowhere while it moves between CPUs), and `NInv` compares each
  entry with the number of contexts counted there: equal while nothing has failed, and never less.
  `ClaimInv` ties `nr_in_use` and the masks to the entries. On a CPU where all are at rest `CountedAt` is `Using` (`Settled`).

The facts about the layout are stated for the instance's `setup` and so proved again here.

**`BlkFlush_proofs`**: for any requests, flush queues, finite set of walkers, and any kinds of requests, devices, failures, retries and walks,
`ListsKeepApart` (`ListsApart`) and `WalkedFlushStays` (`WalksHoldFlushes`), and under `Reliable` `EndedIsDurable` (`EndedOnMedium`).
The state is read as a pair: the machinery's record (`Now`) and what it does not touch (`Env`); every lemma about an operator speaks of such pairs, so that
`Kick`, `CompleteSeq` and each turn of the loop of `FlushEndIo` are looked at once, whoever calls them.
* `Structure` is inductive. `Kept`: which requests are in a flush queue's lists, that the indices differ exactly while
  the flush has references and a tag, that these are the walks' and its own, and that its lender is in the running list. `Placed`: a request is in one list, in
  flight or nowhere, which tells the step it is at (`InOrder`: the steps are behind it in their order).
* The last reference passes on a whole list. The fold is a sequence of turns (`PassesAre`), which keep
  `Structure` and leave the rest of the list as it was (`Elsewhere`), by induction over the turns as a least counterexample. The list that
  is walked is not the one that requests are appended to, because a new flush may start on the way, but then only on the other list (`Elsewhere`).
* `Durable` is what `EndedIsDurable` relies on between its two moments. `Promised` tells for each step behind a request what is on the medium by
  then; `Covered`, that a flush under way will bring there what those in its list wait for: once it is sent, its snapshot has it
  (`NeedsWritten`: whoever is in the running list has its data in the cache), and when it has ended and walks still hold it, the medium has it.
* `Reliable`, no failure or at most one walk, is needed: with two walks the one that puts its reference first
  overwrites the status that the completion left (`FailureIsReported`), after which a request whose flush failed ends well, and TLC finds `EndedIsDurable` violated too.
  The runs' setups that keep it are `Reliable`.

Only model-checked: every other property of the runs. Liveness under fairness and `ENABLED` are out of the
prover's reach, and so is what recursive definitions compute where no closed form is at hand (`DescribesData`).

* *`BlkTagSet`'s tables, maps and counts.* Each action folds over the hctxs or CPUs of a queue and changes four records at every turn, so each invariant would be an
  induction over those folds.
* *`NvmeCtrl`.* Its properties hold in the setups of the run, where one or two things go wrong, and not for every setup, which is what a theorem would say. Setups with everything
  at once show why. Error recovery beside a reset unfreezes too often (`NeverOverthawed`); so does a suspend during which a reset without a working I/O queue replaces the namespaces it
  froze (`FreezesBalance`). A removal beside a reset that starts over with fewer queues polls a queue that is an NCQ in the new layout but was allocated as an NSQ (`NothingBroken`). A suspend beside a timeout leaves the
  queues started, and a reset that starts over deletes queues of the controller while they are open (`QueuesAgree`). `HostMemOwned` held in all that were tried, but rests on the queues
  being empty while a suspend has them frozen, and so on `FreezesBalance`.

## 5. Not modelled, and why

* *Merging*: blex sets `QUEUE_FLAG_NOMERGES`; the rest is unchanged Linux code on payload.
* *Dispatch through an elevator, budgets, stopped queues, the choice of the work item's next CPU*: NVMe runs without an elevator and
  without budgets. The choice (`blk_blex_hctx_select_next_cpu()`) reads and writes `next_cpu` without a lock; it decides only where the work runs.
* *The hotplug callback for a dead CPU*: it moves requests of `ctx->rq_lists`, which blex does not use; requests in the vNQ of
  the dead CPU stay there, and are reached by any run of the hctx.
* *Updates of the number of queues in the blex layout*: `drivers/nvme/host/pci.c:3152` calls them after a reset, while the
  regulator and `blex_info` keep the old layout. What that leaves is not meant by the code, so that a model of it would have no property to keep.
  `NvmeCtrl` states the disagreement (`InfoCurrent`).
* *Reserved tags, the fair share of shared tags, `sbitmap`*: `BlkRequest` takes any free tag; the count of users behind the share is in `BlkTagSet`.
* *Failure paths of the regulator's memory beyond its allocations*: vNQ arrays are never freed and a flush queue's failure leaks the
  array (`block/blk-mq.c`, `block/blk-blex.c:40`); `alloc_tag_set()` frees `blex_info` and then reads it (`drivers/nvme/host/pci.c:3141`). The models stop at the failure.
* *The controller memory buffer, controller quirks, sysfs attributes, power states, the in-flight statistic* (`drivers/nvme/host/pci.c:1188`
  only decrements it): no state that the properties depend on.
* *I/O polling by the block layer, request statistics, tracing, build options*: unchanged code or without effect on dispatch.
* `src/eval/`: evaluation scripts, and the kernel files of another system that Daredevil is compared with.

Further work: the composition of `BlexNqSched` with `BlexTenant`, whose statistics and maps feed each other.
