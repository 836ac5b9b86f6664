----------------------------- MODULE BlkRequest -----------------------------
(***************************************************************************)
(* Requests and their tags on one request queue: allocation, with batches  *)
(* cached in a plug and tasks that sleep until a tag is free; issue,       *)
(* completion, requeueing; the timeout work, which walks the tags, and the *)
(* driver's handler, which may cancel everything; freezing and quiescing.  *)
(*                                                                         *)
(* A request is named by its tag: hctxs without a completion queue of      *)
(* their own (NSQs) use the tags, and so the requests, of another.  There  *)
(* is no elevator and one namespace: no scheduler tags, no shares of tags. *)
(* Which hctx a bio gets is BlexNqSched's business, what happens between   *)
(* insertion and issue is BlexDispatch's.  blk_queue_enter(), plugs,       *)
(* sbitmap and blk_add_timer() are external, after the use made of them.   *)
(***************************************************************************)
EXTENDS Integers, Sequences, FiniteSets, SequencesExt

CONSTANTS
  Hctxs,      \* numbers of the hardware contexts
  TagsOf,     \* the hctx whose tags each one uses
  Depth,      \* the most tags of a tag map
  Tasks, Worker, Freezers,
  Setups,     \* tags of a map that are used; the hctxs that bios are given; requests per task and per batch
              \* allocation; the hctxs whose requests may stay unanswered and
              \* how often; how often one is retried; how often a handler asks
              \* for more time; whether there are timeouts; who freezes;
              \* the hctxs whose last CPU goes offline, and how often
  None

Cqs     == {h \in Hctxs : TagsOf[h] = h}
Rqs     == Cqs \X (0 .. Depth - 1)
Issuers == Tasks \cup {Worker}
Past    == <<>>

ASSUME RequestAssumption ==
  /\ Hctxs \subseteq Nat /\ TagsOf \in [Hctxs -> Hctxs] /\ Depth \in Nat \ {0}
  /\ \A h \in Hctxs : TagsOf[h] \in Cqs
  /\ IsFiniteSet(Hctxs) /\ IsFiniteSet(Tasks) /\ IsFiniteSet(Freezers)
  /\ Worker \notin Tasks /\ None \notin Rqs \cup Hctxs
  /\ Setups \subseteq [depth : 1 .. Depth, hctxs : SUBSET Hctxs, reqs : [Tasks -> Nat], ios : Nat, nowait : BOOLEAN,
                       mute : SUBSET Hctxs, mutes : Nat, retries : Nat, resets : Nat,
                       timer : BOOLEAN, freezers : SUBSET Freezers,
                       unplugged : SUBSET Hctxs, unplugs : Nat]

VARIABLES
  setup,
  bits,     \* the tags that are set in the maps
  listed,   \* those with an entry in tags->rqs
  rq,       \* the requests
  cached,   \* plug->cached_rq of each task
  task,     \* where each task and the dispatching worker are
  waits,    \* the tag map each task is queued on
  wakes,    \* contexts between clearing a tag of a map and waking a waiter
  pending,  \* requests that were inserted or requeued
  users,    \* q->q_usage_counter without the initial reference
  depth,    \* q->mq_freeze_depth
  killed,   \* whether q_usage_counter is killed
  freezer,  \* where each freezer is
  quiesced,
  cpuhp,    \* how far the last CPU of each hctx is from being offline, and the
            \* requests (history) whose allocation this overlooked, per hctx
  armed,    \* q->timeout: not pending, set for the deadline of a request, or
            \* for one that has ended since
  timer,    \* blk_mq_timeout_work()
  walk,     \* its walk over the queue's tags, and the handler's over all tags
  slipped,  \* requests the walk met before they were in flight (history)
  budget    \* unanswered commands, retries, extensions and unplugs left

tagVars   == <<bits, waits, wakes>>
queueVars == <<users, depth, killed, freezer>>
flagVars  == <<quiesced, cpuhp>>
timeVars  == <<armed, timer, walk, slipped>>
vars == <<setup, tagVars, listed, rq, cached, task, pending, queueVars, flagVars, timeVars, budget>>

-----------------------------------------------------------------------------
Free == [st |-> "idle", ref |-> 0, hctx |-> None, dev |-> FALSE, late |-> FALSE, out |-> FALSE]
Before(r, s) == r[1] < s[1] \/ (r[1] = s[1] /\ r[2] < s[2])
BeforeIn(v, w) == v[1] < w[1] \/ (v[1] = w[1] /\ Before(v[2], w[2]))
NoWalk  == [left |-> {}, cur |-> None, h |-> None]
AtRest  == [pc |-> "idle", phase |-> "check", due |-> {}, found |-> FALSE, next |-> FALSE,
            sync |-> {}]

InitWith(s) ==
  /\ setup = s
  /\ bits = {} /\ listed = {} /\ rq = [r \in Rqs |-> Free]
  /\ cached = [t \in Tasks |-> <<>>]
  /\ task = [i \in Issuers |-> [pc |-> "out", h |-> None, rq |-> None,
                                left |-> IF i = Worker THEN 0 ELSE s.reqs[i], ios |-> s.ios,
                                nowait |-> FALSE]]
  /\ waits = [t \in Tasks |-> None] /\ wakes = [c \in Cqs |-> 0]
  /\ pending = {}
  /\ users = 0 /\ depth = 0 /\ killed = FALSE /\ freezer = [f \in Freezers |-> "out"]
  /\ quiesced = FALSE
  /\ cpuhp = [st |-> [h \in Hctxs |-> "online"], missed |-> [h \in Hctxs |-> {}]]
  /\ armed = None /\ timer = AtRest /\ slipped = {}
  /\ walk = [w \in {"queue", "set"} |-> NoWalk]
  /\ budget = [mutes |-> s.mutes, retries |-> s.retries, resets |-> s.resets,
                unplugs |-> s.unplugs]

Init == \E s \in Setups : InitWith(s)

Goto(i, pc)  == task' = [task EXCEPT ![i].pc = pc]
Map(c)       == {r \in Rqs : r[1] = c /\ r[2] < setup.depth}
FreeTags(c)  == Map(c) \ bits
Visible(h)   == TagsOf[h] = h              \* blk_blex_has_cq()
Inactive(h)  == cpuhp.st[h] # "online"       \* BLK_MQ_S_INACTIVE
Mapped       == {h \in setup.hctxs : cpuhp.st[h] # "offline"}
Sections     == {i \in Issuers : task[i].pc \in {"timer", "flight"}}

(* What ends with the last reference: the tag is cleared and its tag map   *)
(* owes a waiter a wake-up (FreeRequests), after which the queue is left.  *)
FreeRequests(rs) ==
  /\ bits' = bits \ rs
  /\ wakes' = [c \in Cqs |-> wakes[c] + Cardinality({r \in rs : r[1] = c})]

(* Mutant of PutRefs: the owner frees whatever others hold. *)
PutRefsOwner(rs, states) ==
  /\ rq' = [r \in Rqs |-> IF r \in rs THEN Free ELSE rq[r]]
  /\ FreeRequests(rs)

(* req_ref_put_and_test(), by the owner or by a walk, for each of rs. *)
PutRefs(rs, st) ==
  LET last == {r \in rs : rq[r].ref = 1} IN
  /\ rq' = [r \in Rqs |-> IF r \in last THEN Free
                          ELSE IF r \in rs THEN [rq[r] EXCEPT !.ref = @ - 1, !.st = st[r]]
                          ELSE rq[r]]
  /\ FreeRequests(last)

(* blk_mq_free_request(): the state is idle before the reference is put.   *)
FreeOwned(rs) == PutRefs(rs, [r \in rs |-> "idle"])

(* A timer set for one of rs, which end, still fires. *)
Outlived(rs) == armed' = IF armed \in rs THEN Past ELSE armed

-----------------------------------------------------------------------------
(* Entering the queue.  A task that has to sleep flushes its plug, which   *)
(* frees the requests cached there.                                        *)

Enter(t) ==
  /\ task[t].pc = "out" /\ task[t].left > 0 /\ ~killed
  /\ users' = users + 1
  /\ \E h \in Mapped, nowait \in {FALSE, setup.nowait} :
       task' = [task EXCEPT ![t].pc = "get", ![t].h = h, ![t].left = @ - 1,
                            ![t].nowait = nowait]
  /\ UNCHANGED <<setup, tagVars, listed, rq, cached, pending, depth, killed, freezer,
                 flagVars, timeVars, budget>>

(* A cached request, counted when it was allocated, is used unless the     *)
(* priority of its hctx does not suit the bio.                             *)
UseCached(t) ==
  /\ task[t].pc = "out" /\ task[t].left > 0 /\ cached[t] # <<>>
  /\ task' = [task EXCEPT ![t].pc = "issue", ![t].rq = Head(cached[t]), ![t].left = @ - 1]
  /\ cached' = [cached EXCEPT ![t] = Tail(@)]
  /\ UNCHANGED <<setup, tagVars, listed, rq, pending, queueVars, flagVars, timeVars, budget>>

(* blk_mq_free_plug_rqs(), when the plug ends or its task sleeps. *)
FreePlugRqs(t) ==
  /\ cached[t] # <<>> /\ task[t].pc \in {"out", "asleep"}
  /\ FreeOwned({Head(cached[t])})
  /\ cached' = [cached EXCEPT ![t] = Tail(@)]
  /\ UNCHANGED <<setup, waits, listed, task, pending, queueVars, flagVars, timeVars, budget>>

-----------------------------------------------------------------------------
(* Tags.                                                                   *)

(* blk_mq_rq_ctx_init() for the tags rs of the task's hctx. *)
CtxInit(t, rs) ==
  rq' = [r \in Rqs |-> IF r \in rs THEN [Free EXCEPT !.ref = 1, !.hctx = task[t].h] ELSE rq[r]]

(* The caller holds one reference to the queue already. *)
CountBatch(rs) == users' = users + Cardinality(rs) - 1

(* __blk_mq_alloc_requests_batch(): as many tags as there are, up to what  *)
(* the plug expects, are put on the plug's list, the last of which is      *)
(* taken off again.  Whether the hctx is inactive is not looked at here.   *)
AllocBatch(t) ==
  LET free == FreeTags(TagsOf[task[t].h])
      n == IF Cardinality(free) < task[t].ios THEN Cardinality(free) ELSE task[t].ios
  IN
  /\ task[t].pc = "get" /\ task[t].ios > 1
  /\ \/ /\ n = 0
        /\ task' = [task EXCEPT ![t].ios = 1]
        /\ UNCHANGED <<bits, users, rq, cached, cpuhp>>
     \/ \E got \in [1 .. n -> free] :
          /\ n > 0 /\ \A i, j \in 1 .. n : i < j => Before(got[j], got[i])
          /\ bits' = bits \cup ToSet(got)
          /\ task' = [task EXCEPT ![t].ios = 1, ![t].pc = "issue", ![t].rq = got[1]]
          /\ cached' = [cached EXCEPT ![t] = Tail(got) \o @]
          /\ CountBatch(ToSet(got)) /\ CtxInit(t, ToSet(got))
          /\ cpuhp' = IF cpuhp.st[task[t].h] = "offline" THEN [cpuhp EXCEPT !.missed[task[t].h] = @ \cup ToSet(got)]
                      ELSE cpuhp
  /\ UNCHANGED <<setup, waits, wakes, listed, pending, depth, killed, freezer, quiesced, timeVars, budget>>

(* blk_mq_get_tag(): an attempt that succeeds ends the wait.  (Where no     *)
(* hctx ever becomes inactive, the test for it is passed at once.)         *)
GetTag(t) ==
  LET c == TagsOf[task[t].h] IN
  /\ task[t].pc \in {"get", "retry", "again"} /\ (task[t].pc = "get" => task[t].ios <= 1)
  /\ \E r \in FreeTags(c) :
       /\ bits' = bits \cup {r}
       /\ task' = [task EXCEPT ![t].rq = r,
                     ![t].pc = IF setup.unplugged = {} THEN "init" ELSE "test"]
  /\ waits' = [waits EXCEPT ![t] = None]
  /\ UNCHANGED <<setup, wakes, listed, rq, cached, pending, queueVars, flagVars, timeVars, budget>>

(* Mutant of TestInactive: the flag is not looked at. *)
TestInactiveNot(t) ==
  /\ task[t].pc = "test" /\ Goto(t, "init")
  /\ UNCHANGED <<setup, tagVars, listed, rq, cached, pending, queueVars, flagVars, timeVars, budget>>

(* One waiter of the map is woken, if there is one, and is off the queue.  *)
WakeOne(c) ==
  LET on == {t \in Tasks : waits[t] = c} IN
  IF on = {} THEN UNCHANGED waits ELSE \E t \in on : waits' = [waits EXCEPT ![t] = None]

(* With the tag in hand, the task sees whether its hctx has become inactive *)
(* meanwhile.  If so the tag is put back, with a wake-up, and the task     *)
(* gives up or starts anew, by then on a CPU of another hctx.              *)
TestInactive(t) ==
  /\ task[t].pc = "test"
  /\ IF ~Inactive(task[t].h)
       THEN Goto(t, "init") /\ UNCHANGED <<bits, waits, users>>
       ELSE /\ bits' = bits \ {task[t].rq}
            /\ WakeOne(task[t].rq[1])
            /\ IF task[t].nowait
                 THEN /\ task' = [task EXCEPT ![t].pc = "out", ![t].rq = None]
                      /\ users' = users - 1
                 ELSE /\ \E h \in {g \in setup.hctxs : ~Inactive(g)} :
                           task' = [task EXCEPT ![t].pc = "get", ![t].rq = None, ![t].h = h]
                      /\ UNCHANGED users
  /\ UNCHANGED <<setup, wakes, listed, rq, cached, pending, depth, killed, freezer, flagVars,
                 timeVars, budget>>

CtxInitOne(t) ==
  /\ task[t].pc = "init"
  /\ CtxInit(t, {task[t].rq})
  /\ Goto(t, "issue")
  /\ UNCHANGED <<setup, tagVars, listed, cached, pending, queueVars, flagVars, timeVars, budget>>

(* No tag: queue on the map and try once more before sleeping, or give up  *)
(* if the bio must not wait.                                               *)
PrepareToWait(t) ==
  /\ \/ task[t].pc = "get" /\ task[t].ios <= 1
     \/ task[t].pc = "retry"
  /\ FreeTags(TagsOf[task[t].h]) = {}
  /\ IF task[t].nowait
       THEN Goto(t, "out") /\ users' = users - 1 /\ UNCHANGED waits
       ELSE /\ waits' = [waits EXCEPT ![t] = TagsOf[task[t].h]] /\ Goto(t, "again")
            /\ UNCHANGED users
  /\ UNCHANGED <<setup, bits, wakes, listed, rq, cached, pending, depth, killed, freezer,
                 flagVars, timeVars, budget>>

Sleep(t) ==
  /\ task[t].pc = "again" /\ FreeTags(TagsOf[task[t].h]) = {}
  /\ Goto(t, "asleep")
  /\ UNCHANGED <<setup, tagVars, listed, rq, cached, pending, queueVars, flagVars, timeVars, budget>>

(* Mutant of FakeWake: the waiters of the map that is left are forgotten. *)
FakeWakeNone(t, was, now) == UNCHANGED waits

(* "If destination hw queue is changed, fake wake up on previous queue." *)
FakeWake(t, was, now) == IF was # now THEN WakeOne(was) ELSE UNCHANGED waits

(* Woken, the task looks at the hctx its CPU and priority map to by now.   *)
Woken(t) ==
  /\ task[t].pc = "asleep" /\ waits[t] = None /\ cached[t] = <<>>
  /\ \E h \in Mapped :
       /\ task' = [task EXCEPT ![t].pc = "retry", ![t].h = h]
       /\ FakeWake(t, TagsOf[task[t].h], TagsOf[h])
  /\ UNCHANGED <<setup, bits, wakes, listed, rq, cached, pending, queueVars, flagVars,
                 timeVars, budget>>

(* The second half of freeing a request: a waiter for a tag is woken, then *)
(* the queue is left.                                                      *)
WakeUp(c) ==
  /\ wakes[c] > 0
  /\ wakes' = [wakes EXCEPT ![c] = @ - 1]
  /\ WakeOne(c)
  /\ users' = users - 1
  /\ UNCHANGED <<setup, bits, listed, rq, cached, task, pending, depth, killed, freezer,
                 flagVars, timeVars, budget>>

-----------------------------------------------------------------------------
(* Issue, in an RCU read-side section, and completion.                     *)

(* The worker takes an inserted or requeued request. *)
Take(r) ==
  /\ task[Worker].pc = "out" /\ r \in pending /\ ~quiesced
  /\ pending' = pending \ {r}
  /\ task' = [task EXCEPT ![Worker].pc = "issue", ![Worker].rq = r]
  /\ UNCHANGED <<setup, tagVars, listed, rq, cached, queueVars, flagVars, timeVars, budget>>

(* A quiesced queue gets the request inserted; else it enters tags->rqs    *)
(* and blk_add_timer() sets its deadline and sees to the timer.            *)
Issue(i) ==
  LET r == task[i].rq IN
  /\ task[i].pc = "issue"
  /\ IF quiesced
     THEN /\ pending' = pending \cup {r}
          /\ task' = [task EXCEPT ![i].pc = "out", ![i].rq = None]
          /\ UNCHANGED <<listed, rq, armed, timer, slipped>>
     ELSE /\ listed' = listed \cup {r}
          /\ rq' = [rq EXCEPT ![r].late = FALSE]
          /\ armed' = IF setup.timer /\ armed = None THEN r ELSE armed
          /\ timer' = [timer EXCEPT !.due = @ \ {r}]
          /\ slipped' = slipped \ {r}
          /\ Goto(i, "timer") /\ UNCHANGED pending
  /\ UNCHANGED <<setup, tagVars, cached, queueVars, flagVars, walk, budget>>

(* blk_mq_start_request(), second half. *)
StartRequest(i) ==
  /\ task[i].pc = "timer"
  /\ rq' = [rq EXCEPT ![task[i].rq].st = "flight"]
  /\ Goto(i, "flight")
  /\ UNCHANGED <<setup, tagVars, listed, cached, pending, queueVars, flagVars, timeVars, budget>>

(* The driver hands the command over; the controller may never answer it.  *)
(* The section ends, which the timeout work may wait for.                  *)
Submit(i, answered) ==
  LET r == task[i].rq IN
  /\ task[i].pc = "flight"
  /\ answered \/ (rq[r].hctx \in setup.mute /\ budget.mutes > 0)
  /\ rq' = [rq EXCEPT ![r].dev = answered]
  /\ budget' = IF answered THEN budget ELSE [budget EXCEPT !.mutes = @ - 1]
  /\ task' = [task EXCEPT ![i].pc = "out", ![i].rq = None]
  /\ timer' = [timer EXCEPT !.sync = @ \ {i}]
  /\ UNCHANGED <<setup, tagVars, listed, cached, pending, queueVars, flagVars, armed, walk, slipped>>

(* blk_mq_complete_request() in the driver's interrupt handler; ending the *)
(* request is left to a soft interrupt.                                    *)
Complete(r) ==
  /\ rq[r].st = "flight" /\ rq[r].dev
  /\ rq' = [rq EXCEPT ![r].st = "complete", ![r].dev = FALSE]
  /\ UNCHANGED <<setup, tagVars, listed, cached, task, pending, queueVars, flagVars, timeVars, budget>>

(* blk_mq_end_request(), or blk_mq_end_request_batch() for several of one  *)
(* hctx: their tags are cleared together.                                  *)
EndRequests(rs) ==
  /\ \A r, s \in rs : rq[r].hctx = rq[s].hctx
  /\ FreeOwned(rs) /\ Outlived(rs)
  /\ UNCHANGED <<setup, waits, listed, cached, task, pending, queueVars, flagVars, timer, walk,
                 slipped, budget>>

(* blk_mq_requeue_request(): the driver tries again. *)
Requeue(r) ==
  /\ rq[r].st = "complete" /\ budget.retries > 0
  /\ budget' = [budget EXCEPT !.retries = @ - 1]
  /\ rq' = [rq EXCEPT ![r].st = "idle", ![r].out = FALSE]
  /\ pending' = pending \cup {r} /\ Outlived({r})
  /\ UNCHANGED <<setup, tagVars, listed, cached, task, queueVars, flagVars, timer, walk, slipped>>

-----------------------------------------------------------------------------
(* Walks over the tags.  A walk holds a reference to the request it works  *)
(* on.                                                                     *)

(* blk_mq_queue_tag_busy_iter(): the tags of the hctxs that have their own *)
(* completion queue, each with the hctx whose requests are looked for.     *)
QueueWalk == {v \in Hctxs \X Rqs : Visible(v[1]) /\ v[2] \in Map(TagsOf[v[1]])}

(* blk_mq_tagset_busy_iter(): all tag maps, whatever hctx a request is of. *)
SetWalk == {v \in Hctxs \X Rqs : v[2] \in Map(v[1])}

(* Mutant of GetRef: the request is used without a reference. *)
GetRefNot(r) == UNCHANGED rq

GetRef(r) == rq' = [rq EXCEPT ![r].ref = @ + 1]

(* blk_mq_find_and_get_req() *)
There(r) == r \in bits /\ r \in listed /\ rq[r].ref > 0

(* The next tag in order. *)
FindNext(w) ==
  /\ walk[w].cur = None
  /\ \E v \in walk[w].left :
       /\ \A u \in walk[w].left \ {v} : BeforeIn(v, u)
       /\ walk' = [walk EXCEPT ![w] = [left |-> @.left \ {v}, h |-> v[1],
                                       cur |-> IF There(v[2]) THEN v[2] ELSE None]]
       /\ IF There(v[2]) THEN GetRef(v[2]) ELSE UNCHANGED rq
  /\ UNCHANGED <<setup, tagVars, listed, cached, task, pending, queueVars, flagVars, armed,
                 timer, slipped, budget>>

(* blk_mq_put_rq_ref() *)
PutWalked(w) == PutRefs({walk[w].cur}, [r \in {walk[w].cur} |-> rq[r].st])

Rest(w, left) == walk' = [walk EXCEPT ![w] = [left |-> left, cur |-> None, h |-> None]]

-----------------------------------------------------------------------------
(* The timeout work and the driver's timeout handler.                      *)

walkElse == <<setup, waits, listed, cached, task, pending, queueVars, flagVars>>
Walked(w) == walk[w].cur = None /\ walk[w].left = {}

(* The deadline of a request in flight passes. *)
PassDeadline(r) ==
  /\ setup.timer /\ rq[r].st = "flight" /\ ~rq[r].late
  /\ rq' = [rq EXCEPT ![r].late = TRUE]
  /\ UNCHANGED <<setup, tagVars, listed, cached, task, pending, queueVars, flagVars, timeVars, budget>>

(* Mutant of MayWork: the work enters the queue as a submitter does. *)
MayWorkUnfrozen == ~killed

(* percpu_ref_tryget() also succeeds while a freezer waits. *)
MayWork == ~(killed /\ users = 0)

(* The timer fires: blk_mq_timeout_work() starts, unless the queue is      *)
(* frozen, and notes the time; due are the requests late by then.          *)
TimeoutWork ==
  /\ armed # None /\ timer.pc = "idle"
  /\ IF armed = Past THEN TRUE ELSE rq[armed].late
  /\ armed' = None
  /\ IF ~MayWork THEN UNCHANGED <<users, timer, walk>>
     ELSE /\ users' = users + 1
          /\ timer' = [AtRest EXCEPT !.pc = "walk", !.due = {r \in Rqs : rq[r].late}]
          /\ Rest("queue", QueueWalk)
  /\ UNCHANGED <<setup, tagVars, listed, rq, cached, task, pending, depth, killed, freezer,
                 flagVars, slipped, budget>>

(* blk_mq_req_expired() for the request found, if it is the hctx's. *)
Matches == rq[walk["queue"].cur].hctx = walk["queue"].h
Counted(r) == Matches /\ rq[r].st = "flight" /\ ~rq[r].out
Expired(r) == Counted(r) /\ r \in timer.due

(* blk_mq_check_expired(), or blk_mq_handle_expired() on a request that is *)
(* not due.  A first one that is due ends the walk of the hctx.            *)
LookAt ==
  LET r == walk["queue"].cur
      stops == Expired(r) /\ timer.phase = "check"
      left == walk["queue"].left
  IN
  /\ timer.pc = "walk" /\ r # None /\ (Expired(r) => stops)
  /\ timer' = [timer EXCEPT !.found = @ \/ stops, !.next = @ \/ (Counted(r) /\ ~stops)]
  /\ slipped' = IF \E i \in Issuers : task[i].pc = "timer" /\ task[i].rq = r
                THEN slipped \cup {r} ELSE slipped \ {r}
  /\ PutWalked("queue")
  /\ Rest("queue", IF stops THEN {v \in left : v[1] # walk["queue"].h} ELSE left)
  /\ UNCHANGED <<walkElse, armed, budget>>

(* Mutant of WaitFor: submissions that have begun are not waited for. *)
WaitForNone == {}

WaitFor == Sections

(* Requests expired: the submissions under way are waited for before the   *)
(* second walk.                                                            *)
CheckEnds ==
  /\ timer.pc = "walk" /\ timer.phase = "check" /\ timer.found /\ Walked("queue")
  /\ timer' = [timer EXCEPT !.pc = "sync", !.sync = WaitFor]
  /\ UNCHANGED <<walkElse, bits, wakes, rq, armed, walk, slipped, budget>>

HandleStarts ==
  /\ timer.pc = "sync" /\ timer.sync = {}
  /\ timer' = [timer EXCEPT !.pc = "walk", !.phase = "handle", !.next = FALSE]
  /\ Rest("queue", QueueWalk)
  /\ UNCHANGED <<walkElse, bits, wakes, rq, armed, slipped, budget>>

NextTimer == IF timer.next /\ armed = None THEN Past ELSE armed

(* The timer is set for the next deadline seen; the queue is left. *)
WorkEnds ==
  /\ timer.pc = "walk" /\ Walked("queue") /\ (timer.phase = "check" => ~timer.found)
  /\ armed' = NextTimer
  /\ timer' = AtRest
  /\ users' = users - 1
  /\ UNCHANGED <<setup, tagVars, listed, rq, cached, task, pending, depth, killed, freezer,
                 flagVars, walk, slipped, budget>>

(* blk_mq_rq_timed_out(), until the driver's handler decides. *)
TimedOut ==
  LET r == walk["queue"].cur IN
  /\ timer.pc = "walk" /\ timer.phase = "handle" /\ r # None /\ Expired(r)
  /\ rq' = [rq EXCEPT ![r].out = TRUE]
  /\ timer' = [timer EXCEPT !.pc = "call"]
  /\ UNCHANGED <<walkElse, bits, wakes, armed, walk, slipped, budget>>

(* The handler (external) finds the request completed, asks for more time, *)
(* so that blk_add_timer() is called, or cancels everything: it quiesces   *)
(* the queue, ...                                                          *)
Handler ==
  LET r == walk["queue"].cur IN
  /\ timer.pc = "call"
  /\ \/ /\ rq[r].st # "flight" /\ timer' = [timer EXCEPT !.pc = "put"]
        /\ UNCHANGED <<rq, armed, flagVars, budget>>
     \/ /\ rq[r].st = "flight" /\ budget.resets > 0
        /\ budget' = [budget EXCEPT !.resets = @ - 1]
        /\ rq' = [rq EXCEPT ![r].late = FALSE, ![r].out = FALSE]
        /\ armed' = IF armed = None THEN r ELSE armed
        /\ timer' = [timer EXCEPT !.pc = "put", !.due = @ \ {r}] /\ UNCHANGED quiesced
     \/ /\ rq[r].st = "flight" /\ quiesced' = TRUE
        /\ timer' = [timer EXCEPT !.pc = "drain"] /\ UNCHANGED <<rq, armed, budget>>
  /\ UNCHANGED <<setup, tagVars, listed, cached, task, pending, queueVars, cpuhp, walk, slipped>>

(* ... waits for the submissions under way, and disables the controller.   *)
Drain ==
  /\ timer.pc = "drain" /\ Sections = {}
  /\ rq' = [r \in Rqs |-> [rq[r] EXCEPT !.dev = FALSE]]
  /\ timer' = [timer EXCEPT !.pc = "cancel"]
  /\ Rest("set", SetWalk)
  /\ UNCHANGED <<walkElse, bits, wakes, armed, slipped, budget>>

(* nvme_cancel_request() for every started request that is not complete. *)
Cancel ==
  LET r == walk["set"].cur IN
  /\ timer.pc = "cancel" /\ r # None
  /\ PutRefs({r}, [s \in {r} |-> IF rq[r].st = "flight" THEN "complete" ELSE rq[r].st])
  /\ Rest("set", walk["set"].left)
  /\ UNCHANGED <<walkElse, armed, timer, slipped, budget>>

(* blk_mq_tagset_wait_completed_request(), and the queue is restarted. *)
Cancelled ==
  /\ timer.pc = "cancel" /\ Walked("set") /\ \A r \in Rqs : rq[r].st # "complete"
  /\ quiesced' = FALSE
  /\ timer' = [timer EXCEPT !.pc = "put"]
  /\ UNCHANGED <<setup, tagVars, listed, rq, cached, task, pending, queueVars, cpuhp, armed,
                 walk, slipped, budget>>

PutHandled ==
  /\ timer.pc = "put"
  /\ PutWalked("queue") /\ Rest("queue", walk["queue"].left)
  /\ timer' = [timer EXCEPT !.pc = "walk"]
  /\ UNCHANGED <<walkElse, armed, slipped, budget>>

-----------------------------------------------------------------------------
(* Freezing.                                                               *)

freezeElse == <<setup, tagVars, listed, rq, cached, task, pending, users, flagVars, timeVars, budget>>

FreezeStart(f) ==
  /\ f \in setup.freezers /\ freezer[f] = "out"
  /\ depth' = depth + 1 /\ killed' = TRUE
  /\ freezer' = [freezer EXCEPT ![f] = "wait"]
  /\ UNCHANGED freezeElse

FreezeWait(f) ==
  /\ freezer[f] = "wait" /\ killed /\ users = 0
  /\ freezer' = [freezer EXCEPT ![f] = "frozen"]
  /\ UNCHANGED <<freezeElse, depth, killed>>

Resurrects == depth = 1

Unfreeze(f) ==
  /\ freezer[f] = "frozen"
  /\ depth' = depth - 1 /\ killed' = (killed /\ ~Resurrects)
  /\ freezer' = [freezer EXCEPT ![f] = "done"]
  /\ UNCHANGED freezeElse

-----------------------------------------------------------------------------
(* The last CPU of a hctx goes offline, and comes back.                    *)

hotplugElse == <<setup, tagVars, listed, rq, cached, task, pending, depth, killed, freezer,
                 quiesced, timeVars>>

(* blk_mq_hctx_notify_offline(): no new requests, and wait for the others. *)
(* On a frozen queue there are none.                                       *)
NotifyOffline(h) ==
  /\ h \in setup.unplugged /\ budget.unplugs > 0 /\ ~Inactive(h)
  /\ budget' = [budget EXCEPT !.unplugs = @ - 1]
  /\ cpuhp' = [cpuhp EXCEPT !.st[h] = "inactive"]
  /\ UNCHANGED <<hotplugElse, users>>

GetQueue(h) ==
  /\ cpuhp.st[h] = "inactive"
  /\ users' = IF MayWork THEN users + 1 ELSE users
  /\ cpuhp' = [cpuhp EXCEPT !.st[h] = IF MayWork THEN "wait" ELSE "offline"]
  /\ UNCHANGED <<hotplugElse, budget>>

(* blk_mq_hctx_has_requests() goes by rq->mq_hctx, which a request has from *)
(* blk_mq_rq_ctx_init() on: one that passed the test and is not yet        *)
(* initialised is overlooked, and so is the batch of a task that came to    *)
(* the hctx before (AllocBatch).                                           *)
HasRequests(h) == \E r \in Map(TagsOf[h]) \cap bits : rq[r].hctx = h

Drained(h) ==
  /\ cpuhp.st[h] = "wait" /\ ~HasRequests(h)
  /\ users' = users - 1
  /\ cpuhp' = [st |-> [cpuhp.st EXCEPT ![h] = "offline"],
               missed |-> [cpuhp.missed EXCEPT ![h] =
                             {task[t].rq : t \in {u \in Tasks : task[u].pc = "init" /\ task[u].h = h}}]]
  /\ UNCHANGED <<hotplugElse, budget>>

(* blk_mq_hctx_notify_online() *)
NotifyOnline(h) ==
  /\ cpuhp.st[h] = "offline"
  /\ cpuhp' = [st |-> [cpuhp.st EXCEPT ![h] = "online"], missed |-> [cpuhp.missed EXCEPT ![h] = {}]]
  /\ UNCHANGED <<hotplugElse, users, budget>>

Unplug(h) == GetQueue(h) \/ Drained(h)

-----------------------------------------------------------------------------
End == \E rs \in SUBSET {r \in Rqs : rq[r].st = "complete"} : rs # {} /\ EndRequests(rs)
Run(i) == Issue(i) \/ StartRequest(i) \/ (\E answered \in BOOLEAN : Submit(i, answered))
Alloc(t) ==
  \/ AllocBatch(t) \/ GetTag(t) \/ TestInactive(t) \/ CtxInitOne(t)
  \/ PrepareToWait(t) \/ Sleep(t) \/ Woken(t)
Timer ==
  \/ TimeoutWork \/ LookAt \/ CheckEnds \/ HandleStarts \/ WorkEnds \/ TimedOut \/ Handler
  \/ Drain \/ Cancel \/ Cancelled \/ PutHandled \/ \E w \in {"queue", "set"} : FindNext(w)

Next ==
  \/ \E t \in Tasks : Enter(t) \/ UseCached(t) \/ FreePlugRqs(t) \/ Alloc(t)
  \/ \E i \in Issuers : Run(i)
  \/ \E r \in Rqs : Take(r) \/ Complete(r) \/ Requeue(r) \/ PassDeadline(r)
  \/ \E c \in Cqs : WakeUp(c)
  \/ End \/ Timer
  \/ \E f \in Freezers : FreezeStart(f) \/ FreezeWait(f) \/ Unfreeze(f)
  \/ \E h \in Hctxs : NotifyOffline(h) \/ Unplug(h) \/ NotifyOnline(h)

(* Code that runs goes on running, the worker takes what is pending, the   *)
(* controller answers what it does not swallow, deadlines pass, timers     *)
(* fire, plugs end and freezes are undone.                                 *)
Fairness ==
  /\ WF_vars(\E i \in Issuers : Run(i))
  /\ WF_vars(\E t \in Tasks : Alloc(t)) /\ WF_vars(\E t \in Tasks : FreePlugRqs(t) \/ Enter(t))
  /\ SF_vars(\E r \in Rqs : Take(r)) /\ WF_vars(\E r \in Rqs : PassDeadline(r))
  /\ WF_vars(End \/ \E r \in Rqs : Complete(r)) /\ WF_vars(\E c \in Cqs : WakeUp(c))
  /\ WF_vars(Timer)
  /\ WF_vars(\E f \in Freezers : FreezeWait(f) \/ Unfreeze(f))
  /\ WF_vars(\E h \in Hctxs : Unplug(h))

Spec == Init /\ [][Next]_vars /\ Fairness

-----------------------------------------------------------------------------
(* Properties.                                                             *)

(* Every variable has its type. *)
TypeOK ==
  /\ setup \in Setups /\ bits \subseteq Rqs /\ listed \subseteq Rqs
  /\ rq \in [Rqs -> [st : {"idle", "flight", "complete"}, ref : 0 .. 3, hctx : Hctxs \cup {None},
                     dev : BOOLEAN, late : BOOLEAN, out : BOOLEAN]]
  /\ cached \in [Tasks -> Seq(Rqs)] /\ waits \in [Tasks -> Cqs \cup {None}]
  /\ wakes \in [Cqs -> Nat] /\ pending \subseteq Rqs
  /\ users \in Nat /\ depth \in 0 .. Cardinality(Freezers) /\ killed \in BOOLEAN
  /\ freezer \in [Freezers -> {"out", "wait", "frozen", "done"}]
  /\ \A w \in {"queue", "set"} : walk[w].cur \in Rqs \cup {None}
  /\ cpuhp.st \in [Hctxs -> {"online", "inactive", "wait", "offline"}]
  /\ cpuhp.missed \in [Hctxs -> SUBSET Rqs]

(* The references to requests and to the queue are those that somebody     *)
(* holds: an owner and the walks, the tasks that allocate, the allocated   *)
(* requests, those being freed and the timeout work.                       *)
Owned ==
  {r \in Rqs : \/ rq[r].st \in {"flight", "complete"} \/ r \in pending
               \/ \E t \in Tasks : r \in ToSet(cached[t])
               \/ \E i \in Issuers : task[i].rq = r /\ task[i].pc \in {"issue", "timer", "flight"}}
Walks(r) == Cardinality({w \in {"queue", "set"} : walk[w].cur = r})

RequestRefs ==
  \A r \in Rqs : rq[r].ref = Walks(r) + (IF r \in Owned THEN 1 ELSE 0)

Allocating == {t \in Tasks : task[t].pc \in {"get", "retry", "again", "asleep", "test", "init"}}
Held == {r \in Rqs : rq[r].ref > 0}

Owed == UNION {{c} \X (1 .. wakes[c]) : c \in Cqs}   \* the wake-ups

QueueUsers ==
  users = Cardinality(Allocating) + Cardinality(Held) + Cardinality(Owed)
          + (IF timer.pc = "idle" THEN 0 ELSE 1)
          + Cardinality({h \in Hctxs : cpuhp.st[h] = "wait"})

(* Every variable has its type, and no reference to a request or the queue *)
(* is lost or dropped twice (blk-mq-tag.c:283, blk-mq.c:206, 890).         *)
RefsBalance == TypeOK /\ RequestRefs /\ QueueUsers

(* A tag is not given out again while somebody works on its request, be it *)
(* a timeout handler that the completion overtook (blk-mq.c:1654).         *)
HeldKeepsTag == \A r \in Rqs : rq[r].ref > 0 \/ Walks(r) > 0 => r \in bits /\ rq[r].hctx # None

(* A driver's timeout handler is never called for a request whose          *)
(* submission is still under way: no command is aborted before it is sent. *)
TimedOutWasSubmitted ==
  [][timer.pc # "call" /\ timer'.pc = "call" =>
       \A i \in Issuers : task[i].rq # walk["queue"].cur]_vars

(* When a freezer goes ahead no request exists, nobody allocates one and   *)
(* no timeout is being handled, until the last freezer has thawed.         *)
FrozenIsIdle ==
  (\E f \in Freezers : freezer[f] = "frozen") =>
    bits = {} /\ Allocating = {} /\ timer.pc = "idle"

(* Cancelling leaves no request with the disabled controller, whichever    *)
(* hctx it came from.                                                      *)
CancelLeavesNone ==
  timer.pc = "cancel" /\ Walked("set") => \A r \in Rqs : rq[r].st # "flight"

(* Once the hctx's last CPU is gone no request is left on it, none having  *)
(* slipped in between the flag and the wait (blk-mq.c:3773); excepted are  *)
(* those that had passed the test and were not yet initialised when the    *)
(* wait looked, and batches, for which there is no test.                   *)
InactiveDrained ==
  \A h \in Hctxs : cpuhp.st[h] = "offline" =>
    \A r \in Rqs \ cpuhp.missed[h] : rq[r].ref > 0 => rq[r].hctx # h

(* Who waits until no request is left, to freeze the queue, to disable the *)
(* controller or for a CPU to go, does not go ahead with one left.         *)
DrainsLeaveNone == FrozenIsIdle /\ CancelLeavesNone /\ InactiveDrained

(* The walk that looks for requests past their deadline can meet one after *)
(* blk_add_timer() and before its state changes (blk-mq.c:1307), count it  *)
(* for nothing and leave the timer unset; such a one is in slipped, and    *)
(* excepted from what follows.                                             *)

(* Everybody who waits for a tag gets one, also those queued on a tag map  *)
(* that a woken task turned away from (blk-mq-tag.c:199).                  *)
EveryTaskProceeds == \A t \in Tasks : task[t].pc = "asleep" ~> task[t].pc = "issue" \/ slipped # {}

(* Every freeze comes to its end though requests time out meanwhile and    *)
(* their handling needs the queue (blk-mq.c:1700).                         *)
EveryFreezeEnds ==
  (\E f \in Freezers : freezer[f] \in {"wait", "frozen"}) ~>
    \/ \A f \in Freezers : freezer[f] \notin {"wait", "frozen"}
    \/ slipped # {}

(* A CPU is not kept from going offline: the requests waited for end,      *)
(* though the queue may be freezing and requests be tried again.           *)
UnplugEnds ==
  (\E h \in Hctxs : cpuhp.st[h] = "wait") ~> (\A h \in Hctxs : cpuhp.st[h] # "wait")

(* Nobody waits for a frozen queue or for a CPU to go for ever. *)
EveryWaitEnds == EveryFreezeEnds /\ UnplugEnds

(* A walk over the requests with a driver tag meets all that were in       *)
(* flight throughout.  It does not: those of hctxs without a completion    *)
(* queue are left out (blk-mq-tag.c:568).                                  *)
BusyIterMeetsAll ==
  timer.pc = "walk" /\ timer.phase = "check" /\ Walked("queue") /\ ~timer.found =>
    \A r \in timer.due : rq[r].st # "flight"
=============================================================================
