------------------------------ MODULE BlexPlug ------------------------------
(***************************************************************************)
(* Flushing a plug, the list of requests a thread has gathered, into the   *)
(* hctx of BlexDispatch: handed to the driver as a whole by queue_rqs(),   *)
(* then what is left one by one, then what is still left by groups of one  *)
(* CPU, each tried one by one and the rest of it inserted into the vNQ.    *)
(* A flush from schedule() only inserts.                                   *)
(*                                                                         *)
(* While a thread stages a request or runs the queue for its flush it is   *)
(* in BlexDispatch's code (pc); "idle" there means back in the flush.      *)
(* The requests of a plug all have this hctx.                              *)
(***************************************************************************)
EXTENDS BlexDispatch

VARIABLE plug  \* per thread: the flush it is in

plugVars == <<vars, plug>>

(* list: plug->mq_list; batch: the list of one group; rq: the one being    *)
(* issued; phase: where the flush is.                                      *)
NoFlush == [phase |-> "none", list |-> {}, batch |-> {}, rq |-> None,
            async |-> FALSE, sent |-> FALSE, failed |-> FALSE]

ASSUME PlugAssumption ==
  \A s \in Setups : "direct" \in s.paths => s.paths = {"direct"}

InPhase(t, p) == At(t, "idle") /\ plug[t].phase = p
InPlug == (UNION {plug[t].list \cup plug[t].batch : t \in Threads})
            \cup ({plug[t].rq : t \in Threads} \ {None})

PlugInit == Init /\ plug = [t \in Threads |-> NoFlush]

-----------------------------------------------------------------------------
(* Enter the section in which the quiesced flag is looked at; leave it.    *)
Lock(t)   == loc' = [loc EXCEPT ![t].rcu = TRUE]
Unlock(t) == loc' = [loc EXCEPT ![t].rcu = FALSE]

(* blk_mq_flush_plug_list(): from schedule(), or with requests of several  *)
(* queues in the plug, straight to the groups.  On a quiesced queue the    *)
(* driver is not given the whole list.                                     *)
FlushPlug(t, R) ==
  /\ InPhase(t, "none") /\ R # {} /\ R \subseteq Fresh \ InPlug
  /\ \E phase \in {"rqs", "each", "groups"}, async \in BOOLEAN :
       /\ IF async THEN "schedule" \in setup.paths /\ phase = "groups"
                   ELSE /\ "flush" \in setup.paths
                        /\ phase = "rqs" => ~Quiesced
                        /\ phase = "each" => Quiesced
       /\ plug' = [plug EXCEPT ![t] = [NoFlush EXCEPT !.phase = phase, !.list = R,
                                                      !.async = async]]
       /\ IF phase = "rqs" THEN Lock(t) ELSE UNCHANGED loc
  /\ UNCHANGED <<staged, mask, dispatch, restart, work, depth, waits, driver, posted, done,
                 pc, busy, rounds>>

(* nvme_queue_rqs(): those that can be prepared are copied and the doorbell *)
(* rung, under the SQ's lock; the others stay in the plug.                 *)
QueueRqs(t, S) ==
  /\ InPhase(t, "rqs") /\ S \subseteq plug[t].list
  /\ LET rest == plug[t].list \ S
     IN  /\ IF rest = {} THEN UNCHANGED busy ELSE busy > 0 /\ busy' = busy - 1
         /\ plug' = [plug EXCEPT ![t] = IF rest = {} THEN NoFlush
                       ELSE [@ EXCEPT !.list = rest, !.phase = "each"]]
  /\ driver' = driver \cup S
  /\ posted' = IF S = {} THEN posted ELSE {}
  /\ Unlock(t)
  /\ UNCHANGED <<staged, mask, dispatch, restart, work, depth, waits, done, pc, rounds>>

-----------------------------------------------------------------------------
(* One by one: blk_mq_plug_issue_direct() over the plug (phase "each"),    *)
(* blk_mq_try_issue_list_directly() over a group (phase "list").           *)

Left(t) == IF plug[t].phase = "each" THEN plug[t].list ELSE plug[t].batch
Popped(t) == At(t, "idle") /\ plug[t].rq # None
Without(t, r) == [plug[t] EXCEPT !.list = @ \ {r}, !.batch = @ \ {r}]

(* __blk_mq_try_issue_directly(): on a quiesced queue the request is staged *)
(* and counts as sent.                                                     *)
NextRq(t, r) ==
  /\ InPhase(t, "each") \/ InPhase(t, "list")
  /\ ~Popped(t) /\ r \in Left(t)
  /\ IF Quiesced
       THEN /\ plug' = [plug EXCEPT ![t] = [Without(t, r) EXCEPT !.sent = TRUE]]
            /\ loc' = [loc EXCEPT ![t].rq = r, ![t].rcu = TRUE]
            /\ Goto(t, "mark")
       ELSE /\ plug' = [plug EXCEPT ![t] = [Without(t, r) EXCEPT !.rq = r]]
            /\ Lock(t)
            /\ UNCHANGED pc
  /\ UNCHANGED <<staged, mask, dispatch, restart, work, depth, waits, driver, posted, done,
                 busy, rounds>>

(* Refused, the request is staged, the queue run (for a group only if it   *)
(* was the last of it), and the loop left.                                 *)
IssuePlugged(t) ==
  LET r == plug[t].rq
      one == [plug[t] EXCEPT !.rq = None]
      last == (IF one.phase = "each" THEN one.list ELSE one.batch) = {}
  IN  /\ Popped(t)
      /\ \/ /\ Accepted(r, last)
            /\ plug' = [plug EXCEPT ![t] = [one EXCEPT !.sent = TRUE]]
            /\ Unlock(t) /\ UNCHANGED pc
         \/ /\ Failed(r)
            /\ plug' = [plug EXCEPT ![t] = [one EXCEPT !.failed = TRUE]]
            /\ Unlock(t) /\ UNCHANGED pc
         \/ /\ Refused
            /\ plug' = [plug EXCEPT ![t] =
                 [one EXCEPT !.failed = TRUE,
                    !.phase = IF @ = "each" THEN "each_end" ELSE "list_end"]]
            /\ BypassInsert(t, r, one.phase = "each" \/ last)
      /\ UNCHANGED <<staged, mask, dispatch, restart, work, depth, waits, done, rounds>>

LoopDone(t, p) == InPhase(t, p) /\ Left(t) = {} /\ ~Popped(t)

(* The loops end: the doorbell is rung if one request failed, whose        *)
(* predecessors were told that more would come; then the rest, if any.     *)
EachEnd(t) ==
  /\ InPhase(t, "each_end") \/ LoopDone(t, "each")
  /\ CommitRqs(plug[t].failed)
  /\ plug' = [plug EXCEPT ![t] = IF @.list = {} THEN NoFlush
                ELSE [NoFlush EXCEPT !.list = plug[t].list, !.phase = "groups"]]
  /\ UNCHANGED <<staged, mask, dispatch, restart, work, depth, waits, driver, done, loc, pc,
                 busy, rounds>>

AfterGroup(f) == IF f.list = {} THEN NoFlush
                 ELSE [NoFlush EXCEPT !.list = f.list, !.phase = "groups", !.async = f.async]

(* Mutant of ListEnd: the doorbell is left to whoever comes next. *)
ListEndNoDoorbell(t) ==
  /\ InPhase(t, "list_end") \/ LoopDone(t, "list")
  /\ plug' = [plug EXCEPT ![t] = IF @.batch = {} THEN AfterGroup(@)
                                 ELSE [@ EXCEPT !.phase = "insert", !.sent = FALSE]]
  /\ UNCHANGED <<staged, mask, dispatch, restart, work, depth, waits, driver, posted, done,
                 loc, pc, busy, rounds>>

ListEnd(t) ==
  /\ InPhase(t, "list_end") \/ LoopDone(t, "list")
  /\ CommitRqs(plug[t].failed /\ plug[t].sent)
  /\ plug' = [plug EXCEPT ![t] = IF @.batch = {} THEN AfterGroup(@)
                                 ELSE [@ EXCEPT !.phase = "insert", !.sent = FALSE]]
  /\ UNCHANGED <<staged, mask, dispatch, restart, work, depth, waits, driver, done, loc, pc,
                 busy, rounds>>

-----------------------------------------------------------------------------
(* blk_mq_dispatch_plug_list(): the requests of one CPU, the others are    *)
(* kept in the plug.                                                       *)
TakeGroup(t, i) ==
  LET group == {r \in plug[t].list : CpuOf[r] = i}
  IN  /\ InPhase(t, "groups") /\ group # {}
      /\ plug' = [plug EXCEPT ![t].batch = group, ![t].list = @ \ group,
                              ![t].phase = IF plug[t].async THEN "insert" ELSE "list"]
      /\ UNCHANGED vars

(* blk_mq_insert_requests() adds the group and marks the CPU in one        *)
(* critical section; then the queue is run.                                *)
InsertRequests(t) ==
  /\ InPhase(t, "insert")
  /\ \E i \in {CpuOf[r] : r \in plug[t].batch} :
       /\ staged' = [staged EXCEPT ![i] = @ \cup plug[t].batch]
       /\ mask' = mask \cup {i}
  /\ loc' = [loc EXCEPT ![t].run = IF plug[t].async THEN "async" ELSE "sync"]
  /\ Goto(t, "run")
  /\ plug' = [plug EXCEPT ![t] = AfterGroup(@)]
  /\ UNCHANGED <<dispatch, restart, work, depth, waits, driver, posted, done, busy, rounds>>

-----------------------------------------------------------------------------
FlushStep(t) ==
  \/ \E S \in SUBSET Requests : QueueRqs(t, S)
  \/ \E r \in Requests : NextRq(t, r)
  \/ IssuePlugged(t) \/ EachEnd(t) \/ ListEnd(t)
  \/ \E i \in Cpus : TakeGroup(t, i)
  \/ InsertRequests(t)

Others ==
  \/ \E t \in setup.threads : plug[t].phase = "none" /\ Submit(t)
  \/ \E c \in Contexts : Step(c)
  \/ WorkStart \/ CompleteAny \/ Restart
  \/ \E q \in setup.quiescers : QuiesceBegin(q) \/ QuiesceStep(q)

PlugNext ==
  \/ Others /\ UNCHANGED plug
  \/ \E t \in setup.threads :
       FlushStep(t) \/ \E R \in SUBSET Requests : FlushPlug(t, R)

PlugSpec == PlugInit /\ [][PlugNext /\ UNCHANGED setup]_plugVars

(* As in BlexDispatch, and a thread goes on with its flush. *)
PlugFairSpec ==
  /\ PlugSpec
  /\ \A c \in Contexts : WF_plugVars(Step(c) /\ UNCHANGED <<setup, plug>>)
  /\ \A t \in Threads : WF_plugVars(FlushStep(t) /\ UNCHANGED setup)
  /\ WF_plugVars(WorkStart /\ UNCHANGED <<setup, plug>>)
  /\ WF_plugVars(CompleteAny /\ UNCHANGED <<setup, plug>>)
  /\ WF_plugVars(Restart /\ UNCHANGED <<setup, plug>>)
  /\ \A q \in Quiescers : WF_plugVars(QuiesceStep(q) /\ UNCHANGED <<setup, plug>>)

-----------------------------------------------------------------------------
PlugTypeOK ==
  /\ TypeOK
  /\ plug \in [Threads -> [phase : {"none", "rqs", "each", "each_end", "groups", "list",
                                    "list_end", "insert"},
                           list : SUBSET Requests, batch : SUBSET Requests,
                           rq : Requests \cup {None},
                           async : BOOLEAN, sent : BOOLEAN, failed : BOOLEAN]]

(* Every variable has its type, and however submitters, flushes,           *)
(* dispatchers and completions interleave, a request is in one place at a  *)
(* time: in one plug, on one list, with one context, at the driver or      *)
(* done.  So it is issued at most once.                                    *)
InOnePlace ==
  LET count(r) == Cardinality({i \in Cpus : r \in staged[i]})
                    + Cardinality({c \in Contexts : r \in Held(c)})
                    + Cardinality({t \in Threads : r \in plug[t].list})
                    + Cardinality({t \in Threads : r \in plug[t].batch})
                    + Cardinality({t \in Threads : r = plug[t].rq})
                    + Cardinality({r} \cap dispatch) + Cardinality({r} \cap driver)
                    + Cardinality({r} \cap done)
  IN  PlugTypeOK /\ \A r \in Requests : count(r) <= 1

(* Once blk_mq_quiesce_queue() has returned, no context is dispatching or  *)
(* about to hand requests to the driver.                                   *)
QuiescedNoDispatch ==
  (\E q \in Quiescers : At(q, "quiesced")) =>
    /\ \A c \in Contexts : pc[c] \notin InDispatch \cup {"direct"}
    /\ \A t \in Threads : ~Popped(t) /\ ~InPhase(t, "rqs")

(* Requests issued one by one do not keep the next four while somebody     *)
(* quiesces the queue, or when two threads stage at once: see the README.  *)
Plugged ==
  \/ setup.paths = {"schedule"}
  \/ setup.paths = {"flush"} /\ setup.quiescers = {} /\ \E t \in Threads : setup.threads = {t}

(* A vNQ with requests in it is marked in run_cpumask, so that             *)
(* blk_mq_hctx_has_pending() and the dispatch loop see it.                 *)
StagedIsMarked == Plugged => \A i \in Cpus : staged[i] # {} => i \in mask

Running == (\E c \in Contexts : pc[c] # "idle") \/ \E t \in Threads : plug[t].phase # "none"

(* As long as requests wait, somebody is on the way: a context is running, *)
(* the work is queued, the queue is quiesced, or a completion to come will *)
(* restart the queue.                                                      *)
SomebodyRuns ==
  (Plugged /\ InHctx # {}) => work \/ Quiesced \/ Running \/ (restart /\ driver \ posted # {})

(* A request the driver accepted on the promise that more would follow has *)
(* a context that still owes the doorbell: one that has sent requests and  *)
(* not come to the end of its list.                                        *)
DoorbellOwed ==
  Plugged /\ posted # {} =>
    \/ \E c \in Contexts : loc[c].sent /\ pc[c] \in {"issue", "commit"}
    \/ \E t \in Threads : plug[t].sent

(* No request is forgotten: what is staged is marked, what waits has       *)
(* somebody on the way, and what was posted has its doorbell to come       *)
(* (blk-mq.c:2111, 2897, 3068).                                            *)
NoStall == StagedIsMarked /\ SomebodyRuns /\ DoorbellOwed

Unfinished == setup.requests \ ((Fresh \ InPlug) \cup done)

(* Every request of a flushed plug is issued, seen by the device, and      *)
(* completes.                                                              *)
PluggedComplete == (Plugged /\ Unfinished # {}) ~> Unfinished = {}
=============================================================================
