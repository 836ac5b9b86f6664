------------------------------ MODULE BlkFlush ------------------------------
(***************************************************************************)
(* Sequencing of PREFLUSH and FUA writes.  Every virtual NQ (an hctx and a *)
(* CPU) has a flush queue: requests wait in one of two lists for a flush   *)
(* that is common to them, while those of the other list wait for the      *)
(* flush under way; the roles of the lists swap.  The flush is a request   *)
(* of the queue's own that borrows a tag from one of those it is for, and  *)
(* walks over the tags (timeouts, cancellation) may hold a reference to it *)
(* while it ends.                                                          *)
(*                                                                         *)
(* The device is external: a flush command makes durable the writes that   *)
(* it had completed when the command was sent, a write with FUA is durable *)
(* when it completes.  Requests without data have PREFLUSH alone; there is *)
(* no elevator.                                                            *)
(***************************************************************************)
EXTENDS Integers, Sequences, FiniteSets, SequencesExt

CONSTANTS
  Rqs,      \* requests; the tag of a request goes by its name
  Fqs,      \* flush queues, and the flush requests they own
  FqOf,     \* the flush queue of each request
  Walkers,  \* contexts that walk over the tags
  Setups,   \* kinds of requests, what the device supports, how many commands fail and are
            \* tried again, how often each walker meets a flush request
  None

Steps == <<"pre", "data", "post">>
Items == Rqs \cup Fqs

ASSUME FlushAssumption ==
  /\ FqOf \in [Rqs -> Fqs] /\ Rqs \cap Fqs = {} /\ None \notin Items
  /\ IsFiniteSet(Walkers) /\ None \notin {"ok", "error"}
  /\ Setups \subseteq [kind : [Rqs -> {k \in [data : BOOLEAN, pre : BOOLEAN, fua : BOOLEAN] :
                                        IF k.data THEN TRUE ELSE k.pre /\ ~k.fua}],
                       cache : BOOLEAN, fua : BOOLEAN, errs : Nat, retries : Nat,
                       walks : [Walkers -> Nat]]

VARIABLES
  setup,
  fq,        \* the flush queues, each with its flush request
  seq,       \* rq->flush.seq, the steps a request has behind it
  result,    \* how a request was ended, None before
  requeue,   \* q->requeue_list
  bug,       \* a BUG_ON() was met (history)
  dispatch,  \* inserted requests, in any order (BlexDispatch)
  sent,      \* commands with the device
  listed,    \* tags->rqs
  held,      \* the flush request each walker has a reference to
  new,       \* requests not submitted yet
  durable,   \* writes on the medium, written ones are those ended besides
  cached,    \* writes in the device's cache
  snap,      \* what the flush command under way makes durable
  before,    \* the writes that had ended when a request was submitted (history)
  failed,    \* requests waiting for a flush when it failed (history)
  budget     \* failures, retries and walks left

queueVars  == <<fq, seq, result, requeue, bug, failed>>
deviceVars == <<durable, cached, snap>>
vars == <<setup, queueVars, dispatch, sent, listed, held, new, deviceVars, before, budget>>

-----------------------------------------------------------------------------
NoFlush  == [ref |-> 0, tag |-> None]
EmptyFq  == [list |-> [i \in {0, 1} |-> <<>>], pend |-> 0, run |-> 0, data |-> {}, old |-> FALSE,
             status |-> FALSE, rq |-> NoFlush]

InitWith(s) ==
  /\ setup = s
  /\ fq = [f \in Fqs |-> EmptyFq] /\ seq = [r \in Rqs |-> {}] /\ result = [r \in Rqs |-> None]
  /\ requeue = <<>> /\ bug = FALSE /\ failed = {}
  /\ dispatch = {} /\ sent = {} /\ listed = [r \in Rqs |-> None]
  /\ held = [w \in Walkers |-> None] /\ new = Rqs
  /\ durable = {} /\ cached = {} /\ snap = [f \in Fqs |-> {}] /\ before = [r \in Rqs |-> {}]
  /\ budget = [errs |-> s.errs, retries |-> s.retries, walks |-> s.walks]

Init == \E s \in Setups : InitWith(s)

(* blk_flush_policy() *)
Policy(r) ==
  LET k == setup.kind[r] IN
  {p \in ToSet(Steps) : \/ p = "data" /\ k.data
                        \/ p = "pre" /\ setup.cache /\ k.pre
                        \/ p = "post" /\ setup.cache /\ k.fua /\ ~setup.fua}

(* blk_flush_cur_seq(): the first step that is not done. *)
CurSeq[done \in SUBSET ToSet(Steps)] ==
  IF ToSet(Steps) \subseteq done THEN "done" ELSE Steps[Min({i \in DOMAIN Steps : Steps[i] \notin done})]

-----------------------------------------------------------------------------
(* The flush machinery changes a record S of queueVars, under the lock of  *)
(* one flush queue f.                                                      *)

Now == [fq |-> fq, seq |-> seq, result |-> result, requeue |-> requeue, bug |-> bug, failed |-> failed]
Become(R) ==   \* R is evaluated once
  \E S \in {R} : /\ fq' = S.fq /\ seq' = S.seq /\ result' = S.result /\ requeue' = S.requeue
                /\ bug' = S.bug /\ failed' = S.failed

(* Mutant of Idle: a flush is issued though one is under way. *)
IdleAlways(Q) == TRUE

(* C1: only one flush is in progress. *)
Idle(Q) == Q.pend = Q.run

(* C2 and C3: it waits for data in flight, but not for too long. *)
Undeferred(Q) == Q.data = {} \/ Q.old

(* blk_kick_flush() *)
Kick(S, f) ==
  LET Q == S.fq[f] IN
  IF ~Idle(Q) \/ Q.list[Q.pend] = <<>> \/ ~Undeferred(Q) THEN S
  ELSE [S EXCEPT !.fq[f] = [Q EXCEPT !.pend = 1 - @, !.rq = [ref |-> 1, tag |-> Head(Q.list[Q.pend])]],
                 !.requeue = Append(@, f)]

(* Mutant of Waiting: the request joins the flush under way. *)
WaitingRun(Q) == Q.run

Waiting(Q) == Q.pend

(* Mutant of Leave: data that was written still counts as in flight. *)
LeaveLists(Q, r) == [Q EXCEPT !.list[0] = RemoveFirst(@, r), !.list[1] = RemoveFirst(@, r)]

(* list_move_tail() and list_del_init() take a request off its list. *)
Leave(Q, r) == [Q EXCEPT !.list[0] = RemoveFirst(@, r), !.list[1] = RemoveFirst(@, r), !.data = @ \ {r}]

(* blk_flush_complete_seq(): a failed step ends the whole sequence. *)
CompleteSeq(S, f, r, steps, err) ==
  LET done == S.seq[r] \cup steps
      next == IF err THEN "done" ELSE CurSeq[done]
      Q == Leave(S.fq[f], r)
      T == [S EXCEPT !.bug = @ \/ S.seq[r] \cap steps # {}, !.seq[r] = done]
      U == CASE next \in {"pre", "post"} ->
                  [T EXCEPT !.fq[f] = [Q EXCEPT !.list[Waiting(Q)] = Append(@, r),
                                                !.old = @ /\ Q.list[Q.pend] # <<>>]]
             [] next = "data" ->
                  [T EXCEPT !.fq[f] = [Q EXCEPT !.data = @ \cup {r}], !.requeue = <<r>> \o @]
             [] next = "done" ->
                  [T EXCEPT !.fq[f] = Q, !.result[r] = IF err THEN "error" ELSE "ok"]
  IN Kick(U, f)

(* Mutant of LastRef: the references of walks are forgotten. *)
LastRefAny(Q) == TRUE

LastRef(Q) == Q.rq.ref = 1

(* "release the tag's ownership to the req cloned from" *)
TagReturned(Q) == None

(* flush_end_io(), by the completion or by a walk that puts its reference: *)
(* the last one passes on the requests that waited for the flush.          *)
FlushEndIo(S, f, err) ==
  LET Q == S.fq[f]
      failing == err \/ Q.status
      R == [Q EXCEPT !.rq = [ref |-> Q.rq.ref - 1, tag |-> TagReturned(Q)], !.status = FALSE, !.run = 1 - @]
      T == [S EXCEPT !.fq[f] = R, !.bug = @ \/ Q.pend = Q.run]
      Pass(U, r) == [CompleteSeq(U, f, r, {CurSeq[U.seq[r]]}, failing)
                       EXCEPT !.bug = @ \/ CurSeq[U.seq[r]] \notin {"pre", "post"}]
  IN IF ~LastRef(Q)
     THEN [S EXCEPT !.fq[f].rq.ref = @ - 1, !.fq[f].status = err]
     ELSE FoldLeft(Pass, T, Q.list[Q.run])

-----------------------------------------------------------------------------
(* Actions.                                                                *)

Ended == {r \in Rqs : result[r] = "ok"}

(* blk_mq_submit_bio() and blk_insert_flush(): a write that needs no flush *)
(* is inserted as it is, one that needs nothing at all is ended.           *)
Submit(r) ==
  LET k == setup.kind[r] IN
  /\ r \in new
  /\ new' = new \ {r} /\ before' = [before EXCEPT ![r] = {s \in Ended : setup.kind[s].data}]
  /\ CASE Policy(r) = {} -> /\ result' = [result EXCEPT ![r] = "ok"]
                            /\ UNCHANGED <<fq, seq, requeue, bug, failed, dispatch>>
       [] Policy(r) = {"data"} -> dispatch' = dispatch \cup {r} /\ UNCHANGED queueVars
       [] OTHER -> /\ Become(CompleteSeq(Now, FqOf[r], r, ToSet(Steps) \ Policy(r), FALSE))
                   /\ UNCHANGED dispatch
  /\ UNCHANGED <<setup, sent, listed, held, deviceVars, budget>>

(* blk_mq_requeue_work() *)
RequeueWork ==
  /\ requeue # <<>>
  /\ dispatch' = dispatch \cup ToSet(requeue) /\ requeue' = <<>>
  /\ UNCHANGED <<setup, fq, seq, result, bug, failed, sent, listed, held, new, deviceVars, before, budget>>

TagOf(x) == IF x \in Fqs THEN fq[x].rq.tag ELSE x

(* The request enters tags->rqs and its command is sent. *)
Issue(x) ==
  /\ x \in dispatch
  /\ dispatch' = dispatch \ {x} /\ sent' = sent \cup {x}
  /\ listed' = [listed EXCEPT ![TagOf(x)] = x]
  /\ snap' = IF x \in Fqs THEN [snap EXCEPT ![x] = cached] ELSE snap
  /\ UNCHANGED <<setup, queueVars, held, new, durable, cached, before, budget>>

(* What a command that succeeds has done. *)
Performed(x) ==
  IF x \in Fqs THEN durable' = durable \cup snap[x] /\ UNCHANGED cached
  ELSE /\ cached' = cached \cup {x}
       /\ durable' = IF setup.cache /\ ~(setup.kind[x].fua /\ setup.fua) THEN durable ELSE durable \cup {x}

(* The end of a request or of a step of it. *)
EndRequest(x, err) ==
  IF x \in Fqs
  THEN LET S == FlushEndIo(Now, x, err)
       IN Become([S EXCEPT !.failed = IF err THEN @ \cup ToSet(fq[x].list[fq[x].run]) ELSE @])
  ELSE IF Policy(x) \cap {"pre", "post"} # {}
  THEN Become(CompleteSeq(Now, FqOf[x], x, {"data"}, err))
  ELSE /\ result' = [result EXCEPT ![x] = IF err THEN "error" ELSE "ok"]
       /\ UNCHANGED <<fq, seq, requeue, bug, failed>>

Complete(x) ==
  /\ x \in sent
  /\ sent' = sent \ {x}
  /\ Performed(x) /\ EndRequest(x, FALSE)
  /\ UNCHANGED <<setup, dispatch, listed, held, new, snap, before, budget>>

(* A command that fails, or is cancelled, ... *)
Fail(x) ==
  /\ x \in sent /\ budget.errs > 0
  /\ sent' = sent \ {x} /\ budget' = [budget EXCEPT !.errs = @ - 1]
  /\ EndRequest(x, TRUE)
  /\ UNCHANGED <<setup, dispatch, listed, held, new, deviceVars, before>>

(* ... or is tried again: blk_mq_requeue_request(). *)
Retry(x) ==
  /\ x \in sent /\ budget.retries > 0
  /\ sent' = sent \ {x} /\ budget' = [budget EXCEPT !.retries = @ - 1]
  /\ requeue' = <<x>> \o requeue
  /\ UNCHANGED <<setup, fq, seq, result, bug, failed, dispatch, listed, held, new, deviceVars, before>>

(* A walk meets the flush request under the tag it borrowed ... *)
Meet(w, f) ==
  /\ held[w] = None /\ budget.walks[w] > 0
  /\ fq[f].rq.tag # None /\ fq[f].rq.ref > 0
  /\ listed[fq[f].rq.tag] = f
  /\ fq' = [fq EXCEPT ![f].rq.ref = @ + 1]
  /\ held' = [held EXCEPT ![w] = f] /\ budget' = [budget EXCEPT !.walks[w] = @ - 1]
  /\ UNCHANGED <<setup, seq, result, requeue, bug, failed, dispatch, sent, listed, new, deviceVars, before>>

(* ... and puts its reference with blk_mq_put_rq_ref(). *)
Put(w) ==
  /\ held[w] # None
  /\ Become(FlushEndIo(Now, held[w], FALSE))
  /\ held' = [held EXCEPT ![w] = None]
  /\ UNCHANGED <<setup, dispatch, sent, listed, new, deviceVars, before, budget>>

(* FLUSH_PENDING_TIMEOUT passes; nothing happens until the next kick. *)
Age(f) ==
  /\ fq[f].list[fq[f].pend] # <<>> /\ ~fq[f].old
  /\ fq' = [fq EXCEPT ![f].old = TRUE]
  /\ UNCHANGED <<setup, seq, result, requeue, bug, failed, dispatch, sent, listed, held, new,
                 deviceVars, before, budget>>

Next ==
  \/ \E r \in Rqs : Submit(r)
  \/ RequeueWork
  \/ \E x \in Items : Issue(x) \/ Complete(x) \/ Fail(x) \/ Retry(x)
  \/ \E w \in Walkers : Put(w) \/ \E f \in Fqs : Meet(w, f)
  \/ \E f \in Fqs : Age(f)

(* Work items run, the device answers and walks go on; none of it repeats  *)
(* for ever, so that one condition stands for a condition on each.         *)
Fairness == WF_vars(RequeueWork \/ (\E w \in Walkers : Put(w)) \/ (\E x \in Items : Issue(x) \/ Complete(x)))

Spec == Init /\ [][Next]_vars /\ Fairness

-----------------------------------------------------------------------------
(* Properties.                                                             *)

Pending(f) == fq[f].rq.tag # None

(* Every variable has its type, and a request is in one place at a time. *)
TypeOK ==
  /\ setup \in Setups
  /\ \A f \in Fqs : /\ fq[f].pend \in {0, 1} /\ fq[f].run \in {0, 1}
                    /\ fq[f].rq.ref \in 0 .. 1 + Cardinality(Walkers)
                    /\ fq[f].rq.tag \in Rqs \cup {None}
  /\ seq \in [Rqs -> SUBSET ToSet(Steps)] /\ result \in [Rqs -> {"ok", "error", None}]
  /\ dispatch \subseteq Items /\ sent \subseteq Items /\ IsInjective(requeue)
  /\ dispatch \cap sent = {} /\ ToSet(requeue) \cap (dispatch \cup sent) = {}
  /\ held \in [Walkers -> Fqs \cup {None}]

(* The two lists never mix: no step is completed twice, a flush that ends  *)
(* finds only requests that waited for it, and none ends that is not under *)
(* way (the BUG_ON()s of blk-flush.c).                                     *)
NoMix == ~bug

(* Nothing is sent under the tag that a flush has borrowed but the flush:  *)
(* its lender waits in the running list ("they can't be in flight at the   *)
(* same time", blk-flush.c:350).                                           *)
LenderWaits ==
  \A f \in Fqs : Pending(f) =>
    /\ fq[f].rq.tag \in ToSet(fq[f].list[fq[f].run])
    /\ fq[f].rq.tag \notin dispatch \cup sent \cup ToSet(requeue)
    /\ result[fq[f].rq.tag] = None

(* Every variable has its type, the two lists keep apart, and a flush      *)
(* borrows no tag in use (blk-flush.c:223, 322).                           *)
ListsKeepApart == TypeOK /\ NoMix /\ LenderWaits

(* A flush request is not set up again while a walk still works on it, and *)
(* its references are the walks' and its own.                              *)
WalkedFlushStays ==
  \A f \in Fqs :
    LET walks == Cardinality({w \in Walkers : held[w] = f})
        own   == IF f \in dispatch \cup sent \cup ToSet(requeue) THEN 1 ELSE 0
    IN fq[f].rq.ref = walks + own

(* The data of a request with PREFLUSH is not written before everything    *)
(* that had ended at its submission is on the medium, also what ended      *)
(* while an earlier flush was under way (blk-flush.c:15).                  *)
DataAfterFlush ==
  \A r \in Rqs : "pre" \in Policy(r) /\ r \in dispatch \cup sent \cup cached => before[r] \subseteq durable

(* A request that ended well kept its promise: what ended before a         *)
(* PREFLUSH, and the data of a FUA write, are on the medium.               *)
PromiseKept ==
  \A r \in Ended :
    /\ setup.kind[r].pre => before[r] \subseteq durable
    /\ setup.kind[r].fua => r \in durable

(* Flushes and FUA writes order writes to the medium as submitters rely on,*)
(* however steps of many requests share a flush (blk-flush.c:1, 322).      *)
EndedIsDurable == DataAfterFlush /\ PromiseKept

(* Every request that was submitted ends, whoever waits for whose flush. *)
EveryFlushEnds == []<>(\A r \in Rqs \ new : result[r] # None)

(* A request whose flush failed does not end well: REQ_FUA "means that the *)
(* data must be on non-volatile media on request completion"               *)
(* (blk-flush.c:16), and a PREFLUSH likewise for what came before.  With   *)
(* two walks on one flush it can: the walk that puts its reference first   *)
(* overwrites the status that the completion left (blk-flush.c:262).       *)
FailureIsReported == \A r \in failed : result[r] # "ok"
=============================================================================
