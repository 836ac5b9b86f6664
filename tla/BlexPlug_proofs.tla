-------------------------- MODULE BlexPlug_proofs --------------------------
(***************************************************************************)
(* Proofs about dispatch and plug flushes, for any number of CPUs, threads *)
(* and quiescers, any requests and any workload: type correctness, that no *)
(* request is dispatched on a quiesced queue, that each is in one place    *)
(* and issued once, and that none is forgotten on its way.                 *)
(***************************************************************************)
EXTENDS BlexPlug, WellFoundedInduction, FiniteSetTheorems, TLAPS

Flushes == [phase : {"none", "rqs", "each", "each_end", "groups", "list", "list_end", "insert"},
            list : SUBSET Requests, batch : SUBSET Requests, rq : Requests \cup {None},
            async : BOOLEAN, sent : BOOLEAN, failed : BOOLEAN]
Locals  == [rq : Requests \cup {None}, batch : SUBSET Requests, cpu : Nat, again : BOOLEAN,
            rcu : BOOLEAN, run : {"none", "sync", "async"}, sent : BOOLEAN, failed : BOOLEAN]

(* The types of requests' whereabouts, and of the contexts. *)
ListsTyped ==
  /\ staged \in [Cpus -> SUBSET Requests] /\ mask \subseteq Cpus
  /\ dispatch \subseteq Requests /\ done \subseteq Requests
  /\ driver \subseteq Requests /\ posted \subseteq driver
BoundsTyped ==
  /\ restart \in BOOLEAN /\ work \in BOOLEAN
  /\ depth \in Nat /\ waits \in [Quiescers -> SUBSET Contexts]
  /\ busy \in 0 .. setup.busy /\ rounds \in 0 .. setup.rounds
ContextsTyped == pc \in [Contexts -> Places] /\ loc \in [Contexts -> Locals]
HandTyped ==
  \A c \in Contexts : pc[c] \in {"direct", "mark", "stage"} => loc[c].rq \in Requests

(* TypeOK says nothing of what a context that stages or issues has in its  *)
(* hand.                                                                   *)
Typed ==
  /\ setup.busy \in Nat /\ setup.rounds \in Nat /\ CpuOf \in [Requests -> Cpus]
  /\ setup.threads \subseteq Threads /\ setup.quiescers \subseteq Quiescers
  /\ ListsTyped /\ BoundsTyped /\ ContextsTyped /\ HandTyped
  /\ plug \in [Threads -> Flushes]

-----------------------------------------------------------------------------
LEMMA ContextTypes ==
  /\ Threads \subseteq Contexts /\ Quiescers \subseteq Contexts
  /\ "worker" \in Contexts /\ "irq" \in Contexts
  /\ "worker" \notin Quiescers /\ "irq" \notin Quiescers
  /\ "worker" \notin Threads /\ "irq" \notin Threads
  /\ Threads \cap Quiescers = {} /\ None \notin Requests
  /\ Cpus \subseteq Nat /\ IsFiniteSet(Cpus)
  BY DispatchAssumption DEF DispatchAssumption, Contexts

LEMMA LocTypes ==
  /\ NoLoc \in Locals /\ NoFlush \in Flushes
  BY DEF NoLoc, NoFlush, Locals, Flushes

LEMMA MinIsMember ==
  ASSUME NEW S \in SUBSET Nat, S # {}
  PROVE  Min(S) \in S
  <1>1. PICK x \in S : \A y \in S : <<y, x>> \notin OpToRel(<, Nat)
    BY WFMin, NatLessThanWellFounded, Zenon
  <1>2. \A y \in S : ~(y < x)
    BY <1>1 DEF OpToRel
  <1>3. \A y \in S : x =< y
    BY <1>2
  <1> QED
    BY <1>3 DEF Min

LEMMA TypedMeans == Typed => PlugTypeOK
  BY DEF Typed, ListsTyped, BoundsTyped, ContextsTyped, PlugTypeOK, TypeOK, Locals, Flushes

-----------------------------------------------------------------------------
(* Type correctness, action by action. *)

LEMMA SetupTypes ==
  ASSUME setup \in Setup
  PROVE  /\ setup.busy \in Nat /\ setup.rounds \in Nat /\ CpuOf \in [Requests -> Cpus]
         /\ setup.threads \subseteq Threads /\ setup.quiescers \subseteq Quiescers
  BY DEF Setup, CpuOf

LEMMA TypedInit == PlugInit => Typed
  <1> SUFFICES ASSUME PlugInit PROVE Typed
    OBVIOUS
  <1>1. setup \in Setup
    BY DispatchAssumption DEF DispatchAssumption, PlugInit, Init
  <1>2. ListsTyped
    BY DEF PlugInit, Init, ListsTyped
  <1>3. BoundsTyped
    <2>1. setup.busy \in Nat /\ setup.rounds \in Nat
      BY <1>1, SetupTypes
    <2>2. busy \in 0 .. setup.busy /\ rounds \in 0 .. setup.rounds
      BY <2>1 DEF PlugInit, Init
    <2> QED
      BY <2>2 DEF PlugInit, Init, BoundsTyped
  <1>4. ContextsTyped
    BY LocTypes DEF PlugInit, Init, ContextsTyped, Places
  <1>5. HandTyped
    BY DEF PlugInit, Init, HandTyped
  <1> QED
    BY <1>1, <1>2, <1>3, <1>4, <1>5, LocTypes, SetupTypes DEF PlugInit, Typed

(* What contexts do to their locals. *)
LEMMA ResetTyped ==
  ASSUME NEW L \in [Contexts -> Locals], NEW c \in Contexts
  PROVE  [L EXCEPT ![c] = NoLoc] \in [Contexts -> Locals]
  BY LocTypes

LEMMA RqTyped ==
  ASSUME NEW L \in [Contexts -> Locals], NEW c \in Contexts
  PROVE  [L EXCEPT ![c].rq = None] \in [Contexts -> Locals]
  BY DEF Locals

LEMMA HandOverTyped ==
  ASSUME NEW L \in [Contexts -> Locals], NEW c \in Contexts, NEW r \in Requests
  PROVE  [L EXCEPT ![c].rq = r, ![c].rcu = TRUE] \in [Contexts -> Locals]
  <1>1. [L[c] EXCEPT !.rq = r, !.rcu = TRUE] \in Locals
    BY DEF Locals
  <1> QED
    BY <1>1

LEMMA BypassTyped ==
  ASSUME NEW L \in [Contexts -> Locals], NEW c \in Contexts, NEW r \in Requests, NEW b
  PROVE  [L EXCEPT ![c].rq = r, ![c].run = IF b THEN "sync" ELSE "none"] \in [Contexts -> Locals]
  <1>1. [L[c] EXCEPT !.rq = r, !.run = IF b THEN "sync" ELSE "none"] \in Locals
    BY DEF Locals
  <1> QED
    BY <1>1

LEMMA RcuTyped ==
  ASSUME NEW L \in [Contexts -> Locals], NEW c \in Contexts
  PROVE  /\ [L EXCEPT ![c].rcu = TRUE] \in [Contexts -> Locals]
         /\ [L EXCEPT ![c].rcu = FALSE] \in [Contexts -> Locals]
  BY DEF Locals

LEMMA RunTyped ==
  ASSUME NEW L \in [Contexts -> Locals], NEW c \in Contexts
  PROVE  /\ [L EXCEPT ![c].run = "sync"] \in [Contexts -> Locals]
         /\ [L EXCEPT ![c].run = "async"] \in [Contexts -> Locals]
  BY DEF Locals

LEMMA AgainTyped ==
  ASSUME NEW L \in [Contexts -> Locals], NEW c \in Contexts
  PROVE  [L EXCEPT ![c].again = TRUE] \in [Contexts -> Locals]
  BY DEF Locals

LEMMA BatchTyped ==
  ASSUME NEW L \in [Contexts -> Locals], NEW c \in Contexts
  PROVE  [L EXCEPT ![c].batch = {}] \in [Contexts -> Locals]
  <1>1. [L[c] EXCEPT !.batch = {}] \in Locals
    BY DEF Locals
  <1> QED
    BY <1>1

LEMMA CollectTyped ==
  ASSUME NEW L \in [Contexts -> Locals], NEW c \in Contexts,
         NEW R \in SUBSET Requests, NEW i \in Nat
  PROVE  [L EXCEPT ![c].batch = @ \cup R, ![c].cpu = i] \in [Contexts -> Locals]
  <1>1. [L[c] EXCEPT !.batch = @ \cup R, !.cpu = i] \in Locals
    BY DEF Locals
  <1> QED
    BY <1>1

LEMMA GrabTyped ==
  ASSUME NEW L \in [Contexts -> Locals], NEW c \in Contexts, NEW R \in SUBSET Requests
  PROVE  [L EXCEPT ![c].batch = R, ![c].cpu = 0, ![c].sent = FALSE, ![c].failed = FALSE]
           \in [Contexts -> Locals]
  <1>1. [L[c] EXCEPT !.batch = R, !.cpu = 0, !.sent = FALSE, !.failed = FALSE] \in Locals
    BY DEF Locals
  <1> QED
    BY <1>1

LEMMA IssueTyped ==
  ASSUME NEW L \in [Contexts -> Locals], NEW c \in Contexts, NEW r
  PROVE  /\ [L EXCEPT ![c].batch = @ \ {r}, ![c].sent = TRUE] \in [Contexts -> Locals]
         /\ [L EXCEPT ![c].batch = @ \ {r}, ![c].failed = TRUE] \in [Contexts -> Locals]
  <1>1. /\ [L[c] EXCEPT !.batch = @ \ {r}, !.sent = TRUE] \in Locals
        /\ [L[c] EXCEPT !.batch = @ \ {r}, !.failed = TRUE] \in Locals
    BY DEF Locals
  <1> QED
    BY <1>1

LEMMA QueueDirectlyKeepsTypes ==
  ASSUME Typed, UNCHANGED <<setup, plug>>, NEW c \in Contexts, QueueDirectly(c)
  PROVE  Typed'
  <1>1. loc' \in [Contexts -> Locals]
    BY BypassTyped, ResetTyped DEF QueueDirectly, Accepted, Failed, Refused, BypassInsert, Finish, Typed, ListsTyped, ContextsTyped, HandTyped, At
  <1>2. pc' \in [Contexts -> Places]
    BY DEF QueueDirectly, Accepted, Failed, Refused, BypassInsert, Goto, Finish, Places, InDispatch, Typed, ContextsTyped
  <1>3. HandTyped'
    <2>0. loc[c] \in Locals
      BY DEF Typed, ContextsTyped
    <2>1. \/ pc' = [pc EXCEPT ![c] = "idle"]
          \/ loc' = [loc EXCEPT ![c].rq = loc[c].rq, ![c].run = "sync"]
      BY DEF QueueDirectly, BypassInsert, Goto, Finish
    <2>2. loc'[c].rq = loc[c].rq \/ pc'[c] = "idle"
      BY <2>0, <2>1 DEF Typed, ContextsTyped, Locals
    <2> QED
      BY <2>2 DEF QueueDirectly, BypassInsert, Goto, Finish, At, Typed, ContextsTyped, HandTyped
  <1>4. ListsTyped'
    BY DEF QueueDirectly, Accepted, Failed, Refused, BypassInsert, At, Typed, ListsTyped, ContextsTyped, HandTyped, Locals
  <1>5. BoundsTyped'
    BY DEF QueueDirectly, Accepted, Failed, Refused, BypassInsert, Typed, BoundsTyped
  <1> QED
    BY <1>1, <1>2, <1>3, <1>4, <1>5 DEF Typed, ContextsTyped, CpuOf

LEMMA MarkCpuKeepsTypes ==
  ASSUME Typed, UNCHANGED <<setup, plug>>, NEW c \in Contexts, MarkCpu(c)
  PROVE  Typed'
  <1>1. loc' \in [Contexts -> Locals]
    BY DEF MarkCpu, Finish, Typed, ListsTyped, ContextsTyped, HandTyped, At
  <1>2. pc' \in [Contexts -> Places]
    BY DEF MarkCpu, Goto, Finish, Places, InDispatch, Typed, ContextsTyped
  <1>3. HandTyped'
    BY DEF MarkCpu, Goto, Finish, At, Typed, ContextsTyped, HandTyped
  <1>4. ListsTyped'
    BY DEF MarkCpu, At, Typed, ListsTyped, ContextsTyped, HandTyped, Locals
  <1>5. BoundsTyped'
    BY DEF MarkCpu, Typed, BoundsTyped
  <1> QED
    BY <1>1, <1>2, <1>3, <1>4, <1>5 DEF Typed, ContextsTyped, CpuOf

LEMMA StageKeepsTypes ==
  ASSUME Typed, UNCHANGED <<setup, plug>>, NEW c \in Contexts, Stage(c)
  PROVE  Typed'
  <1>1. loc' \in [Contexts -> Locals]
    BY RqTyped, ResetTyped DEF Stage, Finish, Typed, ListsTyped, ContextsTyped, HandTyped, At
  <1>2. pc' \in [Contexts -> Places]
    BY DEF Stage, Goto, Finish, Places, InDispatch, Typed, ContextsTyped
  <1>3. HandTyped'
    BY DEF Stage, Goto, Finish, At, Typed, ContextsTyped, HandTyped
  <1>4. ListsTyped'
    BY DEF Stage, At, Typed, ListsTyped, ContextsTyped, HandTyped, Locals
  <1>5. BoundsTyped'
    BY DEF Stage, Typed, BoundsTyped
  <1> QED
    BY <1>1, <1>2, <1>3, <1>4, <1>5 DEF Typed, ContextsTyped, CpuOf

LEMMA RunCheckDispatchKeepsTypes ==
  ASSUME Typed, UNCHANGED <<setup, plug>>, NEW c \in Contexts, RunCheckDispatch(c)
  PROVE  Typed'
  <1>1. loc' \in [Contexts -> Locals]
    BY ResetTyped DEF RunCheckDispatch, NeedRun, Finish, Typed, ListsTyped, ContextsTyped, HandTyped, At
  <1>2. pc' \in [Contexts -> Places]
    BY DEF RunCheckDispatch, NeedRun, Goto, Finish, Places, InDispatch, Typed, ContextsTyped
  <1>3. HandTyped'
    BY DEF RunCheckDispatch, NeedRun, Goto, Finish, At, Typed, ContextsTyped, HandTyped
  <1>4. ListsTyped'
    BY DEF RunCheckDispatch, NeedRun, At, Typed, ListsTyped, ContextsTyped, HandTyped, Locals
  <1>5. BoundsTyped'
    BY DEF RunCheckDispatch, NeedRun, Typed, BoundsTyped
  <1> QED
    BY <1>1, <1>2, <1>3, <1>4, <1>5 DEF Typed, ContextsTyped, CpuOf

LEMMA RunCheckMaskKeepsTypes ==
  ASSUME Typed, UNCHANGED <<setup, plug>>, NEW c \in Contexts, RunCheckMask(c)
  PROVE  Typed'
  <1>1. loc' \in [Contexts -> Locals]
    BY ResetTyped DEF RunCheckMask, NeedRun, Finish, Typed, ListsTyped, ContextsTyped, HandTyped, At
  <1>2. pc' \in [Contexts -> Places]
    BY DEF RunCheckMask, NeedRun, Goto, Finish, Places, InDispatch, Typed, ContextsTyped
  <1>3. HandTyped'
    BY DEF RunCheckMask, NeedRun, Goto, Finish, At, Typed, ContextsTyped, HandTyped
  <1>4. ListsTyped'
    BY DEF RunCheckMask, NeedRun, At, Typed, ListsTyped, ContextsTyped, HandTyped, Locals
  <1>5. BoundsTyped'
    BY DEF RunCheckMask, NeedRun, Typed, BoundsTyped
  <1> QED
    BY <1>1, <1>2, <1>3, <1>4, <1>5 DEF Typed, ContextsTyped, CpuOf

LEMMA EnterKeepsTypes ==
  ASSUME Typed, UNCHANGED <<setup, plug>>, NEW c \in Contexts, Enter(c)
  PROVE  Typed'
  <1>1. loc' \in [Contexts -> Locals]
    <2>1. loc' = [loc EXCEPT ![c] = NoLoc] \/ loc' = [loc EXCEPT ![c].rcu = TRUE]
      BY DEF Enter, Finish
    <2>2. [loc EXCEPT ![c].rcu = TRUE] \in [Contexts -> Locals]
      BY RcuTyped DEF Typed, ContextsTyped
    <2>3. [loc EXCEPT ![c] = NoLoc] \in [Contexts -> Locals]
      BY ResetTyped DEF Typed, ContextsTyped
    <2> QED
      BY <2>1, <2>2, <2>3 DEF Typed, ContextsTyped
  <1>2. pc' \in [Contexts -> Places]
    BY DEF Enter, Goto, Finish, Places, InDispatch, Typed, ContextsTyped
  <1>3. HandTyped'
    BY DEF Enter, Goto, Finish, At, Typed, ContextsTyped, HandTyped
  <1>4. ListsTyped'
    BY DEF Enter, At, Typed, ListsTyped, ContextsTyped, HandTyped, Locals
  <1>5. BoundsTyped'
    BY DEF Enter, Typed, BoundsTyped
  <1> QED
    BY <1>1, <1>2, <1>3, <1>4, <1>5 DEF Typed, ContextsTyped, CpuOf

LEMMA GrabKeepsTypes ==
  ASSUME Typed, UNCHANGED <<setup, plug>>, NEW c \in Contexts, Grab(c)
  PROVE  Typed'
  <1>1. loc' \in [Contexts -> Locals]
    BY GrabTyped DEF Grab, Finish, Typed, ListsTyped, ContextsTyped, HandTyped, At
  <1>2. pc' \in [Contexts -> Places]
    BY DEF Grab, Goto, Finish, Places, InDispatch, Typed, ContextsTyped
  <1>3. HandTyped'
    BY DEF Grab, Goto, Finish, At, Typed, ContextsTyped, HandTyped
  <1>4. ListsTyped'
    BY DEF Grab, At, Typed, ListsTyped, ContextsTyped, HandTyped, Locals
  <1>5. BoundsTyped'
    BY DEF Grab, Typed, BoundsTyped
  <1> QED
    BY <1>1, <1>2, <1>3, <1>4, <1>5 DEF Typed, ContextsTyped, CpuOf

LEMMA CollectEndKeepsTypes ==
  ASSUME Typed, UNCHANGED <<setup, plug>>, NEW c \in Contexts, CollectEnd(c)
  PROVE  Typed'
  <1>1. loc' \in [Contexts -> Locals]
    BY ResetTyped DEF CollectEnd, Finish, Typed, ListsTyped, ContextsTyped, HandTyped, At
  <1>2. pc' \in [Contexts -> Places]
    BY DEF CollectEnd, Goto, Finish, Places, InDispatch, Typed, ContextsTyped
  <1>3. HandTyped'
    BY DEF CollectEnd, Goto, Finish, At, Typed, ContextsTyped, HandTyped
  <1>4. ListsTyped'
    BY DEF CollectEnd, At, Typed, ListsTyped, ContextsTyped, HandTyped, Locals
  <1>5. BoundsTyped'
    BY DEF CollectEnd, Typed, BoundsTyped
  <1> QED
    BY <1>1, <1>2, <1>3, <1>4, <1>5 DEF Typed, ContextsTyped, CpuOf

LEMMA CommitKeepsTypes ==
  ASSUME Typed, UNCHANGED <<setup, plug>>, NEW c \in Contexts, Commit(c)
  PROVE  Typed'
  <1>1. loc' \in [Contexts -> Locals]
    BY DEF Commit, CommitRqs, AfterIssue, Finish, Typed, ListsTyped, ContextsTyped, HandTyped, At
  <1>2. pc' \in [Contexts -> Places]
    BY DEF Commit, CommitRqs, AfterIssue, Goto, Finish, Places, InDispatch, Typed, ContextsTyped
  <1>3. HandTyped'
    BY DEF Commit, CommitRqs, AfterIssue, Goto, Finish, At, Typed, ContextsTyped, HandTyped
  <1>4. ListsTyped'
    BY DEF Commit, CommitRqs, AfterIssue, At, Typed, ListsTyped, ContextsTyped, HandTyped, Locals
  <1>5. BoundsTyped'
    BY DEF Commit, CommitRqs, AfterIssue, Typed, BoundsTyped
  <1> QED
    BY <1>1, <1>2, <1>3, <1>4, <1>5 DEF Typed, ContextsTyped, CpuOf

LEMMA PutBackKeepsTypes ==
  ASSUME Typed, UNCHANGED <<setup, plug>>, NEW c \in Contexts, PutBack(c)
  PROVE  Typed'
  <1>1. loc' \in [Contexts -> Locals]
    BY BatchTyped DEF PutBack, Finish, Typed, ListsTyped, ContextsTyped, HandTyped, At
  <1>2. pc' \in [Contexts -> Places]
    BY DEF PutBack, Goto, Finish, Places, InDispatch, Typed, ContextsTyped
  <1>3. HandTyped'
    BY DEF PutBack, Goto, Finish, At, Typed, ContextsTyped, HandTyped
  <1>4. ListsTyped'
    BY DEF PutBack, At, Typed, ListsTyped, ContextsTyped, HandTyped, Locals
  <1>5. BoundsTyped'
    BY DEF PutBack, Typed, BoundsTyped
  <1> QED
    BY <1>1, <1>2, <1>3, <1>4, <1>5 DEF Typed, ContextsTyped, CpuOf

LEMMA RerunKeepsTypes ==
  ASSUME Typed, UNCHANGED <<setup, plug>>, NEW c \in Contexts, Rerun(c)
  PROVE  Typed'
  <1>1. loc' \in [Contexts -> Locals]
    <2>1. loc' = [loc EXCEPT ![c] = NoLoc] \/ loc' = [loc EXCEPT ![c].run = "async"]
      BY DEF Rerun, Finish
    <2>2. [loc EXCEPT ![c] = NoLoc] \in [Contexts -> Locals]
      BY ResetTyped DEF Typed, ContextsTyped
    <2>3. [loc EXCEPT ![c].run = "async"] \in [Contexts -> Locals]
      BY RunTyped DEF Typed, ContextsTyped
    <2> QED
      BY <2>1, <2>2, <2>3 DEF Typed, ContextsTyped
  <1>2. pc' \in [Contexts -> Places]
    BY DEF Rerun, Goto, Finish, Places, InDispatch, Typed, ContextsTyped
  <1>3. HandTyped'
    BY DEF Rerun, Goto, Finish, At, Typed, ContextsTyped, HandTyped
  <1>4. ListsTyped'
    BY DEF Rerun, At, Typed, ListsTyped, ContextsTyped, HandTyped, Locals
  <1>5. BoundsTyped'
    BY DEF Rerun, Typed, BoundsTyped
  <1> QED
    BY <1>1, <1>2, <1>3, <1>4, <1>5 DEF Typed, ContextsTyped, CpuOf

LEMMA LookAgainKeepsTypes ==
  ASSUME Typed, UNCHANGED <<setup, plug>>, NEW c \in Contexts, LookAgain(c)
  PROVE  Typed'
  <1>1. loc' \in [Contexts -> Locals]
    <2>1. loc' = [loc EXCEPT ![c] = NoLoc] \/ loc' = [loc EXCEPT ![c].run = "async"] \/ loc' = [loc EXCEPT ![c].again = TRUE]
      BY DEF LookAgain, Finish
    <2>2. [loc EXCEPT ![c] = NoLoc] \in [Contexts -> Locals]
      BY ResetTyped DEF Typed, ContextsTyped
    <2>3. [loc EXCEPT ![c].run = "async"] \in [Contexts -> Locals]
      BY RunTyped DEF Typed, ContextsTyped
    <2>4. [loc EXCEPT ![c].again = TRUE] \in [Contexts -> Locals]
      BY AgainTyped DEF Typed, ContextsTyped
    <2> QED
      BY <2>1, <2>2, <2>3, <2>4 DEF Typed, ContextsTyped
  <1>2. pc' \in [Contexts -> Places]
    BY DEF LookAgain, Goto, Finish, Places, InDispatch, Typed, ContextsTyped
  <1>3. HandTyped'
    BY DEF LookAgain, Goto, Finish, At, Typed, ContextsTyped, HandTyped
  <1>4. ListsTyped'
    BY DEF LookAgain, At, Typed, ListsTyped, ContextsTyped, HandTyped, Locals
  <1>5. BoundsTyped'
    BY DEF LookAgain, Typed, BoundsTyped
  <1> QED
    BY <1>1, <1>2, <1>3, <1>4, <1>5 DEF Typed, ContextsTyped, CpuOf

LEMMA IssueDirectlyKeepsTypes ==
  ASSUME Typed, UNCHANGED <<setup, plug>>, NEW c \in setup.threads, NEW r \in Requests, IssueDirectly(c, r)
  PROVE  Typed'
  <1>0. c \in Contexts
    BY ContextTypes DEF Typed
  <1>1. loc' \in [Contexts -> Locals]
    <2>1. loc \in [Contexts -> Locals] /\ loc' = [loc EXCEPT ![c].rq = r, ![c].rcu = TRUE]
      BY DEF IssueDirectly, Typed, ContextsTyped
    <2> QED
      BY <1>0, <2>1, HandOverTyped
  <1>2. pc' \in [Contexts -> Places]
    BY <1>0 DEF IssueDirectly, Goto, Finish, Places, InDispatch, Typed, ContextsTyped
  <1>3. HandTyped'
    <2>1. loc'[c].rq = r
      BY <1>0 DEF IssueDirectly, Typed, ContextsTyped, Locals
    <2> QED
      BY <1>0, <2>1 DEF IssueDirectly, Goto, Typed, ContextsTyped, HandTyped
  <1>4. ListsTyped'
    BY <1>0 DEF IssueDirectly, At, Typed, ListsTyped, ContextsTyped, HandTyped, Locals
  <1>5. BoundsTyped'
    BY <1>0 DEF IssueDirectly, Typed, BoundsTyped
  <1> QED
    BY <1>1, <1>2, <1>3, <1>4, <1>5 DEF Typed, ContextsTyped, CpuOf

LEMMA WorkStartKeepsTypes ==
  ASSUME Typed, UNCHANGED <<setup, plug>>, WorkStart
  PROVE  Typed'
  <1>1. loc' \in [Contexts -> Locals]
    BY ContextTypes DEF WorkStart, Finish, Typed, ListsTyped, ContextsTyped, HandTyped, At
  <1>2. pc' \in [Contexts -> Places]
    BY ContextTypes DEF WorkStart, Goto, Finish, Places, InDispatch, Typed, ContextsTyped
  <1>3. HandTyped'
    BY ContextTypes DEF WorkStart, Goto, Finish, At, Typed, ContextsTyped, HandTyped
  <1>4. ListsTyped'
    BY ContextTypes DEF WorkStart, At, Typed, ListsTyped, ContextsTyped, HandTyped, Locals
  <1>5. BoundsTyped'
    BY ContextTypes DEF WorkStart, Typed, BoundsTyped
  <1> QED
    BY <1>1, <1>2, <1>3, <1>4, <1>5 DEF Typed, ContextsTyped, CpuOf

LEMMA IssueKeepsTypes ==
  ASSUME Typed, UNCHANGED <<setup, plug>>, NEW c \in Contexts, NEW r \in Requests, Issue(c, r)
  PROVE  Typed'
  <1>1. loc' \in [Contexts -> Locals]
    <2>1. \/ loc' = [loc EXCEPT ![c].batch = @ \ {r}, ![c].sent = TRUE]
          \/ loc' = [loc EXCEPT ![c].batch = @ \ {r}, ![c].failed = TRUE]
          \/ loc' = loc
      BY DEF Issue
    <2>2. /\ [loc EXCEPT ![c].batch = @ \ {r}, ![c].sent = TRUE] \in [Contexts -> Locals]
          /\ [loc EXCEPT ![c].batch = @ \ {r}, ![c].failed = TRUE] \in [Contexts -> Locals]
      BY IssueTyped DEF Typed, ContextsTyped
    <2> QED
      BY <2>1, <2>2 DEF Typed, ContextsTyped
  <1>2. pc' \in [Contexts -> Places]
    BY DEF Issue, Accepted, Failed, Refused, Goto, Finish, Places, InDispatch, Typed, ContextsTyped
  <1>3. HandTyped'
    BY DEF Issue, Accepted, Failed, Refused, Goto, Finish, At, Typed, ContextsTyped, HandTyped
  <1>4. ListsTyped'
    BY DEF Issue, Accepted, Failed, Refused, At, Typed, ListsTyped, ContextsTyped, HandTyped, Locals
  <1>5. BoundsTyped'
    BY DEF Issue, Accepted, Failed, Refused, Typed, BoundsTyped
  <1> QED
    BY <1>1, <1>2, <1>3, <1>4, <1>5 DEF Typed, ContextsTyped, CpuOf

LEMMA CompleteKeepsTypes ==
  ASSUME Typed, UNCHANGED <<setup, plug>>, NEW r \in Requests, Complete(r)
  PROVE  Typed'
  <1>1. loc' \in [Contexts -> Locals]
    BY ContextTypes DEF Complete, Finish, Typed, ListsTyped, ContextsTyped, HandTyped, At
  <1>2. pc' \in [Contexts -> Places]
    BY ContextTypes DEF Complete, Goto, Finish, Places, InDispatch, Typed, ContextsTyped
  <1>3. HandTyped'
    BY ContextTypes DEF Complete, Goto, Finish, At, Typed, ContextsTyped, HandTyped
  <1>4. ListsTyped'
    BY ContextTypes DEF Complete, At, Typed, ListsTyped, ContextsTyped, HandTyped, Locals
  <1>5. BoundsTyped'
    BY ContextTypes DEF Complete, Typed, BoundsTyped
  <1> QED
    BY <1>1, <1>2, <1>3, <1>4, <1>5 DEF Typed, ContextsTyped, CpuOf

LEMMA RestartKeepsTypes ==
  ASSUME Typed, UNCHANGED <<setup, plug>>, Restart
  PROVE  Typed'
  <1>1. loc' \in [Contexts -> Locals]
    <2>1. loc' = [loc EXCEPT !["irq"] = NoLoc] \/ loc' = [loc EXCEPT !["irq"].run = "async"]
      BY DEF Restart, Finish
    <2>2. [loc EXCEPT !["irq"] = NoLoc] \in [Contexts -> Locals]
      BY ContextTypes, ResetTyped DEF Typed, ContextsTyped
    <2>3. [loc EXCEPT !["irq"].run = "async"] \in [Contexts -> Locals]
      BY ContextTypes, RunTyped DEF Typed, ContextsTyped
    <2> QED
      BY <2>1, <2>2, <2>3 DEF Typed, ContextsTyped
  <1>2. pc' \in [Contexts -> Places]
    BY ContextTypes DEF Restart, Goto, Finish, Places, InDispatch, Typed, ContextsTyped
  <1>3. HandTyped'
    BY ContextTypes DEF Restart, Goto, Finish, At, Typed, ContextsTyped, HandTyped
  <1>4. ListsTyped'
    BY ContextTypes DEF Restart, At, Typed, ListsTyped, ContextsTyped, HandTyped, Locals
  <1>5. BoundsTyped'
    BY ContextTypes DEF Restart, Typed, BoundsTyped
  <1> QED
    BY <1>1, <1>2, <1>3, <1>4, <1>5 DEF Typed, ContextsTyped, CpuOf

LEMMA QuiesceBeginKeepsTypes ==
  ASSUME Typed, UNCHANGED <<setup, plug>>, NEW c \in setup.quiescers, QuiesceBegin(c)
  PROVE  Typed'
  <1>0. c \in Contexts
    BY ContextTypes DEF Typed
  <1>1. loc' \in [Contexts -> Locals]
    BY <1>0 DEF QuiesceBegin, Finish, Typed, ListsTyped, ContextsTyped, HandTyped, At
  <1>2. pc' \in [Contexts -> Places]
    BY <1>0 DEF QuiesceBegin, Goto, Finish, Places, InDispatch, Typed, ContextsTyped
  <1>3. HandTyped'
    BY <1>0 DEF QuiesceBegin, Goto, Finish, At, Typed, ContextsTyped, HandTyped
  <1>4. ListsTyped'
    BY <1>0 DEF QuiesceBegin, At, Typed, ListsTyped, ContextsTyped, HandTyped, Locals
  <1>5. BoundsTyped'
    BY <1>0 DEF QuiesceBegin, Typed, BoundsTyped
  <1> QED
    BY <1>1, <1>2, <1>3, <1>4, <1>5 DEF Typed, ContextsTyped, CpuOf

LEMMA QuiesceWaitKeepsTypes ==
  ASSUME Typed, UNCHANGED <<setup, plug>>, NEW c \in setup.quiescers, QuiesceWait(c)
  PROVE  Typed'
  <1>0. c \in Contexts
    BY ContextTypes DEF Typed
  <1>1. loc' \in [Contexts -> Locals]
    BY <1>0 DEF QuiesceWait, Finish, Typed, ListsTyped, ContextsTyped, HandTyped, At
  <1>2. pc' \in [Contexts -> Places]
    BY <1>0 DEF QuiesceWait, Goto, Finish, Places, InDispatch, Typed, ContextsTyped
  <1>3. HandTyped'
    BY <1>0 DEF QuiesceWait, Goto, Finish, At, Typed, ContextsTyped, HandTyped
  <1>4. ListsTyped'
    BY <1>0 DEF QuiesceWait, At, Typed, ListsTyped, ContextsTyped, HandTyped, Locals
  <1>5. BoundsTyped'
    BY <1>0 DEF QuiesceWait, Typed, BoundsTyped
  <1> QED
    BY <1>1, <1>2, <1>3, <1>4, <1>5 DEF Typed, ContextsTyped, CpuOf

LEMMA UnquiesceKeepsTypes ==
  ASSUME Typed, UNCHANGED <<setup, plug>>, NEW c \in setup.quiescers, Unquiesce(c), depth > 0
  PROVE  Typed'
  <1>0. c \in Contexts
    BY ContextTypes DEF Typed
  <1>1. loc' \in [Contexts -> Locals]
    <2>1. loc' = [loc EXCEPT ![c] = NoLoc] \/ loc' = [loc EXCEPT ![c].run = "async"]
      BY DEF Unquiesce, Finish
    <2>2. [loc EXCEPT ![c] = NoLoc] \in [Contexts -> Locals]
      BY <1>0, ResetTyped DEF Typed, ContextsTyped
    <2>3. [loc EXCEPT ![c].run = "async"] \in [Contexts -> Locals]
      BY <1>0, RunTyped DEF Typed, ContextsTyped
    <2> QED
      BY <2>1, <2>2, <2>3 DEF Typed, ContextsTyped
  <1>2. pc' \in [Contexts -> Places]
    BY <1>0 DEF Unquiesce, Goto, Finish, Places, InDispatch, Typed, ContextsTyped
  <1>3. HandTyped'
    BY <1>0 DEF Unquiesce, Goto, Finish, At, Typed, ContextsTyped, HandTyped
  <1>4. ListsTyped'
    BY <1>0 DEF Unquiesce, At, Typed, ListsTyped, ContextsTyped, HandTyped, Locals
  <1>5. BoundsTyped'
    BY <1>0 DEF Unquiesce, Typed, BoundsTyped
  <1> QED
    BY <1>1, <1>2, <1>3, <1>4, <1>5 DEF Typed, ContextsTyped, CpuOf

LEMMA CollectKeepsTypes ==
  ASSUME Typed, UNCHANGED <<setup, plug>>, NEW c \in Contexts, Collect(c)
  PROVE  Typed'
  <1> DEFINE i == Min(MarkedFrom(c))
  <1>0. i \in Cpus /\ i \in Nat
    <2>1. MarkedFrom(c) \in SUBSET Nat /\ MarkedFrom(c) \subseteq Cpus /\ MarkedFrom(c) # {}
      BY ContextTypes DEF Collect, MarkedFrom, Typed, ListsTyped
    <2> QED
      BY <2>1, MinIsMember
  <1>1. loc' \in [Contexts -> Locals]
    <2>1. staged[i] \in SUBSET Requests /\ i + 1 \in Nat
      BY <1>0 DEF Typed, ListsTyped
    <2>2. loc' = [loc EXCEPT ![c].batch = @ \cup staged[i], ![c].cpu = i + 1]
      BY DEF Collect
    <2> HIDE DEF i
    <2> QED
      BY <2>1, <2>2, CollectTyped DEF Typed, ContextsTyped
  <1>2. pc' = pc
    BY DEF Collect
  <1>3. HandTyped'
    BY <1>2, MinIsMember DEF Collect, At, Typed, ContextsTyped, HandTyped
  <1>4. ListsTyped'
    BY <1>0 DEF Collect, Typed, ListsTyped
  <1>5. BoundsTyped'
    BY DEF Collect, Typed, BoundsTyped
  <1> QED
    BY <1>1, <1>2, <1>3, <1>4, <1>5 DEF Typed, ContextsTyped, CpuOf

LEMMA FlushPlugKeepsTypes ==
  ASSUME Typed, UNCHANGED setup, NEW c \in Threads, NEW R \in SUBSET Requests, FlushPlug(c, R)
  PROVE  Typed'
  <1>0. c \in Contexts /\ plug[c] \in Flushes
    BY ContextTypes DEF Typed
  <1>1. loc' \in [Contexts -> Locals]
    <2>1. loc' = loc \/ loc' = [loc EXCEPT ![c].rcu = TRUE]
      BY DEF FlushPlug, Lock
    <2>2. [loc EXCEPT ![c].rcu = TRUE] \in [Contexts -> Locals]
      BY <1>0, RcuTyped DEF Typed, ContextsTyped
    <2> QED
      BY <2>1, <2>2 DEF Typed, ContextsTyped
  <1>2. pc' \in [Contexts -> Places]
    BY <1>0 DEF FlushPlug, InPhase, Lock, Goto, Places, Typed, ContextsTyped
  <1>3. HandTyped'
    BY <1>0 DEF FlushPlug, InPhase, Lock, Goto, At, Typed, ContextsTyped, HandTyped
  <1>4. ListsTyped'
    BY <1>0 DEF FlushPlug, InPhase, Lock, At, Typed, ListsTyped, Flushes
  <1>5. BoundsTyped'
    BY <1>0 DEF FlushPlug, InPhase, Lock, Typed, BoundsTyped
  <1>6. plug' \in [Threads -> Flushes]
    <2>1. PICK phase \in {"rqs", "each", "groups"}, async \in BOOLEAN :
            plug' = [plug EXCEPT ![c] = [NoFlush EXCEPT !.phase = phase, !.list = R,
                                                        !.async = async]]
      BY DEF FlushPlug
    <2>2. [NoFlush EXCEPT !.phase = phase, !.list = R, !.async = async] \in Flushes
      BY LocTypes DEF Flushes
    <2> QED
      BY <2>1, <2>2 DEF Typed
  <1> QED
    BY <1>1, <1>2, <1>3, <1>4, <1>5, <1>6 DEF Typed, ContextsTyped, CpuOf

LEMMA QueueRqsKeepsTypes ==
  ASSUME Typed, UNCHANGED setup, NEW c \in Threads, NEW S \in SUBSET Requests, QueueRqs(c, S)
  PROVE  Typed'
  <1>0. c \in Contexts /\ plug[c] \in Flushes
    BY ContextTypes DEF Typed
  <1>1. loc' \in [Contexts -> Locals]
    BY <1>0, RcuTyped, LocTypes DEF QueueRqs, InPhase, Unlock, Typed, ListsTyped, ContextsTyped, HandTyped, At
  <1>2. pc' \in [Contexts -> Places]
    BY <1>0 DEF QueueRqs, InPhase, Unlock, Goto, Places, Typed, ContextsTyped
  <1>3. HandTyped'
    BY <1>0 DEF QueueRqs, InPhase, Unlock, Goto, At, Typed, ContextsTyped, HandTyped
  <1>4. ListsTyped'
    BY <1>0 DEF QueueRqs, InPhase, Unlock, At, Typed, ListsTyped, Flushes
  <1>5. BoundsTyped'
    BY <1>0 DEF QueueRqs, InPhase, Unlock, Typed, BoundsTyped
  <1>6. plug' \in [Threads -> Flushes]
    BY <1>0, LocTypes DEF QueueRqs, InPhase, Unlock, Typed, Flushes
  <1> QED
    BY <1>1, <1>2, <1>3, <1>4, <1>5, <1>6 DEF Typed, ContextsTyped, CpuOf

LEMMA NextRqKeepsTypes ==
  ASSUME Typed, UNCHANGED setup, NEW c \in Threads, NEW r \in Requests, NextRq(c, r)
  PROVE  Typed'
  <1>0. c \in Contexts /\ plug[c] \in Flushes
    BY ContextTypes DEF Typed
  <1>1. loc' \in [Contexts -> Locals]
    <2>1. loc' = [loc EXCEPT ![c].rcu = TRUE] \/ loc' = [loc EXCEPT ![c].rq = r, ![c].rcu = TRUE]
      BY DEF NextRq, Lock
    <2>2. [loc EXCEPT ![c].rcu = TRUE] \in [Contexts -> Locals]
      BY <1>0, RcuTyped DEF Typed, ContextsTyped
    <2>3. [loc EXCEPT ![c].rq = r, ![c].rcu = TRUE] \in [Contexts -> Locals]
      BY <1>0, HandOverTyped DEF Typed, ContextsTyped
    <2> QED
      BY <2>1, <2>2, <2>3
  <1>2. pc' \in [Contexts -> Places]
    BY <1>0 DEF NextRq, InPhase, Lock, Left, Popped, Without, Goto, Places, Typed, ContextsTyped
  <1>3. HandTyped'
    <2>1. pc' = pc \/ (loc' = [loc EXCEPT ![c].rq = r, ![c].rcu = TRUE] /\ Goto(c, "mark"))
      BY DEF NextRq
    <2>2. CASE pc' = pc
      <3>1. pc[c] = "idle"
        BY DEF NextRq, InPhase, At
      <3> QED
        BY <1>0, <2>2, <3>1 DEF NextRq, Lock, Typed, ContextsTyped, HandTyped
    <2>3. CASE loc' = [loc EXCEPT ![c].rq = r, ![c].rcu = TRUE] /\ Goto(c, "mark")
      <3>1. loc'[c].rq = r
        BY <1>0, <2>3 DEF Typed, ContextsTyped, Locals
      <3> QED
        BY <1>0, <2>3, <3>1 DEF Goto, Typed, ContextsTyped, HandTyped
    <2> QED
      BY <2>1, <2>2, <2>3
  <1>4. ListsTyped'
    BY <1>0 DEF NextRq, InPhase, Lock, Left, Popped, Without, At, Typed, ListsTyped, Flushes
  <1>5. BoundsTyped'
    BY <1>0 DEF NextRq, InPhase, Lock, Left, Popped, Without, Typed, BoundsTyped
  <1>6. plug' \in [Threads -> Flushes]
    <2>1. Without(c, r) \in Flushes
      BY <1>0 DEF Without, Flushes
    <2>2. [Without(c, r) EXCEPT !.sent = TRUE] \in Flushes /\ [Without(c, r) EXCEPT !.rq = r] \in Flushes
      BY <2>1 DEF Flushes
    <2>3. \/ plug' = [plug EXCEPT ![c] = [Without(c, r) EXCEPT !.sent = TRUE]]
          \/ plug' = [plug EXCEPT ![c] = [Without(c, r) EXCEPT !.rq = r]]
      BY DEF NextRq
    <2> QED
      BY <2>2, <2>3 DEF Typed
  <1> QED
    BY <1>1, <1>2, <1>3, <1>4, <1>5, <1>6 DEF Typed, ContextsTyped, CpuOf

LEMMA IssuePluggedKeepsTypes ==
  ASSUME Typed, UNCHANGED setup, NEW c \in Threads, IssuePlugged(c)
  PROVE  Typed'
  <1>0. c \in Contexts /\ plug[c] \in Flushes
    BY ContextTypes DEF Typed
  <1>1. loc' \in [Contexts -> Locals]
    <2>1. \/ loc' = [loc EXCEPT ![c].rcu = FALSE]
          \/ \E b : loc' = [loc EXCEPT ![c].rq = plug[c].rq, ![c].run = IF b THEN "sync" ELSE "none"]
      BY DEF IssuePlugged, Unlock, BypassInsert
    <2>2. [loc EXCEPT ![c].rcu = FALSE] \in [Contexts -> Locals]
      BY <1>0, RcuTyped DEF Typed, ContextsTyped
    <2>3. ASSUME NEW b
          PROVE  [loc EXCEPT ![c].rq = plug[c].rq, ![c].run = IF b THEN "sync" ELSE "none"]
                   \in [Contexts -> Locals]
      <3>1. plug[c].rq \in Requests
        BY <1>0 DEF IssuePlugged, Popped, Flushes
      <3> QED
        BY <1>0, <3>1, BypassTyped DEF Typed, ContextsTyped
    <2> QED
      BY <2>1, <2>2, <2>3
  <1>2. pc' \in [Contexts -> Places]
    BY <1>0 DEF IssuePlugged, Popped, Accepted, Failed, Refused, BypassInsert, Unlock, Goto, Places, Typed, ContextsTyped
  <1>3. HandTyped'
    <2>0. pc[c] = "idle" /\ plug[c].rq \in Requests
      BY <1>0 DEF IssuePlugged, Popped, At, Flushes
    <2>1. CASE pc' = pc /\ loc' = [loc EXCEPT ![c].rcu = FALSE]
      BY <1>0, <2>0, <2>1 DEF Typed, ContextsTyped, HandTyped
    <2>2. CASE \E b : BypassInsert(c, plug[c].rq, b)
      <3>1. PICK b : BypassInsert(c, plug[c].rq, b)
        BY <2>2
      <3>2. loc'[c].rq = plug[c].rq
        BY <1>0, <3>1 DEF BypassInsert, Typed, ContextsTyped, Locals
      <3> QED
        BY <1>0, <2>0, <3>1, <3>2 DEF BypassInsert, Goto, Typed, ContextsTyped, HandTyped
    <2> QED
      BY <2>1, <2>2 DEF IssuePlugged, Unlock
  <1>4. ListsTyped'
    BY <1>0 DEF IssuePlugged, Popped, Accepted, Failed, Refused, BypassInsert, Unlock, At, Typed, ListsTyped, Flushes
  <1>5. BoundsTyped'
    BY <1>0 DEF IssuePlugged, Popped, Accepted, Failed, Refused, BypassInsert, Unlock, Typed, BoundsTyped
  <1>6. plug' \in [Threads -> Flushes]
    <2> DEFINE one == [plug[c] EXCEPT !.rq = None]
    <2>1. one \in Flushes
      BY <1>0 DEF Flushes
    <2>2. /\ [one EXCEPT !.sent = TRUE] \in Flushes /\ [one EXCEPT !.failed = TRUE] \in Flushes
          /\ [one EXCEPT !.failed = TRUE, !.phase = IF @ = "each" THEN "each_end" ELSE "list_end"]
               \in Flushes
      <3> HIDE DEF one
      <3> QED
        BY <2>1 DEF Flushes
    <2>3. \/ plug' = [plug EXCEPT ![c] = [one EXCEPT !.sent = TRUE]]
          \/ plug' = [plug EXCEPT ![c] = [one EXCEPT !.failed = TRUE]]
          \/ plug' = [plug EXCEPT ![c] =
                        [one EXCEPT !.failed = TRUE,
                                    !.phase = IF @ = "each" THEN "each_end" ELSE "list_end"]]
      BY DEF IssuePlugged
    <2> HIDE DEF one
    <2> QED
      BY <2>2, <2>3 DEF Typed
  <1> QED
    BY <1>1, <1>2, <1>3, <1>4, <1>5, <1>6 DEF Typed, ContextsTyped, CpuOf

LEMMA EachEndKeepsTypes ==
  ASSUME Typed, UNCHANGED setup, NEW c \in Threads, EachEnd(c)
  PROVE  Typed'
  <1>0. c \in Contexts /\ plug[c] \in Flushes
    BY ContextTypes DEF Typed
  <1>1. loc' \in [Contexts -> Locals]
    BY <1>0, LocTypes DEF EachEnd, InPhase, LoopDone, CommitRqs, Typed, ListsTyped, ContextsTyped, HandTyped, At
  <1>2. pc' \in [Contexts -> Places]
    BY <1>0 DEF EachEnd, InPhase, LoopDone, CommitRqs, Goto, Places, Typed, ContextsTyped
  <1>3. HandTyped'
    BY <1>0 DEF EachEnd, InPhase, LoopDone, CommitRqs, Goto, At, Typed, ContextsTyped, HandTyped
  <1>4. ListsTyped'
    BY <1>0 DEF EachEnd, InPhase, LoopDone, CommitRqs, At, Typed, ListsTyped, Flushes
  <1>5. BoundsTyped'
    BY <1>0 DEF EachEnd, InPhase, LoopDone, CommitRqs, Typed, BoundsTyped
  <1>6. plug' \in [Threads -> Flushes]
    BY <1>0, LocTypes DEF EachEnd, InPhase, LoopDone, CommitRqs, Typed, Flushes
  <1> QED
    BY <1>1, <1>2, <1>3, <1>4, <1>5, <1>6 DEF Typed, ContextsTyped, CpuOf

LEMMA ListEndKeepsTypes ==
  ASSUME Typed, UNCHANGED setup, NEW c \in Threads, ListEnd(c)
  PROVE  Typed'
  <1>0. c \in Contexts /\ plug[c] \in Flushes
    BY ContextTypes DEF Typed
  <1>1. loc' \in [Contexts -> Locals]
    BY <1>0, LocTypes DEF ListEnd, InPhase, LoopDone, CommitRqs, AfterGroup, Typed, ListsTyped, ContextsTyped, HandTyped, At
  <1>2. pc' \in [Contexts -> Places]
    BY <1>0 DEF ListEnd, InPhase, LoopDone, CommitRqs, AfterGroup, Goto, Places, Typed, ContextsTyped
  <1>3. HandTyped'
    BY <1>0 DEF ListEnd, InPhase, LoopDone, CommitRqs, AfterGroup, Goto, At, Typed, ContextsTyped, HandTyped
  <1>4. ListsTyped'
    BY <1>0 DEF ListEnd, InPhase, LoopDone, CommitRqs, AfterGroup, At, Typed, ListsTyped, Flushes
  <1>5. BoundsTyped'
    BY <1>0 DEF ListEnd, InPhase, LoopDone, CommitRqs, AfterGroup, Typed, BoundsTyped
  <1>6. plug' \in [Threads -> Flushes]
    BY <1>0, LocTypes DEF ListEnd, InPhase, LoopDone, CommitRqs, AfterGroup, Typed, Flushes
  <1> QED
    BY <1>1, <1>2, <1>3, <1>4, <1>5, <1>6 DEF Typed, ContextsTyped, CpuOf

LEMMA TakeGroupKeepsTypes ==
  ASSUME Typed, UNCHANGED setup, NEW c \in Threads, NEW i \in Cpus, TakeGroup(c, i)
  PROVE  Typed'
  <1>0. c \in Contexts /\ plug[c] \in Flushes
    BY ContextTypes DEF Typed
  <1>1. loc' \in [Contexts -> Locals]
    BY DEF TakeGroup, vars, Typed, ContextsTyped
  <1>2. pc' \in [Contexts -> Places]
    BY <1>0 DEF TakeGroup, vars, InPhase, Goto, Places, Typed, ContextsTyped
  <1>3. HandTyped'
    BY <1>0 DEF TakeGroup, vars, InPhase, Goto, At, Typed, ContextsTyped, HandTyped
  <1>4. ListsTyped'
    BY <1>0 DEF TakeGroup, vars, InPhase, At, Typed, ListsTyped, Flushes
  <1>5. BoundsTyped'
    BY <1>0 DEF TakeGroup, vars, InPhase, Typed, BoundsTyped
  <1>6. plug' \in [Threads -> Flushes]
    <2> DEFINE group == {r \in plug[c].list : CpuOf[r] = i}
               phase == IF plug[c].async THEN "insert" ELSE "list"
               new   == [plug[c] EXCEPT !.batch = group, !.list = @ \ group, !.phase = phase]
    <2>1. new \in Flushes
      <3>1. plug[c].list \in SUBSET Requests /\ phase \in {"insert", "list"}
        BY <1>0 DEF Flushes
      <3>2. group \in SUBSET Requests /\ plug[c].list \ group \in SUBSET Requests
        BY <3>1
      <3> HIDE DEF group, phase
      <3> QED
        BY <1>0, <3>1, <3>2 DEF Flushes
    <2>2. plug \in [Threads -> Flushes] /\ plug' = [plug EXCEPT ![c] = new]
      BY DEF TakeGroup, Typed
    <2> HIDE DEF new
    <2> QED
      BY <2>1, <2>2
  <1> QED
    BY <1>1, <1>2, <1>3, <1>4, <1>5, <1>6 DEF Typed, ContextsTyped, CpuOf

LEMMA InsertRequestsKeepsTypes ==
  ASSUME Typed, UNCHANGED setup, NEW c \in Threads, InsertRequests(c)
  PROVE  Typed'
  <1>0. c \in Contexts /\ plug[c] \in Flushes
    BY ContextTypes DEF Typed
  <1>1. loc' \in [Contexts -> Locals]
    BY <1>0, RunTyped, LocTypes DEF InsertRequests, InPhase, AfterGroup, Typed, ListsTyped, ContextsTyped, HandTyped, At
  <1>2. pc' \in [Contexts -> Places]
    BY <1>0 DEF InsertRequests, InPhase, AfterGroup, Goto, Places, Typed, ContextsTyped
  <1>3. HandTyped'
    BY <1>0 DEF InsertRequests, InPhase, AfterGroup, Goto, At, Typed, ContextsTyped, HandTyped
  <1>4. ListsTyped'
    BY <1>0 DEF InsertRequests, InPhase, AfterGroup, At, Typed, ListsTyped, Flushes
  <1>5. BoundsTyped'
    BY <1>0 DEF InsertRequests, InPhase, AfterGroup, Typed, BoundsTyped
  <1>6. plug' \in [Threads -> Flushes]
    BY <1>0, LocTypes DEF InsertRequests, InPhase, AfterGroup, Typed, Flushes
  <1> QED
    BY <1>1, <1>2, <1>3, <1>4, <1>5, <1>6 DEF Typed, ContextsTyped, CpuOf

-----------------------------------------------------------------------------
(* The invariant.  The depth counts the quiescers between setting the flag *)
(* and unquiescing; a flush has a request in hand, or gives its list to    *)
(* the driver, only while its thread is not in BlexDispatch's code.        *)
Quiescing == {q \in Quiescers : pc[q] \in {"wait", "quiesced"}}
Counted   == IsFiniteSet(Quiescing) /\ depth = Cardinality(Quiescing)

ShapeOf(t) ==
  /\ plug[t].rq # None => pc[t] = "idle" /\ plug[t].phase \in {"each", "list"}
  /\ plug[t].phase = "rqs" => pc[t] = "idle"
FlushShape == \A t \in Threads : ShapeOf(t)

(* The contexts that are on their way to queue_rq() and have looked at the *)
(* quiesced flag.  Each is in a section that grace periods wait for, and   *)
(* one that is there when a quiescer comes is waited for.                  *)
Drives(c) ==
  \/ pc[c] \in InDispatch \cup {"direct"}
  \/ c \in Threads /\ (Popped(c) \/ InPhase(c, "rqs"))
Driving == {c \in Contexts : Drives(c)}

DrivingReads   == \A c \in Driving : loc[c].rcu
DrivingAwaited ==
  \A q \in Quiescers : /\ pc[q] = "wait" => Driving \subseteq waits[q]
                       /\ pc[q] = "quiesced" => Driving = {}

IndInv == Typed /\ Counted /\ FlushShape /\ DrivingReads /\ DrivingAwaited

(* As long as the queue is not quiesced nobody is quiescing it. *)
LEMMA NobodyQuiesces ==
  ASSUME Counted, depth = 0
  PROVE  Quiescing = {}
  BY FS_EmptySet DEF Counted

(* What steps of everybody but quiescers keep: a context begins to drive   *)
(* only on a queue that is not quiesced, and reads while it does.          *)
LEMMA StepKept ==
  ASSUME IndInv, waits' = waits, depth' = depth, NEW c \in Contexts,
         pc[c] \notin {"wait", "quiesced"}, pc'[c] \notin {"wait", "quiesced"},
         \A d \in Contexts \ {c} : pc'[d] = pc[d] /\ loc'[d] = loc[d],
         \A d \in Threads \ {c} : plug'[d] = plug[d],
         c \in Threads => ShapeOf(c)',
         Drives(c)' => loc'[c].rcu /\ (Drives(c) \/ ~Quiesced)
  PROVE  FlushShape' /\ Counted' /\ DrivingReads' /\ DrivingAwaited'
  <1>1. FlushShape'
    BY ContextTypes DEF IndInv, FlushShape, ShapeOf
  <1>2. Quiescing' = Quiescing
    BY ContextTypes DEF Quiescing
  <1>3. Counted'
    BY <1>2 DEF IndInv, Counted
  <1>4. \A d \in Contexts \ {c} : Drives(d)' <=> Drives(d)
    BY DEF Drives, Popped, InPhase, At
  <1>5. DrivingReads'
    BY <1>4 DEF IndInv, DrivingReads, Driving
  <1>6. ASSUME Quiesced PROVE DrivingAwaited'
    <2>1. Driving' \subseteq Driving
      BY <1>4, <1>6 DEF Driving
    <2> QED
      BY <1>2, <2>1, ContextTypes DEF IndInv, DrivingAwaited, Quiescing
  <1>7. ASSUME ~Quiesced PROVE DrivingAwaited'
    <2>1. depth = 0
      BY <1>7 DEF Quiesced, IndInv, Typed, BoundsTyped
    <2>2. Quiescing' = {}
      BY <1>2, <2>1, NobodyQuiesces DEF IndInv
    <2> QED
      BY <2>2 DEF DrivingAwaited, Quiescing
  <1> QED
    BY <1>1, <1>3, <1>5, <1>6, <1>7

LEMMA QueueDirectlyKeepsInv ==
  ASSUME IndInv, UNCHANGED plug, NEW c \in Contexts, QueueDirectly(c)
  PROVE  FlushShape' /\ Counted' /\ DrivingReads' /\ DrivingAwaited'
  <1>1. /\ waits' = waits /\ depth' = depth
        /\ pc[c] \notin {"wait", "quiesced"} /\ pc'[c] \notin {"wait", "quiesced"}
        /\ \A d \in Contexts \ {c} : pc'[d] = pc[d] /\ loc'[d] = loc[d]
    BY DEF QueueDirectly, Accepted, Failed, Refused, BypassInsert, At, Goto, Finish, InDispatch, IndInv, Typed, ContextsTyped
  <1>2. c \in Threads => ShapeOf(c)'
    BY DEF QueueDirectly, At, InDispatch, IndInv, FlushShape, ShapeOf
  <1>3. Drives(c)' => loc'[c].rcu /\ (Drives(c) \/ ~Quiesced)
    BY DEF QueueDirectly, Accepted, Failed, Refused, BypassInsert, At, Goto, Finish, Drives, Driving, DrivingReads, Popped, InPhase, InDispatch, IndInv,
           FlushShape, ShapeOf, Typed, ContextsTyped, Locals
  <1> QED
    BY <1>1, <1>2, <1>3, StepKept

LEMMA MarkCpuKeepsInv ==
  ASSUME IndInv, UNCHANGED plug, NEW c \in Contexts, MarkCpu(c)
  PROVE  FlushShape' /\ Counted' /\ DrivingReads' /\ DrivingAwaited'
  <1>1. /\ waits' = waits /\ depth' = depth
        /\ pc[c] \notin {"wait", "quiesced"} /\ pc'[c] \notin {"wait", "quiesced"}
        /\ \A d \in Contexts \ {c} : pc'[d] = pc[d] /\ loc'[d] = loc[d]
    BY DEF MarkCpu, At, Goto, Finish, InDispatch, IndInv, Typed, ContextsTyped
  <1>2. c \in Threads => ShapeOf(c)'
    BY DEF MarkCpu, At, InDispatch, IndInv, FlushShape, ShapeOf
  <1>3. Drives(c)' => loc'[c].rcu /\ (Drives(c) \/ ~Quiesced)
    BY DEF MarkCpu, At, Goto, Finish, Drives, Driving, DrivingReads, Popped, InPhase, InDispatch, IndInv,
           FlushShape, ShapeOf, Typed, ContextsTyped, Locals
  <1> QED
    BY <1>1, <1>2, <1>3, StepKept

LEMMA StageKeepsInv ==
  ASSUME IndInv, UNCHANGED plug, NEW c \in Contexts, Stage(c)
  PROVE  FlushShape' /\ Counted' /\ DrivingReads' /\ DrivingAwaited'
  <1>1. /\ waits' = waits /\ depth' = depth
        /\ pc[c] \notin {"wait", "quiesced"} /\ pc'[c] \notin {"wait", "quiesced"}
        /\ \A d \in Contexts \ {c} : pc'[d] = pc[d] /\ loc'[d] = loc[d]
    BY DEF Stage, At, Goto, Finish, InDispatch, IndInv, Typed, ContextsTyped
  <1>2. c \in Threads => ShapeOf(c)'
    BY DEF Stage, At, InDispatch, IndInv, FlushShape, ShapeOf
  <1>3. Drives(c)' => loc'[c].rcu /\ (Drives(c) \/ ~Quiesced)
    BY DEF Stage, At, Goto, Finish, Drives, Driving, DrivingReads, Popped, InPhase, InDispatch, IndInv,
           FlushShape, ShapeOf, Typed, ContextsTyped, Locals
  <1> QED
    BY <1>1, <1>2, <1>3, StepKept

LEMMA RunCheckDispatchKeepsInv ==
  ASSUME IndInv, UNCHANGED plug, NEW c \in Contexts, RunCheckDispatch(c)
  PROVE  FlushShape' /\ Counted' /\ DrivingReads' /\ DrivingAwaited'
  <1>1. /\ waits' = waits /\ depth' = depth
        /\ pc[c] \notin {"wait", "quiesced"} /\ pc'[c] \notin {"wait", "quiesced"}
        /\ \A d \in Contexts \ {c} : pc'[d] = pc[d] /\ loc'[d] = loc[d]
    BY DEF RunCheckDispatch, NeedRun, At, Goto, Finish, InDispatch, IndInv, Typed, ContextsTyped
  <1>2. c \in Threads => ShapeOf(c)'
    BY DEF RunCheckDispatch, At, InDispatch, IndInv, FlushShape, ShapeOf
  <1>3. Drives(c)' => loc'[c].rcu /\ (Drives(c) \/ ~Quiesced)
    BY DEF RunCheckDispatch, NeedRun, At, Goto, Finish, Drives, Driving, DrivingReads, Popped, InPhase, InDispatch, IndInv,
           FlushShape, ShapeOf, Typed, ContextsTyped, Locals
  <1> QED
    BY <1>1, <1>2, <1>3, StepKept

LEMMA RunCheckMaskKeepsInv ==
  ASSUME IndInv, UNCHANGED plug, NEW c \in Contexts, RunCheckMask(c)
  PROVE  FlushShape' /\ Counted' /\ DrivingReads' /\ DrivingAwaited'
  <1>1. /\ waits' = waits /\ depth' = depth
        /\ pc[c] \notin {"wait", "quiesced"} /\ pc'[c] \notin {"wait", "quiesced"}
        /\ \A d \in Contexts \ {c} : pc'[d] = pc[d] /\ loc'[d] = loc[d]
    BY DEF RunCheckMask, NeedRun, At, Goto, Finish, InDispatch, IndInv, Typed, ContextsTyped
  <1>2. c \in Threads => ShapeOf(c)'
    BY DEF RunCheckMask, At, InDispatch, IndInv, FlushShape, ShapeOf
  <1>3. Drives(c)' => loc'[c].rcu /\ (Drives(c) \/ ~Quiesced)
    BY DEF RunCheckMask, NeedRun, At, Goto, Finish, Drives, Driving, DrivingReads, Popped, InPhase, InDispatch, IndInv,
           FlushShape, ShapeOf, Typed, ContextsTyped, Locals
  <1> QED
    BY <1>1, <1>2, <1>3, StepKept

LEMMA EnterKeepsInv ==
  ASSUME IndInv, UNCHANGED plug, NEW c \in Contexts, Enter(c)
  PROVE  FlushShape' /\ Counted' /\ DrivingReads' /\ DrivingAwaited'
  <1>1. /\ waits' = waits /\ depth' = depth
        /\ pc[c] \notin {"wait", "quiesced"} /\ pc'[c] \notin {"wait", "quiesced"}
        /\ \A d \in Contexts \ {c} : pc'[d] = pc[d] /\ loc'[d] = loc[d]
    BY DEF Enter, At, Goto, Finish, InDispatch, IndInv, Typed, ContextsTyped
  <1>2. c \in Threads => ShapeOf(c)'
    BY DEF Enter, At, InDispatch, IndInv, FlushShape, ShapeOf
  <1>3. Drives(c)' => loc'[c].rcu /\ (Drives(c) \/ ~Quiesced)
    BY DEF Enter, At, Goto, Finish, Drives, Driving, DrivingReads, Popped, InPhase, InDispatch, IndInv,
           FlushShape, ShapeOf, Typed, ContextsTyped, Locals
  <1> QED
    BY <1>1, <1>2, <1>3, StepKept

LEMMA GrabKeepsInv ==
  ASSUME IndInv, UNCHANGED plug, NEW c \in Contexts, Grab(c)
  PROVE  FlushShape' /\ Counted' /\ DrivingReads' /\ DrivingAwaited'
  <1>1. /\ waits' = waits /\ depth' = depth
        /\ pc[c] \notin {"wait", "quiesced"} /\ pc'[c] \notin {"wait", "quiesced"}
        /\ \A d \in Contexts \ {c} : pc'[d] = pc[d] /\ loc'[d] = loc[d]
    BY DEF Grab, At, Goto, Finish, InDispatch, IndInv, Typed, ContextsTyped
  <1>2. c \in Threads => ShapeOf(c)'
    BY DEF Grab, At, InDispatch, IndInv, FlushShape, ShapeOf
  <1>3. Drives(c)' => loc'[c].rcu /\ (Drives(c) \/ ~Quiesced)
    BY DEF Grab, At, Goto, Finish, Drives, Driving, DrivingReads, Popped, InPhase, InDispatch, IndInv,
           FlushShape, ShapeOf, Typed, ContextsTyped, Locals
  <1> QED
    BY <1>1, <1>2, <1>3, StepKept

LEMMA CollectKeepsInv ==
  ASSUME IndInv, UNCHANGED plug, NEW c \in Contexts, Collect(c)
  PROVE  FlushShape' /\ Counted' /\ DrivingReads' /\ DrivingAwaited'
  <1>1. /\ waits' = waits /\ depth' = depth
        /\ pc[c] \notin {"wait", "quiesced"} /\ pc'[c] \notin {"wait", "quiesced"}
        /\ \A d \in Contexts \ {c} : pc'[d] = pc[d] /\ loc'[d] = loc[d]
    BY DEF Collect, At, Goto, Finish, InDispatch, IndInv, Typed, ContextsTyped
  <1>2. c \in Threads => ShapeOf(c)'
    BY DEF Collect, At, InDispatch, IndInv, FlushShape, ShapeOf
  <1>3. Drives(c)' => loc'[c].rcu /\ (Drives(c) \/ ~Quiesced)
    BY DEF Collect, At, Goto, Finish, Drives, Driving, DrivingReads, Popped, InPhase, InDispatch, IndInv,
           FlushShape, ShapeOf, Typed, ContextsTyped, Locals
  <1> QED
    BY <1>1, <1>2, <1>3, StepKept

LEMMA CollectEndKeepsInv ==
  ASSUME IndInv, UNCHANGED plug, NEW c \in Contexts, CollectEnd(c)
  PROVE  FlushShape' /\ Counted' /\ DrivingReads' /\ DrivingAwaited'
  <1>1. /\ waits' = waits /\ depth' = depth
        /\ pc[c] \notin {"wait", "quiesced"} /\ pc'[c] \notin {"wait", "quiesced"}
        /\ \A d \in Contexts \ {c} : pc'[d] = pc[d] /\ loc'[d] = loc[d]
    BY DEF CollectEnd, At, Goto, Finish, InDispatch, IndInv, Typed, ContextsTyped
  <1>2. c \in Threads => ShapeOf(c)'
    BY DEF CollectEnd, At, InDispatch, IndInv, FlushShape, ShapeOf
  <1>3. Drives(c)' => loc'[c].rcu /\ (Drives(c) \/ ~Quiesced)
    BY DEF CollectEnd, At, Goto, Finish, Drives, Driving, DrivingReads, Popped, InPhase, InDispatch, IndInv,
           FlushShape, ShapeOf, Typed, ContextsTyped, Locals
  <1> QED
    BY <1>1, <1>2, <1>3, StepKept

LEMMA IssueKeepsInv ==
  ASSUME IndInv, UNCHANGED plug, NEW c \in Contexts, NEW r \in Requests, Issue(c, r)
  PROVE  FlushShape' /\ Counted' /\ DrivingReads' /\ DrivingAwaited'
  <1>1. /\ waits' = waits /\ depth' = depth
        /\ pc[c] \notin {"wait", "quiesced"} /\ pc'[c] \notin {"wait", "quiesced"}
        /\ \A d \in Contexts \ {c} : pc'[d] = pc[d] /\ loc'[d] = loc[d]
    BY DEF Issue, Accepted, Failed, Refused, At, Goto, Finish, InDispatch, IndInv, Typed, ContextsTyped
  <1>2. c \in Threads => ShapeOf(c)'
    BY DEF Issue, At, InDispatch, IndInv, FlushShape, ShapeOf
  <1>3. Drives(c)' => loc'[c].rcu /\ (Drives(c) \/ ~Quiesced)
    BY DEF Issue, Accepted, Failed, Refused, At, Goto, Finish, Drives, Driving, DrivingReads, Popped, InPhase, InDispatch, IndInv,
           FlushShape, ShapeOf, Typed, ContextsTyped, Locals
  <1> QED
    BY <1>1, <1>2, <1>3, StepKept

LEMMA CommitKeepsInv ==
  ASSUME IndInv, UNCHANGED plug, NEW c \in Contexts, Commit(c)
  PROVE  FlushShape' /\ Counted' /\ DrivingReads' /\ DrivingAwaited'
  <1>1. /\ waits' = waits /\ depth' = depth
        /\ pc[c] \notin {"wait", "quiesced"} /\ pc'[c] \notin {"wait", "quiesced"}
        /\ \A d \in Contexts \ {c} : pc'[d] = pc[d] /\ loc'[d] = loc[d]
    BY DEF Commit, AfterIssue, At, Goto, Finish, InDispatch, IndInv, Typed, ContextsTyped
  <1>2. c \in Threads => ShapeOf(c)'
    BY DEF Commit, At, InDispatch, IndInv, FlushShape, ShapeOf
  <1>3. Drives(c)' => loc'[c].rcu /\ (Drives(c) \/ ~Quiesced)
    BY DEF Commit, AfterIssue, At, Goto, Finish, Drives, Driving, DrivingReads, Popped, InPhase, InDispatch, IndInv,
           FlushShape, ShapeOf, Typed, ContextsTyped, Locals
  <1> QED
    BY <1>1, <1>2, <1>3, StepKept

LEMMA PutBackKeepsInv ==
  ASSUME IndInv, UNCHANGED plug, NEW c \in Contexts, PutBack(c)
  PROVE  FlushShape' /\ Counted' /\ DrivingReads' /\ DrivingAwaited'
  <1>1. /\ waits' = waits /\ depth' = depth
        /\ pc[c] \notin {"wait", "quiesced"} /\ pc'[c] \notin {"wait", "quiesced"}
        /\ \A d \in Contexts \ {c} : pc'[d] = pc[d] /\ loc'[d] = loc[d]
    BY DEF PutBack, At, Goto, Finish, InDispatch, IndInv, Typed, ContextsTyped
  <1>2. c \in Threads => ShapeOf(c)'
    BY DEF PutBack, At, InDispatch, IndInv, FlushShape, ShapeOf
  <1>3. Drives(c)' => loc'[c].rcu /\ (Drives(c) \/ ~Quiesced)
    BY DEF PutBack, At, Goto, Finish, Drives, Driving, DrivingReads, Popped, InPhase, InDispatch, IndInv,
           FlushShape, ShapeOf, Typed, ContextsTyped, Locals
  <1> QED
    BY <1>1, <1>2, <1>3, StepKept

LEMMA RerunKeepsInv ==
  ASSUME IndInv, UNCHANGED plug, NEW c \in Contexts, Rerun(c)
  PROVE  FlushShape' /\ Counted' /\ DrivingReads' /\ DrivingAwaited'
  <1>1. /\ waits' = waits /\ depth' = depth
        /\ pc[c] \notin {"wait", "quiesced"} /\ pc'[c] \notin {"wait", "quiesced"}
        /\ \A d \in Contexts \ {c} : pc'[d] = pc[d] /\ loc'[d] = loc[d]
    BY DEF Rerun, At, Goto, Finish, InDispatch, IndInv, Typed, ContextsTyped
  <1>2. c \in Threads => ShapeOf(c)'
    BY DEF Rerun, At, InDispatch, IndInv, FlushShape, ShapeOf
  <1>3. Drives(c)' => loc'[c].rcu /\ (Drives(c) \/ ~Quiesced)
    BY DEF Rerun, At, Goto, Finish, Drives, Driving, DrivingReads, Popped, InPhase, InDispatch, IndInv,
           FlushShape, ShapeOf, Typed, ContextsTyped, Locals
  <1> QED
    BY <1>1, <1>2, <1>3, StepKept

LEMMA LookAgainKeepsInv ==
  ASSUME IndInv, UNCHANGED plug, NEW c \in Contexts, LookAgain(c)
  PROVE  FlushShape' /\ Counted' /\ DrivingReads' /\ DrivingAwaited'
  <1>1. /\ waits' = waits /\ depth' = depth
        /\ pc[c] \notin {"wait", "quiesced"} /\ pc'[c] \notin {"wait", "quiesced"}
        /\ \A d \in Contexts \ {c} : pc'[d] = pc[d] /\ loc'[d] = loc[d]
    BY DEF LookAgain, At, Goto, Finish, InDispatch, IndInv, Typed, ContextsTyped
  <1>2. c \in Threads => ShapeOf(c)'
    BY DEF LookAgain, At, InDispatch, IndInv, FlushShape, ShapeOf
  <1>3. Drives(c)' => loc'[c].rcu /\ (Drives(c) \/ ~Quiesced)
    BY DEF LookAgain, At, Goto, Finish, Drives, Driving, DrivingReads, Popped, InPhase, InDispatch, IndInv,
           FlushShape, ShapeOf, Typed, ContextsTyped, Locals
  <1> QED
    BY <1>1, <1>2, <1>3, StepKept

LEMMA WorkStartKeepsInv ==
  ASSUME IndInv, UNCHANGED plug, WorkStart
  PROVE  FlushShape' /\ Counted' /\ DrivingReads' /\ DrivingAwaited'
  <1>1. /\ waits' = waits /\ depth' = depth
        /\ pc["worker"] \notin {"wait", "quiesced"} /\ pc'["worker"] \notin {"wait", "quiesced"}
        /\ \A d \in Contexts \ {"worker"} : pc'[d] = pc[d] /\ loc'[d] = loc[d]
    BY ContextTypes DEF WorkStart, At, Goto, Finish, IndInv, Typed, ContextsTyped
  <1>2. "worker" \in Contexts \ Threads /\ ~Drives("worker")'
    BY ContextTypes DEF WorkStart, At, Goto, Finish, Drives, InDispatch, IndInv, Typed, ContextsTyped
  <1> QED
    BY <1>1, <1>2, StepKept

LEMMA CompleteKeepsInv ==
  ASSUME IndInv, UNCHANGED plug, NEW r \in Requests, Complete(r)
  PROVE  FlushShape' /\ Counted' /\ DrivingReads' /\ DrivingAwaited'
  <1>1. /\ waits' = waits /\ depth' = depth
        /\ pc["irq"] \notin {"wait", "quiesced"} /\ pc'["irq"] \notin {"wait", "quiesced"}
        /\ \A d \in Contexts \ {"irq"} : pc'[d] = pc[d] /\ loc'[d] = loc[d]
    BY ContextTypes DEF Complete, At, Goto, Finish, IndInv, Typed, ContextsTyped
  <1>2. "irq" \in Contexts \ Threads /\ ~Drives("irq")'
    BY ContextTypes DEF Complete, At, Goto, Finish, Drives, InDispatch, IndInv, Typed, ContextsTyped
  <1> QED
    BY <1>1, <1>2, StepKept

LEMMA RestartKeepsInv ==
  ASSUME IndInv, UNCHANGED plug, Restart
  PROVE  FlushShape' /\ Counted' /\ DrivingReads' /\ DrivingAwaited'
  <1>1. /\ waits' = waits /\ depth' = depth
        /\ pc["irq"] \notin {"wait", "quiesced"} /\ pc'["irq"] \notin {"wait", "quiesced"}
        /\ \A d \in Contexts \ {"irq"} : pc'[d] = pc[d] /\ loc'[d] = loc[d]
    BY ContextTypes DEF Restart, At, Goto, Finish, IndInv, Typed, ContextsTyped
  <1>2. "irq" \in Contexts \ Threads /\ ~Drives("irq")'
    BY ContextTypes DEF Restart, At, Goto, Finish, Drives, InDispatch, IndInv, Typed, ContextsTyped
  <1> QED
    BY <1>1, <1>2, StepKept

LEMMA IssueDirectlyKeepsInv ==
  ASSUME IndInv, UNCHANGED plug, NEW c \in Threads, plug[c].phase = "none", NEW r \in Requests,
         IssueDirectly(c, r)
  PROVE  FlushShape' /\ Counted' /\ DrivingReads' /\ DrivingAwaited'
  <1>0. c \in Contexts /\ plug[c] \in Flushes /\ loc[c] \in Locals /\ ShapeOf(c) /\ (Drives(c) => loc[c].rcu)
    BY ContextTypes DEF IndInv, Typed, ContextsTyped, FlushShape, DrivingReads, Driving
  <1>1. /\ waits' = waits /\ depth' = depth
        /\ pc[c] \notin {"wait", "quiesced"} /\ pc'[c] \notin {"wait", "quiesced"}
        /\ \A d \in Contexts \ {c} : pc'[d] = pc[d] /\ loc'[d] = loc[d]
        /\ \A d \in Threads \ {c} : plug'[d] = plug[d]
    BY <1>0 DEF IssueDirectly, At, Goto, IndInv, Typed, ContextsTyped
  <1>2. ShapeOf(c)'
    BY <1>0 DEF IssueDirectly, At, Goto, ShapeOf, IndInv, Typed, ContextsTyped, Flushes
  <1>3. Drives(c)' => loc'[c].rcu /\ (Drives(c) \/ ~Quiesced)
    BY <1>0 DEF IssueDirectly, At, Goto, Drives, InDispatch, Popped, InPhase, ShapeOf, IndInv, Typed, ContextsTyped, Locals, Flushes
  <1> QED
    BY <1>0, <1>1, <1>2, <1>3, StepKept

LEMMA FlushPlugKeepsInv ==
  ASSUME IndInv, NEW c \in Threads, NEW R \in SUBSET Requests, FlushPlug(c, R)
  PROVE  FlushShape' /\ Counted' /\ DrivingReads' /\ DrivingAwaited'
  <1>0. c \in Contexts /\ plug[c] \in Flushes /\ loc[c] \in Locals /\ ShapeOf(c) /\ (Drives(c) => loc[c].rcu)
    BY ContextTypes DEF IndInv, Typed, ContextsTyped, FlushShape, DrivingReads, Driving
  <1>1. /\ waits' = waits /\ depth' = depth
        /\ pc[c] \notin {"wait", "quiesced"} /\ pc'[c] \notin {"wait", "quiesced"}
        /\ \A d \in Contexts \ {c} : pc'[d] = pc[d] /\ loc'[d] = loc[d]
        /\ \A d \in Threads \ {c} : plug'[d] = plug[d]
    BY <1>0 DEF FlushPlug, InPhase, Lock, At, NoFlush, IndInv, Typed, ContextsTyped
  <1>2. ShapeOf(c)'
    BY <1>0 DEF FlushPlug, InPhase, Lock, At, NoFlush, ShapeOf, IndInv, Typed, ContextsTyped, Flushes
  <1>3. Drives(c)' => loc'[c].rcu /\ (Drives(c) \/ ~Quiesced)
    BY <1>0 DEF FlushPlug, Lock, At, NoFlush, Drives, InDispatch, Popped, InPhase, ShapeOf, IndInv, Typed, ContextsTyped, Locals, Flushes
  <1> QED
    BY <1>0, <1>1, <1>2, <1>3, StepKept

LEMMA QueueRqsKeepsInv ==
  ASSUME IndInv, NEW c \in Threads, NEW S \in SUBSET Requests, QueueRqs(c, S)
  PROVE  FlushShape' /\ Counted' /\ DrivingReads' /\ DrivingAwaited'
  <1>0. c \in Contexts /\ plug[c] \in Flushes /\ loc[c] \in Locals /\ ShapeOf(c) /\ (Drives(c) => loc[c].rcu)
    BY ContextTypes DEF IndInv, Typed, ContextsTyped, FlushShape, DrivingReads, Driving
  <1>1. /\ waits' = waits /\ depth' = depth
        /\ pc[c] \notin {"wait", "quiesced"} /\ pc'[c] \notin {"wait", "quiesced"}
        /\ \A d \in Contexts \ {c} : pc'[d] = pc[d] /\ loc'[d] = loc[d]
        /\ \A d \in Threads \ {c} : plug'[d] = plug[d]
    BY <1>0 DEF QueueRqs, InPhase, Unlock, At, NoFlush, IndInv, Typed, ContextsTyped
  <1>2. ShapeOf(c)'
    BY <1>0 DEF QueueRqs, InPhase, Unlock, At, NoFlush, ShapeOf, IndInv, Typed, ContextsTyped, Flushes
  <1>3. Drives(c)' => loc'[c].rcu /\ (Drives(c) \/ ~Quiesced)
    BY <1>0 DEF QueueRqs, Unlock, At, NoFlush, Drives, InDispatch, Popped, InPhase, ShapeOf, IndInv, Typed, ContextsTyped, Locals, Flushes
  <1> QED
    BY <1>0, <1>1, <1>2, <1>3, StepKept

LEMMA NextRqKeepsInv ==
  ASSUME IndInv, NEW c \in Threads, NEW r \in Requests, NextRq(c, r)
  PROVE  FlushShape' /\ Counted' /\ DrivingReads' /\ DrivingAwaited'
  <1>0. c \in Contexts /\ plug[c] \in Flushes /\ loc[c] \in Locals /\ ShapeOf(c) /\ (Drives(c) => loc[c].rcu)
    BY ContextTypes DEF IndInv, Typed, ContextsTyped, FlushShape, DrivingReads, Driving
  <1>1. /\ waits' = waits /\ depth' = depth
        /\ pc[c] \notin {"wait", "quiesced"} /\ pc'[c] \notin {"wait", "quiesced"}
        /\ \A d \in Contexts \ {c} : pc'[d] = pc[d] /\ loc'[d] = loc[d]
        /\ \A d \in Threads \ {c} : plug'[d] = plug[d]
    BY <1>0 DEF NextRq, InPhase, Lock, Left, Popped, Without, At, Goto, IndInv, Typed, ContextsTyped
  <1>2. ShapeOf(c)'
    <2>1. plug[c].phase \in {"each", "list"} /\ plug[c].rq = None /\ pc[c] = "idle"
      BY <1>0 DEF NextRq, InPhase, Popped, At
    <2>2. \/ plug' = [plug EXCEPT ![c] = [Without(c, r) EXCEPT !.sent = TRUE]]
          \/ plug' = [plug EXCEPT ![c] = [Without(c, r) EXCEPT !.rq = r]] /\ pc' = pc
      BY DEF NextRq
    <2>3. Without(c, r) \in Flushes /\ Without(c, r).phase = plug[c].phase /\ Without(c, r).rq = None
      BY <1>0, <2>1 DEF Without, Flushes
    <2>4. \/ plug'[c] = [Without(c, r) EXCEPT !.sent = TRUE]
          \/ plug'[c] = [Without(c, r) EXCEPT !.rq = r] /\ pc' = pc
      BY <2>2 DEF IndInv, Typed, ContextsTyped
    <2>5. plug'[c].phase = plug[c].phase /\ (plug'[c].rq = None \/ pc' = pc)
      BY <2>3, <2>4 DEF Flushes
    <2> QED
      BY <2>1, <2>5 DEF ShapeOf
  <1>3. Drives(c)' => loc'[c].rcu /\ (Drives(c) \/ ~Quiesced)
    BY <1>0 DEF NextRq, InPhase, Lock, Left, Popped, Without, At, Goto, Drives, InDispatch, ShapeOf, IndInv, Typed, ContextsTyped, Locals, Flushes
  <1> QED
    BY <1>0, <1>1, <1>2, <1>3, StepKept

LEMMA IssuePluggedKeepsInv ==
  ASSUME IndInv, NEW c \in Threads, IssuePlugged(c)
  PROVE  FlushShape' /\ Counted' /\ DrivingReads' /\ DrivingAwaited'
  <1>0. c \in Contexts /\ plug[c] \in Flushes /\ loc[c] \in Locals /\ ShapeOf(c) /\ (Drives(c) => loc[c].rcu)
    BY ContextTypes DEF IndInv, Typed, ContextsTyped, FlushShape, DrivingReads, Driving
  <1>1. /\ waits' = waits /\ depth' = depth
        /\ pc[c] \notin {"wait", "quiesced"} /\ pc'[c] \notin {"wait", "quiesced"}
        /\ \A d \in Contexts \ {c} : pc'[d] = pc[d] /\ loc'[d] = loc[d]
        /\ \A d \in Threads \ {c} : plug'[d] = plug[d]
    BY <1>0 DEF IssuePlugged, Popped, BypassInsert, Unlock, At, Goto, IndInv, Typed, ContextsTyped
  <1>2. plug'[c].rq = None /\ plug'[c].phase # "rqs"
    <2> DEFINE one == [plug[c] EXCEPT !.rq = None]
    <2>1. one \in Flushes /\ one.rq = None /\ one.phase = plug[c].phase /\ one.phase # "rqs"
      BY <1>0 DEF IssuePlugged, Popped, At, ShapeOf, Flushes
    <2>2. \/ plug' = [plug EXCEPT ![c] = [one EXCEPT !.sent = TRUE]]
          \/ plug' = [plug EXCEPT ![c] = [one EXCEPT !.failed = TRUE]]
          \/ plug' = [plug EXCEPT ![c] =
                       [one EXCEPT !.failed = TRUE, !.phase = IF @ = "each" THEN "each_end" ELSE "list_end"]]
      BY DEF IssuePlugged
    <2>3. \/ plug'[c] = [one EXCEPT !.sent = TRUE]
          \/ plug'[c] = [one EXCEPT !.failed = TRUE]
          \/ plug'[c] = [one EXCEPT !.failed = TRUE, !.phase = IF @ = "each" THEN "each_end" ELSE "list_end"]
      <3> HIDE DEF one
      <3> QED
        BY <2>2 DEF IndInv, Typed, ContextsTyped
    <2> HIDE DEF one
    <2> QED
      BY <2>1, <2>3 DEF Flushes
  <1>3. ~Drives(c)'
    <2>1. pc'[c] \in {"idle", "mark"}
      BY <1>0 DEF IssuePlugged, Popped, BypassInsert, At, Goto, IndInv, Typed, ContextsTyped
    <2> QED
      BY <1>2, <2>1 DEF Drives, InDispatch, Popped, InPhase
  <1> QED
    BY <1>0, <1>1, <1>2, <1>3, StepKept DEF ShapeOf

LEMMA EachEndKeepsInv ==
  ASSUME IndInv, NEW c \in Threads, EachEnd(c)
  PROVE  FlushShape' /\ Counted' /\ DrivingReads' /\ DrivingAwaited'
  <1>0. c \in Contexts /\ plug[c] \in Flushes /\ loc[c] \in Locals /\ ShapeOf(c) /\ (Drives(c) => loc[c].rcu)
    BY ContextTypes DEF IndInv, Typed, ContextsTyped, FlushShape, DrivingReads, Driving
  <1>1. /\ waits' = waits /\ depth' = depth
        /\ pc[c] \notin {"wait", "quiesced"} /\ pc'[c] \notin {"wait", "quiesced"}
        /\ \A d \in Contexts \ {c} : pc'[d] = pc[d] /\ loc'[d] = loc[d]
        /\ \A d \in Threads \ {c} : plug'[d] = plug[d]
    BY <1>0 DEF EachEnd, InPhase, LoopDone, CommitRqs, At, Popped, NoFlush, IndInv, Typed, ContextsTyped
  <1>2. ShapeOf(c)'
    BY <1>0 DEF EachEnd, InPhase, LoopDone, CommitRqs, At, Popped, NoFlush, ShapeOf, IndInv, Typed, ContextsTyped, Flushes
  <1>3. Drives(c)' => loc'[c].rcu /\ (Drives(c) \/ ~Quiesced)
    BY <1>0 DEF EachEnd, InPhase, LoopDone, CommitRqs, At, Popped, NoFlush, Drives, InDispatch, ShapeOf, IndInv, Typed, ContextsTyped, Locals, Flushes
  <1> QED
    BY <1>0, <1>1, <1>2, <1>3, StepKept

LEMMA ListEndKeepsInv ==
  ASSUME IndInv, NEW c \in Threads, ListEnd(c)
  PROVE  FlushShape' /\ Counted' /\ DrivingReads' /\ DrivingAwaited'
  <1>0. c \in Contexts /\ plug[c] \in Flushes /\ loc[c] \in Locals /\ ShapeOf(c) /\ (Drives(c) => loc[c].rcu)
    BY ContextTypes DEF IndInv, Typed, ContextsTyped, FlushShape, DrivingReads, Driving
  <1>1. /\ waits' = waits /\ depth' = depth
        /\ pc[c] \notin {"wait", "quiesced"} /\ pc'[c] \notin {"wait", "quiesced"}
        /\ \A d \in Contexts \ {c} : pc'[d] = pc[d] /\ loc'[d] = loc[d]
        /\ \A d \in Threads \ {c} : plug'[d] = plug[d]
    BY <1>0 DEF ListEnd, InPhase, LoopDone, CommitRqs, AfterGroup, At, Popped, NoFlush, IndInv, Typed, ContextsTyped
  <1>2. ShapeOf(c)'
    BY <1>0 DEF ListEnd, InPhase, LoopDone, CommitRqs, AfterGroup, At, Popped, NoFlush, ShapeOf, IndInv, Typed, ContextsTyped, Flushes
  <1>3. Drives(c)' => loc'[c].rcu /\ (Drives(c) \/ ~Quiesced)
    BY <1>0 DEF ListEnd, InPhase, LoopDone, CommitRqs, AfterGroup, At, Popped, NoFlush, Drives, InDispatch, ShapeOf, IndInv, Typed, ContextsTyped, Locals, Flushes
  <1> QED
    BY <1>0, <1>1, <1>2, <1>3, StepKept

LEMMA TakeGroupKeepsInv ==
  ASSUME IndInv, NEW c \in Threads, NEW i \in Cpus, TakeGroup(c, i)
  PROVE  FlushShape' /\ Counted' /\ DrivingReads' /\ DrivingAwaited'
  <1>0. c \in Contexts /\ plug[c] \in Flushes /\ loc[c] \in Locals /\ ShapeOf(c) /\ (Drives(c) => loc[c].rcu)
    BY ContextTypes DEF IndInv, Typed, ContextsTyped, FlushShape, DrivingReads, Driving
  <1>1. /\ waits' = waits /\ depth' = depth
        /\ pc[c] \notin {"wait", "quiesced"} /\ pc'[c] \notin {"wait", "quiesced"}
        /\ \A d \in Contexts \ {c} : pc'[d] = pc[d] /\ loc'[d] = loc[d]
        /\ \A d \in Threads \ {c} : plug'[d] = plug[d]
    BY <1>0 DEF TakeGroup, InPhase, vars, At, Popped, IndInv, Typed, ContextsTyped
  <1>2. ShapeOf(c)'
    BY <1>0 DEF TakeGroup, InPhase, vars, At, Popped, ShapeOf, IndInv, Typed, ContextsTyped, Flushes
  <1>3. Drives(c)' => loc'[c].rcu /\ (Drives(c) \/ ~Quiesced)
    BY <1>0 DEF TakeGroup, InPhase, vars, At, Popped, Drives, InDispatch, ShapeOf, IndInv, Typed, ContextsTyped, Locals, Flushes
  <1> QED
    BY <1>0, <1>1, <1>2, <1>3, StepKept

LEMMA InsertRequestsKeepsInv ==
  ASSUME IndInv, NEW c \in Threads, InsertRequests(c)
  PROVE  FlushShape' /\ Counted' /\ DrivingReads' /\ DrivingAwaited'
  <1>0. c \in Contexts /\ plug[c] \in Flushes /\ loc[c] \in Locals /\ ShapeOf(c) /\ (Drives(c) => loc[c].rcu)
    BY ContextTypes DEF IndInv, Typed, ContextsTyped, FlushShape, DrivingReads, Driving
  <1>1. /\ waits' = waits /\ depth' = depth
        /\ pc[c] \notin {"wait", "quiesced"} /\ pc'[c] \notin {"wait", "quiesced"}
        /\ \A d \in Contexts \ {c} : pc'[d] = pc[d] /\ loc'[d] = loc[d]
        /\ \A d \in Threads \ {c} : plug'[d] = plug[d]
    BY <1>0 DEF InsertRequests, InPhase, AfterGroup, At, Popped, Goto, NoFlush, IndInv, Typed, ContextsTyped
  <1>2. ShapeOf(c)'
    BY <1>0 DEF InsertRequests, InPhase, AfterGroup, At, Popped, Goto, NoFlush, ShapeOf, IndInv, Typed, ContextsTyped, Flushes
  <1>3. Drives(c)' => loc'[c].rcu /\ (Drives(c) \/ ~Quiesced)
    BY <1>0 DEF InsertRequests, InPhase, AfterGroup, At, Popped, Goto, NoFlush, Drives, InDispatch, ShapeOf, IndInv, Typed, ContextsTyped, Locals, Flushes
  <1> QED
    BY <1>0, <1>1, <1>2, <1>3, StepKept

(* Whoever drives when a quiescer comes is a reader the grace period waits *)
(* for.                                                                    *)
LEMMA QuiesceBeginKeepsInv ==
  ASSUME IndInv, UNCHANGED plug, NEW q \in Quiescers, QuiesceBegin(q)
  PROVE  FlushShape' /\ Counted' /\ DrivingReads' /\ DrivingAwaited'
  <1>0. /\ q \in Contexts /\ q \notin Threads
        /\ pc[q] = "idle" /\ pc' = [pc EXCEPT ![q] = "wait"] /\ pc \in [Contexts -> Places]
    BY ContextTypes DEF QuiesceBegin, At, Goto, IndInv, Typed, ContextsTyped
  <1>1. \A c \in Contexts : Drives(c)' <=> Drives(c)
    BY <1>0 DEF Drives, Popped, InPhase, At, InDispatch
  <1>2. Driving' = Driving
    BY <1>1 DEF Driving
  <1>3. FlushShape'
    BY <1>0, ContextTypes DEF IndInv, FlushShape, ShapeOf
  <1>4. Counted'
    <2>1. q \notin Quiescing /\ Quiescing' = Quiescing \cup {q}
      BY <1>0, ContextTypes DEF Quiescing
    <2>2. IsFiniteSet(Quiescing) /\ depth = Cardinality(Quiescing) /\ depth' = depth + 1
      BY DEF QuiesceBegin, IndInv, Counted
    <2>3. IsFiniteSet(Quiescing \cup {q}) /\ Cardinality(Quiescing \cup {q}) = Cardinality(Quiescing) + 1
      BY <2>1, <2>2, FS_AddElement
    <2> QED
      BY <2>1, <2>2, <2>3 DEF Counted
  <1>5. DrivingReads'
    BY <1>2 DEF QuiesceBegin, IndInv, DrivingReads
  <1>6. DrivingAwaited'
    <2>1. Driving \subseteq {c \in Contexts : Reading(c)}
      BY DEF IndInv, DrivingReads, Driving, Reading
    <2>2. waits' = [waits EXCEPT ![q] = {c \in Contexts : Reading(c)}]
      BY DEF QuiesceBegin
    <2>3. waits \in [Quiescers -> SUBSET Contexts]
      BY DEF IndInv, Typed, BoundsTyped
    <2> HIDE DEF Driving
    <2> QED
      BY <1>0, <1>2, <2>1, <2>2, <2>3, ContextTypes DEF IndInv, DrivingAwaited
  <1> QED
    BY <1>3, <1>4, <1>5, <1>6

LEMMA QuiesceWaitKeepsInv ==
  ASSUME IndInv, UNCHANGED plug, NEW q \in Quiescers, QuiesceWait(q)
  PROVE  FlushShape' /\ Counted' /\ DrivingReads' /\ DrivingAwaited'
  <1>0. /\ q \in Contexts /\ q \notin Threads /\ pc[q] = "wait"
        /\ pc' = pc \/ pc' = [pc EXCEPT ![q] = "quiesced"]
        /\ pc \in [Contexts -> Places] /\ loc' = loc /\ plug' = plug
        /\ waits \in [Quiescers -> SUBSET Contexts]
    BY ContextTypes DEF QuiesceWait, At, Goto, IndInv, Typed, ContextsTyped, BoundsTyped
  <1>1. \A c \in Contexts : Drives(c)' <=> Drives(c)
    BY <1>0 DEF Drives, Popped, InPhase, At, InDispatch
  <1>2. Driving' = Driving
    BY <1>1 DEF Driving
  <1>3. FlushShape'
    BY <1>0, ContextTypes DEF IndInv, FlushShape, ShapeOf
  <1>4. Counted'
    <2>1. Quiescing' = Quiescing /\ depth' = depth
      BY <1>0, ContextTypes DEF Quiescing, QuiesceWait
    <2> QED
      BY <2>1 DEF IndInv, Counted
  <1>5. DrivingReads'
    BY <1>0, <1>2 DEF IndInv, DrivingReads
  <1>6. DrivingAwaited'
    <2>1. CASE \E c \in waits[q] : ~Reading(c) /\ waits' = [waits EXCEPT ![q] = @ \ {c}] /\ pc' = pc
      <3>1. PICK c \in waits[q] : ~Reading(c) /\ waits' = [waits EXCEPT ![q] = @ \ {c}] /\ pc' = pc
        BY <2>1
      <3>2. c \notin Driving
        BY <3>1 DEF IndInv, DrivingReads, Reading
      <3> HIDE DEF Driving
      <3> QED
        BY <1>0, <1>2, <3>1, <3>2 DEF IndInv, DrivingAwaited
    <2>2. CASE waits[q] = {} /\ pc' = [pc EXCEPT ![q] = "quiesced"] /\ waits' = waits
      <3> HIDE DEF Driving
      <3> QED
        BY <1>0, <1>2, <2>2, ContextTypes DEF IndInv, DrivingAwaited
    <2> QED
      BY <2>1, <2>2 DEF QuiesceWait, Goto
  <1> QED
    BY <1>3, <1>4, <1>5, <1>6

LEMMA UnquiesceKeepsInv ==
  ASSUME IndInv, UNCHANGED plug, NEW q \in Quiescers, Unquiesce(q)
  PROVE  FlushShape' /\ Counted' /\ DrivingReads' /\ DrivingAwaited' /\ depth > 0
  <1>0. /\ q \in Contexts /\ q \notin Threads /\ pc[q] = "quiesced"
        /\ pc' = [pc EXCEPT ![q] = "run"] \/ pc' = [pc EXCEPT ![q] = "idle"]
        /\ \A c \in Contexts \ {q} : loc'[c] = loc[c]
        /\ pc \in [Contexts -> Places] /\ plug' = plug /\ waits' = waits
    BY ContextTypes DEF Unquiesce, Finish, At, Goto, IndInv, Typed, ContextsTyped
  <1>1. ~Drives(q) /\ \A c \in Contexts : Drives(c)' <=> Drives(c)
    BY <1>0 DEF Drives, Popped, InPhase, At, InDispatch
  <1>2. Driving' = Driving /\ q \notin Driving
    BY <1>1 DEF Driving
  <1>3. FlushShape'
    BY <1>0, ContextTypes DEF IndInv, FlushShape, ShapeOf
  <1>4. Counted' /\ depth > 0
    <2>1. q \in Quiescing /\ Quiescing' = Quiescing \ {q}
      BY <1>0, ContextTypes DEF Quiescing
    <2>2. IsFiniteSet(Quiescing) /\ depth = Cardinality(Quiescing) /\ depth' = depth - 1
      BY DEF Unquiesce, IndInv, Counted
    <2>3. IsFiniteSet(Quiescing \ {q}) /\ Cardinality(Quiescing \ {q}) = Cardinality(Quiescing) - 1
      BY <2>1, <2>2, FS_RemoveElement
    <2>4. Cardinality(Quiescing \ {q}) \in Nat /\ Cardinality(Quiescing) \in Nat
      BY <2>2, <2>3, FS_CardinalityType
    <2> QED
      BY <2>1, <2>2, <2>3, <2>4 DEF Counted
  <1>5. DrivingReads'
    <2> HIDE DEF Driving
    <2> QED
      BY <1>0, <1>2 DEF IndInv, DrivingReads, Driving
  <1>6. DrivingAwaited'
    <2> HIDE DEF Driving
    <2> QED
      BY <1>0, <1>2, ContextTypes DEF IndInv, DrivingAwaited
  <1> QED
    BY <1>3, <1>4, <1>5, <1>6

-----------------------------------------------------------------------------
(* The invariant holds. *)

LEMMA InitHolds == PlugInit => IndInv
  <1> SUFFICES ASSUME PlugInit PROVE IndInv
    OBVIOUS
  <1>1. Typed
    BY TypedInit
  <1>2. Counted
    <2>1. Quiescing = {}
      BY ContextTypes DEF Quiescing, PlugInit, Init
    <2> QED
      BY <2>1, FS_EmptySet DEF Counted, PlugInit, Init
  <1>3. FlushShape
    BY DEF FlushShape, ShapeOf, PlugInit, NoFlush
  <1>4. Driving = {}
    BY DEF Driving, Drives, Popped, InPhase, InDispatch, PlugInit, Init, NoFlush
  <1> QED
    BY <1>1, <1>2, <1>3, <1>4 DEF IndInv, DrivingReads, DrivingAwaited

LEMMA StepHolds == IndInv /\ [PlugNext /\ UNCHANGED setup]_plugVars => IndInv'
  <1> SUFFICES ASSUME IndInv, [PlugNext /\ UNCHANGED setup]_plugVars PROVE IndInv'
    OBVIOUS
  <1>1. CASE UNCHANGED plugVars
    BY <1>1 DEF plugVars, vars, IndInv, Typed, ListsTyped, BoundsTyped, ContextsTyped, HandTyped, CpuOf, 
       Counted, Quiescing, FlushShape, ShapeOf, DrivingReads, DrivingAwaited, Driving, Drives,
       Popped, InPhase, At
  <1>2. CASE (Others /\ UNCHANGED plug) /\ UNCHANGED setup
    <2>0. Typed /\ UNCHANGED plug /\ UNCHANGED <<setup, plug>>
      BY <1>2 DEF IndInv
    <2>1. ASSUME NEW t \in setup.threads, plug[t].phase = "none", NEW r \in Requests, IssueDirectly(t, r)
          PROVE  IndInv'
      <3>1. t \in Threads
        BY <2>0 DEF Typed
      <3> QED
        BY <2>0, <2>1, <3>1, IssueDirectlyKeepsTypes, IssueDirectlyKeepsInv DEF IndInv
    <2>2. ASSUME NEW c \in Contexts, Step(c)
          PROVE  IndInv'
      <3>1. CASE QueueDirectly(c)
        BY <2>0, <3>1, QueueDirectlyKeepsTypes, QueueDirectlyKeepsInv DEF IndInv
      <3>2. CASE MarkCpu(c)
        BY <2>0, <3>2, MarkCpuKeepsTypes, MarkCpuKeepsInv DEF IndInv
      <3>3. CASE Stage(c)
        BY <2>0, <3>3, StageKeepsTypes, StageKeepsInv DEF IndInv
      <3>4. CASE RunCheckDispatch(c)
        BY <2>0, <3>4, RunCheckDispatchKeepsTypes, RunCheckDispatchKeepsInv DEF IndInv
      <3>5. CASE RunCheckMask(c)
        BY <2>0, <3>5, RunCheckMaskKeepsTypes, RunCheckMaskKeepsInv DEF IndInv
      <3>6. CASE Enter(c)
        BY <2>0, <3>6, EnterKeepsTypes, EnterKeepsInv DEF IndInv
      <3>7. CASE Grab(c)
        BY <2>0, <3>7, GrabKeepsTypes, GrabKeepsInv DEF IndInv
      <3>8. CASE Collect(c)
        BY <2>0, <3>8, CollectKeepsTypes, CollectKeepsInv DEF IndInv
      <3>9. CASE CollectEnd(c)
        BY <2>0, <3>9, CollectEndKeepsTypes, CollectEndKeepsInv DEF IndInv
      <3>10. ASSUME NEW r \in Requests, Issue(c, r) PROVE IndInv'
        BY <2>0, <3>10, IssueKeepsTypes, IssueKeepsInv DEF IndInv
      <3>11. CASE Commit(c)
        BY <2>0, <3>11, CommitKeepsTypes, CommitKeepsInv DEF IndInv
      <3>12. CASE PutBack(c)
        BY <2>0, <3>12, PutBackKeepsTypes, PutBackKeepsInv DEF IndInv
      <3>13. CASE Rerun(c)
        BY <2>0, <3>13, RerunKeepsTypes, RerunKeepsInv DEF IndInv
      <3>14. CASE LookAgain(c)
        BY <2>0, <3>14, LookAgainKeepsTypes, LookAgainKeepsInv DEF IndInv
      <3> QED
        BY <2>2, <3>1, <3>2, <3>3, <3>4, <3>5, <3>6, <3>7, <3>8, <3>9, <3>10, <3>11, <3>12, <3>13, <3>14
           DEF Step, Dispatch
    <2>3. CASE WorkStart
      BY <2>0, <2>3, WorkStartKeepsTypes, WorkStartKeepsInv DEF IndInv
    <2>4. ASSUME NEW r \in Requests, Complete(r) PROVE IndInv'
      BY <2>0, <2>4, CompleteKeepsTypes, CompleteKeepsInv DEF IndInv
    <2>5. CASE Restart
      BY <2>0, <2>5, RestartKeepsTypes, RestartKeepsInv DEF IndInv
    <2>6. ASSUME NEW q \in setup.quiescers, QuiesceBegin(q) \/ QuiesceStep(q)
          PROVE  IndInv'
      <3>0. q \in Quiescers
        BY <2>0 DEF Typed
      <3>1. CASE QuiesceBegin(q)
        BY <2>0, <3>0, <3>1, QuiesceBeginKeepsTypes, QuiesceBeginKeepsInv DEF IndInv
      <3>2. CASE QuiesceWait(q)
        BY <2>0, <3>0, <3>2, QuiesceWaitKeepsTypes, QuiesceWaitKeepsInv DEF IndInv
      <3>3. CASE Unquiesce(q)
        <4>1. depth > 0
          BY <2>0, <3>0, <3>3, UnquiesceKeepsInv
        <4> QED
          BY <2>0, <3>0, <3>3, <4>1, UnquiesceKeepsTypes, UnquiesceKeepsInv DEF IndInv
      <3> QED
        BY <2>6, <3>1, <3>2, <3>3 DEF QuiesceStep
    <2> QED
      BY <1>2, <2>1, <2>2, <2>3, <2>4, <2>5, <2>6 DEF Others, Submit, CompleteAny
  <1>3. ASSUME UNCHANGED setup, NEW t \in setup.threads, NEW R \in SUBSET Requests, FlushPlug(t, R)
        PROVE  IndInv'
    <2>1. t \in Threads /\ Typed
      BY DEF IndInv, Typed
    <2> QED
      BY <1>3, <2>1, FlushPlugKeepsTypes, FlushPlugKeepsInv DEF IndInv
  <1>4. ASSUME UNCHANGED setup, NEW t \in setup.threads, FlushStep(t)
        PROVE  IndInv'
    <2>0. t \in Threads /\ Typed /\ UNCHANGED setup
      BY <1>4 DEF IndInv, Typed
    <2>1. ASSUME NEW S \in SUBSET Requests, QueueRqs(t, S) PROVE IndInv'
      BY <2>0, <2>1, QueueRqsKeepsTypes, QueueRqsKeepsInv DEF IndInv
    <2>2. ASSUME NEW r \in Requests, NextRq(t, r) PROVE IndInv'
      BY <2>0, <2>2, NextRqKeepsTypes, NextRqKeepsInv DEF IndInv
    <2>3. CASE IssuePlugged(t)
      BY <2>0, <2>3, IssuePluggedKeepsTypes, IssuePluggedKeepsInv DEF IndInv
    <2>4. CASE EachEnd(t)
      BY <2>0, <2>4, EachEndKeepsTypes, EachEndKeepsInv DEF IndInv
    <2>5. CASE ListEnd(t)
      BY <2>0, <2>5, ListEndKeepsTypes, ListEndKeepsInv DEF IndInv
    <2>6. ASSUME NEW i \in Cpus, TakeGroup(t, i) PROVE IndInv'
      BY <2>0, <2>6, TakeGroupKeepsTypes, TakeGroupKeepsInv DEF IndInv
    <2>7. CASE InsertRequests(t)
      BY <2>0, <2>7, InsertRequestsKeepsTypes, InsertRequestsKeepsInv DEF IndInv
    <2> QED
      BY <1>4, <2>1, <2>2, <2>3, <2>4, <2>5, <2>6, <2>7 DEF FlushStep
  <1> QED
    BY <1>1, <1>2, <1>3, <1>4 DEF PlugNext

(* The invariant holds in every run of every workload: a context that is *)
(* on its way to queue_rq() is one each quiescer's grace period waits for  *)
(* (blk-mq.c:253, 2807).                                                   *)
THEOREM PlugInvariance == PlugSpec => []IndInv
  BY InitHolds, StepHolds, PTL DEF PlugSpec

(* Every variable has its type, however threads flush and submit. *)
THEOREM PlugTypeCorrectness == PlugSpec => []PlugTypeOK
  <1>1. IndInv => PlugTypeOK
    BY TypedMeans DEF IndInv
  <1> QED
    BY <1>1, PlugInvariance, PTL

(* Once blk_mq_quiesce_queue() has returned to anybody, and until that one *)
(* unquiesces the queue, no context dispatches or hands requests to the    *)
(* driver: the grace period that each quiescer waits for is long enough    *)
(* though sections are reopened per request (blk-mq.c:253, 2807, 3046).    *)
THEOREM QuiesceIsRespected == PlugSpec => []QuiescedNoDispatch
  <1>1. IndInv => QuiescedNoDispatch
    <2> SUFFICES ASSUME IndInv, NEW q \in Quiescers, At(q, "quiesced")
                 PROVE  /\ \A c \in Contexts : pc[c] \notin InDispatch \cup {"direct"}
                        /\ \A t \in Threads : ~Popped(t) /\ ~InPhase(t, "rqs")
      BY DEF QuiescedNoDispatch
    <2>1. Driving = {}
      BY DEF IndInv, DrivingAwaited, At
    <2> QED
      BY <2>1, ContextTypes DEF Driving, Drives
  <1> QED
    BY <1>1, PlugInvariance, PTL
-----------------------------------------------------------------------------
(* Where a request can be: which kind of list, and whose. *)
Kinds == {"vnq", "context", "plug", "group", "hand", "dispatch", "driver", "done"}
OwnersOf(k) ==
  CASE k = "vnq" -> Cpus
    [] k = "context" -> Contexts
    [] k \in {"plug", "group", "hand"} -> Threads
    [] OTHER -> {None}

Holds(k, w, r) ==
  \/ k = "vnq" /\ r \in staged[w]
  \/ k = "context" /\ r \in Held(w)
  \/ k = "plug" /\ r \in plug[w].list
  \/ k = "group" /\ r \in plug[w].batch
  \/ k = "hand" /\ r = plug[w].rq
  \/ k = "dispatch" /\ r \in dispatch
  \/ k = "driver" /\ r \in driver
  \/ k = "done" /\ r \in done

OneSpot ==
  \A r \in Requests, k, l \in Kinds : \A v \in OwnersOf(k), w \in OwnersOf(l) :
    Holds(k, v, r) /\ Holds(l, w, r) => k = l /\ v = w

(* A context keeps a single request only while it stages or issues it, and *)
(* a batch only while it dispatches; who issues directly has no plug.      *)
HandsEmpty ==
  \A c \in Contexts :
    /\ pc[c] \notin {"direct", "mark", "stage"} => loc[c].rq = None
    /\ pc[c] \notin {"collect", "issue", "commit", "put_back"} => loc[c].batch = {}
DirectHasNoPlug ==
  /\ "direct" \in setup.paths => setup.paths = {"direct"}
  /\ "direct" \in setup.paths => \A t \in Threads : plug[t] = NoFlush

PlaceInv == OneSpot /\ HandsEmpty /\ DirectHasNoPlug

-----------------------------------------------------------------------------
(* Requests that move from one place to another are still in one place;    *)
(* so are those that come from nowhere, and those of a list that is lost.  *)
SpotsKept ==
  \A r \in Requests, k \in Kinds : \A w \in OwnersOf(k) : Holds(k, w, r)' => Holds(k, w, r)

Moved(M, j, u, l, v) ==
  /\ M \subseteq Requests /\ j \in Kinds /\ u \in OwnersOf(j) /\ \A r \in M : Holds(j, u, r)
  /\ \A r \in Requests, k \in Kinds : \A w \in OwnersOf(k) :
       Holds(k, w, r)' => \/ Holds(k, w, r) /\ ~(r \in M /\ k = j /\ w = u)
                          \/ r \in M /\ k = l /\ w = v

Filled(M, l, v) ==
  /\ \A r \in M, k \in Kinds : \A w \in OwnersOf(k) : ~Holds(k, w, r)
  /\ \A r \in Requests, k \in Kinds : \A w \in OwnersOf(k) :
       Holds(k, w, r)' => Holds(k, w, r) \/ (r \in M /\ k = l /\ w = v)

LEMMA KeptInPlace ==
  ASSUME OneSpot, SpotsKept PROVE OneSpot'
  BY DEF OneSpot, SpotsKept

LEMMA MovedInPlace ==
  ASSUME OneSpot, NEW M, NEW j, NEW u, NEW l, NEW v, Moved(M, j, u, l, v)
  PROVE  OneSpot'
  <1>1. \A r \in M, k \in Kinds : \A w \in OwnersOf(k) : Holds(k, w, r)' => k = l /\ w = v
    BY DEF OneSpot, Moved
  <1>2. \A r \in Requests \ M, k \in Kinds : \A w \in OwnersOf(k) : Holds(k, w, r)' => Holds(k, w, r)
    BY DEF Moved
  <1> QED
    BY <1>1, <1>2 DEF OneSpot

LEMMA FilledInPlace ==
  ASSUME OneSpot, NEW M, NEW l, NEW v, Filled(M, l, v)
  PROVE  OneSpot'
  BY DEF OneSpot, Filled

LEMMA FreshIsNowhere ==
  ASSUME NEW r \in Fresh \ InPlug, r \in Requests, NEW k \in Kinds, NEW w \in OwnersOf(k)
  PROVE  ~Holds(k, w, r)
  <1>1. /\ \A i \in Cpus : r \notin staged[i]
        /\ \A c \in Contexts : r \notin Held(c)
        /\ r \notin dispatch /\ r \notin driver /\ r \notin done
    BY DEF Fresh, InHctx
  <1>2. \A t \in Threads : r \notin plug[t].list /\ r \notin plug[t].batch
    <2> SUFFICES ASSUME NEW t \in Threads
                 PROVE  r \notin plug[t].list \cup plug[t].batch
      OBVIOUS
    <2>1. plug[t].list \cup plug[t].batch \in {plug[s].list \cup plug[s].batch : s \in Threads}
      OBVIOUS
    <2>2. plug[t].list \cup plug[t].batch \subseteq UNION {plug[s].list \cup plug[s].batch : s \in Threads}
      BY <2>1
    <2> QED
      BY <2>2 DEF InPlug
  <1>3. \A t \in Threads : r # plug[t].rq
    <2>1. {plug[t].rq : t \in Threads} \ {None} \subseteq InPlug
      BY DEF InPlug
    <2> QED
      BY <2>1, ContextTypes
  <1>4. CASE k \in {"vnq", "context"}
    BY <1>1, <1>4 DEF OwnersOf, Holds
  <1>5. CASE k \in {"plug", "group", "hand"}
    BY <1>2, <1>3, <1>5 DEF OwnersOf, Holds
  <1>6. CASE k \in {"dispatch", "driver", "done"}
    BY <1>1, <1>6 DEF OwnersOf, Holds
  <1> QED
    BY <1>4, <1>5, <1>6 DEF Kinds

LEMMA HeldShrinks ==
  ASSUME NEW d \in Contexts, loc'[d].rq = loc[d].rq \/ loc'[d].rq = None,
         loc'[d].batch = loc[d].batch \/ loc'[d].batch = {}
  PROVE  Held(d)' \subseteq Held(d)
  <1>1. CASE loc'[d].rq = None
    BY <1>1 DEF Held
  <1>2. CASE loc'[d].rq = loc[d].rq /\ loc[d].rq # None
    BY <1>2 DEF Held
  <1> QED
    BY <1>1, <1>2

LEMMA IdlePlugsAreEmpty ==
  ASSUME \A t \in Threads : plug[t] = NoFlush
  PROVE  InPlug \cap Requests = {}
  BY DispatchAssumption DEF InPlug, NoFlush, DispatchAssumption

LEMMA QueueDirectlyKeepsPlace ==
  ASSUME IndInv, PlaceInv, UNCHANGED setup, UNCHANGED plug, NEW c \in Contexts, QueueDirectly(c)
  PROVE  OneSpot' /\ HandsEmpty'
  <1>0. c \in Contexts /\ Typed /\ OneSpot /\ HandsEmpty /\ loc[c] \in Locals /\ loc[c].rq \in Requests
    BY DEF IndInv, PlaceInv, Typed, ContextsTyped, HandTyped, QueueDirectly, At
  <1>1. CASE (Accepted(loc[c].rq, TRUE) \/ Failed(loc[c].rq)) /\ Finish(c)
    <2>1. "context" \in Kinds /\ c \in OwnersOf("context") /\ \A r \in {loc[c].rq} : Holds("context", c, r)
      BY <1>0, ContextTypes DEF Kinds, OwnersOf, Holds, Held
    <2>2. \A s \in Requests, k \in Kinds : \A w \in OwnersOf(k) :
            Holds(k, w, s)' => \/ Holds(k, w, s) /\ ~(s \in {loc[c].rq} /\ k = "context" /\ w = c)
                               \/ s \in {loc[c].rq} /\ k = "driver" /\ w = None
      BY <1>0, <1>1, ContextTypes DEF QueueDirectly, Accepted, Failed, At, Goto, Finish, NoLoc, Holds, Held, Kinds, OwnersOf, Typed, ContextsTyped, Locals
    <2>3. Moved({loc[c].rq}, "context", c, "driver", None)
      BY <2>1, <2>2, <1>0 DEF Moved
    <2>4. OneSpot'
      BY <1>0, <2>3, MovedInPlace
    <2> QED
      BY <1>0, <1>1, <2>4 DEF QueueDirectly, At, Goto, Finish, NoLoc, HandsEmpty, Typed, ContextsTyped
  <1>2. CASE Refused /\ BypassInsert(c, loc[c].rq, TRUE)
    <2>1. loc'[c].rq = loc[c].rq /\ loc'[c].batch = loc[c].batch /\ \A d \in Contexts \ {c} : loc'[d] = loc[d]
      BY <1>0, <1>2 DEF BypassInsert, Typed, ContextsTyped, Locals
    <2>2. \A d \in Contexts : Held(d)' = Held(d)
      BY <2>1 DEF Held
    <2>3. SpotsKept
      BY <1>0, <1>2, <2>2 DEF QueueDirectly, Refused, SpotsKept, Holds, Kinds, OwnersOf
    <2>4. HandsEmpty'
      BY <1>0, <1>2, <2>1 DEF QueueDirectly, BypassInsert, At, Goto, HandsEmpty, Typed, ContextsTyped
    <2> QED
      BY <1>0, <2>3, <2>4, KeptInPlace
  <1> QED
    BY <1>1, <1>2 DEF QueueDirectly

LEMMA MarkCpuKeepsPlace ==
  ASSUME IndInv, PlaceInv, UNCHANGED setup, UNCHANGED plug, NEW c \in Contexts, MarkCpu(c)
  PROVE  OneSpot' /\ HandsEmpty'
  <1>0. c \in Contexts /\ Typed /\ OneSpot /\ HandsEmpty /\ loc[c] \in Locals
    BY ContextTypes DEF IndInv, PlaceInv, Typed, ContextsTyped
  <1>1. OneSpot'
    <2>1. \A d \in Contexts : /\ loc'[d].rq = loc[d].rq \/ loc'[d].rq = None
                              /\ loc'[d].batch = loc[d].batch \/ loc'[d].batch = {}
      BY <1>0 DEF MarkCpu, At, Goto, Finish, NoLoc, Typed, ContextsTyped, Locals
    <2>2. \A d \in Contexts : Held(d)' \subseteq Held(d)
      BY <2>1, HeldShrinks
    <2>3. SpotsKept
      BY <2>2 DEF MarkCpu, SpotsKept, Holds, Kinds, OwnersOf
    <2> QED
      BY <1>0, <2>3, KeptInPlace
  <1>2. HandsEmpty'
    BY <1>0 DEF MarkCpu, At, Goto, Finish, NoLoc, HandsEmpty, Typed, ContextsTyped, Locals
  <1> QED
    BY <1>1, <1>2

LEMMA StageKeepsPlace ==
  ASSUME IndInv, PlaceInv, UNCHANGED setup, UNCHANGED plug, NEW c \in Contexts, Stage(c)
  PROVE  OneSpot' /\ HandsEmpty'
  <1>0. c \in Contexts /\ Typed /\ OneSpot /\ HandsEmpty /\ loc[c] \in Locals
    BY ContextTypes DEF IndInv, PlaceInv, Typed, ContextsTyped
  <1>1. OneSpot'
    <2> DEFINE M == {loc[c].rq}
    <2>1. M \in SUBSET Requests /\ "context" \in Kinds /\ c \in OwnersOf("context") /\ \A s \in M : Holds("context", c, s)
      BY <1>0, ContextTypes DEF Stage, At, HandsEmpty, Holds, Held, Kinds, OwnersOf, Typed, ContextsTyped, ListsTyped, HandTyped, Locals, CpuOf
    <2>2. \A s \in Requests, k \in Kinds : \A w \in OwnersOf(k) :
            Holds(k, w, s)' => \/ Holds(k, w, s) /\ ~(s \in M /\ k = "context" /\ w = c)
                               \/ s \in M /\ k = "vnq" /\ w = CpuOf[loc[c].rq]
      BY <1>0, <2>1, ContextTypes DEF Stage, At, Goto, Finish, NoLoc, HandsEmpty, Holds, Held, Kinds, OwnersOf, Typed, ContextsTyped, ListsTyped, HandTyped, Locals, CpuOf
    <2> HIDE DEF M
    <2>3. Moved(M, "context", c, "vnq", CpuOf[loc[c].rq])
      BY <2>1, <2>2 DEF Moved
    <2> QED
      BY <1>0, <2>3, MovedInPlace
  <1>2. HandsEmpty'
    BY <1>0 DEF Stage, At, Goto, Finish, NoLoc, HandsEmpty, Typed, ContextsTyped, Locals, CpuOf
  <1> QED
    BY <1>1, <1>2

LEMMA RunCheckDispatchKeepsPlace ==
  ASSUME IndInv, PlaceInv, UNCHANGED setup, UNCHANGED plug, NEW c \in Contexts, RunCheckDispatch(c)
  PROVE  OneSpot' /\ HandsEmpty'
  <1>0. c \in Contexts /\ Typed /\ OneSpot /\ HandsEmpty /\ loc[c] \in Locals
    BY ContextTypes DEF IndInv, PlaceInv, Typed, ContextsTyped
  <1>1. OneSpot'
    <2>1. \A d \in Contexts : /\ loc'[d].rq = loc[d].rq \/ loc'[d].rq = None
                              /\ loc'[d].batch = loc[d].batch \/ loc'[d].batch = {}
      BY <1>0 DEF RunCheckDispatch, At, Goto, Finish, NoLoc, Typed, ContextsTyped, Locals, NeedRun
    <2>2. \A d \in Contexts : Held(d)' \subseteq Held(d)
      BY <2>1, HeldShrinks
    <2>3. SpotsKept
      BY <2>2 DEF RunCheckDispatch, SpotsKept, Holds, Kinds, OwnersOf
    <2> QED
      BY <1>0, <2>3, KeptInPlace
  <1>2. HandsEmpty'
    BY <1>0 DEF RunCheckDispatch, At, Goto, Finish, NoLoc, HandsEmpty, Typed, ContextsTyped, Locals, NeedRun
  <1> QED
    BY <1>1, <1>2

LEMMA RunCheckMaskKeepsPlace ==
  ASSUME IndInv, PlaceInv, UNCHANGED setup, UNCHANGED plug, NEW c \in Contexts, RunCheckMask(c)
  PROVE  OneSpot' /\ HandsEmpty'
  <1>0. c \in Contexts /\ Typed /\ OneSpot /\ HandsEmpty /\ loc[c] \in Locals
    BY ContextTypes DEF IndInv, PlaceInv, Typed, ContextsTyped
  <1>1. OneSpot'
    <2>1. \A d \in Contexts : /\ loc'[d].rq = loc[d].rq \/ loc'[d].rq = None
                              /\ loc'[d].batch = loc[d].batch \/ loc'[d].batch = {}
      BY <1>0 DEF RunCheckMask, At, Goto, Finish, NoLoc, Typed, ContextsTyped, Locals, NeedRun
    <2>2. \A d \in Contexts : Held(d)' \subseteq Held(d)
      BY <2>1, HeldShrinks
    <2>3. SpotsKept
      BY <2>2 DEF RunCheckMask, SpotsKept, Holds, Kinds, OwnersOf
    <2> QED
      BY <1>0, <2>3, KeptInPlace
  <1>2. HandsEmpty'
    BY <1>0 DEF RunCheckMask, At, Goto, Finish, NoLoc, HandsEmpty, Typed, ContextsTyped, Locals, NeedRun
  <1> QED
    BY <1>1, <1>2

LEMMA EnterKeepsPlace ==
  ASSUME IndInv, PlaceInv, UNCHANGED setup, UNCHANGED plug, NEW c \in Contexts, Enter(c)
  PROVE  OneSpot' /\ HandsEmpty'
  <1>0. c \in Contexts /\ Typed /\ OneSpot /\ HandsEmpty /\ loc[c] \in Locals
    BY ContextTypes DEF IndInv, PlaceInv, Typed, ContextsTyped
  <1>1. OneSpot'
    <2>1. \A d \in Contexts : /\ loc'[d].rq = loc[d].rq \/ loc'[d].rq = None
                              /\ loc'[d].batch = loc[d].batch \/ loc'[d].batch = {}
      BY <1>0 DEF Enter, At, Goto, Finish, NoLoc, Typed, ContextsTyped, Locals
    <2>2. \A d \in Contexts : Held(d)' \subseteq Held(d)
      BY <2>1, HeldShrinks
    <2>3. SpotsKept
      BY <2>2 DEF Enter, SpotsKept, Holds, Kinds, OwnersOf
    <2> QED
      BY <1>0, <2>3, KeptInPlace
  <1>2. HandsEmpty'
    BY <1>0 DEF Enter, At, Goto, Finish, NoLoc, HandsEmpty, Typed, ContextsTyped, Locals
  <1> QED
    BY <1>1, <1>2

LEMMA GrabKeepsPlace ==
  ASSUME IndInv, PlaceInv, UNCHANGED setup, UNCHANGED plug, NEW c \in Contexts, Grab(c)
  PROVE  OneSpot' /\ HandsEmpty'
  <1>0. c \in Contexts /\ Typed /\ OneSpot /\ HandsEmpty /\ loc[c] \in Locals
    BY ContextTypes DEF IndInv, PlaceInv, Typed, ContextsTyped
  <1>1. OneSpot'
    <2> DEFINE M == dispatch
    <2>1. M \in SUBSET Requests /\ "dispatch" \in Kinds /\ None \in OwnersOf("dispatch") /\ \A s \in M : Holds("dispatch", None, s)
      BY <1>0, ContextTypes DEF Grab, At, HandsEmpty, Holds, Held, Kinds, OwnersOf, Typed, ContextsTyped, ListsTyped, HandTyped, Locals
    <2>2. \A s \in Requests, k \in Kinds : \A w \in OwnersOf(k) :
            Holds(k, w, s)' => \/ Holds(k, w, s) /\ ~(s \in M /\ k = "dispatch" /\ w = None)
                               \/ s \in M /\ k = "context" /\ w = c
      BY <1>0, <2>1, ContextTypes DEF Grab, At, Goto, Finish, NoLoc, HandsEmpty, Holds, Held, Kinds, OwnersOf, Typed, ContextsTyped, ListsTyped, HandTyped, Locals
    <2> HIDE DEF M
    <2>3. Moved(M, "dispatch", None, "context", c)
      BY <2>1, <2>2 DEF Moved
    <2> QED
      BY <1>0, <2>3, MovedInPlace
  <1>2. HandsEmpty'
    BY <1>0 DEF Grab, At, Goto, Finish, NoLoc, HandsEmpty, Typed, ContextsTyped, Locals
  <1> QED
    BY <1>1, <1>2

LEMMA CollectKeepsPlace ==
  ASSUME IndInv, PlaceInv, UNCHANGED setup, UNCHANGED plug, NEW c \in Contexts, Collect(c)
  PROVE  OneSpot' /\ HandsEmpty'
  <1>0. c \in Contexts /\ Typed /\ OneSpot /\ HandsEmpty /\ loc[c] \in Locals
    BY ContextTypes DEF IndInv, PlaceInv, Typed, ContextsTyped
  <1>1. PICK i \in Cpus : /\ loc' = [loc EXCEPT ![c].batch = @ \cup staged[i], ![c].cpu = i + 1]
                          /\ staged' = [staged EXCEPT ![i] = {}]
    <2>1. MarkedFrom(c) \in SUBSET Nat /\ MarkedFrom(c) \subseteq Cpus
      BY <1>0, ContextTypes DEF MarkedFrom, Typed, ListsTyped
    <2>2. Min(MarkedFrom(c)) \in Cpus
      BY <2>1, MinIsMember DEF Collect
    <2> QED
      BY <2>2 DEF Collect
  <1>2. /\ loc'[c].batch = loc[c].batch \cup staged[i] /\ loc'[c].rq = loc[c].rq
        /\ \A d \in Contexts \ {c} : loc'[d] = loc[d]
    BY <1>0, <1>1 DEF Typed, ContextsTyped, Locals
  <1>3. OneSpot'
    <2>1. staged[i] \in SUBSET Requests /\ "vnq" \in Kinds /\ i \in OwnersOf("vnq") /\ \A r \in staged[i] : Holds("vnq", i, r)
      BY <1>0, ContextTypes DEF Holds, Kinds, OwnersOf, Typed, ListsTyped
    <2>2. \A s \in Requests, k \in Kinds : \A w \in OwnersOf(k) :
            Holds(k, w, s)' => \/ Holds(k, w, s) /\ ~(s \in staged[i] /\ k = "vnq" /\ w = i)
                               \/ s \in staged[i] /\ k = "context" /\ w = c
      <3>1. /\ Held(c)' = Held(c) \cup staged[i] /\ \A d \in Contexts \ {c} : Held(d)' = Held(d)
            /\ staged'[i] = {} /\ \A w \in Cpus \ {i} : staged'[w] = staged[w]
        BY <1>0, <1>1, <1>2 DEF Held, Typed, ListsTyped
      <3> QED
        BY <1>0, <3>1, ContextTypes DEF Collect, Holds, Kinds, OwnersOf
    <2>3. Moved(staged[i], "vnq", i, "context", c)
      BY <2>1, <2>2 DEF Moved
    <2> QED
      BY <1>0, <2>3, MovedInPlace
  <1>4. HandsEmpty'
    BY <1>0, <1>2 DEF Collect, At, HandsEmpty, Typed, ContextsTyped
  <1> QED
    BY <1>3, <1>4

LEMMA CollectEndKeepsPlace ==
  ASSUME IndInv, PlaceInv, UNCHANGED setup, UNCHANGED plug, NEW c \in Contexts, CollectEnd(c)
  PROVE  OneSpot' /\ HandsEmpty'
  <1>0. c \in Contexts /\ Typed /\ OneSpot /\ HandsEmpty /\ loc[c] \in Locals
    BY ContextTypes DEF IndInv, PlaceInv, Typed, ContextsTyped
  <1>1. OneSpot'
    <2>1. \A d \in Contexts : /\ loc'[d].rq = loc[d].rq \/ loc'[d].rq = None
                              /\ loc'[d].batch = loc[d].batch \/ loc'[d].batch = {}
      BY <1>0 DEF CollectEnd, At, Goto, Finish, NoLoc, Typed, ContextsTyped, Locals
    <2>2. \A d \in Contexts : Held(d)' \subseteq Held(d)
      BY <2>1, HeldShrinks
    <2>3. SpotsKept
      BY <2>2 DEF CollectEnd, SpotsKept, Holds, Kinds, OwnersOf
    <2> QED
      BY <1>0, <2>3, KeptInPlace
  <1>2. HandsEmpty'
    BY <1>0 DEF CollectEnd, At, Goto, Finish, NoLoc, HandsEmpty, Typed, ContextsTyped, Locals
  <1> QED
    BY <1>1, <1>2

LEMMA IssueKeepsPlace ==
  ASSUME IndInv, PlaceInv, UNCHANGED setup, UNCHANGED plug, NEW c \in Contexts, NEW r \in Requests, Issue(c, r)
  PROVE  OneSpot' /\ HandsEmpty'
  <1>0. c \in Contexts /\ Typed /\ OneSpot /\ HandsEmpty /\ loc[c] \in Locals /\ loc[c].rq = None
    BY DEF IndInv, PlaceInv, Typed, ContextsTyped, HandsEmpty, Issue, At
  <1>1. loc'[c].rq = None /\ \A d \in Contexts \ {c} : loc'[d] = loc[d]
    BY <1>0 DEF Issue, Goto, Typed, ContextsTyped, Locals
  <1>2. ASSUME loc'[c].batch = loc[c].batch \ {r} /\ driver' = driver \cup {r}
        PROVE  OneSpot'
    <2>1. {r} \in SUBSET Requests /\ "context" \in Kinds /\ c \in OwnersOf("context") /\ \A s \in {r} : Holds("context", c, s)
      BY <1>0, ContextTypes DEF Issue, Kinds, OwnersOf, Holds, Held
    <2>2. \A s \in Requests, k \in Kinds : \A w \in OwnersOf(k) :
            Holds(k, w, s)' => \/ Holds(k, w, s) /\ ~(s \in {r} /\ k = "context" /\ w = c)
                               \/ s \in {r} /\ k = "driver" /\ w = None
      BY <1>0, <1>1, <1>2, ContextTypes DEF Issue, Holds, Held, Kinds, OwnersOf
    <2>3. Moved({r}, "context", c, "driver", None)
      BY <2>1, <2>2 DEF Moved
    <2> QED
      BY <1>0, <2>3, MovedInPlace
  <1>3. ASSUME loc'[c].batch = loc[c].batch /\ driver' = driver
        PROVE  OneSpot'
    <2>1. \A d \in Contexts : Held(d)' = Held(d)
      BY <1>0, <1>1, <1>3 DEF Held
    <2>2. SpotsKept
      BY <1>3, <2>1 DEF Issue, SpotsKept, Holds, Kinds, OwnersOf
    <2> QED
      BY <1>0, <2>2, KeptInPlace
  <1>4. \/ loc'[c].batch = loc[c].batch \ {r} /\ driver' = driver \cup {r}
        \/ loc'[c].batch = loc[c].batch /\ driver' = driver
    BY <1>0 DEF Issue, Accepted, Failed, Refused, Goto, Typed, ContextsTyped, Locals
  <1>5. HandsEmpty'
    BY <1>0, <1>1 DEF Issue, Goto, At, HandsEmpty, Typed, ContextsTyped
  <1> QED
    BY <1>2, <1>3, <1>4, <1>5

LEMMA CommitKeepsPlace ==
  ASSUME IndInv, PlaceInv, UNCHANGED setup, UNCHANGED plug, NEW c \in Contexts, Commit(c)
  PROVE  OneSpot' /\ HandsEmpty'
  <1>0. c \in Contexts /\ Typed /\ OneSpot /\ HandsEmpty /\ loc[c] \in Locals
    BY ContextTypes DEF IndInv, PlaceInv, Typed, ContextsTyped
  <1>1. OneSpot'
    <2>1. \A d \in Contexts : /\ loc'[d].rq = loc[d].rq \/ loc'[d].rq = None
                              /\ loc'[d].batch = loc[d].batch \/ loc'[d].batch = {}
      BY <1>0 DEF Commit, At, Goto, Finish, NoLoc, Typed, ContextsTyped, Locals, AfterIssue
    <2>2. \A d \in Contexts : Held(d)' \subseteq Held(d)
      BY <2>1, HeldShrinks
    <2>3. SpotsKept
      BY <2>2 DEF Commit, SpotsKept, Holds, Kinds, OwnersOf
    <2> QED
      BY <1>0, <2>3, KeptInPlace
  <1>2. HandsEmpty'
    BY <1>0 DEF Commit, At, Goto, Finish, NoLoc, HandsEmpty, Typed, ContextsTyped, Locals, AfterIssue
  <1> QED
    BY <1>1, <1>2

LEMMA PutBackKeepsPlace ==
  ASSUME IndInv, PlaceInv, UNCHANGED setup, UNCHANGED plug, NEW c \in Contexts, PutBack(c)
  PROVE  OneSpot' /\ HandsEmpty'
  <1>0. c \in Contexts /\ Typed /\ OneSpot /\ HandsEmpty /\ loc[c] \in Locals
    BY ContextTypes DEF IndInv, PlaceInv, Typed, ContextsTyped
  <1>1. OneSpot'
    <2> DEFINE M == loc[c].batch
    <2>1. M \in SUBSET Requests /\ "context" \in Kinds /\ c \in OwnersOf("context") /\ \A s \in M : Holds("context", c, s)
      BY <1>0, ContextTypes DEF PutBack, At, HandsEmpty, Holds, Held, Kinds, OwnersOf, Typed, ContextsTyped, ListsTyped, HandTyped, Locals
    <2>2. \A s \in Requests, k \in Kinds : \A w \in OwnersOf(k) :
            Holds(k, w, s)' => \/ Holds(k, w, s) /\ ~(s \in M /\ k = "context" /\ w = c)
                               \/ s \in M /\ k = "dispatch" /\ w = None
      BY <1>0, <2>1, ContextTypes DEF PutBack, At, Goto, Finish, NoLoc, HandsEmpty, Holds, Held, Kinds, OwnersOf, Typed, ContextsTyped, ListsTyped, HandTyped, Locals
    <2> HIDE DEF M
    <2>3. Moved(M, "context", c, "dispatch", None)
      BY <2>1, <2>2 DEF Moved
    <2> QED
      BY <1>0, <2>3, MovedInPlace
  <1>2. HandsEmpty'
    BY <1>0 DEF PutBack, At, Goto, Finish, NoLoc, HandsEmpty, Typed, ContextsTyped, Locals
  <1> QED
    BY <1>1, <1>2

LEMMA RerunKeepsPlace ==
  ASSUME IndInv, PlaceInv, UNCHANGED setup, UNCHANGED plug, NEW c \in Contexts, Rerun(c)
  PROVE  OneSpot' /\ HandsEmpty'
  <1>0. c \in Contexts /\ Typed /\ OneSpot /\ HandsEmpty /\ loc[c] \in Locals
    BY ContextTypes DEF IndInv, PlaceInv, Typed, ContextsTyped
  <1>1. OneSpot'
    <2>1. \A d \in Contexts : /\ loc'[d].rq = loc[d].rq \/ loc'[d].rq = None
                              /\ loc'[d].batch = loc[d].batch \/ loc'[d].batch = {}
      BY <1>0 DEF Rerun, At, Goto, Finish, NoLoc, Typed, ContextsTyped, Locals
    <2>2. \A d \in Contexts : Held(d)' \subseteq Held(d)
      BY <2>1, HeldShrinks
    <2>3. SpotsKept
      BY <2>2 DEF Rerun, SpotsKept, Holds, Kinds, OwnersOf
    <2> QED
      BY <1>0, <2>3, KeptInPlace
  <1>2. HandsEmpty'
    BY <1>0 DEF Rerun, At, Goto, Finish, NoLoc, HandsEmpty, Typed, ContextsTyped, Locals
  <1> QED
    BY <1>1, <1>2

LEMMA LookAgainKeepsPlace ==
  ASSUME IndInv, PlaceInv, UNCHANGED setup, UNCHANGED plug, NEW c \in Contexts, LookAgain(c)
  PROVE  OneSpot' /\ HandsEmpty'
  <1>0. c \in Contexts /\ Typed /\ OneSpot /\ HandsEmpty /\ loc[c] \in Locals
    BY ContextTypes DEF IndInv, PlaceInv, Typed, ContextsTyped
  <1>1. OneSpot'
    <2>1. \A d \in Contexts : /\ loc'[d].rq = loc[d].rq \/ loc'[d].rq = None
                              /\ loc'[d].batch = loc[d].batch \/ loc'[d].batch = {}
      BY <1>0 DEF LookAgain, At, Goto, Finish, NoLoc, Typed, ContextsTyped, Locals
    <2>2. \A d \in Contexts : Held(d)' \subseteq Held(d)
      BY <2>1, HeldShrinks
    <2>3. SpotsKept
      BY <2>2 DEF LookAgain, SpotsKept, Holds, Kinds, OwnersOf
    <2> QED
      BY <1>0, <2>3, KeptInPlace
  <1>2. HandsEmpty'
    BY <1>0 DEF LookAgain, At, Goto, Finish, NoLoc, HandsEmpty, Typed, ContextsTyped, Locals
  <1> QED
    BY <1>1, <1>2

LEMMA WorkStartKeepsPlace ==
  ASSUME IndInv, PlaceInv, UNCHANGED setup, UNCHANGED plug, WorkStart
  PROVE  OneSpot' /\ HandsEmpty'
  <1>0. "worker" \in Contexts /\ Typed /\ OneSpot /\ HandsEmpty /\ loc["worker"] \in Locals
    BY ContextTypes DEF IndInv, PlaceInv, Typed, ContextsTyped
  <1>1. OneSpot'
    <2>1. \A d \in Contexts : /\ loc'[d].rq = loc[d].rq \/ loc'[d].rq = None
                              /\ loc'[d].batch = loc[d].batch \/ loc'[d].batch = {}
      BY <1>0 DEF WorkStart, At, Goto, Finish, NoLoc, Typed, ContextsTyped, Locals
    <2>2. \A d \in Contexts : Held(d)' \subseteq Held(d)
      BY <2>1, HeldShrinks
    <2>3. SpotsKept
      BY <2>2 DEF WorkStart, SpotsKept, Holds, Kinds, OwnersOf
    <2> QED
      BY <1>0, <2>3, KeptInPlace
  <1>2. HandsEmpty'
    BY <1>0 DEF WorkStart, At, Goto, Finish, NoLoc, HandsEmpty, Typed, ContextsTyped, Locals
  <1> QED
    BY <1>1, <1>2

LEMMA CompleteKeepsPlace ==
  ASSUME IndInv, PlaceInv, UNCHANGED setup, UNCHANGED plug, NEW r \in Requests, Complete(r)
  PROVE  OneSpot' /\ HandsEmpty'
  <1>0. "irq" \in Contexts /\ Typed /\ OneSpot /\ HandsEmpty /\ loc["irq"] \in Locals
    BY ContextTypes DEF IndInv, PlaceInv, Typed, ContextsTyped
  <1>1. OneSpot'
    <2> DEFINE M == {r}
    <2>1. M \in SUBSET Requests /\ "driver" \in Kinds /\ None \in OwnersOf("driver") /\ \A s \in M : Holds("driver", None, s)
      BY <1>0, ContextTypes DEF Complete, At, HandsEmpty, Holds, Held, Kinds, OwnersOf, Typed, ContextsTyped, ListsTyped, HandTyped, Locals
    <2>2. \A s \in Requests, k \in Kinds : \A w \in OwnersOf(k) :
            Holds(k, w, s)' => \/ Holds(k, w, s) /\ ~(s \in M /\ k = "driver" /\ w = None)
                               \/ s \in M /\ k = "done" /\ w = None
      BY <1>0, <2>1, ContextTypes DEF Complete, At, Goto, Finish, NoLoc, HandsEmpty, Holds, Held, Kinds, OwnersOf, Typed, ContextsTyped, ListsTyped, HandTyped, Locals
    <2> HIDE DEF M
    <2>3. Moved(M, "driver", None, "done", None)
      BY <2>1, <2>2 DEF Moved
    <2> QED
      BY <1>0, <2>3, MovedInPlace
  <1>2. HandsEmpty'
    BY <1>0 DEF Complete, At, Goto, Finish, NoLoc, HandsEmpty, Typed, ContextsTyped, Locals
  <1> QED
    BY <1>1, <1>2

LEMMA RestartKeepsPlace ==
  ASSUME IndInv, PlaceInv, UNCHANGED setup, UNCHANGED plug, Restart
  PROVE  OneSpot' /\ HandsEmpty'
  <1>0. "irq" \in Contexts /\ Typed /\ OneSpot /\ HandsEmpty /\ loc["irq"] \in Locals
    BY ContextTypes DEF IndInv, PlaceInv, Typed, ContextsTyped
  <1>1. OneSpot'
    <2>1. \A d \in Contexts : /\ loc'[d].rq = loc[d].rq \/ loc'[d].rq = None
                              /\ loc'[d].batch = loc[d].batch \/ loc'[d].batch = {}
      BY <1>0 DEF Restart, At, Goto, Finish, NoLoc, Typed, ContextsTyped, Locals
    <2>2. \A d \in Contexts : Held(d)' \subseteq Held(d)
      BY <2>1, HeldShrinks
    <2>3. SpotsKept
      BY <2>2 DEF Restart, SpotsKept, Holds, Kinds, OwnersOf
    <2> QED
      BY <1>0, <2>3, KeptInPlace
  <1>2. HandsEmpty'
    BY <1>0 DEF Restart, At, Goto, Finish, NoLoc, HandsEmpty, Typed, ContextsTyped, Locals
  <1> QED
    BY <1>1, <1>2

LEMMA IssueDirectlyKeepsPlace ==
  ASSUME IndInv, PlaceInv, UNCHANGED setup, UNCHANGED plug, NEW t \in Threads, NEW r \in Requests, IssueDirectly(t, r)
  PROVE  OneSpot' /\ HandsEmpty'
  <1>0. t \in Contexts /\ Typed /\ OneSpot /\ HandsEmpty /\ loc[t] \in Locals
    BY ContextTypes DEF IndInv, PlaceInv, Typed, ContextsTyped
  <1>1. r \in Fresh \ InPlug
    BY IdlePlugsAreEmpty DEF IssueDirectly, PlaceInv, DirectHasNoPlug
  <1>2. loc'[t].rq = r /\ loc'[t].batch = {} /\ \A d \in Contexts \ {t} : loc'[d] = loc[d]
    BY <1>0 DEF IssueDirectly, At, HandsEmpty, Typed, ContextsTyped, Locals
  <1>3. \A k \in Kinds : \A w \in OwnersOf(k) : ~Holds(k, w, r)
    BY <1>1, FreshIsNowhere
  <1>4. \A s \in Requests, k \in Kinds : \A w \in OwnersOf(k) :
          Holds(k, w, s)' => Holds(k, w, s) \/ (s \in {r} /\ k = "context" /\ w = t)
    BY <1>0, <1>2, ContextTypes DEF IssueDirectly, Holds, Held, Kinds, OwnersOf
  <1>5. OneSpot'
    <2>1. Filled({r}, "context", t)
      BY <1>3, <1>4 DEF Filled
    <2> QED
      BY <1>0, <2>1, FilledInPlace
  <1>6. HandsEmpty'
    BY <1>0, <1>2 DEF IssueDirectly, Goto, HandsEmpty, Typed, ContextsTyped
  <1> QED
    BY <1>5, <1>6

LEMMA QuiesceBeginKeepsPlace ==
  ASSUME IndInv, PlaceInv, UNCHANGED setup, UNCHANGED plug, NEW q \in Quiescers, QuiesceBegin(q)
  PROVE  OneSpot' /\ HandsEmpty'
  <1>0. q \in Contexts /\ Typed /\ OneSpot /\ HandsEmpty /\ loc[q] \in Locals
    BY ContextTypes DEF IndInv, PlaceInv, Typed, ContextsTyped
  <1>1. OneSpot'
    <2>1. \A d \in Contexts : /\ loc'[d].rq = loc[d].rq \/ loc'[d].rq = None
                              /\ loc'[d].batch = loc[d].batch \/ loc'[d].batch = {}
      BY <1>0 DEF QuiesceBegin, At, Goto, Finish, NoLoc, Typed, ContextsTyped, Locals
    <2>2. \A d \in Contexts : Held(d)' \subseteq Held(d)
      BY <2>1, HeldShrinks
    <2>3. SpotsKept
      BY <2>2 DEF QuiesceBegin, SpotsKept, Holds, Kinds, OwnersOf
    <2> QED
      BY <1>0, <2>3, KeptInPlace
  <1>2. HandsEmpty'
    BY <1>0 DEF QuiesceBegin, At, Goto, Finish, NoLoc, HandsEmpty, Typed, ContextsTyped, Locals
  <1> QED
    BY <1>1, <1>2

LEMMA QuiesceWaitKeepsPlace ==
  ASSUME IndInv, PlaceInv, UNCHANGED setup, UNCHANGED plug, NEW q \in Quiescers, QuiesceWait(q)
  PROVE  OneSpot' /\ HandsEmpty'
  <1>0. q \in Contexts /\ Typed /\ OneSpot /\ HandsEmpty /\ loc[q] \in Locals
    BY ContextTypes DEF IndInv, PlaceInv, Typed, ContextsTyped
  <1>1. OneSpot'
    <2>1. \A d \in Contexts : /\ loc'[d].rq = loc[d].rq \/ loc'[d].rq = None
                              /\ loc'[d].batch = loc[d].batch \/ loc'[d].batch = {}
      BY <1>0 DEF QuiesceWait, At, Goto, Finish, NoLoc, Typed, ContextsTyped, Locals
    <2>2. \A d \in Contexts : Held(d)' \subseteq Held(d)
      BY <2>1, HeldShrinks
    <2>3. SpotsKept
      BY <2>2 DEF QuiesceWait, SpotsKept, Holds, Kinds, OwnersOf
    <2> QED
      BY <1>0, <2>3, KeptInPlace
  <1>2. HandsEmpty'
    BY <1>0 DEF QuiesceWait, At, Goto, Finish, NoLoc, HandsEmpty, Typed, ContextsTyped, Locals
  <1> QED
    BY <1>1, <1>2

LEMMA UnquiesceKeepsPlace ==
  ASSUME IndInv, PlaceInv, UNCHANGED setup, UNCHANGED plug, NEW q \in Quiescers, Unquiesce(q)
  PROVE  OneSpot' /\ HandsEmpty'
  <1>0. q \in Contexts /\ Typed /\ OneSpot /\ HandsEmpty /\ loc[q] \in Locals
    BY ContextTypes DEF IndInv, PlaceInv, Typed, ContextsTyped
  <1>1. OneSpot'
    <2>1. \A d \in Contexts : /\ loc'[d].rq = loc[d].rq \/ loc'[d].rq = None
                              /\ loc'[d].batch = loc[d].batch \/ loc'[d].batch = {}
      BY <1>0 DEF Unquiesce, At, Goto, Finish, NoLoc, Typed, ContextsTyped, Locals
    <2>2. \A d \in Contexts : Held(d)' \subseteq Held(d)
      BY <2>1, HeldShrinks
    <2>3. SpotsKept
      BY <2>2 DEF Unquiesce, SpotsKept, Holds, Kinds, OwnersOf
    <2> QED
      BY <1>0, <2>3, KeptInPlace
  <1>2. HandsEmpty'
    BY <1>0 DEF Unquiesce, At, Goto, Finish, NoLoc, HandsEmpty, Typed, ContextsTyped, Locals
  <1> QED
    BY <1>1, <1>2

LEMMA FlushPlugKeepsPlace ==
  ASSUME IndInv, PlaceInv, UNCHANGED setup, NEW t \in Threads, NEW R \in SUBSET Requests, FlushPlug(t, R)
  PROVE  OneSpot' /\ HandsEmpty'
  <1>0. /\ t \in Contexts /\ Typed /\ OneSpot /\ HandsEmpty
        /\ loc[t] \in Locals /\ plug[t] \in Flushes /\ ShapeOf(t)
    BY ContextTypes DEF IndInv, PlaceInv, Typed, ContextsTyped, FlushShape
  <1>1. R \subseteq Fresh \ InPlug
    BY DEF FlushPlug
  <1>2. /\ plug'[t].list = R /\ plug'[t].batch = {} /\ plug'[t].rq = None
        /\ \A d \in Threads \ {t} : plug'[d] = plug[d]
    BY <1>0 DEF FlushPlug, NoFlush, Typed
  <1>3. \A d \in Contexts : loc'[d].rq = loc[d].rq /\ loc'[d].batch = loc[d].batch
    BY <1>0 DEF FlushPlug, Lock, Typed, ContextsTyped, Locals
  <1>4. OneSpot'
    <2>1. \A r \in R, k \in Kinds : \A w \in OwnersOf(k) : ~Holds(k, w, r)
      BY <1>1, FreshIsNowhere
    <2>2. \A s \in Requests, k \in Kinds : \A w \in OwnersOf(k) :
            Holds(k, w, s)' => Holds(k, w, s) \/ (s \in R /\ k = "plug" /\ w = t)
      BY <1>0, <1>2, <1>3, ContextTypes DEF FlushPlug, Holds, Held, Kinds, OwnersOf
    <2>3. Filled(R, "plug", t)
      BY <2>1, <2>2 DEF Filled
    <2> QED
      BY <1>0, <2>3, FilledInPlace
  <1>5. HandsEmpty'
    BY <1>0, <1>3 DEF FlushPlug, HandsEmpty
  <1> QED
    BY <1>4, <1>5

LEMMA QueueRqsKeepsPlace ==
  ASSUME IndInv, PlaceInv, UNCHANGED setup, NEW t \in Threads, NEW S \in SUBSET Requests, QueueRqs(t, S)
  PROVE  OneSpot' /\ HandsEmpty'
  <1>0. /\ t \in Contexts /\ Typed /\ OneSpot /\ HandsEmpty
        /\ loc[t] \in Locals /\ plug[t] \in Flushes /\ ShapeOf(t)
    BY ContextTypes DEF IndInv, PlaceInv, Typed, ContextsTyped, FlushShape
  <1>1. S \subseteq plug[t].list
    BY DEF QueueRqs
  <1>2. /\ plug'[t].list = plug[t].list \ S /\ plug'[t].batch \subseteq plug[t].batch
        /\ plug'[t].rq = plug[t].rq \/ plug'[t].rq = None
        /\ \A d \in Threads \ {t} : plug'[d] = plug[d]
    BY <1>0 DEF QueueRqs, NoFlush, Typed, Flushes
  <1>3. \A d \in Contexts : loc'[d].rq = loc[d].rq /\ loc'[d].batch = loc[d].batch
    BY <1>0 DEF QueueRqs, Unlock, Typed, ContextsTyped, Locals
  <1>4. OneSpot'
    <2>1. S \in SUBSET Requests /\ "plug" \in Kinds /\ t \in OwnersOf("plug") /\ \A s \in S : Holds("plug", t, s)
      BY <1>0, <1>1, ContextTypes DEF Kinds, OwnersOf, Holds, Flushes
    <2>2. \A s \in Requests, k \in Kinds : \A w \in OwnersOf(k) :
            Holds(k, w, s)' => \/ Holds(k, w, s) /\ ~(s \in S /\ k = "plug" /\ w = t)
                               \/ s \in S /\ k = "driver" /\ w = None
      BY <1>0, <1>1, <1>2, <1>3, ContextTypes DEF QueueRqs, Holds, Held, Kinds, OwnersOf, Typed, ListsTyped
    <2>3. Moved(S, "plug", t, "driver", None)
      BY <2>1, <2>2 DEF Moved
    <2> QED
      BY <1>0, <2>3, MovedInPlace
  <1>5. HandsEmpty'
    BY <1>0, <1>3 DEF QueueRqs, HandsEmpty
  <1> QED
    BY <1>4, <1>5

LEMMA NextRqKeepsPlace ==
  ASSUME IndInv, PlaceInv, UNCHANGED setup, NEW t \in Threads, NEW r \in Requests, NextRq(t, r)
  PROVE  OneSpot' /\ HandsEmpty'
  <1>0. /\ t \in Contexts /\ Typed /\ OneSpot /\ HandsEmpty
        /\ loc[t] \in Locals /\ plug[t] \in Flushes /\ ShapeOf(t)
    BY ContextTypes DEF IndInv, PlaceInv, Typed, ContextsTyped, FlushShape
  <1>1. PICK k \in {"plug", "group"} : Holds(k, t, r)
    BY DEF NextRq, Left, InPhase, Holds
  <1>2. /\ plug'[t].list = plug[t].list \ {r} /\ plug'[t].batch = plug[t].batch \ {r}
        /\ \A d \in Threads \ {t} : plug'[d] = plug[d]
    <2>1. /\ Without(t, r) \in Flushes
          /\ Without(t, r).list = plug[t].list \ {r} /\ Without(t, r).batch = plug[t].batch \ {r}
      BY <1>0 DEF Without, Flushes
    <2>2. \/ plug' = [plug EXCEPT ![t] = [Without(t, r) EXCEPT !.sent = TRUE]]
          \/ plug' = [plug EXCEPT ![t] = [Without(t, r) EXCEPT !.rq = r]]
      BY DEF NextRq
    <2>3. \/ plug'[t] = [Without(t, r) EXCEPT !.sent = TRUE]
          \/ plug'[t] = [Without(t, r) EXCEPT !.rq = r]
      BY <1>0, <2>2 DEF Typed
    <2> QED
      BY <1>0, <2>1, <2>2, <2>3 DEF Typed, Flushes
  <1>3. loc'[t].batch = loc[t].batch /\ \A d \in Contexts \ {t} : loc'[d] = loc[d]
    BY <1>0 DEF NextRq, Lock, Typed, ContextsTyped, Locals
  <1>4. pc[t] = "idle" /\ loc[t].rq = None /\ loc[t].batch = {} /\ plug[t].rq = None
    BY <1>0 DEF NextRq, InPhase, At, Popped, HandsEmpty
  <1>5. \/ plug'[t].rq = None /\ loc'[t].rq = r /\ pc'[t] = "mark" /\ \A d \in Contexts \ {t} : pc'[d] = pc[d]
        \/ plug'[t].rq = r /\ loc'[t].rq = None /\ pc' = pc
    <2>1. Without(t, r) \in Flushes /\ Without(t, r).rq = None
      BY <1>0, <1>4 DEF Without, Flushes
    <2>2. CASE Quiesced
      <3>1. plug' = [plug EXCEPT ![t] = [Without(t, r) EXCEPT !.sent = TRUE]]
        BY <2>2 DEF NextRq
      <3>2. plug'[t].rq = None
        BY <1>0, <2>1, <3>1 DEF Typed, Flushes
      <3> QED
        BY <1>0, <2>2, <3>2 DEF NextRq, Goto, Typed, ContextsTyped, Locals
    <2>3. CASE ~Quiesced
      <3>1. plug' = [plug EXCEPT ![t] = [Without(t, r) EXCEPT !.rq = r]]
        BY <2>3 DEF NextRq
      <3>2. plug'[t].rq = r
        BY <1>0, <2>1, <3>1 DEF Typed, Flushes
      <3> QED
        BY <1>0, <1>4, <2>3, <3>2 DEF NextRq, Lock, Typed, ContextsTyped, Locals
    <2> QED
      BY <2>2, <2>3
  <1>6. {r} \in SUBSET Requests /\ k \in Kinds /\ t \in OwnersOf(k) /\ \A s \in {r} : Holds(k, t, s)
    BY <1>1, ContextTypes DEF Kinds, OwnersOf
  <1>7. ASSUME plug'[t].rq = None /\ loc'[t].rq = r
        PROVE  OneSpot'
    <2>1. \A s \in Requests, l \in Kinds : \A w \in OwnersOf(l) :
            Holds(l, w, s)' => \/ Holds(l, w, s) /\ ~(s \in {r} /\ l = k /\ w = t)
                               \/ s \in {r} /\ l = "context" /\ w = t
      BY <1>0, <1>1, <1>2, <1>3, <1>4, <1>7, ContextTypes DEF NextRq, Holds, Held, Kinds, OwnersOf
    <2>2. Moved({r}, k, t, "context", t)
      BY <1>6, <2>1 DEF Moved
    <2> QED
      BY <1>0, <2>2, MovedInPlace
  <1>8. ASSUME plug'[t].rq = r /\ loc'[t].rq = None
        PROVE  OneSpot'
    <2>1. \A s \in Requests, l \in Kinds : \A w \in OwnersOf(l) :
            Holds(l, w, s)' => \/ Holds(l, w, s) /\ ~(s \in {r} /\ l = k /\ w = t)
                               \/ s \in {r} /\ l = "hand" /\ w = t
      BY <1>0, <1>1, <1>2, <1>3, <1>4, <1>8, ContextTypes DEF NextRq, Holds, Held, Kinds, OwnersOf
    <2>2. Moved({r}, k, t, "hand", t)
      BY <1>6, <2>1 DEF Moved
    <2> QED
      BY <1>0, <2>2, MovedInPlace
  <1>9. HandsEmpty'
    BY <1>0, <1>3, <1>4, <1>5 DEF HandsEmpty
  <1> QED
    BY <1>5, <1>7, <1>8, <1>9

LEMMA IssuePluggedKeepsPlace ==
  ASSUME IndInv, PlaceInv, UNCHANGED setup, NEW t \in Threads, IssuePlugged(t)
  PROVE  OneSpot' /\ HandsEmpty'
  <1>0. /\ t \in Contexts /\ Typed /\ OneSpot /\ HandsEmpty
        /\ loc[t] \in Locals /\ plug[t] \in Flushes /\ ShapeOf(t)
    BY ContextTypes DEF IndInv, PlaceInv, Typed, ContextsTyped, FlushShape
  <1> DEFINE r == plug[t].rq
             one == [plug[t] EXCEPT !.rq = None]
  <1>1. /\ r \in Requests /\ pc[t] = "idle" /\ loc[t].rq = None /\ loc[t].batch = {}
        /\ one \in Flushes /\ one.rq = None /\ one.list = plug[t].list /\ one.batch = plug[t].batch
    BY <1>0 DEF IssuePlugged, Popped, At, HandsEmpty, Flushes
  <1>2. /\ plug'[t].list = plug[t].list /\ plug'[t].batch = plug[t].batch /\ plug'[t].rq = None
        /\ \A d \in Threads \ {t} : plug'[d] = plug[d]
    <2>1. \/ plug' = [plug EXCEPT ![t] = [one EXCEPT !.sent = TRUE]]
          \/ plug' = [plug EXCEPT ![t] = [one EXCEPT !.failed = TRUE]]
          \/ plug' = [plug EXCEPT ![t] =
                       [one EXCEPT !.failed = TRUE, !.phase = IF @ = "each" THEN "each_end" ELSE "list_end"]]
      BY DEF IssuePlugged
    <2> HIDE DEF one
    <2>2. \/ plug'[t] = [one EXCEPT !.sent = TRUE]
          \/ plug'[t] = [one EXCEPT !.failed = TRUE]
          \/ plug'[t] = [one EXCEPT !.failed = TRUE, !.phase = IF @ = "each" THEN "each_end" ELSE "list_end"]
      BY <1>0, <2>1 DEF Typed
    <2>3. /\ plug'[t].list = one.list /\ plug'[t].batch = one.batch /\ plug'[t].rq = one.rq
      BY <1>1, <2>2 DEF Flushes
    <2> QED
      BY <1>0, <1>1, <2>1, <2>3 DEF Typed
  <1>3. loc'[t].batch = {} /\ \A d \in Contexts \ {t} : loc'[d] = loc[d] /\ pc'[d] = pc[d]
    BY <1>0, <1>1 DEF IssuePlugged, BypassInsert, Unlock, Goto, Typed, ContextsTyped, Locals
  <1>4. \/ driver' = driver \cup {r} /\ loc'[t].rq = None /\ pc' = pc
        \/ driver' = driver /\ loc'[t].rq = r /\ pc'[t] = "mark"
    BY <1>0, <1>1 DEF IssuePlugged, Accepted, Failed, Refused, BypassInsert, Unlock, Goto, Typed, ContextsTyped, Locals
  <1>5. {r} \in SUBSET Requests /\ "hand" \in Kinds /\ t \in OwnersOf("hand") /\ \A s \in {r} : Holds("hand", t, s)
    BY <1>1, ContextTypes DEF Kinds, OwnersOf, Holds
  <1>6. ASSUME driver' = driver \cup {r} /\ loc'[t].rq = None
        PROVE  OneSpot'
    <2>1. \A s \in Requests, l \in Kinds : \A w \in OwnersOf(l) :
            Holds(l, w, s)' => \/ Holds(l, w, s) /\ ~(s \in {r} /\ l = "hand" /\ w = t)
                               \/ s \in {r} /\ l = "driver" /\ w = None
      BY <1>0, <1>1, <1>2, <1>3, <1>6, ContextTypes DEF IssuePlugged, Holds, Held, Kinds, OwnersOf
    <2> HIDE DEF r
    <2>2. Moved({r}, "hand", t, "driver", None)
      BY <1>5, <2>1 DEF Moved
    <2> QED
      BY <1>0, <2>2, MovedInPlace
  <1>7. ASSUME driver' = driver /\ loc'[t].rq = r
        PROVE  OneSpot'
    <2>1. \A s \in Requests, l \in Kinds : \A w \in OwnersOf(l) :
            Holds(l, w, s)' => \/ Holds(l, w, s) /\ ~(s \in {r} /\ l = "hand" /\ w = t)
                               \/ s \in {r} /\ l = "context" /\ w = t
      BY <1>0, <1>1, <1>2, <1>3, <1>7, ContextTypes DEF IssuePlugged, Holds, Held, Kinds, OwnersOf
    <2> HIDE DEF r
    <2>2. Moved({r}, "hand", t, "context", t)
      BY <1>5, <2>1 DEF Moved
    <2> QED
      BY <1>0, <2>2, MovedInPlace
  <1>8. HandsEmpty'
    BY <1>0, <1>1, <1>3, <1>4 DEF HandsEmpty
  <1> QED
    BY <1>4, <1>6, <1>7, <1>8

LEMMA EachEndKeepsPlace ==
  ASSUME IndInv, PlaceInv, UNCHANGED setup, NEW t \in Threads, EachEnd(t)
  PROVE  OneSpot' /\ HandsEmpty'
  <1>0. /\ t \in Contexts /\ Typed /\ OneSpot /\ HandsEmpty
        /\ loc[t] \in Locals /\ plug[t] \in Flushes /\ ShapeOf(t)
    BY ContextTypes DEF IndInv, PlaceInv, Typed, ContextsTyped, FlushShape
  <1>1. /\ plug'[t].list = plug[t].list \/ plug'[t].list = {}
        /\ plug'[t].batch = plug[t].batch \/ plug'[t].batch = {}
        /\ plug'[t].rq = plug[t].rq \/ plug'[t].rq = None
        /\ \A d \in Threads \ {t} : plug'[d] = plug[d]
    BY <1>0 DEF EachEnd, Quiesced, NoFlush, Typed, Flushes
  <1>2. OneSpot'
    <2>1. SpotsKept
      BY <1>0, <1>1, ContextTypes DEF EachEnd, SpotsKept, Holds, Held, Kinds, OwnersOf
    <2> QED
      BY <1>0, <2>1, KeptInPlace
  <1>3. HandsEmpty'
    BY <1>0 DEF EachEnd, HandsEmpty
  <1> QED
    BY <1>2, <1>3

LEMMA ListEndKeepsPlace ==
  ASSUME IndInv, PlaceInv, UNCHANGED setup, NEW t \in Threads, ListEnd(t)
  PROVE  OneSpot' /\ HandsEmpty'
  <1>0. /\ t \in Contexts /\ Typed /\ OneSpot /\ HandsEmpty
        /\ loc[t] \in Locals /\ plug[t] \in Flushes /\ ShapeOf(t)
    BY ContextTypes DEF IndInv, PlaceInv, Typed, ContextsTyped, FlushShape
  <1>1. /\ plug'[t].list = plug[t].list \/ plug'[t].list = {}
        /\ plug'[t].batch = plug[t].batch \/ plug'[t].batch = {}
        /\ plug'[t].rq = plug[t].rq \/ plug'[t].rq = None
        /\ \A d \in Threads \ {t} : plug'[d] = plug[d]
    BY <1>0 DEF ListEnd, AfterGroup, NoFlush, Typed, Flushes
  <1>2. OneSpot'
    <2>1. SpotsKept
      BY <1>0, <1>1, ContextTypes DEF ListEnd, SpotsKept, Holds, Held, Kinds, OwnersOf
    <2> QED
      BY <1>0, <2>1, KeptInPlace
  <1>3. HandsEmpty'
    BY <1>0 DEF ListEnd, HandsEmpty
  <1> QED
    BY <1>2, <1>3

LEMMA TakeGroupKeepsPlace ==
  ASSUME IndInv, PlaceInv, UNCHANGED setup, NEW t \in Threads, NEW i \in Cpus, TakeGroup(t, i)
  PROVE  OneSpot' /\ HandsEmpty'
  <1>0. /\ t \in Contexts /\ Typed /\ OneSpot /\ HandsEmpty
        /\ loc[t] \in Locals /\ plug[t] \in Flushes /\ ShapeOf(t)
    BY ContextTypes DEF IndInv, PlaceInv, Typed, ContextsTyped, FlushShape
  <1> DEFINE M == {r \in plug[t].list : CpuOf[r] = i}
  <1>1. M \subseteq plug[t].list
    OBVIOUS
  <1>2. /\ plug'[t].list = plug[t].list \ M /\ plug'[t].batch = M /\ plug'[t].rq = plug[t].rq
        /\ \A d \in Threads \ {t} : plug'[d] = plug[d]
    BY <1>0 DEF TakeGroup, Typed, Flushes
  <1>3. /\ loc' = loc /\ pc' = pc /\ staged' = staged /\ dispatch' = dispatch
        /\ driver' = driver /\ done' = done
    BY DEF TakeGroup, vars
  <1> HIDE DEF M
  <1>4. OneSpot'
    <2>1. M \in SUBSET Requests /\ "plug" \in Kinds /\ t \in OwnersOf("plug") /\ \A s \in M : Holds("plug", t, s)
      BY <1>0, <1>1, ContextTypes DEF Kinds, OwnersOf, Holds, Flushes
    <2>2. \A s \in Requests, k \in Kinds : \A w \in OwnersOf(k) :
            Holds(k, w, s)' => \/ Holds(k, w, s) /\ ~(s \in M /\ k = "plug" /\ w = t)
                               \/ s \in M /\ k = "group" /\ w = t
      BY <1>0, <1>1, <1>2, <1>3, ContextTypes DEF Holds, Held, Kinds, OwnersOf, Typed, ListsTyped
    <2>3. Moved(M, "plug", t, "group", t)
      BY <2>1, <2>2 DEF Moved
    <2> QED
      BY <1>0, <2>3, MovedInPlace
  <1>5. HandsEmpty'
    BY <1>0, <1>3 DEF HandsEmpty
  <1> QED
    BY <1>4, <1>5

LEMMA InsertRequestsKeepsPlace ==
  ASSUME IndInv, PlaceInv, UNCHANGED setup, NEW t \in Threads, InsertRequests(t)
  PROVE  OneSpot' /\ HandsEmpty'
  <1>0. /\ t \in Contexts /\ Typed /\ OneSpot /\ HandsEmpty
        /\ loc[t] \in Locals /\ plug[t] \in Flushes /\ ShapeOf(t)
    BY ContextTypes DEF IndInv, PlaceInv, Typed, ContextsTyped, FlushShape
  <1>1. PICK i \in {CpuOf[r] : r \in plug[t].batch} :
               staged' = [staged EXCEPT ![i] = @ \cup plug[t].batch]
    BY DEF InsertRequests
  <1>2. /\ plug'[t].list = plug[t].list \/ plug'[t].list = {}
        /\ plug'[t].batch = {} /\ plug'[t].rq = None
        /\ \A d \in Threads \ {t} : plug'[d] = plug[d]
    BY <1>0 DEF InsertRequests, AfterGroup, NoFlush, Typed, Flushes
  <1>3. \A d \in Contexts : loc'[d].rq = loc[d].rq /\ loc'[d].batch = loc[d].batch
    BY <1>0 DEF InsertRequests, Typed, ContextsTyped, Locals
  <1>4. OneSpot'
    <2>1. plug[t].batch \in SUBSET Requests /\ "group" \in Kinds /\ t \in OwnersOf("group") /\ \A s \in plug[t].batch : Holds("group", t, s)
      BY <1>0, <1>1, ContextTypes DEF Kinds, OwnersOf, Holds, Flushes
    <2>2. \A s \in Requests, k \in Kinds : \A w \in OwnersOf(k) :
            Holds(k, w, s)' => \/ Holds(k, w, s) /\ ~(s \in plug[t].batch /\ k = "group" /\ w = t)
                               \/ s \in plug[t].batch /\ k = "vnq" /\ w = i
      BY <1>0, <1>1, <1>2, <1>3, ContextTypes DEF InsertRequests, Holds, Held, Kinds, OwnersOf, Typed, ListsTyped
    <2>3. Moved(plug[t].batch, "group", t, "vnq", i)
      BY <2>1, <2>2 DEF Moved
    <2> QED
      BY <1>0, <2>3, MovedInPlace
  <1>5. HandsEmpty'
    BY <1>0, <1>3 DEF InsertRequests, InPhase, At, Goto, HandsEmpty, Typed, ContextsTyped
  <1> QED
    BY <1>4, <1>5

-----------------------------------------------------------------------------
(* Every step keeps a request in one place. *)

LEMMA PlaceInit == PlugInit => PlaceInv
  <1> SUFFICES ASSUME PlugInit PROVE PlaceInv
    OBVIOUS
  <1>1. \A r \in Requests, k \in Kinds : \A w \in OwnersOf(k) : ~Holds(k, w, r)
    BY ContextTypes DEF PlugInit, Init, Holds, Held, Kinds, OwnersOf, NoLoc, NoFlush
  <1>2. HandsEmpty
    BY DEF PlugInit, Init, HandsEmpty, NoLoc
  <1>3. DirectHasNoPlug
    BY PlugAssumption DEF PlugAssumption, PlugInit, Init, DirectHasNoPlug
  <1> QED
    BY <1>1, <1>2, <1>3 DEF PlaceInv, OneSpot

LEMMA FlushNeedsPlug ==
  ASSUME IndInv, PlaceInv, NEW t \in Threads, FlushStep(t) \/ \E R \in SUBSET Requests : FlushPlug(t, R)
  PROVE  "direct" \notin setup.paths
  <1>1. CASE FlushStep(t)
    <2>1. plug[t].phase # "none" \/ plug[t].rq # None
      BY <1>1 DEF FlushStep, QueueRqs, NextRq, IssuePlugged, EachEnd, ListEnd, TakeGroup, InsertRequests, InPhase, LoopDone, Popped
    <2> QED
      BY <2>1 DEF NoFlush, PlaceInv, DirectHasNoPlug
  <1>2. CASE \E R \in SUBSET Requests : FlushPlug(t, R)
    BY <1>2 DEF FlushPlug, PlaceInv, DirectHasNoPlug
  <1> QED
    BY <1>1, <1>2

LEMMA PlaceStep ==
  ASSUME IndInv, PlaceInv, [PlugNext /\ UNCHANGED setup]_plugVars
  PROVE  PlaceInv'
  <1>0. Typed
    BY DEF IndInv
  <1>1. CASE UNCHANGED plugVars
    <2>1. OneSpot'
      <3>1. SpotsKept
        BY <1>1 DEF plugVars, vars, SpotsKept, Holds, Held
      <3> QED
        BY <3>1, KeptInPlace DEF PlaceInv
    <2> QED
      BY <1>1, <2>1 DEF plugVars, vars, PlaceInv, HandsEmpty, DirectHasNoPlug
  <1>2. CASE (Others /\ UNCHANGED plug) /\ UNCHANGED setup
    <2>1. OneSpot' /\ HandsEmpty'
      <3>1. ASSUME NEW t \in setup.threads, NEW r \in Requests, IssueDirectly(t, r)
            PROVE  OneSpot' /\ HandsEmpty'
        <4>1. t \in Threads
          BY <1>0 DEF Typed
        <4> QED
          BY <1>2, <3>1, <4>1, IssueDirectlyKeepsPlace
      <3>2. ASSUME NEW c \in Contexts, Step(c)
            PROVE  OneSpot' /\ HandsEmpty'
        BY <1>2, <3>2, QueueDirectlyKeepsPlace, MarkCpuKeepsPlace, StageKeepsPlace, RunCheckDispatchKeepsPlace,
           RunCheckMaskKeepsPlace, EnterKeepsPlace, GrabKeepsPlace, CollectKeepsPlace, CollectEndKeepsPlace,
           IssueKeepsPlace, CommitKeepsPlace, PutBackKeepsPlace, RerunKeepsPlace, LookAgainKeepsPlace
           DEF Step, Dispatch
      <3>3. CASE WorkStart
        BY <1>2, <3>3, WorkStartKeepsPlace
      <3>4. ASSUME NEW r \in Requests, Complete(r)
            PROVE  OneSpot' /\ HandsEmpty'
        BY <1>2, <3>4, CompleteKeepsPlace
      <3>5. CASE Restart
        BY <1>2, <3>5, RestartKeepsPlace
      <3>6. ASSUME NEW q \in setup.quiescers, QuiesceBegin(q) \/ QuiesceStep(q)
            PROVE  OneSpot' /\ HandsEmpty'
        <4>1. q \in Quiescers
          BY <1>0 DEF Typed
        <4> QED
          BY <1>2, <3>6, <4>1, QuiesceBeginKeepsPlace, QuiesceWaitKeepsPlace, UnquiesceKeepsPlace DEF QuiesceStep
      <3> QED
        BY <1>2, <3>1, <3>2, <3>3, <3>4, <3>5, <3>6 DEF Others, Submit, CompleteAny
    <2>2. DirectHasNoPlug'
      BY <1>2 DEF PlaceInv, DirectHasNoPlug
    <2> QED
      BY <2>1, <2>2 DEF PlaceInv
  <1>3. ASSUME UNCHANGED setup, NEW t \in setup.threads,
               FlushStep(t) \/ \E R \in SUBSET Requests : FlushPlug(t, R)
        PROVE  PlaceInv'
    <2>0. t \in Threads
      BY <1>0 DEF Typed
    <2>1. OneSpot' /\ HandsEmpty'
      <3>1. ASSUME NEW R \in SUBSET Requests, FlushPlug(t, R)
            PROVE  OneSpot' /\ HandsEmpty'
        BY <1>3, <2>0, <3>1, FlushPlugKeepsPlace
      <3>2. CASE FlushStep(t)
        BY <1>3, <2>0, <3>2, QueueRqsKeepsPlace, NextRqKeepsPlace, IssuePluggedKeepsPlace, EachEndKeepsPlace,
           ListEndKeepsPlace, TakeGroupKeepsPlace, InsertRequestsKeepsPlace DEF FlushStep
      <3> QED
        BY <1>3, <3>1, <3>2
    <2>2. DirectHasNoPlug'
      BY <1>3, <2>0, FlushNeedsPlug DEF PlaceInv, DirectHasNoPlug
    <2> QED
      BY <2>1, <2>2 DEF PlaceInv
  <1> QED
    BY <1>1, <1>2, <1>3 DEF PlugNext

(* However submitters, flushes, dispatchers, completions and quiescers     *)
(* interleave, a request is nowhere or in exactly one place.               *)
THEOREM PlaceInvariance == PlugSpec => [](IndInv /\ PlaceInv)
  <1>1. PlugInit => IndInv /\ PlaceInv
    BY InitHolds, PlaceInit
  <1>2. IndInv /\ PlaceInv /\ [PlugNext /\ UNCHANGED setup]_plugVars => (IndInv /\ PlaceInv)'
    BY StepHolds, PlaceStep
  <1> QED
    BY <1>1, <1>2, PTL DEF PlugSpec

LEMMA SameIsOne ==
  ASSUME NEW S, \A x, y \in S : x = y
  PROVE  Cardinality(S) \in Nat /\ Cardinality(S) <= 1 /\ (S = {} => Cardinality(S) = 0)
  <1>1. CASE S = {}
    BY <1>1, FS_EmptySet
  <1>2. ASSUME NEW x \in S PROVE Cardinality(S) = 1
    <2>1. S = {x}
      OBVIOUS
    <2> QED
      BY <2>1, FS_Singleton
  <1> QED
    BY <1>1, <1>2

(* What the lists hold of a request, counted; blk-mq.c never puts it on a  *)
(* second list before it is off the first, so it is issued at most once.   *)
THEOREM IssuedOnce == PlugSpec => []InOnePlace
  <1>1. IndInv /\ PlaceInv => InOnePlace
    <2> SUFFICES ASSUME IndInv, PlaceInv, NEW r \in Requests
                 PROVE  PlugTypeOK
                        /\ Cardinality({i \in Cpus : r \in staged[i]})
                             + Cardinality({c \in Contexts : r \in Held(c)})
                             + Cardinality({t \in Threads : r \in plug[t].list})
                             + Cardinality({t \in Threads : r \in plug[t].batch})
                             + Cardinality({t \in Threads : r = plug[t].rq})
                             + Cardinality({r} \cap dispatch) + Cardinality({r} \cap driver)
                             + Cardinality({r} \cap done) <= 1
      BY TypedMeans DEF IndInv, InOnePlace
    <2> DEFINE A == {i \in Cpus : r \in staged[i]}
               B == {c \in Contexts : r \in Held(c)}
               C == {t \in Threads : r \in plug[t].list}
               D == {t \in Threads : r \in plug[t].batch}
               E == {t \in Threads : r = plug[t].rq}
               F == {r} \cap dispatch
               G == {r} \cap driver
               H == {r} \cap done
    <2>1. \A k, l \in Kinds : \A v \in OwnersOf(k), w \in OwnersOf(l) :
            Holds(k, v, r) /\ Holds(l, w, r) => k = l /\ v = w
      BY DEF PlaceInv, OneSpot
    <2>2. /\ \A x, y \in A : x = y
          /\ \A x, y \in B : x = y
          /\ \A x, y \in C : x = y
          /\ \A x, y \in D : x = y
          /\ \A x, y \in E : x = y
          /\ \A x, y \in F : x = y
          /\ \A x, y \in G : x = y
          /\ \A x, y \in H : x = y
      BY <2>1 DEF Holds, Kinds, OwnersOf
    <2>3. A # {} => B = {} /\ C = {} /\ D = {} /\ E = {} /\ F = {} /\ G = {} /\ H = {}
      BY <2>1 DEF Holds, Kinds, OwnersOf
    <2>4. B # {} => C = {} /\ D = {} /\ E = {} /\ F = {} /\ G = {} /\ H = {}
      BY <2>1 DEF Holds, Kinds, OwnersOf
    <2>5. C # {} => D = {} /\ E = {} /\ F = {} /\ G = {} /\ H = {}
      BY <2>1 DEF Holds, Kinds, OwnersOf
    <2>6. D # {} => E = {} /\ F = {} /\ G = {} /\ H = {}
      BY <2>1 DEF Holds, Kinds, OwnersOf
    <2>7. E # {} => F = {} /\ G = {} /\ H = {}
      BY <2>1 DEF Holds, Kinds, OwnersOf
    <2>8. F # {} => G = {} /\ H = {}
      BY <2>1 DEF Holds, Kinds, OwnersOf
    <2>9. G # {} => H = {}
      BY <2>1 DEF Holds, Kinds, OwnersOf
    <2> HIDE DEF A, B, C, D, E, F, G, H
    <2>10. /\ Cardinality(A) \in Nat /\ Cardinality(A) <= 1 /\ (A = {} => Cardinality(A) = 0)
           /\ Cardinality(B) \in Nat /\ Cardinality(B) <= 1 /\ (B = {} => Cardinality(B) = 0)
           /\ Cardinality(C) \in Nat /\ Cardinality(C) <= 1 /\ (C = {} => Cardinality(C) = 0)
           /\ Cardinality(D) \in Nat /\ Cardinality(D) <= 1 /\ (D = {} => Cardinality(D) = 0)
           /\ Cardinality(E) \in Nat /\ Cardinality(E) <= 1 /\ (E = {} => Cardinality(E) = 0)
           /\ Cardinality(F) \in Nat /\ Cardinality(F) <= 1 /\ (F = {} => Cardinality(F) = 0)
           /\ Cardinality(G) \in Nat /\ Cardinality(G) <= 1 /\ (G = {} => Cardinality(G) = 0)
           /\ Cardinality(H) \in Nat /\ Cardinality(H) <= 1 /\ (H = {} => Cardinality(H) = 0)
      BY <2>2, SameIsOne
    <2>11. Cardinality(A) + Cardinality(B) + Cardinality(C) + Cardinality(D)
             + Cardinality(E) + Cardinality(F) + Cardinality(G) + Cardinality(H) <= 1
      <3>1. CASE A # {}
        BY <3>1, <2>3, <2>10
      <3>2. CASE A = {} /\ B # {}
        BY <3>2, <2>4, <2>10
      <3>3. CASE A = {} /\ B = {} /\ C # {}
        BY <3>3, <2>5, <2>10
      <3>4. CASE A = {} /\ B = {} /\ C = {} /\ D # {}
        BY <3>4, <2>6, <2>10
      <3>5. CASE A = {} /\ B = {} /\ C = {} /\ D = {} /\ E # {}
        BY <3>5, <2>7, <2>10
      <3>6. CASE A = {} /\ B = {} /\ C = {} /\ D = {} /\ E = {} /\ F # {}
        BY <3>6, <2>8, <2>10
      <3>7. CASE A = {} /\ B = {} /\ C = {} /\ D = {} /\ E = {} /\ F = {} /\ G # {}
        BY <3>7, <2>9, <2>10
      <3>8. CASE A = {} /\ B = {} /\ C = {} /\ D = {} /\ E = {} /\ F = {} /\ G = {} /\ H # {}
        BY <3>8, <2>10
      <3>9. CASE A = {} /\ B = {} /\ C = {} /\ D = {} /\ E = {} /\ F = {} /\ G = {} /\ H = {}
        BY <3>9, <2>10
      <3> QED
        BY <3>1, <3>2, <3>3, <3>4, <3>5, <3>6, <3>7, <3>8, <3>9
    <2>12. PlugTypeOK
      BY TypedMeans DEF IndInv
    <2> QED
      BY <2>11, <2>12 DEF A, B, C, D, E, F, G, H
  <1> QED
    BY <1>1, PlaceInvariance, PTL

-----------------------------------------------------------------------------
(* No request is forgotten.  What the workloads NoStall speaks of have in  *)
(* common: flushes from schedule() only insert, and where the driver is    *)
(* tried first there is one flushing thread and nobody quiesces.           *)
InsertsOnly == setup.paths = {"schedule"}
TriesDriver ==
  setup.paths = {"flush"} /\ setup.quiescers = {} /\ \E t \in Threads : setup.threads = {t}

InsertShape(c) ==
  /\ pc[c] \notin {"direct", "mark", "stage"}
  /\ c \in Threads => /\ plug[c].phase \in {"none", "groups", "insert"} /\ plug[c].rq = None
                      /\ plug[c].phase # "none" => plug[c].async

(* Staging happens after a loop was left, and the queue is run unless the  *)
(* rest of the group will be inserted.                                     *)
TryShape(c) ==
  /\ pc[c] # "direct"
  /\ c \in Threads => ~plug[c].async
  /\ pc[c] \in {"mark", "stage"} =>
       /\ c \in setup.threads /\ plug[c].phase \in {"each_end", "list_end"}
       /\ loc[c].run # "sync" =>
            loc[c].run = "none" /\ plug[c].phase = "list_end" /\ plug[c].batch # {}

(* A loop that was left early has a failed request. *)
EndShape(c) ==
  c \in Threads /\ plug[c].phase \in {"each_end", "list_end"} => plug[c].failed

ShapedAs(c) ==
  (InsertsOnly => InsertShape(c)) /\ (TriesDriver => TryShape(c)) /\ EndShape(c)

Shaped == (TriesDriver => ~Quiesced) /\ \A c \in Contexts : ShapedAs(c)

(* A context that will visit the vNQ of CPU i, unless the queue is quiesced*)
(* or it leaves the visit to the work item; a thread that has put its      *)
(* request there and runs the queue itself, or will after an insertion.    *)
OnTheWay(c, i) ==
  pc[c] \in {"run", "run_mask", "enter", "grab"} \/ (pc[c] = "collect" /\ i >= loc[c].cpu)

WillInsert(t) ==
  pc[t] = "idle" /\ (plug[t].phase = "insert" \/ (plug[t].phase = "list_end" /\ plug[t].batch # {}))

Visits(t, i) ==
  \/ OnTheWay(t, i) /\ (pc[t] \in {"run", "run_mask"} => loc[t].run = "sync")
  \/ WillInsert(t)

(* Staged requests are marked, and visited. *)
StagedKnown ==
  \A i \in Cpus : staged[i] # {} =>
    /\ Plugged => i \in mask
    /\ InsertsOnly => work \/ Quiesced \/ \E c \in Contexts : OnTheWay(c, i)
    /\ TriesDriver => \E t \in setup.threads : Visits(t, i)

(* A thread that stages has marked the CPU, and nobody unmarks it, since   *)
(* nothing else is staged at that time.                                    *)
StageMarked == Plugged => \A c \in Contexts : pc[c] = "stage" => CpuOf[loc[c].rq] \in mask

(* Requests that are put back are looked at again. *)
LooksAgain(c) == pc[c] \in {"rerun", "run", "enter", "grab"}
PutBackKnown == dispatch # {} => work \/ Quiesced \/ \E c \in Contexts : LooksAgain(c)

(* Who has posted requests will ring the doorbell. *)
Owes(c) ==
  \/ loc[c].sent /\ (pc[c] = "issue" \/ (pc[c] = "commit" /\ (loc[c].batch # {} \/ loc[c].failed)))
  \/ /\ c \in Threads
     /\ plug[c].sent /\ plug[c].phase \in {"each", "each_end", "list", "list_end"}
     /\ plug[c].failed \/ plug[c].rq # None \/ Left(c) # {}
PostedOwed == Plugged /\ posted # {} => \E c \in Contexts : Owes(c)

StallInv == Shaped /\ StagedKnown /\ StageMarked /\ PutBackKnown /\ PostedOwed

LEMMA PluggedModes == Plugged <=> InsertsOnly \/ TriesDriver
  BY DEF Plugged, InsertsOnly, TriesDriver

LEMMA OneThread ==
  ASSUME TriesDriver, NEW t \in setup.threads, NEW u \in setup.threads
  PROVE  t = u
  BY DEF TriesDriver

-----------------------------------------------------------------------------
(* What a step of one context does to the others' part of it: nothing.     *)
Sole(c) ==
  /\ UNCHANGED setup
  /\ \A d \in Contexts \ {c} : pc'[d] = pc[d] /\ loc'[d] = loc[d]
  /\ \A d \in Threads \ {c} : plug'[d] = plug[d]

KeepsVisits(c) ==
  \A i \in Cpus : staged'[i] # {} =>
    /\ staged[i] # {}
    /\ Plugged => i \in mask'
    /\ InsertsOnly /\ (work \/ Quiesced \/ OnTheWay(c, i)) => work' \/ Quiesced' \/ OnTheWay(c, i)'
    /\ TriesDriver /\ c \in setup.threads /\ Visits(c, i) => Visits(c, i)'

KeepsLooking(c) ==
  dispatch' # {} => \/ work' \/ Quiesced' \/ LooksAgain(c)'
                    \/ dispatch # {} /\ ~work /\ ~Quiesced /\ ~LooksAgain(c)

KeepsOwing(c) ==
  Plugged /\ posted' # {} => Owes(c)' \/ (posted # {} /\ ~Owes(c))

LEMMA StallKept ==
  ASSUME Typed, StallInv, NEW c \in Contexts, Sole(c),
         TriesDriver => depth' = depth, ShapedAs(c)'
  PROVE  /\ Shaped'
         /\ KeepsVisits(c) => StagedKnown'
         /\ KeepsLooking(c) => PutBackKnown'
         /\ KeepsOwing(c) => PostedOwed'
         /\ pc'[c] # "stage" /\ mask \subseteq mask' => StageMarked'
  <1>1. Shaped'
    <2>1. \A d \in Contexts \ {c} : ShapedAs(d)'
      BY DEF StallInv, Shaped, ShapedAs, InsertShape, TryShape, EndShape, Sole, InsertsOnly, TriesDriver
    <2>2. TriesDriver' => ~Quiesced'
      BY DEF StallInv, Shaped, Sole, TriesDriver, Quiesced
    <2> QED
      BY <2>1, <2>2 DEF Shaped
  <1>2. ASSUME KeepsVisits(c) PROVE StagedKnown'
    <2> SUFFICES ASSUME NEW i \in Cpus, staged'[i] # {}
                 PROVE  /\ Plugged => i \in mask'
                        /\ InsertsOnly => work' \/ Quiesced' \/ \E d \in Contexts : OnTheWay(d, i)'
                        /\ TriesDriver => \E t \in setup.threads : Visits(t, i)'
      BY DEF StagedKnown, Sole, Plugged, InsertsOnly, TriesDriver
    <2>1. /\ Plugged => i \in mask'
          /\ InsertsOnly /\ (work \/ Quiesced \/ OnTheWay(c, i)) => work' \/ Quiesced' \/ OnTheWay(c, i)'
          /\ TriesDriver /\ c \in setup.threads /\ Visits(c, i) => Visits(c, i)'
          /\ staged[i] # {}
      BY <1>2 DEF KeepsVisits
    <2>2. /\ InsertsOnly => work \/ Quiesced \/ \E d \in Contexts : OnTheWay(d, i)
          /\ TriesDriver => \E t \in setup.threads : Visits(t, i)
      BY <2>1 DEF StallInv, StagedKnown
    <2>3. \A d \in Contexts \ {c} : OnTheWay(d, i) => OnTheWay(d, i)'
      BY DEF Sole, OnTheWay
    <2>4. \A t \in setup.threads : t # c => (Visits(t, i) => Visits(t, i)')
      <3>1. setup.threads \subseteq Threads /\ Threads \subseteq Contexts
        BY ContextTypes DEF Typed
      <3> QED
        BY <2>3, <3>1 DEF Sole, Visits, OnTheWay, WillInsert
    <2> QED
      BY <2>1, <2>2, <2>3, <2>4
  <1>3. ASSUME KeepsLooking(c) PROVE PutBackKnown'
    <2>1. \A d \in Contexts \ {c} : LooksAgain(d) => LooksAgain(d)'
      BY DEF Sole, LooksAgain
    <2> QED
      BY <1>3, <2>1 DEF KeepsLooking, StallInv, PutBackKnown
  <1>4. ASSUME KeepsOwing(c) PROVE PostedOwed'
    <2>1. \A d \in Contexts \ {c} : Owes(d) => Owes(d)'
      BY DEF Sole, Owes, Left
    <2>2. Plugged' <=> Plugged
      BY DEF Sole, Plugged
    <2> QED
      BY <1>4, <2>1, <2>2 DEF KeepsOwing, StallInv, PostedOwed
  <1>5. ASSUME pc'[c] # "stage", mask \subseteq mask' PROVE StageMarked'
    BY <1>5 DEF StallInv, StageMarked, Sole, Plugged, CpuOf
  <1> QED
    BY <1>1, <1>2, <1>3, <1>4, <1>5

LEMMA RunCheckDispatchKeepsStall ==
  ASSUME IndInv, PlaceInv, StallInv, UNCHANGED setup, UNCHANGED plug, NEW c \in Contexts, RunCheckDispatch(c)
  PROVE  StallInv'
  <1>0. /\ c \in Contexts /\ Typed /\ loc[c] \in Locals /\ ShapedAs(c) /\ (TriesDriver => ~Quiesced)
        /\ HandsEmpty
    BY ContextTypes DEF IndInv, PlaceInv, Typed, ContextsTyped, StallInv, Shaped, FlushShape
  <1>1. Sole(c)
    BY <1>0 DEF RunCheckDispatch, Sole, NeedRun, At, Goto, Finish, NoLoc, Typed, ListsTyped, BoundsTyped, ContextsTyped, Locals
  <1>2. ShapedAs(c)' /\ (TriesDriver => depth' = depth)
    BY <1>0, ContextTypes DEF RunCheckDispatch, NeedRun, ShapedAs, InsertShape, TryShape, EndShape, InsertsOnly, TriesDriver, Quiesced, At, Goto, Finish, NoLoc, Typed, ListsTyped, BoundsTyped, ContextsTyped, Locals
  <1>3. KeepsVisits(c)
    BY <1>0, ContextTypes, PluggedModes DEF RunCheckDispatch, NeedRun, KeepsVisits, OnTheWay, Visits, WillInsert, StallInv, StagedKnown, Quiesced, At, Goto, Finish, NoLoc, Typed, ListsTyped, BoundsTyped, ContextsTyped, Locals
  <1>4. KeepsLooking(c)
    BY <1>0 DEF RunCheckDispatch, NeedRun, KeepsLooking, LooksAgain, Quiesced, At, Goto, Finish, NoLoc, Typed, ListsTyped, BoundsTyped, ContextsTyped, Locals
  <1>5. KeepsOwing(c)
    BY <1>0, PluggedModes DEF RunCheckDispatch, NeedRun, KeepsOwing, Owes, Left, CommitRqs, HandsEmpty, At, Goto, Finish, NoLoc, Typed, ListsTyped, BoundsTyped, ContextsTyped, Locals
  <1>6. StageMarked'
    <2>1. pc'[c] # "stage" /\ mask \subseteq mask'
      BY <1>0 DEF RunCheckDispatch, NeedRun, At, Goto, Finish, NoLoc, Typed, ListsTyped, BoundsTyped, ContextsTyped, Locals
    <2> QED
      BY <1>0, <1>1, <1>2, <2>1, StallKept
  <1> QED
    BY <1>0, <1>1, <1>2, <1>3, <1>4, <1>5, <1>6, StallKept DEF StallInv

LEMMA RunCheckMaskKeepsStall ==
  ASSUME IndInv, PlaceInv, StallInv, UNCHANGED setup, UNCHANGED plug, NEW c \in Contexts, RunCheckMask(c)
  PROVE  StallInv'
  <1>0. /\ c \in Contexts /\ Typed /\ loc[c] \in Locals /\ ShapedAs(c) /\ (TriesDriver => ~Quiesced)
        /\ HandsEmpty
    BY ContextTypes DEF IndInv, PlaceInv, Typed, ContextsTyped, StallInv, Shaped, FlushShape
  <1>1. Sole(c)
    BY <1>0 DEF RunCheckMask, Sole, NeedRun, At, Goto, Finish, NoLoc, Typed, ListsTyped, BoundsTyped, ContextsTyped, Locals
  <1>2. ShapedAs(c)' /\ (TriesDriver => depth' = depth)
    BY <1>0, ContextTypes DEF RunCheckMask, NeedRun, ShapedAs, InsertShape, TryShape, EndShape, InsertsOnly, TriesDriver, Quiesced, At, Goto, Finish, NoLoc, Typed, ListsTyped, BoundsTyped, ContextsTyped, Locals
  <1>3. KeepsVisits(c)
    BY <1>0, ContextTypes, PluggedModes DEF RunCheckMask, NeedRun, KeepsVisits, OnTheWay, Visits, WillInsert, StallInv, StagedKnown, Quiesced, At, Goto, Finish, NoLoc, Typed, ListsTyped, BoundsTyped, ContextsTyped, Locals
  <1>4. KeepsLooking(c)
    BY <1>0 DEF RunCheckMask, NeedRun, KeepsLooking, LooksAgain, Quiesced, At, Goto, Finish, NoLoc, Typed, ListsTyped, BoundsTyped, ContextsTyped, Locals
  <1>5. KeepsOwing(c)
    BY <1>0, PluggedModes DEF RunCheckMask, NeedRun, KeepsOwing, Owes, Left, CommitRqs, HandsEmpty, At, Goto, Finish, NoLoc, Typed, ListsTyped, BoundsTyped, ContextsTyped, Locals
  <1>6. StageMarked'
    <2>1. pc'[c] # "stage" /\ mask \subseteq mask'
      BY <1>0 DEF RunCheckMask, NeedRun, At, Goto, Finish, NoLoc, Typed, ListsTyped, BoundsTyped, ContextsTyped, Locals
    <2> QED
      BY <1>0, <1>1, <1>2, <2>1, StallKept
  <1> QED
    BY <1>0, <1>1, <1>2, <1>3, <1>4, <1>5, <1>6, StallKept DEF StallInv

LEMMA EnterKeepsStall ==
  ASSUME IndInv, PlaceInv, StallInv, UNCHANGED setup, UNCHANGED plug, NEW c \in Contexts, Enter(c)
  PROVE  StallInv'
  <1>0. /\ c \in Contexts /\ Typed /\ loc[c] \in Locals /\ ShapedAs(c) /\ (TriesDriver => ~Quiesced)
        /\ HandsEmpty
    BY ContextTypes DEF IndInv, PlaceInv, Typed, ContextsTyped, StallInv, Shaped, FlushShape
  <1>1. Sole(c)
    BY <1>0 DEF Enter, Sole, At, Goto, Finish, NoLoc, Typed, ListsTyped, BoundsTyped, ContextsTyped, Locals
  <1>2. ShapedAs(c)' /\ (TriesDriver => depth' = depth)
    BY <1>0, ContextTypes DEF Enter, ShapedAs, InsertShape, TryShape, EndShape, InsertsOnly, TriesDriver, Quiesced, At, Goto, Finish, NoLoc, Typed, ListsTyped, BoundsTyped, ContextsTyped, Locals
  <1>3. KeepsVisits(c)
    BY <1>0, ContextTypes, PluggedModes DEF Enter, KeepsVisits, OnTheWay, Visits, WillInsert, StallInv, StagedKnown, Quiesced, At, Goto, Finish, NoLoc, Typed, ListsTyped, BoundsTyped, ContextsTyped, Locals
  <1>4. KeepsLooking(c)
    BY <1>0 DEF Enter, KeepsLooking, LooksAgain, Quiesced, At, Goto, Finish, NoLoc, Typed, ListsTyped, BoundsTyped, ContextsTyped, Locals
  <1>5. KeepsOwing(c)
    BY <1>0, PluggedModes DEF Enter, KeepsOwing, Owes, Left, CommitRqs, HandsEmpty, At, Goto, Finish, NoLoc, Typed, ListsTyped, BoundsTyped, ContextsTyped, Locals
  <1>6. StageMarked'
    <2>1. pc'[c] # "stage" /\ mask \subseteq mask'
      BY <1>0 DEF Enter, At, Goto, Finish, NoLoc, Typed, ListsTyped, BoundsTyped, ContextsTyped, Locals
    <2> QED
      BY <1>0, <1>1, <1>2, <2>1, StallKept
  <1> QED
    BY <1>0, <1>1, <1>2, <1>3, <1>4, <1>5, <1>6, StallKept DEF StallInv

LEMMA GrabKeepsStall ==
  ASSUME IndInv, PlaceInv, StallInv, UNCHANGED setup, UNCHANGED plug, NEW c \in Contexts, Grab(c)
  PROVE  StallInv'
  <1>0. /\ c \in Contexts /\ Typed /\ loc[c] \in Locals /\ ShapedAs(c) /\ (TriesDriver => ~Quiesced)
        /\ HandsEmpty
    BY ContextTypes DEF IndInv, PlaceInv, Typed, ContextsTyped, StallInv, Shaped, FlushShape
  <1>1. Sole(c)
    BY <1>0 DEF Grab, Sole, At, Goto, Finish, NoLoc, Typed, ListsTyped, BoundsTyped, ContextsTyped, Locals
  <1>2. ShapedAs(c)' /\ (TriesDriver => depth' = depth)
    BY <1>0, ContextTypes DEF Grab, ShapedAs, InsertShape, TryShape, EndShape, InsertsOnly, TriesDriver, Quiesced, At, Goto, Finish, NoLoc, Typed, ListsTyped, BoundsTyped, ContextsTyped, Locals
  <1>3. KeepsVisits(c)
    BY <1>0, ContextTypes, PluggedModes DEF Grab, KeepsVisits, OnTheWay, Visits, WillInsert, StallInv, StagedKnown, Quiesced, At, Goto, Finish, NoLoc, Typed, ListsTyped, BoundsTyped, ContextsTyped, Locals
  <1>4. KeepsLooking(c)
    BY <1>0 DEF Grab, KeepsLooking, LooksAgain, Quiesced, At, Goto, Finish, NoLoc, Typed, ListsTyped, BoundsTyped, ContextsTyped, Locals
  <1>5. KeepsOwing(c)
    BY <1>0, PluggedModes DEF Grab, KeepsOwing, Owes, Left, CommitRqs, HandsEmpty, At, Goto, Finish, NoLoc, Typed, ListsTyped, BoundsTyped, ContextsTyped, Locals
  <1>6. StageMarked'
    <2>1. pc'[c] # "stage" /\ mask \subseteq mask'
      BY <1>0 DEF Grab, At, Goto, Finish, NoLoc, Typed, ListsTyped, BoundsTyped, ContextsTyped, Locals
    <2> QED
      BY <1>0, <1>1, <1>2, <2>1, StallKept
  <1> QED
    BY <1>0, <1>1, <1>2, <1>3, <1>4, <1>5, <1>6, StallKept DEF StallInv

LEMMA CommitKeepsStall ==
  ASSUME IndInv, PlaceInv, StallInv, UNCHANGED setup, UNCHANGED plug, NEW c \in Contexts, Commit(c)
  PROVE  StallInv'
  <1>0. /\ c \in Contexts /\ Typed /\ loc[c] \in Locals /\ ShapedAs(c) /\ (TriesDriver => ~Quiesced)
        /\ HandsEmpty
    BY ContextTypes DEF IndInv, PlaceInv, Typed, ContextsTyped, StallInv, Shaped, FlushShape
  <1>1. Sole(c)
    BY <1>0 DEF Commit, Sole, AfterIssue, At, Goto, Finish, NoLoc, Typed, ListsTyped, BoundsTyped, ContextsTyped, Locals
  <1>2. ShapedAs(c)' /\ (TriesDriver => depth' = depth)
    BY <1>0, ContextTypes DEF Commit, AfterIssue, ShapedAs, InsertShape, TryShape, EndShape, InsertsOnly, TriesDriver, Quiesced, At, Goto, Finish, NoLoc, Typed, ListsTyped, BoundsTyped, ContextsTyped, Locals
  <1>3. KeepsVisits(c)
    BY <1>0, ContextTypes, PluggedModes DEF Commit, AfterIssue, KeepsVisits, OnTheWay, Visits, WillInsert, StallInv, StagedKnown, Quiesced, At, Goto, Finish, NoLoc, Typed, ListsTyped, BoundsTyped, ContextsTyped, Locals
  <1>4. KeepsLooking(c)
    BY <1>0 DEF Commit, AfterIssue, KeepsLooking, LooksAgain, Quiesced, At, Goto, Finish, NoLoc, Typed, ListsTyped, BoundsTyped, ContextsTyped, Locals
  <1>5. KeepsOwing(c)
    BY <1>0, PluggedModes DEF Commit, AfterIssue, KeepsOwing, Owes, Left, CommitRqs, HandsEmpty, At, Goto, Finish, NoLoc, Typed, ListsTyped, BoundsTyped, ContextsTyped, Locals
  <1>6. StageMarked'
    <2>1. pc'[c] # "stage" /\ mask \subseteq mask'
      BY <1>0 DEF Commit, AfterIssue, At, Goto, Finish, NoLoc, Typed, ListsTyped, BoundsTyped, ContextsTyped, Locals
    <2> QED
      BY <1>0, <1>1, <1>2, <2>1, StallKept
  <1> QED
    BY <1>0, <1>1, <1>2, <1>3, <1>4, <1>5, <1>6, StallKept DEF StallInv

LEMMA PutBackKeepsStall ==
  ASSUME IndInv, PlaceInv, StallInv, UNCHANGED setup, UNCHANGED plug, NEW c \in Contexts, PutBack(c)
  PROVE  StallInv'
  <1>0. /\ c \in Contexts /\ Typed /\ loc[c] \in Locals /\ ShapedAs(c) /\ (TriesDriver => ~Quiesced)
        /\ HandsEmpty
    BY ContextTypes DEF IndInv, PlaceInv, Typed, ContextsTyped, StallInv, Shaped, FlushShape
  <1>1. Sole(c)
    BY <1>0 DEF PutBack, Sole, At, Goto, Finish, NoLoc, Typed, ListsTyped, BoundsTyped, ContextsTyped, Locals
  <1>2. ShapedAs(c)' /\ (TriesDriver => depth' = depth)
    BY <1>0, ContextTypes DEF PutBack, ShapedAs, InsertShape, TryShape, EndShape, InsertsOnly, TriesDriver, Quiesced, At, Goto, Finish, NoLoc, Typed, ListsTyped, BoundsTyped, ContextsTyped, Locals
  <1>3. KeepsVisits(c)
    BY <1>0, ContextTypes, PluggedModes DEF PutBack, KeepsVisits, OnTheWay, Visits, WillInsert, StallInv, StagedKnown, Quiesced, At, Goto, Finish, NoLoc, Typed, ListsTyped, BoundsTyped, ContextsTyped, Locals
  <1>4. KeepsLooking(c)
    BY <1>0 DEF PutBack, KeepsLooking, LooksAgain, Quiesced, At, Goto, Finish, NoLoc, Typed, ListsTyped, BoundsTyped, ContextsTyped, Locals
  <1>5. KeepsOwing(c)
    BY <1>0, PluggedModes DEF PutBack, KeepsOwing, Owes, Left, CommitRqs, HandsEmpty, At, Goto, Finish, NoLoc, Typed, ListsTyped, BoundsTyped, ContextsTyped, Locals
  <1>6. StageMarked'
    <2>1. pc'[c] # "stage" /\ mask \subseteq mask'
      BY <1>0 DEF PutBack, At, Goto, Finish, NoLoc, Typed, ListsTyped, BoundsTyped, ContextsTyped, Locals
    <2> QED
      BY <1>0, <1>1, <1>2, <2>1, StallKept
  <1> QED
    BY <1>0, <1>1, <1>2, <1>3, <1>4, <1>5, <1>6, StallKept DEF StallInv

LEMMA RerunKeepsStall ==
  ASSUME IndInv, PlaceInv, StallInv, UNCHANGED setup, UNCHANGED plug, NEW c \in Contexts, Rerun(c)
  PROVE  StallInv'
  <1>0. /\ c \in Contexts /\ Typed /\ loc[c] \in Locals /\ ShapedAs(c) /\ (TriesDriver => ~Quiesced)
        /\ HandsEmpty
    BY ContextTypes DEF IndInv, PlaceInv, Typed, ContextsTyped, StallInv, Shaped, FlushShape
  <1>1. Sole(c)
    BY <1>0 DEF Rerun, Sole, At, Goto, Finish, NoLoc, Typed, ListsTyped, BoundsTyped, ContextsTyped, Locals
  <1>2. ShapedAs(c)' /\ (TriesDriver => depth' = depth)
    BY <1>0, ContextTypes DEF Rerun, ShapedAs, InsertShape, TryShape, EndShape, InsertsOnly, TriesDriver, Quiesced, At, Goto, Finish, NoLoc, Typed, ListsTyped, BoundsTyped, ContextsTyped, Locals
  <1>3. KeepsVisits(c)
    BY <1>0, ContextTypes, PluggedModes DEF Rerun, KeepsVisits, OnTheWay, Visits, WillInsert, StallInv, StagedKnown, Quiesced, At, Goto, Finish, NoLoc, Typed, ListsTyped, BoundsTyped, ContextsTyped, Locals
  <1>4. KeepsLooking(c)
    BY <1>0 DEF Rerun, KeepsLooking, LooksAgain, Quiesced, At, Goto, Finish, NoLoc, Typed, ListsTyped, BoundsTyped, ContextsTyped, Locals
  <1>5. KeepsOwing(c)
    BY <1>0, PluggedModes DEF Rerun, KeepsOwing, Owes, Left, CommitRqs, HandsEmpty, At, Goto, Finish, NoLoc, Typed, ListsTyped, BoundsTyped, ContextsTyped, Locals
  <1>6. StageMarked'
    <2>1. pc'[c] # "stage" /\ mask \subseteq mask'
      BY <1>0 DEF Rerun, At, Goto, Finish, NoLoc, Typed, ListsTyped, BoundsTyped, ContextsTyped, Locals
    <2> QED
      BY <1>0, <1>1, <1>2, <2>1, StallKept
  <1> QED
    BY <1>0, <1>1, <1>2, <1>3, <1>4, <1>5, <1>6, StallKept DEF StallInv

LEMMA LookAgainKeepsStall ==
  ASSUME IndInv, PlaceInv, StallInv, UNCHANGED setup, UNCHANGED plug, NEW c \in Contexts, LookAgain(c)
  PROVE  StallInv'
  <1>0. /\ c \in Contexts /\ Typed /\ loc[c] \in Locals /\ ShapedAs(c) /\ (TriesDriver => ~Quiesced)
        /\ HandsEmpty
    BY ContextTypes DEF IndInv, PlaceInv, Typed, ContextsTyped, StallInv, Shaped, FlushShape
  <1>1. Sole(c)
    BY <1>0 DEF LookAgain, Sole, At, Goto, Finish, NoLoc, Typed, ListsTyped, BoundsTyped, ContextsTyped, Locals
  <1>2. ShapedAs(c)' /\ (TriesDriver => depth' = depth)
    BY <1>0, ContextTypes DEF LookAgain, ShapedAs, InsertShape, TryShape, EndShape, InsertsOnly, TriesDriver, Quiesced, At, Goto, Finish, NoLoc, Typed, ListsTyped, BoundsTyped, ContextsTyped, Locals
  <1>3. KeepsVisits(c)
    BY <1>0, ContextTypes, PluggedModes DEF LookAgain, KeepsVisits, OnTheWay, Visits, WillInsert, StallInv, StagedKnown, Quiesced, At, Goto, Finish, NoLoc, Typed, ListsTyped, BoundsTyped, ContextsTyped, Locals
  <1>4. KeepsLooking(c)
    BY <1>0 DEF LookAgain, KeepsLooking, LooksAgain, Quiesced, At, Goto, Finish, NoLoc, Typed, ListsTyped, BoundsTyped, ContextsTyped, Locals
  <1>5. KeepsOwing(c)
    BY <1>0, PluggedModes DEF LookAgain, KeepsOwing, Owes, Left, CommitRqs, HandsEmpty, At, Goto, Finish, NoLoc, Typed, ListsTyped, BoundsTyped, ContextsTyped, Locals
  <1>6. StageMarked'
    <2>1. pc'[c] # "stage" /\ mask \subseteq mask'
      BY <1>0 DEF LookAgain, At, Goto, Finish, NoLoc, Typed, ListsTyped, BoundsTyped, ContextsTyped, Locals
    <2> QED
      BY <1>0, <1>1, <1>2, <2>1, StallKept
  <1> QED
    BY <1>0, <1>1, <1>2, <1>3, <1>4, <1>5, <1>6, StallKept DEF StallInv

LEMMA IssueKeepsStall ==
  ASSUME IndInv, PlaceInv, StallInv, UNCHANGED setup, UNCHANGED plug, NEW c \in Contexts, NEW r \in Requests, Issue(c, r)
  PROVE  StallInv'
  <1>0. /\ c \in Contexts /\ Typed /\ loc[c] \in Locals /\ ShapedAs(c) /\ (TriesDriver => ~Quiesced)
        /\ HandsEmpty
    BY ContextTypes DEF IndInv, PlaceInv, Typed, ContextsTyped, StallInv, Shaped, FlushShape
  <1>1. Sole(c)
    BY <1>0 DEF Issue, Sole, Accepted, Failed, Refused, At, Goto, Finish, NoLoc, Typed, ListsTyped, BoundsTyped, ContextsTyped, Locals
  <1>2. ShapedAs(c)' /\ (TriesDriver => depth' = depth)
    BY <1>0, ContextTypes DEF Issue, Accepted, Failed, Refused, ShapedAs, InsertShape, TryShape, EndShape, InsertsOnly, TriesDriver, Quiesced, At, Goto, Finish, NoLoc, Typed, ListsTyped, BoundsTyped, ContextsTyped, Locals
  <1>3. KeepsVisits(c)
    BY <1>0, ContextTypes, PluggedModes DEF Issue, Accepted, Failed, Refused, KeepsVisits, OnTheWay, Visits, WillInsert, StallInv, StagedKnown, Quiesced, At, Goto, Finish, NoLoc, Typed, ListsTyped, BoundsTyped, ContextsTyped, Locals
  <1>4. KeepsLooking(c)
    BY <1>0 DEF Issue, Accepted, Failed, Refused, KeepsLooking, LooksAgain, Quiesced, At, Goto, Finish, NoLoc, Typed, ListsTyped, BoundsTyped, ContextsTyped, Locals
  <1>5. KeepsOwing(c)
    BY <1>0, PluggedModes DEF Issue, Accepted, Failed, Refused, KeepsOwing, Owes, Left, CommitRqs, HandsEmpty, At, Goto, Finish, NoLoc, Typed, ListsTyped, BoundsTyped, ContextsTyped, Locals
  <1>6. StageMarked'
    <2>1. pc'[c] # "stage" /\ mask \subseteq mask'
      BY <1>0 DEF Issue, Accepted, Failed, Refused, At, Goto, Finish, NoLoc, Typed, ListsTyped, BoundsTyped, ContextsTyped, Locals
    <2> QED
      BY <1>0, <1>1, <1>2, <2>1, StallKept
  <1> QED
    BY <1>0, <1>1, <1>2, <1>3, <1>4, <1>5, <1>6, StallKept DEF StallInv

LEMMA WorkStartKeepsStall ==
  ASSUME IndInv, PlaceInv, StallInv, UNCHANGED setup, UNCHANGED plug, WorkStart
  PROVE  StallInv'
  <1>0. /\ "worker" \in Contexts /\ Typed /\ loc["worker"] \in Locals /\ ShapedAs("worker") /\ (TriesDriver => ~Quiesced)
        /\ HandsEmpty
    BY ContextTypes DEF IndInv, PlaceInv, Typed, ContextsTyped, StallInv, Shaped, FlushShape
  <1>1. Sole("worker")
    BY <1>0 DEF WorkStart, Sole, At, Goto, Finish, NoLoc, Typed, ListsTyped, BoundsTyped, ContextsTyped, Locals
  <1>2. ShapedAs("worker")' /\ (TriesDriver => depth' = depth)
    BY <1>0, ContextTypes DEF WorkStart, ShapedAs, InsertShape, TryShape, EndShape, InsertsOnly, TriesDriver, Quiesced, At, Goto, Finish, NoLoc, Typed, ListsTyped, BoundsTyped, ContextsTyped, Locals
  <1>3. KeepsVisits("worker")
    BY <1>0, ContextTypes, PluggedModes DEF WorkStart, KeepsVisits, OnTheWay, Visits, WillInsert, StallInv, StagedKnown, Quiesced, At, Goto, Finish, NoLoc, Typed, ListsTyped, BoundsTyped, ContextsTyped, Locals
  <1>4. KeepsLooking("worker")
    BY <1>0 DEF WorkStart, KeepsLooking, LooksAgain, Quiesced, At, Goto, Finish, NoLoc, Typed, ListsTyped, BoundsTyped, ContextsTyped, Locals
  <1>5. KeepsOwing("worker")
    BY <1>0, PluggedModes DEF WorkStart, KeepsOwing, Owes, Left, CommitRqs, HandsEmpty, At, Goto, Finish, NoLoc, Typed, ListsTyped, BoundsTyped, ContextsTyped, Locals
  <1>6. StageMarked'
    <2>1. pc'["worker"] # "stage" /\ mask \subseteq mask'
      BY <1>0 DEF WorkStart, At, Goto, Finish, NoLoc, Typed, ListsTyped, BoundsTyped, ContextsTyped, Locals
    <2> QED
      BY <1>0, <1>1, <1>2, <2>1, StallKept
  <1> QED
    BY <1>0, <1>1, <1>2, <1>3, <1>4, <1>5, <1>6, StallKept DEF StallInv

LEMMA CompleteKeepsStall ==
  ASSUME IndInv, PlaceInv, StallInv, UNCHANGED setup, UNCHANGED plug, NEW r \in Requests, Complete(r)
  PROVE  StallInv'
  <1>0. /\ "irq" \in Contexts /\ Typed /\ loc["irq"] \in Locals /\ ShapedAs("irq") /\ (TriesDriver => ~Quiesced)
        /\ HandsEmpty
    BY ContextTypes DEF IndInv, PlaceInv, Typed, ContextsTyped, StallInv, Shaped, FlushShape
  <1>1. Sole("irq")
    BY <1>0 DEF Complete, Sole, At, Goto, Finish, NoLoc, Typed, ListsTyped, BoundsTyped, ContextsTyped, Locals
  <1>2. ShapedAs("irq")' /\ (TriesDriver => depth' = depth)
    BY <1>0, ContextTypes DEF Complete, ShapedAs, InsertShape, TryShape, EndShape, InsertsOnly, TriesDriver, Quiesced, At, Goto, Finish, NoLoc, Typed, ListsTyped, BoundsTyped, ContextsTyped, Locals
  <1>3. KeepsVisits("irq")
    BY <1>0, ContextTypes, PluggedModes DEF Complete, KeepsVisits, OnTheWay, Visits, WillInsert, StallInv, StagedKnown, Quiesced, At, Goto, Finish, NoLoc, Typed, ListsTyped, BoundsTyped, ContextsTyped, Locals
  <1>4. KeepsLooking("irq")
    BY <1>0 DEF Complete, KeepsLooking, LooksAgain, Quiesced, At, Goto, Finish, NoLoc, Typed, ListsTyped, BoundsTyped, ContextsTyped, Locals
  <1>5. KeepsOwing("irq")
    BY <1>0, PluggedModes DEF Complete, KeepsOwing, Owes, Left, CommitRqs, HandsEmpty, At, Goto, Finish, NoLoc, Typed, ListsTyped, BoundsTyped, ContextsTyped, Locals
  <1>6. StageMarked'
    <2>1. pc'["irq"] # "stage" /\ mask \subseteq mask'
      BY <1>0 DEF Complete, At, Goto, Finish, NoLoc, Typed, ListsTyped, BoundsTyped, ContextsTyped, Locals
    <2> QED
      BY <1>0, <1>1, <1>2, <2>1, StallKept
  <1> QED
    BY <1>0, <1>1, <1>2, <1>3, <1>4, <1>5, <1>6, StallKept DEF StallInv

LEMMA RestartKeepsStall ==
  ASSUME IndInv, PlaceInv, StallInv, UNCHANGED setup, UNCHANGED plug, Restart
  PROVE  StallInv'
  <1>0. /\ "irq" \in Contexts /\ Typed /\ loc["irq"] \in Locals /\ ShapedAs("irq") /\ (TriesDriver => ~Quiesced)
        /\ HandsEmpty
    BY ContextTypes DEF IndInv, PlaceInv, Typed, ContextsTyped, StallInv, Shaped, FlushShape
  <1>1. Sole("irq")
    BY <1>0 DEF Restart, Sole, At, Goto, Finish, NoLoc, Typed, ListsTyped, BoundsTyped, ContextsTyped, Locals
  <1>2. ShapedAs("irq")' /\ (TriesDriver => depth' = depth)
    BY <1>0, ContextTypes DEF Restart, ShapedAs, InsertShape, TryShape, EndShape, InsertsOnly, TriesDriver, Quiesced, At, Goto, Finish, NoLoc, Typed, ListsTyped, BoundsTyped, ContextsTyped, Locals
  <1>3. KeepsVisits("irq")
    BY <1>0, ContextTypes, PluggedModes DEF Restart, KeepsVisits, OnTheWay, Visits, WillInsert, StallInv, StagedKnown, Quiesced, At, Goto, Finish, NoLoc, Typed, ListsTyped, BoundsTyped, ContextsTyped, Locals
  <1>4. KeepsLooking("irq")
    BY <1>0 DEF Restart, KeepsLooking, LooksAgain, Quiesced, At, Goto, Finish, NoLoc, Typed, ListsTyped, BoundsTyped, ContextsTyped, Locals
  <1>5. KeepsOwing("irq")
    BY <1>0, PluggedModes DEF Restart, KeepsOwing, Owes, Left, CommitRqs, HandsEmpty, At, Goto, Finish, NoLoc, Typed, ListsTyped, BoundsTyped, ContextsTyped, Locals
  <1>6. StageMarked'
    <2>1. pc'["irq"] # "stage" /\ mask \subseteq mask'
      BY <1>0 DEF Restart, At, Goto, Finish, NoLoc, Typed, ListsTyped, BoundsTyped, ContextsTyped, Locals
    <2> QED
      BY <1>0, <1>1, <1>2, <2>1, StallKept
  <1> QED
    BY <1>0, <1>1, <1>2, <1>3, <1>4, <1>5, <1>6, StallKept DEF StallInv

LEMMA QuiesceBeginKeepsStall ==
  ASSUME IndInv, PlaceInv, StallInv, UNCHANGED setup, UNCHANGED plug, NEW q \in setup.quiescers, QuiesceBegin(q)
  PROVE  StallInv'
  <1>0. /\ q \in Contexts /\ Typed /\ loc[q] \in Locals /\ ShapedAs(q) /\ (TriesDriver => ~Quiesced)
        /\ HandsEmpty
    BY ContextTypes DEF IndInv, PlaceInv, Typed, ContextsTyped, StallInv, Shaped, FlushShape
  <1>1. Sole(q)
    BY <1>0 DEF QuiesceBegin, Sole, TriesDriver, InsertsOnly, At, Goto, Finish, NoLoc, Typed, ListsTyped, BoundsTyped, ContextsTyped, Locals
  <1>2. ShapedAs(q)' /\ (TriesDriver => depth' = depth)
    BY <1>0, ContextTypes DEF QuiesceBegin, TriesDriver, InsertsOnly, ShapedAs, InsertShape, TryShape, EndShape, InsertsOnly, TriesDriver, Quiesced, At, Goto, Finish, NoLoc, Typed, ListsTyped, BoundsTyped, ContextsTyped, Locals
  <1>3. KeepsVisits(q)
    BY <1>0, ContextTypes, PluggedModes DEF QuiesceBegin, TriesDriver, InsertsOnly, KeepsVisits, OnTheWay, Visits, WillInsert, StallInv, StagedKnown, Quiesced, At, Goto, Finish, NoLoc, Typed, ListsTyped, BoundsTyped, ContextsTyped, Locals
  <1>4. KeepsLooking(q)
    BY <1>0 DEF QuiesceBegin, TriesDriver, InsertsOnly, KeepsLooking, LooksAgain, Quiesced, At, Goto, Finish, NoLoc, Typed, ListsTyped, BoundsTyped, ContextsTyped, Locals
  <1>5. KeepsOwing(q)
    BY <1>0, PluggedModes DEF QuiesceBegin, TriesDriver, InsertsOnly, KeepsOwing, Owes, Left, CommitRqs, HandsEmpty, At, Goto, Finish, NoLoc, Typed, ListsTyped, BoundsTyped, ContextsTyped, Locals
  <1>6. StageMarked'
    <2>1. pc'[q] # "stage" /\ mask \subseteq mask'
      BY <1>0 DEF QuiesceBegin, TriesDriver, InsertsOnly, At, Goto, Finish, NoLoc, Typed, ListsTyped, BoundsTyped, ContextsTyped, Locals
    <2> QED
      BY <1>0, <1>1, <1>2, <2>1, StallKept
  <1> QED
    BY <1>0, <1>1, <1>2, <1>3, <1>4, <1>5, <1>6, StallKept DEF StallInv

LEMMA QuiesceWaitKeepsStall ==
  ASSUME IndInv, PlaceInv, StallInv, UNCHANGED setup, UNCHANGED plug, NEW q \in setup.quiescers, QuiesceWait(q)
  PROVE  StallInv'
  <1>0. /\ q \in Contexts /\ Typed /\ loc[q] \in Locals /\ ShapedAs(q) /\ (TriesDriver => ~Quiesced)
        /\ HandsEmpty
    BY ContextTypes DEF IndInv, PlaceInv, Typed, ContextsTyped, StallInv, Shaped, FlushShape
  <1>1. Sole(q)
    BY <1>0 DEF QuiesceWait, Sole, TriesDriver, InsertsOnly, At, Goto, Finish, NoLoc, Typed, ListsTyped, BoundsTyped, ContextsTyped, Locals
  <1>2. ShapedAs(q)' /\ (TriesDriver => depth' = depth)
    BY <1>0, ContextTypes DEF QuiesceWait, TriesDriver, InsertsOnly, ShapedAs, InsertShape, TryShape, EndShape, InsertsOnly, TriesDriver, Quiesced, At, Goto, Finish, NoLoc, Typed, ListsTyped, BoundsTyped, ContextsTyped, Locals
  <1>3. KeepsVisits(q)
    BY <1>0, ContextTypes, PluggedModes DEF QuiesceWait, TriesDriver, InsertsOnly, KeepsVisits, OnTheWay, Visits, WillInsert, StallInv, StagedKnown, Quiesced, At, Goto, Finish, NoLoc, Typed, ListsTyped, BoundsTyped, ContextsTyped, Locals
  <1>4. KeepsLooking(q)
    BY <1>0 DEF QuiesceWait, TriesDriver, InsertsOnly, KeepsLooking, LooksAgain, Quiesced, At, Goto, Finish, NoLoc, Typed, ListsTyped, BoundsTyped, ContextsTyped, Locals
  <1>5. KeepsOwing(q)
    BY <1>0, PluggedModes DEF QuiesceWait, TriesDriver, InsertsOnly, KeepsOwing, Owes, Left, CommitRqs, HandsEmpty, At, Goto, Finish, NoLoc, Typed, ListsTyped, BoundsTyped, ContextsTyped, Locals
  <1>6. StageMarked'
    <2>1. pc'[q] # "stage" /\ mask \subseteq mask'
      BY <1>0 DEF QuiesceWait, TriesDriver, InsertsOnly, At, Goto, Finish, NoLoc, Typed, ListsTyped, BoundsTyped, ContextsTyped, Locals
    <2> QED
      BY <1>0, <1>1, <1>2, <2>1, StallKept
  <1> QED
    BY <1>0, <1>1, <1>2, <1>3, <1>4, <1>5, <1>6, StallKept DEF StallInv

LEMMA UnquiesceKeepsStall ==
  ASSUME IndInv, PlaceInv, StallInv, UNCHANGED setup, UNCHANGED plug, NEW q \in setup.quiescers, Unquiesce(q)
  PROVE  StallInv'
  <1>0. /\ q \in Contexts /\ Typed /\ loc[q] \in Locals /\ ShapedAs(q) /\ (TriesDriver => ~Quiesced)
        /\ HandsEmpty
    BY ContextTypes DEF IndInv, PlaceInv, Typed, ContextsTyped, StallInv, Shaped, FlushShape
  <1>1. Sole(q)
    BY <1>0 DEF Unquiesce, Sole, TriesDriver, InsertsOnly, At, Goto, Finish, NoLoc, Typed, ListsTyped, BoundsTyped, ContextsTyped, Locals
  <1>2. ShapedAs(q)' /\ (TriesDriver => depth' = depth)
    BY <1>0, ContextTypes DEF Unquiesce, TriesDriver, InsertsOnly, ShapedAs, InsertShape, TryShape, EndShape, InsertsOnly, TriesDriver, Quiesced, At, Goto, Finish, NoLoc, Typed, ListsTyped, BoundsTyped, ContextsTyped, Locals
  <1>3. KeepsVisits(q)
    <2>1. ~TriesDriver /\ q \notin Threads
      BY <1>0, ContextTypes DEF TriesDriver, Typed
    <2>2. Quiesced => Quiesced' \/ OnTheWay(q, 0)'
      <3>1. CASE depth = 1
        BY <1>0, <3>1 DEF Unquiesce, At, Goto, OnTheWay, Typed, ContextsTyped
      <3>2. CASE depth # 1 /\ depth > 0
        BY <1>0, <3>2 DEF Unquiesce, Quiesced, Typed, BoundsTyped
      <3> QED
        BY <1>0, <3>1, <3>2 DEF Quiesced
    <2>3. pc[q] = "quiesced" /\ pc'[q] \in {"run", "idle"}
      BY <1>0 DEF Unquiesce, At, Goto, Finish, Typed, ContextsTyped
    <2>4. staged' = staged /\ mask' = mask /\ work' = work
      BY DEF Unquiesce
    <2> QED
      BY <1>0, <2>1, <2>2, <2>3, <2>4, PluggedModes DEF KeepsVisits, OnTheWay, StallInv, StagedKnown
  <1>4. KeepsLooking(q)
    BY <1>0 DEF Unquiesce, TriesDriver, InsertsOnly, KeepsLooking, LooksAgain, Quiesced, At, Goto, Finish, NoLoc, Typed, ListsTyped, BoundsTyped, ContextsTyped, Locals
  <1>5. KeepsOwing(q)
    BY <1>0, PluggedModes DEF Unquiesce, TriesDriver, InsertsOnly, KeepsOwing, Owes, Left, CommitRqs, HandsEmpty, At, Goto, Finish, NoLoc, Typed, ListsTyped, BoundsTyped, ContextsTyped, Locals
  <1>6. StageMarked'
    <2>1. pc'[q] # "stage" /\ mask \subseteq mask'
      BY <1>0 DEF Unquiesce, TriesDriver, InsertsOnly, At, Goto, Finish, NoLoc, Typed, ListsTyped, BoundsTyped, ContextsTyped, Locals
    <2> QED
      BY <1>0, <1>1, <1>2, <2>1, StallKept
  <1> QED
    BY <1>0, <1>1, <1>2, <1>3, <1>4, <1>5, <1>6, StallKept DEF StallInv

LEMMA CollectEndKeepsStall ==
  ASSUME IndInv, PlaceInv, StallInv, UNCHANGED setup, UNCHANGED plug, NEW c \in Contexts, CollectEnd(c)
  PROVE  StallInv'
  <1>0. /\ c \in Contexts /\ Typed /\ loc[c] \in Locals /\ ShapedAs(c) /\ (TriesDriver => ~Quiesced)
        /\ HandsEmpty
    BY ContextTypes DEF IndInv, PlaceInv, Typed, ContextsTyped, StallInv, Shaped, FlushShape
  <1>1. Sole(c)
    BY <1>0 DEF CollectEnd, Sole, At, Goto, Finish, NoLoc, Typed, ListsTyped, BoundsTyped, ContextsTyped, Locals
  <1>2. ShapedAs(c)' /\ (TriesDriver => depth' = depth)
    BY <1>0, ContextTypes DEF CollectEnd, ShapedAs, InsertShape, TryShape, EndShape, InsertsOnly, TriesDriver, Quiesced, At, Goto, Finish, NoLoc, Typed, ListsTyped, BoundsTyped, ContextsTyped, Locals
  <1>3. KeepsVisits(c)
    <2>1. \A i \in Cpus : staged[i] # {} /\ Plugged => ~(i >= loc[c].cpu)
      BY DEF CollectEnd, MarkedFrom, StallInv, StagedKnown
    <2>2. pc[c] = "collect"
      BY DEF CollectEnd, At
    <2>3. \A i \in Cpus : staged[i] # {} /\ Plugged => ~OnTheWay(c, i) /\ ~Visits(c, i)
      BY <2>1, <2>2 DEF OnTheWay, Visits, WillInsert
    <2>4. staged' = staged /\ mask' = mask /\ work' = work /\ depth' = depth
      BY DEF CollectEnd
    <2> QED
      BY <2>3, <2>4, PluggedModes DEF KeepsVisits, Quiesced, StallInv, StagedKnown
  <1>4. KeepsLooking(c)
    BY <1>0 DEF CollectEnd, KeepsLooking, LooksAgain, Quiesced, At, Goto, Finish, NoLoc, Typed, ListsTyped, BoundsTyped, ContextsTyped, Locals
  <1>5. KeepsOwing(c)
    BY <1>0, PluggedModes DEF CollectEnd, KeepsOwing, Owes, Left, CommitRqs, HandsEmpty, At, Goto, Finish, NoLoc, Typed, ListsTyped, BoundsTyped, ContextsTyped, Locals
  <1>6. StageMarked'
    <2>1. pc'[c] # "stage" /\ mask \subseteq mask'
      BY <1>0 DEF CollectEnd, At, Goto, Finish, NoLoc, Typed, ListsTyped, BoundsTyped, ContextsTyped, Locals
    <2> QED
      BY <1>0, <1>1, <1>2, <2>1, StallKept
  <1> QED
    BY <1>0, <1>1, <1>2, <1>3, <1>4, <1>5, <1>6, StallKept DEF StallInv

LEMMA MarkCpuKeepsStall ==
  ASSUME IndInv, PlaceInv, StallInv, UNCHANGED setup, UNCHANGED plug, NEW c \in Contexts, MarkCpu(c)
  PROVE  StallInv'
  <1>0. /\ c \in Contexts /\ Typed /\ loc[c] \in Locals /\ ShapedAs(c) /\ (TriesDriver => ~Quiesced)
        /\ HandsEmpty
    BY ContextTypes DEF IndInv, PlaceInv, Typed, ContextsTyped, StallInv, Shaped, FlushShape
  <1>1. Sole(c)
    BY <1>0 DEF MarkCpu, Sole, CpuOf, At, Goto, Finish, NoLoc, Typed, ListsTyped, BoundsTyped, ContextsTyped, Locals
  <1>2. ShapedAs(c)' /\ (TriesDriver => depth' = depth)
    BY <1>0, ContextTypes DEF MarkCpu, CpuOf, ShapedAs, InsertShape, TryShape, EndShape, InsertsOnly, TriesDriver, Quiesced, At, Goto, Finish, NoLoc, Typed, ListsTyped, BoundsTyped, ContextsTyped, Locals
  <1>3. KeepsVisits(c)
    BY <1>0, ContextTypes, PluggedModes DEF MarkCpu, CpuOf, KeepsVisits, OnTheWay, Visits, WillInsert, StallInv, StagedKnown, Quiesced, At, Goto, Finish, NoLoc, Typed, ListsTyped, BoundsTyped, ContextsTyped, Locals
  <1>4. KeepsLooking(c)
    BY <1>0 DEF MarkCpu, CpuOf, KeepsLooking, LooksAgain, Quiesced, At, Goto, Finish, NoLoc, Typed, ListsTyped, BoundsTyped, ContextsTyped, Locals
  <1>5. KeepsOwing(c)
    BY <1>0, PluggedModes DEF MarkCpu, CpuOf, KeepsOwing, Owes, Left, CommitRqs, HandsEmpty, At, Goto, Finish, NoLoc, Typed, ListsTyped, BoundsTyped, ContextsTyped, Locals
  <1>6. StageMarked'
    <2>1. pc'[c] = "stage" /\ loc'[c].rq = loc[c].rq /\ mask' = mask \cup {CpuOf[loc[c].rq]}
      BY <1>0 DEF MarkCpu, At, Goto, Typed, ContextsTyped
    <2> QED
      BY <1>1, <2>1 DEF StageMarked, StallInv, Sole, Plugged, CpuOf
  <1> QED
    BY <1>0, <1>1, <1>2, <1>3, <1>4, <1>5, <1>6, StallKept DEF StallInv

LEMMA QueueDirectlyKeepsStall ==
  ASSUME IndInv, PlaceInv, StallInv, UNCHANGED setup, UNCHANGED plug, NEW c \in Contexts, QueueDirectly(c)
  PROVE  StallInv'
  <1>0. /\ c \in Contexts /\ Typed /\ loc[c] \in Locals /\ ShapedAs(c) /\ (TriesDriver => ~Quiesced)
        /\ HandsEmpty
    BY ContextTypes DEF IndInv, PlaceInv, Typed, ContextsTyped, StallInv, Shaped, FlushShape
  <1>a. ~Plugged
    BY <1>0, PluggedModes DEF QueueDirectly, At, ShapedAs, InsertShape, TryShape
  <1>1. Sole(c)
    BY <1>0 DEF QueueDirectly, Sole, Accepted, Failed, Refused, BypassInsert, At, Goto, Finish, NoLoc, Typed, ListsTyped, BoundsTyped, ContextsTyped, Locals
  <1>2. ShapedAs(c)' /\ (TriesDriver => depth' = depth)
    <2>1. ~InsertsOnly /\ ~TriesDriver
      BY <1>a, PluggedModes
    <2>2. EndShape(c)'
      BY <1>0 DEF ShapedAs, EndShape
    <2>3. ~InsertsOnly' /\ ~TriesDriver'
      BY <2>1 DEF InsertsOnly, TriesDriver
    <2> QED
      BY <2>1, <2>2, <2>3 DEF ShapedAs
  <1>3. KeepsVisits(c)
    BY <1>a, PluggedModes DEF QueueDirectly, KeepsVisits
  <1>4. KeepsLooking(c)
    BY <1>0 DEF QueueDirectly, Accepted, Failed, Refused, BypassInsert, KeepsLooking, LooksAgain, Quiesced, At, Goto, Finish, NoLoc, Typed, ListsTyped, BoundsTyped, ContextsTyped, Locals
  <1>5. KeepsOwing(c)
    BY <1>a DEF KeepsOwing
  <1>6. StageMarked'
    BY <1>a DEF StageMarked, Plugged
  <1> QED
    BY <1>0, <1>1, <1>2, <1>3, <1>4, <1>5, <1>6, StallKept DEF StallInv

LEMMA IssueDirectlyKeepsStall ==
  ASSUME IndInv, PlaceInv, StallInv, UNCHANGED setup, UNCHANGED plug, NEW t \in Threads, NEW r \in Requests, IssueDirectly(t, r)
  PROVE  StallInv'
  <1>0. /\ t \in Contexts /\ Typed /\ loc[t] \in Locals /\ ShapedAs(t) /\ (TriesDriver => ~Quiesced)
        /\ HandsEmpty
    BY ContextTypes DEF IndInv, PlaceInv, Typed, ContextsTyped, StallInv, Shaped, FlushShape
  <1>a. ~InsertsOnly /\ ~TriesDriver /\ ~Plugged
    BY PluggedModes DEF IssueDirectly, InsertsOnly, TriesDriver
  <1>1. Sole(t)
    BY <1>0 DEF IssueDirectly, Sole, At, Goto, Finish, NoLoc, Typed, ListsTyped, BoundsTyped, ContextsTyped, Locals
  <1>2. ShapedAs(t)' /\ (TriesDriver => depth' = depth)
    <2>1. EndShape(t)'
      BY <1>0 DEF ShapedAs, EndShape
    <2>2. ~InsertsOnly' /\ ~TriesDriver'
      BY <1>a DEF InsertsOnly, TriesDriver
    <2> QED
      BY <1>a, <2>1, <2>2 DEF ShapedAs
  <1>3. KeepsVisits(t)
    BY <1>a, PluggedModes DEF IssueDirectly, KeepsVisits
  <1>4. KeepsLooking(t)
    BY <1>0 DEF IssueDirectly, KeepsLooking, LooksAgain, Quiesced, At, Goto, Finish, NoLoc, Typed, ListsTyped, BoundsTyped, ContextsTyped, Locals
  <1>5. KeepsOwing(t)
    BY <1>a DEF KeepsOwing
  <1>6. StageMarked'
    BY <1>a DEF StageMarked, Plugged
  <1> QED
    BY <1>0, <1>1, <1>2, <1>3, <1>4, <1>5, <1>6, StallKept DEF StallInv

LEMMA MinIsLeast ==
  ASSUME NEW S \in SUBSET Nat, NEW x \in S
  PROVE  Min(S) \in S /\ Min(S) =< x
  <1>1. PICK y \in S : \A z \in S : <<z, y>> \notin OpToRel(<, Nat)
    BY WFMin, NatLessThanWellFounded, Zenon
  <1>2. \A z \in S : ~(z < y)
    BY <1>1 DEF OpToRel
  <1>3. \A z \in S : y =< z
    BY <1>2
  <1> QED
    BY <1>3 DEF Min

LEMMA StageKeepsStall ==
  ASSUME IndInv, PlaceInv, StallInv, UNCHANGED setup, UNCHANGED plug, NEW c \in Contexts, Stage(c)
  PROVE  StallInv'
  <1>0. /\ c \in Contexts /\ Typed /\ loc[c] \in Locals /\ ShapedAs(c) /\ (TriesDriver => ~Quiesced)
        /\ HandsEmpty
    BY ContextTypes DEF IndInv, PlaceInv, Typed, ContextsTyped, StallInv, Shaped, FlushShape
  <1>1. Sole(c)
    BY <1>0 DEF Stage, Sole, CpuOf, At, Goto, Finish, NoLoc, Typed, ListsTyped, BoundsTyped, ContextsTyped, Locals
  <1>2. ShapedAs(c)' /\ (TriesDriver => depth' = depth)
    BY <1>0, ContextTypes DEF Stage, CpuOf, ShapedAs, InsertShape, TryShape, EndShape, InsertsOnly, TriesDriver, Quiesced, At, Goto, Finish, NoLoc, Typed, ListsTyped, BoundsTyped, ContextsTyped, Locals
  <1>3. StagedKnown'
    <2> SUFFICES ASSUME Plugged, NEW i \in Cpus, staged'[i] # {}
                 PROVE  i \in mask' /\ TriesDriver' /\ ~InsertsOnly' /\ \E t \in setup'.threads : Visits(t, i)'
      BY <1>1, PluggedModes DEF StagedKnown, Sole, Plugged, InsertsOnly, TriesDriver
    <2>1. ~InsertsOnly /\ TriesDriver /\ c \in setup.threads
      BY <1>0, PluggedModes DEF Stage, At, ShapedAs, InsertShape, TryShape
    <2>2. i \in mask'
      BY <1>0 DEF Stage, At, StageMarked, StallInv, StagedKnown, Typed, ListsTyped
    <2>3. Visits(c, i)'
      <3>1. CASE loc[c].run = "none"
        BY <1>0, <2>1, <3>1 DEF Stage, At, Goto, Finish, ShapedAs, TryShape, Visits, WillInsert, Typed, ContextsTyped
      <3>2. CASE loc[c].run # "none"
        <4>1. loc[c].run = "sync"
          BY <1>0, <2>1, <3>2 DEF Stage, At, ShapedAs, TryShape
        <4>2. pc'[c] = "run" /\ loc'[c].run = "sync"
          BY <1>0, <3>2, <4>1 DEF Stage, Goto, Typed, ContextsTyped, Locals
        <4> QED
          BY <4>2 DEF Visits, OnTheWay
      <3> QED
        BY <3>1, <3>2
    <2> QED
      BY <1>1, <2>1, <2>2, <2>3 DEF Sole, InsertsOnly, TriesDriver
  <1>4. KeepsLooking(c)
    BY <1>0 DEF Stage, CpuOf, KeepsLooking, LooksAgain, Quiesced, At, Goto, Finish, NoLoc, Typed, ListsTyped, BoundsTyped, ContextsTyped, Locals
  <1>5. KeepsOwing(c)
    BY <1>0, PluggedModes DEF Stage, CpuOf, KeepsOwing, Owes, Left, CommitRqs, HandsEmpty, At, Goto, Finish, NoLoc, Typed, ListsTyped, BoundsTyped, ContextsTyped, Locals
  <1>6. StageMarked'
    <2>1. pc'[c] # "stage" /\ mask \subseteq mask'
      BY <1>0 DEF Stage, CpuOf, At, Goto, Finish, NoLoc, Typed, ListsTyped, BoundsTyped, ContextsTyped, Locals
    <2> QED
      BY <1>0, <1>1, <1>2, <2>1, StallKept
  <1> QED
    BY <1>0, <1>1, <1>2, <1>3, <1>4, <1>5, <1>6, StallKept DEF StallInv

LEMMA CollectKeepsStall ==
  ASSUME IndInv, PlaceInv, StallInv, UNCHANGED setup, UNCHANGED plug, NEW c \in Contexts, Collect(c)
  PROVE  StallInv'
  <1>0. /\ c \in Contexts /\ Typed /\ loc[c] \in Locals /\ ShapedAs(c) /\ (TriesDriver => ~Quiesced)
        /\ HandsEmpty
    BY ContextTypes DEF IndInv, PlaceInv, Typed, ContextsTyped, StallInv, Shaped, FlushShape
  <1>a. PICK i \in Cpus : /\ loc' = [loc EXCEPT ![c].batch = @ \cup staged[i], ![c].cpu = i + 1]
                          /\ staged' = [staged EXCEPT ![i] = {}]
                          /\ mask' = IF staged[i] = {} THEN mask ELSE mask \ {i}
                          /\ \A j \in mask : j >= loc[c].cpu => i =< j
    <2>1. MarkedFrom(c) \in SUBSET Nat /\ MarkedFrom(c) \subseteq Cpus
      BY <1>0, ContextTypes DEF MarkedFrom, Typed, ListsTyped
    <2>2. Min(MarkedFrom(c)) \in Cpus /\ \A j \in MarkedFrom(c) : Min(MarkedFrom(c)) =< j
      BY <2>1, MinIsLeast DEF Collect
    <2> DEFINE m == Min(MarkedFrom(c))
    <2>3. \A j \in mask : j >= loc[c].cpu => m =< j
      BY <2>2 DEF MarkedFrom
    <2>4. /\ loc' = [loc EXCEPT ![c].batch = @ \cup staged[m], ![c].cpu = m + 1]
          /\ staged' = [staged EXCEPT ![m] = {}]
          /\ mask' = IF staged[m] = {} THEN mask ELSE mask \ {m}
      BY DEF Collect
    <2> HIDE DEF m
    <2>5. m \in Cpus
      BY <2>2 DEF m
    <2> QED
      BY <2>3, <2>4, <2>5
  <1>b. /\ loc'[c].cpu = i + 1 /\ pc[c] = "collect" /\ pc' = pc /\ work' = work /\ depth' = depth
        /\ dispatch' = dispatch /\ posted' = posted /\ loc'[c].sent = loc[c].sent
    BY <1>0, <1>a DEF Collect, At, Typed, ContextsTyped, Locals
  <1>1. Sole(c)
    BY <1>0 DEF Collect, Sole, At, Goto, Finish, NoLoc, Typed, ListsTyped, BoundsTyped, ContextsTyped, Locals
  <1>2. ShapedAs(c)' /\ (TriesDriver => depth' = depth)
    BY <1>0, <1>b DEF Collect, ShapedAs, InsertShape, TryShape, EndShape, InsertsOnly, TriesDriver
  <1>3. KeepsVisits(c)
    <2> SUFFICES ASSUME NEW j \in Cpus, staged'[j] # {}
                 PROVE  /\ staged[j] # {} /\ (Plugged => j \in mask')
                        /\ Plugged /\ j >= loc[c].cpu => j >= i + 1
      BY <1>b, PluggedModes DEF KeepsVisits, OnTheWay, Visits, WillInsert, Quiesced
    <2>1. j # i /\ staged[j] # {}
      BY <1>0, <1>a DEF Typed, ListsTyped
    <2>2. Plugged => j \in mask /\ j \in mask'
      BY <1>a, <2>1 DEF StallInv, StagedKnown
    <2>3. i \in Nat /\ j \in Nat
      BY ContextTypes
    <2> QED
      BY <1>a, <2>1, <2>2, <2>3
  <1>4. KeepsLooking(c)
    BY <1>b DEF KeepsLooking, LooksAgain, Quiesced
  <1>5. KeepsOwing(c)
    BY <1>b DEF Collect, KeepsOwing, Owes, Left
  <1>6. StageMarked'
    <2> SUFFICES ASSUME Plugged, NEW d \in Contexts, pc[d] = "stage"
                 PROVE  CpuOf[loc[d].rq] \in mask'
      BY <1>1, <1>a, <1>b DEF StageMarked, Sole, Plugged, CpuOf, Typed, ContextsTyped
    <2>1. TriesDriver /\ d \in setup.threads
      BY PluggedModes DEF StallInv, Shaped, ShapedAs, InsertShape, TryShape
    <2>2. ~Visits(d, i)
      BY DEF Visits, OnTheWay, WillInsert
    <2>3. staged[i] = {}
      BY <2>1, <2>2, OneThread DEF StallInv, StagedKnown
    <2> QED
      BY <1>a, <2>3 DEF StallInv, StageMarked
  <1> QED
    BY <1>0, <1>1, <1>2, <1>3, <1>4, <1>5, <1>6, StallKept DEF StallInv

LEMMA FlushPlugKeepsStall ==
  ASSUME IndInv, PlaceInv, StallInv, UNCHANGED setup, NEW t \in setup.threads, NEW R \in SUBSET Requests, FlushPlug(t, R)
  PROVE  StallInv'
  <1>0. /\ t \in Contexts /\ Typed /\ loc[t] \in Locals /\ ShapedAs(t) /\ (TriesDriver => ~Quiesced)
        /\ HandsEmpty /\ plug[t] \in Flushes /\ ShapeOf(t)
    BY ContextTypes DEF IndInv, PlaceInv, Typed, ContextsTyped, StallInv, Shaped, FlushShape
  <1>1. Sole(t)
    BY <1>0 DEF FlushPlug, Sole, vars, LoopDone, CommitRqs, AfterGroup, Without, Left, BypassInsert, Accepted, Failed, Refused, InPhase, Popped, NoFlush, Lock, Unlock, Flushes, At, Goto, Finish, NoLoc, Typed, ListsTyped, BoundsTyped, ContextsTyped, Locals
  <1>2. ShapedAs(t)' /\ (TriesDriver => depth' = depth)
    BY <1>0, ContextTypes DEF FlushPlug, vars, LoopDone, CommitRqs, AfterGroup, Without, Left, BypassInsert, Accepted, Failed, Refused, InPhase, Popped, NoFlush, Lock, Unlock, Flushes, ShapedAs, InsertShape, TryShape, EndShape, InsertsOnly, TriesDriver, Quiesced, At, Goto, Finish, NoLoc, Typed, ListsTyped, BoundsTyped, ContextsTyped, Locals
  <1>3. KeepsVisits(t)
    BY <1>0, ContextTypes, PluggedModes DEF FlushPlug, vars, LoopDone, CommitRqs, AfterGroup, Without, Left, BypassInsert, Accepted, Failed, Refused, InPhase, Popped, NoFlush, Lock, Unlock, Flushes, KeepsVisits, OnTheWay, Visits, WillInsert, StallInv, StagedKnown, Quiesced, At, Goto, Finish, NoLoc, Typed, ListsTyped, BoundsTyped, ContextsTyped, Locals
  <1>4. KeepsLooking(t)
    BY <1>0 DEF FlushPlug, vars, LoopDone, CommitRqs, AfterGroup, Without, Left, BypassInsert, Accepted, Failed, Refused, InPhase, Popped, NoFlush, Lock, Unlock, Flushes, KeepsLooking, LooksAgain, Quiesced, At, Goto, Finish, NoLoc, Typed, ListsTyped, BoundsTyped, ContextsTyped, Locals
  <1>5. KeepsOwing(t)
    BY <1>0, PluggedModes DEF FlushPlug, vars, LoopDone, CommitRqs, AfterGroup, Without, Left, BypassInsert, Accepted, Failed, Refused, InPhase, Popped, NoFlush, Lock, Unlock, Flushes, KeepsOwing, Owes, Left, CommitRqs, HandsEmpty, At, Goto, Finish, NoLoc, Typed, ListsTyped, BoundsTyped, ContextsTyped, Locals
  <1>6. StageMarked'
    <2>1. pc'[t] # "stage" /\ mask \subseteq mask'
      BY <1>0 DEF FlushPlug, vars, LoopDone, CommitRqs, AfterGroup, Without, Left, BypassInsert, Accepted, Failed, Refused, InPhase, Popped, NoFlush, Lock, Unlock, Flushes, At, Goto, Finish, NoLoc, Typed, ListsTyped, BoundsTyped, ContextsTyped, Locals
    <2> QED
      BY <1>0, <1>1, <1>2, <2>1, StallKept
  <1> QED
    BY <1>0, <1>1, <1>2, <1>3, <1>4, <1>5, <1>6, StallKept DEF StallInv

LEMMA QueueRqsKeepsStall ==
  ASSUME IndInv, PlaceInv, StallInv, UNCHANGED setup, NEW t \in setup.threads, NEW S \in SUBSET Requests, QueueRqs(t, S)
  PROVE  StallInv'
  <1>0. /\ t \in Contexts /\ Typed /\ loc[t] \in Locals /\ ShapedAs(t) /\ (TriesDriver => ~Quiesced)
        /\ HandsEmpty /\ plug[t] \in Flushes /\ ShapeOf(t)
    BY ContextTypes DEF IndInv, PlaceInv, Typed, ContextsTyped, StallInv, Shaped, FlushShape
  <1>1. Sole(t)
    BY <1>0 DEF QueueRqs, Sole, vars, LoopDone, CommitRqs, AfterGroup, Without, Left, BypassInsert, Accepted, Failed, Refused, InPhase, Popped, NoFlush, Lock, Unlock, Flushes, At, Goto, Finish, NoLoc, Typed, ListsTyped, BoundsTyped, ContextsTyped, Locals
  <1>2. ShapedAs(t)' /\ (TriesDriver => depth' = depth)
    BY <1>0, ContextTypes DEF QueueRqs, vars, LoopDone, CommitRqs, AfterGroup, Without, Left, BypassInsert, Accepted, Failed, Refused, InPhase, Popped, NoFlush, Lock, Unlock, Flushes, ShapedAs, InsertShape, TryShape, EndShape, InsertsOnly, TriesDriver, Quiesced, At, Goto, Finish, NoLoc, Typed, ListsTyped, BoundsTyped, ContextsTyped, Locals
  <1>3. KeepsVisits(t)
    BY <1>0, ContextTypes, PluggedModes DEF QueueRqs, vars, LoopDone, CommitRqs, AfterGroup, Without, Left, BypassInsert, Accepted, Failed, Refused, InPhase, Popped, NoFlush, Lock, Unlock, Flushes, KeepsVisits, OnTheWay, Visits, WillInsert, StallInv, StagedKnown, Quiesced, At, Goto, Finish, NoLoc, Typed, ListsTyped, BoundsTyped, ContextsTyped, Locals
  <1>4. KeepsLooking(t)
    BY <1>0 DEF QueueRqs, vars, LoopDone, CommitRqs, AfterGroup, Without, Left, BypassInsert, Accepted, Failed, Refused, InPhase, Popped, NoFlush, Lock, Unlock, Flushes, KeepsLooking, LooksAgain, Quiesced, At, Goto, Finish, NoLoc, Typed, ListsTyped, BoundsTyped, ContextsTyped, Locals
  <1>5. KeepsOwing(t)
    BY <1>0, PluggedModes DEF QueueRqs, vars, LoopDone, CommitRqs, AfterGroup, Without, Left, BypassInsert, Accepted, Failed, Refused, InPhase, Popped, NoFlush, Lock, Unlock, Flushes, KeepsOwing, Owes, Left, CommitRqs, HandsEmpty, At, Goto, Finish, NoLoc, Typed, ListsTyped, BoundsTyped, ContextsTyped, Locals
  <1>6. StageMarked'
    <2>1. pc'[t] # "stage" /\ mask \subseteq mask'
      BY <1>0 DEF QueueRqs, vars, LoopDone, CommitRqs, AfterGroup, Without, Left, BypassInsert, Accepted, Failed, Refused, InPhase, Popped, NoFlush, Lock, Unlock, Flushes, At, Goto, Finish, NoLoc, Typed, ListsTyped, BoundsTyped, ContextsTyped, Locals
    <2> QED
      BY <1>0, <1>1, <1>2, <2>1, StallKept
  <1> QED
    BY <1>0, <1>1, <1>2, <1>3, <1>4, <1>5, <1>6, StallKept DEF StallInv

LEMMA TakeGroupKeepsStall ==
  ASSUME IndInv, PlaceInv, StallInv, UNCHANGED setup, NEW t \in setup.threads, NEW i \in Cpus, TakeGroup(t, i)
  PROVE  StallInv'
  <1>0. /\ t \in Contexts /\ Typed /\ loc[t] \in Locals /\ ShapedAs(t) /\ (TriesDriver => ~Quiesced)
        /\ HandsEmpty /\ plug[t] \in Flushes /\ ShapeOf(t)
    BY ContextTypes DEF IndInv, PlaceInv, Typed, ContextsTyped, StallInv, Shaped, FlushShape
  <1>1. Sole(t)
    BY <1>0 DEF TakeGroup, Sole, vars, LoopDone, CommitRqs, AfterGroup, Without, Left, BypassInsert, Accepted, Failed, Refused, InPhase, Popped, NoFlush, Lock, Unlock, Flushes, At, Goto, Finish, NoLoc, Typed, ListsTyped, BoundsTyped, ContextsTyped, Locals
  <1>2. ShapedAs(t)' /\ (TriesDriver => depth' = depth)
    BY <1>0, ContextTypes DEF TakeGroup, vars, LoopDone, CommitRqs, AfterGroup, Without, Left, BypassInsert, Accepted, Failed, Refused, InPhase, Popped, NoFlush, Lock, Unlock, Flushes, ShapedAs, InsertShape, TryShape, EndShape, InsertsOnly, TriesDriver, Quiesced, At, Goto, Finish, NoLoc, Typed, ListsTyped, BoundsTyped, ContextsTyped, Locals
  <1>3. KeepsVisits(t)
    BY <1>0, ContextTypes, PluggedModes DEF TakeGroup, vars, LoopDone, CommitRqs, AfterGroup, Without, Left, BypassInsert, Accepted, Failed, Refused, InPhase, Popped, NoFlush, Lock, Unlock, Flushes, KeepsVisits, OnTheWay, Visits, WillInsert, StallInv, StagedKnown, Quiesced, At, Goto, Finish, NoLoc, Typed, ListsTyped, BoundsTyped, ContextsTyped, Locals
  <1>4. KeepsLooking(t)
    BY <1>0 DEF TakeGroup, vars, LoopDone, CommitRqs, AfterGroup, Without, Left, BypassInsert, Accepted, Failed, Refused, InPhase, Popped, NoFlush, Lock, Unlock, Flushes, KeepsLooking, LooksAgain, Quiesced, At, Goto, Finish, NoLoc, Typed, ListsTyped, BoundsTyped, ContextsTyped, Locals
  <1>5. KeepsOwing(t)
    BY <1>0, PluggedModes DEF TakeGroup, vars, LoopDone, CommitRqs, AfterGroup, Without, Left, BypassInsert, Accepted, Failed, Refused, InPhase, Popped, NoFlush, Lock, Unlock, Flushes, KeepsOwing, Owes, Left, CommitRqs, HandsEmpty, At, Goto, Finish, NoLoc, Typed, ListsTyped, BoundsTyped, ContextsTyped, Locals
  <1>6. StageMarked'
    <2>1. pc'[t] # "stage" /\ mask \subseteq mask'
      BY <1>0 DEF TakeGroup, vars, LoopDone, CommitRqs, AfterGroup, Without, Left, BypassInsert, Accepted, Failed, Refused, InPhase, Popped, NoFlush, Lock, Unlock, Flushes, At, Goto, Finish, NoLoc, Typed, ListsTyped, BoundsTyped, ContextsTyped, Locals
    <2> QED
      BY <1>0, <1>1, <1>2, <2>1, StallKept
  <1> QED
    BY <1>0, <1>1, <1>2, <1>3, <1>4, <1>5, <1>6, StallKept DEF StallInv

LEMMA EachEndKeepsStall ==
  ASSUME IndInv, PlaceInv, StallInv, UNCHANGED setup, NEW t \in setup.threads, EachEnd(t)
  PROVE  StallInv'
  <1>0. /\ t \in Contexts /\ Typed /\ loc[t] \in Locals /\ ShapedAs(t) /\ (TriesDriver => ~Quiesced)
        /\ HandsEmpty /\ plug[t] \in Flushes /\ ShapeOf(t)
    BY ContextTypes DEF IndInv, PlaceInv, Typed, ContextsTyped, StallInv, Shaped, FlushShape
  <1>1. Sole(t)
    BY <1>0 DEF EachEnd, Sole, LoopDone, Left, Popped, CommitRqs, AfterGroup, Without, BypassInsert, InPhase, NoFlush, Lock, Unlock, Flushes, At, Goto, Finish, NoLoc, Typed, ListsTyped, BoundsTyped, ContextsTyped, Locals
  <1>2. ShapedAs(t)' /\ (TriesDriver => depth' = depth)
    BY <1>0, ContextTypes DEF EachEnd, LoopDone, Left, Popped, CommitRqs, AfterGroup, Without, BypassInsert, InPhase, NoFlush, Lock, Unlock, Flushes, ShapedAs, InsertShape, TryShape, EndShape, InsertsOnly, TriesDriver, Quiesced, At, Goto, Finish, NoLoc, Typed, ListsTyped, BoundsTyped, ContextsTyped, Locals
  <1>3. KeepsVisits(t)
    BY <1>0, ContextTypes, PluggedModes DEF EachEnd, LoopDone, Left, Popped, CommitRqs, AfterGroup, Without, BypassInsert, InPhase, NoFlush, Lock, Unlock, Flushes, KeepsVisits, OnTheWay, Visits, WillInsert, StallInv, StagedKnown, Quiesced, At, Goto, Finish, NoLoc, Typed, ListsTyped, BoundsTyped, ContextsTyped, Locals
  <1>4. KeepsLooking(t)
    BY <1>0 DEF EachEnd, LoopDone, Left, Popped, CommitRqs, AfterGroup, Without, BypassInsert, InPhase, NoFlush, Lock, Unlock, Flushes, KeepsLooking, LooksAgain, Quiesced, At, Goto, Finish, NoLoc, Typed, ListsTyped, BoundsTyped, ContextsTyped, Locals
  <1>5. KeepsOwing(t)
    <2>1. pc[t] = "idle" /\ (plug[t].failed \/ (Left(t) = {} /\ plug[t].rq = None))
      BY <1>0 DEF EachEnd, InPhase, LoopDone, Popped, At, ShapedAs, EndShape, Typed
    <2>2. posted' = IF plug[t].failed THEN {} ELSE posted
      BY DEF EachEnd, CommitRqs
    <2> QED
      BY <2>1, <2>2 DEF KeepsOwing, Owes
  <1>6. StageMarked'
    <2>1. pc'[t] # "stage" /\ mask \subseteq mask'
      BY <1>0 DEF EachEnd, LoopDone, Left, Popped, CommitRqs, AfterGroup, Without, BypassInsert, InPhase, NoFlush, Lock, Unlock, Flushes, At, Goto, Finish, NoLoc, Typed, ListsTyped, BoundsTyped, ContextsTyped, Locals
    <2> QED
      BY <1>0, <1>1, <1>2, <2>1, StallKept
  <1> QED
    BY <1>0, <1>1, <1>2, <1>3, <1>4, <1>5, <1>6, StallKept DEF StallInv

LEMMA ListEndKeepsStall ==
  ASSUME IndInv, PlaceInv, StallInv, UNCHANGED setup, NEW t \in setup.threads, ListEnd(t)
  PROVE  StallInv'
  <1>0. /\ t \in Contexts /\ Typed /\ loc[t] \in Locals /\ ShapedAs(t) /\ (TriesDriver => ~Quiesced)
        /\ HandsEmpty /\ plug[t] \in Flushes /\ ShapeOf(t)
    BY ContextTypes DEF IndInv, PlaceInv, Typed, ContextsTyped, StallInv, Shaped, FlushShape
  <1>1. Sole(t)
    BY <1>0 DEF ListEnd, Sole, LoopDone, Left, Popped, CommitRqs, AfterGroup, Without, BypassInsert, InPhase, NoFlush, Lock, Unlock, Flushes, At, Goto, Finish, NoLoc, Typed, ListsTyped, BoundsTyped, ContextsTyped, Locals
  <1>2. ShapedAs(t)' /\ (TriesDriver => depth' = depth)
    BY <1>0, ContextTypes DEF ListEnd, LoopDone, Left, Popped, CommitRqs, AfterGroup, Without, BypassInsert, InPhase, NoFlush, Lock, Unlock, Flushes, ShapedAs, InsertShape, TryShape, EndShape, InsertsOnly, TriesDriver, Quiesced, At, Goto, Finish, NoLoc, Typed, ListsTyped, BoundsTyped, ContextsTyped, Locals
  <1>3. KeepsVisits(t)
    BY <1>0, ContextTypes, PluggedModes DEF ListEnd, LoopDone, Left, Popped, CommitRqs, AfterGroup, Without, BypassInsert, InPhase, NoFlush, Lock, Unlock, Flushes, KeepsVisits, OnTheWay, Visits, WillInsert, StallInv, StagedKnown, Quiesced, At, Goto, Finish, NoLoc, Typed, ListsTyped, BoundsTyped, ContextsTyped, Locals
  <1>4. KeepsLooking(t)
    BY <1>0 DEF ListEnd, LoopDone, Left, Popped, CommitRqs, AfterGroup, Without, BypassInsert, InPhase, NoFlush, Lock, Unlock, Flushes, KeepsLooking, LooksAgain, Quiesced, At, Goto, Finish, NoLoc, Typed, ListsTyped, BoundsTyped, ContextsTyped, Locals
  <1>5. KeepsOwing(t)
    <2>1. pc[t] = "idle" /\ (plug[t].failed \/ (Left(t) = {} /\ plug[t].rq = None))
      BY <1>0 DEF ListEnd, InPhase, LoopDone, Popped, At, ShapedAs, EndShape, Typed
    <2>2. posted' = IF plug[t].failed /\ plug[t].sent THEN {} ELSE posted
      BY DEF ListEnd, CommitRqs
    <2> QED
      BY <2>1, <2>2 DEF KeepsOwing, Owes
  <1>6. StageMarked'
    <2>1. pc'[t] # "stage" /\ mask \subseteq mask'
      BY <1>0 DEF ListEnd, LoopDone, Left, Popped, CommitRqs, AfterGroup, Without, BypassInsert, InPhase, NoFlush, Lock, Unlock, Flushes, At, Goto, Finish, NoLoc, Typed, ListsTyped, BoundsTyped, ContextsTyped, Locals
    <2> QED
      BY <1>0, <1>1, <1>2, <2>1, StallKept
  <1> QED
    BY <1>0, <1>1, <1>2, <1>3, <1>4, <1>5, <1>6, StallKept DEF StallInv

LEMMA NextRqKeepsStall ==
  ASSUME IndInv, PlaceInv, StallInv, UNCHANGED setup, NEW t \in setup.threads, NEW r \in Requests, NextRq(t, r)
  PROVE  StallInv'
  <1>0. /\ t \in Contexts /\ Typed /\ loc[t] \in Locals /\ ShapedAs(t) /\ (TriesDriver => ~Quiesced)
        /\ HandsEmpty /\ plug[t] \in Flushes /\ ShapeOf(t)
    BY ContextTypes DEF IndInv, PlaceInv, Typed, ContextsTyped, StallInv, Shaped, FlushShape
  <1>a. pc[t] = "idle" /\ plug[t].phase \in {"each", "list"} /\ ~InsertsOnly /\ t \in Threads
    BY <1>0 DEF NextRq, InPhase, At, ShapedAs, InsertShape, Typed
  <1>b. TriesDriver => /\ plug'[t].phase = plug[t].phase /\ plug'[t].rq = r /\ plug'[t].sent = plug[t].sent
                       /\ plug'[t].async = plug[t].async /\ plug'[t].failed = plug[t].failed /\ pc' = pc
    <2> SUFFICES ASSUME TriesDriver
                 PROVE  /\ plug'[t].phase = plug[t].phase /\ plug'[t].rq = r /\ plug'[t].sent = plug[t].sent
                        /\ plug'[t].async = plug[t].async /\ plug'[t].failed = plug[t].failed /\ pc' = pc
      OBVIOUS
    <2> DEFINE w == Without(t, r)
    <2>1. /\ w \in Flushes /\ w.phase = plug[t].phase /\ w.sent = plug[t].sent /\ w.async = plug[t].async
          /\ w.failed = plug[t].failed
      BY <1>0 DEF Without, Flushes
    <2>2. plug' = [plug EXCEPT ![t] = [w EXCEPT !.rq = r]] /\ pc' = pc
      BY <1>0 DEF NextRq
    <2> HIDE DEF w
    <2>3. plug'[t] = [w EXCEPT !.rq = r]
      BY <1>0, <1>a, <2>2 DEF Typed
    <2> QED
      BY <2>1, <2>2, <2>3 DEF Flushes
  <1>1. Sole(t)
    BY <1>0 DEF NextRq, Sole, LoopDone, Left, Popped, CommitRqs, AfterGroup, Without, BypassInsert, InPhase, NoFlush, Lock, Unlock, Flushes, At, Goto, Finish, NoLoc, Typed, ListsTyped, BoundsTyped, ContextsTyped, Locals
  <1>2. ShapedAs(t)' /\ (TriesDriver => depth' = depth)
    <2>1. EndShape(t)'
      <3>1. plug'[t].phase = plug[t].phase
        <4>1. Without(t, r) \in Flushes /\ Without(t, r).phase = plug[t].phase
          BY <1>0 DEF Without, Flushes
        <4> QED
          BY <1>0, <1>a, <4>1 DEF NextRq, Typed, Flushes
      <3> QED
        BY <1>a, <3>1 DEF EndShape
    <2>2. TriesDriver => TryShape(t)'
      BY <1>0, <1>a, <1>b DEF ShapedAs, TryShape
    <2> QED
      BY <1>a, <2>1, <2>2 DEF NextRq, ShapedAs, InsertsOnly, TriesDriver
  <1>3. KeepsVisits(t)
    BY <1>0, ContextTypes, PluggedModes DEF NextRq, LoopDone, Left, Popped, CommitRqs, AfterGroup, Without, BypassInsert, InPhase, NoFlush, Lock, Unlock, Flushes, KeepsVisits, OnTheWay, Visits, WillInsert, StallInv, StagedKnown, Quiesced, At, Goto, Finish, NoLoc, Typed, ListsTyped, BoundsTyped, ContextsTyped, Locals
  <1>4. KeepsLooking(t)
    BY <1>0 DEF NextRq, LoopDone, Left, Popped, CommitRqs, AfterGroup, Without, BypassInsert, InPhase, NoFlush, Lock, Unlock, Flushes, KeepsLooking, LooksAgain, Quiesced, At, Goto, Finish, NoLoc, Typed, ListsTyped, BoundsTyped, ContextsTyped, Locals
  <1>5. KeepsOwing(t)
    <2>1. r # None /\ Threads \subseteq Contexts
      BY ContextTypes
    <2>2. posted' = posted
      BY DEF NextRq
    <2> QED
      BY <1>a, <1>b, <2>1, <2>2, PluggedModes DEF KeepsOwing, Owes
  <1>6. StageMarked'
    <2>1. pc'[t] # "stage" /\ mask \subseteq mask'
      BY <1>0 DEF NextRq, LoopDone, Left, Popped, CommitRqs, AfterGroup, Without, BypassInsert, InPhase, NoFlush, Lock, Unlock, Flushes, At, Goto, Finish, NoLoc, Typed, ListsTyped, BoundsTyped, ContextsTyped, Locals
    <2> QED
      BY <1>0, <1>1, <1>2, <2>1, StallKept
  <1> QED
    BY <1>0, <1>1, <1>2, <1>3, <1>4, <1>5, <1>6, StallKept DEF StallInv

LEMMA IssuePluggedKeepsStall ==
  ASSUME IndInv, PlaceInv, StallInv, UNCHANGED setup, NEW t \in setup.threads, IssuePlugged(t)
  PROVE  StallInv'
  <1>0. /\ t \in Contexts /\ Typed /\ loc[t] \in Locals /\ ShapedAs(t) /\ (TriesDriver => ~Quiesced)
        /\ HandsEmpty /\ plug[t] \in Flushes /\ ShapeOf(t)
    BY ContextTypes DEF IndInv, PlaceInv, Typed, ContextsTyped, StallInv, Shaped, FlushShape
  <1>a. /\ pc[t] = "idle" /\ plug[t].phase \in {"each", "list"} /\ plug[t].rq # None
        /\ ~InsertsOnly /\ t \in Threads
    BY <1>0 DEF IssuePlugged, Popped, At, ShapeOf, ShapedAs, InsertShape, Typed
  <1> DEFINE one == [plug[t] EXCEPT !.rq = None]
             p == plug'[t]
             last == Left(t) = {}
  <1>b. /\ one \in Flushes /\ one.phase = plug[t].phase /\ one.list = plug[t].list /\ one.batch = plug[t].batch
        /\ one.sent = plug[t].sent /\ one.failed = plug[t].failed /\ one.async = plug[t].async
    BY <1>0 DEF Flushes
  <1>c. \/ /\ p = [one EXCEPT !.sent = TRUE] /\ pc' = pc
           /\ posted' = IF last THEN {} ELSE posted \cup {plug[t].rq}
        \/ /\ p = [one EXCEPT !.failed = TRUE] /\ pc' = pc /\ posted' = posted
        \/ /\ p = [one EXCEPT !.failed = TRUE, !.phase = IF @ = "each" THEN "each_end" ELSE "list_end"]
           /\ pc' = [pc EXCEPT ![t] = "mark"] /\ posted' = posted
           /\ loc'[t].run = IF plug[t].phase = "each" \/ last THEN "sync" ELSE "none"
    <2>1. last <=> (IF one.phase = "each" THEN one.list ELSE one.batch) = {}
      BY <1>b DEF Left
    <2>2. \/ /\ plug' = [plug EXCEPT ![t] = [one EXCEPT !.sent = TRUE]] /\ pc' = pc
             /\ posted' = IF last THEN {} ELSE posted \cup {plug[t].rq}
          \/ /\ plug' = [plug EXCEPT ![t] = [one EXCEPT !.failed = TRUE]] /\ pc' = pc /\ posted' = posted
          \/ /\ plug' = [plug EXCEPT ![t] =
                   [one EXCEPT !.failed = TRUE, !.phase = IF @ = "each" THEN "each_end" ELSE "list_end"]]
             /\ pc' = [pc EXCEPT ![t] = "mark"] /\ posted' = posted
             /\ loc' = [loc EXCEPT ![t].rq = plug[t].rq,
                          ![t].run = IF plug[t].phase = "each" \/ last THEN "sync" ELSE "none"]
      BY <1>b, <2>1 DEF IssuePlugged, Accepted, Failed, Refused, BypassInsert, Goto
    <2> HIDE DEF one, last
    <2> QED
      <3>1. plug \in [Threads -> Flushes] /\ loc \in [Contexts -> Locals] /\ t \in Threads /\ t \in Contexts
        BY <1>0, <1>a DEF Typed, ContextsTyped
      <3>2. CASE plug' = [plug EXCEPT ![t] = [one EXCEPT !.sent = TRUE]] /\ pc' = pc
             /\ posted' = IF last THEN {} ELSE posted \cup {plug[t].rq}
        BY <3>1, <3>2
      <3>3. CASE plug' = [plug EXCEPT ![t] = [one EXCEPT !.failed = TRUE]] /\ pc' = pc /\ posted' = posted
        BY <3>1, <3>3
      <3>4. CASE /\ plug' = [plug EXCEPT ![t] =
                   [one EXCEPT !.failed = TRUE, !.phase = IF @ = "each" THEN "each_end" ELSE "list_end"]]
                 /\ pc' = [pc EXCEPT ![t] = "mark"] /\ posted' = posted
                 /\ loc' = [loc EXCEPT ![t].rq = plug[t].rq,
                              ![t].run = IF plug[t].phase = "each" \/ last THEN "sync" ELSE "none"]
        <4>1. p = [one EXCEPT !.failed = TRUE, !.phase = IF @ = "each" THEN "each_end" ELSE "list_end"]
          BY <3>1, <3>4
        <4>2. loc'[t].run = IF plug[t].phase = "each" \/ last THEN "sync" ELSE "none"
          BY <3>1, <3>4 DEF Locals
        <4> QED
          BY <3>4, <4>1, <4>2
      <3> QED
        BY <2>2, <3>2, <3>3, <3>4
  <1>d. /\ p.list = plug[t].list /\ p.batch = plug[t].batch /\ p.async = plug[t].async
        /\ \/ /\ p.phase = plug[t].phase /\ p.sent = TRUE /\ p.failed = plug[t].failed /\ pc' = pc
              /\ posted' = IF last THEN {} ELSE posted \cup {plug[t].rq}
           \/ /\ p.phase = plug[t].phase /\ p.sent = plug[t].sent /\ p.failed = TRUE /\ pc' = pc
              /\ posted' = posted
           \/ /\ p.phase = (IF plug[t].phase = "each" THEN "each_end" ELSE "list_end")
              /\ p.sent = plug[t].sent /\ p.failed = TRUE
              /\ pc' = [pc EXCEPT ![t] = "mark"] /\ posted' = posted
              /\ loc'[t].run = IF plug[t].phase = "each" \/ last THEN "sync" ELSE "none"
    <2> HIDE DEF one, last, p
    <2> QED
      BY <1>b, <1>c DEF Flushes
  <1>e. /\ staged' = staged /\ mask' = mask /\ work' = work /\ depth' = depth /\ dispatch' = dispatch
        /\ pc[t] = "idle" /\ pc'[t] \in {"idle", "mark"}
    BY <1>0, <1>a, <1>d DEF IssuePlugged, Typed, ContextsTyped
  <1> HIDE DEF one
  <1>1. Sole(t)
    BY <1>0 DEF IssuePlugged, Sole, LoopDone, Left, Popped, Accepted, Failed, Refused, CommitRqs, AfterGroup, Without, BypassInsert, InPhase, NoFlush, Lock, Unlock, Flushes, At, Goto, Finish, NoLoc, Typed, ListsTyped, BoundsTyped, ContextsTyped, Locals
  <1>2. ShapedAs(t)' /\ (TriesDriver => depth' = depth)
    <2>1. EndShape(t)'
      BY <1>0, <1>a, <1>d DEF ShapedAs, EndShape
    <2>2. TriesDriver => TryShape(t)'
      BY <1>0, <1>a, <1>d DEF ShapedAs, TryShape, Left, Typed, ContextsTyped
    <2> QED
      BY <1>a, <1>e, <2>1, <2>2 DEF ShapedAs, InsertsOnly, TriesDriver
  <1>3. KeepsVisits(t)
    BY <1>a, <1>e, PluggedModes DEF KeepsVisits, OnTheWay, Visits, WillInsert, StallInv, StagedKnown, Quiesced
  <1>4. KeepsLooking(t)
    BY <1>e DEF KeepsLooking, LooksAgain, Quiesced
  <1>5. KeepsOwing(t)
    <2>1. Left(t)' = Left(t) \/ p.failed
      BY <1>a, <1>d DEF Left
    <2>2. t \in Contexts /\ t \in Threads
      BY <1>0, <1>a
    <2> QED
      BY <1>a, <1>d, <1>e, <2>1, <2>2 DEF KeepsOwing, Owes
  <1>6. StageMarked'
    <2>1. pc'[t] # "stage" /\ mask \subseteq mask'
      BY <1>e
    <2> QED
      BY <1>0, <1>1, <1>2, <2>1, StallKept
  <1> QED
    BY <1>0, <1>1, <1>2, <1>3, <1>4, <1>5, <1>6, StallKept DEF StallInv

LEMMA InsertRequestsKeepsStall ==
  ASSUME IndInv, PlaceInv, StallInv, UNCHANGED setup, NEW t \in setup.threads, InsertRequests(t)
  PROVE  StallInv'
  <1>0. /\ t \in Contexts /\ Typed /\ loc[t] \in Locals /\ ShapedAs(t) /\ (TriesDriver => ~Quiesced)
        /\ HandsEmpty /\ plug[t] \in Flushes /\ ShapeOf(t)
    BY ContextTypes DEF IndInv, PlaceInv, Typed, ContextsTyped, StallInv, Shaped, FlushShape
  <1>1. Sole(t)
    BY <1>0 DEF InsertRequests, Sole, CommitRqs, AfterGroup, Without, BypassInsert, InPhase, NoFlush, Lock, Unlock, Flushes, At, Goto, Finish, NoLoc, Typed, ListsTyped, BoundsTyped, ContextsTyped, Locals
  <1>2. ShapedAs(t)' /\ (TriesDriver => depth' = depth)
    BY <1>0, ContextTypes DEF InsertRequests, CommitRqs, AfterGroup, Without, BypassInsert, InPhase, NoFlush, Lock, Unlock, Flushes, ShapedAs, InsertShape, TryShape, EndShape, InsertsOnly, TriesDriver, Quiesced, At, Goto, Finish, NoLoc, Typed, ListsTyped, BoundsTyped, ContextsTyped, Locals
  <1>3. StagedKnown'
    <2> SUFFICES ASSUME Plugged, NEW i \in Cpus, staged'[i] # {}
                 PROVE  i \in mask' /\ OnTheWay(t, i)' /\ (TriesDriver => Visits(t, i)')
      BY <1>0, <1>1, PluggedModes DEF StagedKnown, Sole, Plugged, InsertsOnly, TriesDriver
    <2>1. pc'[t] = "run" /\ (TriesDriver => loc'[t].run = "sync")
      BY <1>0, ContextTypes DEF InsertRequests, Goto, ShapedAs, TryShape, Typed, ContextsTyped, Locals
    <2>2. i \in mask'
      BY <1>0 DEF InsertRequests, StallInv, StagedKnown, Typed, ListsTyped
    <2> QED
      BY <2>1, <2>2 DEF OnTheWay, Visits
  <1>4. KeepsLooking(t)
    BY <1>0 DEF InsertRequests, CommitRqs, AfterGroup, Without, BypassInsert, InPhase, NoFlush, Lock, Unlock, Flushes, KeepsLooking, LooksAgain, Quiesced, At, Goto, Finish, NoLoc, Typed, ListsTyped, BoundsTyped, ContextsTyped, Locals
  <1>5. KeepsOwing(t)
    BY <1>0, PluggedModes DEF InsertRequests, CommitRqs, AfterGroup, Without, BypassInsert, InPhase, NoFlush, Lock, Unlock, Flushes, KeepsOwing, Owes, Left, CommitRqs, HandsEmpty, At, Goto, Finish, NoLoc, Typed, ListsTyped, BoundsTyped, ContextsTyped, Locals
  <1>6. StageMarked'
    <2>1. pc'[t] # "stage" /\ mask \subseteq mask'
      BY <1>0 DEF InsertRequests, CommitRqs, AfterGroup, Without, BypassInsert, InPhase, NoFlush, Lock, Unlock, Flushes, At, Goto, Finish, NoLoc, Typed, ListsTyped, BoundsTyped, ContextsTyped, Locals
    <2> QED
      BY <1>0, <1>1, <1>2, <2>1, StallKept
  <1> QED
    BY <1>0, <1>1, <1>2, <1>3, <1>4, <1>5, <1>6, StallKept DEF StallInv

-----------------------------------------------------------------------------
LEMMA StallInit == PlugInit => StallInv
  <1> SUFFICES ASSUME PlugInit PROVE StallInv
    OBVIOUS
  <1>1. Shaped
    BY DEF PlugInit, Init, Shaped, ShapedAs, InsertShape, TryShape, EndShape, NoFlush, Quiesced
  <1>2. StagedKnown /\ StageMarked /\ PutBackKnown /\ PostedOwed
    BY DEF PlugInit, Init, StagedKnown, StageMarked, PutBackKnown, PostedOwed
  <1> QED
    BY <1>1, <1>2 DEF StallInv

LEMMA StallStep ==
  ASSUME IndInv, PlaceInv, StallInv, [PlugNext /\ UNCHANGED setup]_plugVars
  PROVE  StallInv'
  <1>0. Typed
    BY DEF IndInv
  <1>1. CASE UNCHANGED plugVars
    BY <1>1 DEF plugVars, vars, StallInv, Shaped, ShapedAs, InsertShape, TryShape, EndShape, StagedKnown,
       OnTheWay, Visits, WillInsert, StageMarked, PutBackKnown, LooksAgain, PostedOwed, Owes, Left,
       InsertsOnly, TriesDriver, Plugged, Quiesced, CpuOf
  <1>2. CASE (Others /\ UNCHANGED plug) /\ UNCHANGED setup
    <2>1. ASSUME NEW t \in setup.threads, NEW r \in Requests, IssueDirectly(t, r)
          PROVE  StallInv'
      <3>1. t \in Threads
        BY <1>0 DEF Typed
      <3> QED
        BY <1>2, <2>1, <3>1, IssueDirectlyKeepsStall
    <2>2. ASSUME NEW c \in Contexts, Step(c)
          PROVE  StallInv'
      BY <1>2, <2>2, QueueDirectlyKeepsStall, MarkCpuKeepsStall, StageKeepsStall, RunCheckDispatchKeepsStall,
         RunCheckMaskKeepsStall, EnterKeepsStall, GrabKeepsStall, CollectKeepsStall, CollectEndKeepsStall,
         IssueKeepsStall, CommitKeepsStall, PutBackKeepsStall, RerunKeepsStall, LookAgainKeepsStall
         DEF Step, Dispatch
    <2>3. CASE WorkStart
      BY <1>2, <2>3, WorkStartKeepsStall
    <2>4. ASSUME NEW r \in Requests, Complete(r)
          PROVE  StallInv'
      BY <1>2, <2>4, CompleteKeepsStall
    <2>5. CASE Restart
      BY <1>2, <2>5, RestartKeepsStall
    <2>6. ASSUME NEW q \in setup.quiescers, QuiesceBegin(q) \/ QuiesceStep(q)
          PROVE  StallInv'
      BY <1>2, <2>6, QuiesceBeginKeepsStall, QuiesceWaitKeepsStall, UnquiesceKeepsStall DEF QuiesceStep
    <2> QED
      BY <1>2, <2>1, <2>2, <2>3, <2>4, <2>5, <2>6 DEF Others, Submit, CompleteAny
  <1>3. ASSUME UNCHANGED setup, NEW t \in setup.threads, NEW R \in SUBSET Requests, FlushPlug(t, R)
        PROVE  StallInv'
    BY <1>3, FlushPlugKeepsStall
  <1>4. ASSUME UNCHANGED setup, NEW t \in setup.threads, FlushStep(t)
        PROVE  StallInv'
    BY <1>4, QueueRqsKeepsStall, NextRqKeepsStall, IssuePluggedKeepsStall, EachEndKeepsStall,
       ListEndKeepsStall, TakeGroupKeepsStall, InsertRequestsKeepsStall DEF FlushStep
  <1> QED
    BY <1>1, <1>2, <1>3, <1>4 DEF PlugNext

(* In the workloads it speaks of, whoever empties his hands leaves no      *)
(* request behind: staged requests are marked, and what is staged, put     *)
(* back or posted has somebody on the way to it (blk_mq_run_hw_queue(),    *)
(* blk_mq_dispatch_rq_list(), blk_mq_commit_rqs()).                        *)
THEOREM NothingForgotten == PlugSpec => []NoStall
  <1>1. PlugInit => IndInv /\ PlaceInv /\ StallInv
    BY InitHolds, PlaceInit, StallInit
  <1>2. IndInv /\ PlaceInv /\ StallInv /\ [PlugNext /\ UNCHANGED setup]_plugVars
          => (IndInv /\ PlaceInv /\ StallInv)'
    BY StepHolds, PlaceStep, StallStep
  <1>3. IndInv /\ StallInv => NoStall
    <2> SUFFICES ASSUME IndInv, StallInv PROVE NoStall
      OBVIOUS
    <2>0. setup.threads \subseteq Threads /\ Threads \subseteq Contexts
      BY ContextTypes DEF IndInv, Typed
    <2>1. StagedIsMarked
      BY DEF StallInv, StagedKnown, StagedIsMarked
    <2>2. SomebodyRuns
      <3> SUFFICES ASSUME Plugged, InHctx # {}, ~work, ~Quiesced
                   PROVE  Running
        BY DEF SomebodyRuns
      <3>1. CASE dispatch # {}
        BY <3>1 DEF StallInv, PutBackKnown, LooksAgain, Running
      <3>2. CASE dispatch = {}
        <4>1. PICK i \in Cpus : staged[i] # {}
          BY <3>2 DEF InHctx
        <4>2. \/ \E c \in Contexts : OnTheWay(c, i)
              \/ \E t \in Threads : Visits(t, i)
          BY <2>0, <4>1, PluggedModes DEF StallInv, StagedKnown
        <4> QED
          BY <2>0, <4>2 DEF OnTheWay, Visits, WillInsert, Running
      <3> QED
        BY <3>1, <3>2
    <2>3. DoorbellOwed
      BY DEF StallInv, PostedOwed, Owes, DoorbellOwed
    <2> QED
      BY <2>1, <2>2, <2>3 DEF NoStall
  <1> QED
    BY <1>1, <1>2, <1>3, PTL DEF PlugSpec
=============================================================================
