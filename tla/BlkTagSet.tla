----------------------------- MODULE BlkTagSet -----------------------------
(***************************************************************************)
(* The life of a tag set and of the request queues on it: the driver's     *)
(* allocation of the regulator and of the tag maps, queues with their      *)
(* hctxs, the mapping of CPUs, the flag of a tag set that several queues   *)
(* share and the count of its active users, elevators, and the change of   *)
(* the number of hardware queues, where allocations may fail and the old   *)
(* number is fallen back to.                                               *)
(*                                                                         *)
(* In the layout "blex" the regulator of BlexRegulator is brought up first *)
(* and hctxs share the tag map of their NCQ; in "plain" an index is an     *)
(* hctx, a tag map and a queue of the device, and queues may have an       *)
(* elevator.                                                               *)
(***************************************************************************)
EXTENDS BlexRegulator, SequencesExt

CONSTANTS
  Qs,       \* request queues
  MapIds,   \* tag maps, struct blk_mq_tags
  HctxIds,  \* hctxs of one queue
  CpuNode,  \* cpu_to_node()
  Setups    \* layout and device, numbers of hardware queues (the first one and those it is
            \* changed to), allocations that fail once all is set up, retries with half the
            \* depth, queues that get an elevator, whether memory is short for good, whether
            \* requests come, users are counted, scans overlap updates

ASSUME TagSetAssumption ==
  /\ MapIds \subseteq Nat /\ HctxIds \subseteq Nat /\ None \notin Nat
  /\ CpuNode \in [Cpus -> Nat]
  /\ Setups \subseteq [layout : {"plain", "blex"}, geo : Geometries, nrs : Seq(Nat \ {0}), fails : Nat,
                       halves : Nat, elev : SUBSET Qs, qs : SUBSET Qs, short : BOOLEAN, sends : BOOLEAN, counts : BOOLEAN,
                       overlap : BOOLEAN]

VARIABLES
  setup,
  set,      \* the tag set: stage, nr_hw_queues, tags[], mq_map[], shared flag, tag_list
  maps,     \* tag maps: the requests in rqs[] that are not its own, and active_queues
  qs,       \* request queues: stage, freezes, nr_hw_queues, hctx_table, unused list, the
            \* hctxs of each CPU, elevator, and the tag users between two steps
  hctx,     \* by queue: numa node, tags, nr_ctx, flags, sched_tags
  upd,      \* blk_mq_update_nr_hw_queues(): where it is
  bug,      \* a freed map or a missing hctx was used (history)
  resized,  \* how nr_hw_queues changed so far (history)
  budget    \* failures and halvings left, updates to come

regVars == <<geo, pc, next, groups, enqs, live>>
setVars == <<set, maps, qs, hctx, bug>>
allVars == <<regVars, setup, setVars, upd, resized, budget>>

Blex == setup.layout = "blex"
NrBound == MaxNqid                        \* indexes of hctx_table
Idxs == 0 .. NrBound - 1

-----------------------------------------------------------------------------
NewQueue == [st |-> "none", frozen |-> 0, nr |-> 0, table |-> [i \in 0 .. NrBound - 1 |-> None],
             unused |-> <<>>, ctx |-> [c \in Cpus |-> None], dflt |-> [c \in Cpus |-> <<>>],
             elev |-> FALSE, busy |-> {}, idling |-> {}]
NewHctx(node) == [node |-> IF node = None THEN CpuNode[0] ELSE node, tags |-> None, nctx |-> 0, shared |-> FALSE, active |-> FALSE, sched |-> None]
NewMap == [rqs |-> {}, users |-> 0]

InitWith(s) ==
  /\ setup = s /\ geo = s.geo
  /\ pc = "maps" /\ next = 0 /\ live = {}
  /\ groups = [p \in Prios |-> None] /\ enqs = [n \in Nqids |-> None]
  /\ set = [st |-> "none", nr |-> Head(s.nrs), tags |-> << >>, map |-> [c \in Cpus |-> 0],
            shared |-> FALSE, list |-> <<>>]
  /\ maps = [m \in MapIds |-> None]
  /\ qs = [q \in Qs |-> NewQueue] /\ hctx = [q \in Qs |-> [h \in HctxIds |-> None]]
  /\ upd = [st |-> "idle", done |-> {}, prev |-> 0, back |-> {}]
  /\ bug = FALSE /\ resized = "no"
  /\ budget = [fails |-> s.fails, halves |-> s.halves, nrs |-> Tail(s.nrs)]

SetInit == \E s \in Setups : InitWith(s)

(* Operators below change a record S of setVars. *)
Now == [set |-> set, maps |-> maps, qs |-> qs, hctx |-> hctx, bug |-> bug]
Become(S) == set' = S.set /\ maps' = S.maps /\ qs' = S.qs /\ hctx' = S.hctx /\ bug' = S.bug

Spend(n) == n <= budget.fails /\ budget' = [budget EXCEPT !.fails = IF setup.short THEN @ ELSE @ - n]
Upto(n) == [k \in 1 .. n |-> k - 1]

-----------------------------------------------------------------------------
(* Tag maps. *)

Index(i) == IF Blex THEN GetTagIdx(i, MaxNqid, NrCqs) ELSE i
NrMaps == IF Blex THEN NrCqs ELSE set.nr

(* A NULL is read where set->tags[] has no entry. *)
TagsAt(S, i) == IF i \in DOMAIN S.set.tags THEN S.set.tags[i] ELSE None

(* __blk_mq_alloc_map_and_rqs() that succeeds. *)
AllocMap(S, i) ==
  LET m == CHOOSE m \in MapIds : S.maps[m] = None
  IN [S EXCEPT !.maps[m] = NewMap, !.set.tags = (i :> m) @@ @]

(* blk_mq_clear_rq_mapping(): requests of m leave the map of the driver. *)
ClearRqMapping(S, m, i) ==
  LET drv == TagsAt(S, i)
  IN IF drv \in {None, m} THEN S ELSE [S EXCEPT !.maps[drv].rqs = @ \ {<<m>>}]

(* blk_mq_free_map_and_rqs() *)
FreeMap(S, m, i) == IF m = None THEN S ELSE [ClearRqMapping(S, m, i) EXCEPT !.maps[m] = None]

(* __blk_mq_free_map_and_rqs() *)
DropMap(S, i) ==
  IF i \in DOMAIN S.set.tags THEN [FreeMap(S, S.set.tags[i], i) EXCEPT !.set.tags[i] = None] ELSE S

-----------------------------------------------------------------------------
(* The driver allocates the tag set (nvme_pci_alloc_tag_set()).            *)

Unset == <<setup, maps, qs, hctx, bug, upd, resized>>

(* blex_info and nq_reg, and then the regulator. *)
AllocInfo ==
  /\ set.st = "none"
  /\ \/ set' = [set EXCEPT !.st = IF Blex THEN "reg" ELSE "tags"]
     \/ Blex /\ set' = [set EXCEPT !.st = "failed"]
  /\ UNCHANGED <<regVars, Unset, budget>>

BringUp ==
  /\ set.st = "reg"
  /\ IF pc \in {"ready", "failed"}
     THEN set' = [set EXCEPT !.st = IF pc = "ready" THEN "tags" ELSE "failed"] /\ UNCHANGED regVars
     ELSE (AllocNsqMaps \/ AllocEnqs \/ InitGroup \/ InitEnqOk \/ InitEnqFail) /\ UNCHANGED set
  /\ UNCHANGED <<Unset, budget>>

(* A tag set that fails takes the regulator with it. *)
FreeRegulator == IF Blex THEN Free ELSE UNCHANGED regVars

(* external: CPUs are spread over the hardware queues, neighbours together *)
QueueMap(nr) == [c \in Cpus |-> (c * nr) \div NrCpus]

(* blk_mq_alloc_tag_set(): the arrays ... *)
AllocTags ==
  /\ set.st = "tags"
  /\ \/ /\ set' = [set EXCEPT !.st = "maps", !.map = QueueMap(set.nr)]
        /\ UNCHANGED <<regVars, budget>>
     \/ Spend(1) /\ set' = [set EXCEPT !.st = "failed"] /\ FreeRegulator
  /\ UNCHANGED Unset

(* Mutant of Unwound: the first map is forgotten. *)
UnwoundShort(S) == FoldLeft(DropMap, S, SelectSeq(Upto(NrMaps), LAMBDA i : i > 0))

(* "while (--i >= 0)" *)
Unwound(S) == FoldLeft(DropMap, S, Upto(NrMaps))

(* ... and the maps one after the other, again with half the depth when    *)
(* memory is tight.                                                        *)
AllocMaps ==
  /\ set.st = "maps"
  /\ LET i == Cardinality(DOMAIN set.tags) IN
     \/ /\ Become(IF i < NrMaps THEN AllocMap(Now, i) ELSE [Now EXCEPT !.set.st = "ready"])
        /\ UNCHANGED <<regVars, budget>>
     \/ /\ i < NrMaps
        /\ LET S == [Unwound(Now) EXCEPT !.set.tags = << >>] IN
           \/ budget.halves > 0 /\ budget' = [budget EXCEPT !.halves = @ - 1] /\ Become(S) /\ UNCHANGED regVars
           \/ Spend(1) /\ Become([S EXCEPT !.set.st = "failed"]) /\ FreeRegulator
  /\ UNCHANGED <<setup, upd, resized>>

(* blk_mq_free_tag_set(), when all queues have left the set. *)
FreeTagSet ==
  /\ set.st = "ready" /\ upd.st = "idle"
  /\ \A q \in Qs : qs[q].st \in {"none", "left", "released"}
  /\ Become([FoldLeft(DropMap, Now, Upto(set.nr)) EXCEPT !.set.st = "freed"])
  /\ FreeRegulator
  /\ UNCHANGED <<setup, upd, resized, budget>>

-----------------------------------------------------------------------------
(* hctxs.                                                                  *)

HctxAt(S, q, i) == S.qs[q].table[i]
InTable(S, q) == {i \in Idxs : HctxAt(S, q, i) # None}
Each(S, q) == SelectSeq(Upto(NrBound), LAMBDA i : i \in InTable(S, q))
Mapped(x) == x.nctx > 0 /\ x.tags # None

(* blk_mq_tag_idle() on a queue that nobody uses. *)
TagIdle(S, q, i) ==
  LET h == HctxAt(S, q, i)
      x == S.hctx[q][h]
  IN IF ~(x.shared /\ x.active) THEN S
     ELSE IF S.maps[x.tags] = None THEN [S EXCEPT !.bug = TRUE]
     ELSE [S EXCEPT !.hctx[q][h].active = FALSE, !.maps[x.tags].users = @ - 1]

(* Mutant of ClearFlushRq: a flush request stays where a walk finds it. *)
ClearFlushRqNot(S, q, i) == S

(* blk_mq_clear_flush_rq_mapping(): the flush request of the hctx, not     *)
(* those of its virtual NQs.                                               *)
ClearFlushRq(S, q, i) ==
  IF TagsAt(S, i) = None THEN S
  ELSE [S EXCEPT !.maps[TagsAt(S, i)].rqs = @ \ {<<q, HctxAt(S, q, i)>>}]

(* blk_mq_exit_hctx() *)
ExitHctx(S, q, i) ==
  LET h == HctxAt(S, q, i)
      T == IF Mapped(S.hctx[q][h]) THEN TagIdle(S, q, i) ELSE S
  IN [ClearFlushRq(T, q, i) EXCEPT !.qs[q].table[i] = None, !.qs[q].unused = <<h>> \o @]

(* blk_mq_init_hctx(): the virtual NQs' flush requests are set up, too. *)
InitHctx(S, q, h, i) ==
  [S EXCEPT !.hctx[q][h].tags = TagsAt(S, Index(i)), !.qs[q].table[i] = h]

TakeUnused(S, q, h) == [S EXCEPT !.qs[q].unused = SelectSeq(@, LAMBDA o : o # h)]

(* blk_mq_alloc_and_init_hctx(): an unused hctx of the node, or a new one; *)
(* what fails is either an allocation or the insertion into the table.     *)
AllocAndInitHctx(S, q, i, node, fault) ==
  LET unused == S.qs[q].unused
      reuse  == SelectSeq(unused, LAMBDA h : S.hctx[q][h].node = node)
      fresh  == CHOOSE h \in HctxIds : S.hctx[q][h] = None
      h      == IF reuse = <<>> THEN fresh ELSE Head(reuse)
      T      == IF reuse = <<>> THEN [S EXCEPT !.hctx[q][h] = NewHctx(node)]
                ELSE TakeUnused(S, q, h)
  IN IF fault = "alloc" /\ reuse = <<>> THEN S
     ELSE IF fault = "init" THEN [T EXCEPT !.hctx[q][h] = None]
     ELSE InitHctx(T, q, h, i)

(* The node of the first CPU at an index, None for NUMA_NO_NODE. *)
NodeOf(S, i) ==
  LET cpus == {c \in Cpus : S.set.map[c] = i}
  IN IF cpus = {} THEN None ELSE CpuNode[CHOOSE c \in cpus : \A d \in cpus : c <= d]

(* What is taken away: indexes beyond the number of before, or the new one. *)
Surplus(S, q, ok) == {i \in InTable(S, q) : i >= IF ok THEN S.set.nr ELSE S.qs[q].nr}

(* blk_mq_realloc_hw_ctxs(): every hctx is made anew; the index that fails *)
(* takes its old hctx again, or ends the loop where there was none.        *)
ReallocHwCtxs(S, q, bad, fault) ==
  LET Renew(A, i) ==
        LET old == HctxAt(A.S, q, i)
            X   == IF old = None THEN A.S ELSE ExitHctx(A.S, q, i)
            N   == AllocAndInitHctx(X, q, i, NodeOf(S, i), IF i \in bad THEN fault ELSE "none")
        IN CASE ~A.ok                    -> A
             [] HctxAt(N, q, i) # None   -> [ok |-> TRUE, S |-> N]
             [] old = None               -> [ok |-> FALSE, S |-> N]
             [] OTHER -> [ok |-> TRUE, S |-> AllocAndInitHctx(N, q, i, A.S.hctx[q][old].node, "none")]
      A == FoldLeft(Renew, [ok |-> TRUE, S |-> S], Upto(S.set.nr))
      R == IF A.ok THEN [A.S EXCEPT !.qs[q].nr = S.set.nr] ELSE A.S
      gone == Surplus(R, q, A.ok)
  IN FoldLeft(LAMBDA T, i : ExitHctx(T, q, i), R, SelectSeq(Upto(NrBound), LAMBDA i : i \in gone))

(* Mutant of MapCpu: a CPU keeps an index whose tags could not be had. *)
MapCpuAnyway(S, q, c, bad) ==
  LET i == S.set.map[c]
      T == IF TagsAt(S, i) # None \/ i \in bad THEN S ELSE AllocMap(S, i)
      h == HctxAt(T, q, T.set.map[c])
  IN IF h = None THEN [T EXCEPT !.bug = TRUE]
     ELSE [T EXCEPT !.qs[q].ctx[c] = h, !.hctx[q][h].nctx = @ + 1]

(* blk_mq_map_swqueue(): a CPU whose queue cannot have tags goes to the    *)
(* first ...                                                               *)
MapCpu(S, q, c, bad) ==
  LET i == S.set.map[c]
      T == CASE TagsAt(S, i) # None -> S
             [] i \in bad -> [S EXCEPT !.set.map[c] = 0]
             [] OTHER -> AllocMap(S, i)
      h == HctxAt(T, q, T.set.map[c])
  IN IF h = None THEN [T EXCEPT !.bug = TRUE]
     ELSE [T EXCEPT !.qs[q].ctx[c] = h, !.hctx[q][h].nctx = @ + 1]

(* ... and an hctx that no CPU is left for gives up its tags. *)
TakeTags(S, q, i) ==
  LET h == HctxAt(S, q, i) IN
  IF S.hctx[q][h].nctx > 0 THEN [S EXCEPT !.hctx[q][h].tags = TagsAt(S, i)]
  ELSE [IF i > 0 THEN DropMap(S, i) ELSE S EXCEPT !.hctx[q][h].tags = None]

MapPlain(S, q, bad) ==
  LET Clear(T, i) == [T EXCEPT !.hctx[q][HctxAt(T, q, i)].nctx = 0]
      T == FoldLeft(Clear, S, Each(S, q))
      U == FoldLeft(LAMBDA R, c : MapCpu(R, q, c, bad), T, Upto(NrCpus))
  IN FoldLeft(LAMBDA R, i : TakeTags(R, q, i), U, Each(U, q))

(* blk_blex_map_swqueue(): every CPU reaches every hctx and has a default  *)
(* one of each priority.  Maps are there since the set was allocated.      *)
MapBlex(S, q) ==
  LET Take(T, i) == [T EXCEPT !.hctx[q][HctxAt(T, q, i)] =
                       [@ EXCEPT !.nctx = NrCpus, !.tags = TagsAt(T, Index(i))]]
      Default(c, p) == LET i == DefaultHctxIdx(groups[p], c)
                       IN IF i \in Idxs THEN HctxAt(S, q, i) ELSE None
  IN [FoldLeft(Take, S, Each(S, q)) EXCEPT
        !.qs[q].dflt = [c \in Cpus |-> [p \in Prios |-> Default(c, p)]],
        !.qs[q].ctx = [c \in Cpus |-> HctxAt(S, q, S.set.map[c])]]

MapSwqueue(S, q, bad) == IF Blex THEN MapBlex(S, q) ELSE MapPlain(S, q, bad)

(* Mutant of SetShared: active hctxs are not counted out. *)
SetSharedActive(S, q, f) ==
  FoldLeft(LAMBDA T, i : [T EXCEPT !.hctx[q][HctxAt(T, q, i)].shared = f], S, Each(S, q))

(* queue_set_hctx_shared() *)
SetShared(S, q, f) ==
  FoldLeft(LAMBDA T, i : [IF f THEN T ELSE TagIdle(T, q, i) EXCEPT !.hctx[q][HctxAt(T, q, i)].shared = f],
           S, Each(S, q))

(* Elevators: sched tags of every hctx, all or none. *)
ExitSched(S, q) ==
  LET Drop(T, i) == LET h == HctxAt(T, q, i)
                    IN [FreeMap(T, T.hctx[q][h].sched, i) EXCEPT !.hctx[q][h].sched = None]
  IN [FoldLeft(Drop, S, Each(S, q)) EXCEPT !.qs[q].elev = FALSE]

AllocSched(S, q, i) ==
  LET m == CHOOSE m \in MapIds : S.maps[m] = None
  IN [S EXCEPT !.maps[m] = NewMap, !.hctx[q][HctxAt(S, q, i)].sched = m]

(* blk_mq_init_sched(): the indexes before the first bad one get theirs. *)
InitSched(S, q, bad) ==
  LET Alloc(T, i) == IF \E j \in bad : j <= i THEN T ELSE AllocSched(T, q, i)
      T == FoldLeft(Alloc, S, Each(S, q))
  IN IF bad \cap InTable(S, q) = {} THEN [T EXCEPT !.qs[q].elev = TRUE] ELSE ExitSched(T, q)

-----------------------------------------------------------------------------
(* Actions on queues.  Scans create and remove them, the premise `overlap' *)
(* says whether while an update of the number of queues is under way.      *)

Rest == <<setup, regVars>>
Bads(n) == {{}} \cup (IF budget.fails > 0 THEN {{i} : i \in 0 .. n - 1} ELSE {})
Drained(q) == qs[q].busy = {} /\ qs[q].idling = {}
Serial == setup.overlap \/ upd.st = "idle"
Live(q) == qs[q].st = "live"

(* blk_mq_release(): unused hctxs go, one that is still in the table stays *)
(* behind with nobody knowing it.                                          *)
Released(S, q) ==
  [S EXCEPT !.hctx[q] = [h \in HctxIds |-> IF h \in ToSet(S.qs[q].unused) THEN None ELSE @[h]],
            !.qs[q].st = "released", !.qs[q].unused = <<>>, !.qs[q].table = [i \in Idxs |-> None]]

(* A queue on the set's list has been released: the list leads into memory *)
(* that was freed.                                                         *)
Dangling == \E q \in ToSet(set.list) : qs[q].st = "released"

(* blk_mq_init_allocated_queue() *)
CreateQueue(q) ==
  /\ set.st = "ready" /\ q \in setup.qs /\ qs[q].st = "none" /\ Serial
  /\ \E bad \in Bads(set.nr), fault \in {"alloc", "init"} :
       LET S == ReallocHwCtxs(Now, q, bad, fault) IN
       /\ Spend(Cardinality(bad))
       /\ Become(IF S.qs[q].nr = 0 THEN Released(S, q) ELSE [S EXCEPT !.qs[q].st = "add"])
  /\ UNCHANGED <<Rest, upd, resized>>

(* The second queue on the set turns the first one's hctxs to shared. *)
JoinShared(S, q) ==
  LET turn == S.set.list # <<>> /\ ~S.set.shared
      T == IF turn THEN FoldLeft(LAMBDA R, r : SetShared(R, r, TRUE), [S EXCEPT !.set.shared = TRUE], S.set.list)
           ELSE S
  IN IF T.set.shared THEN SetShared(T, q, TRUE) ELSE T

(* blk_mq_add_queue_tag_set(), which freezes the others *)
AddQueue(q) ==
  /\ qs[q].st = "add" /\ upd.st = "idle" /\ ~Dangling
  /\ \A r \in ToSet(set.list) : Drained(r)
  /\ Become([JoinShared(Now, q) EXCEPT !.set.list = Append(@, q), !.qs[q].st = "map"])
  /\ UNCHANGED <<Rest, upd, resized, budget>>

MapQueue(q) ==
  /\ qs[q].st = "map" /\ Serial
  /\ \E bad \in Bads(set.nr) :
       /\ Spend(Cardinality(bad))
       /\ Become([MapSwqueue(Now, q, bad) EXCEPT !.qs[q].st = IF Blex THEN "host" ELSE "live"])
  /\ UNCHANGED <<Rest, upd, resized>>

(* In blex the queue becomes an online host of the regulator, or is put    *)
(* without leaving the set and without an exit of its hctxs.               *)
InsertHost(q) ==
  /\ qs[q].st = "host"
  /\ \/ qs' = [qs EXCEPT ![q].st = "live"] /\ UNCHANGED <<set, maps, hctx, bug, budget>>
     \/ Spend(1) /\ Become(Released(Now, q))
  /\ UNCHANGED <<Rest, upd, resized>>

(* elevator_switch() by sysfs or registration, and without a failure back *)
SwitchOn(q) ==
  /\ Live(q) /\ q \in setup.elev /\ ~qs[q].elev /\ qs[q].frozen = 0 /\ Drained(q) /\ Serial
  /\ \E bad \in Bads(set.nr) : Spend(Cardinality(bad)) /\ Become(InitSched(Now, q, bad))
  /\ UNCHANGED <<Rest, upd, resized>>

SwitchOff(q) ==
  /\ Live(q) /\ qs[q].elev /\ qs[q].frozen = 0 /\ Drained(q) /\ Serial
  /\ Become(ExitSched(Now, q))
  /\ UNCHANGED <<Rest, upd, resized, budget>>

(* blk_mq_update_nr_requests() to more than the sched tags have: each hctx *)
(* gets a new map before its old one goes.                                 *)
GrowRequests(q) ==
  /\ Live(q) /\ qs[q].elev /\ qs[q].frozen = 0 /\ Drained(q)
  /\ \E bad \in Bads(set.nr) :
       LET Grow(T, i) ==
             IF \E j \in bad : j <= i THEN T
             ELSE FreeMap(AllocSched(T, q, i), T.hctx[q][HctxAt(T, q, i)].sched, i)
       IN Spend(Cardinality(bad)) /\ Become(FoldLeft(Grow, Now, Each(Now, q)))
  /\ UNCHANGED <<Rest, upd, resized>>

(* A request is sent under a driver tag: a flush request, that of the      *)
(* virtual NQ in blex, or one of the elevator's.                           *)
UseTag(q, h, c) ==
  /\ setup.sends /\ Live(q) /\ qs[q].frozen = 0
  /\ IF Blex THEN \E p \in Prios : h = qs[q].dflt[c][p] ELSE h = qs[q].ctx[c]
  /\ LET x == hctx[q][h]
         own == IF Blex THEN <<q, h, c>> ELSE <<q, h>>
     IN \E r \in {own} \cup (IF qs[q].elev THEN {<<x.sched>>} ELSE {}) :
          maps' = [maps EXCEPT ![x.tags].rqs = @ \cup {r}]
  /\ UNCHANGED <<Rest, set, qs, hctx, bug, upd, resized, budget>>

(* __blk_mq_tag_busy() marks the hctx, then counts it ... *)
TagBusy(q, h) ==
  /\ Live(q) /\ qs[q].frozen = 0 /\ h \in {qs[q].table[i] : i \in InTable(Now, q)}
  /\ setup.counts /\ Mapped(hctx[q][h]) /\ hctx[q][h].shared /\ ~hctx[q][h].active
  /\ h \notin qs[q].busy
  /\ hctx' = [hctx EXCEPT ![q][h].active = TRUE] /\ qs' = [qs EXCEPT ![q].busy = @ \cup {h}]
  /\ UNCHANGED <<Rest, set, maps, bug, upd, resized, budget>>

BusyCount(q, h) ==
  /\ h \in qs[q].busy
  /\ maps' = [maps EXCEPT ![hctx[q][h].tags].users = @ + 1] /\ qs' = [qs EXCEPT ![q].busy = @ \ {h}]
  /\ UNCHANGED <<Rest, set, hctx, bug, upd, resized, budget>>

(* ... and __blk_mq_tag_idle(), by the timeout work, the other way. *)
TagIdles(q, h) ==
  /\ Live(q) /\ qs[q].frozen = 0 /\ h \in {qs[q].table[i] : i \in InTable(Now, q)}
  /\ setup.counts /\ Mapped(hctx[q][h]) /\ hctx[q][h].shared /\ hctx[q][h].active
  /\ h \notin qs[q].idling
  /\ hctx' = [hctx EXCEPT ![q][h].active = FALSE] /\ qs' = [qs EXCEPT ![q].idling = @ \cup {h}]
  /\ UNCHANGED <<Rest, set, maps, bug, upd, resized, budget>>

IdleCount(q, h) ==
  /\ h \in qs[q].idling
  /\ maps' = [maps EXCEPT ![hctx[q][h].tags].users = @ - 1] /\ qs' = [qs EXCEPT ![q].idling = @ \ {h}]
  /\ UNCHANGED <<Rest, set, hctx, bug, upd, resized, budget>>

(* blk_mq_destroy_queue(): freeze, blk_mq_exit_hw_queues(), ... *)
Destroy(q) ==
  /\ Live(q) /\ ~qs[q].elev /\ Drained(q) /\ Serial
  /\ LET S == FoldLeft(LAMBDA T, i : ExitHctx(T, q, i), Now,
                       SelectSeq(Upto(set.nr), LAMBDA i : i \in InTable(Now, q)))
     IN Become([S EXCEPT !.qs[q].st = "dying", !.qs[q].frozen = @ + 1])
  /\ UNCHANGED <<Rest, upd, resized, budget>>

(* The queue that is left alone shares no more. *)
LeaveShared(S) ==
  IF Len(S.set.list) = 1 THEN SetShared([S EXCEPT !.set.shared = FALSE], Head(S.set.list), FALSE) ELSE S

(* ... blk_mq_del_queue_tag_set() ... *)
DelQueue(q) ==
  /\ qs[q].st = "dying" /\ upd.st = "idle" /\ ~Dangling
  /\ \A r \in ToSet(set.list) : Drained(r)
  /\ Become([LeaveShared([Now EXCEPT !.set.list = SelectSeq(@, LAMBDA r : r # q)]) EXCEPT !.qs[q].st = "left"])
  /\ UNCHANGED <<Rest, upd, resized, budget>>

(* ... and the release, when the last reference goes. *)
Release(q) ==
  /\ qs[q].st = "left"
  /\ Become(Released(Now, q))
  /\ UNCHANGED <<Rest, upd, resized, budget>>

(* For the hctx of an NSQ, blk_mq_exit_hctx() and blk_mq_free_tag_set()    *)
(* read set->tags[] beyond its end: NULL in the slack of the allocation,   *)
(* as above, or a stray pointer, with which all ends.                      *)
StrayTags ==
  /\ Blex /\ set.st = "ready" /\ set.nr > NrCqs
  /\ (\E q \in Qs : Live(q)) \/ \A q \in Qs : qs[q].st \in {"none", "left", "released"}
  /\ set' = [set EXCEPT !.st = "lost"]
  /\ UNCHANGED <<Rest, maps, qs, hctx, bug, upd, resized, budget>>

(* The next one that joins or leaves the set writes to the released queue. *)
StrayQueue ==
  /\ set.st = "ready" /\ Dangling /\ \E q \in Qs : qs[q].st \in {"add", "dying"}
  /\ set' = [set EXCEPT !.st = "lost"]
  /\ UNCHANGED <<Rest, maps, qs, hctx, bug, upd, resized, budget>>

-----------------------------------------------------------------------------
(* blk_mq_update_nr_hw_queues(), with tag_list_lock held throughout.       *)

UpdFreeze ==
  /\ upd.st = "idle" /\ set.st = "ready" /\ ~Blex /\ budget.nrs # <<>>
  /\ setup.overlap \/ \A q \in Qs : qs[q].st \in {"none", "live", "left", "released"}
  /\ \A q \in ToSet(set.list) : Drained(q)
  /\ budget' = [budget EXCEPT !.nrs = Tail(@)]
  /\ IF Head(budget.nrs) = set.nr THEN UNCHANGED <<upd, qs>>
     ELSE /\ upd' = [upd EXCEPT !.st = "none", !.prev = set.nr]
          /\ qs' = [q \in Qs |-> IF q \in ToSet(set.list) THEN [qs[q] EXCEPT !.frozen = @ + 1] ELSE qs[q]]
  /\ UNCHANGED <<Rest, set, maps, hctx, bug, resized>>

(* Elevators are switched off and remembered; that may fail half-way. *)
UpdNone ==
  /\ upd.st = "none"
  /\ \E k \in 0 .. Len(set.list) :
       LET off == SelectSeq(SubSeq(set.list, 1, k), LAMBDA q : qs[q].elev)
       IN /\ IF k = Len(set.list) THEN UNCHANGED budget ELSE qs[set.list[k + 1]].elev /\ Spend(1)
          /\ upd' = [upd EXCEPT !.st = IF k = Len(set.list) THEN "tags" ELSE "back", !.back = ToSet(off)]
          /\ Become(FoldLeft(ExitSched, Now, off))
  /\ UNCHANGED <<Rest, resized>>

Target == setup.nrs[Len(setup.nrs) - Len(budget.nrs)]

(* blk_mq_realloc_tag_set_tags() copies the tags of the queues there are. *)
UpdTags ==
  /\ upd.st = "tags"
  /\ \/ /\ Target > set.nr /\ Spend(1)
        /\ upd' = [upd EXCEPT !.st = "back"] /\ UNCHANGED <<set, resized>>
     \/ /\ set' = [set EXCEPT !.nr = Target, !.map = QueueMap(Target),
                              !.tags = IF Target > set.nr
                                       THEN [i \in 0 .. Target - 1 |-> IF i < set.nr THEN @[i] ELSE None]
                                       ELSE @]
        /\ upd' = [upd EXCEPT !.st = "queues", !.done = {}]
        /\ resized' = IF Target < set.nr \/ resized = "shrunk" THEN "shrunk" ELSE "grown"
        /\ UNCHANGED budget
  /\ UNCHANGED <<Rest, maps, qs, hctx, bug>>

(* The tags of the new indexes go and the old number is taken up again. *)
Fallback(S) ==
  [FoldLeft(DropMap, S, SelectSeq(Upto(S.set.nr), LAMBDA i : i >= upd.prev)) EXCEPT
     !.set.nr = upd.prev, !.set.map = QueueMap(upd.prev)]

(* One queue after the other; falling back, all of them once more. *)
UpdQueue ==
  /\ upd.st = "queues"
  /\ LET todo == SelectSeq(set.list, LAMBDA q : q \notin upd.done) IN
     IF todo = <<>> THEN upd' = [upd EXCEPT !.st = "back"] /\ UNCHANGED <<setVars, budget>>
     ELSE \E bad \in Bads(set.nr), fault \in {"alloc", "init", "map"} :
            LET q == Head(todo)
                S == ReallocHwCtxs(Now, q, IF fault = "map" THEN {} ELSE bad, fault)
            IN /\ Spend(Cardinality(bad))
               /\ IF S.qs[q].nr = set.nr
                  THEN /\ Become(MapSwqueue(S, q, IF fault = "map" THEN bad ELSE {}))
                       /\ upd' = [upd EXCEPT !.done = @ \cup {q}]
                  ELSE Become(Fallback(S)) /\ upd' = [upd EXCEPT !.done = {}]
  /\ UNCHANGED <<Rest, resized>>

(* The elevators come back where their tags can be had, and all is thawed. *)
UpdBack ==
  /\ upd.st = "back"
  /\ IF upd.back = {}
     THEN /\ upd' = [upd EXCEPT !.st = "idle"]
          /\ qs' = [q \in Qs |-> IF q \in ToSet(set.list) THEN [qs[q] EXCEPT !.frozen = @ - 1] ELSE qs[q]]
          /\ UNCHANGED <<set, maps, hctx, bug, budget>>
     ELSE \E bad \in Bads(set.nr) :
            LET q == CHOOSE q \in upd.back : TRUE
            IN /\ Spend(Cardinality(bad)) /\ Become(InitSched(Now, q, bad))
               /\ upd' = [upd EXCEPT !.back = @ \ {q}]
  /\ UNCHANGED <<Rest, resized>>

Update == UpdNone \/ UpdTags \/ UpdQueue \/ UpdBack

SetNext ==
  /\ set.st # "lost"
  /\ \/ AllocInfo \/ BringUp \/ AllocTags \/ AllocMaps \/ FreeTagSet \/ StrayTags \/ StrayQueue
     \/ UpdFreeze \/ Update
     \/ \E q \in Qs : \/ CreateQueue(q) \/ AddQueue(q) \/ MapQueue(q) \/ InsertHost(q)
                      \/ SwitchOn(q) \/ SwitchOff(q) \/ GrowRequests(q)
                      \/ Destroy(q) \/ DelQueue(q) \/ Release(q)
                      \/ \E h \in HctxIds : \/ TagBusy(q, h) \/ BusyCount(q, h) \/ TagIdles(q, h) \/ IdleCount(q, h)
                                            \/ \E c \in Cpus : UseTag(q, h, c)

Quiet == upd.st = "idle"

SetSpec == SetInit /\ [][SetNext]_allVars

-----------------------------------------------------------------------------
(* Properties.                                                             *)

Maps == {m \in MapIds : maps[m] # None}

(* Every variable has its type, and no hctx is used and unused. *)
SetTypeOK ==
  /\ TypeOK /\ setup \in Setups
  /\ set.st \in {"none", "reg", "tags", "maps", "ready", "failed", "freed", "lost"}
  /\ set.nr \in Idxs \cup {NrBound} /\ \A i \in DOMAIN set.tags : set.tags[i] \in MapIds \cup {None}
  /\ set.map \in [Cpus -> Idxs] /\ ToSet(set.list) \subseteq Qs
  /\ \A q \in Qs : /\ qs[q].st \in {"none", "add", "map", "host", "live", "dying", "left", "released"}
                   /\ qs[q].frozen \in 0 .. 2 /\ qs[q].table \in [Idxs -> HctxIds \cup {None}]
                   /\ IsInjective(qs[q].unused)
                   /\ ToSet(qs[q].unused) \cap {qs[q].table[i] : i \in InTable(Now, q)} = {}
                   /\ ToSet(qs[q].unused) \cup qs[q].busy \cup qs[q].idling \subseteq HctxIds
  /\ \A m \in Maps : maps[m].users \in Int
  /\ upd.st \in {"idle", "none", "tags", "queues", "back"}

(* Whatever fails on the way to another number of queues, afterwards all   *)
(* queues of the set have the set's number of hctxs, at the indexes        *)
(* without gaps, and none stays on beyond.                                 *)
TablesMatch ==
  Quiet => \A q \in Qs : Live(q) =>
    /\ qs[q].nr = set.nr
    /\ InTable(Now, q) = 0 .. set.nr - 1

(* Whoever may use a queue finds, from every CPU, an hctx of its table     *)
(* with tags that exist and are those of the set; in blex this also holds  *)
(* of the default hctx of a priority, whatever group it is of, unless it   *)
(* is NULL (DefaultHctxServesPrio).                                        *)
HctxServes(q, h, i) ==
  /\ h # None /\ h = qs[q].table[i]
  /\ hctx[q][h].tags # None /\ hctx[q][h].tags = TagsAt(Now, Index(i)) /\ maps[hctx[q][h].tags] # None

MapsServe ==
  \A q \in Qs : Live(q) /\ qs[q].frozen = 0 =>
    \A c \in Cpus :
      /\ \E i \in Idxs : HctxServes(q, qs[q].ctx[c], i) /\ (~Blex => qs[q].nr > i)
      /\ Blex => \A p \in Prios : LET h == qs[q].dflt[c][p] IN
                   h # None => \E i \in Idxs : HctxServes(q, h, i)

(* Whatever fails, and whatever the number of queues is changed to, every  *)
(* variable has its type, all queues have the set's number of hctxs, and   *)
(* the hctx that a CPU is mapped to has tags that exist (blk-mq.c:4270,    *)
(* 4655, 5226); that its default hctxs are of the right group is not said. *)
TablesServe == SetTypeOK /\ TablesMatch /\ MapsServe

(* Nothing that a walk over a map's tags can find has been freed: neither  *)
(* a flush request of an hctx that is gone, nor requests of sched tags.    *)
(* Those of virtual NQs stay in the map, but nothing ever frees them.      *)
NoStaleRequest ==
  \A m \in Maps : \A r \in maps[m].rqs :
    CASE Len(r) = 1 -> maps[r[1]] # None
      [] Len(r) = 2 -> hctx[r[1]][r[2]] # None
      [] Len(r) = 3 -> TRUE

(* No freed map is counted down, no missing hctx is used, and no walk can  *)
(* find a request that was freed (blk-mq.c:3859).                          *)
NothingFreedIsUsed == ~bug /\ NoStaleRequest

(* The number of active users by which a shared map divides its tags is    *)
(* that of the hctxs marked active on it, whoever joins or leaves.         *)
CountMatches ==
  \A m \in Maps :
    LET on == {x \in Qs \X HctxIds : hctx[x[1]][x[2]] # None /\ hctx[x[1]][x[2]].tags = m}
        n(P(_)) == Cardinality({x \in on : P(x)})
    IN maps[m].users = n(LAMBDA x : hctx[x[1]][x[2]].active) - n(LAMBDA x : x[2] \in qs[x[1]].busy)
                         + n(LAMBDA x : x[2] \in qs[x[1]].idling)

(* A set is shared when it has several queues, and all hctxs know it, as   *)
(* long as none was added by an update (README).                           *)
SharedAgrees ==
  /\ set.shared <=> Len(set.list) > 1
  /\ resized = "no" => \A q \in ToSet(set.list) : \A i \in InTable(Now, q) :
                         hctx[q][qs[q].table[i]].shared = set.shared

(* Queues that share a tag set share its tags fairly: they know that they  *)
(* do, and how many of them are busy (blk-mq-tag.c:43, blk-mq.c:4396).     *)
UsersCounted == SharedAgrees /\ CountMatches

(* A failed or freed tag set leaves nothing of the regulator, and no map   *)
(* unless the set has shrunk (README).  A queue that could not be made, or *)
(* was released, leaves no hctx, unless it is the one that could not be    *)
(* inserted into the online hosts and stays on the set (blk-mq.c:4524).    *)
NothingLeft ==
  /\ AllOrNothing
  /\ set.st \in {"failed", "freed"} /\ resized # "shrunk" => Maps = {}
  /\ \A q \in Qs \ ToSet(set.list) :
       qs[q].st \in {"none", "released"} => \A h \in HctxIds : hctx[q][h] = None

(* Each CPU's default hctx of a priority exists and serves that priority.  *)
DefaultHctxServesPrio ==
  \A q \in Qs : Blex /\ Live(q) => \A c \in Cpus, p \in Prios :
    LET h == qs[q].dflt[c][p] IN
    h # None /\ \E i \in Idxs : h = qs[q].table[i] /\ enqs[HctxToNqid(i)].prio = p
=============================================================================
