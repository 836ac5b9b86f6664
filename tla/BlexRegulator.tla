--------------------------- MODULE BlexRegulator ---------------------------
(***************************************************************************)
(* Bring-up and release of the NQ regulator: the allocation of the per-CPU *)
(* NSQ maps, of the exposed NQs (eNQs), of the NQ groups with their        *)
(* priority arrays.  Every allocation may fail, and a failure unwinds what *)
(* was built before it.  `live' holds what is allocated.                   *)
(***************************************************************************)
EXTENDS BlexQueueMap, Sequences, TLC

CONSTANTS
  Geometries,   \* <<max_nqid, nr_cqs>> pairs a device may end up with
  NrCpus,       \* nr_cpu_ids
  None          \* the NULL pointer

ASSUME GeometryAssumption ==
  /\ Geometries \subseteq (Nat \ {0}) \X (Nat \ {0})
  /\ \A g \in Geometries : g[2] <= g[1]
  /\ NrCpus \in Nat \ {0}
  /\ \A g \in Geometries : \A n \in 1 .. g[1] : InitNsqHeap(n, g[1], g[2]) # None

VARIABLES
  geo,     \* <<max_nqid, nr_cqs>> of this device
  pc,      \* stage of the bring-up
  next,    \* priority or NQ ID the current stage is at
  groups,  \* nq_reg->nq_groups, None where not initialised
  enqs,    \* nq_reg->enqs, by NQ ID, None where not initialised
  live     \* the allocations that exist

vars == <<geo, pc, next, groups, enqs, live>>

MaxNqid == geo[1]
NrCqs   == geo[2]
Nqids   == 1 .. MaxNqid
Hctxs   == 0 .. MaxNqid - 1
Cpus    == 0 .. NrCpus - 1

-----------------------------------------------------------------------------
(* What each stage allocates. *)

NsqMaps         == <<"nsq_maps", 0>>
Enqs            == <<"enqs", 0>>
HeapOf(prio)    == <<"group_heap", prio>>
MaskOf(nqid)    == <<"cpumask", nqid>>
EncqOf(nqid)    == <<"encq", nqid>>
NsqHeapOf(nqid) == <<"nsq_heap", nqid>>

(* In order, the allocations of enq_init() for one NQ. *)
EnqAllocs(nqid) ==
  <<MaskOf(nqid)>> \o
  (IF HasCq(nqid, MaxNqid, NrCqs) THEN <<EncqOf(nqid)>> ELSE <<>>) \o
  (IF HasCq(nqid, MaxNqid, NrCqs) /\ GetCqNrNsqs(nqid, MaxNqid, NrCqs) > 1
     THEN <<NsqHeapOf(nqid)>> ELSE <<>>)

EnqLive(nqid) ==
  LET allocs == EnqAllocs(nqid) IN {allocs[i] : i \in DOMAIN allocs}

AllLive ==
  {NsqMaps, Enqs} \cup {HeapOf(p) : p \in Prios}
                       \cup UNION {EnqLive(n) : n \in Nqids}

-----------------------------------------------------------------------------
Init ==
  /\ geo \in Geometries
  /\ pc = "maps" /\ next = 0
  /\ groups = [p \in Prios |-> None]
  /\ enqs = [n \in Nqids |-> None]
  /\ live = {}

AllocNsqMaps ==
  /\ pc = "maps"
  /\ \/ pc' = "enqs" /\ live' = live \cup {NsqMaps}
     \/ pc' = "failed" /\ UNCHANGED live
  /\ UNCHANGED <<geo, next, groups, enqs>>

AllocEnqs ==
  /\ pc = "enqs"
  /\ \/ pc' = "groups" /\ live' = live \cup {Enqs}
     \/ pc' = "failed" /\ live' = live \ {NsqMaps}
  /\ UNCHANGED <<geo, next, groups, enqs>>

(* The label group_init_err: the heaps of the groups, the eNQs, the maps. *)
GroupInitErr == {HeapOf(p) : p \in Prios} \cup {Enqs, NsqMaps}

(* blk_blex_nq_group_init(); top is the NQ ID top_nq points at, so 0 when  *)
(* the zeroed heap of an empty group is read: &enqs[0 - 1].                *)
InitGroup ==
  LET g == GroupOf(next, MaxNqid, NrCqs)
      h == InitNcqHeap(g, MaxNqid, NrCqs)
      top == IF g.nr_ncqs = 0 THEN 0 ELSE h[0]
  IN  /\ pc = "groups"
      /\ \/ /\ live' = live \cup {HeapOf(next)}
            /\ groups' = [groups EXCEPT ![next] =
                 [ncq_start |-> g.ncq_start, nr_ncqs |-> g.nr_ncqs, ncqs |-> g.ncqs,
                  nr_attach_nsqs |-> g.nr_attach_nsqs, heap |-> h, top |-> top]]
            /\ next' = IF next + 1 = PrioLevel THEN 1 ELSE next + 1
            /\ pc' = IF next + 1 = PrioLevel THEN "nqs" ELSE "groups"
         \/ /\ live' = live \ GroupInitErr
            /\ pc' = "failed"
            /\ UNCHANGED <<groups, next>>
      /\ UNCHANGED <<geo, enqs>>

(* The group of an NCQ is the one whose group_init() set enqs[].group; an  *)
(* NQ without a CQ takes it from its NCQ.                                  *)
EnqValue(nqid) ==
  LET cqid == GetCqid(nqid, MaxNqid, NrCqs)
      prio == CHOOSE p \in Prios : cqid \in groups[p].ncqs
  IN  [cqid |-> cqid, prio |-> prio,
       encq |-> IF nqid = cqid THEN InitNsqHeap(cqid, MaxNqid, NrCqs) ELSE None]

(* enq_init() of the next NQ.  When its k-th allocation fails it frees the *)
(* ones before it, and the caller unwinds the earlier NQs and the groups.  *)
UndoneEnqAllocs(nqid, k) == {EnqAllocs(nqid)[i] : i \in 1 .. k - 1}
EarlierEnqs(nqid) == UNION {EnqLive(n) : n \in 1 .. nqid - 1}

InitEnqOk ==
  /\ pc = "nqs"
  /\ enqs' = [enqs EXCEPT ![next] = EnqValue(next)]
  /\ live' = live \cup EnqLive(next)
  /\ next' = next + 1
  /\ pc' = IF next = MaxNqid THEN "ready" ELSE "nqs"
  /\ UNCHANGED <<geo, groups>>

InitEnqFail ==
  /\ pc = "nqs"
  /\ \E k \in DOMAIN EnqAllocs(next) :
       LET made == {EnqAllocs(next)[i] : i \in 1 .. k - 1}
       IN  live' = ((live \cup made) \ UndoneEnqAllocs(next, k))
                     \ (EarlierEnqs(next) \cup GroupInitErr)
  /\ pc' = "failed"
  /\ UNCHANGED <<geo, next, groups, enqs>>

(* blk_blex_nq_regulator_free(). *)
Free ==
  /\ pc = "ready"
  /\ live' = live \ ({NsqMaps, Enqs} \cup {HeapOf(p) : p \in Prios}
                       \cup EarlierEnqs(MaxNqid + 1))
  /\ pc' = "freed"
  /\ UNCHANGED <<geo, next, groups, enqs>>

Next ==
  \/ AllocNsqMaps \/ AllocEnqs \/ InitGroup
  \/ InitEnqOk \/ InitEnqFail \/ Free

Spec == Init /\ [][Next]_vars

-----------------------------------------------------------------------------
Built == pc = "ready"

TypeOK ==
  /\ geo \in Geometries
  /\ pc \in {"maps", "enqs", "groups", "nqs", "ready", "failed", "freed"}
  /\ next \in 0 .. MaxNqid + 1
  /\ live \subseteq AllLive
  /\ \A n \in Nqids : enqs[n] # None => enqs[n].cqid \in Nqids /\ enqs[n].prio \in Prios

(* Whatever allocation fails, the error paths of                           *)
(* blk_blex_nq_regulator_alloc_and_init() give back everything, success    *)
(* leaves everything allocated, and blk_blex_nq_regulator_free() leaves    *)
(* nothing.                                                                *)
AllOrNothing ==
  /\ pc \in {"failed", "freed"} => live = {}
  /\ Built => live = AllLive

(* The NQs attached to an NCQ are exactly those whose cqid is its ID, they *)
(* share its tag set and no other NQ does, tag sets are numbered without   *)
(* gaps, and k-th-NCQ and index-of-NCQ are inverse: a completion found in  *)
(* an NCQ is looked up in the tag set its command was issued from.         *)
NcqsPartitionNqs ==
  Built =>
    \A k \in 0 .. NrCqs - 1 :
      LET cqid == GetKthCqid(k, MaxNqid, NrCqs)
          nsqs == {n \in Nqids : enqs[n].cqid = cqid}
      IN  /\ CqidToIndex(cqid, MaxNqid, NrCqs) = k
          /\ enqs[cqid].encq # None
          /\ nsqs = {enqs[cqid].encq[i] : i \in DOMAIN enqs[cqid].encq}
          /\ nsqs = {CqidToKthSqid(cqid, i, MaxNqid, NrCqs) : i \in 0 .. NrCpus + MaxNqid}
          /\ nsqs = {n \in Nqids : GetTagIdx(NqidToHctx(n), MaxNqid, NrCqs) = k}

(* The two groups split the NQs, each holding the NCQs of its heap and     *)
(* their NSQs, and round-robin selection of either kind, whatever the      *)
(* counters are at, visits the whole group and never leaves it.            *)
RoundRobinCoversGroup ==
  Built =>
    \A p \in Prios :
      LET g == groups[p]
          members == {n \in Nqids : enqs[n].prio = p}
          offsets == 0 .. MaxNqid
      IN  /\ {RrNextByNsq(g, o) : o \in offsets} = members
          /\ {RrNextByNcq(g, o1, o2, MaxNqid, NrCqs) : o1, o2 \in offsets} = members
          /\ {g.heap[i] : i \in DOMAIN g.heap} = {n \in members : enqs[n].encq # None}

(* Every group has an NCQ on top of its heap to recommend, on every device *)
(* with more than one I/O queue.                                           *)
TopNqExists == Built => \A p \in Prios : groups[p].top \in Nqids

(* The NQ layout serves every command: its NCQ is found again, and each    *)
(* priority's group offers all its NQs, one of them on top.                *)
LayoutCovers == NcqsPartitionNqs /\ RoundRobinCoversGroup /\ TopNqExists
=============================================================================
