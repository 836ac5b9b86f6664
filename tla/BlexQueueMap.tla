---------------------------- MODULE BlexQueueMap ----------------------------
(***************************************************************************)
(* The arithmetic by which blk-blex lays NVMe queues (NQs) out.  The NQs   *)
(* 1..max_nqid all own a submission queue (NSQ); nr_cqs of them also own a *)
(* completion queue (NCQ).  An NCQ and the NSQs attached to it have        *)
(* consecutive IDs, the NCQ's first, and the first max_nqid % nr_cqs NCQs  *)
(* serve one NSQ more than the others.  hctx i stands for NQ i + 1.        *)
(*                                                                         *)
(* The operators keep the C functions' parameters; \div and % on naturals  *)
(* are C's unsigned / and %.                                               *)
(***************************************************************************)
EXTENDS Naturals, FiniteSetsExt

TPrio == 0                          \* BLK_BLEX_T_PRIO
LPrio == 1                          \* BLK_BLEX_L_PRIO
PrioLevel == 2                      \* BLK_BLEX_PRIO_LEVEL
Prios == 0 .. PrioLevel - 1

HctxToNqid(hctx) == hctx + 1
NqidToHctx(nqid) == IF nqid = 0 THEN nqid ELSE nqid - 1

-----------------------------------------------------------------------------
(* NQ IDs, NCQ IDs, NCQ indices, tag sets. *)

MinNoExtraSqCqid(max_nqid, nr_cqs) ==
  (max_nqid % nr_cqs) * (max_nqid \div nr_cqs + 1) + 1

GetCqNrNsqs(cqid, max_nqid, nr_cqs) ==
  IF cqid < MinNoExtraSqCqid(max_nqid, nr_cqs)
    THEN max_nqid \div nr_cqs + 1
    ELSE max_nqid \div nr_cqs

CqidToKthSqid(cqid, k, max_nqid, nr_cqs) ==
  cqid + (k % GetCqNrNsqs(cqid, max_nqid, nr_cqs))

GetKthCqid(k, max_nqid, nr_cqs) ==
  LET i     == k % nr_cqs
      ave   == max_nqid \div nr_cqs
      extra == max_nqid % nr_cqs
  IN  IF i < extra THEN i * (ave + 1) + 1 ELSE extra + i * ave + 1

(* Mutant: the NCQs without an extra NSQ are forgotten. *)
CqidToIndexAllExtra(cqid, max_nqid, nr_cqs) == cqid \div (max_nqid \div nr_cqs + 1)

CqidToIndex(cqid, max_nqid, nr_cqs) ==
  LET min == MinNoExtraSqCqid(max_nqid, nr_cqs)
      ave == max_nqid \div nr_cqs
  IN  IF cqid <= min
        THEN cqid \div (ave + 1)
        ELSE (cqid - min) \div ave + min \div (ave + 1)

GetCqid(qid, max_nqid, nr_cqs) ==
  LET min == MinNoExtraSqCqid(max_nqid, nr_cqs)
      ave == max_nqid \div nr_cqs
  IN  IF qid < min
        THEN ((qid - 1) \div (ave + 1)) * (ave + 1) + 1
        ELSE min + ((qid - min) \div ave) * ave

GetTagIdx(hctx, max_nqid, nr_cqs) ==
  CqidToIndex(GetCqid(HctxToNqid(hctx), max_nqid, nr_cqs), max_nqid, nr_cqs)

HasCq(nqid, max_nqid, nr_cqs) == nqid = GetCqid(nqid, max_nqid, nr_cqs)

-----------------------------------------------------------------------------
(* NQ groups: the NCQs are split evenly among the priorities, in ID order, *)
(* and the last group takes what the division leaves over.                 *)

NcqStartIdx(prio, nr_cqs) == prio * (nr_cqs \div PrioLevel)

GroupOf(prio, max_nqid, nr_cqs) ==
  LET first  == NcqStartIdx(prio, nr_cqs)
      nrNcqs == IF prio + 1 = PrioLevel
                  THEN nr_cqs - first ELSE nr_cqs \div PrioLevel
      Ncq(i) == GetKthCqid(first + i, max_nqid, nr_cqs)
  IN  [ncq_start      |-> GetKthCqid(first, max_nqid, nr_cqs),
       nr_ncqs        |-> nrNcqs,
       ncqs           |-> {Ncq(i) : i \in 0 .. nrNcqs - 1},
       nr_attach_nsqs |-> MapThenSumSet(
                            LAMBDA i : GetCqNrNsqs(Ncq(i), max_nqid, nr_cqs),
                            0 .. nrNcqs - 1)]

(* The heap of a group's priority array, and of an NCQ's, when it is made. *)
InitNcqHeap(group, max_nqid, nr_cqs) ==
  [id \in 0 .. group.nr_ncqs - 1 |->
     GetKthCqid(CqidToIndex(group.ncq_start, max_nqid, nr_cqs) + id,
                max_nqid, nr_cqs)]

InitNsqHeap(cqid, max_nqid, nr_cqs) ==
  [id \in 0 .. GetCqNrNsqs(cqid, max_nqid, nr_cqs) - 1 |-> cqid + id]

-----------------------------------------------------------------------------
(* Round-robin selection, with the values the atomic counters returned. *)

RrNextByNsq(group, nsqOffset) ==
  group.ncq_start + (nsqOffset % group.nr_attach_nsqs)

RrNextByNcq(group, ncqOffset, nsqOffset, max_nqid, nr_cqs) ==
  LET first == CqidToIndex(group.ncq_start, max_nqid, nr_cqs)
      ncq   == GetKthCqid(first + (ncqOffset % group.nr_ncqs), max_nqid, nr_cqs)
  IN  ncq + (nsqOffset % GetCqNrNsqs(ncq, max_nqid, nr_cqs))

(* The NQ of a request promoted out of its task's default NQ. *)
NonDefaultNqid(cpu, nrCpus, max_nqid, lPrioStart) ==
  LET nrL == max_nqid - lPrioStart + 1
  IN  IF cpu <= nrCpus \div 2
        THEN (cpu % nrL) + 1
        ELSE ((nrCpus - cpu - 1) % nrL) + 1

(* The hctx index of a CPU's default queue for the priority of the group. *)
DefaultHctxIdx(group, cpu) ==
  group.ncq_start + ((group.ncq_start - 1 + cpu) % group.nr_attach_nsqs)
=============================================================================
