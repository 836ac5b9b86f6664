---------------------------- MODULE BlexNqSched ----------------------------
(***************************************************************************)
(* NQ scheduling: CPUs running blk_blex_recommend_nsq() at the same time,  *)
(* each reading the published top of a group's priority array, charging    *)
(* its mru counter and, when the charge leaves no credit, rotating the     *)
(* heap under a lock it only tries to take; then the same once more on the *)
(* array of the recommended NCQ when that serves several NSQs.             *)
(*                                                                         *)
(* An action is a stretch of code with at most one access to state that    *)
(* other CPUs may touch at that moment; the heap is only touched under the *)
(* lock, and its swap is two actions, so that a missing lock would show.   *)
(***************************************************************************)
EXTENDS Integers, Functions

CONSTANTS
  Callers,     \* CPUs that recommend
  Groups,      \* NQ groups (priorities)
  Nqs,         \* IDs of the exposed NQs
  Arrays,      \* all priority arrays: one per group, one per multi-NSQ NCQ
  NcqArray,    \* group -> its array of NCQs
  NsqArray,    \* NQ -> its array of NSQs, None unless it serves several
  InitHeap,    \* array -> its heap when initialised, a function on 0..n-1
  Kinds,       \* kinds of calls made: "init" and/or "update"
  Mru,         \* blex_prio_arr_mru
  AlphaNumer,  \* blex_sched_merit_alpha_numer
  AlphaDenom,  \* blex_sched_merit_alpha_denom
  MruFloor,    \* bound: below it mru is no longer told apart
  Stats,       \* the values an NCQ's statistics may add up to
  None

Slots(a)   == DOMAIN InitHeap[a]
Members(a) == Range(InitHeap[a])
NcqArrays  == Range(NcqArray)

ASSUME TopologyAssumption ==
  /\ None \notin Callers /\ None \notin Nqs /\ None \notin Arrays
  /\ NcqArray \in [Groups -> Arrays]
  /\ NsqArray \in [Nqs -> Arrays \cup {None}]
  /\ Nqs \subseteq Nat
  /\ InitHeap = [a \in Arrays |-> InitHeap[a]]
  /\ \A a \in Arrays : /\ InitHeap[a] \in [Slots(a) -> Nqs]
                       /\ 0 \in Slots(a)
                       /\ Slots(a) \subseteq Nat

ASSUME KindAssumption == Kinds \subseteq {"init", "update"}
ASSUME MruAssumption  == Mru \in Nat \ {0} /\ MruFloor \in Int /\ MruFloor <= 0
ASSUME StatAssumption == Stats \subseteq Nat
ASSUME AlphaAssumption == AlphaNumer \in Nat /\ AlphaDenom \in Nat \ {0}

VARIABLES
  heap,    \* bin_heap of each array
  top,     \* top_nq of each array, as an NQ ID
  mru,     \* mru of each array
  lock,    \* who holds bin_heap_lock of each array, or None
  merit,   \* last computed merit of each NQ in each array it is in
  stat,    \* what the statistics since then add: the merit_tmp of an NQ
  pc,      \* where each caller is
  call,    \* its arguments: kind, group, and the array it is working on
  upd,     \* its locals in update_priority_array()
  ncq,     \* the NCQ it peeked
  res      \* the NSQ it will recommend, once that is known

vars == <<heap, top, mru, lock, merit, stat, pc, call, upd, ncq, res>>

Idle   == [kind |-> None, arr |-> None]
NoUpd  == [pos |-> 0, son |-> 0, tmp |-> 0, old |-> 0, merit |-> 0, changed |-> FALSE]

-----------------------------------------------------------------------------
(* blk_blex_calc_sched_merit().  The driver never counts submissions or    *)
(* lock time, so the statistics of an NSQ always add 0.                    *)
Alpha(n) == (n * AlphaNumer) \div AlphaDenom
CalcMerit(a, q) == merit[a][q] - Alpha(merit[a][q]) + Alpha(stat[a][q])

(* The child the sift compares with: the right one only if strictly less.  *)
SonOf(a, i) ==
  LET left  == 2 * i + 1
      right == 2 * i + 2
  IN  IF /\ right \in Slots(a)
         /\ CalcMerit(a, heap[a][right]) < CalcMerit(a, heap[a][left])
        THEN right ELSE left

(* Round-robin calls take the maximal mru and force an infinite merit. *)
ChargeOf(c) ==
  IF call[c].kind = "init" \/ call[c].arr \in NcqArrays THEN Mru ELSE 1

At(c, l)   == pc[c] = l
Goto(c, l) == pc' = [pc EXCEPT ![c] = l]

-----------------------------------------------------------------------------
Init ==
  /\ heap  = InitHeap
  /\ top   = [a \in Arrays |-> InitHeap[a][0]]
  /\ mru   = [a \in Arrays |-> Mru]
  /\ lock  = [a \in Arrays |-> None]
  /\ merit = [a \in Arrays |-> [q \in Members(a) |-> 0]]
  /\ stat  = [a \in Arrays |-> [q \in Members(a) |-> 0]]
  /\ pc    = [c \in Callers |-> "idle"]
  /\ call  = [c \in Callers |-> Idle]
  /\ upd   = [c \in Callers |-> NoUpd]
  /\ ncq   = [c \in Callers |-> None]
  /\ res   = [c \in Callers |-> None]

(* Completions and interrupts in an NCQ change its statistics, without any *)
(* lock; what they add up to may be any value, in_flight being a counter   *)
(* that only goes down.                                                    *)
Complete(a, q, s) ==
  /\ stat' = [stat EXCEPT ![a][q] = s]
  /\ UNCHANGED <<heap, top, mru, lock, merit, pc, call, upd, ncq, res>>

(* recommend_nsq() of a task that starts ("init": round_robin) or that is  *)
(* rescheduled ("update"): peek the top NCQ of the group.                  *)
PeekNcq(c, g, k) ==
  /\ At(c, "idle")
  /\ ncq' = [ncq EXCEPT ![c] = top[NcqArray[g]]]
  /\ res' = IF NsqArray[top[NcqArray[g]]] = None
              THEN [res EXCEPT ![c] = top[NcqArray[g]]] ELSE res
  /\ call' = [call EXCEPT ![c] = [kind |-> k, arr |-> NcqArray[g]]]
  /\ Goto(c, "charge")
  /\ UNCHANGED <<heap, top, mru, lock, merit, stat, upd>>

(* Where a caller goes from an update: on to peek the NSQ of a multi-NSQ   *)
(* NCQ, or back to its own caller.                                         *)
LeaveUpdate(c) ==
  /\ upd' = [upd EXCEPT ![c] = NoUpd]
  /\ IF call[c].arr \in NcqArrays /\ NsqArray[ncq[c]] # None
       THEN Goto(c, "peek_nsq") /\ UNCHANGED <<call, ncq, res>>
       ELSE /\ Goto(c, "idle")
            /\ call' = [call EXCEPT ![c] = Idle]
            /\ ncq'  = [ncq EXCEPT ![c] = None]
            /\ res'  = [res EXCEPT ![c] = None]

PeekNsq(c) ==
  LET a == NsqArray[ncq[c]]
  IN  /\ At(c, "peek_nsq")
      /\ res'  = [res EXCEPT ![c] = top[a]]
      /\ call' = [call EXCEPT ![c].arr = a]
      /\ Goto(c, "charge")
      /\ UNCHANGED <<heap, top, mru, lock, merit, stat, upd, ncq>>

(* Mutant of Charge: a credit of exactly 0 does not yet make responsible. *)
ChargeToZero(c) ==
  LET a   == call[c].arr
      sub == mru[a] - ChargeOf(c)
      new == IF sub < MruFloor THEN MruFloor ELSE sub
  IN  /\ At(c, "charge")
      /\ mru' = [mru EXCEPT ![a] = new]
      /\ IF new < 0
           THEN Goto(c, "lock") /\ UNCHANGED <<call, upd, ncq, res>>
           ELSE LeaveUpdate(c)
      /\ UNCHANGED <<heap, top, lock, merit, stat>>

(* new_mru = atomic_sub_return(mru, &prio_arr->mru).  Only its sign is     *)
(* used and it is refilled to a fixed value, so it may stop at MruFloor.   *)
Charge(c) ==
  LET a   == call[c].arr
      sub == mru[a] - ChargeOf(c)
      new == IF sub < MruFloor THEN MruFloor ELSE sub
  IN  /\ At(c, "charge")
      /\ mru' = [mru EXCEPT ![a] = new]
      /\ IF new <= 0
           THEN Goto(c, "lock") /\ UNCHANGED <<call, upd, ncq, res>>
           ELSE LeaveUpdate(c)
      /\ UNCHANGED <<heap, top, lock, merit, stat>>

(* A failed spin_trylock(): somebody else is updating, just return. *)
TryLockFail(c) ==
  /\ At(c, "lock")
  /\ lock[call[c].arr] # None
  /\ LeaveUpdate(c)
  /\ UNCHANGED <<heap, top, mru, lock, merit, stat>>

(* Mutant: the lock is not looked at. *)
TryLockAlways(c) ==
  LET a == call[c].arr
  IN  /\ At(c, "lock")
      /\ lock' = [lock EXCEPT ![a] = c]
      /\ upd' = [upd EXCEPT ![c].old = top[a],
                            ![c].merit = CalcMerit(a, top[a])]
      /\ Goto(c, "sift")
      /\ UNCHANGED <<heap, top, mru, merit, stat, call, ncq, res>>

TryLock(c) ==
  LET a == call[c].arr
  IN  /\ At(c, "lock")
      /\ lock[a] = None
      /\ lock' = [lock EXCEPT ![a] = c]
      /\ upd' = [upd EXCEPT ![c].old = top[a],
                            ![c].merit = CalcMerit(a, top[a])]
      /\ Goto(c, "sift")
      /\ UNCHANGED <<heap, top, mru, merit, stat, call, ncq, res>>

(* The loop's exits: no child left, or the smaller child's merit exceeds   *)
(* the (unforced) merit of the item that sinks.                            *)
SiftEnds(c) ==
  LET a == call[c].arr
      i == upd[c].pos
  IN  \/ 2 * i + 1 \notin Slots(a)
      \/ /\ call[c].kind # "init"
         /\ CalcMerit(a, heap[a][SonOf(a, i)]) > upd[c].merit

(* One turn of the loop, up to bin_heap[i] = bin_heap[son]. *)
Sift(c) ==
  LET a == call[c].arr
      i == upd[c].pos
  IN  /\ At(c, "sift")
      /\ IF SiftEnds(c)
           THEN /\ upd' = [upd EXCEPT ![c].pos = 0]
                /\ Goto(c, "publish")
                /\ UNCHANGED heap
           ELSE /\ upd' = [upd EXCEPT ![c].tmp = heap[a][i],
                                      ![c].son = SonOf(a, i)]
                /\ heap' = [heap EXCEPT ![a][i] = heap[a][SonOf(a, i)]]
                /\ Goto(c, "swap")
      /\ UNCHANGED <<top, mru, lock, merit, stat, call, ncq, res>>

(* bin_heap[son] = tmp; i = son *)
Swap(c) ==
  LET a == call[c].arr
  IN  /\ At(c, "swap")
      /\ heap' = [heap EXCEPT ![a][upd[c].son] = upd[c].tmp]
      /\ upd' = [upd EXCEPT ![c].pos = upd[c].son, ![c].son = 0, ![c].tmp = 0]
      /\ Goto(c, "sift")
      /\ UNCHANGED <<top, mru, lock, merit, stat, call, ncq, res>>

Publish(c) ==
  LET a == call[c].arr
  IN  /\ At(c, "publish")
      /\ top' = [top EXCEPT ![a] = heap[a][0]]
      /\ upd' = [upd EXCEPT ![c].changed = heap[a][0] # upd[c].old]
      /\ Goto(c, "unlock")
      /\ UNCHANGED <<heap, mru, lock, merit, stat, call, ncq, res>>

(* spin_unlock(); then synchronize_rcu(): others may run before the refill *)
Unlock(c) ==
  LET a == call[c].arr
  IN  /\ At(c, "unlock")
      /\ lock' = [lock EXCEPT ![a] = None]
      /\ Goto(c, "refill")
      /\ UNCHANGED <<heap, top, mru, merit, stat, call, upd, ncq, res>>

(* Mutant: "no need to update", so no refill either. *)
RefillIfChanged(c) ==
  LET a == call[c].arr
  IN  /\ At(c, "refill")
      /\ IF upd[c].changed
           THEN mru' = [mru EXCEPT ![a] = Mru] /\ Goto(c, "clear") /\ UNCHANGED <<call, upd, ncq, res>>
           ELSE LeaveUpdate(c) /\ UNCHANGED mru
      /\ UNCHANGED <<heap, top, lock, merit, stat>>

Refill(c) ==
  LET a == call[c].arr
  IN  /\ At(c, "refill")
      /\ mru' = [mru EXCEPT ![a] = Mru]
      /\ IF upd[c].changed
           THEN Goto(c, "clear") /\ UNCHANGED <<call, upd, ncq, res>>
           ELSE LeaveUpdate(c)
      /\ UNCHANGED <<heap, top, lock, merit, stat>>

(* Keep the merit of the item that left the top, restart its statistics.   *)
Clear(c) ==
  LET a == call[c].arr
      q == upd[c].old
  IN  /\ At(c, "clear")
      /\ merit' = [merit EXCEPT ![a][q] = upd[c].merit]
      /\ stat' = [stat EXCEPT ![a][q] = 0]
      /\ LeaveUpdate(c)
      /\ UNCHANGED <<heap, top, mru, lock>>

Start(c) == \E g \in Groups, k \in Kinds : PeekNcq(c, g, k)

Step(c) ==
  \/ PeekNsq(c) \/ Charge(c) \/ TryLockFail(c) \/ TryLock(c)
  \/ Sift(c) \/ Swap(c) \/ Publish(c) \/ Unlock(c) \/ Refill(c) \/ Clear(c)

Next ==
  \/ \E c \in Callers : Start(c) \/ Step(c)
  \/ \E a \in NcqArrays : \E q \in Members(a), s \in Stats : Complete(a, q, s)

Spec == Init /\ [][Next]_vars

(* A CPU that is in the scheduler keeps running it: nothing in it blocks,  *)
(* and synchronize_rcu() waits for readers that cannot block either.       *)
FairSpec == Spec /\ \A c \in Callers : WF_vars(Step(c))

(* Tasks keep being created, and each asks for an NSQ. *)
BusySpec == FairSpec /\ \A c \in Callers : WF_vars(Start(c))

-----------------------------------------------------------------------------
InLock      == {"sift", "swap", "publish", "unlock"}   \* bin_heap_lock is held
Responsible == {"lock", "refill"} \cup InLock          \* the refill is left to it
Places      == {"idle", "charge", "peek_nsq", "clear"} \cup Responsible

ArraysTypeOK ==
  /\ heap = [a \in Arrays |-> heap[a]]
  /\ merit = [a \in Arrays |-> merit[a]]
  /\ stat = [a \in Arrays |-> stat[a]]
  /\ top = [a \in Arrays |-> top[a]]
  /\ \A a \in Arrays : /\ heap[a] \in [Slots(a) -> Members(a)]
                       /\ top[a] \in Members(a)
                       /\ merit[a] \in [Members(a) -> Int]
                       /\ stat[a] \in [Members(a) -> Nat]
  /\ mru \in [Arrays -> Int] /\ \A a \in Arrays : mru[a] >= MruFloor
  /\ lock \in [Arrays -> Callers \cup {None}]

CallersTypeOK ==
  /\ pc \in [Callers -> Places]
  /\ call \in [Callers -> [kind : Kinds \cup {None}, arr : Arrays \cup {None}]]
  /\ upd \in [Callers -> [pos : Nat, son : Nat, tmp : Nat, old : Nat,
                          merit : Int, changed : BOOLEAN]]
  /\ ncq \in [Callers -> Nqs \cup {None}]
  /\ res \in [Callers -> Nqs \cup {None}]

(* The state the scheduler is made of (struct blex_priority_array, blex_nq,*)
(* the locals of blk_blex_update_priority_array()).                        *)
TypeOK == ArraysTypeOK /\ CallersTypeOK

(* h holds every NQ of the array: no NQ was lost or overwritten by another. *)
HoldsAll(h, a) == \A q \in Members(a) : \E i \in Slots(a) : h[i] = q

(* Whenever the lock is free, the heap is a permutation of the NQs it was  *)
(* initialised with, whatever rotations overlapped: no NQ is ever lost to  *)
(* scheduling or listed twice (bin_heap, blk_blex_update_priority_array).  *)
HeapIntact == \A a \in Arrays : lock[a] = None => HoldsAll(heap[a], a)

(* Whenever the lock is free, the NQ that is recommended without it, the   *)
(* published top_nq, is the heap's top.                                    *)
TopPublished == \A a \in Arrays : lock[a] = None => top[a] = heap[a][0]

(* A priority array without credit always has a caller that is about to    *)
(* refill it: giving up on a failed trylock never leaves it spent for good,*)
(* with its top recommended for ever or rotated at every recommendation.   *)
SpentHasUpdater ==
  \A a \in Arrays :
    mru[a] <= 0 => \E c \in Callers : call[c].arr = a /\ pc[c] \in Responsible

(* A caller's locals refer to the array it works on. *)
LocalsOK(c) ==
  /\ pc[c] # "idle" => call[c].arr \in Arrays /\ ncq[c] \in Nqs
  /\ pc[c] = "peek_nsq" => NsqArray[ncq[c]] \in Arrays
  /\ IF pc[c] \in {"sift", "swap"}
       THEN upd[c].pos \in Slots(call[c].arr) ELSE upd[c].pos = 0
  /\ pc[c] = "swap" => /\ upd[c].son \in Slots(call[c].arr)
                       /\ upd[c].tmp \in Members(call[c].arr)

(* A caller is between trylock and unlock iff it holds the lock. *)
LockOwned ==
  /\ \A c \in Callers : pc[c] \in InLock => lock[call[c].arr] = c
  /\ \A a \in Arrays : lock[a] # None => pc[lock[a]] \in InLock /\ call[lock[a]].arr = a

(* What the holder of the lock has still to write completes the heap. *)
HolderCompletes ==
  \A c \in Callers :
    LET a == call[c].arr
    IN  /\ pc[c] \in InLock \ {"swap"} => HoldsAll(heap[a], a)
        /\ pc[c] = "swap" => HoldsAll([heap[a] EXCEPT ![upd[c].son] = upd[c].tmp], a)
        /\ pc[c] = "unlock" => top[a] = heap[a][0]

(* The inductive invariant. *)
IInv ==
  /\ TypeOK
  /\ \A c \in Callers : LocalsOK(c)
  /\ LockOwned
  /\ HolderCompletes
  /\ HeapIntact
  /\ TopPublished
  /\ SpentHasUpdater

(* A spent counter is refilled. *)
SpentIsRefilled == \A a \in Arrays : mru[a] <= 0 ~> mru[a] > 0

(* Round-robin recommendation gets round: every NSQ behind every NCQ of a  *)
(* group is recommended again and again (recommend_nsq(): "Recommending    *)
(* NSQs in a round-robin fashion").                                        *)
EveryNsqRecommended ==
  \A g \in Groups : \A n \in Members(NcqArray[g]) :
    \A q \in (IF NsqArray[n] = None THEN {n} ELSE Members(NsqArray[n])) :
      []<>(\E c \in Callers : res[c] = q)

(* The credit and the responsibility for it behave as BlexMru says. *)
ResponsibleFor(a) == {c \in Callers : call[c].arr = a /\ pc[c] \in Responsible}
AbsMru == INSTANCE BlexMru WITH
            credit <- mru, responsible <- [a \in Arrays |-> ResponsibleFor(a)]
ImplementsMru == AbsMru!MSpec
=============================================================================
