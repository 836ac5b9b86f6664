------------------------ MODULE BlexNqSched_proofs ------------------------
(***************************************************************************)
(* Proofs about NQ scheduling, for any number of CPUs, groups, NQs and any *)
(* mru and merit tunables: the inductive invariant of BlexNqSched, the     *)
(* safety properties that follow from it, and that the charging of the     *)
(* priority arrays implements BlexMru.                                     *)
(***************************************************************************)
EXTENDS BlexNqSched, TLAPS

-----------------------------------------------------------------------------
(* Operators and locals. *)

LEMMA MembersAreNqs ==
  ASSUME NEW a \in Arrays
  PROVE  /\ Members(a) \subseteq Nqs
         /\ Members(a) \subseteq Nat
         /\ InitHeap[a] \in [Slots(a) -> Members(a)]
         /\ 0 \in Slots(a) /\ Slots(a) \subseteq Nat
  BY TopologyAssumption DEF TopologyAssumption, Slots, Members, Range

LEMMA ArrayTypes ==
  /\ NcqArray \in [Groups -> Arrays] /\ NcqArrays \subseteq Arrays
  /\ NsqArray \in [Nqs -> Arrays \cup {None}]
  /\ None \notin Callers /\ None \notin Nqs /\ None \notin Arrays
  BY TopologyAssumption DEF TopologyAssumption, NcqArrays, Range

LEMMA PlacesDiffer ==
  /\ InLock \subseteq Responsible /\ Responsible \subseteq Places
  /\ "idle" \notin Responsible /\ "charge" \notin Responsible
  /\ "peek_nsq" \notin Responsible /\ "clear" \notin Responsible
  /\ "lock" \notin InLock /\ "refill" \notin InLock
  BY DEF InLock, Responsible, Places

LEMMA AlphaType == ASSUME NEW n \in Int PROVE Alpha(n) \in Int
  BY AlphaAssumption DEF AlphaAssumption, Alpha

LEMMA MeritType ==
  ASSUME TypeOK, NEW a \in Arrays, NEW q \in Members(a)
  PROVE  CalcMerit(a, q) \in Int
  <1>1. merit[a][q] \in Int /\ stat[a][q] \in Int
    BY DEF TypeOK, ArraysTypeOK
  <1> QED
    BY <1>1, AlphaType DEF CalcMerit

LEMMA SonIsSlot ==
  ASSUME NEW a \in Arrays, NEW i \in Slots(a), 2 * i + 1 \in Slots(a)
  PROVE  SonOf(a, i) \in Slots(a)
  BY MembersAreNqs DEF SonOf

(* A sift that has copied the child up and still holds the item that sinks *)
(* in tmp can complete the heap.                                           *)
LEMMA SinkCompletes ==
  ASSUME NEW a \in Arrays, NEW h \in [Slots(a) -> Members(a)],
         NEW i \in Slots(a), NEW s \in Slots(a), HoldsAll(h, a)
  PROVE  HoldsAll([[h EXCEPT ![i] = h[s]] EXCEPT ![s] = h[i]], a)
  <1> DEFINE g == [[h EXCEPT ![i] = h[s]] EXCEPT ![s] = h[i]]
  <1> SUFFICES ASSUME NEW q \in Members(a) PROVE \E j \in Slots(a) : g[j] = q
    BY DEF HoldsAll
  <1>1. PICK j \in Slots(a) : h[j] = q
    BY DEF HoldsAll
  <1>2. CASE j = i
    BY <1>1, <1>2
  <1>3. CASE j = s
    BY <1>1, <1>3
  <1>4. CASE j # i /\ j # s
    BY <1>1, <1>4
  <1> QED BY <1>2, <1>3, <1>4

-----------------------------------------------------------------------------
(* Frame lemmas: what a step of caller c leaves alone. *)

OthersStay(c) ==
  \A d \in Callers \ {c} :
    pc'[d] = pc[d] /\ call'[d] = call[d] /\ upd'[d] = upd[d] /\ ncq'[d] = ncq[d]

(* A caller that neither holds the lock before nor after its step does not *)
(* disturb what is protected by it.                                        *)
LEMMA OutsideLock ==
  ASSUME IInv, NEW c \in Callers, OthersStay(c), UNCHANGED <<heap, top, lock>>,
         pc[c] \notin InLock, pc'[c] \notin InLock
  PROVE  LockOwned' /\ HolderCompletes' /\ HeapIntact' /\ TopPublished'
  <1>1. LockOwned'
    <2>1. \A d \in Callers : pc'[d] \in InLock => lock'[call'[d].arr] = d
      BY DEF IInv, LockOwned, OthersStay
    <2>2. ASSUME NEW a \in Arrays, lock'[a] # None
          PROVE  pc'[lock'[a]] \in InLock /\ call'[lock'[a]].arr = a
      <3>1. lock[a] \in Callers /\ pc[lock[a]] \in InLock /\ call[lock[a]].arr = a
        BY <2>2 DEF IInv, LockOwned, TypeOK, ArraysTypeOK
      <3> QED BY <3>1 DEF OthersStay
    <2> QED BY <2>1, <2>2 DEF LockOwned, InLock
  <1>2. HolderCompletes'
    <2> SUFFICES ASSUME NEW d \in Callers, pc'[d] \in InLock
                 PROVE  /\ pc'[d] \in InLock \ {"swap"} =>
                             HoldsAll(heap'[call'[d].arr], call'[d].arr)
                        /\ pc'[d] = "swap" =>
                             HoldsAll([heap'[call'[d].arr] EXCEPT ![upd'[d].son] = upd'[d].tmp],
                                      call'[d].arr)
                        /\ pc'[d] = "unlock" =>
                             top'[call'[d].arr] = heap'[call'[d].arr][0]
      BY DEF HolderCompletes, HoldsAll, InLock
    <2>1. d # c /\ pc'[d] = pc[d] /\ call'[d] = call[d] /\ upd'[d] = upd[d]
      BY DEF OthersStay
    <2> QED
      BY <2>1 DEF IInv, HolderCompletes
  <1>3. HeapIntact' /\ TopPublished'
    BY DEF IInv, HeapIntact, TopPublished, HoldsAll
  <1> QED BY <1>1, <1>2, <1>3

(* As long as c stays or becomes responsible and no other credit is spent, *)
(* spent arrays keep their updater.                                        *)
LEMMA StillResponsible ==
  ASSUME IInv, NEW c \in Callers, OthersStay(c),
         \A a \in Arrays :
           mru'[a] <= 0 => mru[a] <= 0 \/ (call'[c].arr = a /\ pc'[c] \in Responsible),
         pc[c] \in Responsible => pc'[c] \in Responsible /\ call'[c].arr = call[c].arr
  PROVE  SpentHasUpdater'
  BY DEF IInv, SpentHasUpdater, OthersStay

LEMMA LeaveUpdateTypes ==
  ASSUME IInv, NEW c \in Callers, pc[c] # "idle", LeaveUpdate(c)
  PROVE  /\ CallersTypeOK' /\ OthersStay(c) /\ pc'[c] \in {"peek_nsq", "idle"}
         /\ \A d \in Callers : LocalsOK(d)'
  <1>1. CallersTypeOK /\ \A d \in Callers : LocalsOK(d)
    BY DEF IInv, TypeOK
  <1>2. NoUpd \in [pos : Nat, son : Nat, tmp : Nat, old : Nat,
                   merit : Int, changed : BOOLEAN]
    BY DEF NoUpd
  <1>3. Idle \in [kind : Kinds \cup {None}, arr : Arrays \cup {None}]
    BY DEF Idle
  <1>4. CallersTypeOK' /\ OthersStay(c) /\ pc'[c] \in {"peek_nsq", "idle"}
    <2>1. upd' = [upd EXCEPT ![c] = NoUpd]
      BY DEF LeaveUpdate
    <2>2. CASE Goto(c, "peek_nsq") /\ UNCHANGED <<call, ncq, res>>
      BY <1>1, <1>2, <2>1, <2>2 DEF Goto, CallersTypeOK, OthersStay, Places
    <2>3. CASE /\ Goto(c, "idle")
               /\ call' = [call EXCEPT ![c] = Idle]
               /\ ncq'  = [ncq EXCEPT ![c] = None]
               /\ res'  = [res EXCEPT ![c] = None]
      BY <1>1, <1>2, <1>3, <2>1, <2>3 DEF Goto, CallersTypeOK, OthersStay, Places
    <2> QED BY <2>2, <2>3 DEF LeaveUpdate
  <1>5. LocalsOK(c)'
    <2>1. upd'[c].pos = 0
      BY <1>1 DEF LeaveUpdate, CallersTypeOK, NoUpd
    <2> QED
      BY <1>1, <1>4, <2>1, ArrayTypes DEF LocalsOK, LeaveUpdate, Goto, CallersTypeOK
  <1>6. \A d \in Callers \ {c} : LocalsOK(d)'
    BY <1>1, <1>4 DEF LocalsOK, OthersStay
  <1> QED BY <1>4, <1>5, <1>6

-----------------------------------------------------------------------------
(* One lemma per action. *)

LEMMA CompleteStep ==
  ASSUME IInv, NEW a \in NcqArrays, NEW q \in Members(a), NEW s \in Stats,
         Complete(a, q, s)
  PROVE  IInv'
  <1>1. s \in Nat /\ a \in Arrays
    BY ArrayTypes, StatAssumption DEF StatAssumption
  <1>2. ArraysTypeOK'
    BY <1>1 DEF IInv, TypeOK, ArraysTypeOK, Complete
  <1>3. CallersTypeOK'
    BY DEF IInv, TypeOK, CallersTypeOK, Complete
  <1>4. \A d \in Callers : LocalsOK(d)'
    BY DEF IInv, LocalsOK, Complete
  <1>5. LockOwned' /\ HolderCompletes'
    BY DEF IInv, LockOwned, HolderCompletes, HoldsAll, Complete
  <1>6. HeapIntact' /\ TopPublished' /\ SpentHasUpdater'
    BY DEF IInv, HeapIntact, TopPublished, SpentHasUpdater, HoldsAll, Complete
  <1> QED BY <1>2, <1>3, <1>4, <1>5, <1>6 DEF IInv, TypeOK

LEMMA PeekNcqStep ==
  ASSUME IInv, NEW c \in Callers, NEW g \in Groups, NEW k \in Kinds,
         PeekNcq(c, g, k)
  PROVE  IInv'
  <1> DEFINE a == NcqArray[g]
  <1>1. a \in Arrays /\ top[a] \in Nqs
    BY ArrayTypes, MembersAreNqs DEF IInv, TypeOK, ArraysTypeOK
  <1>2. /\ pc[c] = "idle" /\ pc' = [pc EXCEPT ![c] = "charge"]
        /\ call' = [call EXCEPT ![c] = [kind |-> k, arr |-> a]]
        /\ ncq' = [ncq EXCEPT ![c] = top[a]]
        /\ res' = [res EXCEPT ![c] = top[a]] \/ UNCHANGED res
        /\ UNCHANGED <<heap, top, mru, lock, merit, stat, upd>>
    BY DEF PeekNcq, At, Goto
  <1>3. ArraysTypeOK'
    BY <1>2 DEF IInv, TypeOK, ArraysTypeOK
  <1>4. CallersTypeOK'
    BY <1>1, <1>2 DEF IInv, TypeOK, CallersTypeOK, Places
  <1>5. OthersStay(c) /\ pc'[c] = "charge"
    BY <1>2 DEF IInv, TypeOK, CallersTypeOK, OthersStay
  <1>6. \A d \in Callers : LocalsOK(d)'
    BY <1>1, <1>2, <1>5 DEF IInv, TypeOK, CallersTypeOK, LocalsOK, OthersStay
  <1>7. LockOwned' /\ HolderCompletes' /\ HeapIntact' /\ TopPublished'
    BY <1>2, <1>5, OutsideLock DEF InLock
  <1>8. SpentHasUpdater'
    BY <1>2, <1>5, StillResponsible, PlacesDiffer
  <1> QED BY <1>3, <1>4, <1>6, <1>7, <1>8 DEF IInv, TypeOK

LEMMA PeekNsqStep ==
  ASSUME IInv, NEW c \in Callers, PeekNsq(c)
  PROVE  IInv'
  <1> DEFINE a == NsqArray[ncq[c]]
  <1>1. pc[c] = "peek_nsq" /\ a \in Arrays /\ ncq[c] \in Nqs
    BY DEF PeekNsq, At, IInv, LocalsOK
  <1>2. /\ pc' = [pc EXCEPT ![c] = "charge"]
        /\ call' = [call EXCEPT ![c].arr = a]
        /\ res' = [res EXCEPT ![c] = top[a]]
        /\ UNCHANGED <<heap, top, mru, lock, merit, stat, upd, ncq>>
    BY DEF PeekNsq, Goto
  <1>3. ArraysTypeOK'
    BY <1>2 DEF IInv, TypeOK, ArraysTypeOK
  <1>4. top[a] \in Nqs
    BY <1>1, MembersAreNqs DEF IInv, TypeOK, ArraysTypeOK
  <1>5. CallersTypeOK'
    BY <1>1, <1>2, <1>4 DEF IInv, TypeOK, CallersTypeOK, Places
  <1>6. OthersStay(c) /\ pc'[c] = "charge" /\ call'[c].arr = a
    BY <1>2 DEF IInv, TypeOK, CallersTypeOK, OthersStay
  <1>7. \A d \in Callers : LocalsOK(d)'
    BY <1>1, <1>2, <1>6 DEF IInv, LocalsOK, OthersStay
  <1>8. LockOwned' /\ HolderCompletes' /\ HeapIntact' /\ TopPublished'
    BY <1>1, <1>2, <1>6, OutsideLock DEF InLock
  <1>9. SpentHasUpdater'
    BY <1>1, <1>2, <1>6, StillResponsible, PlacesDiffer
  <1> QED BY <1>3, <1>5, <1>7, <1>8, <1>9 DEF IInv, TypeOK

LEMMA ChargeStep ==
  ASSUME IInv, NEW c \in Callers, Charge(c)
  PROVE  IInv'
  <1> DEFINE a   == call[c].arr
             sub == mru[a] - ChargeOf(c)
             new == IF sub < MruFloor THEN MruFloor ELSE sub
  <1>1. pc[c] = "charge" /\ a \in Arrays
    BY DEF Charge, At, IInv, LocalsOK
  <1>2. new \in Int /\ new >= MruFloor
    BY <1>1, MruAssumption DEF MruAssumption, ChargeOf, IInv, TypeOK, ArraysTypeOK
  <1>3. /\ mru' = [mru EXCEPT ![a] = new]
        /\ UNCHANGED <<heap, top, lock, merit, stat>>
        /\ \/ new <= 0 /\ Goto(c, "lock") /\ UNCHANGED <<call, upd, ncq, res>>
           \/ ~(new <= 0) /\ LeaveUpdate(c)
    BY DEF Charge
  <1> HIDE DEF new
  <1>4. ArraysTypeOK'
    BY <1>1, <1>2, <1>3 DEF IInv, TypeOK, ArraysTypeOK
  <1>5. mru'[a] = new /\ \A b \in Arrays \ {a} : mru'[b] = mru[b]
    BY <1>1, <1>3 DEF IInv, TypeOK, ArraysTypeOK
  <1>6. CASE new <= 0 /\ Goto(c, "lock") /\ UNCHANGED <<call, upd, ncq, res>>
    <2>1. CallersTypeOK' /\ OthersStay(c) /\ pc'[c] = "lock" /\ call'[c].arr = a
      BY <1>6 DEF Goto, IInv, TypeOK, CallersTypeOK, OthersStay, Places, Responsible
    <2>2. \A d \in Callers : LocalsOK(d)'
      BY <1>1, <1>6, <2>1 DEF IInv, LocalsOK, OthersStay
    <2>3. LockOwned' /\ HolderCompletes' /\ HeapIntact' /\ TopPublished'
      BY <1>1, <1>3, <2>1, OutsideLock DEF InLock
    <2>4. SpentHasUpdater'
      BY <1>1, <1>5, <2>1, StillResponsible, PlacesDiffer DEF Responsible
    <2> QED BY <1>4, <2>1, <2>2, <2>3, <2>4 DEF IInv, TypeOK
  <1>7. CASE ~(new <= 0) /\ LeaveUpdate(c)
    <2>1. /\ CallersTypeOK' /\ OthersStay(c) /\ pc'[c] \in {"peek_nsq", "idle"}
          /\ \A d \in Callers : LocalsOK(d)'
      BY <1>1, <1>7, LeaveUpdateTypes
    <2>2. LockOwned' /\ HolderCompletes' /\ HeapIntact' /\ TopPublished'
      BY <1>1, <1>3, <2>1, OutsideLock DEF InLock
    <2>3. SpentHasUpdater'
      BY <1>1, <1>5, <1>7, <2>1, StillResponsible, PlacesDiffer
    <2> QED BY <1>4, <2>1, <2>2, <2>3 DEF IInv, TypeOK
  <1> QED BY <1>3, <1>6, <1>7

(* Giving up is safe because the lock's holder is responsible as well. *)
LEMMA TryLockFailStep ==
  ASSUME IInv, NEW c \in Callers, TryLockFail(c)
  PROVE  IInv'
  <1> DEFINE a == call[c].arr
             h == lock[a]
  <1>1. pc[c] = "lock" /\ a \in Arrays /\ h # None
    BY DEF TryLockFail, At, IInv, LocalsOK
  <1>2. LeaveUpdate(c) /\ UNCHANGED <<heap, top, mru, lock, merit, stat>>
    BY DEF TryLockFail
  <1>3. ArraysTypeOK'
    BY <1>2 DEF IInv, TypeOK, ArraysTypeOK
  <1>4. /\ CallersTypeOK' /\ OthersStay(c) /\ pc'[c] \in {"peek_nsq", "idle"}
        /\ \A d \in Callers : LocalsOK(d)'
    BY <1>1, <1>2, LeaveUpdateTypes
  <1>5. LockOwned' /\ HolderCompletes' /\ HeapIntact' /\ TopPublished'
    BY <1>1, <1>2, <1>4, OutsideLock DEF InLock
  <1>6. h \in Callers \ {c} /\ pc[h] \in InLock /\ call[h].arr = a
    <2>1. h \in Callers
      BY <1>1 DEF IInv, TypeOK, ArraysTypeOK
    <2>2. pc[h] \in InLock /\ call[h].arr = a
      BY <1>1 DEF IInv, LockOwned
    <2> QED BY <1>1, <2>1, <2>2, PlacesDiffer
  <1>7. SpentHasUpdater'
    <2> SUFFICES ASSUME NEW b \in Arrays, mru[b] <= 0
                 PROVE  \E d \in Callers : call'[d].arr = b /\ pc'[d] \in Responsible
      BY <1>2 DEF SpentHasUpdater
    <2>1. PICK d \in Callers : call[d].arr = b /\ pc[d] \in Responsible
      BY DEF IInv, SpentHasUpdater
    <2>2. CASE d = c
      BY <1>4, <1>6, <2>1, <2>2, PlacesDiffer DEF OthersStay
    <2>3. CASE d # c
      BY <1>4, <2>1, <2>3 DEF OthersStay
    <2> QED BY <2>2, <2>3
  <1> QED BY <1>3, <1>4, <1>5, <1>7 DEF IInv, TypeOK

LEMMA RefillStep ==
  ASSUME IInv, NEW c \in Callers, Refill(c)
  PROVE  IInv'
  <1> DEFINE a == call[c].arr
  <1>1. pc[c] = "refill" /\ a \in Arrays
    BY DEF Refill, At, IInv, LocalsOK
  <1>2. /\ mru' = [mru EXCEPT ![a] = Mru]
        /\ UNCHANGED <<heap, top, lock, merit, stat>>
        /\ \/ Goto(c, "clear") /\ UNCHANGED <<call, upd, ncq, res>>
           \/ LeaveUpdate(c)
    BY DEF Refill
  <1>3. ArraysTypeOK'
    BY <1>1, <1>2, MruAssumption DEF MruAssumption, IInv, TypeOK, ArraysTypeOK
  <1>4. /\ CallersTypeOK' /\ OthersStay(c) /\ pc'[c] \notin InLock
        /\ \A d \in Callers : LocalsOK(d)'
    <2>1. CASE LeaveUpdate(c)
      BY <1>1, <2>1, LeaveUpdateTypes DEF InLock
    <2>2. CASE Goto(c, "clear") /\ UNCHANGED <<call, upd, ncq, res>>
      <3>1. CallersTypeOK' /\ OthersStay(c) /\ pc'[c] = "clear"
        BY <2>2 DEF Goto, IInv, TypeOK, CallersTypeOK, OthersStay, Places
      <3> QED BY <1>1, <2>2, <3>1 DEF IInv, LocalsOK, OthersStay, InLock
    <2> QED BY <1>2, <2>1, <2>2
  <1>5. LockOwned' /\ HolderCompletes' /\ HeapIntact' /\ TopPublished'
    BY <1>1, <1>2, <1>4, OutsideLock DEF InLock
  <1>6. SpentHasUpdater'
    <2> SUFFICES ASSUME NEW b \in Arrays, mru'[b] <= 0
                 PROVE  \E d \in Callers : call'[d].arr = b /\ pc'[d] \in Responsible
      BY DEF SpentHasUpdater
    <2>1. b # a /\ mru[b] <= 0
      BY <1>1, <1>2, MruAssumption DEF MruAssumption, IInv, TypeOK, ArraysTypeOK
    <2>2. PICK d \in Callers : call[d].arr = b /\ pc[d] \in Responsible
      BY <2>1 DEF IInv, SpentHasUpdater
    <2> QED BY <1>4, <2>1, <2>2 DEF OthersStay
  <1> QED BY <1>3, <1>4, <1>5, <1>6 DEF IInv, TypeOK

LEMMA ClearStep ==
  ASSUME IInv, NEW c \in Callers, Clear(c)
  PROVE  IInv'
  <1> DEFINE a == call[c].arr
             q == upd[c].old
  <1>1. pc[c] = "clear" /\ a \in Arrays /\ upd[c].merit \in Int
    BY DEF Clear, At, IInv, LocalsOK, TypeOK, CallersTypeOK
  <1>2. /\ merit' = [merit EXCEPT ![a][q] = upd[c].merit]
        /\ stat' = [stat EXCEPT ![a][q] = 0]
        /\ LeaveUpdate(c) /\ UNCHANGED <<heap, top, mru, lock>>
    BY DEF Clear
  <1>3. ArraysTypeOK'
    BY <1>1, <1>2 DEF IInv, TypeOK, ArraysTypeOK
  <1>4. /\ CallersTypeOK' /\ OthersStay(c) /\ pc'[c] \in {"peek_nsq", "idle"}
        /\ \A d \in Callers : LocalsOK(d)'
    BY <1>1, <1>2, LeaveUpdateTypes
  <1>5. LockOwned' /\ HolderCompletes' /\ HeapIntact' /\ TopPublished'
    BY <1>1, <1>2, <1>4, OutsideLock DEF InLock
  <1>6. SpentHasUpdater'
    BY <1>1, <1>2, <1>4, StillResponsible, PlacesDiffer
  <1> QED BY <1>3, <1>4, <1>5, <1>6 DEF IInv, TypeOK

(* The part of HolderCompletes that is about caller c. *)
Completes(c) ==
  LET a == call[c].arr
  IN  /\ pc[c] \in InLock \ {"swap"} => HoldsAll(heap[a], a)
      /\ pc[c] = "swap" => HoldsAll([heap[a] EXCEPT ![upd[c].son] = upd[c].tmp], a)
      /\ pc[c] = "unlock" => top[a] = heap[a][0]

(* A step of the lock's holder that keeps the lock is only seen by others  *)
(* through the array it holds, which none of them holds.                   *)
LEMMA InsideLock ==
  ASSUME IInv, NEW c \in Callers, OthersStay(c), UNCHANGED <<call, lock>>,
         pc[c] \in InLock, pc'[c] \in InLock, Completes(c)',
         \A b \in Arrays \ {call[c].arr} : heap'[b] = heap[b] /\ top'[b] = top[b]
  PROVE  LockOwned' /\ HolderCompletes' /\ HeapIntact' /\ TopPublished'
  <1>1. lock[call[c].arr] = c /\ call[c].arr \in Arrays /\ c # None
    BY ArrayTypes DEF IInv, LockOwned, LocalsOK, InLock
  <1>2. LockOwned'
    <2>1. \A d \in Callers : pc'[d] \in InLock => lock'[call'[d].arr] = d
      BY DEF IInv, LockOwned, OthersStay
    <2>2. ASSUME NEW b \in Arrays, lock'[b] # None
          PROVE  pc'[lock'[b]] \in InLock /\ call'[lock'[b]].arr = b
      <3>1. lock[b] \in Callers /\ pc[lock[b]] \in InLock /\ call[lock[b]].arr = b
        BY <2>2 DEF IInv, LockOwned, TypeOK, ArraysTypeOK
      <3> QED BY <3>1 DEF OthersStay
    <2> QED BY <2>1, <2>2 DEF LockOwned, InLock
  <1>3. HolderCompletes'
    <2> SUFFICES ASSUME NEW d \in Callers, pc'[d] \in InLock, d # c
                 PROVE  Completes(d)'
      BY DEF HolderCompletes, Completes, InLock
    <2>1. /\ pc'[d] = pc[d] /\ call'[d] = call[d] /\ upd'[d] = upd[d]
          /\ call[d].arr \in Arrays /\ lock[call[d].arr] = d
      BY DEF OthersStay, IInv, LockOwned, LocalsOK, InLock
    <2>2. call[d].arr \in Arrays \ {call[c].arr}
      BY <1>1, <2>1
    <2>3. Completes(d)
      BY DEF IInv, HolderCompletes, Completes
    <2> QED BY <2>1, <2>2, <2>3 DEF Completes, HoldsAll
  <1>4. HeapIntact' /\ TopPublished'
    <2> SUFFICES ASSUME NEW b \in Arrays, lock'[b] = None
                 PROVE  HoldsAll(heap'[b], b) /\ top'[b] = heap'[b][0]
      BY DEF HeapIntact, TopPublished, HoldsAll
    <2>1. lock[b] = None /\ heap'[b] = heap[b] /\ top'[b] = top[b]
      BY <1>1
    <2> QED BY <2>1 DEF IInv, HeapIntact, TopPublished
  <1> QED BY <1>2, <1>3, <1>4

LEMMA TryLockStep ==
  ASSUME IInv, NEW c \in Callers, TryLock(c)
  PROVE  IInv'
  <1> DEFINE a == call[c].arr
  <1>1. pc[c] = "lock" /\ a \in Arrays /\ lock[a] = None /\ c # None
    BY ArrayTypes DEF TryLock, At, IInv, LocalsOK
  <1>2. /\ lock' = [lock EXCEPT ![a] = c]
        /\ upd' = [upd EXCEPT ![c].old = top[a], ![c].merit = CalcMerit(a, top[a])]
        /\ pc' = [pc EXCEPT ![c] = "sift"]
        /\ UNCHANGED <<heap, top, mru, merit, stat, call, ncq, res>>
    BY DEF TryLock, Goto
  <1>3. top[a] \in Nat /\ CalcMerit(a, top[a]) \in Int
    BY <1>1, MembersAreNqs, MeritType DEF IInv, TypeOK, ArraysTypeOK
  <1>4. ArraysTypeOK'
    BY <1>1, <1>2 DEF IInv, TypeOK, ArraysTypeOK
  <1>5. CallersTypeOK'
    BY <1>2, <1>3 DEF IInv, TypeOK, CallersTypeOK, Places, Responsible, InLock
  <1>6. OthersStay(c) /\ pc'[c] = "sift" /\ call' = call
    BY <1>2 DEF IInv, TypeOK, CallersTypeOK, OthersStay
  <1>7. \A d \in Callers : LocalsOK(d)'
    <2>1. upd'[c].pos = upd[c].pos
      BY <1>2 DEF IInv, TypeOK, CallersTypeOK
    <2>2. upd[c].pos = 0
      BY <1>1 DEF IInv, LocalsOK
    <2>3. LocalsOK(c)'
      BY <1>1, <1>2, <1>6, <2>1, <2>2, MembersAreNqs DEF IInv, LocalsOK
    <2> QED BY <1>2, <1>6, <2>3 DEF IInv, LocalsOK, OthersStay
  <1>8. lock'[a] = c /\ \A b \in Arrays \ {a} : lock'[b] = lock[b]
    BY <1>1, <1>2 DEF IInv, TypeOK, ArraysTypeOK
  <1>9. LockOwned'
    <2>1. ASSUME NEW d \in Callers, pc'[d] \in InLock
          PROVE  lock'[call'[d].arr] = d
      <3>1. CASE d = c
        BY <1>6, <1>8, <3>1
      <3>2. CASE d # c
        <4>1. pc[d] \in InLock /\ lock[call[d].arr] = d /\ call[d].arr \in Arrays
          BY <1>6, <2>1, <3>2 DEF IInv, LockOwned, LocalsOK, OthersStay, InLock
        <4>2. call[d].arr # a
          BY <1>1, <4>1, ArrayTypes
        <4> QED BY <1>6, <1>8, <4>1, <4>2
      <3> QED BY <3>1, <3>2
    <2>2. ASSUME NEW b \in Arrays, lock'[b] # None
          PROVE  pc'[lock'[b]] \in InLock /\ call'[lock'[b]].arr = b
      <3>1. CASE b = a
        BY <1>6, <1>8, <3>1 DEF InLock
      <3>2. CASE b # a
        <4>1. /\ lock'[b] = lock[b] /\ lock[b] \in Callers
              /\ pc[lock[b]] \in InLock /\ call[lock[b]].arr = b
          BY <1>8, <2>2, <3>2 DEF IInv, LockOwned, TypeOK, ArraysTypeOK
        <4> QED BY <1>6, <3>2, <4>1 DEF OthersStay
      <3> QED BY <3>1, <3>2
    <2> QED BY <2>1, <2>2 DEF LockOwned, InLock
  <1>10. HolderCompletes'
    <2> SUFFICES ASSUME NEW d \in Callers, pc'[d] \in InLock PROVE Completes(d)'
      BY DEF HolderCompletes, Completes, InLock
    <2>1. CASE d = c
      <3>1. HoldsAll(heap[a], a)
        BY <1>1 DEF IInv, HeapIntact
      <3> QED BY <1>2, <1>6, <2>1, <3>1 DEF Completes, HoldsAll
    <2>2. CASE d # c
      <3>1. Completes(d) /\ pc'[d] = pc[d] /\ call'[d] = call[d] /\ upd'[d] = upd[d]
        BY <1>6, <2>2 DEF IInv, HolderCompletes, Completes, OthersStay
      <3> QED BY <1>2, <3>1 DEF Completes, HoldsAll
    <2> QED BY <2>1, <2>2
  <1>11. HeapIntact' /\ TopPublished'
    BY <1>1, <1>2, <1>8 DEF IInv, HeapIntact, TopPublished, HoldsAll
  <1>12. SpentHasUpdater'
    BY <1>1, <1>2, <1>6, StillResponsible, PlacesDiffer DEF InLock
  <1> QED BY <1>4, <1>5, <1>7, <1>9, <1>10, <1>11, <1>12 DEF IInv, TypeOK

LEMMA SiftStep ==
  ASSUME IInv, NEW c \in Callers, Sift(c)
  PROVE  IInv'
  <1> DEFINE a == call[c].arr
             i == upd[c].pos
             s == SonOf(a, i)
  <1>1. pc[c] = "sift" /\ a \in Arrays /\ i \in Slots(a) /\ i \in Nat
    BY DEF Sift, At, IInv, LocalsOK, TypeOK, CallersTypeOK
  <1>2. heap[a] \in [Slots(a) -> Members(a)] /\ HoldsAll(heap[a], a)
    BY <1>1 DEF IInv, TypeOK, ArraysTypeOK, HolderCompletes, InLock
  <1>3. UNCHANGED <<top, mru, lock, merit, stat, call, ncq, res>>
    BY DEF Sift
  <1>4. CASE SiftEnds(c)
    <2>1. /\ pc' = [pc EXCEPT ![c] = "publish"] /\ upd' = [upd EXCEPT ![c].pos = 0]
          /\ UNCHANGED heap
      BY <1>4 DEF Sift, Goto
    <2>2. ArraysTypeOK'
      BY <1>3, <2>1 DEF IInv, TypeOK, ArraysTypeOK
    <2>3. CallersTypeOK'
      BY <1>3, <2>1 DEF IInv, TypeOK, CallersTypeOK, Places, Responsible, InLock
    <2>4. OthersStay(c) /\ pc'[c] = "publish" /\ upd'[c].pos = 0
      BY <1>3, <2>1 DEF IInv, TypeOK, CallersTypeOK, OthersStay
    <2>5. \A d \in Callers : LocalsOK(d)'
      BY <1>1, <1>3, <2>4 DEF IInv, LocalsOK, OthersStay
    <2>6. Completes(c)'
      BY <1>2, <1>3, <2>1, <2>4 DEF Completes, HoldsAll
    <2>7. LockOwned' /\ HolderCompletes' /\ HeapIntact' /\ TopPublished'
      BY <1>1, <1>3, <2>1, <2>4, <2>6, InsideLock DEF InLock
    <2>8. SpentHasUpdater'
      BY <1>3, <2>4, StillResponsible DEF Responsible, InLock
    <2> QED BY <2>2, <2>3, <2>5, <2>7, <2>8 DEF IInv, TypeOK
  <1>5. CASE ~SiftEnds(c)
    <2>1. s \in Slots(a) /\ s \in Nat /\ heap[a][i] \in Members(a) /\ heap[a][i] \in Nat
      BY <1>1, <1>2, <1>5, SonIsSlot, MembersAreNqs DEF SiftEnds
    <2>2. /\ pc' = [pc EXCEPT ![c] = "swap"]
          /\ upd' = [upd EXCEPT ![c].tmp = heap[a][i], ![c].son = s]
          /\ heap' = [heap EXCEPT ![a][i] = heap[a][s]]
      BY <1>5 DEF Sift, Goto
    <2> HIDE DEF s
    <2>3. ArraysTypeOK'
      BY <1>1, <1>2, <1>3, <2>1, <2>2 DEF IInv, TypeOK, ArraysTypeOK
    <2>4. CallersTypeOK'
      BY <1>3, <2>1, <2>2 DEF IInv, TypeOK, CallersTypeOK, Places, Responsible, InLock
    <2>5. /\ OthersStay(c) /\ pc'[c] = "swap"
          /\ upd'[c].pos = i /\ upd'[c].tmp = heap[a][i] /\ upd'[c].son = s
      BY <1>3, <2>2 DEF IInv, TypeOK, CallersTypeOK, OthersStay
    <2>6. \A d \in Callers : LocalsOK(d)'
      BY <1>1, <1>3, <2>1, <2>5 DEF IInv, LocalsOK, OthersStay
    <2>7. /\ heap'[a] = [heap[a] EXCEPT ![i] = heap[a][s]]
          /\ \A b \in Arrays \ {a} : heap'[b] = heap[b]
      BY <1>1, <2>2 DEF IInv, TypeOK, ArraysTypeOK
    <2>8. HoldsAll([heap'[a] EXCEPT ![s] = heap[a][i]], a)
      BY <1>1, <1>2, <2>1, <2>7, SinkCompletes
    <2>9. Completes(c)'
      BY <1>3, <2>5, <2>8 DEF Completes, HoldsAll
    <2>10. LockOwned' /\ HolderCompletes' /\ HeapIntact' /\ TopPublished'
      BY <1>1, <1>3, <2>5, <2>7, <2>9, InsideLock DEF InLock
    <2>11. SpentHasUpdater'
      BY <1>3, <2>5, StillResponsible DEF Responsible, InLock
    <2> QED BY <2>3, <2>4, <2>6, <2>10, <2>11 DEF IInv, TypeOK
  <1> QED BY <1>4, <1>5

LEMMA SwapStep ==
  ASSUME IInv, NEW c \in Callers, Swap(c)
  PROVE  IInv'
  <1> DEFINE a == call[c].arr
             s == upd[c].son
  <1>1. /\ pc[c] = "swap" /\ a \in Arrays /\ s \in Slots(a) /\ s \in Nat
        /\ upd[c].tmp \in Members(a)
    BY DEF Swap, At, IInv, LocalsOK, TypeOK, CallersTypeOK
  <1>2. HoldsAll([heap[a] EXCEPT ![s] = upd[c].tmp], a)
    BY <1>1 DEF IInv, HolderCompletes
  <1>3. /\ heap' = [heap EXCEPT ![a][s] = upd[c].tmp]
        /\ upd' = [upd EXCEPT ![c].pos = s, ![c].son = 0, ![c].tmp = 0]
        /\ pc' = [pc EXCEPT ![c] = "sift"]
        /\ UNCHANGED <<top, mru, lock, merit, stat, call, ncq, res>>
    BY DEF Swap, Goto
  <1>4. ArraysTypeOK'
    BY <1>1, <1>3 DEF IInv, TypeOK, ArraysTypeOK
  <1>5. CallersTypeOK'
    <2>1. upd' = [upd EXCEPT ![c] = [upd[c] EXCEPT !.pos = s, !.son = 0, !.tmp = 0]]
      BY <1>3
    <2>2. pc' \in [Callers -> Places]
      BY <1>3 DEF IInv, TypeOK, CallersTypeOK, Places, Responsible, InLock
    <2> QED
      BY <1>1, <1>3, <2>1, <2>2 DEF IInv, TypeOK, CallersTypeOK
  <1>6. OthersStay(c) /\ pc'[c] = "sift" /\ upd'[c].pos = s
    BY <1>3 DEF IInv, TypeOK, CallersTypeOK, OthersStay
  <1>7. \A d \in Callers : LocalsOK(d)'
    BY <1>1, <1>3, <1>6 DEF IInv, LocalsOK, OthersStay
  <1>8. /\ heap'[a] = [heap[a] EXCEPT ![s] = upd[c].tmp]
        /\ \A b \in Arrays \ {a} : heap'[b] = heap[b]
    BY <1>1, <1>3 DEF IInv, TypeOK, ArraysTypeOK
  <1>9. Completes(c)'
    BY <1>2, <1>3, <1>6, <1>8 DEF Completes, HoldsAll
  <1>10. LockOwned' /\ HolderCompletes' /\ HeapIntact' /\ TopPublished'
    BY <1>1, <1>3, <1>6, <1>8, <1>9, InsideLock DEF InLock
  <1>11. SpentHasUpdater'
    BY <1>3, <1>6, StillResponsible DEF Responsible, InLock
  <1> QED BY <1>4, <1>5, <1>7, <1>10, <1>11 DEF IInv, TypeOK

LEMMA PublishStep ==
  ASSUME IInv, NEW c \in Callers, Publish(c)
  PROVE  IInv'
  <1> DEFINE a == call[c].arr
  <1>1. pc[c] = "publish" /\ a \in Arrays /\ heap[a] \in [Slots(a) -> Members(a)]
    BY DEF Publish, At, IInv, LocalsOK, TypeOK, ArraysTypeOK
  <1>2. HoldsAll(heap[a], a)
    BY <1>1 DEF IInv, HolderCompletes, InLock
  <1>3. /\ top' = [top EXCEPT ![a] = heap[a][0]]
        /\ upd' = [upd EXCEPT ![c].changed = heap[a][0] # upd[c].old]
        /\ pc' = [pc EXCEPT ![c] = "unlock"]
        /\ UNCHANGED <<heap, mru, lock, merit, stat, call, ncq, res>>
    BY DEF Publish, Goto
  <1>4. heap[a][0] \in Members(a)
    BY <1>1, MembersAreNqs
  <1>5. ArraysTypeOK'
    BY <1>1, <1>3, <1>4 DEF IInv, TypeOK, ArraysTypeOK
  <1>6. CallersTypeOK'
    BY <1>3 DEF IInv, TypeOK, CallersTypeOK, Places, Responsible, InLock
  <1>7. OthersStay(c) /\ pc'[c] = "unlock" /\ upd'[c].pos = upd[c].pos
    BY <1>3 DEF IInv, TypeOK, CallersTypeOK, OthersStay
  <1>8. \A d \in Callers : LocalsOK(d)'
    BY <1>1, <1>3, <1>7 DEF IInv, LocalsOK, OthersStay
  <1>9. top'[a] = heap[a][0] /\ \A b \in Arrays \ {a} : top'[b] = top[b]
    BY <1>1, <1>3 DEF IInv, TypeOK, ArraysTypeOK
  <1>10. Completes(c)'
    BY <1>2, <1>3, <1>7, <1>9 DEF Completes, HoldsAll
  <1>11. LockOwned' /\ HolderCompletes' /\ HeapIntact' /\ TopPublished'
    BY <1>1, <1>3, <1>7, <1>9, <1>10, InsideLock DEF InLock
  <1>12. SpentHasUpdater'
    BY <1>3, <1>7, StillResponsible DEF Responsible, InLock
  <1> QED BY <1>5, <1>6, <1>8, <1>11, <1>12 DEF IInv, TypeOK

LEMMA UnlockStep ==
  ASSUME IInv, NEW c \in Callers, Unlock(c)
  PROVE  IInv'
  <1> DEFINE a == call[c].arr
  <1>1. pc[c] = "unlock" /\ a \in Arrays /\ lock[a] = c /\ c # None
    BY ArrayTypes DEF Unlock, At, IInv, LocalsOK, LockOwned, InLock
  <1>2. /\ lock' = [lock EXCEPT ![a] = None]
        /\ pc' = [pc EXCEPT ![c] = "refill"]
        /\ UNCHANGED <<heap, top, mru, merit, stat, call, upd, ncq, res>>
    BY DEF Unlock, Goto
  <1>3. HoldsAll(heap[a], a) /\ top[a] = heap[a][0]
    BY <1>1 DEF IInv, HolderCompletes, InLock
  <1>4. ArraysTypeOK'
    BY <1>1, <1>2 DEF IInv, TypeOK, ArraysTypeOK
  <1>5. CallersTypeOK'
    BY <1>2 DEF IInv, TypeOK, CallersTypeOK, Places, Responsible
  <1>6. OthersStay(c) /\ pc'[c] = "refill"
    BY <1>2 DEF IInv, TypeOK, CallersTypeOK, OthersStay
  <1>7. \A d \in Callers : LocalsOK(d)'
    BY <1>1, <1>2, <1>6 DEF IInv, LocalsOK, OthersStay
  <1>8. lock'[a] = None /\ \A b \in Arrays \ {a} : lock'[b] = lock[b]
    BY <1>1, <1>2 DEF IInv, TypeOK, ArraysTypeOK
  <1>9. LockOwned'
    <2>1. ASSUME NEW d \in Callers, pc'[d] \in InLock
          PROVE  lock'[call'[d].arr] = d
      <3>1. d # c /\ pc[d] \in InLock /\ call'[d] = call[d]
        BY <1>2, <1>6, <2>1, PlacesDiffer DEF OthersStay
      <3>2. lock[call[d].arr] = d /\ call[d].arr \in Arrays
        BY <3>1 DEF IInv, LockOwned, LocalsOK, InLock
      <3> QED BY <1>1, <1>8, <3>1, <3>2
    <2>2. ASSUME NEW b \in Arrays, lock'[b] # None
          PROVE  pc'[lock'[b]] \in InLock /\ call'[lock'[b]].arr = b
      <3>1. b # a /\ lock'[b] = lock[b]
        BY <1>8, <2>2
      <3>2. lock[b] \in Callers /\ pc[lock[b]] \in InLock /\ call[lock[b]].arr = b
        BY <2>2, <3>1 DEF IInv, LockOwned, TypeOK, ArraysTypeOK
      <3> QED BY <1>2, <1>6, <3>1, <3>2 DEF OthersStay
    <2> QED BY <2>1, <2>2 DEF LockOwned, InLock
  <1>10. HolderCompletes'
    <2> SUFFICES ASSUME NEW d \in Callers, pc'[d] \in InLock PROVE Completes(d)'
      BY DEF HolderCompletes, Completes, InLock
    <2>1. pc'[d] = pc[d] /\ Completes(d)
      BY <1>6, PlacesDiffer DEF OthersStay, IInv, HolderCompletes, Completes
    <2> QED BY <1>2, <2>1 DEF Completes, HoldsAll
  <1>11. HeapIntact' /\ TopPublished'
    <2> SUFFICES ASSUME NEW b \in Arrays, lock'[b] = None
                 PROVE  HoldsAll(heap[b], b) /\ top[b] = heap[b][0]
      BY <1>2 DEF HeapIntact, TopPublished, HoldsAll
    <2>1. CASE b = a
      BY <1>3, <2>1
    <2>2. CASE b # a
      BY <1>8, <2>2 DEF IInv, HeapIntact, TopPublished
    <2> QED BY <2>1, <2>2
  <1>12. SpentHasUpdater'
    BY <1>2, <1>6, StillResponsible DEF Responsible
  <1> QED BY <1>4, <1>5, <1>7, <1>9, <1>10, <1>11, <1>12 DEF IInv, TypeOK

-----------------------------------------------------------------------------
(* The invariant and what follows from it. *)

LEMMA InitIInv == Init => IInv
  <1> SUFFICES ASSUME Init PROVE IInv
    OBVIOUS
  <1>1. ASSUME NEW a \in Arrays PROVE HoldsAll(InitHeap[a], a)
    BY DEF HoldsAll, Slots, Members, Range
  <1>2. ArraysTypeOK
    <2>1. InitHeap = [a \in Arrays |-> InitHeap[a]]
      BY TopologyAssumption DEF TopologyAssumption
    <2> QED
      BY <2>1, MembersAreNqs, ArrayTypes, MruAssumption DEF Init, ArraysTypeOK, MruAssumption
  <1>3. CallersTypeOK
    BY ArrayTypes DEF Init, CallersTypeOK, Places, Idle, NoUpd
  <1>4. \A c \in Callers : LocalsOK(c)
    BY DEF Init, LocalsOK, NoUpd
  <1>5. LockOwned /\ HolderCompletes
    BY DEF Init, LockOwned, HolderCompletes, InLock
  <1>6. HeapIntact /\ TopPublished /\ SpentHasUpdater
    BY <1>1, MruAssumption DEF Init, HeapIntact, TopPublished, SpentHasUpdater, MruAssumption
  <1> QED BY <1>2, <1>3, <1>4, <1>5, <1>6 DEF IInv, TypeOK

LEMMA NextIInv == IInv /\ [Next]_vars => IInv'
  <1> SUFFICES ASSUME IInv, [Next]_vars PROVE IInv'
    OBVIOUS
  <1>1. CASE UNCHANGED vars
    <2>1. TypeOK' /\ \A c \in Callers : LocalsOK(c)'
      BY <1>1 DEF vars, IInv, TypeOK, ArraysTypeOK, CallersTypeOK, LocalsOK
    <2>2. LockOwned' /\ SpentHasUpdater'
      BY <1>1 DEF vars, IInv, LockOwned, SpentHasUpdater
    <2>3. HolderCompletes'
      BY <1>1 DEF vars, IInv, HolderCompletes, HoldsAll
    <2>4. HeapIntact' /\ TopPublished'
      BY <1>1 DEF vars, IInv, HeapIntact, TopPublished, HoldsAll
    <2> QED BY <2>1, <2>2, <2>3, <2>4 DEF IInv
  <1>2. ASSUME NEW c \in Callers, Start(c) PROVE IInv'
    BY <1>2, PeekNcqStep DEF Start
  <1>3. ASSUME NEW c \in Callers, Step(c) PROVE IInv'
    BY <1>3, PeekNsqStep, ChargeStep, TryLockFailStep, TryLockStep, SiftStep,
       SwapStep, PublishStep, UnlockStep, RefillStep, ClearStep DEF Step
  <1>4. CASE \E a \in NcqArrays : \E q \in Members(a), s \in Stats : Complete(a, q, s)
    BY <1>4, CompleteStep
  <1> QED BY <1>1, <1>2, <1>3, <1>4 DEF Next

THEOREM Invariance == Spec => []IInv
  BY InitIInv, NextIInv, PTL DEF Spec

(* The variables keep their types, in particular top_nq always points into *)
(* its array (blk_blex_update_priority_array()).                           *)
THEOREM TypeCorrectness == Spec => []TypeOK
  <1>1. IInv => TypeOK
    BY DEF IInv
  <1> QED BY Invariance, <1>1, PTL

(* However calls overlap, rotations never lose or duplicate an NQ.         *)
THEOREM NoNqLost == Spec => []HeapIntact
  <1>1. IInv => HeapIntact
    BY DEF IInv
  <1> QED BY Invariance, <1>1, PTL

(* The lock-free peek and the heap agree when no rotation is under way.    *)
THEOREM PeekSeesTop == Spec => []TopPublished
  <1>1. IInv => TopPublished
    BY DEF IInv
  <1> QED BY Invariance, <1>1, PTL

(* Returning after a failed spin_trylock() never strands a spent array.    *)
THEOREM TryLockIsEnough == Spec => []SpentHasUpdater
  <1>1. IInv => SpentHasUpdater
    BY DEF IInv
  <1> QED BY Invariance, <1>1, PTL

-----------------------------------------------------------------------------
(* Charging, giving up and refilling implement BlexMru.                    *)

(* A step that neither changes mru nor who is responsible is a stutter.    *)
LEMMA SameResponsibility ==
  ASSUME NEW c \in Callers, OthersStay(c), UNCHANGED mru,
         pc[c] \in Responsible <=> pc'[c] \in Responsible,
         pc[c] \in Responsible => call'[c].arr = call[c].arr
  PROVE  UNCHANGED AbsMru!mvars
  <1>1. \A a \in Arrays : ResponsibleFor(a)' = ResponsibleFor(a)
    BY DEF ResponsibleFor, OthersStay
  <1> QED BY <1>1 DEF AbsMru!mvars

LEMMA ChargeRefines ==
  ASSUME IInv, NEW c \in Callers, Charge(c)
  PROVE  AbsMru!MNext
  <1> DEFINE a   == call[c].arr
             sub == mru[a] - ChargeOf(c)
             new == IF sub < MruFloor THEN MruFloor ELSE sub
  <1>1. pc[c] = "charge" /\ a \in Arrays
    BY DEF Charge, At, IInv, LocalsOK
  <1>2. new \in Int /\ new <= mru[a]
    BY <1>1, MruAssumption DEF MruAssumption, ChargeOf, IInv, TypeOK, ArraysTypeOK
  <1>3. /\ mru' = [mru EXCEPT ![a] = new]
        /\ \/ new <= 0 /\ Goto(c, "lock") /\ UNCHANGED <<call, upd, ncq, res>>
           \/ ~(new <= 0) /\ LeaveUpdate(c)
    BY DEF Charge
  <1> HIDE DEF new
  <1>4. mru'[a] = new
    BY <1>1, <1>3 DEF IInv, TypeOK, ArraysTypeOK
  <1>5. CASE new <= 0 /\ Goto(c, "lock") /\ UNCHANGED <<call, upd, ncq, res>>
    <2>1. OthersStay(c) /\ pc'[c] = "lock" /\ call'[c].arr = a
      BY <1>5 DEF Goto, IInv, TypeOK, CallersTypeOK, OthersStay
    <2>2. \A b \in Arrays :
            ResponsibleFor(b)' = IF b = a THEN ResponsibleFor(b) \cup {c} ELSE ResponsibleFor(b)
      BY <1>1, <2>1, PlacesDiffer DEF ResponsibleFor, OthersStay, Responsible
    <2>3. AbsMru!MCharge(c, a)
      BY <1>1, <1>2, <1>3, <1>4, <1>5, <2>2 DEF AbsMru!MCharge
    <2> QED BY <1>1, <2>3 DEF AbsMru!MNext
  <1>6. CASE ~(new <= 0) /\ LeaveUpdate(c)
    <2>1. OthersStay(c) /\ pc'[c] \in {"peek_nsq", "idle"}
      BY <1>1, <1>6, LeaveUpdateTypes
    <2>2. \A b \in Arrays : ResponsibleFor(b)' = ResponsibleFor(b)
      BY <1>1, <2>1, PlacesDiffer DEF ResponsibleFor, OthersStay
    <2>3. AbsMru!MCharge(c, a)
      BY <1>1, <1>2, <1>3, <1>4, <1>6, <2>2 DEF AbsMru!MCharge
    <2> QED BY <1>1, <2>3 DEF AbsMru!MNext
  <1> QED BY <1>3, <1>5, <1>6

LEMMA TryLockFailRefines ==
  ASSUME IInv, NEW c \in Callers, TryLockFail(c)
  PROVE  AbsMru!MNext
  <1> DEFINE a == call[c].arr
             h == lock[a]
  <1>1. pc[c] = "lock" /\ a \in Arrays /\ h # None
    BY DEF TryLockFail, At, IInv, LocalsOK
  <1>2. LeaveUpdate(c) /\ UNCHANGED mru
    BY DEF TryLockFail
  <1>3. OthersStay(c) /\ pc'[c] \in {"peek_nsq", "idle"}
    BY <1>1, <1>2, LeaveUpdateTypes
  <1>4. h \in Callers
    BY <1>1 DEF IInv, TypeOK, ArraysTypeOK
  <1>5. pc[h] \in InLock /\ call[h].arr = a
    BY <1>1 DEF IInv, LockOwned
  <1>6. h \in ResponsibleFor(a) /\ h # c /\ c \in ResponsibleFor(a)
    BY <1>1, <1>4, <1>5, PlacesDiffer DEF ResponsibleFor, Responsible
  <1>7. \A b \in Arrays :
          ResponsibleFor(b)' = IF b = a THEN ResponsibleFor(b) \ {c} ELSE ResponsibleFor(b)
    BY <1>1, <1>3, PlacesDiffer DEF ResponsibleFor, OthersStay
  <1>8. AbsMru!MWithdraw(c, a)
    BY <1>1, <1>2, <1>6, <1>7 DEF AbsMru!MWithdraw
  <1> QED BY <1>1, <1>8 DEF AbsMru!MNext

LEMMA RefillRefines ==
  ASSUME IInv, NEW c \in Callers, Refill(c)
  PROVE  AbsMru!MNext
  <1> DEFINE a == call[c].arr
  <1>1. pc[c] = "refill" /\ a \in Arrays
    BY DEF Refill, At, IInv, LocalsOK
  <1>2. /\ mru' = [mru EXCEPT ![a] = Mru]
        /\ \/ Goto(c, "clear") /\ UNCHANGED <<call, upd, ncq, res>>
           \/ LeaveUpdate(c)
    BY DEF Refill
  <1>3. OthersStay(c) /\ pc'[c] \notin Responsible
    <2>1. CASE LeaveUpdate(c)
      BY <1>1, <2>1, LeaveUpdateTypes, PlacesDiffer
    <2>2. CASE Goto(c, "clear") /\ UNCHANGED <<call, upd, ncq, res>>
      BY <2>2, PlacesDiffer DEF Goto, IInv, TypeOK, CallersTypeOK, OthersStay
    <2> QED BY <1>2, <2>1, <2>2
  <1>4. \A b \in Arrays :
          ResponsibleFor(b)' = IF b = a THEN ResponsibleFor(b) \ {c} ELSE ResponsibleFor(b)
    BY <1>3 DEF ResponsibleFor, OthersStay
  <1>5. c \in ResponsibleFor(a)
    BY <1>1 DEF ResponsibleFor, Responsible
  <1>6. AbsMru!MRefill(c, a)
    BY <1>1, <1>2, <1>4, <1>5 DEF AbsMru!MRefill
  <1> QED BY <1>1, <1>6 DEF AbsMru!MNext

(* Every other step is a stutter of BlexMru. *)
LEMMA OtherStepsStutter ==
  ASSUME IInv, NEW c \in Callers,
         \/ Start(c) \/ PeekNsq(c) \/ TryLock(c) \/ Sift(c) \/ Swap(c)
         \/ Publish(c) \/ Unlock(c) \/ Clear(c)
  PROVE  UNCHANGED AbsMru!mvars
  <1> USE PlacesDiffer DEF IInv, TypeOK, CallersTypeOK
  <1>1. CASE Start(c)
    <2>1. OthersStay(c) /\ pc[c] = "idle" /\ pc'[c] = "charge" /\ UNCHANGED mru
      BY <1>1 DEF Start, PeekNcq, At, Goto, OthersStay
    <2> QED BY <2>1, SameResponsibility
  <1>2. CASE PeekNsq(c)
    <2>1. OthersStay(c) /\ pc[c] = "peek_nsq" /\ pc'[c] = "charge" /\ UNCHANGED mru
      BY <1>2 DEF PeekNsq, At, Goto, OthersStay
    <2> QED BY <2>1, SameResponsibility
  <1>3. CASE TryLock(c) \/ Sift(c) \/ Swap(c) \/ Publish(c) \/ Unlock(c)
    <2>1. OthersStay(c) /\ UNCHANGED <<call, mru>>
      BY <1>3 DEF TryLock, Sift, Swap, Publish, Unlock, Goto, OthersStay
    <2>2. pc[c] \in Responsible /\ pc'[c] \in Responsible
      BY <1>3 DEF TryLock, Sift, Swap, Publish, Unlock, At, Goto, Responsible, InLock
    <2> QED BY <2>1, <2>2, SameResponsibility
  <1>4. CASE Clear(c)
    <2>1. LeaveUpdate(c) /\ pc[c] = "clear" /\ UNCHANGED mru
      BY <1>4 DEF Clear, At
    <2>2. OthersStay(c) /\ pc'[c] \in {"peek_nsq", "idle"}
      BY <2>1, LeaveUpdateTypes
    <2> QED BY <2>1, <2>2, SameResponsibility
  <1> QED BY <1>1, <1>2, <1>3, <1>4

(* blk_blex_update_priority_array() keeps the promise of BlexMru: charges  *)
(* make responsible, and only the last responsible caller may not leave    *)
(* without a refill.                                                       *)
THEOREM Refinement == Spec => ImplementsMru
  <1>1. Init => AbsMru!MInit
    BY DEF Init, AbsMru!MInit, ResponsibleFor, Responsible, InLock
  <1>2. IInv /\ [Next]_vars => [AbsMru!MNext]_(AbsMru!mvars)
    <2> SUFFICES ASSUME IInv, [Next]_vars PROVE AbsMru!MNext \/ UNCHANGED AbsMru!mvars
      OBVIOUS
    <2>1. CASE UNCHANGED vars
      BY <2>1 DEF vars, AbsMru!mvars, ResponsibleFor
    <2>2. ASSUME NEW c \in Callers, Start(c) PROVE UNCHANGED AbsMru!mvars
      BY <2>2, OtherStepsStutter
    <2>3. ASSUME NEW c \in Callers, Step(c)
          PROVE  AbsMru!MNext \/ UNCHANGED AbsMru!mvars
      BY <2>3, ChargeRefines, TryLockFailRefines, RefillRefines, OtherStepsStutter DEF Step
    <2>4. CASE \E a \in NcqArrays : \E q \in Members(a), s \in Stats : Complete(a, q, s)
      BY <2>4 DEF Complete, AbsMru!mvars, ResponsibleFor
    <2> QED BY <2>1, <2>2, <2>3, <2>4 DEF Next
  <1> QED BY <1>1, <1>2, Invariance, PTL DEF Spec, ImplementsMru, AbsMru!MSpec

(* BlexMru keeps a responsible caller for each spent array. *)
LEMMA AbstractPromise == AbsMru!MSpec => [](AbsMru!MTypeOK /\ AbsMru!SpentHasResponsible)
  <1> DEFINE MInv == AbsMru!MTypeOK /\ AbsMru!SpentHasResponsible
  <1>1. AbsMru!MInit => MInv
    BY MruAssumption DEF AbsMru!MInit, AbsMru!MTypeOK, AbsMru!SpentHasResponsible
  <1>2. MInv /\ [AbsMru!MNext]_(AbsMru!mvars) => MInv'
    <2> SUFFICES ASSUME MInv, [AbsMru!MNext]_(AbsMru!mvars) PROVE MInv'
      OBVIOUS
    <2>1. CASE UNCHANGED AbsMru!mvars
      BY <2>1 DEF AbsMru!mvars, AbsMru!MTypeOK, AbsMru!SpentHasResponsible
    <2>2. ASSUME NEW a \in Arrays, NEW c \in Callers, AbsMru!MCharge(c, a) PROVE MInv'
      BY <2>2 DEF AbsMru!MCharge, AbsMru!MTypeOK, AbsMru!SpentHasResponsible
    <2>3. ASSUME NEW a \in Arrays, NEW c \in Callers, AbsMru!MWithdraw(c, a) PROVE MInv'
      BY <2>3 DEF AbsMru!MWithdraw, AbsMru!MTypeOK, AbsMru!SpentHasResponsible
    <2>4. ASSUME NEW a \in Arrays, NEW c \in Callers, AbsMru!MRefill(c, a) PROVE MInv'
      <3> DEFINE resp == [b \in Arrays |-> ResponsibleFor(b)]
      <3>1. /\ mru' = [mru EXCEPT ![a] = Mru] /\ resp' = [resp EXCEPT ![a] = resp[a] \ {c}]
            /\ mru \in [Arrays -> Int] /\ resp \in [Arrays -> SUBSET Callers]
            /\ \A b \in Arrays : mru[b] <= 0 => resp[b] # {}
        BY <2>4 DEF AbsMru!MRefill, AbsMru!MTypeOK, AbsMru!SpentHasResponsible
      <3> HIDE DEF resp
      <3>2. mru' \in [Arrays -> Int] /\ resp' \in [Arrays -> SUBSET Callers] /\ mru'[a] > 0
        BY <3>1, MruAssumption
      <3>3. \A b \in Arrays : mru'[b] <= 0 => resp'[b] # {}
        BY <3>1, <3>2
      <3> QED
        BY <3>2, <3>3 DEF AbsMru!MTypeOK, AbsMru!SpentHasResponsible, resp
    <2> QED BY <2>1, <2>2, <2>3, <2>4 DEF AbsMru!MNext
  <1> QED BY <1>1, <1>2, PTL DEF AbsMru!MSpec

(* So what BlexMru promises holds of the scheduler: whoever spends the     *)
(* last credit of an array, or finds it spent, refills it or leaves        *)
(* somebody who will (the trylock of blk_blex_update_priority_array()).    *)
THEOREM MruPromise == Spec => [](AbsMru!MTypeOK /\ AbsMru!SpentHasResponsible)
  BY Refinement, AbstractPromise DEF ImplementsMru
=============================================================================
