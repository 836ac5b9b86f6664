-------------------------- MODULE NvmeQueue_proofs --------------------------
(***************************************************************************)
(* For any submission queues on a completion queue, any depth and any way  *)
(* of driving them: the phase bit tells new entries, no doorbell is lost,  *)
(* a missed interrupt is found, and every command goes to the device and   *)
(* comes back once.                                                        *)
(***************************************************************************)
EXTENDS NvmeQueue, WellFoundedInduction, FiniteSetTheorems, TLAPS

(* How far b is ahead of a on a ring. *)
Dist(a, b) == IF a <= b THEN b - a ELSE b - a + Depth

Entry == [tag : Tags, sq : Sqs]

RequestTypes ==
  /\ rq \in [Tags -> [st : {"idle", "listed", "flight"}, sq : Sqs \cup {None}, aborted : BOOLEAN]]
  /\ batch \in [list : Seq(Entry), ready : Seq(Entry)]
RingTypes ==
  /\ tail \in [Sqs -> Slots] /\ last \in [Sqs -> Slots]
  /\ mem \in [Sqs -> [Slots -> Tags \cup {None}]]
  /\ lock \in [Sqs -> {"free", "event"}] /\ owed \in [Sqs -> BOOLEAN]
BellTypes ==
  /\ shadow \in [Bells -> Slots] /\ old \in [Bells -> Slots]
  /\ ei \in [Bells -> Slots] /\ seen \in [Bells -> Slots]
  /\ sleep \in [Bells -> {"awake", "armed", "asleep"}]
CtrlTypes ==
  /\ fetch \in [Sqs -> Slots] /\ inside \subseteq Tags
  /\ cqe \in [Slots -> [tag : Tags \cup {None}, phase : {0, 1}]]
  /\ post \in [at : Slots, phase : {0, 1}]
ConsumerTypes ==
  /\ head \in [at : Slots, phase : {0, 1}]
  /\ cpc \in [Consumers -> {"idle", "look", "handle", "event"}]
  /\ irq \in BOOLEAN /\ masked \in BOOLEAN /\ polling \in BOOLEAN
TimeTypes ==
  /\ late \in [tag : Tags \cup {None}, pc : {"idle", "poll", "decide"}, posted : BOOLEAN]
  /\ aborts \in 0 .. setup.limit /\ lost \in 0 .. setup.lost /\ stopped \in BOOLEAN
Typed ==
  /\ setup \in Setups
  /\ RequestTypes /\ RingTypes /\ BellTypes /\ CtrlTypes /\ ConsumerTypes /\ TimeTypes

(* One consumer of the completion queue at a time: the timeout handler has *)
(* masked the vector and waited for the handler, or holds cq_poll_lock.    *)
Alone ==
  /\ setup.polled => /\ cpc["irq"] = "idle" /\ (cpc["poll"] = "idle" \/ cpc["timeout"] = "idle")
                     /\ polling <=> (cpc["poll"] # "idle" \/ cpc["timeout"] # "idle")
  /\ ~setup.polled => /\ cpc["poll"] = "idle" /\ (masked => cpc["irq"] = "idle")
                      /\ masked <=> cpc["timeout"] # "idle"
  /\ \A c \in Consumers : /\ cpc[c] = "look" => c = "timeout"
                          /\ cpc[c] = "event" => Cq \in setup.shadow /\ shadow[Cq] = head.at
                          /\ cpc[c] = "handle" => head.at # post.at
  /\ cpc["timeout"] # "idle" <=> late.pc = "poll"
  /\ late.pc # "idle" => late.tag \in Tags

(* What the controller knows, what it could read, the driver's head and    *)
(* the controller's tail follow each other around the completion queue.    *)
PhaseAt(h, i) == IF i >= h.at THEN h.phase ELSE 1 - h.phase
CqInv ==
  /\ Dist(seen[Cq], head.at) <= Dist(seen[Cq], post.at)
  /\ Cq \notin setup.shadow => sleep[Cq] = "awake"
  /\ Cq \in setup.shadow => Dist(seen[Cq], shadow[Cq]) <= Dist(seen[Cq], head.at)
  /\ post.phase = PhaseAt(head, post.at)
  /\ \A i \in Slots : i \in Unhandled <=> cqe[i].phase = PhaseAt(head, i)

(* The same of a submission queue; and what a doorbell left unrung means.  *)
SqOk(q) ==
  /\ Dist(fetch[q], seen[q]) <= Dist(fetch[q], tail[q])
  /\ q \notin setup.shadow => seen[q] = last[q] /\ lock[q] = "free" /\ sleep[q] = "awake"
  /\ q \in setup.shadow =>
       /\ Dist(fetch[q], seen[q]) <= Dist(fetch[q], shadow[q])
       /\ Dist(fetch[q], shadow[q]) <= Dist(fetch[q], tail[q])
       /\ shadow[q] = IF lock[q] = "event" THEN tail[q] ELSE last[q]
       /\ sleep[q] # "awake" => ei[q] = seen[q]
       /\ sleep[q] = "asleep" => seen[q] = shadow[q] \/ (lock[q] = "event" /\ seen[q] = old[q])
  /\ lock[q] = "free" /\ ~owed[q] => last[q] = tail[q]
SqInv == \A q \in Sqs : SqOk(q)

(* A command is in one place: prepared, in its ring, with the controller   *)
(* or answered.                                                            *)
QueuedOk ==
  \A q \in Sqs :
    /\ \A i \in Unfetched(q) : /\ mem[q][i] \in Tags
                               /\ rq[mem[q][i]].st = "flight" /\ rq[mem[q][i]].sq = q
    /\ \A i, j \in Unfetched(q) : mem[q][i] = mem[q][j] => i = j
InsideOk == \A t \in inside : rq[t].st = "flight" /\ t \notin Queued(rq[t].sq)
PostedOk ==
  /\ \A i \in Unhandled : cqe[i].tag \in Tags
  /\ \A i, j \in Unhandled : cqe[i].tag = cqe[j].tag => i = j
  /\ \A t \in Posted : rq[t].st = "flight" /\ t \notin inside /\ t \notin Queued(rq[t].sq)
ReadyOk ==
  /\ \A k \in DOMAIN batch.ready :
       LET r == batch.ready[k] IN
       /\ rq[r.tag].st = "flight" /\ rq[r.tag].sq = r.sq /\ r.sq = batch.ready[1].sq
       /\ r.tag \notin Posted /\ r.tag \notin inside /\ r.tag \notin Queued(r.sq)
  /\ \A k, l \in DOMAIN batch.ready : batch.ready[k].tag = batch.ready[l].tag => k = l
  /\ batch.ready # <<>> => batch.list # <<>> /\ batch.list[1].sq = batch.ready[1].sq
ListOk ==
  /\ \A k \in DOMAIN batch.list : rq[batch.list[k].tag].st = "listed"
  /\ \A k, l \in DOMAIN batch.list : batch.list[k].tag = batch.list[l].tag => k = l
NoneLost ==
  \A t \in Tags : rq[t].st = "flight" =>
    /\ rq[t].sq \in Sqs
    /\ t \in Posted \/ t \in inside \/ t \in Queued(rq[t].sq) \/ t \in Prepared
TagInv == QueuedOk /\ InsideOk /\ PostedOk /\ ReadyOk /\ ListOk /\ NoneLost

(* What the timeout handler saw posted stays posted until it is handled;   *)
(* and the tag it works for is not handed out again.                       *)
LateInv ==
  late.pc # "idle" =>
    /\ rq[late.tag].st # "listed"
    /\ late.posted /\ rq[late.tag].st = "flight" =>
         cpc["timeout"] \in {"look", "handle"} /\ late.tag \in Posted

QInv == Typed /\ Alone /\ CqInv /\ SqInv /\ TagInv /\ LateInv

-----------------------------------------------------------------------------
(* Arithmetic on rings and on 16-bit doorbell values.                      *)
LEMMA Sizes ==
  /\ Depth \in Nat /\ Depth >= 2 /\ Depth < Width /\ Width \in Nat
  /\ 0 \in Slots /\ Cq \notin Sqs /\ None \notin Tags
  <1>1. Width = 65536
    BY DEF Width
  <1>2. Depth \in Nat /\ Depth >= 2 /\ Depth < Width /\ Cq \notin Sqs /\ None \notin Tags
    BY SMTT(30), <1>1, QueueAssumption
  <1> QED
    BY <1>1, <1>2 DEF Slots

LEMMA ProductBound ==
  ASSUME NEW d \in Nat, NEW q \in Int
  PROVE  /\ q >= 1 => d * q >= d
         /\ q >= 2 => d * q >= d + d
         /\ q <= -1 => d * q <= -d
  <1>1. CASE q >= 1
    <2>1. d * q = d + d * (q - 1)
      OBVIOUS
    <2>2. d * (q - 1) >= 0
      BY <1>1
    <2>3. CASE q >= 2
      <3>1. d * (q - 1) = d + d * (q - 2)
        OBVIOUS
      <3>2. d * (q - 2) >= 0
        BY <2>3
      <3> QED
        BY <2>1, <3>1, <3>2
    <2> QED
      BY <1>1, <2>1, <2>2, <2>3
  <1>2. CASE q <= -1
    <2>1. d * q = d * (q + 1) - d
      OBVIOUS
    <2>2. d * (q + 1) <= 0
      BY <1>2
    <2> QED
      BY <1>2, <2>1, <2>2
  <1> QED
    BY <1>1, <1>2

LEMMA Remainder ==
  ASSUME NEW d \in Nat \ {0}, NEW x \in Int, -d <= x, x < d + d
  PROVE  x % d = IF x < 0 THEN x + d ELSE IF x < d THEN x ELSE x - d
  <1> DEFINE q == x \div d
             r == x % d
  <1>1. q \in Int /\ r \in 0 .. d - 1 /\ x = d * q + r
    OBVIOUS
  <1> HIDE DEF q, r
  <1>2. CASE x < 0
    <2>1. q < 0
      BY <1>1, <1>2, ProductBound
    <2>2. ~(q <= -2)
      <3>1. ASSUME q <= -2 PROVE d * q <= -d - d
        <4>1. d * (q + 1) <= -d
          BY <1>1, <3>1, ProductBound
        <4>2. d * q = d * (q + 1) - d
          BY <1>1
        <4> QED
          BY <4>1, <4>2, <1>1
      <3> QED
        BY <1>1, <3>1
    <2>3. q = -1
      BY <1>1, <2>1, <2>2
    <2>4. d * q = -d
      BY <2>3
    <2> QED
      BY <1>1, <1>2, <2>4 DEF r
  <1>3. CASE 0 <= x /\ x < d
    <2>1. q = 0
      BY <1>1, <1>3, ProductBound
    <2>2. d * q = 0
      BY <2>1
    <2> QED
      BY <1>1, <1>3, <2>2 DEF r
  <1>4. CASE d <= x
    <2>1. q = 1
      <3>1. ~(q <= 0)
        <4>1. q <= 0 => d * q <= 0
          BY <1>1
        <4> QED
          BY <1>1, <1>4, <4>1
      <3>2. ~(q >= 2)
        BY <1>1, <1>4, ProductBound
      <3> QED
        BY <1>1, <3>1, <3>2
    <2>2. d * q = d
      BY <2>1
    <2> QED
      BY <1>1, <1>4, <2>2 DEF r
  <1> QED
    BY <1>2, <1>3, <1>4

LEMMA AdvanceType ==
  ASSUME NEW i \in Slots
  PROVE  Advance(i) \in Slots
  BY Sizes DEF Slots, Advance

LEMMA DistType ==
  ASSUME NEW a \in Slots, NEW b \in Slots
  PROVE  Dist(a, b) \in Slots /\ Dist(a, a) = 0 /\ (Dist(a, b) = 0 <=> a = b)
         /\ Dist(a, b) \in Nat
  BY Sizes DEF Slots, Dist

LEMMA DistSplit ==
  ASSUME NEW a \in Slots, NEW b \in Slots, NEW c \in Slots
  PROVE  Dist(a, b) + Dist(b, c) = Dist(a, c) \/ Dist(a, b) + Dist(b, c) = Dist(a, c) + Depth
  <1>1. a \in Int /\ b \in Int /\ c \in Int /\ Depth \in Int
    BY Sizes DEF Slots
  <1>2. CASE a <= b /\ b <= c
    BY <1>1, <1>2 DEF Dist
  <1>3. CASE a <= b /\ ~(b <= c)
    BY <1>1, <1>3 DEF Dist
  <1>4. CASE ~(a <= b) /\ b <= c
    BY <1>1, <1>4 DEF Dist
  <1>5. CASE ~(a <= b) /\ ~(b <= c)
    BY <1>1, <1>5 DEF Dist
  <1> QED
    BY <1>2, <1>3, <1>4, <1>5

LEMMA SpanDist ==
  ASSUME NEW a \in Slots, NEW b \in Slots, NEW i \in Slots
  PROVE  i \in Span(a, b) <=> Dist(a, i) < Dist(a, b)
  BY Sizes DEF Slots, Dist, Span

LEMMA DistBetween ==
  ASSUME NEW a \in Slots, NEW b \in Slots, NEW c \in Slots, Dist(a, b) <= Dist(a, c)
  PROVE  Dist(b, c) = Dist(a, c) - Dist(a, b)
  BY Sizes DEF Slots, Dist

LEMMA DistAdd ==
  ASSUME NEW a \in Slots, NEW b \in Slots, NEW c \in Slots, Dist(a, b) + Dist(b, c) <= Depth - 1
  PROVE  Dist(a, c) = Dist(a, b) + Dist(b, c)
  BY Sizes DEF Slots, Dist

LEMMA DistInjective ==
  ASSUME NEW a \in Slots, NEW b \in Slots, NEW c \in Slots, Dist(a, b) = Dist(a, c)
  PROVE  b = c
  BY Sizes DEF Slots, Dist

(* Moving the far end on, and the near one. *)
LEMMA AdvanceFar ==
  ASSUME NEW a \in Slots, NEW b \in Slots, Advance(b) # a
  PROVE  Dist(a, Advance(b)) = Dist(a, b) + 1
  BY Sizes DEF Slots, Dist, Advance

LEMMA AdvanceNear ==
  ASSUME NEW a \in Slots, NEW b \in Slots, a # b
  PROVE  /\ Dist(Advance(a), b) = Dist(a, b) - 1
         /\ Span(Advance(a), b) = Span(a, b) \ {a} /\ a \in Span(a, b)
  <1>1. Dist(Advance(a), b) = Dist(a, b) - 1
    BY Sizes DEF Slots, Dist, Advance
  <1>2. \A i \in Slots : i \in Span(Advance(a), b) <=> i \in Span(a, b) \ {a}
    BY Sizes DEF Slots, Span, Advance
  <1>3. a \in Span(a, b)
    BY Sizes DEF Slots, Span
  <1> QED
    BY <1>1, <1>2, <1>3 DEF Span

LEMMA SpanFar ==
  ASSUME NEW a \in Slots, NEW b \in Slots, Advance(b) # a
  PROVE  Span(a, Advance(b)) = Span(a, b) \cup {b} /\ b \notin Span(a, b)
  <1>1. \A i \in Slots : i \in Span(a, Advance(b)) <=> i \in Span(a, b) \cup {b}
    BY Sizes DEF Slots, Span, Advance
  <1>2. b \notin Span(a, b)
    BY Sizes DEF Slots, Span
  <1> QED
    BY <1>1, <1>2 DEF Span

(* n entries further on the ring. *)
LEMMA SlotAhead ==
  ASSUME NEW a \in Slots, NEW n \in Slots
  PROVE  /\ (a + n) % Depth \in Slots /\ Dist(a, (a + n) % Depth) = n
         /\ \A i \in Slots : (a + n) % Depth = i <=> n = Dist(a, i)
  <1>1. (a + n) % Depth = IF a + n < Depth THEN a + n ELSE a + n - Depth
    <2> DEFINE x == a + n
               d == Depth
    <2>1. d \in Nat \ {0} /\ x \in Int /\ -d <= x /\ x < d + d /\ ~(x < 0)
      BY Sizes DEF Slots
    <2> HIDE DEF x, d
    <2>2. x % d = IF x < d THEN x ELSE x - d
      BY <2>1, Remainder
    <2> QED
      BY <2>1, <2>2, Sizes DEF x, d, Slots
  <1> QED
    BY <1>1, Sizes DEF Slots, Dist

LEMMA U16Of ==
  ASSUME NEW x \in Int, -Width <= x, x < Width
  PROVE  U16(x) = IF x < 0 THEN x + Width ELSE x
  <1> DEFINE d == Width
  <1>1. d \in Nat \ {0} /\ x \in Int /\ -d <= x /\ x < d + d /\ x < d
    BY Sizes
  <1> HIDE DEF d
  <1>2. x % d = IF x < 0 THEN x + d ELSE x
    BY <1>1, Remainder
  <1> QED
    BY <1>2 DEF d, U16

(* The event index is passed by a doorbell that is written with a new value. *)
LEMMA EventPassed ==
  ASSUME NEW e \in Slots, NEW v \in Slots
  PROVE  NeedEvent(e, v, e) <=> e # v
  <1>1. U16(v - e - 1) = (IF v - e - 1 < 0 THEN v - e - 1 + Width ELSE v - e - 1)
    BY Sizes, U16Of DEF Slots
  <1>2. U16(v - e) = (IF v - e < 0 THEN v - e + Width ELSE v - e)
    BY Sizes, U16Of DEF Slots
  <1>3. NeedEvent(e, v, e) <=> U16(v - e - 1) < U16(v - e)
    BY DEF NeedEvent
  <1> HIDE DEF U16
  <1> QED
    BY <1>1, <1>2, <1>3, Sizes DEF Slots

-----------------------------------------------------------------------------
(* What an action leaves alone.                                            *)
Same(d) ==
  /\ shadow'[d] = shadow[d] /\ old'[d] = old[d] /\ ei'[d] = ei[d]
  /\ seen'[d] = seen[d] /\ sleep'[d] = sleep[d]

LEMMA TypedMeans == Typed => TypeOK
  BY DEF Typed, RequestTypes, RingTypes, BellTypes, CtrlTypes, ConsumerTypes, TimeTypes, TypeOK

LEMMA SetupType ==
  ASSUME setup \in Setups
  PROVE  /\ setup.shadow \subseteq Bells /\ setup.sqs \subseteq Sqs /\ setup.timed \subseteq Sqs
         /\ setup.limit \in Nat /\ setup.lost \in Nat /\ setup.polled \in BOOLEAN
  BY QueueAssumption

LEMMA TypeFrames ==
  /\ RequestTypes /\ UNCHANGED <<rq, batch>> => RequestTypes'
  /\ RingTypes /\ UNCHANGED <<tail, last, mem, lock, owed>> => RingTypes'
  /\ BellTypes /\ UNCHANGED bellVars => BellTypes'
  /\ CtrlTypes /\ UNCHANGED ctrlVars => CtrlTypes'
  /\ ConsumerTypes /\ UNCHANGED cqVars => ConsumerTypes'
  /\ TimeTypes /\ UNCHANGED <<setup, timeVars>> => TimeTypes'
  BY DEF RequestTypes, RingTypes, BellTypes, CtrlTypes, ConsumerTypes, TimeTypes, bellVars,
         ctrlVars, cqVars, timeVars

LEMMA EntryTypes ==
  ASSUME RequestTypes
  PROVE  /\ \A k \in DOMAIN batch.ready :
              batch.ready[k] \in Entry /\ batch.ready[k].tag \in Tags /\ batch.ready[k].sq \in Sqs
         /\ \A k \in DOMAIN batch.list :
              batch.list[k] \in Entry /\ batch.list[k].tag \in Tags /\ batch.list[k].sq \in Sqs
  <1>1. batch.ready \in Seq(Entry) /\ batch.list \in Seq(Entry)
    BY DEF RequestTypes
  <1>2. \A s \in Seq(Entry) : \A k \in DOMAIN s : s[k] \in Entry
    OBVIOUS
  <1> QED
    BY <1>1, <1>2 DEF Entry

LEMMA AloneFrame ==
  ASSUME Alone, UNCHANGED <<setup, head, post, cpc, masked, polling, late>>, shadow'[Cq] = shadow[Cq]
  PROVE  Alone'
  BY DEF Alone

LEMMA CqFrame ==
  ASSUME CqInv, UNCHANGED <<setup, head, post, cqe>>,
         shadow'[Cq] = shadow[Cq], seen'[Cq] = seen[Cq], sleep'[Cq] = sleep[Cq]
  PROVE  CqInv'
  BY DEF CqInv, Unhandled

LEMMA SqFrame ==
  ASSUME SqInv, UNCHANGED <<setup, tail, last, lock, owed, fetch>>, \A q \in Sqs : Same(q)
  PROVE  SqInv'
  BY DEF SqInv, SqOk, Same

LEMMA TagFrame ==
  ASSUME TagInv, Typed, Typed', UNCHANGED <<tail, mem, fetch, inside, post, cqe, head, batch>>,
         \A t \in Tags : rq'[t].st = rq[t].st /\ rq'[t].sq = rq[t].sq
  PROVE  TagInv'
  <1>1. Unhandled' = Unhandled /\ Posted' = Posted /\ Prepared' = Prepared
    BY DEF Unhandled, Posted, Prepared
  <1>2. \A q : Unfetched(q)' = Unfetched(q) /\ Queued(q)' = Queued(q)
    BY DEF Unfetched, Queued
  <1>3. QueuedOk'
    BY <1>2 DEF TagInv, QueuedOk
  <1>4. InsideOk'
    BY <1>2 DEF TagInv, InsideOk, Typed, CtrlTypes
  <1>5. PostedOk'
    BY <1>1, <1>2 DEF TagInv, PostedOk, Posted
  <1>6. ReadyOk'
    BY <1>1, <1>2, EntryTypes DEF TagInv, ReadyOk, Typed
  <1>7. ListOk'
    BY EntryTypes DEF TagInv, ListOk, Typed
  <1>8. NoneLost'
    BY <1>1, <1>2 DEF TagInv, NoneLost
  <1> QED
    BY <1>3, <1>4, <1>5, <1>6, <1>7, <1>8 DEF TagInv

LEMMA LateFrame ==
  ASSUME LateInv, UNCHANGED <<late, cpc, head, post, cqe>>,
         late.pc # "idle" => rq'[late.tag].st = rq[late.tag].st
  PROVE  LateInv'
  BY DEF LateInv, Posted, Unhandled

(* A doorbell is written, or its event index looked at. *)
LEMMA BellStep ==
  ASSUME BellTypes, NEW d \in Bells, NEW v \in Slots, WriteBell(d, v) \/ CheckEvent(d, v)
  PROVE  BellTypes' /\ \A e \in Bells \ {d} : Same(e)
  <1>1. CASE WriteBell(d, v)
    BY <1>1 DEF BellTypes, WriteBell, Same
  <1>2. CASE CheckEvent(d, v)
    BY <1>2, Sizes DEF BellTypes, CheckEvent, Same
  <1> QED
    BY <1>1, <1>2

(* What nvme_cqe_pending() finds at the head. *)
LEMMA Pending ==
  ASSUME CqInv, head.at \in Slots
  PROVE  CqePending(head) <=> head.at \in Unhandled
  <1>1. PhaseAt(head, head.at) = head.phase
    BY DEF PhaseAt, Slots
  <1> QED
    BY <1>1 DEF CqInv, CqePending

LEMMA HeadPending ==
  ASSUME CqInv, head \in [at : Slots, phase : {0, 1}], post \in [at : Slots, phase : {0, 1}]
  PROVE  CqePending(head) <=> head.at # post.at
  BY Pending, Sizes DEF Unhandled, Span, Slots

-----------------------------------------------------------------------------
(* The controller looks at a doorbell.                                     *)
LEMMA ArmStep ==
  ASSUME QInv, NEW d \in Bells, ArmEvent(d)
  PROVE  QInv'
  <1> USE DEF QInv, ArmEvent, driverVars, ctrlVars, cqVars, timeVars
  <1>1. Typed'
    BY TypeFrames DEF Typed, BellTypes, ctrlVars, cqVars, timeVars
  <1>2. Alone'
    BY AloneFrame
  <1>3. CqInv'
    BY DEF CqInv, Unhandled, Typed, BellTypes, Bells
  <1>4. SqInv'
    BY Sizes DEF SqInv, SqOk, Typed, BellTypes, Bells
  <1>5. TagInv'
    BY <1>1, TagFrame
  <1>6. LateInv'
    BY LateFrame
  <1> QED
    BY <1>1, <1>2, <1>3, <1>4, <1>5, <1>6

LEMMA LookStep ==
  ASSUME QInv, NEW d \in Bells, LookAgain(d)
  PROVE  QInv'
  <1> USE DEF QInv, LookAgain, driverVars, ctrlVars, cqVars, timeVars
  <1>1. Typed'
    BY TypeFrames DEF Typed, BellTypes, ctrlVars, cqVars, timeVars
  <1>2. Alone'
    BY AloneFrame
  <1>3. CqInv'
    <2>1. seen[Cq] \in Slots /\ shadow[Cq] \in Slots /\ head.at \in Slots /\ post.at \in Slots
      BY DEF Typed, BellTypes, ConsumerTypes, CtrlTypes, Bells
    <2>2. CASE d = Cq
      <3>1. seen'[Cq] = shadow[Cq] /\ Cq \in setup.shadow
        BY <2>2 DEF Typed, BellTypes, Bells, CqInv
      <3>2. Dist(shadow[Cq], head.at) <= Dist(shadow[Cq], post.at)
        <4>1. Dist(seen[Cq], shadow[Cq]) <= Dist(seen[Cq], head.at)
              /\ Dist(seen[Cq], head.at) <= Dist(seen[Cq], post.at)
          BY <3>1 DEF CqInv
        <4>2. Dist(seen[Cq], shadow[Cq]) \in Nat /\ Dist(seen[Cq], head.at) \in Nat
              /\ Dist(seen[Cq], post.at) \in Nat
          BY <2>1, DistType
        <4>3. Dist(seen[Cq], shadow[Cq]) <= Dist(seen[Cq], post.at)
          BY <4>1, <4>2
        <4>4. /\ Dist(shadow[Cq], head.at) = Dist(seen[Cq], head.at) - Dist(seen[Cq], shadow[Cq])
              /\ Dist(shadow[Cq], post.at) = Dist(seen[Cq], post.at) - Dist(seen[Cq], shadow[Cq])
          BY <2>1, <4>1, <4>3, DistBetween
        <4> QED
          BY <4>1, <4>2, <4>4
      <3>3. Dist(shadow[Cq], shadow[Cq]) <= Dist(shadow[Cq], head.at)
        <4>1. Dist(shadow[Cq], shadow[Cq]) = 0 /\ Dist(shadow[Cq], head.at) \in Nat
          BY <2>1, DistType
        <4> QED
          BY <4>1
      <3> QED
        BY <3>1, <3>2, <3>3 DEF CqInv, Unhandled
    <2>3. CASE d # Cq
      BY <2>3, CqFrame DEF Typed, BellTypes, Bells
    <2> QED
      BY <2>2, <2>3
  <1>4. SqInv'
    <2> SUFFICES ASSUME NEW q \in Sqs PROVE SqOk(q)'
      BY DEF SqInv
    <2>1. SqOk(q) /\ seen[q] \in Slots /\ shadow[q] \in Slots /\ fetch[q] \in Slots
          /\ tail[q] \in Slots
      BY DEF SqInv, Typed, BellTypes, CtrlTypes, RingTypes, Bells
    <2>2. CASE d = q
      <3>1. seen'[q] = shadow[q] /\ q \in setup.shadow
            /\ sleep'[q] = IF shadow[q] = seen[q] THEN "asleep" ELSE "awake"
        BY <2>1, <2>2 DEF Typed, BellTypes, SqOk
      <3>2. Dist(shadow[q], shadow[q]) = 0 /\ Dist(fetch[q], shadow[q]) \in Nat
        BY <2>1, DistType
      <3> QED
        BY <2>1, <2>2, <3>1, <3>2 DEF SqOk
    <2>3. CASE d # q
      BY <2>1, <2>3 DEF SqOk, Typed, BellTypes, Bells
    <2> QED
      BY <2>2, <2>3
  <1>5. TagInv'
    BY <1>1, TagFrame
  <1>6. LateInv'
    BY LateFrame
  <1> QED
    BY <1>1, <1>2, <1>3, <1>4, <1>5, <1>6

-----------------------------------------------------------------------------
(* Timeouts.                                                               *)
LEMMA AbortStep ==
  ASSUME QInv, AbortEndio
  PROVE  QInv'
  <1> USE DEF QInv, AbortEndio, driverVars, bellVars, ctrlVars, cqVars
  <1>1. Typed'
    <2>1. TimeTypes'
      BY SetupType DEF Typed, TimeTypes
    <2> QED
      BY <2>1, TypeFrames DEF Typed
  <1>2. Alone'
    BY AloneFrame
  <1>3. CqInv'
    BY CqFrame
  <1>4. SqInv'
    BY SqFrame DEF Same
  <1>5. TagInv'
    BY <1>1, TagFrame
  <1>6. LateInv'
    BY LateFrame
  <1> QED
    BY <1>1, <1>2, <1>3, <1>4, <1>5, <1>6

LEMMA DecideStep ==
  ASSUME QInv, NEW allocated \in BOOLEAN, DecideTimeout(allocated)
  PROVE  QInv'
  <1> USE DEF QInv, DecideTimeout, bellVars, ctrlVars, cqVars
  <1>1. late.tag \in Tags /\ late.pc = "decide" /\ cpc["timeout"] = "idle"
    BY DEF Alone
  <1>2. Typed'
    <2>1. RequestTypes'
      <3>1. batch' = batch /\ (rq' = rq \/ rq' = [rq EXCEPT ![late.tag].aborted = TRUE])
        OBVIOUS
      <3>2. rq[late.tag] \in [st : {"idle", "listed", "flight"}, sq : Sqs \cup {None}, aborted : BOOLEAN]
        BY <1>1 DEF Typed, RequestTypes
      <3>3. [rq[late.tag] EXCEPT !.aborted = TRUE]
              \in [st : {"idle", "listed", "flight"}, sq : Sqs \cup {None}, aborted : BOOLEAN]
        BY <3>2
      <3> QED
        BY <3>1, <3>3 DEF Typed, RequestTypes
    <2>2. TimeTypes'
      <3>1. late' = NoLate /\ setup' = setup /\ lost' = lost /\ stopped' \in BOOLEAN
        BY DEF Typed, TimeTypes
      <3>2. aborts' = aborts \/ (aborts' = aborts + 1 /\ aborts < setup.limit)
        OBVIOUS
      <3>3. aborts' \in 0 .. setup.limit
        BY <3>1, <3>2, SetupType DEF Typed, TimeTypes
      <3> QED
        BY <3>1, <3>3 DEF Typed, TimeTypes, NoLate
    <2> QED
      BY <2>1, <2>2, TypeFrames DEF Typed
  <1>3. Alone'
    BY <1>1 DEF Alone, NoLate
  <1>4. CqInv'
    BY CqFrame
  <1>5. SqInv'
    BY SqFrame DEF Same
  <1>6. \A t \in Tags : rq'[t].st = rq[t].st /\ rq'[t].sq = rq[t].sq
    <2>1. rq' = rq \/ rq' = [rq EXCEPT ![late.tag].aborted = TRUE]
      OBVIOUS
    <2> QED
      BY <1>1, <2>1 DEF Typed, RequestTypes
  <1>7. TagInv'
    BY <1>2, <1>6, TagFrame
  <1>8. LateInv'
    BY DEF LateInv, NoLate
  <1> QED
    BY <1>2, <1>3, <1>4, <1>5, <1>7, <1>8

LEMMA TimeoutStep ==
  ASSUME QInv, NEW t \in Tags, Timeout(t)
  PROVE  QInv'
  <1> USE DEF QInv, Timeout, PollFor, driverVars, bellVars, ctrlVars
  <1>1. cpc["timeout"] = "idle" /\ cpc' = [cpc EXCEPT !["timeout"] = "look"]
    BY DEF Alone, Step
  <1>2. Typed'
    <2>1. ConsumerTypes'
      BY <1>1 DEF Typed, ConsumerTypes, Disable, Consumers
    <2>2. TimeTypes'
      BY SetupType DEF Typed, TimeTypes
    <2> QED
      BY <2>1, <2>2, TypeFrames DEF Typed
  <1>3. Alone'
    <2>1. cpc'["timeout"] = "look" /\ cpc'["irq"] = cpc["irq"] /\ cpc'["poll"] = cpc["poll"]
      BY <1>1 DEF Typed, ConsumerTypes, Consumers
    <2> QED
      BY <1>1, <2>1, SetupType DEF Alone, Disable, Typed, ConsumerTypes, Consumers
  <1>4. CqInv'
    BY CqFrame
  <1>5. SqInv'
    BY SqFrame DEF Same
  <1>6. TagInv'
    BY <1>2, TagFrame
  <1>7. LateInv'
    <2>1. cpc'["timeout"] = "look" /\ Posted' = Posted
      BY <1>1 DEF Typed, ConsumerTypes, Consumers, Posted, Unhandled
    <2> QED
      BY <2>1 DEF LateInv
  <1> QED
    BY <1>2, <1>3, <1>4, <1>5, <1>6, <1>7

LEMMA LookForMissedStep ==
  ASSUME QInv, LookForMissed
  PROVE  QInv'
  <1> USE DEF QInv, LookForMissed, Leave, Step, driverVars, bellVars, ctrlVars
  <1>1. /\ late.pc = "poll" /\ late.tag \in Tags /\ cpc["timeout"] = "look"
        /\ cpc' = [cpc EXCEPT !["timeout"] = IF CqePending(head) THEN "handle" ELSE "idle"]
    BY DEF Alone
  <1>2. CqePending(head) <=> head.at # post.at
    BY HeadPending DEF Typed, ConsumerTypes, CtrlTypes
  <1>3. Typed'
    <2>1. ConsumerTypes'
      BY <1>1 DEF Typed, ConsumerTypes, Consumers
    <2>2. TimeTypes'
      BY <1>1, SetupType DEF Typed, TimeTypes
    <2> QED
      BY <2>1, <2>2, TypeFrames DEF Typed
  <1>4. Alone'
    <2>1. /\ cpc'["irq"] = cpc["irq"] /\ cpc'["poll"] = cpc["poll"]
          /\ cpc'["timeout"] = IF CqePending(head) THEN "handle" ELSE "idle"
      BY <1>1 DEF Typed, ConsumerTypes, Consumers
    <2>2. late'.tag = late.tag /\ late'.pc = IF CqePending(head) THEN "poll" ELSE "decide"
      BY <1>1 DEF Typed, TimeTypes
    <2>3. /\ polling' = IF CqePending(head) THEN polling ELSE FALSE
          /\ masked' = IF CqePending(head) THEN masked ELSE FALSE
      OBVIOUS
    <2>4. setup' = setup /\ head' = head /\ post' = post /\ shadow' = shadow
      OBVIOUS
    <2> QED
      BY <1>1, <1>2, <2>1, <2>2, <2>3, <2>4 DEF Alone, Consumers
  <1>5. CqInv'
    BY CqFrame
  <1>6. SqInv'
    BY SqFrame DEF Same
  <1>7. TagInv'
    BY <1>3, TagFrame
  <1>8. LateInv'
    <2>1. Posted' = Posted /\ late'.tag = late.tag /\ late'.posted = late.posted
      BY ZenonT(40) DEF Posted, Unhandled, Typed, TimeTypes
    <2>2. CASE CqePending(head)
      BY <1>1, <2>1, <2>2 DEF LateInv, Typed, ConsumerTypes, Consumers
    <2>3. CASE ~CqePending(head)
      <3>1. Posted = {}
        BY <1>2, <2>3 DEF Posted, Unhandled, Span, Slots, Typed, ConsumerTypes
      <3> QED
        BY <1>1, <2>1, <3>1 DEF LateInv
    <2> QED
      BY <2>2, <2>3
  <1> QED
    BY <1>3, <1>4, <1>5, <1>6, <1>7, <1>8

-----------------------------------------------------------------------------
(* The other consumers begin.                                              *)
LEMMA IrqStep ==
  ASSUME QInv, Irq
  PROVE  QInv'
  <1> USE DEF QInv, Irq, Step, driverVars, bellVars, ctrlVars, timeVars
  <1>1. CqePending(head) <=> head.at # post.at
    BY HeadPending DEF Typed, ConsumerTypes, CtrlTypes
  <1>2. Typed'
    <2>1. ConsumerTypes'
      BY DEF Typed, ConsumerTypes, Consumers
    <2> QED
      BY <2>1, TypeFrames DEF Typed, timeVars
  <1>3. /\ cpc'["poll"] = cpc["poll"] /\ cpc'["timeout"] = cpc["timeout"]
        /\ cpc'["irq"] = IF CqePending(head) THEN "handle" ELSE "idle"
    BY DEF Typed, ConsumerTypes, Consumers
  <1>4. Alone'
    BY <1>1, <1>3 DEF Alone, Consumers
  <1>5. CqInv'
    BY CqFrame
  <1>6. SqInv'
    BY SqFrame DEF Same
  <1>7. TagInv'
    BY <1>2, TagFrame
  <1>8. LateInv'
    BY <1>3 DEF LateInv, Posted, Unhandled
  <1> QED
    BY <1>2, <1>4, <1>5, <1>6, <1>7, <1>8

LEMMA PollStep ==
  ASSUME QInv, Poll
  PROVE  QInv'
  <1> USE DEF QInv, Poll, Step, driverVars, bellVars, ctrlVars, timeVars
  <1>1. CqePending(head) /\ head.at # post.at
    BY HeadPending DEF Typed, ConsumerTypes, CtrlTypes
  <1>2. Typed'
    <2>1. ConsumerTypes'
      BY DEF Typed, ConsumerTypes, Consumers
    <2> QED
      BY <2>1, TypeFrames DEF Typed, timeVars
  <1>3. cpc'["poll"] = "handle" /\ cpc'["timeout"] = cpc["timeout"] /\ cpc'["irq"] = cpc["irq"]
    BY DEF Typed, ConsumerTypes, Consumers
  <1>4. Alone'
    BY <1>1, <1>3 DEF Alone, Consumers
  <1>5. CqInv'
    BY CqFrame
  <1>6. SqInv'
    BY SqFrame DEF Same
  <1>7. TagInv'
    BY <1>2, TagFrame
  <1>8. LateInv'
    BY <1>3 DEF LateInv, Posted, Unhandled
  <1> QED
    BY <1>2, <1>4, <1>5, <1>6, <1>7, <1>8

-----------------------------------------------------------------------------
(* The doorbell of a submission queue.                                     *)
LEMMA WriteSqStep ==
  ASSUME Typed, SqInv, NEW q \in Sqs, NEW t \in Slots, NEW ring \in BOOLEAN,
         lock[q] = "free", tail' = [tail EXCEPT ![q] = t],
         Dist(fetch[q], tail[q]) <= Dist(fetch[q], t), WriteSqDb(q, t, ring),
         ring \/ owed'[q] \/ last[q] = t, \A p \in Sqs \ {q} : owed'[p] = owed[p],
         UNCHANGED <<setup, fetch>>
  PROVE  /\ BellTypes' /\ Same(Cq) /\ SqInv'
         /\ lock' \in [Sqs -> {"free", "event"}] /\ last' \in [Sqs -> Slots]
  <1>1. q \in Bells /\ q # Cq /\ Cq \in Bells
    BY Sizes DEF Bells
  <1>2. BellTypes' /\ \A d \in Bells \ {q} : Same(d)
    <2>1. CASE ring
      BY <1>1, <2>1, BellStep DEF WriteSqDb, Typed
    <2>2. CASE ~ring
      BY <2>2, TypeFrames DEF WriteSqDb, Typed, Same, bellVars
    <2> QED
      BY <2>1, <2>2
  <1>3. /\ lock' \in [Sqs -> {"free", "event"}] /\ last' \in [Sqs -> Slots]
        /\ \A p \in Sqs \ {q} : lock'[p] = lock[p] /\ last'[p] = last[p]
    BY DEF WriteSqDb, Typed, RingTypes
  <1>4. ASSUME NEW p \in Sqs, p # q
        PROVE  SqOk(p)'
    <2>1. Same(p) /\ tail'[p] = tail[p]
      BY <1>2, <1>4 DEF Bells, Typed, RingTypes
    <2> QED
      BY <1>3, <1>4, <2>1 DEF SqInv, SqOk, Same
  <1>5. SqOk(q)'
    <2>1. SqOk(q) /\ tail'[q] = t
      BY DEF SqInv, Typed, RingTypes
    <2>2. fetch[q] \in Slots /\ seen[q] \in Slots /\ shadow[q] \in Slots /\ tail[q] \in Slots
      BY <1>1 DEF Typed, RingTypes, BellTypes, CtrlTypes
    <2>3. /\ Dist(fetch[q], seen[q]) \in Nat /\ Dist(fetch[q], shadow[q]) \in Nat
          /\ Dist(fetch[q], tail[q]) \in Nat /\ Dist(fetch[q], t) \in Nat
      BY <2>2, DistType
    <2>4. Dist(fetch[q], seen[q]) <= Dist(fetch[q], t)
          /\ (q \in setup.shadow => Dist(fetch[q], shadow[q]) <= Dist(fetch[q], t))
      BY <2>1, <2>3 DEF SqOk
    <2>5. CASE ~ring
      BY <2>1, <2>4, <2>5 DEF SqOk, WriteSqDb, bellVars
    <2>6. CASE ring /\ q \in setup.shadow
      <3>1. /\ shadow'[q] = t /\ old'[q] = shadow[q] /\ lock'[q] = "event"
            /\ ei'[q] = ei[q] /\ seen'[q] = seen[q] /\ sleep'[q] = sleep[q]
        BY <1>1, <2>6 DEF WriteSqDb, WriteBell, Typed, RingTypes, BellTypes
      <3> QED
        BY <2>1, <2>3, <2>4, <2>6, <3>1 DEF SqOk
    <2>7. CASE ring /\ q \notin setup.shadow
      <3>1. seen'[q] = t /\ last'[q] = t /\ lock' = lock /\ sleep' = sleep
        BY <1>1, <2>7 DEF WriteSqDb, WriteBell, Typed, RingTypes, BellTypes
      <3> QED
        BY <2>1, <2>3, <2>7, <3>1 DEF SqOk
    <2> QED
      BY <2>5, <2>6, <2>7
  <1>6. SqInv'
    BY <1>4, <1>5 DEF SqInv
  <1>7. Same(Cq)
    BY <1>1, <1>2
  <1> QED
    BY <1>2, <1>3, <1>6, <1>7

LEMMA CommitStep ==
  ASSUME QInv, NEW q \in Sqs, CommitRqs(q)
  PROVE  QInv'
  <1> USE DEF QInv, CommitRqs, ctrlVars, cqVars, timeVars
  <1>1. tail[q] \in Slots /\ fetch[q] \in Slots /\ tail' = [tail EXCEPT ![q] = tail[q]]
    BY DEF Typed, RingTypes, CtrlTypes
  <1>2. Dist(fetch[q], tail[q]) <= Dist(fetch[q], tail[q])
    BY <1>1, DistType DEF Slots
  <1>3. \A p \in Sqs \ {q} : owed'[p] = owed[p]
    BY DEF Typed, RingTypes
  <1>4. /\ BellTypes' /\ Same(Cq) /\ SqInv'
        /\ lock' \in [Sqs -> {"free", "event"}] /\ last' \in [Sqs -> Slots]
    BY <1>1, <1>2, <1>3, WriteSqStep
  <1>5. Typed'
    <2>1. RingTypes'
      BY <1>4 DEF Typed, RingTypes
    <2> QED
      BY <1>4, <2>1, TypeFrames DEF Typed
  <1>6. Alone'
    BY <1>4, AloneFrame DEF Same
  <1>7. CqInv'
    BY <1>4, CqFrame DEF Same
  <1>8. TagInv'
    BY <1>5, TagFrame
  <1>9. LateInv'
    BY LateFrame
  <1> QED
    BY <1>4, <1>5, <1>6, <1>7, <1>8, <1>9

LEMMA CheckSqStep ==
  ASSUME QInv, NEW q \in Sqs, CheckSqEvent(q)
  PROVE  QInv'
  <1> USE DEF QInv, CheckSqEvent, ctrlVars, cqVars, timeVars
  <1>1. q \in Bells /\ q # Cq /\ Cq \in Bells /\ tail[q] \in Slots
    BY Sizes DEF Bells, Typed, RingTypes
  <1>2. BellTypes' /\ \A d \in Bells \ {q} : Same(d)
    BY <1>1, BellStep DEF Typed
  <1>3. Typed'
    <2>1. RingTypes'
      BY <1>1 DEF Typed, RingTypes
    <2> QED
      BY <1>2, <2>1, TypeFrames DEF Typed
  <1>4. Alone'
    BY <1>1, <1>2, AloneFrame DEF Same
  <1>5. CqInv'
    BY <1>1, <1>2, CqFrame DEF Same
  <1>6. SqInv'
    <2>1. ASSUME NEW p \in Sqs, p # q
          PROVE  SqOk(p)'
      <3>1. Same(p) /\ lock'[p] = lock[p] /\ last'[p] = last[p]
        BY <1>2, <2>1 DEF Bells, Typed, RingTypes
      <3> QED
        BY <3>1 DEF SqInv, SqOk, Same
    <2>2. SqOk(q)'
      <3>1. /\ SqOk(q) /\ q \in setup.shadow /\ lock'[q] = "free" /\ last'[q] = tail[q]
            /\ shadow[q] = tail[q] /\ shadow' = shadow /\ ei' = ei
        BY DEF SqInv, SqOk, Typed, RingTypes, CheckEvent
      <3>2. fetch[q] \in Slots /\ ei[q] \in Slots
        BY <1>1 DEF Typed, CtrlTypes, BellTypes
      <3>3. Dist(fetch[q], tail[q]) <= Dist(fetch[q], tail[q])
        BY <1>1, <3>2, DistType DEF Slots
      <3>4. CASE NeedEvent(ei[q], tail[q], old[q])
        <4>1. seen'[q] = tail[q] /\ sleep'[q] = "awake"
          BY <1>1, <3>4 DEF CheckEvent, Typed, BellTypes
        <4> QED
          BY <3>1, <3>3, <4>1 DEF SqOk
      <3>5. CASE ~NeedEvent(ei[q], tail[q], old[q])
        <4>1. seen' = seen /\ sleep' = sleep
          BY <3>5 DEF CheckEvent
        <4>2. sleep[q] = "asleep" => seen[q] = shadow[q]
          BY <1>1, <3>1, <3>2, <3>5, EventPassed DEF SqOk
        <4> QED
          BY <3>1, <4>1, <4>2 DEF SqOk
      <3> QED
        BY <3>4, <3>5
    <2> QED
      BY <2>1, <2>2 DEF SqInv
  <1>7. TagInv'
    BY <1>3, TagFrame
  <1>8. LateInv'
    BY LateFrame
  <1> QED
    BY <1>3, <1>4, <1>5, <1>6, <1>7, <1>8

-----------------------------------------------------------------------------
(* Completion.                                                             *)
LEMMA OnlyOne ==
  ASSUME Typed, Alone, NEW c \in Consumers, cpc[c] # "idle"
  PROVE  /\ \A d \in Consumers \ {c} : cpc[d] = "idle"
         /\ c = "irq" => ~setup.polled
         /\ c = "poll" => setup.polled
  BY SetupType DEF Typed, Alone, Consumers

LEMMA LeaveStep ==
  ASSUME Typed, Alone, NEW c \in Consumers, cpc[c] # "idle", Leave(c), setup' = setup
  PROVE  /\ Alone' /\ \A d \in Consumers : cpc'[d] = "idle"
         /\ cpc' \in [Consumers -> {"idle", "look", "handle", "event"}]
         /\ masked' \in BOOLEAN /\ polling' \in BOOLEAN
         /\ late' \in [tag : Tags \cup {None}, pc : {"idle", "poll", "decide"}, posted : BOOLEAN]
         /\ late'.tag = late.tag /\ late'.posted = late.posted
         /\ late'.pc = IF c = "timeout" THEN "decide" ELSE late.pc
         /\ c # "timeout" => late' = late /\ late.pc # "poll"
  <1>1. /\ cpc' \in [Consumers -> {"idle", "look", "handle", "event"}]
        /\ \A d \in Consumers : cpc'[d] = "idle"
    BY OnlyOne DEF Leave, Step, Typed, ConsumerTypes
  <1>2. masked' \in BOOLEAN /\ polling' \in BOOLEAN
    BY DEF Leave, Typed, ConsumerTypes
  <1>3. /\ late' \in [tag : Tags \cup {None}, pc : {"idle", "poll", "decide"}, posted : BOOLEAN]
        /\ late'.tag = late.tag /\ late'.posted = late.posted
        /\ late'.pc = IF c = "timeout" THEN "decide" ELSE late.pc
        /\ c # "timeout" => late' = late
    BY DEF Leave, Typed, TimeTypes
  <1>4. c # "timeout" => late.pc # "poll"
    BY OnlyOne DEF Alone, Consumers
  <1>5. "timeout" \in Consumers /\ "irq" \in Consumers /\ "poll" \in Consumers
    BY DEF Consumers
  <1>6. setup.polled => ~polling'
    BY <1>5, OnlyOne DEF Leave, Consumers
  <1>7. ~setup.polled => ~masked'
    BY <1>5, OnlyOne DEF Leave, Alone, Consumers
  <1>8. Alone'
    <2>1. late'.pc # "poll" /\ (late'.pc # "idle" => late'.tag \in Tags)
      BY <1>3, <1>4, <1>5 DEF Alone
    <2> QED
      BY <1>1, <1>2, <1>5, <1>6, <1>7, <2>1 DEF Alone
  <1> QED
    BY <1>1, <1>2, <1>3, <1>4, <1>8

LEMMA CheckCqStep ==
  ASSUME QInv, NEW c \in Consumers, CheckCqEvent(c)
  PROVE  QInv'
  <1> USE DEF QInv, CheckCqEvent, driverVars, ctrlVars
  <1>1. Cq \in Bells /\ head.at \in Slots /\ post.at \in Slots /\ Cq \notin Sqs
    BY Sizes DEF Bells, Typed, ConsumerTypes, CtrlTypes
  <1>2. BellTypes' /\ \A d \in Bells \ {Cq} : Same(d)
    BY <1>1, BellStep DEF Typed
  <1>3. /\ Alone' /\ \A d \in Consumers : cpc'[d] = "idle"
        /\ cpc' \in [Consumers -> {"idle", "look", "handle", "event"}]
        /\ masked' \in BOOLEAN /\ polling' \in BOOLEAN
        /\ late' \in [tag : Tags \cup {None}, pc : {"idle", "poll", "decide"}, posted : BOOLEAN]
        /\ late'.tag = late.tag /\ late'.posted = late.posted
        /\ c # "timeout" => late' = late /\ late.pc # "poll"
    BY LeaveStep
  <1>4. Typed'
    <2>1. ConsumerTypes'
      BY <1>3 DEF Typed, ConsumerTypes
    <2>2. TimeTypes'
      BY <1>3 DEF Typed, TimeTypes
    <2> QED
      BY <1>2, <2>1, <2>2, TypeFrames DEF Typed
  <1>5. CqInv'
    <2>1. Cq \in setup.shadow /\ shadow[Cq] = head.at /\ shadow' = shadow
      BY DEF Alone, CheckEvent
    <2>2. seen'[Cq] = seen[Cq] \/ seen'[Cq] = head.at
      BY <1>1 DEF CheckEvent, Typed, BellTypes
    <2>3. Dist(head.at, head.at) = 0 /\ Dist(head.at, post.at) \in Nat
      BY <1>1, DistType
    <2> QED
      BY <2>1, <2>2, <2>3 DEF CqInv, Unhandled
  <1>6. SqInv'
    BY <1>1, <1>2, SqFrame DEF Bells
  <1>7. TagInv'
    BY <1>4, TagFrame
  <1>8. LateInv'
    <2>1. late.pc # "idle" => ~(late.posted /\ rq[late.tag].st = "flight")
      <3>1. CASE c = "timeout"
        BY <3>1 DEF LateInv
      <3>2. CASE c # "timeout"
        <4>1. cpc["timeout"] = "idle"
          BY <3>2, OnlyOne DEF Consumers
        <4> QED
          BY <4>1 DEF LateInv
      <3> QED
        BY <3>1, <3>2
    <2>2. late'.pc # "idle" => late.pc # "idle"
      <3>1. CASE c = "timeout"
        BY <3>1 DEF Alone
      <3> QED
        BY <1>3, <3>1
    <2> QED
      BY <1>3, <2>1, <2>2 DEF LateInv
  <1> QED
    BY <1>3, <1>4, <1>5, <1>6, <1>7, <1>8

(* The head moves over an entry. *)
LEMMA HeadMoves ==
  ASSUME Typed, CqInv, head.at # post.at, head' = NextHead(head), post' = post,
         cqe' = [cqe EXCEPT ![head.at].tag = None]
  PROVE  /\ head.at \in Unhandled /\ Unhandled' = Unhandled \ {head.at}
         /\ head' \in [at : Slots, phase : {0, 1}]
         /\ cqe' \in [Slots -> [tag : Tags \cup {None}, phase : {0, 1}]]
         /\ Dist(seen[Cq], head'.at) <= Dist(seen[Cq], post.at)
         /\ Dist(seen[Cq], head'.at) = Dist(seen[Cq], head.at) + 1
         /\ post.phase = PhaseAt(head', post.at)
         /\ \A i \in Slots : i \in Unhandled' <=> cqe'[i].phase = PhaseAt(head', i)
         /\ CqePending(head') <=> head'.at # post.at
  <1> DEFINE h == head.at
             v == Advance(h)
  <1>1. /\ h \in Slots /\ post.at \in Slots /\ v \in Slots /\ seen[Cq] \in Slots
        /\ head.phase \in {0, 1} /\ post.phase \in {0, 1}
    BY AdvanceType DEF Typed, ConsumerTypes, CtrlTypes, BellTypes, Bells
  <1>2. head'.at = v /\ head'.phase = IF v = 0 THEN 1 - head.phase ELSE head.phase
    BY DEF NextHead
  <1>3. h \in Unhandled /\ Unhandled' = Unhandled \ {h}
    BY <1>1, <1>2, AdvanceNear DEF Unhandled
  <1>4. head' \in [at : Slots, phase : {0, 1}]
    BY <1>1, <1>2 DEF NextHead
  <1>5. cqe' \in [Slots -> [tag : Tags \cup {None}, phase : {0, 1}]]
        /\ \A i \in Slots : cqe'[i].phase = cqe[i].phase
    BY <1>1 DEF Typed, CtrlTypes
  <1>6. /\ Dist(seen[Cq], v) = Dist(seen[Cq], h) + 1
        /\ Dist(seen[Cq], v) <= Dist(seen[Cq], post.at)
    <2>1. /\ Dist(seen[Cq], h) \in Nat /\ Dist(seen[Cq], post.at) \in Nat
          /\ Dist(seen[Cq], post.at) \in Slots
      BY <1>1, DistType
    <2>2. Dist(seen[Cq], h) < Dist(seen[Cq], post.at)
      <3>1. Dist(seen[Cq], h) # Dist(seen[Cq], post.at)
        BY <1>1, DistInjective
      <3> QED
        BY <2>1, <3>1 DEF CqInv
    <2>3. v # seen[Cq]
      BY <1>1, <2>1, <2>2, Sizes DEF Dist, Advance, Slots
    <2> QED
      BY <1>1, <2>1, <2>2, <2>3, AdvanceFar
  <1>7. ASSUME NEW i \in Slots, i # h
        PROVE  PhaseAt(head', i) = PhaseAt(head, i)
    BY <1>1, <1>2, <1>7, Sizes DEF PhaseAt, Advance, Slots
  <1>8. PhaseAt(head', h) = 1 - head.phase /\ PhaseAt(head, h) = head.phase
    BY <1>1, <1>2, Sizes DEF PhaseAt, Advance, Slots
  <1>9. cqe[h].phase = head.phase
    BY <1>1, <1>3, <1>8 DEF CqInv
  <1>10. post.phase = PhaseAt(head', post.at)
    BY <1>1, <1>7 DEF CqInv
  <1>11. ASSUME NEW i \in Slots
         PROVE  i \in Unhandled' <=> cqe'[i].phase = PhaseAt(head', i)
    <2>1. CASE i = h
      <3>1. cqe'[h].phase = head.phase /\ head.phase # 1 - head.phase
        BY <1>1, <1>5, <1>9
      <3> QED
        BY <1>3, <1>8, <2>1, <3>1
    <2>2. CASE i # h
      BY <1>3, <1>5, <1>7, <2>2 DEF CqInv
    <2> QED
      BY <2>1, <2>2
  <1>12. CqePending(head') <=> head'.at # post.at
    <2>1. PhaseAt(head', v) = head'.phase
      BY <1>1, <1>2 DEF PhaseAt, Slots
    <2>2. v \in Unhandled' <=> v # post.at
      BY <1>1, <1>2, Sizes DEF Unhandled, Span, Slots
    <2> QED
      BY <1>1, <1>2, <1>5, <1>11, <2>1, <2>2 DEF CqePending
  <1> QED
    BY <1>2, <1>3, <1>4, <1>5, <1>6, <1>10, <1>11, <1>12

(* Its command is done, and in no place any more. *)
LEMMA TagDone ==
  ASSUME Typed, Typed', TagInv, head.at \in Unhandled, Unhandled' = Unhandled \ {head.at},
         cqe' = [cqe EXCEPT ![head.at].tag = None],
         rq' = [t \in Tags |-> IF t = cqe[head.at].tag THEN Idle ELSE rq[t]],
         UNCHANGED <<tail, mem, fetch, inside, batch>>
  PROVE  /\ TagInv' /\ cqe[head.at].tag \in Tags
         /\ Posted' = Posted \ {cqe[head.at].tag}
  <1> DEFINE done == cqe[head.at].tag
  <1>1. /\ done \in Tags /\ done \in Posted /\ head.at \in Slots /\ Unhandled \subseteq Slots
        /\ rq[done].st = "flight" /\ done \notin inside /\ done \notin Queued(rq[done].sq)
    BY DEF TagInv, PostedOk, Posted, Unhandled, Span, Typed, ConsumerTypes
  <1>2. rq'[done] = Idle /\ \A t \in Tags \ {done} : rq'[t] = rq[t]
    BY <1>1
  <1>3. \A i \in Unhandled' : i \in Unhandled /\ cqe'[i] = cqe[i] /\ cqe[i].tag # done
    BY <1>1 DEF TagInv, PostedOk, Typed, CtrlTypes
  <1>4. Posted' = Posted \ {done}
    <2>1. \A i \in Unhandled : cqe[i].tag # done => i \in Unhandled'
      OBVIOUS
    <2> QED
      BY <1>3, <2>1 DEF Posted
  <1>5. \A q : Unfetched(q)' = Unfetched(q) /\ Queued(q)' = Queued(q)
    BY DEF Unfetched, Queued
  <1>6. Prepared' = Prepared
    BY DEF Prepared
  <1> HIDE DEF done
  <1>7. \A q \in Sqs : done \notin Queued(q)
    BY <1>1 DEF TagInv, QueuedOk, Queued
  <1>8. QueuedOk'
    <2>1. \A q \in Sqs : \A i \in Unfetched(q) : mem[q][i] \in Tags \ {done}
      BY <1>7 DEF TagInv, QueuedOk, Queued
    <2>2. \A q \in Sqs : \A i \in Unfetched(q) : rq'[mem[q][i]] = rq[mem[q][i]]
      BY <1>2, <2>1
    <2> QED
      BY <1>5, <2>2 DEF TagInv, QueuedOk
  <1>9. InsideOk'
    <2>1. \A t \in inside : t \in Tags \ {done}
      BY <1>1 DEF Typed, CtrlTypes
    <2> QED
      BY <1>2, <1>5, <2>1 DEF TagInv, InsideOk
  <1>10. PostedOk'
    <2>1. \A t \in Posted' : t \in Posted /\ t \in Tags \ {done}
      BY <1>4 DEF TagInv, PostedOk, Posted
    <2>2. \A t \in Posted' : rq'[t] = rq[t]
      BY <1>2, <2>1
    <2>3. \A t \in Posted' : rq'[t].st = "flight" /\ t \notin inside /\ t \notin Queued(rq'[t].sq)
      BY <2>1, <2>2 DEF TagInv, PostedOk
    <2>4. \A i \in Unhandled' : cqe'[i].tag \in Tags
      BY <1>3 DEF TagInv, PostedOk
    <2>5. \A i, j \in Unhandled' : cqe'[i].tag = cqe'[j].tag => i = j
      BY <1>3 DEF TagInv, PostedOk
    <2> QED
      BY <1>5, <2>3, <2>4, <2>5 DEF PostedOk
  <1>11. ReadyOk'
    <2>1. \A k \in DOMAIN batch.ready : batch.ready[k].tag \in Tags \ {done}
      BY <1>1, EntryTypes DEF TagInv, ReadyOk, Typed
    <2>2. \A k \in DOMAIN batch.ready : rq'[batch.ready[k].tag] = rq[batch.ready[k].tag]
      BY <1>2, <2>1
    <2>3. \A k \in DOMAIN batch.ready :
             LET r == batch.ready[k] IN
             /\ rq'[r.tag].st = "flight" /\ rq'[r.tag].sq = r.sq /\ r.sq = batch.ready[1].sq
             /\ r.tag \notin Posted' /\ r.tag \notin inside /\ r.tag \notin Queued(r.sq)
      BY ZenonT(30), <1>4, <2>2 DEF TagInv, ReadyOk
    <2> QED
      BY SMTT(30), <1>5, <2>3 DEF TagInv, ReadyOk
  <1>12. ListOk'
    <2>1. \A k \in DOMAIN batch.list : batch.list[k].tag \in Tags \ {done}
      BY <1>1, EntryTypes DEF TagInv, ListOk, Typed
    <2> QED
      BY <1>2, <2>1 DEF TagInv, ListOk
  <1>13. NoneLost'
    <2>1. rq'[done].st # "flight"
      BY <1>2 DEF Idle
    <2> QED
      BY <1>2, <1>4, <1>5, <1>6, <2>1 DEF TagInv, NoneLost
  <1> QED
    BY <1>1, <1>4, <1>8, <1>9, <1>10, <1>11, <1>12, <1>13 DEF TagInv, done

LEMMA HandleStep ==
  ASSUME QInv, NEW c \in Consumers, HandleCqe(c)
  PROVE  QInv'
  <1> USE DEF QInv, HandleCqe
  <1>1. /\ Cq \in Bells /\ Cq \notin Sqs /\ head.at \in Slots /\ post.at \in Slots
        /\ seen[Cq] \in Slots /\ head.at # post.at /\ cpc[c] # "idle"
    BY Sizes DEF Bells, Typed, ConsumerTypes, CtrlTypes, BellTypes, Alone
  <1>2. /\ head.at \in Unhandled /\ Unhandled' = Unhandled \ {head.at}
        /\ head' \in [at : Slots, phase : {0, 1}]
        /\ cqe' \in [Slots -> [tag : Tags \cup {None}, phase : {0, 1}]]
        /\ Dist(seen[Cq], head'.at) <= Dist(seen[Cq], post.at)
        /\ Dist(seen[Cq], head'.at) = Dist(seen[Cq], head.at) + 1
        /\ post.phase = PhaseAt(head', post.at)
        /\ \A i \in Slots : i \in Unhandled' <=> cqe'[i].phase = PhaseAt(head', i)
        /\ CqePending(head') <=> head'.at # post.at
    BY <1>1, HeadMoves
  <1>3. head'.at \in Slots
    BY <1>2
  <1>4. BellTypes' /\ \A d \in Bells \ {Cq} : Same(d)
    <2>1. CASE CqePending(head')
      BY <1>2, <2>1, TypeFrames DEF Typed, Same, bellVars
    <2>2. CASE ~CqePending(head')
      BY <1>1, <1>3, <2>2, BellStep DEF Typed, RingCqDb
    <2> QED
      BY <2>1, <2>2
  <1>5. /\ Alone'
        /\ cpc' \in [Consumers -> {"idle", "look", "handle", "event"}]
        /\ masked' \in BOOLEAN /\ polling' \in BOOLEAN
        /\ late' \in [tag : Tags \cup {None}, pc : {"idle", "poll", "decide"}, posted : BOOLEAN]
        /\ late'.tag = late.tag /\ late'.posted = late.posted
        /\ late'.pc # "idle" => late.pc # "idle"
        /\ CqePending(head') => cpc' = cpc
    <2>1. CASE CqePending(head')
      <3>1. UNCHANGED <<setup, cpc, masked, polling, late, post, shadow>> /\ head'.at # post.at
        BY <1>2, <2>1 DEF bellVars
      <3>2. \A d \in Consumers : cpc[d] # "event"
        BY OnlyOne
      <3>3. Alone'
        BY <3>1, <3>2 DEF Alone
      <3> QED
        BY <3>1, <3>3 DEF Typed, ConsumerTypes, TimeTypes
    <2>2. CASE ~CqePending(head') /\ Cq \in setup.shadow
      <3>1. /\ UNCHANGED <<setup, masked, polling, late, post>> /\ cpc' = [cpc EXCEPT ![c] = "event"]
            /\ shadow'[Cq] = head'.at
        BY <1>1, <2>2 DEF RingCqDb, WriteBell, Step, Typed, BellTypes
      <3>2. \A d \in Consumers : cpc'[d] = IF d = c THEN "event" ELSE "idle"
        BY <1>1, <3>1, OnlyOne DEF Typed, ConsumerTypes
      <3>3. \A d \in Consumers : cpc[d] = "idle" <=> cpc'[d] = "idle"
        BY <1>1, <3>2, OnlyOne
      <3>4. Alone'
        BY <1>1, <2>2, <3>1, <3>2, <3>3 DEF Alone, Consumers
      <3> QED
        BY <2>2, <3>1, <3>4 DEF Typed, ConsumerTypes, TimeTypes
    <2>3. CASE ~CqePending(head') /\ Cq \notin setup.shadow
      <3>1. Leave(c) /\ setup' = setup
        BY <2>3 DEF RingCqDb
      <3>2. c = "timeout" => late.pc # "idle"
        BY <1>1 DEF Alone
      <3> QED
        BY <1>1, <2>3, <3>1, <3>2, LeaveStep
    <2> QED
      BY <2>1, <2>2, <2>3
  <1>6. Typed'
    <2>1. RequestTypes'
      BY DEF Typed, RequestTypes, Idle
    <2>2. CtrlTypes' /\ ConsumerTypes'
      BY <1>2, <1>5 DEF Typed, CtrlTypes, ConsumerTypes
    <2>3. TimeTypes'
      BY <1>5 DEF Typed, TimeTypes
    <2> QED
      BY <1>4, <2>1, <2>2, <2>3, TypeFrames DEF Typed
  <1>7. CqInv'
    <2>1. CASE CqePending(head')
      <3>1. /\ seen' = seen /\ shadow' = shadow /\ sleep' = sleep /\ Dist(seen[Cq], head.at) \in Nat
            /\ Dist(seen[Cq], shadow[Cq]) \in Nat
        BY <1>1, <2>1, DistType DEF bellVars, Typed, BellTypes
      <3>2. Cq \in setup.shadow => Dist(seen[Cq], shadow[Cq]) <= Dist(seen[Cq], head'.at)
        BY <1>2, <3>1 DEF CqInv
      <3> QED
        BY <1>2, <3>1, <3>2 DEF CqInv
    <2>2. CASE ~CqePending(head') /\ Cq \in setup.shadow
      <3>1. /\ seen'[Cq] = seen[Cq] /\ shadow'[Cq] = head'.at /\ sleep' = sleep
            /\ Dist(seen[Cq], head'.at) \in Nat
        BY <1>1, <1>3, <2>2, DistType DEF RingCqDb, WriteBell, Typed, BellTypes
      <3> QED
        BY <1>2, <2>2, <3>1 DEF CqInv
    <2>3. CASE ~CqePending(head') /\ Cq \notin setup.shadow
      <3>1. /\ seen'[Cq] = head'.at /\ sleep' = sleep
            /\ Dist(head'.at, head'.at) = 0 /\ Dist(head'.at, post.at) \in Nat
        BY <1>1, <1>3, <2>3, DistType DEF RingCqDb, WriteBell, Typed, BellTypes
      <3> QED
        BY <1>2, <2>3, <3>1 DEF CqInv
    <2> QED
      BY <2>1, <2>2, <2>3
  <1>8. SqInv'
    BY <1>1, <1>4, SqFrame DEF Bells
  <1>9. /\ TagInv' /\ cqe[head.at].tag \in Tags /\ Posted' = Posted \ {cqe[head.at].tag}
    BY <1>2, <1>6, TagDone
  <1>10. LateInv'
    <2> SUFFICES ASSUME late.pc # "idle"
                 PROVE  /\ rq'[late.tag].st # "listed"
                        /\ late.posted /\ rq'[late.tag].st = "flight" =>
                             cpc'["timeout"] \in {"look", "handle"} /\ late.tag \in Posted'
      BY <1>5 DEF LateInv
    <2>1. late.tag \in Tags
      BY DEF Alone
    <2>2. CASE late.tag = cqe[head.at].tag
      <3>1. rq'[late.tag].st = "idle"
        BY <2>1, <2>2 DEF Idle
      <3> QED
        BY <3>1
    <2>3. CASE late.tag # cqe[head.at].tag
      <3>1. rq'[late.tag] = rq[late.tag]
        BY <2>1, <2>3
      <3>2. ASSUME late.posted, rq[late.tag].st = "flight"
            PROVE  cpc'["timeout"] \in {"look", "handle"} /\ late.tag \in Posted'
        <4>1. late.tag \in Posted' /\ cpc["timeout"] \in {"look", "handle"}
          BY <1>9, <2>3, <3>2 DEF LateInv
        <4>2. CqePending(head')
          <5>1. Unhandled' # {}
            BY <4>1 DEF Posted
          <5>2. head'.at = post.at => Unhandled' = {}
            BY <1>3 DEF Unhandled, Span, Slots
          <5> QED
            BY <1>2, <5>1, <5>2
        <4> QED
          BY <1>5, <4>1, <4>2
      <3> QED
        BY <3>1, <3>2 DEF LateInv
    <2> QED
      BY <2>2, <2>3
  <1> QED
    BY <1>5, <1>6, <1>7, <1>8, <1>9, <1>10

-----------------------------------------------------------------------------
(* The controller answers.                                                 *)
LEMMA PostMoves ==
  ASSUME Typed, CqInv, ~CqFull, NEW t \in Tags, head' = head,
         cqe' = [cqe EXCEPT ![post.at] = [tag |-> t, phase |-> post.phase]],
         post' = [at |-> Advance(post.at),
                  phase |-> IF Advance(post.at) = 0 THEN 1 - post.phase ELSE post.phase]
  PROVE  /\ post.at \notin Unhandled /\ Unhandled' = Unhandled \cup {post.at}
         /\ head.at # post'.at /\ post' \in [at : Slots, phase : {0, 1}]
         /\ Dist(seen[Cq], head.at) <= Dist(seen[Cq], post'.at)
         /\ post'.phase = PhaseAt(head, post'.at)
         /\ \A i \in Slots : i \in Unhandled' <=> cqe'[i].phase = PhaseAt(head, i)
  <1> DEFINE p == post.at
             v == Advance(p)
  <1>1. /\ p \in Slots /\ head.at \in Slots /\ v \in Slots /\ seen[Cq] \in Slots
        /\ head.phase \in {0, 1} /\ post.phase \in {0, 1}
    BY AdvanceType DEF Typed, ConsumerTypes, CtrlTypes, BellTypes, Bells
  <1>2. post'.at = v /\ post'.phase = IF v = 0 THEN 1 - post.phase ELSE post.phase
    OBVIOUS
  <1>3. /\ Dist(seen[Cq], v) = Dist(seen[Cq], p) + 1 /\ Dist(seen[Cq], head.at) \in Nat
        /\ Dist(seen[Cq], p) \in Nat /\ Dist(seen[Cq], head.at) <= Dist(seen[Cq], p)
    BY <1>1, AdvanceFar, DistType DEF CqFull, CqInv
  <1>4. v # head.at
    BY <1>3
  <1>5. p \notin Unhandled /\ Unhandled' = Unhandled \cup {p}
    BY <1>1, <1>2, <1>4, SpanFar DEF Unhandled
  <1>6. post' \in [at : Slots, phase : {0, 1}]
    BY <1>1, <1>2
  <1>7. \A i \in Slots : cqe'[i].phase = IF i = p THEN post.phase ELSE cqe[i].phase
    BY <1>1 DEF Typed, CtrlTypes
  <1>8. post.phase = PhaseAt(head, p)
    BY DEF CqInv
  <1>9. post'.phase = PhaseAt(head, v)
    BY <1>1, <1>2, <1>4, <1>8, Sizes DEF PhaseAt, Advance, Slots
  <1>10. \A i \in Slots : i \in Unhandled' <=> cqe'[i].phase = PhaseAt(head, i)
    BY <1>5, <1>7, <1>8 DEF CqInv
  <1> QED
    BY <1>2, <1>3, <1>4, <1>5, <1>6, <1>9, <1>10

LEMMA PostStep ==
  ASSUME QInv, NEW t \in Tags, NEW raised \in BOOLEAN, PostCqe(t, raised)
  PROVE  QInv'
  <1> USE DEF QInv, PostCqe, driverVars, bellVars
  <1>1. /\ post.at \notin Unhandled /\ Unhandled' = Unhandled \cup {post.at}
        /\ head.at # post'.at /\ post' \in [at : Slots, phase : {0, 1}]
        /\ Dist(seen[Cq], head.at) <= Dist(seen[Cq], post'.at)
        /\ post'.phase = PhaseAt(head, post'.at)
        /\ \A i \in Slots : i \in Unhandled' <=> cqe'[i].phase = PhaseAt(head, i)
    BY PostMoves
  <1>2. /\ post.at \in Slots /\ cqe \in [Slots -> [tag : Tags \cup {None}, phase : {0, 1}]]
        /\ post.phase \in {0, 1} /\ inside \subseteq Tags
    BY DEF Typed, CtrlTypes
  <1>3. Typed'
    <2>1. CtrlTypes'
      BY <1>1, <1>2 DEF Typed, CtrlTypes
    <2>2. ConsumerTypes'
      BY DEF Typed, ConsumerTypes
    <2>3. TimeTypes'
      BY SetupType DEF Typed, TimeTypes
    <2> QED
      BY <2>1, <2>2, <2>3, TypeFrames DEF Typed
  <1>4. Alone'
    BY <1>1 DEF Alone
  <1>5. CqInv'
    BY <1>1 DEF CqInv
  <1>6. SqInv'
    BY SqFrame DEF Same
  <1>7. cqe'[post.at].tag = t /\ \A i \in Unhandled : cqe'[i] = cqe[i]
    BY <1>1, <1>2
  <1>8. Posted' = Posted \cup {t}
    BY <1>1, <1>7 DEF Posted
  <1>9. TagInv'
    <2>1. \A q : Unfetched(q)' = Unfetched(q) /\ Queued(q)' = Queued(q)
      BY DEF Unfetched, Queued
    <2>2. Prepared' = Prepared
      BY DEF Prepared
    <2>3. t \in inside /\ t \notin Posted /\ rq[t].st = "flight" /\ t \notin Queued(rq[t].sq)
      BY DEF TagInv, InsideOk, PostedOk
    <2>4. QueuedOk'
      BY <2>1 DEF TagInv, QueuedOk
    <2>5. InsideOk'
      BY <2>1 DEF TagInv, InsideOk
    <2>6. PostedOk'
      <3>1. \A i \in Unhandled' : cqe'[i].tag \in Tags
        BY <1>1, <1>7 DEF TagInv, PostedOk
      <3>2. \A i, j \in Unhandled' : cqe'[i].tag = cqe'[j].tag => i = j
        <4>1. \A i \in Unhandled : cqe'[i].tag # t
          BY <1>7, <2>3 DEF Posted
        <4> QED
          BY <1>1, <1>7, <4>1 DEF TagInv, PostedOk
      <3>3. \A u \in Posted' : rq[u].st = "flight" /\ u \notin inside' /\ u \notin Queued(rq[u].sq)
        BY <1>8, <2>3 DEF TagInv, PostedOk
      <3> QED
        BY <2>1, <3>1, <3>2, <3>3 DEF PostedOk
    <2>7. ReadyOk'
      <3>1. \A k \in DOMAIN batch.ready :
              LET r == batch.ready[k] IN
              /\ rq[r.tag].st = "flight" /\ rq[r.tag].sq = r.sq /\ r.sq = batch.ready[1].sq
              /\ r.tag \notin Posted' /\ r.tag \notin inside' /\ r.tag \notin Queued(r.sq)
        BY <1>8, <2>3 DEF TagInv, ReadyOk
      <3> QED
        BY <2>1, <3>1 DEF TagInv, ReadyOk
    <2>8. ListOk'
      BY DEF TagInv, ListOk
    <2>9. NoneLost'
      BY <1>8, <2>1, <2>2 DEF TagInv, NoneLost
    <2> QED
      BY <2>4, <2>5, <2>6, <2>7, <2>8, <2>9 DEF TagInv
  <1>10. LateInv'
    BY <1>8 DEF LateInv
  <1> QED
    BY <1>3, <1>4, <1>5, <1>6, <1>9, <1>10

(* The controller fetches. *)
LEMMA FetchMoves ==
  ASSUME Typed, SqInv, NEW q \in Sqs, fetch[q] # seen[q], tail' = tail,
         fetch' = [fetch EXCEPT ![q] = Advance(@)],
         mem' = [mem EXCEPT ![q][fetch[q]] = None]
  PROVE  /\ fetch[q] \in Unfetched(q) /\ Unfetched(q)' = Unfetched(q) \ {fetch[q]}
         /\ \A i \in Unfetched(q)' : mem'[q][i] = mem[q][i]
         /\ \A p \in Sqs \ {q} : Unfetched(p)' = Unfetched(p) /\ mem'[p] = mem[p]
         /\ fetch' \in [Sqs -> Slots] /\ mem' \in [Sqs -> [Slots -> Tags \cup {None}]]
         /\ \A a \in {tail[q], seen[q]} : Dist(fetch[q]', a) = Dist(fetch[q], a) - 1
         /\ q \in setup.shadow => Dist(fetch[q]', shadow[q]) = Dist(fetch[q], shadow[q]) - 1
  <1>1. /\ fetch[q] \in Slots /\ tail[q] \in Slots /\ seen[q] \in Slots /\ shadow[q] \in Slots
        /\ fetch'[q] = Advance(fetch[q]) /\ Advance(fetch[q]) \in Slots
        /\ \A p \in Sqs \ {q} : fetch'[p] = fetch[p]
    BY AdvanceType DEF Typed, CtrlTypes, RingTypes, BellTypes, Bells
  <1>2. /\ Dist(fetch[q], seen[q]) \in Nat /\ Dist(fetch[q], seen[q]) # 0
        /\ Dist(fetch[q], tail[q]) \in Nat /\ Dist(fetch[q], shadow[q]) \in Nat
    BY <1>1, DistType
  <1>3. fetch[q] # tail[q] /\ (q \in setup.shadow => fetch[q] # shadow[q])
    <2>1. Dist(fetch[q], tail[q]) # 0 /\ (q \in setup.shadow => Dist(fetch[q], shadow[q]) # 0)
      BY <1>2 DEF SqInv, SqOk
    <2> QED
      BY <1>1, <2>1, DistType
  <1>4. /\ fetch[q] \in Unfetched(q) /\ Unfetched(q)' = Unfetched(q) \ {fetch[q]}
        /\ Unfetched(q) \subseteq Slots
    <2>1. Unfetched(q)' = Span(fetch'[q], tail[q])
      BY DEF Unfetched, Span
    <2>2. Span(fetch[q], tail[q]) \subseteq Slots
      BY DEF Span
    <2> QED
      BY <1>1, <1>3, <2>1, <2>2, AdvanceNear DEF Unfetched
  <1>5. mem' \in [Sqs -> [Slots -> Tags \cup {None}]]
        /\ \A i \in Slots \ {fetch[q]} : mem'[q][i] = mem[q][i]
        /\ \A p \in Sqs \ {q} : mem'[p] = mem[p]
    BY <1>1 DEF Typed, RingTypes
  <1>6. \A p \in Sqs \ {q} : Unfetched(p)' = Unfetched(p)
    BY <1>1 DEF Unfetched, Span
  <1>7. fetch' \in [Sqs -> Slots]
    BY <1>1 DEF Typed, CtrlTypes
  <1>8. /\ Dist(fetch[q]', tail[q]) = Dist(fetch[q], tail[q]) - 1
        /\ Dist(fetch[q]', seen[q]) = Dist(fetch[q], seen[q]) - 1
        /\ q \in setup.shadow => Dist(fetch[q]', shadow[q]) = Dist(fetch[q], shadow[q]) - 1
    BY <1>1, <1>3, AdvanceNear
  <1> QED
    BY <1>4, <1>5, <1>6, <1>7, <1>8

(* The fetched command leaves its ring. *)
LEMMA FetchTags ==
  ASSUME QInv, NEW q \in Sqs, FetchCmd(q)
  PROVE  /\ mem[q][fetch[q]] \in Queued(q) /\ Queued(q)' = Queued(q) \ {mem[q][fetch[q]]}
         /\ \A p \in Sqs \ {q} : Queued(p)' = Queued(p)
         /\ TagInv' /\ Posted' = Posted
  <1> USE DEF QInv, FetchCmd
  <1> DEFINE t == mem[q][fetch[q]]
  <1>1. /\ fetch[q] \in Unfetched(q) /\ Unfetched(q)' = Unfetched(q) \ {fetch[q]}
        /\ \A i \in Unfetched(q)' : mem'[q][i] = mem[q][i]
        /\ \A p \in Sqs \ {q} : Unfetched(p)' = Unfetched(p) /\ mem'[p] = mem[p]
    BY FetchMoves
  <1>2. t \in Tags /\ rq[t].st = "flight" /\ rq[t].sq = q /\ t \in Queued(q)
    BY <1>1 DEF TagInv, QueuedOk, Queued
  <1>3. \A i \in Unfetched(q)' : i \in Unfetched(q) /\ mem[q][i] # t
    BY <1>1 DEF TagInv, QueuedOk
  <1>4. Queued(q)' = Queued(q) \ {t}
    <2>1. Queued(q)' = {mem[q][i] : i \in Unfetched(q)'}
      BY <1>1 DEF Queued
    <2> QED
      BY <1>1, <1>3, <2>1 DEF Queued
  <1>5. \A p \in Sqs \ {q} : Queued(p)' = Queued(p)
    BY <1>1 DEF Queued
  <1>6. Posted' = Posted /\ Unhandled' = Unhandled /\ Prepared' = Prepared
    BY DEF Posted, Unhandled, Prepared, cqVars
  <1> HIDE DEF t
  <1>7. inside' = inside \cup {t}
    BY DEF t
  <1>8. \A p \in Sqs : Queued(p)' \subseteq Queued(p) /\ t \notin Queued(p)'
    <2>1. \A p \in Sqs \ {q} : t \notin Queued(p)
      BY <1>2 DEF TagInv, QueuedOk, Queued
    <2> QED
      BY <1>4, <1>5, <2>1
  <1>9. t \notin Posted
    BY <1>2 DEF TagInv, PostedOk
  <1>10. QueuedOk'
    BY <1>1, <1>3 DEF TagInv, QueuedOk
  <1>11. InsideOk'
    <2>1. \A u \in inside : rq[u].st = "flight" /\ u \notin Queued(rq[u].sq) /\ rq[u].sq \in Sqs
      BY DEF TagInv, InsideOk, NoneLost, Typed, CtrlTypes
    <2>2. rq' = rq
      OBVIOUS
    <2> QED
      BY <1>2, <1>7, <1>8, <2>1, <2>2 DEF InsideOk
  <1>12. PostedOk'
    <2>1. \A u \in Posted : /\ rq[u].st = "flight" /\ u \notin inside' /\ u \notin Queued(rq[u].sq)
                            /\ rq[u].sq \in Sqs
      BY <1>7, <1>9 DEF TagInv, PostedOk, Posted, NoneLost
    <2>2. rq' = rq /\ cqe' = cqe
      OBVIOUS
    <2>3. \A u \in Posted' : rq'[u].st = "flight" /\ u \notin inside'
      BY <1>6, <2>1, <2>2
    <2>4. \A u \in Posted : \A p \in Sqs : rq[u].sq = p => u \notin Queued(p)'
      BY <1>8, <2>1
    <2>5. (\A u \in Posted : u \notin Queued(rq[u].sq))'
      BY <1>6, <2>1, <2>2, <2>4
    <2> QED
      BY <1>6, <2>2, <2>3, <2>5 DEF TagInv, PostedOk
  <1>13. ReadyOk'
    <2>1. rq' = rq /\ batch' = batch
      OBVIOUS
    <2>2. ASSUME NEW k \in DOMAIN batch.ready
          PROVE  /\ batch.ready[k].sq \in Sqs /\ batch.ready[k].tag \notin inside'
                 /\ batch.ready[k].tag \notin Queued(batch.ready[k].sq)'
      <3>1. batch.ready[k].sq \in Sqs /\ batch.ready[k].tag \notin Queued(batch.ready[k].sq)
            /\ batch.ready[k].tag \notin inside /\ rq[batch.ready[k].tag].sq = batch.ready[k].sq
        BY EntryTypes DEF TagInv, ReadyOk, Typed
      <3> QED
        BY <1>2, <1>7, <1>8, <3>1
    <2> QED
      BY <1>6, <2>1, <2>2 DEF TagInv, ReadyOk
  <1>14. ListOk'
    BY DEF TagInv, ListOk
  <1>15. NoneLost'
    <2>1. rq' = rq
      OBVIOUS
    <2>2. \A u \in Tags : \A p \in Sqs : u \in Queued(p) => u \in Queued(p)' \/ u \in inside'
      BY <1>4, <1>5, <1>7
    <2> QED
      BY <1>6, <1>7, <2>1, <2>2 DEF TagInv, NoneLost
  <1> QED
    BY <1>2, <1>4, <1>5, <1>6, <1>10, <1>11, <1>12, <1>13, <1>14, <1>15 DEF TagInv, t

LEMMA FetchStep ==
  ASSUME QInv, NEW q \in Sqs, FetchCmd(q)
  PROVE  QInv'
  <1> USE DEF QInv, FetchCmd, bellVars, cqVars, timeVars
  <1>1. /\ fetch' \in [Sqs -> Slots] /\ mem' \in [Sqs -> [Slots -> Tags \cup {None}]]
        /\ \A a \in {tail[q], seen[q]} : Dist(fetch[q]', a) = Dist(fetch[q], a) - 1
        /\ q \in setup.shadow => Dist(fetch[q]', shadow[q]) = Dist(fetch[q], shadow[q]) - 1
        /\ fetch[q] \in Unfetched(q)
    BY FetchMoves
  <1>2. mem[q][fetch[q]] \in Tags
    BY <1>1 DEF TagInv, QueuedOk
  <1>3. Typed'
    <2>1. RingTypes'
      BY <1>1 DEF Typed, RingTypes
    <2>2. CtrlTypes'
      BY <1>1, <1>2 DEF Typed, CtrlTypes
    <2>3. RequestTypes'
      BY DEF Typed, RequestTypes
    <2> QED
      BY <2>1, <2>2, <2>3, TypeFrames DEF Typed
  <1>4. Alone'
    BY AloneFrame
  <1>5. CqInv'
    BY CqFrame
  <1>6. SqInv'
    <2>1. ASSUME NEW p \in Sqs, p # q
          PROVE  SqOk(p)'
      BY <2>1 DEF SqInv, SqOk, Typed, CtrlTypes
    <2>2. SqOk(q)'
      <3>1. fetch'[q] = fetch[q]' /\ SqOk(q)
        BY DEF SqInv
      <3>2. /\ Dist(fetch[q], tail[q]) \in Nat /\ Dist(fetch[q], seen[q]) \in Nat
            /\ Dist(fetch[q], shadow[q]) \in Nat
        BY DistType DEF Typed, RingTypes, CtrlTypes, BellTypes, Bells
      <3>3. Dist(fetch'[q], seen[q]) <= Dist(fetch'[q], tail[q])
        BY <1>1, <3>1, <3>2 DEF SqOk
      <3>4. q \in setup.shadow => /\ Dist(fetch'[q], seen[q]) <= Dist(fetch'[q], shadow[q])
                                  /\ Dist(fetch'[q], shadow[q]) <= Dist(fetch'[q], tail[q])
        BY <1>1, <3>1, <3>2 DEF SqOk
      <3> QED
        BY <3>1, <3>3, <3>4 DEF SqOk
    <2> QED
      BY <2>1, <2>2 DEF SqInv
  <1>7. TagInv'
    BY FetchTags
  <1>8. LateInv'
    BY LateFrame
  <1> QED
    BY <1>3, <1>4, <1>5, <1>6, <1>7, <1>8

-----------------------------------------------------------------------------
(* Free tags, and the room they leave in a ring.                           *)
LEMMA MinIsMember ==
  ASSUME NEW S \in SUBSET Nat, S # {}
  PROVE  \E m \in S : Min(S) = m /\ \A s \in S : m <= s
  <1>1. PICK m \in S : \A s \in S : <<s, m>> \notin OpToRel(<, Nat)
    BY WFMin, NatLessThanWellFounded, Zenon
  <1>2. \A s \in S : ~(s < m)
    BY <1>1 DEF OpToRel
  <1>3. \A s \in S : m <= s
    BY <1>2
  <1>4. \A x \in S : (\A s \in S : x <= s) => x = m
    BY <1>3
  <1> QED
    BY <1>3, <1>4 DEF Min

LEMMA MaxExists ==
  ASSUME NEW S \in SUBSET Nat, NEW n \in Nat, S # {}, \A s \in S : s <= n
  PROVE  \E m \in S : \A s \in S : s <= m
  <1> DEFINE R == {n - s : s \in S}
  <1>1. R \in SUBSET Nat /\ R # {}
    <2>1. \A s \in S : n - s \in Nat
      OBVIOUS
    <2> QED
      BY <2>1
  <1>2. PICK r \in R : \A x \in R : r <= x
    BY <1>1, MinIsMember
  <1>3. PICK m \in S : r = n - m
    BY <1>2
  <1>4. \A s \in S : n - s \in R
    OBVIOUS
  <1>5. \A s \in S : n - m <= n - s
    BY <1>2, <1>3, <1>4
  <1> QED
    BY <1>3, <1>5

(* The members of a set of naturals have the ranks 0, 1, ... *)
Rank(S, t) == Cardinality({u \in S : u < t})

LEMMA RankType ==
  ASSUME NEW S \in SUBSET Nat, IsFiniteSet(S), NEW t \in Nat
  PROVE  IsFiniteSet({u \in S : u < t}) /\ Rank(S, t) \in Nat
  BY FS_Subset, FS_CardinalityType DEF Rank

LEMMA RankAbove ==
  ASSUME NEW S \in SUBSET Nat, IsFiniteSet(S), NEW t \in Nat, NEW m \in S, m < t,
         \A u \in S : u < t => u <= m
  PROVE  Rank(S, t) = Rank(S, m) + 1
  <1> DEFINE B == {u \in S : u < m}
  <1>1. {u \in S : u < t} = B \cup {m} /\ m \notin B
    <2>1. \A u \in S : u \in Nat /\ (u < t <=> u < m \/ u = m)
      OBVIOUS
    <2>2. \A u : u \in {x \in S : x < t} <=> u \in B \cup {m}
      BY <2>1
    <2>3. m \notin B
      OBVIOUS
    <2> QED
      BY <2>2, <2>3
  <1>2. IsFiniteSet(B)
    BY RankType
  <1> QED
    BY <1>1, <1>2, FS_AddElement DEF Rank

LEMMA RankExists ==
  ASSUME NEW n \in Nat, NEW S \in SUBSET (0 .. n), NEW k \in Nat, k < Cardinality(S)
  PROVE  \E t \in S : Rank(S, t) = k
  <1> DEFINE A == {t \in 0 .. n + 1 : Rank(S, t) > k}
  <1>1. IsFiniteSet(S) /\ S \in SUBSET Nat
    <2>1. IsFiniteSet(0 .. n)
      BY FS_Interval
    <2>2. IsFiniteSet(S)
      BY <2>1, FS_Subset
    <2> QED
      BY <2>2
  <1>2. n + 1 \in A
    <2>1. \A u \in S : u < n + 1
      OBVIOUS
    <2>2. {u \in S : u < n + 1} = S
      BY <2>1
    <2> QED
      BY <2>2 DEF Rank
  <1>3. PICK a \in A : \A x \in A : a <= x
    <2>1. A \in SUBSET Nat /\ A # {}
      BY <1>2
    <2> HIDE DEF A
    <2> QED
      BY <2>1, MinIsMember
  <1>4. a \in Nat /\ a <= n + 1 /\ Rank(S, a) > k /\ Rank(S, a) \in Nat
    <2>1. a \in Nat /\ a <= n + 1 /\ Rank(S, a) > k
      BY <1>3
    <2> QED
      BY <1>1, <2>1, RankType
  <1>5. {u \in S : u < a} # {}
    BY <1>4, FS_EmptySet DEF Rank
  <1>6. PICK m \in {u \in S : u < a} : \A u \in {x \in S : x < a} : u <= m
    <2> DEFINE T == {u \in S : u < a}
    <2>1. T # {} /\ \A u \in S : u \in Nat
      BY <1>1, <1>5
    <2>2. \A u \in T : u \in Nat /\ u <= a
      BY <1>4, <2>1
    <2> HIDE DEF T
    <2>3. T \in SUBSET Nat
      BY <2>2
    <2>4. \E m \in T : \A u \in T : u <= m
      BY <1>4, <2>1, <2>2, <2>3, MaxExists
    <2> QED
      BY <2>4 DEF T
  <1>7. Rank(S, a) = Rank(S, m) + 1 /\ Rank(S, m) \in Nat
    BY <1>1, <1>4, <1>6, RankAbove, RankType
  <1>8. m \notin A /\ m \in 0 .. n
    BY <1>3, <1>4, <1>6
  <1> QED
    BY <1>4, <1>6, <1>7, <1>8

(* Commands with tags of their own find room: a ring has one slot more     *)
(* than there are tags.                                                    *)
LEMMA Room ==
  ASSUME Typed, QueuedOk, NEW q \in Sqs, NEW ts \in Seq(Tags),
         \A k \in DOMAIN ts : ts[k] \notin Queued(q),
         \A k, l \in DOMAIN ts : ts[k] = ts[l] => k = l
  PROVE  Dist(fetch[q], tail[q]) + Len(ts) <= Depth - 1
  <1> DEFINE D == Dist(fetch[q], tail[q])
             n == Len(ts)
             at(k) == (fetch[q] + (k - 1)) % Depth
             g == [k \in 1 .. D + n |-> IF k <= D THEN mem[q][at(k)] ELSE ts[k - D]]
  <1>1. D \in Nat /\ D \in Slots /\ n \in Nat /\ DOMAIN ts = 1 .. n
        /\ fetch[q] \in Slots /\ tail[q] \in Slots
    BY DistType DEF Typed, RingTypes, CtrlTypes
  <1>2. ASSUME NEW k \in 1 .. D
        PROVE  /\ at(k) \in Unfetched(q) /\ at(k) \in Slots /\ Dist(fetch[q], at(k)) = k - 1
               /\ mem[q][at(k)] \in Tags
    <2>1. k - 1 \in Slots /\ k - 1 < D
      <3> HIDE DEF D
      <3> QED
        BY <1>1, Sizes DEF Slots
    <2>2. at(k) \in Slots /\ Dist(fetch[q], at(k)) = k - 1
      BY <1>1, <2>1, SlotAhead
    <2>3. at(k) \in Unfetched(q)
      BY <1>1, <2>1, <2>2, SpanDist DEF Unfetched
    <2> QED
      BY <2>2, <2>3 DEF QueuedOk
  <1> HIDE DEF D, n, at
  <1>3. \A k \in 1 .. D + n : k > D => k - D \in DOMAIN ts /\ ts[k - D] \in Tags
    BY <1>1
  <1>4. g \in [1 .. D + n -> Tags]
    <2>1. ASSUME NEW k \in 1 .. D + n PROVE g[k] \in Tags
      <3>1. CASE k <= D
        <4>1. k \in 1 .. D
          BY <1>1, <3>1
        <4> QED
          BY <1>2, <3>1, <4>1
      <3>2. CASE k > D
        BY <1>1, <1>3, <3>2
      <3> QED
        BY <1>1, <3>1, <3>2
    <2> QED
      BY <2>1
  <1>5. ASSUME NEW k \in 1 .. D + n, NEW l \in 1 .. D + n, g[k] = g[l], k <= D
        PROVE  k = l
    <2>1. k \in 1 .. D
      BY <1>1, <1>5
    <2>2. CASE l <= D
      <3>1. l \in 1 .. D
        BY <1>1, <2>2
      <3>2. mem[q][at(k)] = mem[q][at(l)]
        BY <1>5, <2>2
      <3>3. at(k) = at(l)
        BY <1>2, <2>1, <3>1, <3>2 DEF QueuedOk
      <3> QED
        BY <1>1, <1>2, <2>1, <3>1, <3>3
    <2>3. CASE l > D
      <3>1. mem[q][at(k)] = ts[l - D]
        BY <1>1, <1>5, <2>3
      <3>2. mem[q][at(k)] \in Queued(q)
        BY <1>2, <2>1 DEF Queued
      <3> QED
        BY <1>3, <2>3, <3>1, <3>2
    <2> QED
      BY <1>1, <2>2, <2>3
  <1>6. ASSUME NEW k \in 1 .. D + n, NEW l \in 1 .. D + n, g[k] = g[l], k > D, l > D
        PROVE  k = l
    <2>1. ts[k - D] = ts[l - D]
      BY <1>1, <1>6
    <2>2. k - D = l - D
      BY <1>3, <1>6, <2>1
    <2> QED
      BY <1>1, <2>2
  <1>7. IsFiniteSet(Tags) /\ Cardinality(Tags) = Depth - 1
    BY Sizes, FS_Interval DEF Tags
  <1>8. IsFiniteSet(1 .. D + n) /\ Cardinality(1 .. D + n) = D + n
    <2>1. 1 \in Int /\ D + n \in Int /\ (1 > D + n => D + n = 0)
      BY <1>1
    <2> QED
      BY <2>1, FS_Interval
  <1>9. ~(Depth - 1 < D + n)
    <2>1. SUFFICES ASSUME Depth - 1 < D + n PROVE FALSE
      OBVIOUS
    <2> HIDE DEF g
    <2>2. PICK x, y \in 1 .. D + n : x # y /\ g[x] = g[y]
      BY ZenonT(30), <1>4, <1>7, <1>8, <2>1, FS_PigeonHole
    <2> QED
      BY <1>1, <1>5, <1>6, <2>2
  <1> QED
    BY <1>1, <1>9, Sizes DEF D, n

(* nvme_sq_copy_cmd() and its turns in nvme_submit_cmds(). *)
LEMMA Copied ==
  ASSUME Typed, NEW q \in Sqs, NEW ts \in Seq(Tags), CopyTo(q, ts), fetch' = fetch,
         Dist(fetch[q], tail[q]) + Len(ts) <= Depth - 1
  PROVE  /\ tail' = [tail EXCEPT ![q] = tail'[q]] /\ tail'[q] \in Slots
         /\ Dist(fetch[q], tail'[q]) = Dist(fetch[q], tail[q]) + Len(ts)
         /\ mem' \in [Sqs -> [Slots -> Tags \cup {None}]]
         /\ \A p \in Sqs \ {q} : mem'[p] = mem[p] /\ tail'[p] = tail[p]
         /\ \A i \in Unfetched(q) : i \in Unfetched(q)' /\ mem'[q][i] = mem[q][i]
         /\ \A i \in Unfetched(q)' \ Unfetched(q) :
              \E k \in DOMAIN ts : Dist(tail[q], i) = k - 1 /\ mem'[q][i] = ts[k]
         /\ \A k \in DOMAIN ts : \E i \in Unfetched(q)' : mem'[q][i] = ts[k]
  <1> DEFINE f == fetch[q]
             t == tail[q]
             n == Len(ts)
             at(k) == (t + k - 1) % Depth
  <1>1. /\ f \in Slots /\ t \in Slots /\ n \in Nat /\ n \in Slots /\ DOMAIN ts = 1 .. n
        /\ Dist(f, t) \in Nat /\ Dist(f, t) + n <= Depth - 1 /\ Depth \in Nat /\ Depth >= 2
    <2>1. f \in Slots /\ t \in Slots /\ n \in Nat /\ DOMAIN ts = 1 .. n
      BY DEF Typed, RingTypes, CtrlTypes
    <2>2. Dist(f, t) \in Nat
      BY <2>1, DistType
    <2>3. n \in Slots
      BY <2>1, <2>2, Sizes DEF Slots
    <2> QED
      BY <2>1, <2>2, <2>3, Sizes
  <1>2. ASSUME NEW k \in 1 .. n + 1
        PROVE  /\ at(k) \in Slots /\ Dist(t, at(k)) = k - 1
               /\ \A i \in Slots : at(k) = i <=> k - 1 = Dist(t, i)
    <2>1. k - 1 \in Slots /\ t + k - 1 = t + (k - 1)
      BY <1>1 DEF Slots
    <2> QED
      BY <1>1, <2>1, SlotAhead
  <1>3. tail' = [tail EXCEPT ![q] = at(n + 1)] /\ tail'[q] = at(n + 1)
    BY DEF CopyTo, Typed, RingTypes
  <1>4. mem' = [mem EXCEPT ![q] = [i \in Slots |->
                  IF \E k \in 1 .. n : at(k) = i
                  THEN ts[CHOOSE k \in 1 .. n : at(k) = i] ELSE mem[q][i]]]
    BY DEF CopyTo
  <1> HIDE DEF at, f, t, n
  <1>5. n + 1 \in 1 .. n + 1 /\ \A k \in 1 .. n : k \in 1 .. n + 1
    BY <1>1
  <1>6. tail'[q] \in Slots /\ Dist(t, tail'[q]) = n
    BY <1>1, <1>2, <1>3, <1>5
  <1>7. ASSUME NEW i \in Slots
        PROVE  mem'[q][i] = IF Dist(t, i) < n THEN ts[Dist(t, i) + 1] ELSE mem[q][i]
    <2>1. mem'[q][i] = IF \E k \in 1 .. n : at(k) = i
                       THEN ts[CHOOSE k \in 1 .. n : at(k) = i] ELSE mem[q][i]
      BY <1>4 DEF Typed, RingTypes
    <2>2. \A k \in 1 .. n : at(k) = i <=> k = Dist(t, i) + 1
      <3>1. Dist(t, i) \in Nat /\ \A k \in 1 .. n : k \in 1 .. n + 1 /\ k \in Nat
        BY <1>1, <1>5, DistType
      <3>2. \A k \in 1 .. n : at(k) = i <=> k - 1 = Dist(t, i)
        BY <1>2, <3>1
      <3>3. \A k \in Nat, d \in Nat : k - 1 = d <=> k = d + 1
        OBVIOUS
      <3> QED
        BY <3>1, <3>2, <3>3
    <2>3. Dist(t, i) \in Nat
      BY <1>1, DistType
    <2>4. CASE Dist(t, i) < n
      <3>1. Dist(t, i) + 1 \in 1 .. n
        BY <1>1, <2>3, <2>4
      <3>2. (CHOOSE k \in 1 .. n : at(k) = i) = Dist(t, i) + 1
        BY <2>2, <3>1
      <3> QED
        BY <2>1, <2>2, <2>4, <3>1, <3>2
    <2>5. CASE ~(Dist(t, i) < n)
      <3>1. \A k \in 1 .. n : at(k) # i
        BY <1>1, <2>2, <2>3, <2>5
      <3> QED
        BY <2>1, <2>5, <3>1
    <2> QED
      BY <2>4, <2>5
  <1>8. mem' \in [Sqs -> [Slots -> Tags \cup {None}]] /\ \A p \in Sqs \ {q} : mem'[p] = mem[p]
    <2>1. \A i \in Slots : mem'[q][i] \in Tags \cup {None}
      <3>1. \A i \in Slots : Dist(t, i) \in Nat
        BY <1>1, DistType
      <3>2. \A i \in Slots : Dist(t, i) < n => ts[Dist(t, i) + 1] \in Tags
        BY <1>1, <3>1
      <3> QED
        BY <1>7, <3>2 DEF Typed, RingTypes
    <2>2. \A p \in Sqs \ {q} : mem'[p] = mem[p]
      BY <1>4 DEF Typed, RingTypes
    <2>3. mem'[q] \in [Slots -> Tags \cup {None}]
      BY <1>4, <2>1 DEF Typed, RingTypes
    <2> QED
      BY <1>4, <2>2, <2>3 DEF Typed, RingTypes
  <1>9. Dist(f, tail'[q]) = Dist(f, t) + n
    BY ZenonT(40), <1>1, <1>6, DistAdd
  <1>10. Unfetched(q) = Span(f, t) /\ Unfetched(q)' = Span(f, tail'[q])
    BY DEF Unfetched, f, t, Span
  <1>11. ASSUME NEW i \in Slots
         PROVE  /\ i \in Unfetched(q) <=> Dist(f, i) < Dist(f, t)
                /\ i \in Unfetched(q)' <=> Dist(f, i) < Dist(f, t) + n
    BY <1>1, <1>6, <1>9, <1>10, SpanDist
  <1>12. ASSUME NEW i \in Slots
         PROVE  /\ Dist(f, i) < Dist(f, t) => ~(Dist(t, i) < n)
                /\ Dist(t, i) < n <=> ~(Dist(f, i) < Dist(f, t)) /\ Dist(f, i) < Dist(f, t) + n
    <2>1. /\ Dist(t, i) \in Nat /\ Dist(t, i) < Depth
          /\ Dist(f, i) \in Nat /\ Dist(f, i) < Depth
      <3>1. Dist(t, i) \in Slots /\ Dist(f, i) \in Slots
        BY <1>1, DistType
      <3>2. \A d \in Slots : d \in Nat /\ d < Depth
        BY <1>1 DEF Slots
      <3> QED
        BY <3>1, <3>2
    <2>2. Dist(f, t) + Dist(t, i) = Dist(f, i) \/ Dist(f, t) + Dist(t, i) = Dist(f, i) + Depth
      BY <1>1, DistSplit
    <2>3. \A x, y, z, m, d \in Nat :
            /\ y < d /\ z < d /\ x + m <= d - 1 /\ (x + y = z \/ x + y = z + d)
            => (z < x => ~(y < m)) /\ (y < m <=> ~(z < x) /\ z < x + m)
      OBVIOUS
    <2> QED
      BY <1>1, <2>1, <2>2, <2>3
  <1>13. Unfetched(q) \subseteq Slots /\ Unfetched(q)' \subseteq Slots
    BY <1>10 DEF Span
  <1>14. ASSUME NEW i \in Unfetched(q)
         PROVE  i \in Unfetched(q)' /\ mem'[q][i] = mem[q][i]
    <2>1. i \in Slots /\ Dist(f, i) \in Nat /\ Dist(f, i) < Dist(f, t)
      BY <1>1, <1>11, <1>13, <1>14, DistType
    <2>2. ~(Dist(t, i) < n) /\ Dist(f, i) < Dist(f, t) + n
      BY <1>1, <1>12, <2>1
    <2> QED
      BY <1>7, <1>11, <2>1, <2>2
  <1>15. ASSUME NEW i \in Unfetched(q)' \ Unfetched(q)
         PROVE  \E k \in DOMAIN ts : Dist(tail[q], i) = k - 1 /\ mem'[q][i] = ts[k]
    <2>1. i \in Slots /\ Dist(t, i) < n /\ Dist(t, i) \in Nat
      BY <1>1, <1>11, <1>12, <1>13, DistType
    <2>2. Dist(t, i) + 1 \in DOMAIN ts /\ Dist(t, i) = Dist(t, i) + 1 - 1
      BY <1>1, <2>1
    <2>3. mem'[q][i] = ts[Dist(t, i) + 1]
      BY <1>7, <2>1
    <2> DEFINE d == Dist(t, i) + 1
    <2>4. d \in DOMAIN ts /\ mem'[q][i] = ts[d] /\ Dist(t, i) = d - 1
      BY <2>1, <2>2, <2>3
    <2> HIDE DEF d
    <2>5. Dist(tail[q], i) = d - 1
      BY <2>4 DEF t
    <2> QED
      BY <2>4, <2>5
  <1>16. ASSUME NEW k \in DOMAIN ts
         PROVE  \E i \in Unfetched(q)' : mem'[q][i] = ts[k]
    <2>1. at(k) \in Slots /\ Dist(t, at(k)) = k - 1 /\ k - 1 < n /\ k - 1 + 1 = k
      BY <1>1, <1>2, <1>5
    <2>2. at(k) \in Unfetched(q)'
      BY <1>11, <1>12, <2>1
    <2>3. mem'[q][at(k)] = ts[k]
      BY <1>7, <2>1
    <2> QED
      BY <2>2, <2>3
  <1>17. tail' = [tail EXCEPT ![q] = tail'[q]] /\ \A p \in Sqs \ {q} : tail'[p] = tail[p]
    BY <1>3 DEF Typed, RingTypes
  <1> QED
    BY <1>6, <1>8, <1>9, <1>14, <1>15, <1>16, <1>17 DEF f, t, n

(* The commands S, in no place before, enter the ring q. *)
Entered(q, S) ==
  /\ \A t \in S : t \notin Posted /\ t \notin inside /\ \A p \in Sqs : t \notin Queued(p)
  /\ \A t : t \in Queued(q)' <=> t \in Queued(q) \/ t \in S
  /\ \A p \in Sqs \ {q} : Queued(p)' = Queued(p)

LEMMA Submitted ==
  ASSUME Typed, QueuedOk, InsideOk, PostedOk, NoneLost, NEW q \in Sqs, NEW ts \in Seq(Tags),
         \A k, l \in DOMAIN ts : ts[k] = ts[l] => k = l,
         \A k \in DOMAIN ts : ts[k] \notin Posted /\ ts[k] \notin inside
                              /\ \A p \in Sqs : ts[k] \notin Queued(p),
         CopyTo(q, ts), UNCHANGED <<fetch, inside, post, cqe, head>>,
         \A t \in Tags : rq[t].st = "flight" => rq'[t] = rq[t],
         \A k \in DOMAIN ts : rq'[ts[k]].st = "flight" /\ rq'[ts[k]].sq = q,
         \A t \in Tags : rq'[t].st = "flight" =>
           rq[t].st = "flight" \/ \E k \in DOMAIN ts : t = ts[k],
         \A t \in Prepared : t \in Prepared' \/ \E k \in DOMAIN ts : t = ts[k]
  PROVE  /\ QueuedOk' /\ InsideOk' /\ PostedOk' /\ NoneLost' /\ Posted' = Posted
         /\ Dist(fetch[q], tail[q]) + Len(ts) <= Depth - 1
         /\ \A t : t \in Queued(q)' <=> t \in Queued(q) \/ \E k \in DOMAIN ts : t = ts[k]
         /\ \A p \in Sqs \ {q} : Queued(p)' = Queued(p)
  <1>1. Dist(fetch[q], tail[q]) + Len(ts) <= Depth - 1
    BY Room
  <1>2. /\ \A p \in Sqs \ {q} : mem'[p] = mem[p] /\ tail'[p] = tail[p]
        /\ \A i \in Unfetched(q) : i \in Unfetched(q)' /\ mem'[q][i] = mem[q][i]
        /\ \A i \in Unfetched(q)' \ Unfetched(q) :
             \E k \in DOMAIN ts : Dist(tail[q], i) = k - 1 /\ mem'[q][i] = ts[k]
        /\ \A k \in DOMAIN ts : \E i \in Unfetched(q)' : mem'[q][i] = ts[k]
        /\ tail'[q] \in Slots
    BY <1>1, Copied
  <1>3. \A p \in Sqs \ {q} : Unfetched(p)' = Unfetched(p) /\ Queued(p)' = Queued(p)
    <2>1. \A p \in Sqs \ {q} : Unfetched(p)' = Unfetched(p)
      BY <1>2 DEF Unfetched, Span
    <2> QED
      BY <1>2, <2>1 DEF Queued
  <1>4. \A t : t \in Queued(q)' <=> t \in Queued(q) \/ \E k \in DOMAIN ts : t = ts[k]
    <2>1. \A t : t \in Queued(q)' <=> \E i \in Unfetched(q)' : t = mem'[q][i]
      BY DEF Queued
    <2>2. \A t : t \in Queued(q) <=> \E i \in Unfetched(q) : t = mem[q][i]
      BY DEF Queued
    <2> QED
      BY <1>2, <2>1, <2>2
  <1>5. Posted' = Posted /\ Unhandled' = Unhandled
    BY DEF Posted, Unhandled
  <1>6. Posted \subseteq Tags /\ inside \subseteq Tags /\ \A k \in DOMAIN ts : ts[k] \in Tags
    BY DEF PostedOk, Posted, Typed, CtrlTypes
  <1>7. ASSUME NEW t \in Tags, rq[t].st = "flight", t \notin Queued(rq[t].sq),
               \A k \in DOMAIN ts : t # ts[k]
        PROVE  rq'[t].st = "flight" /\ t \notin Queued(rq[t].sq)'
    <2>1. rq'[t] = rq[t] /\ rq[t].sq \in Sqs
      BY <1>7 DEF NoneLost
    <2> QED
      BY <1>3, <1>4, <1>7, <2>1
  <1>8. QueuedOk'
    <2>1. ASSUME NEW i \in Unfetched(q)'
          PROVE  /\ mem'[q][i] \in Tags /\ rq'[mem'[q][i]].st = "flight"
                 /\ rq'[mem'[q][i]].sq = q
      <3>1. CASE i \in Unfetched(q)
        BY <1>2, <3>1 DEF QueuedOk
      <3>2. CASE i \notin Unfetched(q)
        <4>1. PICK k \in DOMAIN ts : mem'[q][i] = ts[k]
          BY <1>2, <3>2
        <4> QED
          BY <1>6, <4>1
      <3> QED
        BY <3>1, <3>2
    <2>2. ASSUME NEW i \in Unfetched(q)', NEW j \in Unfetched(q)', mem'[q][i] = mem'[q][j]
          PROVE  i = j
      <3>1. CASE i \in Unfetched(q) /\ j \in Unfetched(q)
        BY <1>2, <2>2, <3>1 DEF QueuedOk
      <3>2. CASE i \notin Unfetched(q) /\ j \notin Unfetched(q)
        <4>1. PICK k \in DOMAIN ts : Dist(tail[q], i) = k - 1 /\ mem'[q][i] = ts[k]
          BY <1>2, <3>2
        <4>2. PICK l \in DOMAIN ts : Dist(tail[q], j) = l - 1 /\ mem'[q][j] = ts[l]
          BY <1>2, <3>2
        <4>3. Dist(tail[q], i) = Dist(tail[q], j)
          BY <2>2, <4>1, <4>2
        <4> QED
          BY <4>3, DistInjective DEF Unfetched, Span, Typed, RingTypes
      <3>3. ASSUME NEW x \in Unfetched(q), NEW y \in Unfetched(q)' \ Unfetched(q)
            PROVE  mem'[q][x] # mem'[q][y]
        <4>1. mem'[q][x] = mem[q][x] /\ mem[q][x] \in Queued(q)
          BY <1>2 DEF Queued
        <4>2. PICK k \in DOMAIN ts : mem'[q][y] = ts[k]
          BY <1>2
        <4> QED
          BY <4>1, <4>2
      <3> QED
        BY <2>2, <3>1, <3>2, <3>3
    <2>3. ASSUME NEW p \in Sqs, p # q, NEW i \in Unfetched(p)'
          PROVE  mem'[p][i] \in Tags /\ rq'[mem'[p][i]].st = "flight" /\ rq'[mem'[p][i]].sq = p
      BY <1>2, <1>3, <2>3 DEF QueuedOk
    <2>4. ASSUME NEW p \in Sqs, p # q, NEW i \in Unfetched(p)', NEW j \in Unfetched(p)',
                 mem'[p][i] = mem'[p][j]
          PROVE  i = j
      BY <1>2, <1>3, <2>4 DEF QueuedOk
    <2> QED
      BY <2>1, <2>2, <2>3, <2>4 DEF QueuedOk
  <1>9. InsideOk'
    <2>1. \A t \in inside : rq'[t].st = "flight" /\ t \notin Queued(rq[t].sq)'
      BY <1>6, <1>7 DEF InsideOk
    <2> QED
      BY <2>1 DEF InsideOk
  <1>10. PostedOk'
    <2>1. \A t \in Posted : rq'[t].st = "flight" /\ t \notin inside /\ t \notin Queued(rq[t].sq)'
      BY <1>6, <1>7 DEF PostedOk
    <2> QED
      BY <1>5, <2>1 DEF PostedOk
  <1>11. NoneLost'
    <2> SUFFICES ASSUME NEW t \in Tags, rq'[t].st = "flight"
                 PROVE  /\ rq'[t].sq \in Sqs
                        /\ t \in Posted \/ t \in inside \/ t \in Queued(rq[t].sq)' \/ t \in Prepared'
      BY <1>5 DEF NoneLost
    <2>1. CASE \E k \in DOMAIN ts : t = ts[k]
      BY <1>4, <2>1
    <2>2. CASE rq[t].st = "flight" /\ ~\E k \in DOMAIN ts : t = ts[k]
      BY <1>3, <1>4, <2>2 DEF NoneLost
    <2> QED
      BY <2>1, <2>2
  <1> QED
    BY <1>1, <1>3, <1>4, <1>5, <1>8, <1>9, <1>10, <1>11

LEMMA NowhereElse ==
  ASSUME TagInv, NEW t \in Tags, rq[t].st # "flight"
  PROVE  t \notin Posted /\ t \notin inside /\ \A p \in Sqs : t \notin Queued(p)
  BY DEF TagInv, QueuedOk, InsideOk, PostedOk, Queued

LEMMA FreeTagsType == FreeTags \in SUBSET Nat /\ FreeTags \subseteq Tags
  BY DEF FreeTags, Tags

LEMMA QueueStep ==
  ASSUME QInv, NEW q \in Sqs, NEW isLast \in BOOLEAN, QueueRq(q, isLast)
  PROVE  /\ QInv' /\ Posted' = Posted /\ inside' = inside
         /\ \E S \in SUBSET Tags : Entered(q, S)
  <1> USE DEF QInv, QueueRq, ctrlVars, cqVars, timeVars
  <1>1. PICK t \in FreeTags : Min(FreeTags) = t
    BY FreeTagsType, MinIsMember
  <1> DEFINE ts == <<t>>
  <1>2. /\ t \in Tags /\ rq[t].st = "idle" /\ late.tag # t
        /\ rq' = [rq EXCEPT ![t] = Flight(q)] /\ CopyTo(q, ts)
        /\ ts \in Seq(Tags) /\ Len(ts) = 1 /\ DOMAIN ts = {1} /\ ts[1] = t
    <2>1. t \in Tags /\ rq[t].st = "idle" /\ late.tag # t
      BY <1>1 DEF FreeTags
    <2>2. rq' = [rq EXCEPT ![t] = Flight(q)] /\ CopyTo(q, ts)
      BY <1>1
    <2>3. ts \in Seq(Tags) /\ Len(ts) = 1 /\ DOMAIN ts = {1} /\ ts[1] = t
      BY <2>1
    <2> QED
      BY <2>1, <2>2, <2>3
  <1> HIDE DEF ts
  <1>3. /\ rq'[t] = Flight(q) /\ \A u \in Tags \ {t} : rq'[u] = rq[u]
    BY <1>2 DEF Typed, RequestTypes
  <1>4. t \notin Posted /\ t \notin inside /\ \A p \in Sqs : t \notin Queued(p)
    BY <1>2, NowhereElse
  <1>5. Prepared' = Prepared
    BY DEF Prepared
  <1>6. /\ QueuedOk' /\ InsideOk' /\ PostedOk' /\ NoneLost' /\ Posted' = Posted
        /\ Dist(fetch[q], tail[q]) + Len(ts) <= Depth - 1
        /\ \A u : u \in Queued(q)' <=> u \in Queued(q) \/ \E k \in DOMAIN ts : u = ts[k]
        /\ \A p \in Sqs \ {q} : Queued(p)' = Queued(p)
    <2>1. \A u \in Tags : rq[u].st = "flight" => rq'[u] = rq[u]
      BY <1>2, <1>3
    <2>2. \A k \in DOMAIN ts : rq'[ts[k]].st = "flight" /\ rq'[ts[k]].sq = q
      BY <1>2, <1>3 DEF Flight
    <2>3. \A u \in Tags : rq'[u].st = "flight" =>
            rq[u].st = "flight" \/ \E k \in DOMAIN ts : u = ts[k]
      BY <1>2, <1>3
    <2>4. \A k \in DOMAIN ts : ts[k] \notin Posted /\ ts[k] \notin inside
                               /\ \A p \in Sqs : ts[k] \notin Queued(p)
      BY <1>2, <1>4
    <2>5. \A k, l \in DOMAIN ts : ts[k] = ts[l] => k = l
      BY <1>2
    <2>6. /\ UNCHANGED <<fetch, inside, post, cqe, head>> /\ Typed
          /\ QueuedOk /\ InsideOk /\ PostedOk /\ NoneLost
          /\ \A u \in Prepared : u \in Prepared' \/ \E k \in DOMAIN ts : u = ts[k]
      BY <1>5 DEF TagInv
    <2> HIDE DEF QInv, QueueRq
    <2> QED
      BY ZenonT(30), <1>2, <2>1, <2>2, <2>3, <2>4, <2>5, <2>6, Submitted
  <1>7. /\ tail' = [tail EXCEPT ![q] = tail'[q]] /\ tail'[q] \in Slots
        /\ Dist(fetch[q], tail'[q]) = Dist(fetch[q], tail[q]) + Len(ts)
        /\ mem' \in [Sqs -> [Slots -> Tags \cup {None}]]
    BY ZenonT(30), <1>2, <1>6, Copied
  <1>8. /\ BellTypes' /\ Same(Cq) /\ SqInv'
        /\ lock' \in [Sqs -> {"free", "event"}] /\ last' \in [Sqs -> Slots]
        /\ owed' \in [Sqs -> BOOLEAN]
    <2> DEFINE r == tail'[q]
               ring == RingNow(q, r, isLast)
    <2>1. ring \in BOOLEAN /\ WriteSqDb(q, r, ring) /\ lock[q] = "free"
      BY DEF RingNow
    <2>2. (ring \/ owed'[q]) /\ owed' \in [Sqs -> BOOLEAN] /\ \A p \in Sqs \ {q} : owed'[p] = owed[p]
      BY DEF RingNow, Typed, RingTypes
    <2>3. Dist(fetch[q], tail[q]) <= Dist(fetch[q], r) /\ r \in Slots
          /\ tail' = [tail EXCEPT ![q] = r]
      <3>1. Dist(fetch[q], tail[q]) \in Nat
        BY DistType DEF Typed, RingTypes, CtrlTypes
      <3> QED
        BY <1>2, <1>7, <3>1
    <2>4. UNCHANGED <<setup, fetch>> /\ Typed /\ SqInv
      OBVIOUS
    <2> HIDE DEF r, ring, QInv, QueueRq
    <2>5. /\ BellTypes' /\ Same(Cq) /\ SqInv'
          /\ lock' \in [Sqs -> {"free", "event"}] /\ last' \in [Sqs -> Slots]
      BY <2>1, <2>2, <2>3, <2>4, WriteSqStep
    <2> QED
      BY <2>2, <2>5
  <1>9. Typed'
    <2>1. RequestTypes'
      BY <1>2 DEF Typed, RequestTypes, Flight
    <2>2. RingTypes'
      BY <1>7, <1>8 DEF Typed, RingTypes
    <2> QED
      BY <1>8, <2>1, <2>2, TypeFrames DEF Typed
  <1>10. Alone'
    BY <1>8, AloneFrame DEF Same
  <1>11. CqInv'
    BY <1>8, CqFrame DEF Same
  <1>12. TagInv'
    <2>1. ReadyOk'
      <3>1. ASSUME NEW k \in DOMAIN batch.ready
            PROVE  LET r == batch.ready[k] IN
                   /\ r.tag \in Tags \ {t} /\ r.sq \in Sqs /\ rq'[r.tag] = rq[r.tag]
                   /\ r.tag \notin Queued(r.sq)'
        <4>1. LET r == batch.ready[k] IN
              r.tag \in Tags /\ r.sq \in Sqs /\ rq[r.tag].st = "flight" /\ r.tag \notin Queued(r.sq)
          BY EntryTypes DEF TagInv, ReadyOk, Typed
        <4>2. batch.ready[k].tag # t
          BY <1>2, <4>1
        <4> QED
          BY <1>2, <1>3, <1>6, <4>1, <4>2
      <3>2. batch' = batch /\ inside' = inside
        OBVIOUS
      <3> QED
        BY <1>6, <3>1, <3>2 DEF TagInv, ReadyOk
    <2>2. ListOk'
      <3>1. \A k \in DOMAIN batch.list : rq'[batch.list[k].tag].st = "listed"
        BY <1>2, <1>3, EntryTypes DEF TagInv, ListOk, Typed
      <3> QED
        BY <3>1 DEF TagInv, ListOk
    <2> QED
      BY <1>6, <2>1, <2>2 DEF TagInv
  <1>13. LateInv'
    <2>1. late.pc # "idle" => rq'[late.tag] = rq[late.tag]
      BY <1>2, <1>3 DEF Alone
    <2> QED
      BY <2>1, LateFrame
  <1>14. {t} \in SUBSET Tags /\ Entered(q, {t})
    BY <1>2, <1>4, <1>6 DEF Entered
  <1> QED
    BY <1>6, <1>8, <1>9, <1>10, <1>11, <1>12, <1>13, <1>14

-----------------------------------------------------------------------------
(* nvme_queue_rqs().                                                       *)

(* What is prepared after one more turn. *)
Ready(ok) == IF ok THEN Append(batch.ready, Head(batch.list)) ELSE batch.ready

LEMMA ListHead ==
  ASSUME Typed, TagInv, batch.list # <<>>
  PROVE  LET r == Head(batch.list) IN
         /\ r \in Entry /\ r.tag \in Tags /\ r.sq \in Sqs /\ r = batch.list[1]
         /\ rq[r.tag].st = "listed" /\ Tail(batch.list) \in Seq(Entry)
         /\ \A k \in DOMAIN Tail(batch.list) :
              /\ k + 1 \in DOMAIN batch.list /\ Tail(batch.list)[k] = batch.list[k + 1]
              /\ Tail(batch.list)[k].tag \in Tags \ {r.tag}
  <1> DEFINE s == batch.list
  <1>1. s \in Seq(Entry) /\ s # <<>>
    BY DEF Typed, RequestTypes
  <1>2. \A k, l \in DOMAIN s : s[k].tag = s[l].tag => k = l
    BY DEF TagInv, ListOk
  <1>3. \A k \in DOMAIN s : rq[s[k].tag].st = "listed"
    BY DEF TagInv, ListOk
  <1> HIDE DEF s
  <1>4. s[1] \in Entry /\ Head(s) = s[1] /\ Tail(s) \in Seq(Entry) /\ 1 \in DOMAIN s
    BY <1>1
  <1>5. ASSUME NEW k \in DOMAIN Tail(s)
        PROVE  k + 1 \in DOMAIN s /\ Tail(s)[k] = s[k + 1] /\ Tail(s)[k] \in Entry /\ k + 1 # 1
    BY <1>1
  <1>6. \A k \in DOMAIN Tail(s) : Tail(s)[k].tag \in Tags \ {s[1].tag}
    BY <1>2, <1>4, <1>5 DEF Entry
  <1>7. \A e \in Entry : e.tag \in Tags /\ e.sq \in Sqs
    BY DEF Entry
  <1> QED
    BY <1>3, <1>4, <1>5, <1>6, <1>7 DEF s

(* The prepared requests after a turn: of one queue, and in no other place. *)
Gathered(ok, r, ready) ==
  /\ ready \in Seq(Entry)
  /\ \A k \in DOMAIN ready :
       LET e == ready[k] IN
       /\ e.tag \in Tags /\ e.sq \in Sqs /\ e.sq = ready[1].sq
       /\ rq'[e.tag].st = "flight" /\ rq'[e.tag].sq = e.sq
       /\ e.tag \notin Posted /\ e.tag \notin inside /\ \A p \in Sqs : e.tag \notin Queued(p)
       /\ e.tag \in Prepared \/ (ok /\ e.tag = r.tag)
  /\ \A k, l \in DOMAIN ready : ready[k].tag = ready[l].tag => k = l
  /\ \A t \in Prepared : \E k \in DOMAIN ready : t = ready[k].tag
  /\ \A t \in Tags : rq[t].st = "flight" => rq'[t] = rq[t]
  /\ \A t \in Tags : rq'[t].st = "flight" =>
       rq[t].st = "flight" \/ \E k \in DOMAIN ready : t = ready[k].tag
  /\ \A t \in Tags \ {r.tag} : rq'[t] = rq[t]

LEMMA Preparing ==
  ASSUME Typed, TagInv, NEW ok \in BOOLEAN, batch.list # <<>>,
         NEW r, r = Head(batch.list), NEW ready, ready = Ready(ok),
         rq' = [rq EXCEPT ![r.tag] = IF ok THEN Flight(r.sq) ELSE Idle]
  PROVE  Gathered(ok, r, ready)
  <1> DEFINE s == batch.ready
  <1>1. r \in Entry /\ r.tag \in Tags /\ r.sq \in Sqs /\ rq[r.tag].st = "listed" /\ r = batch.list[1]
    BY ListHead
  <1>2. s \in Seq(Entry) /\ \A k \in DOMAIN s : s[k].tag \in Tags /\ s[k].sq \in Sqs
    BY EntryTypes DEF Typed, RequestTypes
  <1>3. /\ rq'[r.tag] = IF ok THEN Flight(r.sq) ELSE Idle
        /\ \A t \in Tags \ {r.tag} : rq'[t] = rq[t]
    BY <1>1 DEF Typed, RequestTypes
  <1>4. \A k \in DOMAIN s :
          /\ rq[s[k].tag].st = "flight" /\ rq[s[k].tag].sq = s[k].sq /\ s[k].sq = s[1].sq
          /\ s[k].tag \notin Posted /\ s[k].tag \notin inside /\ s[k].tag \notin Queued(s[k].sq)
    BY DEF TagInv, ReadyOk
  <1>5. \A k, l \in DOMAIN s : s[k].tag = s[l].tag => k = l
    BY DEF TagInv, ReadyOk
  <1>6. s # <<>> => r.sq = s[1].sq
    BY <1>1 DEF TagInv, ReadyOk
  <1>7. r.tag \notin Posted /\ r.tag \notin inside /\ \A p \in Sqs : r.tag \notin Queued(p)
    BY <1>1, NowhereElse
  <1>8. \A k \in DOMAIN s : \A p \in Sqs : s[k].tag \notin Queued(p)
    <2>1. \A p \in Sqs : \A t \in Queued(p) : rq[t].sq = p
      BY DEF TagInv, QueuedOk, Queued
    <2> HIDE DEF s
    <2> QED
      BY <1>4, <2>1
  <1>9. \A t : t \in Prepared <=> \E k \in DOMAIN s : t = s[k].tag
    BY DEF Prepared
  <1>10. \A t \in Tags : rq[t].st = "flight" => rq'[t] = rq[t]
    BY <1>1, <1>3
  <1>11. \A k \in DOMAIN s : /\ s[k].tag # r.tag /\ rq'[s[k].tag] = rq[s[k].tag]
    BY <1>1, <1>2, <1>3, <1>4
  <1> HIDE DEF s
  <1>12. CASE ok
    <2> DEFINE v == Append(s, r)
               n == Len(s)
    <2>1. ready = v
      BY <1>12 DEF Ready, s
    <2>2. v \in Seq(Entry) /\ n \in Nat /\ DOMAIN s = 1 .. n /\ DOMAIN v = 1 .. n + 1
          /\ v[n + 1] = r /\ \A k \in 1 .. n : v[k] = s[k]
      BY <1>1, <1>2
    <2>3. \A k \in DOMAIN v : k = n + 1 \/ k \in DOMAIN s
      BY <2>2
    <2>4. v[1].sq = r.sq
      <3>1. CASE s = <<>>
        BY <2>2, <3>1
      <3>2. CASE s # <<>>
        <4>1. 1 \in 1 .. n
          BY <1>2, <3>2
        <4> QED
          BY <1>6, <2>2, <3>2, <4>1
      <3> QED
        BY <3>1, <3>2
    <2>5. \A k \in DOMAIN s : s # <<>> /\ v[k] = s[k] /\ k \in DOMAIN v /\ k # n + 1
      BY <1>2, <2>2
    <2>6. n + 1 \in DOMAIN v
      BY <2>2
    <2> HIDE DEF v, n
    <2>7. ASSUME NEW k \in DOMAIN v
          PROVE  LET e == v[k] IN
                 /\ e.tag \in Tags /\ e.sq \in Sqs /\ e.sq = v[1].sq
                 /\ rq'[e.tag].st = "flight" /\ rq'[e.tag].sq = e.sq
                 /\ e.tag \notin Posted /\ e.tag \notin inside /\ \A p \in Sqs : e.tag \notin Queued(p)
                 /\ e.tag \in Prepared \/ (ok /\ e.tag = r.tag)
      <3>1. CASE k = n + 1
        BY <1>1, <1>3, <1>7, <1>12, <2>2, <2>4, <3>1 DEF Flight
      <3>2. CASE k \in DOMAIN s
        BY <1>2, <1>4, <1>6, <1>8, <1>9, <1>11, <2>4, <2>5, <3>2
      <3> QED
        BY <2>3, <3>1, <3>2
    <2>8. \A k, l \in DOMAIN v : v[k].tag = v[l].tag => k = l
      BY <1>5, <1>11, <2>2, <2>3, <2>5
    <2>9. \A t \in Prepared : \E k \in DOMAIN v : t = v[k].tag
      BY <1>9, <2>5
    <2>10. \A t \in Tags : rq'[t].st = "flight" =>
             rq[t].st = "flight" \/ \E k \in DOMAIN v : t = v[k].tag
      BY <1>3, <2>2, <2>6
    <2> QED
      BY <1>3, <1>10, <2>1, <2>2, <2>7, <2>8, <2>9, <2>10 DEF Gathered
  <1>13. CASE ~ok
    <2>1. ready = s
      BY <1>13 DEF Ready, s
    <2>2. \A k \in DOMAIN s :
            LET e == s[k] IN
            /\ e.tag \in Tags /\ e.sq \in Sqs /\ e.sq = s[1].sq
            /\ rq'[e.tag].st = "flight" /\ rq'[e.tag].sq = e.sq
            /\ e.tag \notin Posted /\ e.tag \notin inside /\ \A p \in Sqs : e.tag \notin Queued(p)
            /\ e.tag \in Prepared \/ (ok /\ e.tag = r.tag)
      BY <1>2, <1>4, <1>8, <1>9, <1>11
    <2>3. \A t \in Tags : rq'[t].st = "flight" => rq[t].st = "flight"
      BY <1>3, <1>13 DEF Idle
    <2> QED
      BY <1>2, <1>3, <1>5, <1>9, <1>10, <2>1, <2>2, <2>3 DEF Gathered
  <1> QED
    BY <1>12, <1>13

(* Nothing moves but what is prepared. *)
LEMMA FlightKept ==
  ASSUME Typed, TagInv, UNCHANGED <<tail, mem, fetch, inside, post, cqe, head>>,
         \A t \in Tags : rq[t].st = "flight" => rq'[t] = rq[t],
         \A t \in Tags : rq'[t].st = "flight" =>
           rq[t].st = "flight" \/ (rq'[t].sq \in Sqs /\ t \in Prepared'),
         Prepared \subseteq Prepared'
  PROVE  /\ QueuedOk' /\ InsideOk' /\ PostedOk' /\ NoneLost' /\ Posted' = Posted
         /\ \A q : Queued(q)' = Queued(q)
  <1>1. Posted' = Posted /\ Unhandled' = Unhandled
    BY DEF Posted, Unhandled
  <1>2. \A q : Unfetched(q)' = Unfetched(q) /\ Queued(q)' = Queued(q)
    BY DEF Unfetched, Queued
  <1>3. Posted \subseteq Tags /\ inside \subseteq Tags
    BY DEF TagInv, PostedOk, Posted, Typed, CtrlTypes
  <1>4. QueuedOk'
    <2>1. \A q \in Sqs : \A i \in Unfetched(q) :
            mem[q][i] \in Tags /\ rq'[mem[q][i]].st = "flight" /\ rq'[mem[q][i]].sq = q
      BY DEF TagInv, QueuedOk
    <2> QED
      BY <1>2, <2>1 DEF TagInv, QueuedOk
  <1>5. InsideOk'
    <2>1. \A t \in inside : rq'[t].st = "flight" /\ t \notin Queued(rq'[t].sq)
      BY <1>3 DEF TagInv, InsideOk
    <2> QED
      BY <1>2, <2>1 DEF InsideOk
  <1>6. PostedOk'
    <2>1. \A t \in Posted : rq'[t].st = "flight" /\ t \notin inside /\ t \notin Queued(rq'[t].sq)
      BY <1>3 DEF TagInv, PostedOk
    <2> QED
      BY <1>1, <1>2, <2>1 DEF TagInv, PostedOk
  <1>7. NoneLost'
    <2>1. \A t \in Tags : rq'[t].st = "flight" =>
            /\ rq'[t].sq \in Sqs
            /\ t \in Posted \/ t \in inside \/ t \in Queued(rq'[t].sq) \/ t \in Prepared'
      BY DEF TagInv, NoneLost
    <2> QED
      BY <1>1, <1>2, <2>1 DEF NoneLost
  <1> QED
    BY <1>1, <1>2, <1>4, <1>5, <1>6, <1>7

LEMMA ListStep ==
  ASSUME QInv, NEW qs \in Lists, QueueRqs(qs)
  PROVE  QInv'
  <1> DEFINE n == Len(qs)
             free == [k \in 1 .. Len(qs) |->
                        CHOOSE t \in FreeTags : Cardinality({u \in FreeTags : u < t}) = k - 1]
             newlist == [k \in 1 .. Len(qs) |-> [tag |-> free[k], sq |-> qs[k]]]
  <1>0. /\ Typed /\ Alone /\ CqInv /\ SqInv /\ TagInv /\ LateInv
        /\ UNCHANGED <<setup, tail, last, mem, lock, owed, shadow, old, ei, seen, sleep, fetch, inside,
                       post, cqe, head, cpc, irq, masked, polling, late, aborts, lost, stopped>>
        /\ n <= Cardinality(FreeTags)
    BY DEF QInv, QueueRqs, bellVars, ctrlVars, cqVars, timeVars
  <1> USE <1>0
  <1>1. qs \in Seq(Sqs) /\ n \in Nat
    BY DEF Lists
  <1>2. ASSUME NEW k \in 1 .. n
        PROVE  free[k] \in FreeTags /\ Rank(FreeTags, free[k]) = k - 1
    <2>1. k - 1 \in Nat /\ k - 1 < n /\ n <= Cardinality(FreeTags) /\ Depth - 2 \in Nat
      BY <1>1, Sizes
    <2>2. IsFiniteSet(FreeTags) /\ FreeTags \in SUBSET (0 .. Depth - 2)
      <3>1. FreeTags \in SUBSET (0 .. Depth - 2)
        BY FreeTagsType DEF Tags
      <3>2. IsFiniteSet(0 .. Depth - 2)
        BY <2>1, FS_Interval
      <3> QED
        BY <3>1, <3>2, FS_Subset
    <2>3. Cardinality(FreeTags) \in Nat
      BY <2>2, FS_CardinalityType
    <2>4. k - 1 < Cardinality(FreeTags)
      BY <1>1, <2>1, <2>3
    <2>5. \E t \in FreeTags : Rank(FreeTags, t) = k - 1
      BY <2>1, <2>2, <2>4, RankExists
    <2>6. free[k] = CHOOSE t \in FreeTags : Rank(FreeTags, t) = k - 1
      BY DEF Rank
    <2> HIDE DEF free
    <2> QED
      BY <2>5, <2>6
  <1>3. /\ batch' = [list |-> newlist, ready |-> <<>>]
        /\ rq' = [t \in Tags |-> IF \E k \in 1 .. n : free[k] = t
                                 THEN [Idle EXCEPT !.st = "listed"] ELSE rq[t]]
        /\ batch.list = <<>> /\ batch.ready = <<>>
    BY DEF QueueRqs
  <1>4. DOMAIN newlist = 1 .. n /\ \A k \in 1 .. n : newlist[k] = [tag |-> free[k], sq |-> qs[k]]
    OBVIOUS
  <1> HIDE DEF free, newlist, n
  <1>5. \A k \in 1 .. n : /\ free[k] \in Tags /\ rq[free[k]].st = "idle" /\ late.tag # free[k]
    BY <1>2 DEF FreeTags
  <1>6. \A k, l \in 1 .. n : free[k] = free[l] => k = l
    <2>1. ASSUME NEW k \in 1 .. n, NEW l \in 1 .. n, free[k] = free[l]
          PROVE  k = l
      <3>1. k - 1 = l - 1
        BY <1>2, <2>1
      <3> QED
        BY <1>1, <3>1
    <2> QED
      BY <2>1
  <1>7. newlist \in Seq(Entry)
    <2>1. \A k \in 1 .. n : newlist[k] \in Entry
      BY <1>1, <1>4, <1>5 DEF Entry, n
    <2>2. newlist \in [1 .. n -> Entry]
      BY <1>4, <2>1 DEF newlist, n
    <2> QED
      BY <1>1, <2>2
  <1> DEFINE Listed == [Idle EXCEPT !.st = "listed"]
  <1>8. /\ \A k \in 1 .. n : rq'[free[k]] = Listed
        /\ \A t \in Tags : (\E k \in 1 .. n : free[k] = t) \/ rq'[t] = rq[t]
        /\ \A t \in Tags : rq'[t] = Listed \/ rq'[t] = rq[t]
        /\ rq' \in [Tags -> [st : {"idle", "listed", "flight"}, sq : Sqs \cup {None}, aborted : BOOLEAN]]
        /\ Listed.st = "listed"
    <2>1. rq' = [t \in Tags |-> IF \E k \in 1 .. n : free[k] = t THEN Listed ELSE rq[t]]
      BY <1>3
    <2>2. Listed \in [st : {"idle", "listed", "flight"}, sq : Sqs \cup {None}, aborted : BOOLEAN]
          /\ Listed.st = "listed"
      BY DEF Idle
    <2> HIDE DEF Listed
    <2> QED
      BY <1>5, <2>1, <2>2 DEF Typed, RequestTypes
  <1> HIDE DEF Listed
  <1>9. Typed'
    <2>1. batch' \in [list : Seq(Entry), ready : Seq(Entry)]
      BY <1>3, <1>7
    <2>2. RequestTypes'
      BY <1>8, <2>1 DEF RequestTypes
    <2> QED
      BY <2>2, TypeFrames DEF Typed, bellVars, ctrlVars, cqVars, timeVars
  <1>10. Alone'
    BY AloneFrame
  <1>11. CqInv'
    BY CqFrame
  <1>12. SqInv'
    BY SqFrame DEF Same
  <1>13. TagInv'
    <2>1. batch'.ready = <<>> /\ batch'.list = newlist /\ DOMAIN batch'.ready = {}
      <3>1. batch'.ready = <<>> /\ batch'.list = newlist
        BY <1>3
      <3> QED
        BY <3>1
    <2>2. Prepared = {} /\ Prepared' = {}
      BY <1>3, <2>1 DEF Prepared
    <2>3. QueuedOk' /\ InsideOk' /\ PostedOk' /\ NoneLost'
      <3>1. \A t \in Tags : rq[t].st = "flight" => rq'[t] = rq[t]
        BY <1>5, <1>8
      <3>2. \A t \in Tags : rq'[t].st = "flight" => rq[t].st = "flight"
        BY <1>8
      <3> QED
        BY <2>2, <3>1, <3>2, FlightKept
    <2>4. ReadyOk'
      BY <2>1 DEF ReadyOk
    <2>5. ListOk'
      <3>1. \A k \in DOMAIN newlist : newlist[k].tag = free[k] /\ k \in 1 .. n
        BY <1>4
      <3> QED
        BY <1>6, <1>8, <2>1, <3>1 DEF ListOk
    <2> QED
      BY <2>3, <2>4, <2>5 DEF TagInv
  <1>14. LateInv'
    <2>1. late.pc # "idle" => rq'[late.tag] = rq[late.tag]
      BY <1>5, <1>8 DEF Alone
    <2> QED
      BY <2>1, LateFrame
  <1> QED
    BY <1>9, <1>10, <1>11, <1>12, <1>13, <1>14 DEF QInv

LEMMA PrepStep ==
  ASSUME QInv, NEW ok \in BOOLEAN, PrepNext(ok)
  PROVE  /\ QInv' /\ Posted' = Posted /\ inside' = inside
         /\ \/ UNCHANGED <<tail, mem, fetch, inside, post, cqe, head>>
            \/ \E q \in Sqs, S \in SUBSET Tags : Entered(q, S)
  <1>a. PICK r, rest, ready, n, q, ts :
          /\ r = Head(batch.list) /\ rest = Tail(batch.list) /\ ready = Ready(ok)
          /\ n = Len(ready) /\ q = ready[n].sq
          /\ ts = [k \in DOMAIN ready |-> ready[k].tag]
    OBVIOUS
  <1>0. /\ Typed /\ Alone /\ CqInv /\ SqInv /\ TagInv /\ LateInv
        /\ UNCHANGED <<setup, owed, fetch, inside, post, cqe, head, cpc, irq, masked, polling,
                       late, aborts, lost, stopped>>
        /\ batch.list # <<>> /\ rq' = [rq EXCEPT ![r.tag] = IF ok THEN Flight(r.sq) ELSE Idle]
    BY <1>a DEF QInv, PrepNext, ctrlVars, cqVars, timeVars
  <1> USE <1>0
  <1>1. \/ /\ EndsRun(ready, rest) /\ lock[q] = "free" /\ CopyTo(q, ts)
           /\ WriteSqDb(q, tail'[q], TRUE) /\ batch' = [list |-> rest, ready |-> <<>>]
        \/ /\ ~EndsRun(ready, rest) /\ batch' = [list |-> rest, ready |-> ready]
           /\ UNCHANGED <<tail, mem, lock, last, shadow, old, ei, seen, sleep>>
    BY <1>a DEF PrepNext, Ready, bellVars
  <1>b. batch' = [list |-> rest, ready |-> IF EndsRun(ready, rest) THEN <<>> ELSE ready]
    <2>1. CASE EndsRun(ready, rest)
      BY <1>a, <2>1 DEF PrepNext, Ready
    <2>2. CASE ~EndsRun(ready, rest)
      BY <1>a, <2>2 DEF PrepNext, Ready
    <2> QED
      BY <2>1, <2>2
  <1>2. /\ r \in Entry /\ r.tag \in Tags /\ r.sq \in Sqs /\ rq[r.tag].st = "listed"
        /\ rest \in Seq(Entry)
        /\ \A k \in DOMAIN rest : /\ k + 1 \in DOMAIN batch.list /\ rest[k] = batch.list[k + 1]
                                  /\ rest[k].tag \in Tags \ {r.tag}
    BY <1>a, ListHead
  <1>3. /\ ready \in Seq(Entry)
        /\ \A k \in DOMAIN ready :
             LET e == ready[k] IN
             /\ e.tag \in Tags /\ e.sq \in Sqs /\ e.sq = ready[1].sq
             /\ rq'[e.tag].st = "flight" /\ rq'[e.tag].sq = e.sq
             /\ e.tag \notin Posted /\ e.tag \notin inside /\ \A p \in Sqs : e.tag \notin Queued(p)
             /\ e.tag \in Prepared \/ (ok /\ e.tag = r.tag)
        /\ \A k, l \in DOMAIN ready : ready[k].tag = ready[l].tag => k = l
        /\ \A t \in Prepared : \E k \in DOMAIN ready : t = ready[k].tag
        /\ \A t \in Tags : rq[t].st = "flight" => rq'[t] = rq[t]
        /\ \A t \in Tags : rq'[t].st = "flight" =>
             rq[t].st = "flight" \/ \E k \in DOMAIN ready : t = ready[k].tag
        /\ \A t \in Tags \ {r.tag} : rq'[t] = rq[t]
    <2>1. Gathered(ok, r, ready)
      BY <1>a, Preparing
    <2> QED
      BY <2>1 DEF Gathered
  <1>4. n \in Nat /\ DOMAIN ready = 1 .. n /\ (ready # <<>> => n \in DOMAIN ready /\ 1 \in DOMAIN ready)
    BY <1>a, <1>3
  <1>5. rq' \in [Tags -> [st : {"idle", "listed", "flight"}, sq : Sqs \cup {None}, aborted : BOOLEAN]]
    BY <1>2 DEF Typed, RequestTypes, Flight, Idle
  <1>6. RequestTypes'
    <2>1. <<>> \in Seq(Entry)
      OBVIOUS
    <2>2. batch' \in [list : Seq(Entry), ready : Seq(Entry)]
      BY <1>b, <1>2, <1>3, <2>1
    <2> QED
      BY <1>5, <2>2 DEF RequestTypes
  <1>7. batch'.list = rest /\ batch'.ready = IF EndsRun(ready, rest) THEN <<>> ELSE ready
    BY <1>b
  <1>8. ListOk'
    <2>1. ASSUME NEW k \in DOMAIN rest
          PROVE  rq'[rest[k].tag].st = "listed"
      BY <1>2, <1>3 DEF TagInv, ListOk
    <2>2. ASSUME NEW k \in DOMAIN rest, NEW l \in DOMAIN rest, rest[k].tag = rest[l].tag
          PROVE  k = l
      <3>1. k + 1 = l + 1 /\ k \in Nat /\ l \in Nat
        BY <1>2, <2>2 DEF TagInv, ListOk
      <3> QED
        BY <3>1
    <2> QED
      BY <1>7, <2>1, <2>2 DEF ListOk
  <1>9. LateInv'
    <2>1. late.pc # "idle" => rq'[late.tag] = rq[late.tag]
      BY <1>2, <1>3 DEF LateInv, Alone
    <2> QED
      BY <2>1, LateFrame
  <1>10. CASE EndsRun(ready, rest)
    <2>1. /\ lock[q] = "free" /\ CopyTo(q, ts) /\ WriteSqDb(q, tail'[q], TRUE)
          /\ batch' = [list |-> rest, ready |-> <<>>] /\ ready # <<>>
      BY <1>1, <1>10 DEF EndsRun
    <2>2. q \in Sqs /\ \A k \in DOMAIN ready : ready[k].sq = q
      BY <1>a, <1>3, <1>4, <2>1
    <2>3. ts \in Seq(Tags) /\ DOMAIN ts = DOMAIN ready /\ \A k \in DOMAIN ts : ts[k] = ready[k].tag
      <3>1. DOMAIN ts = DOMAIN ready /\ \A k \in DOMAIN ts : ts[k] = ready[k].tag
        BY <1>a
      <3>2. ts \in [1 .. n -> Tags]
        BY <1>a, <1>3, <1>4
      <3>3. ts \in Seq(Tags)
        BY <1>4, <3>2
      <3> QED
        BY <3>1, <3>3
    <2>4. batch'.ready = <<>> /\ DOMAIN batch'.ready = {} /\ Prepared' = {}
      <3>1. batch'.ready = <<>>
        BY <2>1
      <3> QED
        BY <3>1 DEF Prepared
    <2>5. /\ QueuedOk' /\ InsideOk' /\ PostedOk' /\ NoneLost' /\ Posted' = Posted
          /\ Dist(fetch[q], tail[q]) + Len(ts) <= Depth - 1
          /\ \A t : t \in Queued(q)' <=> t \in Queued(q) \/ \E k \in DOMAIN ts : t = ts[k]
          /\ \A p \in Sqs \ {q} : Queued(p)' = Queued(p)
      <3>1. \A k, l \in DOMAIN ts : ts[k] = ts[l] => k = l
        BY <1>3, <2>3
      <3>2. \A k \in DOMAIN ts : ts[k] \notin Posted /\ ts[k] \notin inside
                                 /\ \A p \in Sqs : ts[k] \notin Queued(p)
        BY <1>3, <2>3
      <3>3. \A k \in DOMAIN ts : rq'[ts[k]].st = "flight" /\ rq'[ts[k]].sq = q
        BY <1>3, <2>2, <2>3
      <3>4. \A t \in Tags : rq'[t].st = "flight" =>
              rq[t].st = "flight" \/ \E k \in DOMAIN ts : t = ts[k]
        BY <1>3, <2>3
      <3>5. \A t \in Prepared : t \in Prepared' \/ \E k \in DOMAIN ts : t = ts[k]
        BY <1>3, <2>3
      <3>6. /\ Typed /\ QueuedOk /\ InsideOk /\ PostedOk /\ NoneLost /\ CopyTo(q, ts)
            /\ UNCHANGED <<fetch, inside, post, cqe, head>> /\ ts \in Seq(Tags)
            /\ \A t \in Tags : rq[t].st = "flight" => rq'[t] = rq[t]
        BY <1>3, <2>1, <2>3 DEF TagInv
      <3> QED
        BY <2>2, <3>1, <3>2, <3>3, <3>4, <3>5, <3>6, Submitted
    <2>6. /\ tail' = [tail EXCEPT ![q] = tail'[q]] /\ tail'[q] \in Slots
          /\ Dist(fetch[q], tail'[q]) = Dist(fetch[q], tail[q]) + Len(ts)
          /\ mem' \in [Sqs -> [Slots -> Tags \cup {None}]]
      BY <2>1, <2>2, <2>3, <2>5, Copied
    <2>7. /\ BellTypes' /\ Same(Cq) /\ SqInv'
          /\ lock' \in [Sqs -> {"free", "event"}] /\ last' \in [Sqs -> Slots]
      <3>1. Dist(fetch[q], tail[q]) <= Dist(fetch[q], tail'[q])
        <4>1. Dist(fetch[q], tail[q]) \in Nat /\ Len(ts) \in Nat
          BY <2>2, <2>3, DistType DEF Typed, RingTypes, CtrlTypes
        <4> QED
          BY <2>6, <4>1
      <3> DEFINE t == tail'[q]
      <3>2. t \in Slots /\ tail' = [tail EXCEPT ![q] = t] /\ WriteSqDb(q, t, TRUE)
            /\ Dist(fetch[q], tail[q]) <= Dist(fetch[q], t)
        BY <2>1, <2>6, <3>1
      <3> HIDE DEF t
      <3> QED
        BY <2>1, <2>2, <3>2, WriteSqStep
    <2>8. Typed'
      <3>1. RingTypes'
        BY <2>6, <2>7 DEF Typed, RingTypes
      <3> QED
        BY <1>6, <2>7, <3>1, TypeFrames DEF Typed, ctrlVars, cqVars, timeVars
    <2>9. Alone' /\ CqInv'
      BY <2>7, AloneFrame, CqFrame DEF Same
    <2>10. TagInv'
      BY <1>8, <2>4, <2>5 DEF TagInv, ReadyOk
    <2>11. QInv'
      BY <1>9, <2>7, <2>8, <2>9, <2>10 DEF QInv
    <2> DEFINE S == {ts[k] : k \in DOMAIN ts}
    <2>12. /\ S \in SUBSET Tags
           /\ \A t \in S : t \notin Posted /\ t \notin inside /\ \A p \in Sqs : t \notin Queued(p)
           /\ \A t : t \in S <=> \E k \in DOMAIN ts : t = ts[k]
      BY <1>3, <2>3
    <2> HIDE DEF S
    <2>13. \A t : t \in Queued(q)' <=> t \in Queued(q) \/ t \in S
      BY <2>5, <2>12
    <2>14. Entered(q, S)
      BY <2>5, <2>12, <2>13 DEF Entered
    <2> QED
      BY <2>2, <2>5, <2>11, <2>12, <2>14
  <1>11. CASE ~EndsRun(ready, rest)
    <2>1. /\ UNCHANGED <<tail, mem, lock, last, shadow, old, ei, seen, sleep>>
          /\ batch'.ready = ready
      BY <1>1, <1>7, <1>11
    <2>2. Typed'
      BY <1>6, <2>1, TypeFrames DEF Typed, bellVars, ctrlVars, cqVars, timeVars, RingTypes
    <2>3. Alone' /\ CqInv' /\ SqInv'
      BY <2>1, AloneFrame, CqFrame, SqFrame DEF Same
    <2>4. \A t : t \in Prepared' <=> \E k \in DOMAIN ready : t = ready[k].tag
      BY <2>1 DEF Prepared
    <2>5. /\ QueuedOk' /\ InsideOk' /\ PostedOk' /\ NoneLost' /\ Posted' = Posted
          /\ \A p : Queued(p)' = Queued(p)
      <3>1. Prepared \subseteq Prepared'
        BY <1>3, <2>4
      <3>2. \A t \in Tags : rq'[t].st = "flight" =>
              rq[t].st = "flight" \/ (rq'[t].sq \in Sqs /\ t \in Prepared')
        BY <1>3, <2>4
      <3> QED
        BY <1>3, <2>1, <3>1, <3>2, FlightKept
    <2>6. ReadyOk'
      <3>1. ready # <<>> => rest # <<>> /\ rest[1].sq = ready[1].sq
        <4>1. ready # <<>> => rest # <<>> /\ Head(rest).sq = ready[n].sq
          BY <1>a, <1>11 DEF EndsRun
        <4>2. rest # <<>> => Head(rest) = rest[1]
          BY <1>2
        <4> QED
          BY <1>3, <1>4, <4>1, <4>2
      <3>2. ASSUME NEW k \in DOMAIN ready
            PROVE  ready[k].tag \notin Queued(ready[k].sq)
        BY <1>3
      <3>3. \A k \in DOMAIN ready : ready[k].tag \notin Posted' /\ ready[k].tag \notin inside'
        BY <1>3, <2>5
      <3>4. \A k \in DOMAIN batch'.ready : batch'.ready[k].tag \notin (Queued(batch.ready[k].sq))'
        BY <2>1, <2>5, <3>2
      <3> QED
        BY <1>3, <1>7, <2>1, <3>1, <3>3, <3>4 DEF ReadyOk
    <2>7. TagInv'
      BY <1>8, <2>5, <2>6 DEF TagInv
    <2>8. QInv'
      BY <1>9, <2>2, <2>3, <2>7 DEF QInv
    <2> QED
      BY <2>1, <2>5, <2>8
  <1> QED
    BY <1>10, <1>11

-----------------------------------------------------------------------------
(* The inductive invariant.                                                *)
LEMMA InitHolds == Init => QInv
  <1> SUFFICES ASSUME NEW w \in Setups, InitWith(w) PROVE QInv
    BY DEF Init
  <1> USE DEF InitWith
  <1>1. Typed
    <2>1. setup \in Setups /\ setup.limit \in Nat /\ setup.lost \in Nat
      BY SetupType
    <2>2. <<>> \in Seq(Entry) /\ 0 \in Slots
      BY Sizes
    <2>3. RequestTypes
      BY <2>2 DEF RequestTypes, Idle
    <2>4. RingTypes /\ BellTypes
      BY <2>2 DEF RingTypes, BellTypes
    <2>5. CtrlTypes /\ ConsumerTypes
      BY <2>2 DEF CtrlTypes, ConsumerTypes
    <2>6. TimeTypes
      <3>1. late \in [tag : Tags \cup {None}, pc : {"idle", "poll", "decide"}, posted : BOOLEAN]
        BY DEF NoLate
      <3>2. aborts = 0 /\ lost = setup.lost /\ stopped \in BOOLEAN
        OBVIOUS
      <3>3. aborts \in 0 .. setup.limit /\ lost \in 0 .. setup.lost
        BY <2>1, <3>2
      <3> QED
        BY <3>1, <3>2, <3>3 DEF TimeTypes
    <2> QED
      BY <2>1, <2>3, <2>4, <2>5, <2>6 DEF Typed
  <1>2. Dist(0, 0) = 0 /\ Cq \in Bells /\ 0 \in Slots
    BY Sizes DEF Dist, Bells
  <1>3. Alone
    BY <1>1, SetupType DEF Alone, Typed, Consumers, NoLate
  <1>4. Unhandled = {} /\ \A q \in Sqs : Unfetched(q) = {}
    <2>1. Span(0, 0) = {}
      BY DEF Span, Slots
    <2> QED
      BY <2>1 DEF Unhandled, Unfetched
  <1>5. CqInv
    <2>1. \A i \in Slots : PhaseAt(head, i) = 1
      BY DEF PhaseAt, Slots
    <2> QED
      BY <1>2, <1>4, <2>1 DEF CqInv
  <1>6. SqInv
    BY <1>2 DEF SqInv, SqOk, Bells
  <1>7. TagInv
    <2>1. batch.ready = <<>> /\ batch.list = <<>> /\ DOMAIN <<>> = {}
      OBVIOUS
    <2>2. Posted = {} /\ \A t \in Tags : rq[t].st = "idle"
      BY <1>4 DEF Posted, Idle
    <2> QED
      BY <1>4, <2>1, <2>2 DEF TagInv, QueuedOk, InsideOk, PostedOk, ReadyOk, ListOk, NoneLost
  <1>8. LateInv
    BY DEF LateInv, NoLate
  <1> QED
    BY <1>1, <1>3, <1>5, <1>6, <1>7, <1>8 DEF QInv

LEMMA StutterKeeps == QInv /\ UNCHANGED vars => QInv'
  <1> SUFFICES ASSUME QInv, UNCHANGED vars PROVE QInv'
    OBVIOUS
  <1> USE DEF QInv, vars, driverVars, bellVars, ctrlVars, cqVars, timeVars
  <1>1. Typed'
    BY TypeFrames DEF Typed
  <1>2. Alone' /\ CqInv' /\ LateInv'
    BY AloneFrame, CqFrame, LateFrame
  <1>3. SqInv' /\ TagInv'
    BY <1>1, SqFrame, TagFrame DEF Same
  <1> QED
    BY <1>1, <1>2, <1>3

LEMMA StepHolds == QInv /\ [Next]_vars => QInv'
  <1> SUFFICES ASSUME QInv, [Next]_vars PROVE QInv'
    OBVIOUS
  <1>1. CASE UNCHANGED vars
    BY <1>1, StutterKeeps
  <1>2. ASSUME NEW q \in Sqs, \/ \E isLast \in BOOLEAN : QueueRq(q, isLast)
                              \/ CommitRqs(q) \/ CheckSqEvent(q) \/ FetchCmd(q)
        PROVE  QInv'
    BY <1>2, QueueStep, CommitStep, CheckSqStep, FetchStep
  <1>3. ASSUME NEW qs \in Lists, QueueRqs(qs)
        PROVE  QInv'
    BY <1>3, ListStep
  <1>4. ASSUME NEW ok \in BOOLEAN, PrepNext(ok)
        PROVE  QInv'
    BY <1>4, PrepStep
  <1>5. ASSUME NEW d \in Bells, ArmEvent(d) \/ LookAgain(d)
        PROVE  QInv'
    BY <1>5, ArmStep, LookStep
  <1>6. ASSUME NEW t \in Tags, Complete(t) \/ Timeout(t)
        PROVE  QInv'
    BY <1>6, PostStep, TimeoutStep DEF Complete
  <1>7. CASE Irq \/ Poll \/ LookForMissed \/ Decide \/ AbortEndio
    BY <1>7, IrqStep, PollStep, LookForMissedStep, DecideStep, AbortStep DEF Decide
  <1>8. ASSUME NEW c \in Consumers, Consume(c)
        PROVE  QInv'
    BY <1>8, HandleStep, CheckCqStep DEF Consume
  <1> QED
    BY <1>1, <1>2, <1>3, <1>4, <1>5, <1>6, <1>7, <1>8 DEF Next

(* The inductive invariant holds for any queues, depth and set-up.         *)
THEOREM QueueInvariance == Spec => []QInv
  BY InitHolds, StepHolds, PTL DEF Spec

(* nvme_cqe_pending() is right about every entry of the ring, and queues   *)
(* that share a completion queue never overflow it (pci.c, nvme_poll_cq(), *)
(* nvme_update_cq_head()).                                                 *)
THEOREM PhaseIsRight == Spec => []PhaseTellsNew
  <1>1. QInv => PhaseTellsNew
    BY TypedMeans DEF QInv, CqInv, PhaseAt, PhaseTellsNew
  <1> QED
    BY <1>1, QueueInvariance, PTL

(* Once nobody is about to ring a doorbell or owes a ring, a controller    *)
(* that went to sleep has seen the whole submission queue: the event index *)
(* of nvme_dbbuf_update_and_check_event() loses no wake-up, whatever the   *)
(* depth of the ring (nvme_write_sq_db(), nvme_commit_rqs()).              *)
THEOREM BellsAreHeard == Spec => []NoLostBell
  <1>1. QInv => NoLostBell
    BY DEF QInv, SqInv, SqOk, NoLostBell
  <1> QED
    BY <1>1, QueueInvariance, PTL

(* The poll of nvme_timeout() completes a request whose entry had been     *)
(* posted, so it is neither aborted nor the reason of a reset.             *)
THEOREM MissedInterruptHarmless == Spec => []MissedInterruptFound
  <1>1. QInv => MissedInterruptFound
    <2> SUFFICES ASSUME QInv, late.pc = "decide", late.posted, rq[late.tag].st = "flight"
                 PROVE  FALSE
      BY DEF MissedInterruptFound
    <2>1. cpc["timeout"] # "idle"
      BY DEF QInv, LateInv
    <2> QED
      BY <2>1 DEF QInv, Alone
  <1> QED
    BY <1>1, QueueInvariance, PTL

-----------------------------------------------------------------------------
(* The queues implement one command after another per tag.                 *)
Place(t) ==
  IF t \in Posted THEN "posted"
  ELSE IF t \in inside THEN "device"
  ELSE IF \E q \in Sqs : t \in Queued(q) THEN "queued"
  ELSE "idle"

LEMMA OnePlace ==
  ASSUME TagInv, NEW t \in Tags
  PROVE  /\ t \in Posted => t \notin inside /\ \A q \in Sqs : t \notin Queued(q)
         /\ t \in inside => \A q \in Sqs : t \notin Queued(q)
  <1>1. \A q \in Sqs : t \in Queued(q) => rq[t].sq = q
    BY DEF TagInv, QueuedOk, Queued
  <1> QED
    BY <1>1 DEF TagInv, InsideOk, PostedOk

LEMMA WhereIsPlace == TagInv => Where = [t \in Tags |-> Place(t)]
  <1> SUFFICES ASSUME TagInv, NEW t \in Tags PROVE Where[t] = Place(t)
    BY DEF Where
  <1>1. \A q \in Sqs : t \in Queued(q) => rq[t].sq = q /\ rq[t].st = "flight"
    BY DEF TagInv, QueuedOk, Queued
  <1>2. t \in Posted \/ t \in inside => rq[t].st = "flight"
    BY DEF TagInv, InsideOk, PostedOk
  <1>3. rq[t].st = "flight" =>
          /\ rq[t].sq \in Sqs
          /\ t \in Posted \/ t \in inside \/ t \in Queued(rq[t].sq) \/ t \in Prepared
    BY DEF TagInv, NoneLost
  <1> QED
    BY <1>1, <1>2, <1>3 DEF Where, Place

LEMMA WhereWillBe == TagInv' => Where' = [t \in Tags |-> Place(t)]'
  <1>1. (TagInv => Where = [t \in Tags |-> Place(t)])'
    BY WhereIsPlace, PTL
  <1> QED
    BY <1>1

LEMMA Moves ==
  ASSUME TagInv, TagInv', NEW S \in SUBSET Tags, NEW from, NEW to, \A t \in S : Place(t) = from,
         \A t \in Tags : Place(t)' = IF t \in S THEN to ELSE Place(t)
  PROVE  Commands!Move(S, from, to)
  <1>1. Where = [t \in Tags |-> Place(t)] /\ Where' = [t \in Tags |-> Place(t)']
    BY WhereIsPlace, WhereWillBe
  <1> QED
    BY <1>1 DEF Commands!Move

LEMMA NothingMoves ==
  ASSUME TagInv, TagInv', UNCHANGED <<tail, mem, fetch, inside, post, cqe, head>>
  PROVE  Where' = Where
  <1>1. Where = [t \in Tags |-> Place(t)] /\ Where' = [t \in Tags |-> Place(t)']
    BY WhereIsPlace, WhereWillBe
  <1>2. \A t : Place(t)' = Place(t)
    BY DEF Place, Posted, Unhandled, Queued, Unfetched
  <1> QED
    BY <1>1, <1>2

LEMMA EnterIsSubmit ==
  ASSUME TagInv, TagInv', NEW q \in Sqs, NEW S \in SUBSET Tags, Entered(q, S),
         Posted' = Posted, inside' = inside
  PROVE  Commands!Submit
  <1>1. \A t \in S : Place(t) = "idle"
    BY DEF Entered, Place
  <1>2. ASSUME NEW t \in Tags
        PROVE  Place(t)' = IF t \in S THEN "queued" ELSE Place(t)
    <2>1. (\E p \in Sqs : t \in Queued(p)') <=> t \in S \/ \E p \in Sqs : t \in Queued(p)
      BY DEF Entered
    <2> QED
      BY <2>1 DEF Entered, Place
  <1>3. Commands!Move(S, "idle", "queued")
    BY <1>1, <1>2, Moves
  <1> QED
    BY <1>3 DEF Commands!Submit

LEMMA FetchIsFetch ==
  ASSUME QInv, QInv', NEW q \in Sqs, FetchCmd(q)
  PROVE  Commands!Fetch
  <1>1. PICK t : t = mem[q][fetch[q]]
    OBVIOUS
  <1>2. /\ t \in Queued(q) /\ Queued(q)' = Queued(q) \ {t}
        /\ \A p \in Sqs \ {q} : Queued(p)' = Queued(p)
        /\ Posted' = Posted /\ inside' = inside \cup {t}
    BY <1>1, FetchTags DEF FetchCmd
  <1>3. t \in Tags /\ \A p \in Sqs : t \in Queued(p) => rq[t].sq = p
    BY <1>2 DEF QInv, TagInv, QueuedOk, Queued
  <1>4. t \notin Posted /\ t \notin inside
    BY <1>2, <1>3, OnePlace DEF QInv
  <1>5. \A u \in {t} : Place(u) = "queued"
    BY <1>2, <1>4 DEF Place
  <1>6. ASSUME NEW u \in Tags
        PROVE  Place(u)' = IF u \in {t} THEN "device" ELSE Place(u)
    <2>1. u # t => ((\E p \in Sqs : u \in Queued(p)') <=> \E p \in Sqs : u \in Queued(p))
      BY <1>2
    <2> QED
      BY <1>2, <1>4, <2>1 DEF Place
  <1>7. Commands!Move({t}, "queued", "device")
    BY <1>3, <1>5, <1>6, Moves DEF QInv
  <1> QED
    BY <1>3, <1>7 DEF Commands!Fetch

LEMMA PostIsAnswer ==
  ASSUME QInv, QInv', NEW t \in Tags, NEW raised \in BOOLEAN, PostCqe(t, raised)
  PROVE  Commands!Answer
  <1> USE DEF QInv
  <1>1. t \in inside /\ inside' = inside \ {t} /\ \A q : Queued(q)' = Queued(q)
    BY DEF PostCqe, Queued, Unfetched, driverVars
  <1>2. post.at \notin Unhandled /\ Unhandled' = Unhandled \cup {post.at}
    BY PostMoves DEF PostCqe
  <1>3. Posted' = Posted \cup {t}
    <2>1. cqe'[post.at].tag = t /\ \A i \in Unhandled : cqe'[i] = cqe[i]
      BY <1>2 DEF PostCqe, Typed, CtrlTypes
    <2> QED
      BY <1>2, <2>1 DEF Posted
  <1>4. t \notin Posted
    BY <1>1, OnePlace
  <1>5. \A u \in {t} : Place(u) = "device"
    BY <1>1, <1>4 DEF Place
  <1>6. \A u \in Tags : Place(u)' = IF u \in {t} THEN "posted" ELSE Place(u)
    BY <1>1, <1>3 DEF Place
  <1>7. Commands!Move({t}, "device", "posted")
    BY <1>5, <1>6, Moves
  <1> QED
    BY <1>7 DEF Commands!Answer

LEMMA HandleIsComplete ==
  ASSUME QInv, QInv', NEW c \in Consumers, HandleCqe(c)
  PROVE  Commands!Complete
  <1> USE DEF QInv
  <1>1. PICK t : t = cqe[head.at].tag
    OBVIOUS
  <1>2. head.at \in Unhandled /\ Unhandled' = Unhandled \ {head.at}
    BY HeadMoves DEF HandleCqe, Alone
  <1>3. t \in Tags /\ Posted' = Posted \ {t}
    BY <1>1, <1>2, TagDone DEF HandleCqe
  <1>4. inside' = inside /\ \A q : Queued(q)' = Queued(q)
    BY DEF HandleCqe, Queued, Unfetched
  <1>5. t \in Posted
    BY <1>1, <1>2 DEF Posted
  <1>6. t \notin inside /\ \A q \in Sqs : t \notin Queued(q)
    BY <1>3, <1>5, OnePlace
  <1>7. \A u \in {t} : Place(u) = "posted"
    BY <1>5 DEF Place
  <1>8. \A u \in Tags : Place(u)' = IF u \in {t} THEN "idle" ELSE Place(u)
    BY <1>3, <1>4, <1>6 DEF Place
  <1>9. Commands!Move({t}, "posted", "idle")
    BY <1>3, <1>7, <1>8, Moves
  <1> QED
    BY <1>3, <1>9 DEF Commands!Complete

LEMMA StepRefines == QInv /\ [Next]_vars => [Commands!Next]_Where
  <1> SUFFICES ASSUME QInv, [Next]_vars PROVE Commands!Next \/ Where' = Where
    OBVIOUS
  <1>1. QInv'
    BY StepHolds
  <1>2. TagInv /\ TagInv'
    BY <1>1 DEF QInv
  <1> DEFINE Still == UNCHANGED <<tail, mem, fetch, inside, post, cqe, head>>
  <1>3. Still => Where' = Where
    BY <1>2, NothingMoves
  <1>4. CASE UNCHANGED vars
    BY <1>3, <1>4 DEF vars, driverVars, ctrlVars, cqVars
  <1>5. ASSUME NEW q \in Sqs, NEW isLast \in BOOLEAN, QueueRq(q, isLast)
        PROVE  Commands!Next
    BY <1>2, <1>5, QueueStep, EnterIsSubmit DEF Commands!Next
  <1>6. ASSUME NEW ok \in BOOLEAN, PrepNext(ok)
        PROVE  Commands!Next \/ Still
    BY <1>2, <1>6, PrepStep, EnterIsSubmit DEF Commands!Next
  <1>7. ASSUME NEW q \in Sqs, FetchCmd(q)
        PROVE  Commands!Next
    BY <1>1, <1>7, FetchIsFetch DEF Commands!Next
  <1>8. ASSUME NEW t \in Tags, Complete(t)
        PROVE  Commands!Next
    BY <1>1, <1>8, PostIsAnswer DEF Complete, Commands!Next
  <1>9. ASSUME NEW c \in Consumers, HandleCqe(c)
        PROVE  Commands!Next
    BY <1>1, <1>9, HandleIsComplete DEF Commands!Next
  <1>10. ASSUME NEW q \in Sqs, CommitRqs(q) \/ CheckSqEvent(q)
         PROVE  Still
    BY <1>10 DEF CommitRqs, CheckSqEvent, ctrlVars, cqVars
  <1>11. ASSUME NEW qs \in Lists, QueueRqs(qs)
         PROVE  Still
    BY <1>11 DEF QueueRqs, ctrlVars, cqVars
  <1>12. ASSUME NEW d \in Bells, ArmEvent(d) \/ LookAgain(d)
         PROVE  Still
    BY <1>12 DEF ArmEvent, LookAgain, driverVars, ctrlVars, cqVars
  <1>13. ASSUME NEW t \in Tags, Timeout(t)
         PROVE  Still
    BY <1>13 DEF Timeout, driverVars, ctrlVars
  <1>14. CASE Irq \/ Poll \/ LookForMissed \/ Decide \/ AbortEndio
    BY <1>3, <1>14 DEF Irq, Poll, LookForMissed, Decide, DecideTimeout, AbortEndio, driverVars,
                       ctrlVars, cqVars
  <1>15. ASSUME NEW c \in Consumers, CheckCqEvent(c)
         PROVE  Still
    BY <1>15 DEF CheckCqEvent, driverVars, ctrlVars
  <1> HIDE DEF Still
  <1> QED
    BY <1>3, <1>4, <1>5, <1>6, <1>7, <1>8, <1>9, <1>10, <1>11, <1>12, <1>13, <1>14, <1>15
       DEF Next, Consume

(* The rings, the phase bit and the consumers of the completion queue      *)
(* submit, fetch, answer and complete each command once and in this order  *)
(* (nvme_queue_rq(), nvme_queue_rqs(), nvme_poll_cq()), whatever is lost,  *)
(* delayed or polled for.                                                  *)
THEOREM QueueRefinement == Spec => ImplementsCommands
  <1>1. Init => Commands!Init
    <2> SUFFICES ASSUME NEW w \in Setups, InitWith(w) PROVE Commands!Init
      BY DEF Init
    <2>1. \A t \in Tags : rq[t].st = "idle"
      BY DEF InitWith, Idle
    <2> QED
      BY <2>1 DEF Where, Commands!Init
  <1> QED
    BY <1>1, StepRefines, QueueInvariance, PTL DEF Spec, ImplementsCommands, Commands!Spec
=============================================================================
