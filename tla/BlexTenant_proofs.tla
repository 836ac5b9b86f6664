-------------------------- MODULE BlexTenant_proofs --------------------------
(***************************************************************************)
(* Proofs about the I/O contexts of tasks, for any setups of devices,      *)
(* tasks, setters and CPUs: every value has its type and every NQ in use   *)
(* exists, an outlier has its NQ, a request goes where its task's priority *)
(* says, and the NSQ maps count the tasks.                                 *)
(***************************************************************************)
EXTENDS BlexTenant, FiniteSetTheorems, TLAPS

-----------------------------------------------------------------------------
(* The layout: the k-th NCQ and its NSQs lie between Bound(k) and          *)
(* Bound(k + 1).                                                           *)
Extra(M, C) == M % C
Ave(M, C) == M \div C
Least(a, b) == IF a <= b THEN a ELSE b
Bound(k, M, C) == k * Ave(M, C) + Least(k, Extra(M, C)) + 1

LEMMA TimesFacts ==
  /\ \A a, b \in Nat : a * b \in Nat
  /\ \A a, b, c \in Nat : (a + b) * c = a * c + b * c /\ c * (a + b) = c * a + c * b
  /\ \A a, b, c \in Nat : a <= b => a * c <= b * c
  OBVIOUS

LEMMA DivFacts ==
  ASSUME NEW a \in Nat, NEW b \in Nat \ {0}
  PROVE  /\ a \div b \in Nat /\ a % b \in Nat /\ a % b < b
         /\ a = (a \div b) * b + (a % b)
  OBVIOUS

LEMMA DeviceFacts ==
  ASSUME setup \in Setups
  PROVE  /\ MaxNqid \in Nat \ {0} /\ NrCqs \in Nat \ {0, 1} /\ NrCqs <= MaxNqid /\ NrCpus \in Nat \ {0}
         /\ Nqs = 1 .. MaxNqid /\ Cpus = 0 .. NrCpus - 1 /\ 0 \in Cpus
         /\ None \notin Nqs /\ None \notin Nat /\ None \notin Tasks /\ Tasks \cap Setters = {} /\ Magnitude \in Nat \ {0}
         /\ setup.io \in [Tasks -> Tasks \cup {None}]
         /\ setup.bios \subseteq {"sync", "meta", "async"} /\ setup.classes \subseteq {"rt", "be"}
         /\ setup.home \in [Tasks -> SUBSET Nat] /\ \A t \in Tasks : setup.home[t] \subseteq Cpus
  <1>1. setup \in Setup /\ setup.cqs \in 2 .. setup.nqs
    BY TenantAssumption
  <1>2. /\ setup.nqs \in Nat \ {0} /\ setup.cqs \in Nat /\ setup.cpus \in Nat \ {0}
        /\ setup.io \in [Tasks -> Tasks \cup {None}] /\ setup.bios \subseteq {"sync", "meta", "async"}
        /\ setup.classes \subseteq {"rt", "be"} /\ setup.home \in [Tasks -> SUBSET Nat]
    BY <1>1 DEF Setup
  <1>3. \A t \in Tasks : setup.home[t] \subseteq 0 .. setup.cpus - 1
    BY TenantAssumption
  <1> QED
    BY <1>1, <1>2, <1>3, TenantAssumption DEF MaxNqid, NrCqs, NrCpus, Nqs, Cpus

LEMMA NcqBlock ==
  ASSUME NEW M \in Nat \ {0}, NEW C \in Nat \ {0}, C <= M, NEW k \in 0 .. C - 1
  PROVE  LET q == GetKthCqid(k, M, C) IN
         /\ q = Bound(k, M, C) /\ q + GetCqNrNsqs(q, M, C) = Bound(k + 1, M, C)
         /\ q \in Nat \ {0} /\ Bound(k + 1, M, C) \in Nat /\ GetCqNrNsqs(q, M, C) \in Nat \ {0}
  <1> DEFINE a == Ave(M, C)
             e == Extra(M, C)
             q == GetKthCqid(k, M, C)
             min == e * (a + 1) + 1
  <1>1. a \in Nat \ {0} /\ e \in Nat /\ e < C /\ M = a * C + e
    <2>1. M \div C \in Nat /\ M % C \in Nat /\ M % C < C /\ M = (M \div C) * C + (M % C)
      BY DivFacts
    <2>2. M \div C # 0
      BY <2>1
    <2> QED
      BY <2>1, <2>2 DEF Ave, Extra
  <1>2. k % C = k /\ k \in Nat
    OBVIOUS
  <1>3. q = IF k < e THEN k * (a + 1) + 1 ELSE e + k * a + 1
    BY <1>2 DEF GetKthCqid, Ave, Extra
  <1>4. GetCqNrNsqs(q, M, C) = IF q < min THEN a + 1 ELSE a
    BY DEF GetCqNrNsqs, MinNoExtraSqCqid, Ave, Extra
  <1>5. /\ k * (a + 1) = k * a + k /\ (k + 1) * a = k * a + a /\ k * a \in Nat
        /\ e * (a + 1) = e * a + e /\ e * a \in Nat
    BY <1>1, <1>2, TimesFacts
  <1>6. q = Bound(k, M, C)
    BY <1>1, <1>2, <1>3, <1>5 DEF Bound, Least
  <1>7. q < min <=> k < e
    <2>1. k < e => (k + 1) * a <= e * a
      BY <1>1, <1>2, TimesFacts
    <2>2. e <= k => e * a <= k * a
      BY <1>1, <1>2, TimesFacts
    <2> QED
      BY <1>1, <1>2, <1>3, <1>5, <2>1, <2>2
  <1>8. Bound(k + 1, M, C) = k * a + a + Least(k + 1, e) + 1
    BY <1>5 DEF Bound
  <1>9. q + GetCqNrNsqs(q, M, C) = Bound(k + 1, M, C)
    <2> HIDE DEF q, min, a, e
    <2> QED
      BY <1>1, <1>2, <1>3, <1>4, <1>5, <1>7, <1>8 DEF Least
  <1>10. q \in Nat \ {0} /\ Bound(k + 1, M, C) \in Nat /\ GetCqNrNsqs(q, M, C) \in Nat \ {0}
    <2> HIDE DEF q, min, a, e
    <2> QED
      BY <1>1, <1>2, <1>3, <1>4, <1>5, <1>8 DEF Least
  <1> QED
    BY <1>6, <1>9, <1>10

LEMMA BoundGrows ==
  ASSUME NEW M \in Nat \ {0}, NEW C \in Nat \ {0}, C <= M, NEW j \in 0 .. C, NEW k \in 0 .. C, j <= k
  PROVE  /\ Bound(j, M, C) \in Nat \ {0} /\ Bound(k, M, C) \in Nat \ {0}
         /\ Bound(j, M, C) <= Bound(k, M, C) /\ Bound(C, M, C) = M + 1
         /\ j < k => Bound(j, M, C) < Bound(k, M, C)
  <1> DEFINE a == Ave(M, C)
             e == Extra(M, C)
  <1>1. a \in Nat \ {0} /\ e \in Nat /\ e < C /\ M = a * C + e
    <2>1. M \div C \in Nat /\ M % C \in Nat /\ M % C < C /\ M = (M \div C) * C + (M % C)
      BY DivFacts
    <2>2. M \div C # 0
      BY <2>1
    <2> QED
      BY <2>1, <2>2 DEF Ave, Extra
  <1>2. j * a \in Nat /\ k * a \in Nat /\ j * a <= k * a /\ C * a = a * C
    BY <1>1, TimesFacts
  <1>3. j < k => j * a + a <= k * a
    <2>1. j < k => (j + 1) * a <= k * a
      BY <1>1, TimesFacts
    <2>2. (j + 1) * a = j * a + a
      BY <1>1, TimesFacts
    <2> QED
      BY <2>1, <2>2
  <1> HIDE DEF a, e
  <1> QED
    BY <1>1, <1>2, <1>3 DEF Bound, Least, a, e

(* A group's NQs are a block of IDs, and those of the two groups differ.   *)
LEMMA GroupBlock ==
  ASSUME setup \in Setups, NEW p \in Prios
  PROVE  /\ GroupNqs(p) \subseteq Nqs
         /\ GroupNqs(TPrio) \cap GroupNqs(LPrio) = {}
         /\ GroupOf(LPrio, MaxNqid, NrCqs).ncq_start \in 2 .. MaxNqid
  <1> DEFINE M == MaxNqid
             C == NrCqs
             h == C \div 2
             B(k) == Bound(k, M, C)
             from(q) == NcqStartIdx(q, C)
             to(q) == IF q = 1 THEN C ELSE h
  <1>1. M \in Nat \ {0} /\ C \in Nat \ {0, 1} /\ C <= M /\ Nqs = 1 .. M
    BY DeviceFacts
  <1>2. h \in Nat \ {0} /\ h < C /\ Prios = {0, 1} /\ TPrio = 0 /\ LPrio = 1 /\ PrioLevel = 2
    BY <1>1 DEF Prios, PrioLevel, TPrio, LPrio
  <1>3. from(0) = 0 /\ from(1) = h
    BY <1>2 DEF NcqStartIdx
  <1>4. \A q \in Prios : /\ GroupOf(q, M, C).ncq_start = GetKthCqid(from(q), M, C)
                         /\ GroupOf(q, M, C).ncqs = {GetKthCqid(from(q) + i, M, C) : i \in 0 .. (to(q) - from(q)) - 1}
    <2> SUFFICES ASSUME NEW q \in Prios
                 PROVE  /\ GroupOf(q, M, C).ncq_start = GetKthCqid(from(q), M, C)
                        /\ GroupOf(q, M, C).ncqs = {GetKthCqid(from(q) + i, M, C) : i \in 0 .. (to(q) - from(q)) - 1}
      OBVIOUS
    <2> DEFINE n == IF q + 1 = PrioLevel THEN C - from(q) ELSE C \div PrioLevel
    <2>1. n = to(q) - from(q)
      BY <1>1, <1>2, <1>3
    <2>2. /\ GroupOf(q, M, C).ncq_start = GetKthCqid(from(q), M, C)
          /\ GroupOf(q, M, C).ncqs = {GetKthCqid(from(q) + i, M, C) : i \in 0 .. n - 1}
      BY DEF GroupOf
    <2> HIDE DEF n, from, to, M, C
    <2> QED
      BY <2>1, <2>2
  <1>5. ASSUME NEW q \in Prios, NEW n \in GroupNqs(q)
        PROVE  n \in Nat /\ B(from(q)) <= n /\ n < B(to(q))
    <2>1. PICK c \in GroupOf(q, M, C).ncqs : n \in c .. c + GetCqNrNsqs(c, M, C) - 1
      BY <1>5 DEF GroupNqs
    <2>2. PICK i \in 0 .. (to(q) - from(q)) - 1 : c = GetKthCqid(from(q) + i, M, C)
      BY <1>4, <2>1
    <2> DEFINE k == from(q) + i
    <2>7. from(q) \in 0 .. C /\ to(q) \in 0 .. C
      BY <1>1, <1>2, <1>3
    <2>3. /\ k \in 0 .. C - 1 /\ k \in 0 .. C /\ k + 1 \in 0 .. C /\ from(q) \in 0 .. C /\ to(q) \in 0 .. C
          /\ from(q) <= k /\ k + 1 <= to(q)
      <3> HIDE DEF from, to, h, M, C
      <3> QED
        BY <1>1, <2>7
    <2>4. c = GetKthCqid(k, M, C)
      BY <2>2
    <2> HIDE DEF k, M, C
    <2>5. c = B(k) /\ c + GetCqNrNsqs(c, M, C) = B(k + 1) /\ c \in Nat /\ GetCqNrNsqs(c, M, C) \in Nat /\ B(k + 1) \in Nat
      BY <1>1, <2>3, <2>4, NcqBlock
    <2>6. B(from(q)) <= B(k) /\ B(k + 1) <= B(to(q)) /\ B(from(q)) \in Nat /\ B(to(q)) \in Nat
      <3> HIDE DEF from, to
      <3>1. B(from(q)) <= B(k) /\ B(from(q)) \in Nat
        BY <1>1, <2>3, BoundGrows
      <3>2. \A j \in 0 .. C, l \in 0 .. C : j <= l => B(j) <= B(l) /\ B(l) \in Nat
        BY <1>1, BoundGrows
      <3> QED
        BY <2>3, <3>1, <3>2
    <2> HIDE DEF B, from, to
    <2> QED
      BY <2>1, <2>5, <2>6
  <1>6. B(0) \in Nat \ {0} /\ B(h) \in Nat /\ B(0) < B(h) /\ B(C) = M + 1 /\ B(h) <= M /\ B(h) <= B(C)
    <2>1. 0 \in 0 .. C /\ h \in 0 .. C /\ C \in 0 .. C /\ 0 < h /\ h < C /\ C \in Nat \ {0}
      BY <1>1, <1>2
    <2> HIDE DEF M, C, h
    <2>2. ASSUME NEW j \in 0 .. C, NEW l \in 0 .. C, j <= l
          PROVE  B(j) \in Nat \ {0} /\ B(C) = M + 1 /\ (j < l => B(j) < B(l))
      BY <1>1, <2>1, <2>2, BoundGrows
    <2> HIDE DEF B
    <2>5. 0 <= h /\ h <= C
      BY <2>1
    <2>3. B(0) \in Nat \ {0} /\ B(0) < B(h)
      BY <2>1, <2>2, <2>5
    <2>4. B(h) \in Nat \ {0} /\ B(h) < B(C) /\ B(C) = M + 1
      BY <2>1, <2>2, <2>5
    <2> QED
      BY <1>1, <2>3, <2>4
  <1>7. GroupOf(LPrio, M, C).ncq_start = B(h)
    <2>1. h \in 0 .. C - 1 /\ C \in Nat \ {0}
      BY <1>1, <1>2
    <2>2. GetKthCqid(h, M, C) = B(h)
      <3> HIDE DEF M, C, h
      <3> QED
        BY <1>1, <2>1, NcqBlock
    <2> QED
      BY <1>2, <1>3, <1>4, <2>2
  <1>8. to(0) = h /\ to(1) = C
    OBVIOUS
  <1> HIDE DEF M, C, h, B, from, to
  <1>9. GroupNqs(p) \subseteq Nqs
    <2>1. \A n \in GroupNqs(p) : n \in Nat /\ B(from(p)) <= n /\ n < B(to(p))
      BY <1>5
    <2> QED
      BY <1>1, <1>2, <1>3, <1>6, <1>8, <2>1
  <1>10. GroupNqs(TPrio) \cap GroupNqs(LPrio) = {}
    <2> SUFFICES ASSUME NEW n \in GroupNqs(TPrio), n \in GroupNqs(LPrio) PROVE FALSE
      OBVIOUS
    <2>1. n \in Nat /\ n < B(to(0)) /\ B(from(1)) <= n
      BY <1>2, <1>5
    <2> QED
      BY <1>3, <1>6, <1>8, <2>1
  <1>11. GroupOf(LPrio, M, C).ncq_start \in 2 .. M
    BY <1>1, <1>6, <1>7
  <1> QED
    BY <1>9, <1>10, <1>11 DEF M, C

-----------------------------------------------------------------------------
(* The first invariant: types, and what a context relies on at each of its *)
(* places in the code.                                                     *)

MapOps == {"set", "set_load", "set_store", "clear", "clear_store"}
Returns == {"init_end", "moved_set", "moved_end", "pin", "pin_clear", "unpin", "free"}
Profiling == {"profile", "moved", "moved_set", "moved_end", "notice", "resched",
              "recommend", "pin", "pin_clear", "unpin", "assign", "outlier"}
Scheduling == {"pin", "pin_clear", "unpin", "assign"}
Leaving == {"recommend", "pin", "pin_clear"}
Making == {"init_end", "insert"}
Labels == {"idle", "dead", "oops", "notify", "io_alloc", "lookup", "init", "route", "tag", "free"}
            \cup Making \cup Profiling \cup MapOps

IoPrios == {TPrio, LPrio, OutlierPrio}

ObjType == [live : BOOLEAN, prio : IoPrios, hctx : Nqs \cup {None}, outlier : Nqs \cup {None},
            last : Cpus, need : BOOLEAN, sync : 0 .. Magnitude, async : 0 .. Magnitude]

LocType == [ctx : Tasks \cup {None}, target : Tasks \cup {None}, class : {"rt", "be"},
            bio : {"sync", "meta", "async"}, prio : IoPrios, old : Nqs \cup {None}, nq : Nqs \cup {None},
            cpu : Cpus, v : Nat, mcpu : Cpus, mnq : Nqs \cup {None}, next : Returns \cup {"idle"},
            pinned : BOOLEAN, changed : BOOLEAN, steady : BOOLEAN]

TyEnv ==
  /\ setup \in Setups
  /\ cpu \in [Tasks -> Cpus] /\ io \in [Tasks -> Tasks \cup {None}]
  /\ ioprio \in [Tasks -> {"rt", "be"}] /\ asked \in [Tasks -> {"rt", "be"}]
  /\ ctx \in [Tasks -> Tasks \cup {None}]
  /\ pc \in [Contexts -> Labels]
TyMaps ==
  /\ nsqMap \in [Cpus -> [Nqs -> Nat]] /\ inUse \in [Cpus -> Int]
  /\ claimed \in [Nqs -> SUBSET Cpus]
TySent ==
  /\ sent = [t \in Tasks |-> sent[t]]
  /\ \A t \in Tasks : sent[t] # None => sent[t].nq \in Nqs
  /\ cached \in [Tasks -> Nqs \cup {None}]
Types == TyEnv /\ TyMaps /\ TySent /\ obj \in [Tasks -> ObjType] /\ loc \in [Contexts -> LocType]

(* Where a context is, or where it goes on after the maps. *)
Stage(c) == IF pc[c] \in MapOps THEN loc[c].next ELSE pc[c]

(* The contexts on the device have an NQ. *)
Made == \A x \in Tasks : ctx[x] # None => obj[ctx[x]].hctx # None

Placed(t) ==
  /\ pc[t] # "notify"
  /\ pc[t] \in MapOps => loc[t].mnq # None /\ loc[t].next # "idle"
  /\ pc[t] = "io_alloc" => loc[t].target = t
  /\ Stage(t) \in {"lookup", "init"} \cup Making \cup Profiling => io[t] # None
  /\ Stage(t) = "init" => loc[t].prio # OutlierPrio
  /\ Stage(t) \in Making => obj[t].hctx # None
  /\ Stage(t) \in Profiling => loc[t].ctx # None /\ obj[loc[t].ctx].hctx # None
  /\ Stage(t) = "free" => loc[t].ctx # None
  /\ Stage(t) \in Scheduling => loc[t].nq # None
  /\ Stage(t) \in Leaving => loc[t].old # None

SetterPlaced(s) ==
  /\ pc[s] \in {"idle", "dead", "oops", "notify", "io_alloc"}
  /\ pc[s] \in {"notify", "io_alloc"} => loc[s].target # None

TInv ==
  /\ Types /\ Made
  /\ \A t \in Tasks : Placed(t)
  /\ \A s \in Setters : SetterPlaced(s)

(* What depends on the device only stays. *)
LEMMA SameDevice ==
  ASSUME UNCHANGED setup
  PROVE  /\ Nqs' = Nqs /\ Cpus' = Cpus /\ MaxNqid' = MaxNqid /\ NrCqs' = NrCqs /\ NrCpus' = NrCpus
         /\ ObjType' = ObjType /\ LocType' = LocType
         /\ \A p : GroupNqs(p)' = GroupNqs(p)
  BY DEF Nqs, Cpus, MaxNqid, NrCqs, NrCpus, ObjType, LocType, GroupNqs

LEMMA TInit == Init => TInv
  <1> SUFFICES ASSUME Init PROVE TInv
    OBVIOUS
  <1> USE DEF Init
  <1>1. setup \in Setups
    OBVIOUS
  <1>2. /\ setup.io \in [Tasks -> Tasks \cup {None}] /\ 0 \in Cpus /\ None \notin Nat /\ Tasks \cap Setters = {}
        /\ Magnitude \in Nat
    BY <1>1, DeviceFacts
  <1>3. NoCtx \in ObjType /\ NoLoc \in LocType
    BY <1>2 DEF NoCtx, NoLoc, ObjType, LocType, IoPrios, TPrio, LPrio, OutlierPrio, Returns
  <1>4. TyEnv
    BY <1>1, <1>2 DEF TyEnv, Labels
  <1>5. TyMaps /\ TySent
    BY DEF TyMaps, TySent
  <1>6. \A c \in Contexts : pc[c] \in {"idle", "dead"}
    OBVIOUS
  <1>7. \A t \in Tasks : Placed(t)
    BY <1>6 DEF Placed, Stage, MapOps, Making, Profiling, Scheduling, Leaving, Contexts
  <1>8. \A s \in Setters : SetterPlaced(s)
    BY <1>6 DEF SetterPlaced, Contexts
  <1> QED
    BY <1>3, <1>4, <1>5, <1>7, <1>8 DEF TInv, Types, Made

(* Who is not concerned by a step stays well placed. *)
LEMMA OthersPlaced ==
  ASSUME NEW u \in Tasks, Placed(u), Types, pc'[u] = pc[u],
         \/ loc'[u] = loc[u]
         \/ loc'[u] = [loc[u] EXCEPT !.steady = FALSE],
         io'[u] = io[u] \/ io'[u] # None,
         \A o \in Tasks : obj[o].hctx # None => obj'[o].hctx # None
  PROVE  Placed(u)'
  <1>1. loc[u] \in LocType
    BY DEF Types, Contexts
  <1>2. /\ loc'[u].mnq = loc[u].mnq /\ loc'[u].next = loc[u].next /\ loc'[u].target = loc[u].target
        /\ loc'[u].prio = loc[u].prio /\ loc'[u].ctx = loc[u].ctx /\ loc'[u].nq = loc[u].nq
        /\ loc'[u].old = loc[u].old
    BY <1>1 DEF LocType
  <1>3. Stage(u)' = Stage(u)
    BY <1>2 DEF Stage
  <1>4. loc[u].ctx # None => loc[u].ctx \in Tasks
    BY <1>1 DEF LocType
  <1>5. \A x : obj[u].hctx # None => obj'[u].hctx # None
    OBVIOUS
  <1> QED
    BY <1>2, <1>3, <1>4, <1>5 DEF Placed

(* A step of one task, put together. *)
Others(t) == \A c \in Contexts \ {t} : pc'[c] = pc[c] /\ loc'[c] = loc[c]
Kept == \A o \in Tasks : obj[o].hctx # None => obj'[o].hctx # None
SameIo == UNCHANGED <<io, ctx, setup>>

LEMMA TaskStep ==
  ASSUME TInv, NEW t \in Tasks, Types', Others(t), Kept, Made', Placed(t)',
         \A u \in Tasks \ {t} : io'[u] = io[u]
  PROVE  TInv'
  <1>1. \A u \in Tasks : Placed(u)'
    <2> SUFFICES ASSUME NEW u \in Tasks, u # t PROVE Placed(u)'
      OBVIOUS
    <2>1. Placed(u) /\ Types /\ pc'[u] = pc[u] /\ loc'[u] = loc[u] /\ io'[u] = io[u]
      BY DEF TInv, Others, Contexts
    <2> QED
      BY <2>1, OthersPlaced DEF Kept
  <1>2. \A s \in Setters : SetterPlaced(s)'
    <2> TAKE s \in Setters
    <2>1. s # t /\ s \in Contexts
      BY DeviceFacts DEF TInv, Types, TyEnv, Contexts
    <2> QED
      BY <2>1 DEF TInv, SetterPlaced, Others
  <1> QED
    BY <1>1, <1>2 DEF TInv

LEMMA MadeStays ==
  ASSUME Made, Types, Kept, UNCHANGED ctx
  PROVE  Made'
  BY DEF Made, Kept, Types, TyEnv

(* What a task at a place may rely on. *)
LEMMA TaskTypes ==
  ASSUME TInv, NEW t \in Tasks
  PROVE  /\ Types /\ Made /\ Placed(t) /\ t \in Contexts /\ loc[t] \in LocType /\ obj[t] \in ObjType
         /\ loc[t].ctx # None => loc[t].ctx \in Tasks /\ obj[loc[t].ctx] \in ObjType
         /\ io[t] # None => io[t] \in Tasks
  BY DEF TInv, Types, TyEnv, Contexts, LocType

LEMMA MigrateT ==
  ASSUME TInv, UNCHANGED setup, NEW t \in Tasks, NEW c \in Cpus, Migrate(t, c)
  PROVE  TInv'
  <1>1. Types'
    BY SameDevice DEF Migrate, mapVars, TInv, Types, TyEnv, TyMaps, TySent
  <1>2. UNCHANGED <<io, ctx, obj, pc, loc>>
    BY DEF Migrate
  <1> QED
    BY <1>1, <1>2, TaskStep, MadeStays DEF TInv, Others, Kept, Placed, Stage

(* The maps: two steps each, on the entry they were called with. *)
LEMMA MapsT ==
  ASSUME TInv, UNCHANGED setup, NEW t \in Tasks, Maps(t)
  PROVE  TInv'
  <1> DEFINE l == loc[t]
  <1>1. /\ UNCHANGED <<cpu, io, ioprio, ctx, obj, asked, sent, cached>> /\ pc[t] \in MapOps
    BY DEF Maps, SetClaim, SetLoad, SetStore, ClearLoad, ClearStore, At, MapOps
  <1>2. l.mnq \in Nqs /\ l.next \in Returns /\ l.mcpu \in Cpus /\ l.v \in Nat /\ l \in LocType /\ t \in Contexts
    BY <1>1, TaskTypes DEF Placed, LocType
  <1>3. /\ pc' = [pc EXCEPT ![t] = pc'[t]] /\ pc'[t] \in MapOps \cup {l.next}
        /\ \/ UNCHANGED loc
           \/ \E v \in Nat : loc' = [loc EXCEPT ![t].v = v]
    <2>1. nsqMap[l.mcpu][l.mnq] \in Nat
      BY <1>2 DEF TInv, Types, TyMaps
    <2>2. pc = [c \in Contexts |-> pc[c]]
      BY DEF TInv, Types, TyEnv
    <2> QED
      BY <1>2, <2>1, <2>2 DEF Maps, SetClaim, SetLoad, SetStore, ClearLoad, ClearStore, Goto, MapOps, TInv, Types, TyEnv
  <1>4. TyMaps'
    <2>1. TyMaps
      BY DEF TInv, Types
    <2>2. CASE SetClaim(t)
      BY <1>2, <2>1, <2>2, SameDevice DEF SetClaim, TyMaps
    <2>3. CASE SetLoad(t) \/ ClearLoad(t)
      BY <2>1, <2>3, SameDevice DEF SetLoad, ClearLoad, mapVars, TyMaps
    <2>4. CASE SetStore(t)
      <3>1. inUse' \in [Cpus -> Int]
        BY <1>2, <2>1, <2>4 DEF SetStore, TyMaps
      <3>2. nsqMap' \in [Cpus -> [Nqs -> Nat]]
        BY <1>2, <2>1, <2>4 DEF SetStore, TyMaps
      <3> QED
        BY <2>1, <2>4, <3>1, <3>2, SameDevice DEF SetStore, TyMaps
    <2>5. CASE ClearStore(t)
      <3>1. claimed' \in [Nqs -> SUBSET Cpus]
        BY <1>2, <2>1, <2>5 DEF ClearStore, TyMaps
      <3>2. inUse' \in [Cpus -> Int]
        BY <1>2, <2>1, <2>5 DEF ClearStore, TyMaps
      <3>3. nsqMap' \in [Cpus -> [Nqs -> Nat]]
        BY <1>2, <2>1, <2>5 DEF ClearStore, TyMaps
      <3> QED
        BY <3>1, <3>2, <3>3, SameDevice DEF TyMaps
    <2> QED
      BY <2>2, <2>3, <2>4, <2>5 DEF Maps
  <1>5. /\ loc'[t].mnq = l.mnq /\ loc'[t].next = l.next /\ loc'[t].target = l.target
        /\ loc'[t].prio = l.prio /\ loc'[t].ctx = l.ctx /\ loc'[t].nq = l.nq /\ loc'[t].old = l.old
        /\ loc' \in [Contexts -> LocType] /\ \A c \in Contexts \ {t} : loc'[c] = loc[c]
    BY <1>2, <1>3 DEF TInv, Types, LocType
  <1>6. pc' \in [Contexts -> Labels] /\ \A c \in Contexts \ {t} : pc'[c] = pc[c]
    BY <1>2, <1>3 DEF TInv, Types, TyEnv, Labels, Returns, Making, Profiling
  <1>7. Types'
    BY <1>1, <1>4, <1>5, <1>6, SameDevice DEF TInv, Types, TyEnv, TySent
  <1>8. Placed(t)'
    <2>1. l.next \notin MapOps /\ l.next \notin {"notify", "io_alloc", "lookup", "init", "idle"}
      BY <1>2 DEF MapOps, Returns
    <2>2. Stage(t) = l.next /\ Stage(t)' = l.next /\ pc'[t] \notin {"notify", "io_alloc"}
      BY <1>1, <1>3, <1>5, <2>1 DEF Stage, MapOps
    <2>3. Placed(t) /\ l.mnq # None
      BY <1>1, TaskTypes DEF Placed
    <2> HIDE DEF l, Stage
    <2> QED
      BY <1>1, <1>5, <2>1, <2>2, <2>3 DEF Placed, l
  <1> QED
    BY <1>1, <1>5, <1>6, <1>7, <1>8, TaskStep, MadeStays DEF Others, Kept, TInv

LEMMA SubmitBioT ==
  ASSUME TInv, UNCHANGED setup, NEW t \in Tasks, NEW bio \in setup.bios, SubmitBio(t, bio)
  PROVE  TInv'
  <1>1. /\ UNCHANGED <<cpu, io, ioprio, ctx, obj, nsqMap, inUse, claimed, asked, sent, cached>>
        /\ pc' = [pc EXCEPT ![t] = IF io[t] = None THEN "io_alloc" ELSE "lookup"]
    BY DEF SubmitBio, Goto, mapVars
  <1>2. bio \in {"sync", "meta", "async"} /\ t \in Contexts /\ None \notin Nat /\ 0 \in Cpus
    BY DeviceFacts DEF TInv, Types, TyEnv, Contexts
  <1>3. PICK b \in BOOLEAN : loc' = [loc EXCEPT ![t] = [NoLoc EXCEPT !.bio = bio, !.target = t, !.steady = b]]
    BY DEF SubmitBio
  <1>4. NoLoc \in LocType
    BY <1>2 DEF NoLoc, LocType, IoPrios, TPrio, LPrio, OutlierPrio, Returns
  <1>5. [NoLoc EXCEPT !.bio = bio, !.target = t, !.steady = b] \in LocType
    BY <1>2, <1>4 DEF LocType
  <1>6. loc' \in [Contexts -> LocType] /\ loc'[t].target = t /\ \A c \in Contexts \ {t} : loc'[c] = loc[c]
    BY <1>2, <1>3, <1>4, <1>5 DEF TInv, Types, LocType
  <1>7. pc' \in [Contexts -> Labels] /\ pc'[t] \in {"io_alloc", "lookup"} /\ \A c \in Contexts \ {t} : pc'[c] = pc[c]
    BY <1>1, <1>2 DEF TInv, Types, TyEnv, Labels
  <1>8. Types'
    BY <1>1, <1>6, <1>7, SameDevice DEF TInv, Types, TyEnv, TyMaps, TySent
  <1>9. Placed(t)'
    <2>1. pc'[t] = IF io'[t] = None THEN "io_alloc" ELSE "lookup"
      BY <1>1, <1>2 DEF TInv, Types, TyEnv
    <2> QED
      BY <1>6, <1>7, <2>1 DEF Placed, Stage, MapOps, Making, Profiling, Scheduling, Leaving
  <1> QED
    BY <1>1, <1>6, <1>7, <1>8, <1>9, TaskStep, MadeStays DEF Others, Kept, TInv

(* A step of a task that changes its place and locals, and its contexts.   *)
Quiet == UNCHANGED <<setup, cpu, io, ioprio, asked, nsqMap, inUse, claimed>>

LEMMA TaskMoves ==
  ASSUME TInv, Quiet, NEW t \in Tasks, NEW l \in LocType, NEW s \in Labels,
         pc' = [pc EXCEPT ![t] = s], loc' = [loc EXCEPT ![t] = l],
         UNCHANGED <<sent, cached>>, UNCHANGED ctx, obj' \in [Tasks -> ObjType], Kept,
         pc'[t] = s /\ loc'[t] = l => Placed(t)'
  PROVE  TInv'
  <1>1. t \in Contexts /\ UNCHANGED <<setup, cpu, io, ioprio, asked, nsqMap, inUse, claimed>>
    BY DEF Contexts, Quiet
  <1>2. pc' \in [Contexts -> Labels] /\ pc'[t] = s /\ loc' \in [Contexts -> LocType] /\ loc'[t] = l /\ Others(t)
    BY <1>1 DEF TInv, Types, TyEnv, Others
  <1>3. Types'
    BY <1>1, <1>2, SameDevice DEF TInv, Types, TyEnv, TyMaps, TySent
  <1> QED
    BY <1>1, <1>2, <1>3, TaskStep, MadeStays DEF TInv

LEMMA SameLoc ==
  ASSUME TInv, NEW t \in Tasks
  PROVE  loc = [loc EXCEPT ![t] = loc[t]] /\ loc[t] \in LocType
  BY DEF TInv, Types, Contexts

LEMMA SameObj ==
  ASSUME TInv, UNCHANGED setup, UNCHANGED obj
  PROVE  obj' \in [Tasks -> ObjType] /\ Kept
  BY DEF TInv, Types, Kept

LEMMA LookupT ==
  ASSUME TInv, UNCHANGED setup, NEW t \in Tasks, Lookup(t)
  PROVE  TInv'
  <1>1. /\ Quiet /\ UNCHANGED <<ctx, obj, sent, cached>> /\ pc[t] = "lookup" /\ loc[t] \in LocType
        /\ io[t] # None /\ io[t] \in Tasks /\ io' = io
    BY TaskTypes DEF Lookup, At, Quiet, mapVars, Placed, Stage, MapOps
  <1>2. CASE ctx[io[t]] = None
    <2> DEFINE l == [loc[t] EXCEPT !.prio = SimpleMap(ioprio[io[t]])]
    <2>1. l \in LocType /\ l.prio # OutlierPrio
      BY <1>1 DEF LocType, SimpleMap, IoPrios, LPrio, TPrio, OutlierPrio
    <2>2. loc' = [loc EXCEPT ![t] = l] /\ pc' = [pc EXCEPT ![t] = "init"]
      BY <1>2 DEF Lookup, Goto
    <2>3. pc'[t] = "init" /\ loc'[t] = l => Placed(t)'
      BY <1>1, <2>1 DEF Placed, Stage, MapOps, Making, Profiling, Scheduling, Leaving
    <2>4. "init" \in Labels
      BY DEF Labels
    <2> QED
      BY <1>1, <2>1, <2>2, <2>3, <2>4, TaskMoves, SameObj
  <1>3. CASE ctx[io[t]] # None
    <2> DEFINE l == [loc[t] EXCEPT !.ctx = ctx[io[t]]]
    <2>1. ctx[io[t]] \in Tasks /\ obj[ctx[io[t]]].hctx # None
      BY <1>1, <1>3 DEF TInv, Types, TyEnv, Made
    <2>2. l \in LocType /\ l.ctx = ctx[io[t]]
      BY <1>1, <2>1 DEF LocType
    <2>3. loc' = [loc EXCEPT ![t] = l] /\ pc' = [pc EXCEPT ![t] = "profile"]
      BY <1>3 DEF Lookup, Goto
    <2>4. ctx[io[t]] # None /\ obj'[ctx[io[t]]].hctx # None
      BY <1>1, <1>3, <2>1
    <2>5. pc'[t] = "profile" /\ loc'[t] = l => Placed(t)'
      <3> HIDE DEF l
      <3> QED
        BY <1>1, <2>2, <2>4 DEF Placed, Stage, MapOps, Making, Profiling, Scheduling, Leaving
    <2>6. "profile" \in Labels
      BY DEF Labels, Profiling
    <2> QED
      BY <1>1, <2>2, <2>3, <2>5, <2>6, TaskMoves, SameObj
  <1> QED
    BY <1>2, <1>3

LEMMA InitTaskIocT ==
  ASSUME TInv, UNCHANGED setup, NEW t \in Tasks, InitTaskIoc(t)
  PROVE  TInv'
  <1>1. /\ Quiet /\ UNCHANGED <<ctx, sent, cached>> /\ pc[t] = "init" /\ loc[t] \in LocType
        /\ io[t] # None /\ io' = io /\ loc[t].prio # OutlierPrio /\ loc[t].prio \in IoPrios
    BY TaskTypes DEF InitTaskIoc, At, Quiet, mapVars, Placed, Stage, MapOps, LocType
  <1>2. loc[t].prio \in Prios /\ setup \in Setups /\ cpu[t] \in Cpus
    BY <1>1 DEF IoPrios, Prios, PrioLevel, TPrio, LPrio, TInv, Types, TyEnv
  <1>3. ASSUME NEW n \in GroupNqs(loc[t].prio),
               obj' = [obj EXCEPT ![t] = [NoCtx EXCEPT !.live = TRUE, !.prio = loc[t].prio, !.hctx = n]],
               IF setup.opt < 2
                 THEN Goto(t, "insert") /\ UNCHANGED loc
                 ELSE Call(t, "set", cpu[t], n, "init_end", [loc[t] EXCEPT !.pinned = TRUE, !.cpu = cpu[t]])
        PROVE  TInv'
    <2>1. n \in Nqs /\ n # None /\ 0 \in Cpus /\ Magnitude \in Nat
      BY <1>2, GroupBlock, DeviceFacts
    <2> DEFINE o == [NoCtx EXCEPT !.live = TRUE, !.prio = loc[t].prio, !.hctx = n]
    <2>2. o \in ObjType /\ o.hctx = n
      <3>1. NoCtx \in ObjType
        BY <2>1 DEF NoCtx, ObjType, IoPrios
      <3> QED
        BY <1>1, <2>1, <3>1 DEF ObjType
    <2>3. obj' \in [Tasks -> ObjType] /\ obj'[t].hctx # None /\ Kept
      <3> HIDE DEF o
      <3>1. obj' = [obj EXCEPT ![t] = o]
        BY <1>3 DEF o
      <3> QED
        BY <2>1, <2>2, <3>1 DEF TInv, Types, Kept
    <2>4. CASE setup.opt < 2
      <3>1. pc' = [pc EXCEPT ![t] = "insert"] /\ loc' = [loc EXCEPT ![t] = loc[t]]
        BY <1>3, <2>4, SameLoc DEF Goto
      <3>2. pc'[t] = "insert" /\ loc'[t] = loc[t] => Placed(t)'
        BY <1>1, <2>3 DEF Placed, Stage, MapOps, Making, Profiling, Scheduling, Leaving
      <3>3. "insert" \in Labels
        BY DEF Labels, Making
      <3> QED
        BY <1>1, <2>3, <3>1, <3>2, <3>3, TaskMoves
    <2>5. CASE ~(setup.opt < 2)
      <3> DEFINE l == [loc[t] EXCEPT !.pinned = TRUE, !.cpu = cpu[t]]
                 m == [l EXCEPT !.mcpu = cpu[t], !.mnq = n, !.next = "init_end"]
      <3>1. l \in LocType /\ "init_end" \in Returns /\ "set" \in Labels
        BY <1>1, <1>2 DEF LocType, Returns, Labels, MapOps
      <3>2. Call(t, "set", cpu[t], n, "init_end", l)
        BY <1>3, <2>5
      <3>5. m = [l EXCEPT !.mcpu = cpu[t], !.mnq = n, !.next = "init_end"]
        OBVIOUS
      <3>6. pc' = [pc EXCEPT ![t] = "set"] /\ loc' = [loc EXCEPT ![t] = m]
        BY <3>2 DEF Call, Goto
      <3> HIDE DEF l
      <3>7. m \in LocType /\ m.mnq # None /\ m.next = "init_end"
        BY <1>2, <2>1, <3>1 DEF LocType
      <3> HIDE DEF m
      <3>3. /\ pc' = [pc EXCEPT ![t] = "set"] /\ loc' = [loc EXCEPT ![t] = m] /\ m \in LocType
            /\ m.mnq # None /\ m.next = "init_end"
        BY <3>6, <3>7
      <3>4. pc'[t] = "set" /\ loc'[t] = m => Placed(t)'
        BY <1>1, <2>3, <3>3 DEF Placed, Stage, MapOps, Making, Profiling, Scheduling, Leaving
      <3> QED
        BY <1>1, <2>3, <3>1, <3>3, <3>4, TaskMoves
    <2> QED
      BY <2>4, <2>5
  <1>4. CASE Goto(t, "route") /\ UNCHANGED <<obj, loc>>
    <2>1. pc' = [pc EXCEPT ![t] = "route"] /\ loc' = [loc EXCEPT ![t] = loc[t]] /\ "route" \in Labels
      BY <1>4, SameLoc DEF Goto, Labels
    <2>2. pc'[t] = "route" /\ loc'[t] = loc[t] => Placed(t)'
      BY DEF Placed, Stage, MapOps, Making, Profiling, Scheduling, Leaving
    <2> QED
      BY <1>1, <1>4, <2>1, <2>2, TaskMoves, SameObj
  <1> QED
    BY <1>3, <1>4 DEF InitTaskIoc

(* While it is profiled, a task has a context on the device with an NQ.    *)
LEMMA Working ==
  ASSUME TInv, NEW t \in Tasks, pc[t] \in Profiling
  PROVE  /\ t \in Contexts /\ loc[t] \in LocType /\ io[t] \in Tasks /\ io[t] # None
         /\ loc[t].ctx \in Tasks /\ loc[t].ctx # None /\ obj[loc[t].ctx] \in ObjType
         /\ obj[loc[t].ctx].hctx \in Nqs /\ obj[loc[t].ctx].hctx # None /\ obj[loc[t].ctx].last \in Cpus
         /\ cpu[t] \in Cpus /\ loc[t].cpu \in Cpus
         /\ pc[t] \in Scheduling => loc[t].nq \in Nqs /\ loc[t].nq # None
         /\ pc[t] \in Leaving => loc[t].old \in Nqs /\ loc[t].old # None
  <1>1. Stage(t) = pc[t]
    BY DEF Stage, MapOps, Profiling
  <1>2. Placed(t) /\ t \in Contexts /\ loc[t] \in LocType /\ TyEnv
    BY TaskTypes DEF Types
  <1>3. io[t] # None /\ loc[t].ctx # None /\ obj[loc[t].ctx].hctx # None
        /\ (pc[t] \in Scheduling => loc[t].nq # None) /\ (pc[t] \in Leaving => loc[t].old # None)
    BY <1>1, <1>2 DEF Placed
  <1>4. loc[t].ctx \in Tasks /\ io[t] \in Tasks /\ cpu[t] \in Cpus /\ loc[t].cpu \in Cpus
        /\ (loc[t].nq # None => loc[t].nq \in Nqs) /\ (loc[t].old # None => loc[t].old \in Nqs)
    BY <1>2, <1>3 DEF LocType, TyEnv
  <1>5. obj[loc[t].ctx] \in ObjType
    BY <1>4 DEF TInv, Types
  <1>6. obj[loc[t].ctx].hctx \in Nqs /\ obj[loc[t].ctx].last \in Cpus
    BY <1>3, <1>5 DEF ObjType
  <1> QED
    BY <1>2, <1>3, <1>4, <1>5, <1>6

(* One context changes and keeps an NQ if it had one. *)
LEMMA ObjChange ==
  ASSUME TInv, NEW o \in Tasks, NEW r \in ObjType, obj[o].hctx # None => r.hctx # None,
         obj' = [obj EXCEPT ![o] = r]
  PROVE  obj' \in [Tasks -> ObjType] /\ Kept /\ obj'[o] = r
  BY DEF TInv, Types, Kept

(* A profiled task goes on to its next place, or to the maps and then there. *)
LEMMA GoesOn ==
  ASSUME TInv, Quiet, UNCHANGED <<ctx, sent, cached>>, NEW t \in Tasks, NEW l \in LocType,
         NEW s \in Profiling \cup {"route", "oops"},
         pc' = [pc EXCEPT ![t] = s], loc' = [loc EXCEPT ![t] = l],
         obj' \in [Tasks -> ObjType], Kept,
         io[t] # None, l.ctx \in Tasks, l.ctx # None, obj[l.ctx].hctx # None, s \in Scheduling => l.nq # None,
         s \in Leaving => l.old # None
  PROVE  TInv'
  <1>1. s \in Labels
    BY DEF Labels
  <1>2. obj'[l.ctx].hctx # None
    BY DEF Kept
  <1>3. pc'[t] = s /\ loc'[t] = l => Placed(t)'
    <2> SUFFICES ASSUME pc'[t] = s, loc'[t] = l PROVE Placed(t)'
      OBVIOUS
    <2>1. s \notin MapOps /\ s \notin {"notify", "io_alloc", "init", "free"} /\ s \notin Making
      BY DEF MapOps, Making, Profiling
    <2>2. Stage(t)' = s
      BY <2>1 DEF Stage
    <2>3. io'[t] # None
      BY DEF Quiet
    <2> QED
      BY <1>2, <2>1, <2>2, <2>3 DEF Placed
  <1> QED
    BY <1>1, <1>3, TaskMoves

LEMMA CallsOn ==
  ASSUME TInv, Quiet, UNCHANGED <<ctx, sent, cached, obj>>, NEW t \in Tasks, NEW l \in LocType,
         NEW op \in MapOps, NEW c \in Cpus, NEW n \in Nqs, NEW s \in Returns \cap Profiling,
         pc' = [pc EXCEPT ![t] = op],
         loc' = [loc EXCEPT ![t] = [l EXCEPT !.mcpu = c, !.mnq = n, !.next = s]],
         io[t] # None, l.ctx \in Tasks, l.ctx # None, obj[l.ctx].hctx # None, s \in Scheduling => l.nq # None,
         s \in Leaving => l.old # None
  PROVE  TInv'
  <1>1. op \in Labels
    BY DEF Labels
  <1> DEFINE m == [l EXCEPT !.mcpu = c, !.mnq = n, !.next = s]
  <1>2. n # None
    BY DeviceFacts DEF TInv, Types, TyEnv
  <1>3. m \in LocType /\ m.mnq # None /\ m.next = s /\ m.ctx = l.ctx /\ m.nq = l.nq /\ m.old = l.old
    BY <1>2 DEF LocType
  <1>4. loc' = [loc EXCEPT ![t] = m]
    OBVIOUS
  <1> HIDE DEF m
  <1>5. pc'[t] = op /\ loc'[t] = m => Placed(t)'
    <2> SUFFICES ASSUME pc'[t] = op, loc'[t] = m PROVE Placed(t)'
      OBVIOUS
    <2>1. Stage(t)' = s
      BY <1>3 DEF Stage
    <2>2. s \notin {"init", "free", "idle"} /\ s \notin Making /\ op \notin {"io_alloc", "notify"}
      BY DEF MapOps, Making, Profiling
    <2>3. io'[t] # None
      BY DEF Quiet
    <2> QED
      BY <1>3, <2>1, <2>2, <2>3 DEF Placed
  <1> QED
    BY <1>1, <1>3, <1>4, <1>5, TaskMoves, SameObj DEF Quiet

LEMMA UpdateStatsT ==
  ASSUME TInv, UNCHANGED setup, NEW t \in Tasks, UpdateStats(t)
  PROVE  TInv'
  <1> DEFINE o == loc[t].ctx
  <1>1. Quiet /\ UNCHANGED <<ctx, sent, cached>> /\ pc[t] = "profile" /\ pc' = [pc EXCEPT ![t] = "moved"]
    BY DEF UpdateStats, At, Quiet, mapVars, Goto
  <1>2. "moved" \in Profiling /\ pc[t] \in Profiling /\ "moved" \notin Scheduling /\ "moved" \notin Leaving
    BY <1>1 DEF Profiling, Scheduling, Leaving
  <1>3. Counted(obj[o], loc[t].bio) \in ObjType /\ Counted(obj[o], loc[t].bio).hctx = obj[o].hctx
    <2>1. Magnitude \in Nat
      BY DeviceFacts DEF TInv, Types, TyEnv
    <2>2. obj[o] \in ObjType
      BY <1>2, Working
    <2>3. /\ obj[o].sync \in 0 .. Magnitude /\ obj[o].async \in 0 .. Magnitude
      BY <2>2 DEF ObjType
    <2> DEFINE a == IF obj[o].sync < Magnitude THEN obj[o].sync + 1 ELSE obj[o].sync
               b == IF obj[o].async < Magnitude THEN obj[o].async + 1 ELSE obj[o].async
    <2>4. a \in 0 .. Magnitude /\ b \in 0 .. Magnitude
      BY <2>1, <2>3
    <2>5. Counted(obj[o], loc[t].bio) = IF loc[t].bio = "sync" THEN [obj[o] EXCEPT !.sync = a] ELSE [obj[o] EXCEPT !.async = b]
      BY DEF Counted
    <2> HIDE DEF a, b, o
    <2> QED
      BY <2>2, <2>4, <2>5 DEF ObjType
  <1>4. obj' \in [Tasks -> ObjType] /\ Kept
    <2>1. CASE setup.profile
      BY <1>2, <1>3, <2>1, Working, ObjChange DEF UpdateStats
    <2>2. CASE ~setup.profile
      BY <2>2, SameObj DEF UpdateStats
    <2> QED
      BY <2>1, <2>2
  <1>5. PICK b \in BOOLEAN : loc' = [loc EXCEPT ![t] = [loc[t] EXCEPT !.changed = b]]
    <2>1. CASE setup.profile
      BY <2>1 DEF UpdateStats
    <2>2. CASE ~setup.profile
      <3>1. loc' = loc /\ loc[t].changed \in BOOLEAN /\ loc[t] \in LocType
        BY <1>2, <2>2, Working DEF UpdateStats, LocType
      <3>2. loc[t] = [loc[t] EXCEPT !.changed = loc[t].changed]
        BY <3>1 DEF LocType
      <3> QED
        BY <3>1, <3>2, SameLoc
    <2> QED
      BY <2>1, <2>2
  <1> DEFINE l == [loc[t] EXCEPT !.changed = b]
  <1>6. l \in LocType /\ l.ctx = loc[t].ctx
    BY <1>2, Working DEF LocType
  <1>7. loc' = [loc EXCEPT ![t] = l]
    BY <1>5
  <1> HIDE DEF l, o
  <1> QED
    BY <1>1, <1>2, <1>4, <1>6, <1>7, Working, GoesOn

LEMMA MovingT ==
  ASSUME TInv, UNCHANGED setup, NEW t \in Tasks, ClearOldCpu(t) \/ SetNewCpu(t) \/ GetCpu(t) \/ ClearOldNq(t)
  PROVE  TInv'
  <1> DEFINE o == loc[t].ctx
  <1>1. Quiet /\ UNCHANGED <<ctx, obj, sent, cached>> /\ pc[t] \in Profiling
        /\ (GetCpu(t) \/ ClearOldNq(t) => pc[t] \in Scheduling /\ pc[t] \in Leaving)
    BY DEF ClearOldCpu, SetNewCpu, GetCpu, ClearOldNq, At, Quiet, mapVars, Profiling, Scheduling, Leaving
  <1>2. /\ "clear" \in MapOps /\ "set" \in MapOps
        /\ {"moved_set", "moved_end", "pin_clear", "unpin"} \subseteq Returns \cap Profiling
    BY DEF MapOps, Returns, Profiling
  <1>3. loc[t] \in LocType /\ loc[t].ctx \in Tasks /\ loc[t].ctx # None /\ obj[loc[t].ctx].hctx \in Nqs
        /\ obj[loc[t].ctx].hctx # None /\ obj[loc[t].ctx].last \in Cpus /\ cpu[t] \in Cpus /\ loc[t].cpu \in Cpus
        /\ io[t] # None
    BY <1>1, Working
  <1>4. CASE ClearOldCpu(t) /\ obj[o].last # cpu[t]
    <2>1. pc' = [pc EXCEPT ![t] = "clear"]
          /\ loc' = [loc EXCEPT ![t] = [loc[t] EXCEPT !.mcpu = obj[o].last, !.mnq = obj[o].hctx, !.next = "moved_set"]]
      BY <1>4 DEF ClearOldCpu, Call, Goto
    <2> QED
      BY <1>1, <1>2, <1>3, <2>1, CallsOn DEF Scheduling, Leaving
  <1>5. CASE ClearOldCpu(t) /\ obj[o].last = cpu[t]
    <2>1. pc' = [pc EXCEPT ![t] = "notice"] /\ loc' = [loc EXCEPT ![t] = loc[t]] /\ "notice" \in Profiling
      BY <1>5, SameLoc DEF ClearOldCpu, Goto, Profiling
    <2> QED
      BY <1>1, <1>3, <2>1, SameObj, GoesOn DEF Scheduling, Leaving
  <1>6. CASE SetNewCpu(t)
    <2>1. pc' = [pc EXCEPT ![t] = "set"]
          /\ loc' = [loc EXCEPT ![t] = [loc[t] EXCEPT !.mcpu = cpu[t], !.mnq = obj[o].hctx, !.next = "moved_end"]]
      BY <1>6 DEF SetNewCpu, Call, Goto
    <2> QED
      BY <1>1, <1>2, <1>3, <2>1, CallsOn DEF Scheduling, Leaving
  <1>7. CASE GetCpu(t)
    <2> DEFINE l == [loc[t] EXCEPT !.pinned = TRUE, !.cpu = cpu[t]]
    <2>1. pc' = [pc EXCEPT ![t] = "set"]
          /\ loc' = [loc EXCEPT ![t] = [l EXCEPT !.mcpu = cpu[t], !.mnq = loc[t].nq, !.next = "pin_clear"]]
      BY <1>7 DEF GetCpu, Call, Goto
    <2>2. loc[t].nq \in Nqs /\ loc[t].nq # None /\ loc[t].old # None
      BY <1>1, <1>7, Working
    <2>3. l \in LocType /\ l.ctx = loc[t].ctx /\ l.nq = loc[t].nq /\ l.old = loc[t].old
      BY <1>3 DEF LocType
    <2>4. l.ctx \in Tasks /\ l.ctx # None /\ obj[l.ctx].hctx # None /\ l.nq # None /\ l.old # None
      BY <1>3, <2>2, <2>3
    <2> HIDE DEF l
    <2>5. PICK c \in Cpus, q \in Nqs : c = cpu[t] /\ q = loc[t].nq
      BY <1>3, <2>2
    <2>6. PICK s \in Returns \cap Profiling : s = "pin_clear"
      BY <1>2
    <2>7. /\ pc' = [pc EXCEPT ![t] = "set"]
          /\ loc' = [loc EXCEPT ![t] = [l EXCEPT !.mcpu = c, !.mnq = q, !.next = s]]
      BY <2>1, <2>5, <2>6
    <2> QED
      BY <1>1, <1>2, <1>3, <2>3, <2>4, <2>7, CallsOn
  <1>8. CASE ClearOldNq(t)
    <2>1. pc' = [pc EXCEPT ![t] = "clear"]
          /\ loc' = [loc EXCEPT ![t] = [loc[t] EXCEPT !.mcpu = loc[t].cpu, !.mnq = loc[t].old, !.next = "unpin"]]
      BY <1>8 DEF ClearOldNq, Call, Goto
    <2>2. loc[t].nq # None /\ loc[t].old \in Nqs
      BY <1>1, <1>8, Working
    <2> QED
      BY <1>1, <1>2, <1>3, <2>1, <2>2, CallsOn DEF Leaving
  <1> QED
    BY <1>4, <1>5, <1>6, <1>7, <1>8

(* The steps that write to the context: the last CPU, the notice. *)
LEMMA NotingT ==
  ASSUME TInv, UNCHANGED setup, NEW t \in Tasks, MoveEnd(t) \/ TakeNotice(t) \/ PutCpu(t)
  PROVE  TInv'
  <1> DEFINE o == loc[t].ctx
  <1>1. Quiet /\ UNCHANGED <<ctx, sent, cached>> /\ pc[t] \in Profiling /\ (PutCpu(t) => pc[t] \in Scheduling)
    BY DEF MoveEnd, TakeNotice, PutCpu, At, Quiet, mapVars, Profiling, Scheduling, Leaving
  <1>2. loc[t] \in LocType /\ o \in Tasks /\ o # None /\ obj[o] \in ObjType /\ obj[o].hctx # None
        /\ io[t] # None /\ cpu[t] \in Cpus /\ loc[t].cpu \in Cpus
    BY <1>1, Working
  <1>3. /\ {"notice", "resched", "outlier", "assign"} \subseteq Profiling
        /\ {"notice", "resched", "outlier"} \cap Scheduling = {}
        /\ {"notice", "resched", "outlier", "assign"} \cap Leaving = {}
    BY DEF Profiling, Scheduling, Leaving
  <1>4. obj' \in [Tasks -> ObjType] /\ Kept
    <2>1. PICK c \in Cpus, b \in BOOLEAN : obj' = [obj EXCEPT ![o] = [obj[o] EXCEPT !.last = c, !.need = b]]
      <3>1. obj[o].last \in Cpus /\ obj[o].need \in BOOLEAN
        BY <1>2 DEF ObjType
      <3>2. /\ [obj[o] EXCEPT !.last = cpu[t]] = [obj[o] EXCEPT !.last = cpu[t], !.need = obj[o].need]
            /\ [obj[o] EXCEPT !.last = loc[t].cpu] = [obj[o] EXCEPT !.last = loc[t].cpu, !.need = obj[o].need]
            /\ [obj[o] EXCEPT !.need = FALSE] = [obj[o] EXCEPT !.last = obj[o].last, !.need = FALSE]
        BY <1>2 DEF ObjType
      <3>3. \/ obj' = [obj EXCEPT ![o] = [obj[o] EXCEPT !.last = cpu[t]]]
            \/ obj' = [obj EXCEPT ![o] = [obj[o] EXCEPT !.last = loc[t].cpu]]
            \/ obj' = [obj EXCEPT ![o] = [obj[o] EXCEPT !.need = FALSE]]
        BY DEF MoveEnd, TakeNotice, PutCpu
      <3>4. CASE obj' = [obj EXCEPT ![o] = [obj[o] EXCEPT !.last = cpu[t]]]
        <4>1. obj' = [obj EXCEPT ![o] = [obj[o] EXCEPT !.last = cpu[t], !.need = obj[o].need]]
          BY <3>2, <3>4
        <4> QED
          BY <1>2, <3>1, <4>1
      <3>5. CASE obj' = [obj EXCEPT ![o] = [obj[o] EXCEPT !.last = loc[t].cpu]]
        <4>1. obj' = [obj EXCEPT ![o] = [obj[o] EXCEPT !.last = loc[t].cpu, !.need = obj[o].need]]
          BY <3>2, <3>5
        <4> QED
          BY <1>2, <3>1, <4>1
      <3>6. CASE obj' = [obj EXCEPT ![o] = [obj[o] EXCEPT !.need = FALSE]]
        <4>1. obj' = [obj EXCEPT ![o] = [obj[o] EXCEPT !.last = obj[o].last, !.need = FALSE]]
          BY <3>2, <3>6
        <4> QED
          BY <1>2, <3>1, <4>1
      <3> QED
        BY <3>3, <3>4, <3>5, <3>6
    <2> DEFINE r == [obj[o] EXCEPT !.last = c, !.need = b]
    <2>2. r \in ObjType /\ r.hctx = obj[o].hctx
      BY <1>2 DEF ObjType
    <2>3. obj' = [obj EXCEPT ![o] = r]
      BY <2>1
    <2> HIDE DEF r, o
    <2> QED
      BY <1>2, <2>2, <2>3, ObjChange
  <1>5. CASE MoveEnd(t) \/ TakeNotice(t)
    <2>1. PICK s \in {"notice", "resched", "outlier"} : pc' = [pc EXCEPT ![t] = s]
      BY <1>5 DEF MoveEnd, TakeNotice, Goto
    <2>2. loc' = [loc EXCEPT ![t] = loc[t]]
      BY <1>5, SameLoc DEF MoveEnd, TakeNotice
    <2> HIDE DEF o
    <2>3. s \in Profiling \cup {"route", "oops"} /\ s \notin Scheduling /\ s \notin Leaving
      BY <1>3
    <2> QED
      BY <1>1, <1>2, <1>4, <2>1, <2>2, <2>3, GoesOn DEF o
  <1>6. CASE PutCpu(t)
    <2> DEFINE l == [loc[t] EXCEPT !.pinned = FALSE]
    <2>1. pc' = [pc EXCEPT ![t] = "assign"] /\ loc' = [loc EXCEPT ![t] = l]
      BY <1>6 DEF PutCpu, Goto
    <2>2. loc[t].nq # None
      BY <1>1, <1>6, Working
    <2>3. l \in LocType /\ l.ctx = o /\ l.nq = loc[t].nq
      BY <1>2 DEF LocType
    <2> HIDE DEF l
    <2> QED
      BY <1>1, <1>2, <1>3, <1>4, <2>1, <2>2, <2>3, GoesOn
  <1> QED
    BY <1>5, <1>6

(* An NQ scheduled is one of the device's; to recommend one, the NQ the    *)
(* task has is remembered.                                                 *)
LEMMA SchedUpdateT ==
  ASSUME TInv, Quiet, UNCHANGED <<ctx, sent, cached, obj>>, NEW t \in Tasks, pc[t] \in Profiling,
         NEW prio \in Prios, NEW new \in IoPrios, SchedUpdate(t, prio, new)
  PROVE  TInv'
  <1> DEFINE o == loc[t].ctx
             k == [loc[t] EXCEPT !.prio = new, !.old = obj[o].hctx]
  <1>1. loc[t] \in LocType /\ o \in Tasks /\ o # None /\ obj[o].hctx \in Nqs /\ obj[o].hctx # None /\ io[t] # None
    BY Working
  <1>2. \/ \E n \in GroupNqs(prio) \cup {obj[o].hctx} :
             pc' = [pc EXCEPT ![t] = "assign"] /\ loc' = [loc EXCEPT ![t] = [k EXCEPT !.nq = n]]
        \/ pc' = [pc EXCEPT ![t] = "recommend"] /\ loc' = [loc EXCEPT ![t] = k]
    BY DEF SchedUpdate, Goto
  <1>3. k \in LocType /\ k.ctx = o /\ k.old # None
    BY <1>1 DEF LocType
  <1>4. obj' \in [Tasks -> ObjType] /\ Kept
    BY SameObj DEF Quiet
  <1>5. "assign" \in Profiling /\ "recommend" \in Profiling /\ "assign" \notin Leaving /\ "recommend" \notin Scheduling
    BY DEF Profiling, Leaving, Scheduling
  <1> HIDE DEF k
  <1>6. ASSUME NEW n \in GroupNqs(prio) \cup {obj[o].hctx},
               pc' = [pc EXCEPT ![t] = "assign"], loc' = [loc EXCEPT ![t] = [k EXCEPT !.nq = n]]
        PROVE  TInv'
    <2>1. setup \in Setups
      BY DEF TInv, Types, TyEnv
    <2>2. n \in Nqs /\ n # None
      BY <1>1, <2>1, GroupBlock, DeviceFacts
    <2> DEFINE l == [k EXCEPT !.nq = n]
    <2>3. l \in LocType /\ l.ctx = o /\ l.nq = n
      BY <1>3, <2>2 DEF LocType
    <2>4. loc' = [loc EXCEPT ![t] = l]
      BY <1>6
    <2> HIDE DEF l
    <2> QED
      BY <1>1, <1>4, <1>5, <1>6, <2>2, <2>3, <2>4, GoesOn
  <1>7. CASE pc' = [pc EXCEPT ![t] = "recommend"] /\ loc' = [loc EXCEPT ![t] = k]
    BY <1>1, <1>3, <1>4, <1>5, <1>7, GoesOn
  <1> QED
    BY <1>2, <1>6, <1>7

LEMMA MapIoprioType ==
  \A o, class : MapIoprio(o, class) \in IoPrios /\ (MapIoprio(o, class) # OutlierPrio => MapIoprio(o, class) = SimpleMap(class))
  BY DEF MapIoprio, IoPrios, SimpleMap, LPrio, TPrio, OutlierPrio

LEMMA RescheduleT ==
  ASSUME TInv, UNCHANGED setup, NEW t \in Tasks, Reschedule(t)
  PROVE  TInv'
  <1> DEFINE new == MapIoprio(loc[t].ctx, ioprio[io[t]])
  <1>1. Quiet /\ UNCHANGED <<ctx, sent, cached, obj>> /\ pc[t] \in Profiling
    BY DEF Reschedule, At, Quiet, mapVars, Profiling
  <1>2. new \in IoPrios
    BY MapIoprioType
  <1>3. CASE new \in Prios
    <2>1. SchedUpdate(t, new, new)
      BY <1>3 DEF Reschedule
    <2> HIDE DEF new
    <2> QED
      BY <1>1, <1>2, <1>3, <2>1, SchedUpdateT
  <1>4. CASE new \notin Prios
    <2> DEFINE l == [loc[t] EXCEPT !.prio = new]
    <2>1. pc' = [pc EXCEPT ![t] = "oops"] /\ loc' = [loc EXCEPT ![t] = l]
      BY <1>4 DEF Reschedule, Oops, Goto
    <2> HIDE DEF new
    <2>2. l \in LocType /\ l.ctx = loc[t].ctx
      BY <1>1, <1>2, Working DEF LocType
    <2> HIDE DEF l
    <2> QED
      BY <1>1, <2>1, <2>2, Working, GoesOn, SameObj DEF Scheduling, Leaving
  <1> QED
    BY <1>3, <1>4

(* The group an NQ is recommended from: outliers get one of the L-group. *)
GroupPrio(prio) == IF prio = OutlierPrio THEN LPrio ELSE prio

LEMMA RecommendT ==
  ASSUME TInv, UNCHANGED setup, NEW t \in Tasks, Recommend(t)
  PROVE  TInv'
  <1> DEFINE o == loc[t].ctx
  <1>1. Quiet /\ UNCHANGED <<ctx, sent, cached, obj>> /\ pc[t] \in Profiling /\ pc[t] \in Leaving
    BY DEF Recommend, At, Quiet, mapVars, Profiling, Leaving
  <1>2. loc[t] \in LocType /\ o \in Tasks /\ o # None /\ obj[o].hctx # None /\ obj[o].last \in Cpus
        /\ io[t] # None /\ loc[t].old \in Nqs /\ loc[t].old # None
    BY <1>1, Working
  <1>3. GroupPrio(loc[t].prio) \in Prios /\ setup \in Setups
    <2>1. loc[t].prio \in IoPrios
      BY <1>2 DEF LocType
    <2> QED
      BY <2>1 DEF GroupPrio, IoPrios, Prios, PrioLevel, TPrio, LPrio, OutlierPrio, TInv, Types, TyEnv
  <1>4. PICK n \in GroupNqs(GroupPrio(loc[t].prio)) :
          \/ \E s \in {"assign", "pin"} :
               pc' = [pc EXCEPT ![t] = s] /\ loc' = [loc EXCEPT ![t] = [loc[t] EXCEPT !.nq = n]]
          \/ Call(t, "clear", obj[[loc[t] EXCEPT !.nq = n].ctx].last, [loc[t] EXCEPT !.nq = n].old, "pin",
                  [loc[t] EXCEPT !.nq = n])
    BY DEF Recommend, Goto, GroupPrio
  <1>5. n \in Nqs /\ n # None
    BY <1>3, GroupBlock, DeviceFacts
  <1> DEFINE l == [loc[t] EXCEPT !.nq = n]
  <1>6. l \in LocType /\ l.ctx = o /\ l.nq = n /\ l.old = loc[t].old
    BY <1>2, <1>5 DEF LocType
  <1>7. "assign" \in Profiling /\ "pin" \in Returns \cap Profiling /\ "clear" \in MapOps
    BY DEF Profiling, Returns, MapOps
  <1>8. \/ \E s \in {"assign", "pin"} : pc' = [pc EXCEPT ![t] = s] /\ loc' = [loc EXCEPT ![t] = l]
        \/ /\ pc' = [pc EXCEPT ![t] = "clear"]
           /\ loc' = [loc EXCEPT ![t] = [l EXCEPT !.mcpu = obj[l.ctx].last, !.mnq = l.old, !.next = "pin"]]
    BY <1>4 DEF Call, Goto
  <1>9. obj' \in [Tasks -> ObjType] /\ Kept
    BY <1>1, SameObj
  <1> HIDE DEF l
  <1>10. ASSUME NEW s \in {"assign", "pin"}, pc' = [pc EXCEPT ![t] = s], loc' = [loc EXCEPT ![t] = l]
         PROVE  TInv'
    <2>1. s \in Profiling \cup {"route", "oops"}
      BY <1>7
    <2> QED
      BY <1>1, <1>2, <1>5, <1>6, <1>9, <1>10, <2>1, GoesOn
  <1>11. CASE /\ pc' = [pc EXCEPT ![t] = "clear"]
              /\ loc' = [loc EXCEPT ![t] = [l EXCEPT !.mcpu = obj[l.ctx].last, !.mnq = l.old, !.next = "pin"]]
    <2>1. obj[l.ctx].last \in Cpus /\ l.old \in Nqs
      BY <1>2, <1>6
    <2>2. l.ctx \in Tasks /\ l.ctx # None /\ obj[l.ctx].hctx # None /\ l.nq # None /\ l.old # None
      BY <1>2, <1>5, <1>6
    <2>3. PICK c \in Cpus, q \in Nqs : c = obj[l.ctx].last /\ q = l.old
      BY <2>1
    <2>4. PICK s \in Returns \cap Profiling : s = "pin"
      BY <1>7
    <2>5. /\ pc' = [pc EXCEPT ![t] = "clear"]
          /\ loc' = [loc EXCEPT ![t] = [l EXCEPT !.mcpu = c, !.mnq = q, !.next = s]]
      BY <1>11, <2>3, <2>4
    <2> QED
      BY <1>1, <1>2, <1>6, <1>7, <2>2, <2>5, CallsOn
  <1> QED
    BY <1>8, <1>10, <1>11

LEMMA AssignT ==
  ASSUME TInv, UNCHANGED setup, NEW t \in Tasks, Assign(t)
  PROVE  TInv'
  <1> DEFINE l == loc[t]
             o == loc[t].ctx
  <1>1. Quiet /\ UNCHANGED <<ctx, sent, cached, loc>> /\ pc[t] \in Profiling /\ pc[t] \in Scheduling
    BY DEF Assign, At, Quiet, mapVars, Profiling, Scheduling, Leaving
  <1>2. l \in LocType /\ o \in Tasks /\ o # None /\ obj[o] \in ObjType /\ obj[o].hctx # None
        /\ io[t] # None /\ l.nq \in Nqs /\ l.nq # None /\ l.prio \in IoPrios
    BY <1>1, Working DEF LocType
  <1>3. 0 \in 0 .. Magnitude
    BY DeviceFacts DEF TInv, Types, TyEnv
  <1>4. \E r \in ObjType : r.hctx # None /\ obj' = [obj EXCEPT ![o] = r]
    <2> DEFINE a == [obj[o] EXCEPT !.outlier = l.nq, !.prio = l.prio, !.sync = 0, !.async = 0]
               b == [obj[o] EXCEPT !.hctx = l.nq, !.prio = l.prio]
    <2>1. a \in ObjType /\ b \in ObjType /\ a.hctx = obj[o].hctx /\ b.hctx = l.nq
      BY <1>2, <1>3 DEF ObjType
    <2>2. obj' = [obj EXCEPT ![o] = a] \/ obj' = [obj EXCEPT ![o] = b]
      BY <1>2 DEF Assign, TInv, Types
    <2> HIDE DEF a, b
    <2> QED
      BY <1>2, <2>1, <2>2
  <1>5. obj' \in [Tasks -> ObjType] /\ Kept
    <2> HIDE DEF o
    <2> QED
      BY <1>2, <1>4, ObjChange
  <1>6. PICK s \in {"route", "outlier"} : pc' = [pc EXCEPT ![t] = s]
    BY DEF Assign, Goto
  <1>7. s \in Profiling \cup {"route", "oops"} /\ s \notin Scheduling /\ s \notin Leaving
    BY DEF Profiling, Scheduling, Leaving
  <1>8. loc' = [loc EXCEPT ![t] = loc[t]]
    BY <1>1, SameLoc
  <1> QED
    BY <1>1, <1>2, <1>5, <1>6, <1>7, <1>8, GoesOn

LEMMA OutlierT ==
  ASSUME TInv, UNCHANGED setup, NEW t \in Tasks, Outlier(t)
  PROVE  TInv'
  <1> DEFINE o == loc[t].ctx
             new == MapIoprio(o, ioprio[io[t]])
  <1>1. Quiet /\ UNCHANGED <<ctx, sent, cached>> /\ pc[t] \in Profiling
    BY DEF Outlier, At, Quiet, mapVars, Profiling
  <1>2. loc[t] \in LocType /\ o \in Tasks /\ o # None /\ obj[o] \in ObjType /\ obj[o].hctx # None /\ io[t] # None
    BY <1>1, Working
  <1>3. new \in IoPrios /\ LPrio \in Prios /\ OutlierPrio \in IoPrios /\ "route" \notin Scheduling
        /\ "route" \notin Leaving
    BY MapIoprioType DEF IoPrios, Prios, PrioLevel, LPrio, Scheduling, Leaving
  <1>4. CASE SchedUpdate(t, LPrio, OutlierPrio) /\ UNCHANGED obj
    BY <1>1, <1>3, <1>4, SchedUpdateT
  <1>5. CASE Goto(t, "route") /\ UNCHANGED <<obj, loc>>
    <2>1. pc' = [pc EXCEPT ![t] = "route"] /\ loc' = [loc EXCEPT ![t] = loc[t]]
      BY <1>5, SameLoc DEF Goto
    <2> QED
      BY <1>1, <1>2, <1>3, <1>5, <2>1, SameObj, GoesOn
  <1>6. CASE /\ obj' = [obj EXCEPT ![o].prio = new, ![o].sync = 0, ![o].async = 0,
                          ![o].outlier = IF new # OutlierPrio /\ obj[o].prio = OutlierPrio THEN None ELSE @]
             /\ Goto(t, "route") /\ UNCHANGED loc
    <2> DEFINE r == [obj[o] EXCEPT !.prio = new, !.sync = 0, !.async = 0,
                      !.outlier = IF new # OutlierPrio /\ obj[o].prio = OutlierPrio THEN None ELSE @]
    <2>1. pc' = [pc EXCEPT ![t] = "route"] /\ loc' = [loc EXCEPT ![t] = loc[t]]
      BY <1>6, SameLoc DEF Goto
    <2>2. 0 \in 0 .. Magnitude
      BY DeviceFacts DEF TInv, Types, TyEnv
    <2> HIDE DEF new
    <2>3. r \in ObjType /\ r.hctx = obj[o].hctx
      BY <1>2, <1>3, <2>2 DEF ObjType
    <2>4. obj' = [obj EXCEPT ![o] = r]
      BY <1>2, <1>6 DEF TInv, Types
    <2>5. obj' \in [Tasks -> ObjType] /\ Kept
      <3> HIDE DEF r, o
      <3> QED
        BY <1>2, <2>3, <2>4, ObjChange
    <2> QED
      BY <1>1, <1>2, <1>3, <2>1, <2>5, GoesOn
  <1> QED
    BY <1>4, <1>5, <1>6 DEF Outlier

LEMMA InitEndT ==
  ASSUME TInv, UNCHANGED setup, NEW t \in Tasks, InitEnd(t)
  PROVE  TInv'
  <1>1. /\ Quiet /\ UNCHANGED <<ctx, sent, cached>> /\ pc[t] = "init_end" /\ loc[t] \in LocType /\ obj[t] \in ObjType
        /\ io' = io /\ io[t] # None /\ obj[t].hctx # None /\ loc[t].cpu \in Cpus
    BY TaskTypes DEF InitEnd, At, Quiet, mapVars, Placed, Stage, MapOps, Making, LocType
  <1> DEFINE l == [loc[t] EXCEPT !.pinned = FALSE]
             r == [obj[t] EXCEPT !.last = loc[t].cpu]
  <1>2. l \in LocType /\ r \in ObjType /\ r.hctx = obj[t].hctx
    <2>1. l \in LocType
      BY <1>1 DEF LocType
    <2>2. r \in ObjType /\ r.hctx = obj[t].hctx
      BY <1>1 DEF ObjType
    <2> QED
      BY <2>1, <2>2
  <1>3. pc' = [pc EXCEPT ![t] = "insert"] /\ loc' = [loc EXCEPT ![t] = l] /\ obj' = [obj EXCEPT ![t] = r]
    BY DEF InitEnd, Goto
  <1>4. "insert" \in Labels
    BY DEF Labels, Making
  <1> HIDE DEF l, r
  <1>5. obj' \in [Tasks -> ObjType] /\ Kept /\ obj'[t].hctx # None
    BY <1>1, <1>2, <1>3, ObjChange
  <1>6. pc'[t] = "insert" /\ loc'[t] = l => Placed(t)'
    BY <1>1, <1>5 DEF Placed, Stage, MapOps, Making, Profiling, Scheduling, Leaving
  <1> QED
    BY <1>1, <1>2, <1>3, <1>4, <1>5, <1>6, TaskMoves

(* The context made for the task has an NQ when it is published. *)
LEMMA InsertTaskIocT ==
  ASSUME TInv, UNCHANGED setup, NEW t \in Tasks, InsertTaskIoc(t)
  PROVE  TInv'
  <1>1. /\ Quiet /\ UNCHANGED <<sent, cached>> /\ pc[t] = "insert" /\ loc[t] \in LocType /\ obj[t] \in ObjType /\ t \in Contexts
        /\ io' = io /\ io[t] # None /\ io[t] \in Tasks /\ obj[t].hctx # None
    BY TaskTypes DEF InsertTaskIoc, At, Quiet, mapVars, Placed, Stage, MapOps, Making
  <1>2. None \notin Tasks
    BY DeviceFacts DEF TInv, Types, TyEnv
  <1>3. CASE ctx' = [ctx EXCEPT ![io[t]] = t] /\ loc' = [loc EXCEPT ![t].ctx = t] /\ Goto(t, "profile") /\ UNCHANGED obj
    <2> DEFINE l == [loc[t] EXCEPT !.ctx = t]
    <2>1. l \in LocType /\ l.ctx = t
      BY <1>1 DEF LocType
    <2>2. loc' = [loc EXCEPT ![t] = l] /\ pc' = [pc EXCEPT ![t] = "profile"]
      BY <1>3 DEF Goto
    <2> HIDE DEF l
    <2>3. "profile" \in Labels
      BY DEF Labels, Profiling
    <2>4. /\ loc' \in [Contexts -> LocType] /\ pc' \in [Contexts -> Labels] /\ Others(t)
          /\ pc'[t] = "profile" /\ loc'[t] = l
      BY <1>1, <2>1, <2>2, <2>3 DEF TInv, Types, TyEnv, Others
    <2>5. ctx' \in [Tasks -> Tasks \cup {None}]
      BY <1>3 DEF TInv, Types, TyEnv
    <2>6. Types'
      BY <1>1, <1>3, <2>4, <2>5, SameDevice DEF Quiet, TInv, Types, TyEnv, TyMaps, TySent
    <2>7. Made' /\ Kept
      <3>1. \A x \in Tasks : ctx'[x] = IF x = io[t] THEN t ELSE ctx[x]
        BY <1>3 DEF TInv, Types, TyEnv
      <3> QED
        BY <1>1, <1>3, <3>1 DEF TInv, Made, Kept
    <2>8. Placed(t)'
      <3>1. obj'[t].hctx # None /\ t # None
        BY <1>1, <1>2, <1>3
      <3> QED
        BY <1>1, <2>1, <2>4, <3>1 DEF Placed, Stage, MapOps, Making, Profiling, Scheduling, Leaving
    <2> QED
      BY <1>1, <2>4, <2>6, <2>7, <2>8, TaskStep
  <1>4. CASE obj' = [obj EXCEPT ![t].live = FALSE] /\ Goto(t, "route") /\ UNCHANGED <<ctx, loc>>
    <2> DEFINE r == [obj[t] EXCEPT !.live = FALSE]
    <2>1. r \in ObjType /\ r.hctx = obj[t].hctx /\ obj' = [obj EXCEPT ![t] = r]
      BY <1>1, <1>4 DEF ObjType
    <2> HIDE DEF r
    <2>2. obj' \in [Tasks -> ObjType] /\ Kept
      BY <2>1, ObjChange
    <2>3. pc' = [pc EXCEPT ![t] = "route"] /\ loc' = [loc EXCEPT ![t] = loc[t]] /\ "route" \in Labels
      BY <1>4, SameLoc DEF Goto, Labels
    <2>4. pc'[t] = "route" /\ loc'[t] = loc[t] => Placed(t)'
      BY DEF Placed, Stage, MapOps, Making, Profiling, Scheduling, Leaving
    <2> QED
      BY <1>1, <1>4, <2>2, <2>3, <2>4, TaskMoves
  <1> QED
    BY <1>3, <1>4 DEF InsertTaskIoc

(* Promotion stays on the device: the first NCQ of the L-group is not the  *)
(* first of all.                                                           *)
LEMMA NonDefault ==
  ASSUME NEW c \in Nat, NEW n \in Nat \ {0}, c < n, NEW M \in Nat, NEW s \in 2 .. M
  PROVE  HctxToNqid(NonDefaultNqid(c, n, M, s)) \in 1 .. M
  <1> DEFINE nrL == M - s + 1
  <1>1. nrL \in Nat \ {0} /\ nrL < M
    OBVIOUS
  <1> HIDE DEF nrL
  <1>2. n - c - 1 \in Nat
    OBVIOUS
  <1>3. c % nrL \in 0 .. nrL - 1 /\ (n - c - 1) % nrL \in 0 .. nrL - 1
    BY <1>1, <1>2, DivFacts
  <1>4. NonDefaultNqid(c, n, M, s) \in {(c % nrL) + 1, ((n - c - 1) % nrL) + 1}
    BY DEF NonDefaultNqid, nrL
  <1> QED
    BY <1>1, <1>3, <1>4 DEF HctxToNqid

(* The NQs that requests get. *)
LEMMA RouteFacts ==
  ASSUME TInv, NEW t \in Tasks, HasContext(io[t])
  PROVE  ReqAlloc(t) \in Nqs
  <1> DEFINE o == ctx[io[t]]
  <1>1. o \in Tasks /\ obj[o] \in ObjType /\ obj[o].hctx \in Nqs
    <2>1. io[t] \in Tasks /\ ctx[io[t]] # None
      BY TaskTypes DEF HasContext
    <2>2. o \in Tasks /\ obj[o].hctx # None
      BY <2>1 DEF TInv, Types, TyEnv, Made
    <2>3. obj[o] \in ObjType
      BY <2>2 DEF TInv, Types
    <2> QED
      BY <2>2, <2>3 DEF ObjType
  <1>2. setup \in Setups /\ LPrio \in Prios
    BY DEF TInv, Types, TyEnv, LPrio, Prios, PrioLevel
  <1>3. HctxToNqid(NonDefaultNqid(obj[o].last, NrCpus, MaxNqid, GroupOf(LPrio, MaxNqid, NrCqs).ncq_start)) \in Nqs
    <2>1. GroupOf(LPrio, MaxNqid, NrCqs).ncq_start \in 2 .. MaxNqid
      BY <1>2, GroupBlock
    <2>2. MaxNqid \in Nat \ {0} /\ NrCpus \in Nat \ {0} /\ Nqs = 1 .. MaxNqid /\ Cpus = 0 .. NrCpus - 1
      BY <1>2, DeviceFacts
    <2>3. obj[o].last \in 0 .. NrCpus - 1
      BY <1>1, <2>2 DEF ObjType
    <2>4. obj[o].last \in Nat /\ obj[o].last < NrCpus
      BY <2>2, <2>3
    <2> HIDE DEF o
    <2> QED
      BY <2>1, <2>2, <2>4, NonDefault
  <1> QED
    BY <1>1, <1>3 DEF ReqAlloc, Promoted, HasLBit, OutlierPrio

LEMMA CachedType ==
  ASSUME TInv, NEW t \in Tasks
  PROVE  /\ cached \in [Tasks -> Nqs \cup {None}]
         /\ \A q \in Nqs \cup {None} : [cached EXCEPT ![t] = q] \in [Tasks -> Nqs \cup {None}]
  BY DEF TInv, Types, TySent

(* A task at its request goes on, with none or one more. *)
LEMMA RequestT ==
  ASSUME TInv, Quiet, UNCHANGED <<ctx, obj>>, NEW t \in Tasks, Finish(t), NEW r, r # None => r.nq \in Nqs,
         sent' = [sent EXCEPT ![t] = r], cached' \in [Tasks -> Nqs \cup {None}]
  PROVE  TInv'
  <1>1. t \in Contexts /\ pc' = [pc EXCEPT ![t] = "idle"] /\ loc' = [loc EXCEPT ![t] = NoLoc] /\ UNCHANGED setup
    BY DEF Contexts, Finish, Goto, Quiet
  <1>2. TySent'
    <2>1. sent = [u \in Tasks |-> sent[u]] /\ \A u \in Tasks : sent[u] # None => sent[u].nq \in Nqs
      BY DEF TInv, Types, TySent
    <2>2. sent' = [u \in Tasks |-> IF u = t THEN r ELSE sent[u]]
      BY <2>1
    <2>3. sent' = [u \in Tasks |-> sent'[u]]
      BY <2>2, Zenon
    <2>4. \A u \in Tasks : sent'[u] # None => sent'[u].nq \in Nqs
      BY <2>1, <2>2
    <2> QED
      BY <1>1, <2>3, <2>4, SameDevice DEF TySent
  <1>3. setup \in Setups
    BY DEF TInv, Types, TyEnv
  <1>4. NoLoc \in LocType /\ "idle" \in Labels
    BY <1>3, DeviceFacts DEF NoLoc, LocType, IoPrios, TPrio, Returns, Labels
  <1>5. pc' \in [Contexts -> Labels] /\ loc' \in [Contexts -> LocType] /\ Others(t) /\ pc'[t] = "idle"
    BY <1>1, <1>4 DEF TInv, Types, TyEnv, Others
  <1>6. Types'
    BY <1>1, <1>2, <1>5, SameDevice DEF Quiet, TInv, Types, TyEnv, TyMaps
  <1>7. Placed(t)'
    BY <1>5 DEF Placed, Stage, MapOps, Making, Profiling, Scheduling, Leaving
  <1> QED
    BY <1>1, <1>5, <1>6, <1>7, TaskStep, MadeStays, SameObj DEF Quiet, TInv

(* It goes to the next place with no request yet. *)
LEMMA WaitsT ==
  ASSUME TInv, Quiet, UNCHANGED <<ctx, obj, sent>>, NEW t \in Tasks, cached' \in [Tasks -> Nqs \cup {None}],
         NEW s, s = pc[t] \/ s \in {"oops", "tag"}, pc' = [pc EXCEPT ![t] = s], UNCHANGED loc
  PROVE  TInv'
  <1>1. t \in Contexts /\ UNCHANGED <<setup, cpu, io, ioprio, asked, nsqMap, inUse, claimed>> /\ pc[t] \in Labels
    BY DEF Contexts, Quiet, TInv, Types, TyEnv
  <1>2. pc' \in [Contexts -> Labels] /\ pc'[t] = s /\ loc' \in [Contexts -> LocType] /\ Others(t)
    BY <1>1, SameDevice DEF TInv, Types, TyEnv, Others, Labels
  <1>3. TySent'
    BY <1>1, SameDevice DEF TInv, Types, TySent
  <1>4. Types'
    BY <1>1, <1>2, <1>3, SameDevice DEF TInv, Types, TyEnv, TyMaps
  <1>5. Placed(t)'
    <2>1. CASE s \in {"oops", "tag"}
      BY <1>2, <2>1 DEF Placed, Stage, MapOps, Making, Profiling, Scheduling, Leaving
    <2>2. CASE s = pc[t]
      BY <1>1, <1>2, <2>2, TaskTypes DEF Placed, Stage
    <2> QED
      BY <2>1, <2>2
  <1> QED
    BY <1>1, <1>2, <1>4, <1>5, TaskStep, MadeStays, SameObj DEF TInv

LEMMA GetFacts ==
  ASSUME NEW t, NEW how, NEW nq, Get(t, how, nq)
  PROVE  Finish(t) /\ \E r : sent' = [sent EXCEPT ![t] = r] /\ r.nq = nq
  <1> DEFINE new == how = "new"
             o == ctx[io[t]]
             r == [how |-> how, nq |-> nq, urgent |-> Urgent(t),
                   class |-> IF io[t] = None THEN "be" ELSE asked[io[t]],
                   steady |-> loc[t].steady, promoted |-> new /\ Promoted(t),
                   outlier |-> IF new /\ obj[o].prio = OutlierPrio THEN obj[o].outlier ELSE None]
  <1>1. Finish(t) /\ sent' = [sent EXCEPT ![t] = r]
    BY DEF Get
  <1>2. r.nq = nq
    OBVIOUS
  <1> HIDE DEF r
  <1> QED
    BY <1>1, <1>2

LEMMA RouteT ==
  ASSUME TInv, UNCHANGED setup, NEW t \in Tasks, Route(t)
  PROVE  TInv'
  <1>1. Quiet /\ UNCHANGED <<ctx, obj>>
    BY DEF Route, Quiet, mapVars
  <1>2. CASE pc' = [pc EXCEPT ![t] = "oops"] /\ UNCHANGED <<loc, sent, cached>>
    BY <1>1, <1>2, CachedType, WaitsT, SameDevice DEF Quiet
  <1>3. CASE pc' = [pc EXCEPT ![t] = "tag"] /\ cached' = [cached EXCEPT ![t] = None] /\ UNCHANGED <<loc, sent>>
    BY <1>1, <1>3, CachedType, WaitsT, SameDevice DEF Quiet
  <1>4. ASSUME NEW nq \in IF setup.opt = 0 THEN Nqs ELSE {ReqAlloc(t)}, setup.opt = 0 \/ HasContext(io[t]),
               Get(t, IF setup.opt = 0 THEN "mapped" ELSE "new", nq),
               UNCHANGED cached \/ cached' = [cached EXCEPT ![t] = nq]
        PROVE  TInv'
    <2>1. nq \in Nqs
      BY <1>4, RouteFacts
    <2>2. PICK r : sent' = [sent EXCEPT ![t] = r] /\ r.nq = nq /\ Finish(t)
      BY <1>4, GetFacts
    <2>3. cached' \in [Tasks -> Nqs \cup {None}]
      BY <1>4, <2>1, CachedType
    <2> QED
      BY <1>1, <2>1, <2>2, <2>3, RequestT
  <1>5. setup.opt \in 0 .. 2
    BY TenantAssumption DEF TInv, Types, TyEnv, Setup
  <1>6. CASE ~HasContext(io[t]) /\ (setup.opt > 0 \/ io[t] = None)
    BY <1>2, <1>6 DEF Route, Oops, Goto
  <1>7. CASE ~(~HasContext(io[t]) /\ (setup.opt > 0 \/ io[t] = None))
    <2>1. setup.opt = 0 \/ HasContext(io[t])
      BY <1>5, <1>7
    <2>2. \/ \E nq \in IF setup.opt = 0 THEN Nqs ELSE {ReqAlloc(t)} :
               /\ Get(t, IF setup.opt = 0 THEN "mapped" ELSE "new", nq)
               /\ UNCHANGED cached \/ cached' = [cached EXCEPT ![t] = nq]
          \/ pc' = [pc EXCEPT ![t] = "tag"] /\ cached' = [cached EXCEPT ![t] = None] /\ UNCHANGED <<loc, sent>>
      BY <1>7 DEF Route, Goto
    <2> QED
      BY <1>3, <1>4, <2>1, <2>2
  <1> QED
    BY <1>6, <1>7

LEMMA GetTagT ==
  ASSUME TInv, UNCHANGED setup, NEW t \in Tasks, GetTag(t)
  PROVE  TInv'
  <1>1. Quiet /\ UNCHANGED <<ctx, obj, cached>>
    BY DEF GetTag, Quiet, mapVars
  <1>2. CASE pc' = [pc EXCEPT ![t] = "oops"] /\ UNCHANGED <<loc, sent>>
    BY <1>1, <1>2, CachedType, WaitsT
  <1>3. ASSUME NEW nq \in Nqs, NEW how, Get(t, how, nq)
        PROVE  TInv'
    <2>1. PICK r : sent' = [sent EXCEPT ![t] = r] /\ r.nq = nq /\ Finish(t)
      BY <1>3, GetFacts
    <2> QED
      BY <1>1, <2>1, CachedType, RequestT
  <1>4. AfterSleep(t) # None => AfterSleep(t) \in Nqs
    BY DEF AfterSleep
  <1> QED
    BY <1>2, <1>3, <1>4 DEF GetTag, Oops, Goto

LEMMA SendT ==
  ASSUME TInv, UNCHANGED setup, NEW t \in Tasks, Send(t)
  PROVE  TInv'
  <1>1. CASE NoRequest(t)
    <2>1. Quiet /\ UNCHANGED <<ctx, obj, cached>> /\ sent' = [sent EXCEPT ![t] = None] /\ Finish(t)
      BY <1>1 DEF NoRequest, Quiet, mapVars
    <2> QED
      BY <2>1, CachedType, RequestT
  <1>2. CASE TakeCached(t)
    <2>1. Quiet /\ UNCHANGED <<ctx, obj>> /\ cached' = [cached EXCEPT ![t] = None] /\ cached[t] # None
      BY <1>2 DEF TakeCached, CachedFits, Quiet, mapVars
    <2>2. PICK r : sent' = [sent EXCEPT ![t] = r] /\ r.nq = cached[t] /\ Finish(t)
      BY <1>2, GetFacts DEF TakeCached
    <2> QED
      BY <2>1, <2>2, CachedType, RequestT
  <1>3. CASE Route(t)
    BY <1>3, RouteT
  <1>4. CASE GetTag(t)
    BY <1>4, GetTagT
  <1>5. CASE Unplug(t)
    <2>1. Quiet /\ UNCHANGED <<ctx, obj, sent, loc, pc>> /\ cached' = [cached EXCEPT ![t] = None]
      BY <1>5 DEF Unplug, Quiet, mapVars
    <2>2. pc' = [pc EXCEPT ![t] = pc[t]]
      BY <2>1 DEF TInv, Types, TyEnv
    <2> QED
      BY <2>1, <2>2, CachedType, WaitsT
  <1> QED
    BY <1>1, <1>2, <1>3, <1>4, <1>5 DEF Send

LEMMA ExitT ==
  ASSUME TInv, UNCHANGED setup, NEW t \in Tasks, Exit(t)
  PROVE  TInv'
  <1>1. /\ UNCHANGED <<cpu, ioprio, ctx, obj, nsqMap, inUse, claimed, asked, sent, cached>> /\ pc[t] = "idle"
        /\ t \in Contexts /\ io' = [io EXCEPT ![t] = None]
    BY DEF Exit, At, mapVars, Contexts
  <1>2. setup \in Setups /\ None \notin Nqs /\ None \notin Tasks
    BY DeviceFacts DEF TInv, Types, TyEnv
  <1>3. io' \in [Tasks -> Tasks \cup {None}] /\ \A u \in Tasks \ {t} : io'[u] = io[u]
    BY <1>1 DEF TInv, Types, TyEnv
  <1>4. NoLoc \in LocType
    BY <1>2, DeviceFacts DEF NoLoc, LocType, IoPrios, TPrio, Returns
  <1>5. SUFFICES ASSUME NEW s \in Labels, NEW l \in LocType, pc' = [pc EXCEPT ![t] = s], loc' = [loc EXCEPT ![t] = l],
                        \/ s = "dead"
                        \/ s = "clear" /\ l.mnq # None /\ l.next = "free" /\ l.ctx # None
                 PROVE  TInv'
    <2>1. CASE Goto(t, "dead") /\ UNCHANGED loc
      <3>1. pc' = [pc EXCEPT ![t] = "dead"] /\ loc' = [loc EXCEPT ![t] = loc[t]] /\ loc[t] \in LocType /\ "dead" \in Labels
        BY <2>1, SameLoc DEF Goto, Labels
      <3> QED
        BY <1>5, <3>1
    <2>2. CASE /\ HasContext(io[t])
               /\ Call(t, "clear", obj[ctx[io[t]]].last, obj[ctx[io[t]]].hctx, "free", [NoLoc EXCEPT !.ctx = ctx[io[t]]])
      <3>1. io[t] \in Tasks /\ ctx[io[t]] # None
        BY <2>2, TaskTypes DEF HasContext
      <3>2. ctx[io[t]] \in Tasks /\ obj[ctx[io[t]]].hctx # None
        BY <3>1 DEF TInv, Types, TyEnv, Made
      <3>3. obj[ctx[io[t]]] \in ObjType
        BY <3>2 DEF TInv, Types
      <3>4. obj[ctx[io[t]]].hctx \in Nqs /\ obj[ctx[io[t]]].last \in Cpus
        BY <3>2, <3>3 DEF ObjType
      <3> DEFINE a == [NoLoc EXCEPT !.ctx = ctx[io[t]]]
                 l == [a EXCEPT !.mcpu = obj[ctx[io[t]]].last, !.mnq = obj[ctx[io[t]]].hctx, !.next = "free"]
      <3>5. pc' = [pc EXCEPT ![t] = "clear"] /\ loc' = [loc EXCEPT ![t] = l]
        BY <2>2 DEF Call, Goto
      <3>6. a \in LocType /\ a.ctx = ctx[io[t]]
        BY <1>4, <3>2 DEF LocType
      <3>7. "free" \in Returns /\ "clear" \in Labels
        BY DEF Returns, Labels, MapOps
      <3> HIDE DEF a
      <3>8. l \in LocType /\ l.mnq # None /\ l.next = "free" /\ l.ctx # None
        BY <3>1, <3>2, <3>4, <3>6, <3>7 DEF LocType
      <3> HIDE DEF l
      <3> QED
        BY <1>5, <3>5, <3>7, <3>8
    <2> QED
      BY <2>1, <2>2 DEF Exit
  <1>6. /\ pc' \in [Contexts -> Labels] /\ loc' \in [Contexts -> LocType] /\ Others(t) /\ pc'[t] = s /\ loc'[t] = l
    BY <1>1, <1>5 DEF TInv, Types, TyEnv, Others
  <1>7. Types'
    BY <1>1, <1>3, <1>6, SameDevice DEF TInv, Types, TyEnv, TyMaps, TySent
  <1>8. Placed(t)'
    BY <1>5, <1>6 DEF Placed, Stage, MapOps, Making, Profiling, Scheduling, Leaving
  <1> QED
    BY <1>1, <1>3, <1>6, <1>7, <1>8, TaskStep, MadeStays, SameObj DEF TInv

LEMMA FreeTaskIocT ==
  ASSUME TInv, UNCHANGED setup, NEW t \in Tasks, FreeTaskIoc(t)
  PROVE  TInv'
  <1>1. /\ Quiet /\ UNCHANGED <<ctx, sent, cached>> /\ pc[t] = "free" /\ loc[t].ctx # None /\ loc[t].ctx \in Tasks
        /\ obj[loc[t].ctx] \in ObjType
    BY TaskTypes DEF FreeTaskIoc, At, Quiet, mapVars, Placed, Stage, MapOps
  <1> DEFINE o == loc[t].ctx
             r == [obj[o] EXCEPT !.live = FALSE]
  <1>2. r \in ObjType /\ r.hctx = obj[o].hctx /\ obj' = [obj EXCEPT ![o] = r]
    BY <1>1 DEF ObjType, FreeTaskIoc
  <1>3. obj' \in [Tasks -> ObjType] /\ Kept
    <2> HIDE DEF r, o
    <2> QED
      BY <1>1, <1>2, ObjChange DEF o
  <1>4. NoLoc \in LocType /\ "dead" \in Labels
    BY DeviceFacts DEF TInv, Types, TyEnv, NoLoc, LocType, IoPrios, TPrio, Returns, Labels
  <1>5. pc' = [pc EXCEPT ![t] = "dead"] /\ loc' = [loc EXCEPT ![t] = NoLoc]
    BY DEF FreeTaskIoc, Goto
  <1>6. pc'[t] = "dead" /\ loc'[t] = NoLoc => Placed(t)'
    BY DEF Placed, Stage, MapOps, Making, Profiling, Scheduling, Leaving
  <1> QED
    BY <1>1, <1>3, <1>4, <1>5, <1>6, TaskMoves

(* A setter's step leaves every task at its place, if not steady. *)
TasksStay ==
  \A u \in Tasks : /\ pc'[u] = pc[u]
                   /\ loc'[u] = loc[u] \/ loc'[u] = [loc[u] EXCEPT !.steady = FALSE]
                   /\ io'[u] = io[u] \/ io'[u] # None

LEMMA SetterStep ==
  ASSUME TInv, NEW s \in Setters, Types', UNCHANGED ctx, Kept, TasksStay,
         \A c \in Setters \ {s} : pc'[c] = pc[c] /\ loc'[c] = loc[c],
         pc'[s] \in {"idle", "dead", "oops", "notify", "io_alloc"},
         pc'[s] \in {"notify", "io_alloc"} => loc'[s].target # None
  PROVE  TInv'
  <1>1. \A u \in Tasks : Placed(u)'
    <2> TAKE u \in Tasks
    <2>1. Placed(u) /\ Types /\ pc'[u] = pc[u] /\ (loc'[u] = loc[u] \/ loc'[u] = [loc[u] EXCEPT !.steady = FALSE])
          /\ (io'[u] = io[u] \/ io'[u] # None)
      BY DEF TInv, TasksStay
    <2> QED
      BY <2>1, OthersPlaced DEF Kept
  <1>2. \A c \in Setters : SetterPlaced(c)'
    BY DEF TInv, SetterPlaced
  <1> QED
    BY <1>1, <1>2, MadeStays DEF TInv

LEMMA UnsteadyType ==
  ASSUME TInv, NEW x
  PROVE  /\ Unsteady(x) \in [Contexts -> LocType]
         /\ \A u \in Tasks : Unsteady(x)[u] = loc[u] \/ Unsteady(x)[u] = [loc[u] EXCEPT !.steady = FALSE]
         /\ \A s \in Setters : Unsteady(x)[s] = loc[s]
  <1>1. Tasks \cap Setters = {} /\ loc \in [Contexts -> LocType]
    BY DeviceFacts DEF TInv, Types, TyEnv
  <1>2. \A c \in Contexts : [loc[c] EXCEPT !.steady = FALSE] \in LocType
    <2> TAKE c \in Contexts
    <2>1. loc[c] \in LocType
      BY <1>1
    <2> QED
      BY <2>1 DEF LocType
  <1> QED
    BY <1>1, <1>2 DEF Unsteady, Contexts

LEMMA SetIoprioT ==
  ASSUME TInv, UNCHANGED setup, NEW s \in Setters, NEW t \in Tasks, NEW class \in setup.classes,
         SetIoprio(s, t, class) \/ SetIoprioNew(s, t, class)
  PROVE  TInv'
  <1>1. class \in {"rt", "be"} /\ s \in Contexts /\ s \notin Tasks /\ t # None /\ setup \in Setups
    BY DeviceFacts DEF TInv, Types, TyEnv, Contexts
  <1>2. CASE SetIoprio(s, t, class)
    <2>1. /\ UNCHANGED <<cpu, io, ctx, obj, nsqMap, inUse, claimed, sent, cached>> /\ io[t] # None
          /\ ioprio' = [ioprio EXCEPT ![io[t]] = class] /\ asked' = [asked EXCEPT ![io[t]] = class]
          /\ loc' = [Unsteady(io[t]) EXCEPT ![s].target = t]
      BY <1>2 DEF SetIoprio, mapVars
    <2>2. PICK op \in {"idle", "notify"} : pc' = [pc EXCEPT ![s] = op]
      BY <1>2 DEF SetIoprio, Goto
    <2>3. pc' \in [Contexts -> Labels] /\ pc'[s] = op /\ \A c \in Contexts \ {s} : pc'[c] = pc[c]
      BY <1>1, <2>2 DEF TInv, Types, TyEnv, Labels
    <2>4. /\ ioprio' \in [Tasks -> {"rt", "be"}] /\ asked' \in [Tasks -> {"rt", "be"}]
      BY <1>1, <2>1 DEF TInv, Types, TyEnv
    <2>5. /\ loc' \in [Contexts -> LocType] /\ loc'[s].target = t
          /\ \A c \in Contexts \ {s} : loc'[c] = Unsteady(io[t])[c]
      <3> DEFINE U == Unsteady(io[t])
      <3>1. U \in [Contexts -> LocType]
        BY UnsteadyType
      <3>2. loc' = [U EXCEPT ![s] = [U[s] EXCEPT !.target = t]]
        BY <2>1
      <3> HIDE DEF U
      <3>5. U[s] \in LocType
        BY <1>1, <3>1
      <3>3. [U[s] EXCEPT !.target = t] \in LocType /\ [U[s] EXCEPT !.target = t].target = t
        BY <1>1, <3>5 DEF LocType
      <3>4. /\ loc' \in [Contexts -> LocType] /\ loc'[s].target = t
            /\ \A c \in Contexts \ {s} : loc'[c] = U[c]
        BY <1>1, <3>1, <3>2, <3>3
      <3> QED
        BY <3>4 DEF U
    <2>6. Types'
      BY <2>1, <2>3, <2>4, <2>5, SameDevice DEF TInv, Types, TyEnv, TyMaps, TySent
    <2>7. TasksStay /\ \A c \in Setters \ {s} : pc'[c] = pc[c] /\ loc'[c] = loc[c]
      BY <1>1, <2>1, <2>3, <2>5, UnsteadyType DEF TasksStay, Contexts
    <2> QED
      BY <1>1, <2>1, <2>3, <2>5, <2>6, <2>7, SameObj, SetterStep
  <1>3. CASE SetIoprioNew(s, t, class)
    <2>1. /\ UNCHANGED <<cpu, io, ioprio, ctx, obj, nsqMap, inUse, claimed, asked, sent, cached>>
          /\ pc' = [pc EXCEPT ![s] = "io_alloc"]
          /\ loc' = [loc EXCEPT ![s] = [loc[s] EXCEPT !.target = t, !.class = class]]
      BY <1>1, <1>3 DEF SetIoprioNew, Goto, mapVars, TInv, Types
    <2> DEFINE l == [loc[s] EXCEPT !.target = t, !.class = class]
    <2>7. loc[s] \in LocType
      BY <1>1 DEF TInv, Types
    <2>2. l \in LocType /\ l.target = t
      BY <1>1, <2>7 DEF LocType
    <2>3. loc' = [loc EXCEPT ![s] = l]
      BY <2>1
    <2> HIDE DEF l
    <2>4. /\ loc' \in [Contexts -> LocType] /\ pc' \in [Contexts -> Labels] /\ pc'[s] = "io_alloc" /\ loc'[s].target = t
          /\ \A c \in Contexts \ {s} : pc'[c] = pc[c] /\ loc'[c] = loc[c]
      BY <1>1, <2>1, <2>2, <2>3 DEF TInv, Types, TyEnv, Labels
    <2>5. Types'
      BY <2>1, <2>4, SameDevice DEF TInv, Types, TyEnv, TyMaps, TySent
    <2>6. TasksStay /\ \A c \in Setters \ {s} : pc'[c] = pc[c] /\ loc'[c] = loc[c]
      BY <1>1, <2>1, <2>4 DEF TasksStay, Contexts
    <2> QED
      BY <1>1, <2>1, <2>4, <2>5, <2>6, SameObj, SetterStep
  <1> QED
    BY <1>2, <1>3

LEMMA NotifyT ==
  ASSUME TInv, UNCHANGED setup, NEW s \in Setters, Notify(s)
  PROVE  TInv'
  <1> DEFINE x == io[loc[s].target]
  <1>1. /\ UNCHANGED <<cpu, io, ioprio, ctx, nsqMap, inUse, claimed, asked, sent, cached>> /\ pc[s] = "notify"
    BY DEF Notify, mapVars
  <1>2. s \in Contexts /\ s \notin Tasks /\ NoLoc \in LocType
    BY DeviceFacts DEF TInv, Types, TyEnv, Contexts, NoLoc, LocType, IoPrios, TPrio, Returns
  <1>3. loc[s].target \in Tasks
    <2>1. loc[s] \in LocType /\ loc[s].target # None
      BY <1>1, <1>2 DEF TInv, Types, SetterPlaced
    <2> QED
      BY <2>1 DEF LocType
  <1>4. PICK op \in {"oops", "idle"} : pc' = [pc EXCEPT ![s] = op]
    BY DEF Notify, Oops, Finish, Goto
  <1>5. PICK l \in LocType : loc' = [loc EXCEPT ![s] = l]
    <2>1. loc[s] \in LocType /\ loc = [loc EXCEPT ![s] = loc[s]]
      BY <1>2 DEF TInv, Types
    <2> QED
      BY <1>2, <2>1 DEF Notify, Oops, Finish
  <1>6. obj' \in [Tasks -> ObjType] /\ Kept
    <2>1. CASE UNCHANGED obj
      BY <2>1, SameObj
    <2>2. CASE x # None /\ ctx[x] # None /\ obj' = [obj EXCEPT ![ctx[x]].need = TRUE]
      <3>1. ctx[x] \in Tasks
        BY <1>3, <2>2 DEF TInv, Types, TyEnv
      <3> DEFINE o == ctx[x]
                 r == [obj[o] EXCEPT !.need = TRUE]
      <3>2. obj[o] \in ObjType
        BY <3>1 DEF TInv, Types
      <3>3. r \in ObjType /\ r.hctx = obj[o].hctx
        BY <3>2 DEF ObjType
      <3>4. obj' = [obj EXCEPT ![o] = r]
        BY <2>2
      <3> HIDE DEF o, r, x
      <3> QED
        BY <3>1, <3>3, <3>4, ObjChange DEF o
    <2> QED
      BY <2>1, <2>2 DEF Notify
  <1>7. /\ loc' \in [Contexts -> LocType] /\ pc' \in [Contexts -> Labels] /\ pc'[s] = op
        /\ \A c \in Contexts \ {s} : pc'[c] = pc[c] /\ loc'[c] = loc[c]
    BY <1>2, <1>4, <1>5 DEF TInv, Types, TyEnv, Labels
  <1>8. Types'
    BY <1>1, <1>6, <1>7, SameDevice DEF TInv, Types, TyEnv, TyMaps, TySent
  <1>9. TasksStay /\ \A c \in Setters \ {s} : pc'[c] = pc[c] /\ loc'[c] = loc[c]
    BY <1>1, <1>2, <1>7 DEF TasksStay, Contexts
  <1> QED
    BY <1>1, <1>6, <1>7, <1>8, <1>9, SetterStep

(* Both a task and a setter allocate io_contexts. *)
LEMMA IoAllocT ==
  ASSUME TInv, UNCHANGED setup, NEW c \in Contexts, IoAlloc(c)
  PROVE  TInv'
  <1> DEFINE t == loc[c].target
             x == IF io[t] = None THEN t ELSE io[t]
  <1>1. /\ UNCHANGED <<cpu, ctx, obj, nsqMap, inUse, claimed, sent, cached>> /\ pc[c] = "io_alloc" /\ loc[c] \in LocType
    BY DEF IoAlloc, At, mapVars, TInv, Types
  <1>2. setup \in Setups /\ Tasks \cap Setters = {} /\ None \notin Tasks
    BY DeviceFacts DEF TInv, Types, TyEnv
  <1>3. t \in Tasks /\ (c \in Tasks => c = t)
    BY <1>1, <1>2 DEF TInv, Placed, SetterPlaced, Contexts, LocType
  <1>4. x \in Tasks /\ x # None /\ loc[c].class \in {"rt", "be"}
    BY <1>1, <1>2, <1>3 DEF TInv, Types, TyEnv, LocType
  <1>5. PICK op \in {"lookup", "idle", "route"} :
          /\ pc' = [pc EXCEPT ![c] = op]
          /\ c = t => op # "idle"
          /\ c # t => op = "idle"
          /\ op = "lookup" => io' = [io EXCEPT ![t] = x]
    BY <1>1, <1>3 DEF IoAlloc, Goto
  <1>6. io' \in [Tasks -> Tasks \cup {None}] /\ \A u \in Tasks : io'[u] = io[u] \/ (u = t /\ io'[u] = x)
    <2>1. io' = io \/ io' = [io EXCEPT ![t] = x]
      BY DEF IoAlloc
    <2> HIDE DEF t, x
    <2> QED
      BY <1>3, <1>4, <2>1 DEF TInv, Types, TyEnv
  <1>7. ioprio' \in [Tasks -> {"rt", "be"}] /\ asked' \in [Tasks -> {"rt", "be"}]
    <2>1. /\ ioprio' = ioprio \/ ioprio' = [ioprio EXCEPT ![x] = loc[c].class]
          /\ asked' = asked \/ asked' = [asked EXCEPT ![x] = loc[c].class]
      BY DEF IoAlloc
    <2> HIDE DEF x
    <2> QED
      BY <1>4, <2>1 DEF TInv, Types, TyEnv
  <1>8. /\ loc' \in [Contexts -> LocType]
        /\ c = t => loc' = loc
        /\ \A u \in Contexts : loc'[u] = loc[u] \/ (u \in Tasks /\ loc'[u] = [loc[u] EXCEPT !.steady = FALSE])
    <2>1. loc' = loc \/ (c # t /\ loc' = [loc EXCEPT ![t] = [loc[t] EXCEPT !.steady = FALSE]])
      BY DEF IoAlloc
    <2> HIDE DEF t
    <2>2. loc[t] \in LocType /\ t \in Contexts
      BY <1>3 DEF TInv, Types, Contexts
    <2>3. [loc[t] EXCEPT !.steady = FALSE] \in LocType
      BY <2>2 DEF LocType
    <2> QED
      BY <1>3, <2>1, <2>2, <2>3 DEF TInv, Types
  <1>9. pc' \in [Contexts -> Labels] /\ pc'[c] = op /\ \A u \in Contexts \ {c} : pc'[u] = pc[u]
    BY <1>5 DEF TInv, Types, TyEnv, Labels
  <1>10. Types'
    BY <1>1, <1>6, <1>7, <1>8, <1>9, SameDevice DEF TInv, Types, TyEnv, TyMaps, TySent
  <1>11. CASE c = t
    <2>1. Others(c) /\ \A u \in Tasks \ {c} : io'[u] = io[u]
      BY <1>6, <1>8, <1>9, <1>11 DEF Others
    <2>2. op = "lookup" => io'[c] # None
      <3>1. op = "lookup" => io'[t] = x
        BY <1>3, <1>5 DEF TInv, Types, TyEnv
      <3> HIDE DEF x, t
      <3> QED
        BY <1>4, <1>11, <3>1
    <2>3. op \in {"lookup", "route"}
      BY <1>5, <1>11
    <2>4. Placed(c)'
      BY <1>9, <2>2, <2>3 DEF Placed, Stage, MapOps, Making, Profiling, Scheduling, Leaving
    <2> HIDE DEF t
    <2> QED
      BY <1>1, <1>3, <1>10, <1>11, <2>1, <2>4, TaskStep, MadeStays, SameObj DEF TInv
  <1>12. CASE c # t
    <2>1. c \in Setters /\ c \notin Tasks /\ op = "idle"
      BY <1>2, <1>3, <1>5, <1>12 DEF Contexts
    <2>2. TasksStay /\ \A u \in Setters \ {c} : pc'[u] = pc[u] /\ loc'[u] = loc[u]
      <3> HIDE DEF t, x
      <3> QED
        BY <1>2, <1>4, <1>6, <1>8, <1>9, <2>1 DEF TasksStay, Contexts
    <2> QED
      BY <1>1, <1>9, <1>10, <2>1, <2>2, SameObj, SetterStep
  <1> QED
    BY <1>11, <1>12

LEMMA TNext == TInv /\ [Next /\ UNCHANGED setup]_vars => TInv'
  <1> SUFFICES ASSUME TInv, [Next /\ UNCHANGED setup]_vars PROVE TInv'
    OBVIOUS
  <1>1. CASE UNCHANGED vars
    <2>1. UNCHANGED <<setup, cpu, io, ioprio, ctx, obj, nsqMap, inUse, claimed, pc, loc, asked, sent, cached>>
      BY <1>1 DEF vars, mapVars
    <2>2. Types'
      BY <2>1, SameDevice DEF TInv, Types, TyEnv, TyMaps, TySent
    <2> QED
      BY <2>1, <2>2 DEF TInv, Made, Placed, SetterPlaced, Stage
  <1>2. ASSUME UNCHANGED setup, NEW t \in Tasks,
               \/ \E c \in Cpus : Migrate(t, c)
               \/ \E bio \in setup.bios : SubmitBio(t, bio)
               \/ Profile(t) \/ Maps(t) \/ Send(t) \/ Exit(t) \/ FreeTaskIoc(t)
        PROVE  TInv'
    <2>1. CASE Profile(t)
      BY <1>2, <2>1, LookupT, InitTaskIocT, InitEndT, InsertTaskIocT, UpdateStatsT, MovingT, NotingT, RescheduleT,
         RecommendT, AssignT, OutlierT DEF Profile
    <2> QED
      BY <1>2, <2>1, MigrateT, SubmitBioT, MapsT, SendT, ExitT, FreeTaskIocT
  <1>3. ASSUME UNCHANGED setup, NEW s \in Setters, Set(s)
        PROVE  TInv'
    BY <1>3, SetIoprioT, NotifyT DEF Set
  <1> QED
    BY <1>1, <1>2, <1>3, IoAllocT DEF Next

(* Every variable keeps to its type on every device, in every mode and for *)
(* any number of tasks and setters: no task is given an NQ the device does *)
(* not have, and no request is sent to one, whatever priorities, failures, *)
(* migrations and shared io_contexts.                                      *)
THEOREM TypesHold == Spec => []TypeOK
  <1>1. TInv => TypeOK
    <2> SUFFICES ASSUME TInv PROVE TypeOK
      OBVIOUS
    <2>1. ObjType = [live : BOOLEAN, prio : {TPrio, LPrio, OutlierPrio},
                     hctx : Nqs \cup {None}, outlier : Nqs \cup {None}, last : Cpus,
                     need : BOOLEAN, sync : 0 .. Magnitude, async : 0 .. Magnitude]
      BY DEF ObjType, IoPrios
    <2> QED
      BY <2>1 DEF TInv, Types, TyEnv, TyMaps, TySent, TypeOK
  <1> QED
    BY <1>1, TInit, TNext, PTL DEF Spec

-----------------------------------------------------------------------------
(* Which steps touch a context's priority, NQ and NQ for outliers. *)

SamePattern == \A o \in Tasks : obj'[o].prio = obj[o].prio /\ obj'[o].outlier = obj[o].outlier
SameNq == \A o \in Tasks : obj'[o].prio = obj[o].prio /\ obj'[o].hctx = obj[o].hctx
Writes(t) == InitTaskIoc(t) \/ Assign(t) \/ Outlier(t)

(* A context of which other fields change. *)
LEMMA OtherFields ==
  ASSUME TInv, NEW o, NEW b, NEW c,
         \/ obj' = obj
         \/ obj' = [obj EXCEPT ![o] = [obj[o] EXCEPT !.live = b]]
         \/ obj' = [obj EXCEPT ![o] = [obj[o] EXCEPT !.last = c]]
         \/ obj' = [obj EXCEPT ![o] = [obj[o] EXCEPT !.need = b]]
         \/ obj' = [obj EXCEPT ![o] = [obj[o] EXCEPT !.sync = c]]
         \/ obj' = [obj EXCEPT ![o] = [obj[o] EXCEPT !.async = c]]
  PROVE  SamePattern /\ SameNq
  <1> TInv => obj \in [Tasks -> ObjType]
    BY DEF TInv, Types
  <1> QED
    BY DEF SamePattern, SameNq, ObjType

LEMMA OnlyWrites ==
  TInv /\ [Next /\ UNCHANGED setup]_vars => (SamePattern /\ SameNq) \/ \E t \in Tasks : Writes(t)
  <1> SUFFICES ASSUME TInv, [Next /\ UNCHANGED setup]_vars, ~ \E t \in Tasks : Writes(t)
               PROVE  SamePattern /\ SameNq
    OBVIOUS
  <1>1. CASE UNCHANGED obj
    BY <1>1 DEF SamePattern, SameNq
  <1>2. CASE UNCHANGED vars
    BY <1>1, <1>2 DEF vars
  <1>3. ASSUME NEW t \in Tasks, MoveEnd(t) \/ PutCpu(t) \/ InitEnd(t) PROVE SamePattern /\ SameNq
    <2>1. \E o, c : obj' = [obj EXCEPT ![o] = [obj[o] EXCEPT !.last = c]]
      BY <1>3 DEF MoveEnd, PutCpu, InitEnd
    <2> QED
      BY <2>1, OtherFields
  <1>4. ASSUME NEW t \in Tasks, InsertTaskIoc(t) \/ FreeTaskIoc(t) PROVE SamePattern /\ SameNq
    <2>1. obj' = obj \/ \E o : obj' = [obj EXCEPT ![o] = [obj[o] EXCEPT !.live = FALSE]]
      BY <1>4 DEF InsertTaskIoc, FreeTaskIoc
    <2> QED
      BY <1>1, <2>1, OtherFields
  <1>5. ASSUME NEW t \in Tasks, TakeNotice(t) PROVE SamePattern /\ SameNq
    <2>1. \E o : obj' = [obj EXCEPT ![o] = [obj[o] EXCEPT !.need = FALSE]]
      BY <1>5 DEF TakeNotice
    <2> QED
      BY <2>1, OtherFields
  <1>6. ASSUME NEW s \in Setters, Notify(s) PROVE SamePattern /\ SameNq
    <2>1. obj' = obj \/ \E o : obj' = [obj EXCEPT ![o] = [obj[o] EXCEPT !.need = TRUE]]
      BY <1>6 DEF Notify
    <2> QED
      BY <1>1, <2>1, OtherFields
  <1>7. ASSUME NEW t \in Tasks, UpdateStats(t) PROVE SamePattern /\ SameNq
    <2>1. \/ obj' = obj
          \/ \E o, c : obj' = [obj EXCEPT ![o] = [obj[o] EXCEPT !.sync = c]]
          \/ \E o, c : obj' = [obj EXCEPT ![o] = [obj[o] EXCEPT !.async = c]]
      BY <1>7 DEF UpdateStats, Counted
    <2> QED
      BY <1>1, <2>1, OtherFields
  <1>8. CASE \E c \in Contexts : IoAlloc(c)
    BY <1>1, <1>8 DEF IoAlloc
  <1>9. CASE \E s \in Setters : Set(s)
    BY <1>1, <1>6, <1>9 DEF Set, SetIoprio, SetIoprioNew
  <1>10. ASSUME NEW t \in Tasks, Profile(t) PROVE SamePattern /\ SameNq
    <2>1. CASE \/ Lookup(t) \/ ClearOldCpu(t) \/ SetNewCpu(t) \/ Reschedule(t) \/ Recommend(t) \/ GetCpu(t)
               \/ ClearOldNq(t)
      BY <1>1, <2>1 DEF Lookup, ClearOldCpu, SetNewCpu, Reschedule, Recommend, GetCpu, ClearOldNq
    <2> QED
      BY <1>3, <1>4, <1>5, <1>7, <1>10, <2>1 DEF Profile, Writes
  <1>11. ASSUME NEW t \in Tasks,
                \/ \E c \in Cpus : Migrate(t, c)
                \/ \E bio \in setup.bios : SubmitBio(t, bio)
                \/ Maps(t) \/ Exit(t) \/ Send(t)
         PROVE  SamePattern /\ SameNq
    BY <1>1, <1>11 DEF Migrate, SubmitBio, Maps, SetClaim, SetLoad, SetStore, ClearLoad, ClearStore, Exit,
                       Send, NoRequest, TakeCached, Route, GetTag, Unplug
  <1> QED
    BY <1>2, <1>4, <1>8, <1>9, <1>10, <1>11 DEF Next

(* A task is an outlier only with an NQ scheduled for outliers: what is    *)
(* scheduled is written together with the priority, and a change of the    *)
(* pattern that goes back to the priority's group gives both up.           *)
THEOREM OutliersHaveNqs == Spec => []OutlierHasNq
  <1>1. Init => OutlierHasNq
    BY DEF Init, OutlierHasNq, NoCtx, TPrio, OutlierPrio
  <1>2. TInv /\ OutlierHasNq /\ [Next /\ UNCHANGED setup]_vars => OutlierHasNq'
    <2> SUFFICES ASSUME TInv, OutlierHasNq, [Next /\ UNCHANGED setup]_vars PROVE OutlierHasNq'
      OBVIOUS
    <2>1. obj \in [Tasks -> ObjType] /\ 3 # TPrio /\ 3 # LPrio
      BY DEF TInv, Types, TPrio, LPrio
    <2>2. CASE SamePattern
      BY <2>2 DEF SamePattern, OutlierHasNq
    <2>3. ASSUME NEW t \in Tasks, InitTaskIoc(t) PROVE OutlierHasNq'
      <3>1. loc[t].prio # OutlierPrio
        BY <2>3, TaskTypes DEF InitTaskIoc, At, Placed, Stage, MapOps
      <3>2. obj' = obj \/ \E n : obj' = [obj EXCEPT ![t] = [NoCtx EXCEPT !.live = TRUE, !.prio = loc[t].prio, !.hctx = n]]
        BY <2>3 DEF InitTaskIoc
      <3>3. obj' = obj \/ \A o \in Tasks : obj'[o] = obj[o] \/ obj'[o].prio = loc[t].prio
        BY <2>1, <3>2 DEF NoCtx
      <3> QED
        BY <3>1, <3>3 DEF OutlierHasNq
    <2>4. ASSUME NEW t \in Tasks, Assign(t) PROVE OutlierHasNq'
      <3>1. loc[t].nq # None /\ loc[t].ctx \in Tasks
        BY <2>4, Working DEF Assign, At, Profiling, Scheduling
      <3>2. CASE loc[t].prio = OutlierPrio
        BY <2>1, <2>4, <3>1, <3>2 DEF Assign, OutlierHasNq, ObjType
      <3>3. CASE loc[t].prio # OutlierPrio
        BY <2>1, <2>4, <3>1, <3>3 DEF Assign, OutlierHasNq, ObjType
      <3> QED
        BY <3>2, <3>3
    <2>5. ASSUME NEW t \in Tasks, Outlier(t) PROVE OutlierHasNq'
      <3> DEFINE o == loc[t].ctx
                 new == MapIoprio(o, ioprio[io[t]])
      <3>1. o \in Tasks
        BY <2>5, Working DEF Outlier, At, Profiling
      <3>2. CASE UNCHANGED obj
        BY <3>2 DEF OutlierHasNq
      <3>3. CASE /\ new = OutlierPrio => obj[o].outlier # None
                 /\ obj' = [obj EXCEPT ![o].prio = new, ![o].sync = 0, ![o].async = 0,
                              ![o].outlier = IF new # OutlierPrio /\ obj[o].prio = OutlierPrio THEN None ELSE @]
        <4> HIDE DEF new, o
        <4> QED
          BY <2>1, <3>1, <3>3 DEF OutlierHasNq, ObjType
      <3> QED
        BY <2>5, <3>2, <3>3 DEF Outlier
    <2> QED
      BY <2>2, <2>3, <2>4, <2>5, OnlyWrites DEF Writes
  <1> QED
    BY <1>1, <1>2, TInit, TNext, PTL DEF Spec

-----------------------------------------------------------------------------
(* The second invariant, of tasks that each have an io_context of their    *)
(* own: the default NQ follows the priority, or an update is due.          *)

Own == ~setup.early /\ \A t \in Tasks : setup.io[t] \in {t, None}

Pending(t) == \E s \in Setters : pc[s] = "notify" /\ loc[s].target = t

(* The default NQ and the context's priority are those of the class. *)
Follows(t) ==
  /\ obj[t].hctx \in GroupNqs(SimpleMap(ioprio[t]))
  /\ ioprio[t] = "rt" => HasLBit(obj[t].prio)

(* What a task is about to assign is, too. *)
WillFollow(t) ==
  /\ loc[t].prio = SimpleMap(ioprio[t])
  /\ Stage(t) # "recommend" => loc[t].nq \in GroupNqs(loc[t].prio)

HasOwn(t) == io[t] # None /\ ctx[t] # None
Updating == {"recommend"} \cup Scheduling
Busy == {"io_alloc", "lookup", "init", "route"} \cup Making \cup Profiling
Noticed == {"resched", "outlier", "route"} \cup Updating
Gone == {"dead", "free"}
Unsettled == Gone \cup {"oops", "resched", "init"} \cup Making

OwnContext(t) ==
  /\ io[t] \in {t, None} /\ ctx[t] \in {t, None} /\ loc[t].ctx \in {t, None}
  /\ asked[t] = ioprio[t]
  /\ io[t] = None /\ Stage(t) \notin Gone => ioprio[t] = "be" /\ ctx[t] = None
  /\ Stage(t) = "io_alloc" => io[t] = None /\ loc[t].class = "be"
  /\ Stage(t) \in {"init"} \cup Making => ctx[t] = None

Following(t) ==
  /\ Stage(t) = "init" => loc[t].prio = SimpleMap(ioprio[t])
  /\ Stage(t) \in Making => Follows(t)
  /\ Stage(t) \in Busy /\ loc[t].steady => ~Pending(t)
  /\ Stage(t) \in Noticed /\ loc[t].steady /\ HasOwn(t) => ~obj[t].need
  /\ HasOwn(t) /\ ~obj[t].need /\ ~Pending(t) /\ Stage(t) \notin Unsettled =>
       IF Stage(t) \in Updating /\ loc[t].prio # OutlierPrio THEN WillFollow(t) ELSE Follows(t)

SetterOwn(s) ==
  /\ pc[s] # "io_alloc"
  /\ pc[s] = "notify" => ctx[loc[s].target] # None

PInv ==
  /\ Own
  /\ \A t \in Tasks : OwnContext(t) /\ Following(t)
  /\ \A s \in Setters : SetterOwn(s)

LEMMA FollowsPrimed ==
  ASSUME UNCHANGED setup, NEW t
  PROVE  /\ Follows(t)' <=> /\ obj'[t].hctx \in GroupNqs(SimpleMap(ioprio'[t]))
                            /\ ioprio'[t] = "rt" => HasLBit(obj'[t].prio)
         /\ WillFollow(t)' <=> /\ loc'[t].prio = SimpleMap(ioprio'[t])
                               /\ Stage(t)' # "recommend" => loc'[t].nq \in GroupNqs(loc'[t].prio)
  <1>1. \A p : GroupNqs(p)' = GroupNqs(p)
    BY SameDevice
  <1> HIDE DEF GroupNqs
  <1> QED
    BY <1>1 DEF Follows, WillFollow

(* What a task's part of the invariant reads. *)
SameSetters == \A s \in Setters : pc'[s] = pc[s] /\ loc'[s].target = loc[s].target
SameTask(u) ==
  /\ pc'[u] = pc[u] /\ loc'[u] = loc[u] /\ io'[u] = io[u] /\ ctx'[u] = ctx[u]
  /\ ioprio'[u] = ioprio[u] /\ asked'[u] = asked[u]
  /\ obj'[u].hctx = obj[u].hctx /\ obj'[u].prio = obj[u].prio /\ obj'[u].need = obj[u].need

LEMMA SamePending ==
  ASSUME SameSetters, NEW t
  PROVE  Pending(t)' <=> Pending(t)
  BY DEF SameSetters, Pending

LEMMA OwnFrame ==
  ASSUME UNCHANGED setup, NEW u, OwnContext(u), Following(u), SameTask(u), Pending(u)' <=> Pending(u)
  PROVE  OwnContext(u)' /\ Following(u)'
  <1>1. Stage(u)' = Stage(u)
    BY DEF Stage, SameTask
  <1>3. (Follows(u)' <=> Follows(u)) /\ (WillFollow(u)' <=> WillFollow(u)) /\ (HasOwn(u)' <=> HasOwn(u))
    BY <1>1, FollowsPrimed DEF Follows, WillFollow, HasOwn, SameTask
  <1>4. OwnContext(u)'
    BY <1>1 DEF OwnContext, SameTask
  <1>5. Following(u)'
    BY <1>1, <1>3 DEF Following, SameTask
  <1> QED
    BY <1>4, <1>5

(* A step of one task, put together. *)
LEMMA OwnStep ==
  ASSUME TInv, PInv, UNCHANGED setup, NEW t \in Tasks, Others(t), \A u \in Tasks \ {t} : SameTask(u),
         ctx[t] # None => ctx'[t] # None, OwnContext(t)', Following(t)'
  PROVE  PInv'
  <1>1. Tasks \cap Setters = {}
    BY DeviceFacts DEF TInv, Types, TyEnv
  <1>2. SameSetters
    BY <1>1 DEF SameSetters, Others, Contexts
  <1>3. \A u \in Tasks : OwnContext(u)' /\ Following(u)'
    BY <1>2, OwnFrame, SamePending DEF PInv
  <1>4. \A s \in Setters : SetterOwn(s)'
    <2> TAKE s \in Setters
    <2>1. pc'[s] = pc[s] /\ loc'[s].target = loc[s].target /\ SetterOwn(s) /\ s \in Contexts
      BY <1>2 DEF SameSetters, PInv, Contexts
    <2>2. pc[s] = "notify" => loc[s].target \in Tasks
      <3>1. pc[s] = "notify" => loc[s].target # None
        BY DEF TInv, SetterPlaced
      <3>2. loc[s] \in LocType
        BY <2>1 DEF TInv, Types
      <3> QED
        BY <3>1, <3>2 DEF LocType
    <2>3. \A u \in Tasks : ctx[u] # None => ctx'[u] # None
      BY DEF SameTask
    <2> QED
      BY <2>1, <2>2, <2>3 DEF SetterOwn
  <1>5. Own'
    BY DEF Own, PInv
  <1> QED
    BY <1>3, <1>4, <1>5 DEF PInv

(* A task's steps between places alike, which change nothing of this.      *)
Alike(r, s) ==
  /\ s \in Busy => r \in Busy
  /\ s \in Noticed => r \in Noticed
  /\ (s \in Updating <=> r \in Updating) /\ (s = "recommend" <=> r = "recommend")
  /\ s \notin Unsettled => r \notin Unsettled
  /\ s \in Making => r \in Making
  /\ s \in {"init", "io_alloc"} => r = s
  /\ r \in Gone => s \in Gone

LEMMA AlikeStep ==
  ASSUME TInv, PInv, UNCHANGED setup, NEW t \in Tasks, Others(t), UNCHANGED <<io, ctx, ioprio, asked>>,
         SamePattern, SameNq, \A u \in Tasks : obj'[u].need = obj[u].need,
         loc'[t].prio = loc[t].prio, loc'[t].nq = loc[t].nq, loc'[t].ctx = loc[t].ctx,
         loc'[t].class = loc[t].class, loc'[t].steady = loc[t].steady, Alike(Stage(t), Stage(t)')
  PROVE  PInv'
  <1>1. \A u \in Tasks \ {t} : SameTask(u)
    BY DEF SameTask, SameNq, Others, Contexts
  <1>2. OwnContext(t) /\ Following(t)
    BY DEF PInv
  <1>3. SameSetters
    BY DeviceFacts DEF TInv, Types, TyEnv, SameSetters, Others, Contexts
  <1>4. Pending(t)' <=> Pending(t)
    BY <1>3, SamePending
  <1>5. (Follows(t)' <=> Follows(t)) /\ (WillFollow(t)' <=> WillFollow(t)) /\ (HasOwn(t)' <=> HasOwn(t))
    BY FollowsPrimed DEF Follows, WillFollow, HasOwn, SameNq, Alike
  <1>6. OwnContext(t)'
    BY <1>2 DEF OwnContext, Alike
  <1>7. Following(t)'
    <2>1. Stage(t)' = "init" => Stage(t) = "init"
      BY DEF Alike
    <2> QED
      BY <1>2, <1>4, <1>5, <2>1 DEF Following, Alike
  <1> QED
    BY <1>1, <1>6, <1>7, OwnStep

LEMMA AlikePlaces ==
  /\ \A s : Alike(s, s)
  /\ Alike("profile", "moved") /\ Alike("moved", "moved_set") /\ Alike("moved", "notice")
  /\ Alike("moved_set", "moved_end") /\ Alike("moved_end", "notice") /\ Alike("init_end", "insert")
  /\ Alike("pin", "pin_clear") /\ Alike("pin_clear", "unpin") /\ Alike("unpin", "assign")
  BY DEF Alike, Busy, Noticed, Updating, Scheduling, Unsettled, Making, Gone, Profiling

(* The locals after a step to a place outside the maps. *)
LEMMA GoLocals ==
  ASSUME TInv, NEW t \in Tasks, NEW s, s \notin MapOps, NEW l, pc' = [pc EXCEPT ![t] = s], loc' = [loc EXCEPT ![t] = l]
  PROVE  Others(t) /\ Stage(t)' = s /\ loc'[t] = l
  <1>1. t \in Contexts /\ pc \in [Contexts -> Labels] /\ loc \in [Contexts -> LocType]
    BY DEF TInv, Types, TyEnv, Contexts
  <1> QED
    BY <1>1 DEF Others, Stage

LEMMA MapsP ==
  ASSUME TInv, PInv, UNCHANGED setup, NEW t \in Tasks, Maps(t)
  PROVE  PInv'
  <1>1. /\ UNCHANGED <<io, ctx, obj, ioprio, asked>> /\ pc[t] \in MapOps
    BY DEF Maps, SetClaim, SetLoad, SetStore, ClearLoad, ClearStore, At, MapOps
  <1>2. loc[t].next \in Returns /\ t \in Contexts /\ loc \in [Contexts -> LocType] /\ loc[t] \in LocType
    BY <1>1, TaskTypes DEF Placed, LocType, Types
  <1>3. /\ pc' = [pc EXCEPT ![t] = pc'[t]] /\ pc'[t] \in MapOps \cup {loc[t].next}
        /\ \/ UNCHANGED loc
           \/ \E v : loc' = [loc EXCEPT ![t] = [loc[t] EXCEPT !.v = v]]
    <2>1. pc \in [Contexts -> Labels]
      BY DEF TInv, Types, TyEnv
    <2> QED
      BY <1>2, <2>1 DEF Maps, SetClaim, SetLoad, SetStore, ClearLoad, ClearStore, Goto, MapOps
  <1>4. /\ loc'[t].prio = loc[t].prio /\ loc'[t].nq = loc[t].nq /\ loc'[t].ctx = loc[t].ctx
        /\ loc'[t].class = loc[t].class /\ loc'[t].steady = loc[t].steady /\ loc'[t].next = loc[t].next
        /\ \A c \in Contexts \ {t} : loc'[c] = loc[c]
    BY <1>2, <1>3 DEF LocType
  <1>5. Others(t)
    BY <1>2, <1>3, <1>4 DEF TInv, Types, TyEnv, Others
  <1>6. Stage(t)' = Stage(t)
    BY <1>1, <1>2, <1>3, <1>4 DEF Stage, MapOps, Returns
  <1>7. SamePattern /\ SameNq
    BY <1>1 DEF SamePattern, SameNq
  <1> QED
    BY <1>1, <1>4, <1>5, <1>6, <1>7, AlikePlaces, AlikeStep

LEMMA MovingP ==
  ASSUME TInv, PInv, UNCHANGED setup, NEW t \in Tasks, ClearOldCpu(t) \/ SetNewCpu(t) \/ GetCpu(t) \/ ClearOldNq(t)
  PROVE  PInv'
  <1>1. UNCHANGED <<io, ctx, obj, ioprio, asked>> /\ SamePattern /\ SameNq /\ loc[t] \in LocType /\ t \in Contexts
    BY TaskTypes DEF ClearOldCpu, SetNewCpu, GetCpu, ClearOldNq, SamePattern, SameNq
  <1>2. "set" \in MapOps /\ "clear" \in MapOps /\ "notice" \notin MapOps
    BY DEF MapOps
  <1>3. ASSUME NEW s, Stage(t) = pc[t], Alike(pc[t], s), Stage(t)' = s, Others(t),
               loc'[t].prio = loc[t].prio, loc'[t].nq = loc[t].nq, loc'[t].ctx = loc[t].ctx,
               loc'[t].class = loc[t].class, loc'[t].steady = loc[t].steady
        PROVE  PInv'
    <2>1. Alike(Stage(t), Stage(t)')
      BY <1>3
    <2> QED
      BY <1>1, <1>3, <2>1, AlikeStep
  <1>4. CASE ClearOldCpu(t) /\ obj[loc[t].ctx].last # cpu[t]
    <2>1. pc[t] = "moved" /\ Stage(t) = pc[t]
      BY <1>4 DEF ClearOldCpu, At, Stage, MapOps
    <2>2. PICK c, n : /\ pc' = [pc EXCEPT ![t] = "clear"]
                      /\ loc' = [loc EXCEPT ![t] = [loc[t] EXCEPT !.mcpu = c, !.mnq = n, !.next = "moved_set"]]
      BY <1>4 DEF ClearOldCpu, Call, Goto
    <2> DEFINE m == [loc[t] EXCEPT !.mcpu = c, !.mnq = n, !.next = "moved_set"]
    <2>7. /\ m.next = "moved_set" /\ m.prio = loc[t].prio /\ m.nq = loc[t].nq /\ m.ctx = loc[t].ctx
          /\ m.class = loc[t].class /\ m.steady = loc[t].steady
      BY <1>1 DEF LocType
    <2>8. loc' = [loc EXCEPT ![t] = m]
      BY <2>2
    <2> HIDE DEF m
    <2>5. Others(t) /\ Stage(t)' = "moved_set" /\ loc'[t] = m
      BY <1>1, <1>2, <2>2, <2>7, <2>8 DEF Others, Stage, TInv, Types, TyEnv
    <2>6. Alike(pc[t], "moved_set")
      BY <2>1, AlikePlaces
    <2> QED
      BY <1>3, <2>1, <2>5, <2>6, <2>7
  <1>5. CASE ClearOldCpu(t) /\ obj[loc[t].ctx].last = cpu[t]
    <2>1. pc[t] = "moved" /\ Stage(t) = pc[t]
      BY <1>5 DEF ClearOldCpu, At, Stage, MapOps
    <2>2. pc' = [pc EXCEPT ![t] = "notice"] /\ loc' = [loc EXCEPT ![t] = loc[t]]
      BY <1>5, SameLoc DEF ClearOldCpu, Goto
    <2>5. Others(t) /\ Stage(t)' = "notice" /\ loc'[t] = loc[t]
      BY <1>2, <2>2, GoLocals
    <2>6. Alike(pc[t], "notice")
      BY <2>1, AlikePlaces
    <2> QED
      BY <1>3, <2>1, <2>5, <2>6
  <1>6. CASE SetNewCpu(t)
    <2>1. pc[t] = "moved_set" /\ Stage(t) = pc[t]
      BY <1>6 DEF SetNewCpu, At, Stage, MapOps
    <2>2. PICK c, n : /\ pc' = [pc EXCEPT ![t] = "set"]
                      /\ loc' = [loc EXCEPT ![t] = [loc[t] EXCEPT !.mcpu = c, !.mnq = n, !.next = "moved_end"]]
      BY <1>6 DEF SetNewCpu, Call, Goto
    <2> DEFINE m == [loc[t] EXCEPT !.mcpu = c, !.mnq = n, !.next = "moved_end"]
    <2>7. /\ m.next = "moved_end" /\ m.prio = loc[t].prio /\ m.nq = loc[t].nq /\ m.ctx = loc[t].ctx
          /\ m.class = loc[t].class /\ m.steady = loc[t].steady
      BY <1>1 DEF LocType
    <2>8. loc' = [loc EXCEPT ![t] = m]
      BY <2>2
    <2> HIDE DEF m
    <2>5. Others(t) /\ Stage(t)' = "moved_end" /\ loc'[t] = m
      BY <1>1, <1>2, <2>2, <2>7, <2>8 DEF Others, Stage, TInv, Types, TyEnv
    <2>6. Alike(pc[t], "moved_end")
      BY <2>1, AlikePlaces
    <2> QED
      BY <1>3, <2>1, <2>5, <2>6, <2>7
  <1>7. CASE GetCpu(t)
    <2>1. pc[t] = "pin" /\ Stage(t) = pc[t]
      BY <1>7 DEF GetCpu, At, Stage, MapOps
    <2> DEFINE l == [loc[t] EXCEPT !.pinned = TRUE, !.cpu = cpu[t]]
    <2>2. PICK c, n : /\ pc' = [pc EXCEPT ![t] = "set"]
                      /\ loc' = [loc EXCEPT ![t] = [l EXCEPT !.mcpu = c, !.mnq = n, !.next = "pin_clear"]]
      BY <1>7 DEF GetCpu, Call, Goto
    <2>3. cpu[t] \in Cpus
      BY DEF TInv, Types, TyEnv
    <2>4. /\ l \in LocType /\ l.prio = loc[t].prio /\ l.nq = loc[t].nq /\ l.ctx = loc[t].ctx
          /\ l.class = loc[t].class /\ l.steady = loc[t].steady
      BY <1>1, <2>3 DEF LocType
    <2> HIDE DEF l
    <2> DEFINE m == [l EXCEPT !.mcpu = c, !.mnq = n, !.next = "pin_clear"]
    <2>7. /\ m.next = "pin_clear" /\ m.prio = l.prio /\ m.nq = l.nq /\ m.ctx = l.ctx
          /\ m.class = l.class /\ m.steady = l.steady
      BY <2>4 DEF LocType
    <2>8. loc' = [loc EXCEPT ![t] = m]
      BY <2>2
    <2> HIDE DEF m
    <2>5. Others(t) /\ Stage(t)' = "pin_clear" /\ loc'[t] = m
      BY <1>1, <1>2, <2>2, <2>7, <2>8 DEF Others, Stage, TInv, Types, TyEnv
    <2>6. Alike(pc[t], "pin_clear")
      BY <2>1, AlikePlaces
    <2> QED
      BY <2>4, <1>3, <2>1, <2>5, <2>6, <2>7
  <1>8. CASE ClearOldNq(t)
    <2>1. pc[t] = "pin_clear" /\ Stage(t) = pc[t]
      BY <1>8 DEF ClearOldNq, At, Stage, MapOps
    <2>2. PICK c, n : /\ pc' = [pc EXCEPT ![t] = "clear"]
                      /\ loc' = [loc EXCEPT ![t] = [loc[t] EXCEPT !.mcpu = c, !.mnq = n, !.next = "unpin"]]
      BY <1>8 DEF ClearOldNq, Call, Goto
    <2> DEFINE m == [loc[t] EXCEPT !.mcpu = c, !.mnq = n, !.next = "unpin"]
    <2>7. /\ m.next = "unpin" /\ m.prio = loc[t].prio /\ m.nq = loc[t].nq /\ m.ctx = loc[t].ctx
          /\ m.class = loc[t].class /\ m.steady = loc[t].steady
      BY <1>1 DEF LocType
    <2>8. loc' = [loc EXCEPT ![t] = m]
      BY <2>2
    <2> HIDE DEF m
    <2>5. Others(t) /\ Stage(t)' = "unpin" /\ loc'[t] = m
      BY <1>1, <1>2, <2>2, <2>7, <2>8 DEF Others, Stage, TInv, Types, TyEnv
    <2>6. Alike(pc[t], "unpin")
      BY <2>1, AlikePlaces
    <2> QED
      BY <1>3, <2>1, <2>5, <2>6, <2>7
  <1> QED
    BY <1>4, <1>5, <1>6, <1>7, <1>8

LEMMA PlainP ==
  ASSUME TInv, PInv, UNCHANGED setup, NEW t \in Tasks, MoveEnd(t) \/ PutCpu(t) \/ InitEnd(t) \/ UpdateStats(t)
  PROVE  PInv'
  <1>1. UNCHANGED <<io, ctx, ioprio, asked>> /\ loc[t] \in LocType /\ t \in Contexts
    BY TaskTypes DEF MoveEnd, PutCpu, InitEnd, UpdateStats
  <1>2. SamePattern /\ SameNq /\ \A u \in Tasks : obj'[u].need = obj[u].need
    <2>1. obj \in [Tasks -> ObjType]
      BY DEF TInv, Types
    <2>2. \/ obj' = obj
          \/ \E o, c : \/ obj' = [obj EXCEPT ![o] = [obj[o] EXCEPT !.last = c]]
                       \/ obj' = [obj EXCEPT ![o] = [obj[o] EXCEPT !.sync = c]]
                       \/ obj' = [obj EXCEPT ![o] = [obj[o] EXCEPT !.async = c]]
      <3>1. CASE UpdateStats(t)
        <4>1. \/ obj' = obj
              \/ obj' = [obj EXCEPT ![loc[t].ctx] = Counted(obj[loc[t].ctx], loc[t].bio)]
          BY <3>1 DEF UpdateStats
        <4>2. \E c : \/ Counted(obj[loc[t].ctx], loc[t].bio) = [obj[loc[t].ctx] EXCEPT !.sync = c]
                    \/ Counted(obj[loc[t].ctx], loc[t].bio) = [obj[loc[t].ctx] EXCEPT !.async = c]
          BY DEF Counted
        <4> QED
          BY <4>1, <4>2
      <3> QED
        BY <3>1 DEF MoveEnd, PutCpu, InitEnd
    <2> QED
      BY <2>1, <2>2, OtherFields DEF ObjType
  <1>3. \/ loc' = loc
        \/ \E b : loc' = [loc EXCEPT ![t] = [loc[t] EXCEPT !.pinned = b]]
        \/ \E b : loc' = [loc EXCEPT ![t] = [loc[t] EXCEPT !.changed = b]]
    BY DEF MoveEnd, PutCpu, InitEnd, UpdateStats
  <1>4. /\ loc'[t].prio = loc[t].prio /\ loc'[t].nq = loc[t].nq /\ loc'[t].ctx = loc[t].ctx
        /\ loc'[t].class = loc[t].class /\ loc'[t].steady = loc[t].steady /\ \A c \in Contexts \ {t} : loc'[c] = loc[c]
    BY <1>1, <1>3 DEF TInv, Types, LocType
  <1>5. PICK r, s : /\ <<r, s>> \in {<<"moved_end", "notice">>, <<"unpin", "assign">>, <<"init_end", "insert">>, <<"profile", "moved">>}
                    /\ pc[t] = r /\ pc' = [pc EXCEPT ![t] = s]
    BY DEF MoveEnd, PutCpu, InitEnd, UpdateStats, At, Goto
  <1>6. Alike(r, s) /\ r \notin MapOps /\ s \notin MapOps
    BY <1>5, AlikePlaces DEF MapOps
  <1>7. Others(t) /\ Stage(t) = r /\ Stage(t)' = s
    BY <1>1, <1>4, <1>5, <1>6 DEF Others, Stage, TInv, Types, TyEnv
  <1> QED
    BY <1>1, <1>2, <1>4, <1>6, <1>7, AlikeStep

LEMMA PendingKept ==
  ASSUME TInv, NEW t \in Tasks, Others(t)
  PROVE  \A u : Pending(u)' <=> Pending(u)
  <1>1. SameSetters
    BY DeviceFacts DEF TInv, Types, TyEnv, SameSetters, Others, Contexts
  <1> QED
    BY <1>1, SamePending

(* A step of a task that is not alike but leaves its io_context alone. *)
LEMMA QuietStep ==
  ASSUME TInv, PInv, UNCHANGED setup, NEW t \in Tasks, Others(t), UNCHANGED <<io, ctx, ioprio, asked>>,
         \A u \in Tasks \ {t} : obj'[u] = obj[u],
         loc'[t].ctx \in {t, None}, Stage(t)' # "io_alloc", Stage(t)' \in {"init"} \cup Making => ctx[t] = None,
         Stage(t) \notin Gone, Following(t)'
  PROVE  PInv'
  <1>1. \A u \in Tasks \ {t} : SameTask(u)
    BY DEF SameTask, Others, Contexts
  <1>2. OwnContext(t)'
    BY DEF PInv, OwnContext
  <1> QED
    BY <1>1, <1>2, OwnStep

LEMMA MigrateP ==
  ASSUME TInv, PInv, UNCHANGED setup, NEW t \in Tasks, NEW c \in Cpus, Migrate(t, c)
  PROVE  PInv'
  <1>1. UNCHANGED <<io, ctx, obj, ioprio, asked, pc, loc>>
    BY DEF Migrate
  <1>2. Stage(t)' = Stage(t)
    BY <1>1 DEF Stage
  <1> QED
    BY <1>1, <1>2, AlikePlaces, AlikeStep DEF Others, SamePattern, SameNq

(* A submission is steady only with no setter on its way to the context. *)
LEMMA SubmitBioP ==
  ASSUME TInv, PInv, UNCHANGED setup, NEW t \in Tasks, NEW bio, SubmitBio(t, bio)
  PROVE  PInv'
  <1>1. /\ UNCHANGED <<io, ctx, obj, ioprio, asked>> /\ pc[t] = "idle"
        /\ pc' = [pc EXCEPT ![t] = IF io[t] = None THEN "io_alloc" ELSE "lookup"]
    BY DEF SubmitBio, Goto, At
  <1> DEFINE l == [NoLoc EXCEPT !.bio = bio, !.target = t, !.steady =
                     \A s \in Setters : pc[s] \notin {"idle", "dead"} => io[loc[s].target] # io[t]]
             st == IF io[t] = None THEN "io_alloc" ELSE "lookup"
  <1>2. l.ctx = None /\ l.class = "be" /\ (l.steady => ~Pending(t))
    BY DEF NoLoc, Pending
  <1>3. loc' = [loc EXCEPT ![t] = l] /\ pc' = [pc EXCEPT ![t] = st] /\ st \notin MapOps
    BY <1>1 DEF SubmitBio, MapOps
  <1> HIDE DEF l
  <1>4. Others(t) /\ Stage(t)' = st /\ loc'[t] = l /\ Stage(t) = "idle"
    BY <1>1, <1>3, GoLocals DEF Stage, MapOps
  <1>5. OwnContext(t) /\ Following(t) /\ (Pending(t)' <=> Pending(t)) /\ (Follows(t)' <=> Follows(t))
    BY <1>1, <1>4, PendingKept, FollowsPrimed DEF PInv, Follows
  <1> HIDE DEF st
  <1>6. st \in {"io_alloc", "lookup"} /\ (st = "io_alloc" => io[t] = None)
    BY DEF st
  <1>7. OwnContext(t)'
    BY <1>1, <1>2, <1>4, <1>5, <1>6 DEF OwnContext, Gone, Making
  <1>8. Following(t)'
    BY <1>1, <1>2, <1>4, <1>5, <1>6 DEF Following, Unsettled, Gone, Making, Noticed, Updating, Scheduling, HasOwn
  <1>9. \A u \in Tasks \ {t} : SameTask(u)
    BY <1>1, <1>4 DEF SameTask, Others, Contexts
  <1> QED
    BY <1>1, <1>4, <1>7, <1>8, <1>9, OwnStep

LEMMA LookupP ==
  ASSUME TInv, PInv, UNCHANGED setup, NEW t \in Tasks, Lookup(t)
  PROVE  PInv'
  <1>1. /\ UNCHANGED <<io, ctx, obj, ioprio, asked>> /\ pc[t] = "lookup" /\ loc[t] \in LocType
        /\ io[t] # None /\ Stage(t) = "lookup"
    BY TaskTypes DEF Lookup, At, Placed, Stage, MapOps
  <1>2. OwnContext(t) /\ Following(t)
    BY DEF PInv
  <1>3. io[t] = t
    BY <1>1, <1>2 DEF OwnContext
  <1>4. CASE ctx[t] = None
    <2> DEFINE l == [loc[t] EXCEPT !.prio = SimpleMap(ioprio[t])]
    <2>1. loc' = [loc EXCEPT ![t] = l] /\ pc' = [pc EXCEPT ![t] = "init"] /\ "init" \notin MapOps
      BY <1>3, <1>4 DEF Lookup, Goto, MapOps
    <2>2. l.prio = SimpleMap(ioprio[t]) /\ l.ctx = loc[t].ctx /\ l.steady = loc[t].steady
      BY <1>1 DEF LocType
    <2> HIDE DEF l
    <2>3. Others(t) /\ Stage(t)' = "init" /\ loc'[t] = l
      BY <2>1, GoLocals
    <2>4. Pending(t)' <=> Pending(t)
      BY <2>3, PendingKept
    <2>5. Following(t)'
      BY <1>1, <1>2, <2>2, <2>3, <2>4 DEF Following, Unsettled, Busy, Making, Noticed, Updating, Scheduling
    <2> QED
      BY <1>1, <1>2, <1>4, <2>2, <2>3, <2>5, QuietStep DEF OwnContext, Gone
  <1>5. CASE ctx[t] # None
    <2> DEFINE l == [loc[t] EXCEPT !.ctx = ctx[t]]
    <2>1. loc' = [loc EXCEPT ![t] = l] /\ pc' = [pc EXCEPT ![t] = "profile"] /\ "profile" \notin MapOps
      BY <1>3, <1>5 DEF Lookup, Goto, MapOps
    <2>2. l.ctx = ctx[t] /\ l.steady = loc[t].steady
      BY <1>1 DEF LocType
    <2> HIDE DEF l
    <2>3. Others(t) /\ Stage(t)' = "profile" /\ loc'[t] = l
      BY <2>1, GoLocals
    <2>4. (Pending(t)' <=> Pending(t)) /\ (Follows(t)' <=> Follows(t)) /\ (HasOwn(t)' <=> HasOwn(t))
      BY <1>1, <2>3, PendingKept, FollowsPrimed DEF Follows, HasOwn
    <2>5. Following(t)'
      BY <1>1, <1>2, <2>2, <2>3, <2>4 DEF Following, Unsettled, Gone, Busy, Making, Noticed, Updating, Scheduling
    <2> QED
      BY <1>1, <1>2, <2>2, <2>3, <2>5, QuietStep DEF OwnContext, Making, Gone
  <1> QED
    BY <1>4, <1>5

(* A new context is scheduled for the priority the task has. *)
LEMMA InitTaskIocP ==
  ASSUME TInv, PInv, UNCHANGED setup, NEW t \in Tasks, InitTaskIoc(t)
  PROVE  PInv'
  <1>1. /\ UNCHANGED <<io, ctx, ioprio, asked>> /\ pc[t] = "init" /\ loc[t] \in LocType /\ Stage(t) = "init"
        /\ t \in Contexts
    BY TaskTypes DEF InitTaskIoc, At, Stage, MapOps
  <1>2. OwnContext(t) /\ Following(t) /\ ctx[t] = None /\ loc[t].ctx \in {t, None} /\ loc[t].prio = SimpleMap(ioprio[t])
    BY <1>1 DEF PInv, OwnContext, Following
  <1>3. obj \in [Tasks -> ObjType] /\ cpu[t] \in Cpus
    BY DEF TInv, Types, TyEnv
  <1>4. ASSUME NEW n \in GroupNqs(loc[t].prio),
               obj' = [obj EXCEPT ![t] = [NoCtx EXCEPT !.live = TRUE, !.prio = loc[t].prio, !.hctx = n]],
               IF setup.opt < 2
                 THEN Goto(t, "insert") /\ UNCHANGED loc
                 ELSE Call(t, "set", cpu[t], n, "init_end", [loc[t] EXCEPT !.pinned = TRUE, !.cpu = cpu[t]])
        PROVE  PInv'
    <2>1. /\ \A u \in Tasks \ {t} : obj'[u] = obj[u]
          /\ obj'[t].hctx = n /\ obj'[t].prio = SimpleMap(ioprio[t])
      BY <1>2, <1>3, <1>4 DEF NoCtx
    <2>2. Follows(t)'
      BY <1>1, <1>2, <1>4, <2>1, FollowsPrimed DEF SimpleMap, HasLBit, LPrio
    <2>3. Others(t) /\ loc'[t].ctx = loc[t].ctx /\ loc'[t].steady = loc[t].steady /\ Stage(t)' \in Making
      <3>1. CASE setup.opt < 2
        <4>1. pc' = [pc EXCEPT ![t] = "insert"] /\ loc' = [loc EXCEPT ![t] = loc[t]] /\ "insert" \notin MapOps
          BY <1>4, <3>1, SameLoc DEF Goto, MapOps
        <4>2. Others(t) /\ Stage(t)' = "insert" /\ loc'[t] = loc[t]
          BY <4>1, GoLocals
        <4> QED
          BY <4>2 DEF Making
      <3>2. CASE ~(setup.opt < 2)
        <4> DEFINE l == [loc[t] EXCEPT !.pinned = TRUE, !.cpu = cpu[t]]
                   m == [l EXCEPT !.mcpu = cpu[t], !.mnq = n, !.next = "init_end"]
        <4>1. pc' = [pc EXCEPT ![t] = "set"] /\ loc' = [loc EXCEPT ![t] = m]
          BY <1>4, <3>2 DEF Call, Goto
        <4>2. l \in LocType /\ l.ctx = loc[t].ctx /\ l.steady = loc[t].steady
          BY <1>1, <1>3 DEF LocType
        <4> HIDE DEF l
        <4>3. m.ctx = l.ctx /\ m.steady = l.steady /\ m.next = "init_end"
          BY <4>2 DEF LocType
        <4> HIDE DEF m
        <4>4. "set" \in MapOps /\ "init_end" \in Making
          BY DEF MapOps, Making
        <4> QED
          BY <1>1, <4>1, <4>2, <4>3, <4>4 DEF Others, Stage, TInv, Types, TyEnv
      <3> QED
        BY <3>1, <3>2
    <2>4. Pending(t)' <=> Pending(t)
      BY <2>3, PendingKept
    <2>5. Stage(t) \in Busy /\ Stage(t) \notin Gone
          /\ Stage(t)' \in Unsettled \ (Noticed \cup {"init", "io_alloc"})
      BY <1>1, <2>3 DEF Busy, Gone, Unsettled, Noticed, Making, Updating, Scheduling
    <2>6. Following(t)'
      BY <1>2, <2>2, <2>3, <2>4, <2>5 DEF Following
    <2> QED
      BY <1>1, <1>2, <2>1, <2>3, <2>5, <2>6, QuietStep
  <1>5. CASE Goto(t, "route") /\ UNCHANGED <<obj, loc>>
    <2>1. pc' = [pc EXCEPT ![t] = "route"] /\ loc' = [loc EXCEPT ![t] = loc[t]] /\ "route" \notin MapOps
      BY <1>5, SameLoc DEF Goto, MapOps
    <2>2. Others(t) /\ Stage(t)' = "route" /\ loc'[t] = loc[t]
      BY <2>1, GoLocals
    <2>3. (Pending(t)' <=> Pending(t)) /\ ~HasOwn(t)'
      BY <1>1, <1>2, <2>2, PendingKept DEF HasOwn
    <2>4. Following(t)'
      BY <1>1, <1>2, <2>2, <2>3 DEF Following, Busy, Making
    <2> QED
      BY <1>1, <1>2, <1>5, <2>2, <2>4, QuietStep DEF Making, Gone
  <1> QED
    BY <1>4, <1>5 DEF InitTaskIoc

LEMMA InsertTaskIocP ==
  ASSUME TInv, PInv, UNCHANGED setup, NEW t \in Tasks, InsertTaskIoc(t)
  PROVE  PInv'
  <1>1. /\ UNCHANGED <<io, ioprio, asked>> /\ pc[t] = "insert" /\ loc[t] \in LocType /\ Stage(t) = "insert"
        /\ io[t] # None /\ t # None
    BY TaskTypes, DeviceFacts DEF InsertTaskIoc, At, Placed, Stage, MapOps, Making, TInv, Types, TyEnv
  <1>2. OwnContext(t) /\ Following(t) /\ ctx[t] = None /\ Follows(t) /\ io[t] = t
    BY <1>1 DEF PInv, OwnContext, Following, Making
  <1>3. ctx \in [Tasks -> Tasks \cup {None}] /\ obj \in [Tasks -> ObjType]
    BY DEF TInv, Types, TyEnv
  <1>4. CASE ctx' = [ctx EXCEPT ![t] = t] /\ loc' = [loc EXCEPT ![t].ctx = t] /\ Goto(t, "profile") /\ UNCHANGED obj
    <2> DEFINE l == [loc[t] EXCEPT !.ctx = t]
    <2>1. loc' = [loc EXCEPT ![t] = l] /\ pc' = [pc EXCEPT ![t] = "profile"] /\ "profile" \notin MapOps
      BY <1>4 DEF Goto, MapOps
    <2>2. l.ctx = t /\ l.steady = loc[t].steady
      BY <1>1 DEF LocType
    <2> HIDE DEF l
    <2>3. Others(t) /\ Stage(t)' = "profile" /\ loc'[t] = l
      BY <2>1, GoLocals
    <2>4. (Pending(t)' <=> Pending(t)) /\ (Follows(t)' <=> Follows(t))
      BY <1>1, <1>4, <2>3, PendingKept, FollowsPrimed DEF Follows
    <2>5. ctx'[t] = t /\ \A u \in Tasks \ {t} : ctx'[u] = ctx[u]
      BY <1>3, <1>4
    <2>6. Following(t)'
      BY <1>1, <1>2, <2>2, <2>3, <2>4 DEF Following, Busy, Making, Noticed, Updating, Scheduling, Profiling
    <2>7. OwnContext(t)'
      BY <1>1, <1>2, <2>2, <2>3, <2>5 DEF OwnContext, Making
    <2>8. \A u \in Tasks \ {t} : SameTask(u)
      BY <1>1, <1>4, <2>3, <2>5 DEF SameTask, Others, Contexts
    <2> QED
      BY <1>2, <2>3, <2>5, <2>6, <2>7, <2>8, OwnStep
  <1>5. CASE obj' = [obj EXCEPT ![t].live = FALSE] /\ Goto(t, "route") /\ UNCHANGED <<ctx, loc>>
    <2>1. pc' = [pc EXCEPT ![t] = "route"] /\ loc' = [loc EXCEPT ![t] = loc[t]] /\ "route" \notin MapOps
      BY <1>5, SameLoc DEF Goto, MapOps
    <2>2. Others(t) /\ Stage(t)' = "route" /\ loc'[t] = loc[t]
      BY <2>1, GoLocals
    <2>3. (Pending(t)' <=> Pending(t)) /\ ~HasOwn(t)'
      BY <1>2, <1>5, <2>2, PendingKept DEF HasOwn
    <2>4. Following(t)'
      BY <1>1, <1>2, <2>2, <2>3 DEF Following, Busy, Making
    <2>5. \A u \in Tasks \ {t} : obj'[u] = obj[u]
      BY <1>3, <1>5
    <2> QED
      BY <1>1, <1>2, <1>5, <2>2, <2>4, <2>5, QuietStep DEF OwnContext, Making, Gone
  <1> QED
    BY <1>2, <1>4, <1>5 DEF InsertTaskIoc

(* The notice is taken, and if there was none the default NQ is right. *)
LEMMA TakeNoticeP ==
  ASSUME TInv, PInv, UNCHANGED setup, NEW t \in Tasks, TakeNotice(t)
  PROVE  PInv'
  <1>1. /\ UNCHANGED <<io, ctx, ioprio, asked, loc>> /\ pc[t] = "notice" /\ Stage(t) = "notice"
        /\ loc[t].ctx \in Tasks /\ loc[t].ctx # None
    BY Working DEF TakeNotice, At, Stage, MapOps, Profiling
  <1>2. OwnContext(t) /\ Following(t) /\ loc[t].ctx = t
    BY <1>1 DEF PInv, OwnContext
  <1>3. obj \in [Tasks -> ObjType]
    BY DEF TInv, Types
  <1>4. /\ obj' = [obj EXCEPT ![t] = [obj[t] EXCEPT !.need = FALSE]]
        /\ pc' = [pc EXCEPT ![t] = IF obj[t].need THEN "resched" ELSE "outlier"]
    BY <1>2 DEF TakeNotice, Goto
  <1>5. /\ \A u \in Tasks \ {t} : obj'[u] = obj[u]
        /\ ~obj'[t].need /\ obj'[t].hctx = obj[t].hctx /\ obj'[t].prio = obj[t].prio
    BY <1>3, <1>4 DEF ObjType
  <1>6. loc' = [loc EXCEPT ![t] = loc[t]] /\ "resched" \notin MapOps /\ "outlier" \notin MapOps
    BY <1>1, SameLoc DEF MapOps
  <1>7. Others(t) /\ Stage(t)' = IF obj[t].need THEN "resched" ELSE "outlier"
    BY <1>4, <1>6, GoLocals
  <1>8. (Pending(t)' <=> Pending(t)) /\ (Follows(t)' <=> Follows(t)) /\ (HasOwn(t)' <=> HasOwn(t))
    BY <1>1, <1>5, <1>7, PendingKept, FollowsPrimed DEF Follows, HasOwn
  <1>9. Following(t)'
    <2>1. CASE obj[t].need
      BY <1>1, <1>2, <1>5, <1>7, <1>8, <2>1 DEF Following, Unsettled, Busy, Making, Profiling
    <2>2. CASE ~obj[t].need
      BY <1>1, <1>2, <1>5, <1>7, <1>8, <2>2 DEF Following, Unsettled, Gone, Busy, Making, Profiling, Updating, Scheduling
    <2> QED
      BY <2>1, <2>2
  <1> QED
    BY <1>1, <1>2, <1>5, <1>7, <1>9, QuietStep DEF Making, Gone

(* A task that starts to change NQs does so for its class, or for outliers *)
(* with its default NQ as it should be.                                    *)
LEMMA SchedUpdateP ==
  ASSUME TInv, PInv, UNCHANGED setup, UNCHANGED <<io, ctx, ioprio, asked, obj>>, NEW t \in Tasks, 
         pc[t] \in {"resched", "outlier"}, NEW prio \in Prios, NEW new, SchedUpdate(t, prio, new),
         \/ new = prio /\ prio = SimpleMap(ioprio[t])
         \/ pc[t] = "outlier" /\ new = OutlierPrio
  PROVE  PInv'
  <1>1. /\ loc[t] \in LocType /\ t \in Contexts /\ Stage(t) = pc[t] /\ loc[t].ctx = t /\ t # None
    BY Working DEF PInv, OwnContext, Stage, MapOps, Profiling
  <1>2. OwnContext(t) /\ Following(t)
    BY DEF PInv
  <1> DEFINE old == obj[loc[t].ctx].hctx
             k == [loc[t] EXCEPT !.prio = new, !.old = old]
  <1>2a. k.prio = new /\ k.ctx = t /\ k.steady = loc[t].steady
    BY <1>1 DEF LocType
  <1>3. PICK right \in Allright(prio, old) :
          \/ /\ pc' = [pc EXCEPT ![t] = "assign"]
             /\ \E n \in IF right THEN {old} ELSE GroupNqs(prio) : loc' = [loc EXCEPT ![t] = [k EXCEPT !.nq = n]]
          \/ pc' = [pc EXCEPT ![t] = "recommend"] /\ loc' = [loc EXCEPT ![t] = k]
    BY DEF SchedUpdate, Goto
  <1>4. right => old \in GroupNqs(prio)
    BY <1>3 DEF Allright
  <1>5. \/ \E n \in GroupNqs(prio) : pc' = [pc EXCEPT ![t] = "assign"] /\ loc' = [loc EXCEPT ![t] = [k EXCEPT !.nq = n]]
        \/ pc' = [pc EXCEPT ![t] = "recommend"] /\ loc' = [loc EXCEPT ![t] = k]
    BY <1>3, <1>4
  <1>6. /\ DOMAIN k = DOMAIN loc[t]
        /\ \A n : LET l == [k EXCEPT !.nq = n] IN l.prio = k.prio /\ l.ctx = k.ctx /\ l.steady = k.steady /\ l.nq = n
    BY <1>1 DEF LocType
  <1> HIDE DEF k
  <1>8. /\ Others(t) /\ Stage(t)' \in {"assign", "recommend"}
        /\ loc'[t].prio = new /\ loc'[t].ctx = t /\ loc'[t].steady = loc[t].steady
        /\ Stage(t)' = "assign" => loc'[t].nq \in GroupNqs(prio)
    <2>1. {"assign", "recommend"} \cap MapOps = {}
      BY DEF MapOps
    <2>2. CASE pc' = [pc EXCEPT ![t] = "recommend"] /\ loc' = [loc EXCEPT ![t] = k]
      <3>1. Others(t) /\ Stage(t)' = "recommend" /\ loc'[t] = k
        BY <2>1, <2>2, GoLocals
      <3> QED
        BY <1>2a, <3>1
    <2>3. ASSUME NEW n \in GroupNqs(prio), pc' = [pc EXCEPT ![t] = "assign"],
                 loc' = [loc EXCEPT ![t] = [k EXCEPT !.nq = n]]
          PROVE  /\ Others(t) /\ Stage(t)' = "assign" /\ loc'[t].prio = new /\ loc'[t].ctx = t
                 /\ loc'[t].steady = loc[t].steady /\ loc'[t].nq = n
      <3> DEFINE l == [k EXCEPT !.nq = n]
      <3>1. l.prio = new /\ l.ctx = t /\ l.steady = loc[t].steady /\ l.nq = n
        BY <1>2a, <1>6
      <3> HIDE DEF l
      <3>2. loc' = [loc EXCEPT ![t] = l]
        BY <2>3 DEF l
      <3>3. Others(t) /\ Stage(t)' = "assign" /\ loc'[t] = l
        BY <2>1, <2>3, <3>2, GoLocals
      <3> QED
        BY <3>1, <3>3
    <2> QED
      BY <1>5, <2>2, <2>3
  <1>9. (Pending(t)' <=> Pending(t)) /\ (Follows(t)' <=> Follows(t)) /\ (HasOwn(t)' <=> HasOwn(t))
    BY <1>8, PendingKept, FollowsPrimed DEF Follows, HasOwn
  <1>10. Stage(t)' \in Updating /\ Stage(t)' \in Noticed /\ Stage(t) \in Noticed /\ Stage(t) \in Busy
         /\ Stage(t)' \notin {"init", "io_alloc"} \cup Making /\ Stage(t) \notin Gone /\ Stage(t) \notin Updating
    BY <1>1, <1>8 DEF Updating, Scheduling, Noticed, Busy, Profiling, Making, Gone
  <1>11. new # OutlierPrio => WillFollow(t)'
    BY <1>8, FollowsPrimed
  <1>12. new = OutlierPrio => pc[t] = "outlier" /\ Stage(t) \notin Unsettled
    BY <1>1 DEF SimpleMap, LPrio, TPrio, OutlierPrio, Unsettled, Making, Gone
  <1>13. Following(t)'
    BY <1>2, <1>8, <1>9, <1>10, <1>11, <1>12 DEF Following
  <1> QED
    BY <1>8, <1>10, <1>13, QuietStep

LEMMA RescheduleP ==
  ASSUME TInv, PInv, UNCHANGED setup, NEW t \in Tasks, Reschedule(t)
  PROVE  PInv'
  <1> DEFINE new == MapIoprio(loc[t].ctx, ioprio[io[t]])
  <1>1. /\ UNCHANGED <<io, ctx, ioprio, asked, obj>> /\ pc[t] = "resched" /\ loc[t] \in LocType /\ Stage(t) = "resched"
        /\ io[t] # None
    BY Working DEF Reschedule, At, Stage, MapOps, Profiling
  <1>2. OwnContext(t) /\ Following(t) /\ io[t] = t
    BY <1>1 DEF PInv, OwnContext
  <1>3. CASE new \in Prios
    <2>1. SchedUpdate(t, new, new)
      BY <1>3 DEF Reschedule
    <2>2. new = SimpleMap(ioprio[t])
      BY <1>2, <1>3, MapIoprioType DEF Prios, PrioLevel, OutlierPrio
    <2> HIDE DEF new
    <2> QED
      BY <1>1, <1>3, <2>1, <2>2, SchedUpdateP
  <1>4. CASE new \notin Prios
    <2> DEFINE l == [loc[t] EXCEPT !.prio = new]
    <2>1. pc' = [pc EXCEPT ![t] = "oops"] /\ loc' = [loc EXCEPT ![t] = l] /\ "oops" \notin MapOps
      BY <1>4 DEF Reschedule, Oops, Goto, MapOps
    <2> HIDE DEF new
    <2>2. l.ctx = loc[t].ctx
      BY <1>1 DEF LocType
    <2> HIDE DEF l
    <2>3. Others(t) /\ Stage(t)' = "oops" /\ loc'[t] = l
      BY <2>1, GoLocals
    <2>4. Following(t)'
      BY <2>3 DEF Following, Busy, Making, Profiling, Noticed, Updating, Scheduling, Unsettled
    <2> QED
      BY <1>1, <1>2, <2>2, <2>3, <2>4, QuietStep DEF OwnContext, Making, Gone
  <1> QED
    BY <1>3, <1>4

(* An NQ of the group is recommended, whatever the priority is meanwhile. *)
LEMMA RecommendP ==
  ASSUME TInv, PInv, UNCHANGED setup, NEW t \in Tasks, Recommend(t)
  PROVE  PInv'
  <1>1. /\ UNCHANGED <<io, ctx, ioprio, asked, obj>> /\ pc[t] = "recommend" /\ Stage(t) = "recommend"
        /\ loc[t] \in LocType /\ t \in Contexts /\ loc[t].ctx \in Tasks /\ loc[t].ctx # None
    BY Working DEF Recommend, At, Stage, MapOps, Profiling
  <1>2. OwnContext(t) /\ Following(t) /\ loc[t].ctx = t
    BY <1>1 DEF PInv, OwnContext
  <1>3. PICK n \in GroupNqs(GroupPrio(loc[t].prio)) :
          \/ \E s \in {"assign", "pin"} :
               pc' = [pc EXCEPT ![t] = s] /\ loc' = [loc EXCEPT ![t] = [loc[t] EXCEPT !.nq = n]]
          \/ Call(t, "clear", obj[[loc[t] EXCEPT !.nq = n].ctx].last, [loc[t] EXCEPT !.nq = n].old, "pin",
                  [loc[t] EXCEPT !.nq = n])
    BY DEF Recommend, Goto, GroupPrio
  <1> DEFINE l == [loc[t] EXCEPT !.nq = n]
             m == [l EXCEPT !.mcpu = obj[l.ctx].last, !.mnq = l.old, !.next = "pin"]
  <1>4. /\ l.prio = loc[t].prio /\ l.nq = n /\ l.ctx = t /\ l.steady = loc[t].steady
        /\ m.prio = l.prio /\ m.nq = l.nq /\ m.ctx = l.ctx /\ m.steady = l.steady /\ m.next = "pin"
    BY <1>1, <1>2 DEF LocType
  <1>5. \/ \E s \in {"assign", "pin"} : pc' = [pc EXCEPT ![t] = s] /\ loc' = [loc EXCEPT ![t] = l]
        \/ pc' = [pc EXCEPT ![t] = "clear"] /\ loc' = [loc EXCEPT ![t] = m]
    BY <1>3 DEF Call, Goto
  <1> HIDE DEF l, m
  <1>6. /\ Others(t) /\ Stage(t)' \in {"assign", "pin"}
        /\ loc'[t].prio = loc[t].prio /\ loc'[t].nq = n /\ loc'[t].ctx = t /\ loc'[t].steady = loc[t].steady
    <2>1. {"assign", "pin"} \cap MapOps = {} /\ "clear" \in MapOps
      BY DEF MapOps
    <2> QED
      BY <1>1, <1>4, <1>5, <2>1 DEF Others, Stage, TInv, Types, TyEnv
  <1>7. (Pending(t)' <=> Pending(t)) /\ (Follows(t)' <=> Follows(t)) /\ (HasOwn(t)' <=> HasOwn(t))
    BY <1>1, <1>6, PendingKept, FollowsPrimed DEF Follows, HasOwn
  <1>8. /\ Stage(t) \in Updating /\ Stage(t) \in Noticed /\ Stage(t) \in Busy /\ Stage(t) \notin Unsettled
        /\ Stage(t) \notin Gone /\ Stage(t)' \in Updating /\ Stage(t)' \notin {"init", "io_alloc"} \cup Making
    BY <1>1, <1>6 DEF Updating, Scheduling, Noticed, Busy, Profiling, Unsettled, Gone, Making
  <1>9. loc[t].prio # OutlierPrio /\ WillFollow(t) => WillFollow(t)'
    BY <1>1, <1>3, <1>6, FollowsPrimed DEF WillFollow, GroupPrio
  <1>10. Following(t)'
    BY <1>1, <1>2, <1>6, <1>7, <1>8, <1>9 DEF Following
  <1> QED
    BY <1>1, <1>6, <1>8, <1>10, QuietStep

LEMMA LBits ==
  HasLBit(OutlierPrio) /\ HasLBit(SimpleMap("rt")) /\ \A class \in {"rt", "be"} : HasLBit(SimpleMap(class)) <=> class = "rt"
  BY DEF HasLBit, OutlierPrio, SimpleMap, LPrio, TPrio

LEMMA AssignP ==
  ASSUME TInv, PInv, UNCHANGED setup, NEW t \in Tasks, Assign(t)
  PROVE  PInv'
  <1>1. /\ UNCHANGED <<io, ctx, ioprio, asked, loc>> /\ pc[t] = "assign" /\ Stage(t) = "assign"
        /\ loc[t].ctx \in Tasks /\ loc[t].ctx # None
    BY Working DEF Assign, At, Stage, MapOps, Profiling
  <1>2. OwnContext(t) /\ Following(t) /\ loc[t].ctx = t
    BY <1>1 DEF PInv, OwnContext
  <1>3. obj \in [Tasks -> ObjType]
    BY DEF TInv, Types
  <1>4. PICK s \in {"route", "outlier"} : pc' = [pc EXCEPT ![t] = s]
    BY DEF Assign, Goto
  <1>5. loc' = [loc EXCEPT ![t] = loc[t]] /\ s \notin MapOps
    BY <1>1, SameLoc DEF MapOps
  <1>6. Others(t) /\ Stage(t)' = s
    BY <1>4, <1>5, GoLocals
  <1>7. /\ \A u \in Tasks \ {t} : obj'[u] = obj[u]
        /\ obj'[t].need = obj[t].need /\ obj'[t].prio = loc[t].prio
        /\ obj'[t].hctx = IF loc[t].prio = OutlierPrio THEN obj[t].hctx ELSE loc[t].nq
    <2>1. CASE loc[t].prio = OutlierPrio
      BY <1>2, <1>3, <2>1 DEF Assign, ObjType
    <2>2. CASE loc[t].prio # OutlierPrio
      BY <1>2, <1>3, <2>2 DEF Assign, ObjType
    <2> QED
      BY <2>1, <2>2
  <1>8. (Pending(t)' <=> Pending(t)) /\ (HasOwn(t)' <=> HasOwn(t))
    BY <1>1, <1>6, PendingKept DEF HasOwn
  <1>9. (IF loc[t].prio # OutlierPrio THEN WillFollow(t) ELSE Follows(t)) => Follows(t)'
    BY <1>1, <1>7, FollowsPrimed, LBits DEF Follows, WillFollow
  <1>10. /\ Stage(t) \in Updating /\ Stage(t) \in Noticed /\ Stage(t) \in Busy /\ Stage(t) \notin Unsettled /\ Stage(t) \notin Gone
         /\ Stage(t)' \notin Updating /\ Stage(t)' \notin {"init", "io_alloc"} \cup Making
    BY <1>1, <1>6 DEF Updating, Scheduling, Noticed, Busy, Profiling, Unsettled, Gone, Making
  <1>11. Following(t)'
    BY <1>1, <1>2, <1>7, <1>8, <1>9, <1>10 DEF Following
  <1> QED
    BY <1>1, <1>2, <1>6, <1>7, <1>10, <1>11, QuietStep

LEMMA OutlierP ==
  ASSUME TInv, PInv, UNCHANGED setup, NEW t \in Tasks, Outlier(t)
  PROVE  PInv'
  <1> DEFINE o == loc[t].ctx
             new == MapIoprio(o, ioprio[io[t]])
  <1>1. /\ UNCHANGED <<io, ctx, ioprio, asked>> /\ pc[t] = "outlier" /\ Stage(t) = "outlier"
        /\ o \in Tasks /\ o # None /\ io[t] # None
    BY Working DEF Outlier, At, Stage, MapOps, Profiling
  <1>2. OwnContext(t) /\ Following(t) /\ o = t /\ io[t] = t
    BY <1>1 DEF PInv, OwnContext
  <1>3. obj \in [Tasks -> ObjType] /\ ioprio[t] \in {"rt", "be"}
    BY DEF TInv, Types, TyEnv
  <1>4. CASE SchedUpdate(t, LPrio, OutlierPrio) /\ UNCHANGED obj
    <2>1. LPrio \in Prios
      BY DEF LPrio, Prios, PrioLevel
    <2> QED
      BY <1>1, <1>4, <2>1, SchedUpdateP
  <1>5. CASE /\ Goto(t, "route") /\ UNCHANGED loc
             /\ \/ UNCHANGED obj
                \/ obj' = [obj EXCEPT ![o].prio = new, ![o].sync = 0, ![o].async = 0,
                             ![o].outlier = IF new # OutlierPrio /\ obj[o].prio = OutlierPrio THEN None ELSE @]
    <2>1. pc' = [pc EXCEPT ![t] = "route"] /\ loc' = [loc EXCEPT ![t] = loc[t]] /\ "route" \notin MapOps
      BY <1>5, SameLoc DEF Goto, MapOps
    <2>2. Others(t) /\ Stage(t)' = "route" /\ loc'[t] = loc[t]
      BY <2>1, GoLocals
    <2>3. new \in {OutlierPrio, SimpleMap(ioprio[t])}
      BY <1>2, MapIoprioType
    <2>4. /\ \A u \in Tasks \ {t} : obj'[u] = obj[u]
          /\ obj'[t].need = obj[t].need /\ obj'[t].hctx = obj[t].hctx
          /\ obj'[t].prio \in {obj[t].prio, new}
      <3> HIDE DEF new
      <3> QED
        BY <1>2, <1>3, <1>5 DEF ObjType
    <2> HIDE DEF new, o
    <2>5. (Pending(t)' <=> Pending(t)) /\ (HasOwn(t)' <=> HasOwn(t))
      BY <1>1, <2>2, PendingKept DEF HasOwn
    <2>6. Follows(t) => Follows(t)'
      BY <1>1, <1>3, <2>3, <2>4, FollowsPrimed, LBits DEF Follows
    <2>7. Following(t)'
      BY <1>1, <1>2, <2>2, <2>4, <2>5, <2>6 DEF Following, Unsettled, Gone, Busy, Making, Profiling, Noticed, Updating, Scheduling
    <2> QED
      BY <1>1, <1>2, <2>2, <2>4, <2>7, QuietStep DEF Making, Gone, o
  <1> QED
    BY <1>4, <1>5 DEF Outlier

(* Sending a request, or waiting for its tag, leaves all this alone. *)
LEMMA SendP ==
  ASSUME TInv, PInv, UNCHANGED setup, NEW t \in Tasks, Send(t)
  PROVE  PInv'
  <1>1. UNCHANGED <<io, ctx, ioprio, asked, obj>>
    BY DEF Send, NoRequest, TakeCached, Route, GetTag, Unplug
  <1>2. OwnContext(t) /\ Following(t)
    BY DEF PInv
  <1>3. CASE Unplug(t)
    <2>1. UNCHANGED <<pc, loc>>
      BY <1>3 DEF Unplug
    <2>2. Stage(t)' = Stage(t)
      BY <2>1 DEF Stage
    <2> QED
      BY <1>1, <2>1, <2>2, AlikePlaces, AlikeStep DEF Others, SamePattern, SameNq
  <1>4. CASE NoRequest(t) \/ TakeCached(t) \/ Route(t) \/ GetTag(t)
    <2>1. pc[t] \in {"route", "tag"} /\ Stage(t) = pc[t]
      BY <1>4 DEF NoRequest, TakeCached, Route, GetTag, At, Stage, MapOps
    <2>2. PICK s \in {"oops", "idle", "tag"} : pc' = [pc EXCEPT ![t] = s]
      BY <1>4, GetFacts DEF NoRequest, TakeCached, Route, GetTag, Oops, Finish, Goto
    <2>3. PICK l \in {loc[t], NoLoc} : loc' = [loc EXCEPT ![t] = l]
      <3>1. Finish(t) \/ UNCHANGED loc
        BY <1>4, GetFacts DEF NoRequest, TakeCached, Route, GetTag
      <3> QED
        BY <3>1, SameLoc DEF Finish
    <2>4. Others(t) /\ Stage(t)' = s /\ loc'[t] = l
      BY <2>2, <2>3, GoLocals DEF MapOps
    <2>5. l.ctx \in {t, None}
      BY <1>2, <2>3 DEF OwnContext, NoLoc
    <2>6. (Pending(t)' <=> Pending(t)) /\ (Follows(t)' <=> Follows(t)) /\ (HasOwn(t)' <=> HasOwn(t))
      BY <1>1, <2>4, PendingKept, FollowsPrimed DEF Follows, HasOwn
    <2>7. Following(t)'
      BY <1>1, <1>2, <2>1, <2>4, <2>6
         DEF Following, Unsettled, Gone, Busy, Making, Profiling, Noticed, Updating, Scheduling
    <2> QED
      BY <1>1, <2>1, <2>4, <2>5, <2>7, QuietStep DEF Making, Gone
  <1> QED
    BY <1>3, <1>4 DEF Send

LEMMA ExitP ==
  ASSUME TInv, PInv, UNCHANGED setup, NEW t \in Tasks, Exit(t)
  PROVE  PInv'
  <1>1. /\ UNCHANGED <<ctx, obj, ioprio, asked>> /\ pc[t] = "idle" /\ io' = [io EXCEPT ![t] = None]
        /\ t \in Contexts
    BY DEF Exit, At, Contexts
  <1>2. io \in [Tasks -> Tasks \cup {None}]
    BY DEF TInv, Types, TyEnv
  <1>3. OwnContext(t) /\ Following(t)
    BY DEF PInv
  <1>4. Others(t) /\ Stage(t)' \in Gone /\ loc'[t].ctx \in {t, None}
    <2>1. CASE Goto(t, "dead") /\ UNCHANGED loc
      <3>1. pc' = [pc EXCEPT ![t] = "dead"] /\ loc' = [loc EXCEPT ![t] = loc[t]] /\ "dead" \notin MapOps
        BY <2>1, SameLoc DEF Goto, MapOps
      <3>2. Others(t) /\ Stage(t)' = "dead" /\ loc'[t] = loc[t]
        BY <3>1, GoLocals
      <3> QED
        BY <1>3, <3>2 DEF OwnContext, Gone
    <2>2. CASE /\ HasContext(io[t])
               /\ Call(t, "clear", obj[ctx[io[t]]].last, obj[ctx[io[t]]].hctx, "free", [NoLoc EXCEPT !.ctx = ctx[io[t]]])
      <3>1. ctx[io[t]] = t
        BY <1>3, <2>2 DEF OwnContext, HasContext
      <3> DEFINE a == [NoLoc EXCEPT !.ctx = t]
                 l == [a EXCEPT !.mcpu = obj[t].last, !.mnq = obj[t].hctx, !.next = "free"]
      <3>2. pc' = [pc EXCEPT ![t] = "clear"] /\ loc' = [loc EXCEPT ![t] = l]
        BY <2>2, <3>1 DEF Call, Goto
      <3>3. l.ctx = t /\ l.next = "free"
        BY DEF NoLoc
      <3> HIDE DEF l
      <3> QED
        BY <1>1, <3>2, <3>3 DEF Others, Stage, MapOps, Gone, TInv, Types, TyEnv
    <2> QED
      BY <2>1, <2>2 DEF Exit
  <1>5. ~HasOwn(t)'
    BY <1>1, <1>2 DEF HasOwn
  <1>6. Stage(t)' \notin {"init", "io_alloc"} \cup Making \cup Busy
    BY <1>4 DEF Gone, Making, Busy, Profiling
  <1>7. OwnContext(t)'
    BY <1>1, <1>2, <1>3, <1>4, <1>6 DEF OwnContext
  <1>8. Following(t)'
    BY <1>5, <1>6 DEF Following
  <1>9. \A u \in Tasks \ {t} : SameTask(u)
    BY <1>1, <1>2, <1>4 DEF SameTask, Others, Contexts
  <1> QED
    BY <1>1, <1>4, <1>7, <1>8, <1>9, OwnStep

LEMMA FreeTaskIocP ==
  ASSUME TInv, PInv, UNCHANGED setup, NEW t \in Tasks, FreeTaskIoc(t)
  PROVE  PInv'
  <1>1. /\ UNCHANGED <<io, ctx, ioprio, asked>> /\ pc[t] = "free" /\ Stage(t) = "free"
        /\ pc' = [pc EXCEPT ![t] = "dead"] /\ loc' = [loc EXCEPT ![t] = NoLoc] /\ "dead" \notin MapOps
    BY DEF FreeTaskIoc, At, Goto, Stage, MapOps
  <1>2. Others(t) /\ Stage(t)' = "dead" /\ loc'[t] = NoLoc
    BY <1>1, GoLocals
  <1>3. obj \in [Tasks -> ObjType] /\ OwnContext(t) /\ loc[t].ctx = t
    BY <1>1, TaskTypes DEF TInv, Types, PInv, OwnContext, Placed
  <1>4. \A u \in Tasks \ {t} : obj'[u] = obj[u]
    BY <1>3 DEF FreeTaskIoc
  <1>5. Following(t)'
    BY <1>2 DEF Following, Unsettled, Gone, Busy, Making, Profiling, Noticed, Updating, Scheduling
  <1>6. \A u \in Tasks \ {t} : SameTask(u)
    BY <1>1, <1>2, <1>4 DEF SameTask, Others, Contexts
  <1>7. OwnContext(t)'
    BY <1>1, <1>2, <1>3 DEF OwnContext, NoLoc, Gone, Making
  <1> QED
    BY <1>1, <1>2, <1>5, <1>6, <1>7, OwnStep

(* Only tasks without an io_context allocate one, and nobody else does.    *)
LEMMA IoAllocP ==
  ASSUME TInv, PInv, UNCHANGED setup, NEW t \in Contexts, IoAlloc(t)
  PROVE  PInv'
  <1>1. UNCHANGED <<ctx, obj>> /\ pc[t] = "io_alloc" /\ Stage(t) = "io_alloc"
    BY DEF IoAlloc, At, Stage, MapOps
  <1>2. t \in Tasks /\ t # None
    BY <1>1, DeviceFacts DEF Contexts, PInv, SetterOwn, TInv, Types, TyEnv
  <1>3. OwnContext(t) /\ Following(t) /\ loc[t].target = t
    BY <1>1, <1>2 DEF PInv, TInv, Placed
  <1>4. /\ io[t] = None /\ ioprio[t] = "be" /\ ctx[t] = None /\ loc[t].class = "be" /\ asked[t] = "be"
    BY <1>1, <1>3 DEF OwnContext, Gone
  <1>5. io \in [Tasks -> Tasks \cup {None}] /\ ioprio \in [Tasks -> {"rt", "be"}] /\ loc \in [Contexts -> LocType]
    BY DEF TInv, Types, TyEnv
  <1>6. PICK s \in {"lookup", "route"} : pc' = [pc EXCEPT ![t] = s] /\ (s = "lookup" => io'[t] = t)
    BY <1>1, <1>2, <1>3, <1>4, <1>5 DEF IoAlloc, Goto
  <1>7. loc' = [loc EXCEPT ![t] = loc[t]]
    BY <1>2, <1>3, <1>5 DEF IoAlloc
  <1>8. Others(t) /\ Stage(t)' = s /\ loc'[t] = loc[t]
    BY <1>2, <1>6, <1>7, GoLocals DEF MapOps
  <1>9. UNCHANGED <<ioprio, asked>> /\ \A u \in Tasks : io'[u] = io[u] \/ (u = t /\ io'[u] = t)
    BY <1>2, <1>3, <1>4, <1>5 DEF IoAlloc
  <1>10. ~HasOwn(t)' /\ (Pending(t)' <=> Pending(t))
    BY <1>1, <1>2, <1>4, <1>8, PendingKept DEF HasOwn
  <1>11. Following(t)'
    BY <1>1, <1>3, <1>8, <1>10 DEF Following, Busy, Making
  <1>12. OwnContext(t)'
    <2>1. io'[t] \in {t, None} /\ ctx'[t] = None /\ loc'[t].ctx \in {t, None} /\ asked'[t] = "be" /\ ioprio'[t] = "be"
      BY <1>1, <1>2, <1>3, <1>4, <1>8, <1>9 DEF OwnContext
    <2>2. Stage(t)' # "io_alloc"
      BY <1>8
    <2> QED
      BY <2>1, <2>2 DEF OwnContext
  <1>13. \A u \in Tasks \ {t} : SameTask(u)
    BY <1>1, <1>8, <1>9 DEF SameTask, Others, Contexts
  <1> QED
    BY <1>1, <1>2, <1>8, <1>11, <1>12, <1>13, OwnStep

(* A change of priority is pending until the context is told. *)
LEMMA SetIoprioP ==
  ASSUME TInv, PInv, UNCHANGED setup, NEW s \in Setters, NEW t \in Tasks, NEW class,
         SetIoprio(s, t, class) \/ SetIoprioNew(s, t, class)
  PROVE  PInv'
  <1>1. SetIoprio(s, t, class)
    BY DEF PInv, Own, SetIoprioNew
  <1>2. s \in Contexts /\ s \notin Tasks /\ pc \in [Contexts -> Labels] /\ loc \in [Contexts -> LocType]
        /\ Tasks \cap Setters = {}
    BY DeviceFacts DEF TInv, Types, TyEnv, Contexts
  <1>3. /\ UNCHANGED <<io, ctx, obj>> /\ io[t] # None /\ pc[s] = "idle"
        /\ ioprio' = [ioprio EXCEPT ![io[t]] = class] /\ asked' = [asked EXCEPT ![io[t]] = class]
        /\ loc' = [Unsteady(io[t]) EXCEPT ![s].target = t]
        /\ pc' = [pc EXCEPT ![s] = IF ioprio[io[t]] = class THEN "idle" ELSE "notify"]
        /\ ctx[io[t]] # None
    BY <1>1 DEF SetIoprio, Goto, PInv, Own, HasContext
  <1>4. \A u \in Tasks : OwnContext(u) /\ Following(u)
    BY DEF PInv
  <1>5. io[t] = t /\ ctx[t] # None /\ \A u \in Tasks \ {t} : io[u] # t
    BY <1>3, <1>4 DEF OwnContext
  <1>6. /\ ioprio'[t] = class /\ asked'[t] = class
        /\ \A u \in Tasks \ {t} : ioprio'[u] = ioprio[u] /\ asked'[u] = asked[u]
        /\ class = ioprio[t] => ioprio'[t] = ioprio[t]
    BY <1>3, <1>5 DEF TInv, Types, TyEnv
  <1> DEFINE U == Unsteady(t)
  <1>7. U \in [Contexts -> LocType] /\ \A c \in Setters : U[c] = loc[c]
    BY UnsteadyType
  <1>8. /\ \A u \in Tasks \ {t} : U[u] = loc[u]
        /\ U[t] = [loc[t] EXCEPT !.steady = FALSE]
    BY <1>5 DEF Unsteady, Contexts
  <1> HIDE DEF U
  <1>9. loc' = [U EXCEPT ![s] = [U[s] EXCEPT !.target = t]]
    BY <1>3, <1>5 DEF U
  <1>10. loc'[s].target = t
    <2>1. U[s] \in LocType
      BY <1>2, <1>7
    <2>2. [U[s] EXCEPT !.target = t].target = t
      BY <2>1 DEF LocType
    <2> QED
      BY <1>2, <1>7, <1>9, <2>2
  <1>11. /\ \A u \in Tasks \ {t} : loc'[u] = loc[u]
         /\ loc'[t] = [loc[t] EXCEPT !.steady = FALSE]
         /\ \A c \in Setters \ {s} : loc'[c] = loc[c]
    BY <1>2, <1>7, <1>8, <1>9 DEF Contexts
  <1>12. /\ \A c \in Contexts \ {s} : pc'[c] = pc[c]
         /\ pc'[s] = IF ioprio[t] = class THEN "idle" ELSE "notify"
    BY <1>2, <1>3, <1>5
  <1>13. \A u \in Tasks \ {t} : Pending(u)' <=> Pending(u)
    BY <1>3, <1>10, <1>11, <1>12 DEF Pending, Contexts
  <1>14. Pending(t)' <=> (Pending(t) \/ ioprio[t] # class)
    BY <1>3, <1>10, <1>11, <1>12 DEF Pending, Contexts
  <1>15. \A u \in Tasks \ {t} : OwnContext(u)' /\ Following(u)'
    <2> TAKE u \in Tasks \ {t}
    <2>1. SameTask(u)
      BY <1>2, <1>3, <1>6, <1>11, <1>12 DEF SameTask, Contexts
    <2> QED
      BY <1>4, <1>13, <2>1, OwnFrame
  <1>16. /\ loc'[t].prio = loc[t].prio /\ loc'[t].nq = loc[t].nq /\ loc'[t].ctx = loc[t].ctx
         /\ loc'[t].class = loc[t].class /\ loc'[t].steady = FALSE /\ loc'[t].next = loc[t].next
    <2>1. loc[t] \in LocType
      BY TaskTypes
    <2> QED
      BY <1>11, <2>1 DEF LocType
  <1>17. Stage(t)' = Stage(t)
    BY <1>2, <1>12, <1>16 DEF Stage, Contexts
  <1>18. OwnContext(t)'
    BY <1>3, <1>4, <1>5, <1>6, <1>16, <1>17 DEF OwnContext
  <1>19. Following(t)'
    <2>1. Stage(t) \notin {"init"} \cup Making
      BY <1>4, <1>5 DEF OwnContext
    <2>2. ioprio[t] = class => (Follows(t)' <=> Follows(t)) /\ (WillFollow(t)' <=> WillFollow(t))
      BY <1>3, <1>6, <1>16, <1>17, FollowsPrimed DEF Follows, WillFollow
    <2>3. HasOwn(t)' <=> HasOwn(t)
      BY <1>3 DEF HasOwn
    <2> QED
      BY <1>3, <1>4, <1>14, <1>16, <1>17, <2>1, <2>2, <2>3 DEF Following
  <1>20. \A c \in Setters : SetterOwn(c)'
    <2> TAKE c \in Setters
    <2>1. CASE c = s
      BY <1>3, <1>5, <1>10, <1>12, <2>1 DEF SetterOwn
    <2>2. CASE c # s
      BY <1>3, <1>11, <1>12, <2>2 DEF SetterOwn, PInv, Contexts
    <2> QED
      BY <2>1, <2>2
  <1> QED
    BY <1>15, <1>18, <1>19, <1>20 DEF PInv, Own

(* Who is told is left with a notice to take. *)
LEMMA NotifyP ==
  ASSUME TInv, PInv, UNCHANGED setup, NEW s \in Setters, Notify(s)
  PROVE  PInv'
  <1>1. UNCHANGED <<io, ctx, ioprio, asked>> /\ pc[s] = "notify"
    BY DEF Notify
  <1>2. s \in Contexts /\ s \notin Tasks /\ pc \in [Contexts -> Labels] /\ loc \in [Contexts -> LocType]
        /\ obj \in [Tasks -> ObjType] /\ Tasks \cap Setters = {}
    BY DeviceFacts DEF TInv, Types, TyEnv, Contexts
  <1>3. PICK t \in Tasks : t = loc[s].target /\ ctx[t] # None
    <2>1. loc[s] \in LocType /\ loc[s].target # None
      BY <1>1, <1>2 DEF TInv, SetterPlaced
    <2> QED
      BY <1>1, <2>1 DEF LocType, PInv, SetterOwn
  <1>4. \A u \in Tasks : OwnContext(u) /\ Following(u)
    BY DEF PInv
  <1>5. /\ \A c \in Contexts \ {s} : pc'[c] = pc[c] /\ loc'[c] = loc[c]
        /\ pc'[s] \in {"oops", "idle"}
    BY <1>2 DEF Notify, Oops, Finish, Goto
  <1>6. \/ io[t] = None /\ obj' = obj
        \/ io[t] = t /\ obj' = [obj EXCEPT ![t] = [obj[t] EXCEPT !.need = TRUE]]
    BY <1>3, <1>4 DEF Notify, OwnContext
  <1>7. /\ \A u \in Tasks : obj'[u].hctx = obj[u].hctx /\ obj'[u].prio = obj[u].prio
        /\ \A u \in Tasks \ {t} : obj'[u] = obj[u]
        /\ io[t] # None => obj'[t].need
    BY <1>2, <1>3, <1>6 DEF ObjType
  <1>8. /\ \A u : Pending(u)' => Pending(u)
        /\ \A u : u # t => (Pending(u)' <=> Pending(u))
        /\ Pending(t)
    BY <1>1, <1>3, <1>5 DEF Pending, Contexts
  <1>9. \A u \in Tasks \ {t} : OwnContext(u)' /\ Following(u)'
    <2> TAKE u \in Tasks \ {t}
    <2>1. SameTask(u)
      BY <1>1, <1>2, <1>5, <1>7 DEF SameTask, Contexts
    <2> QED
      BY <1>4, <1>8, <2>1, OwnFrame
  <1>10. pc'[t] = pc[t] /\ loc'[t] = loc[t] /\ Stage(t)' = Stage(t)
    BY <1>2, <1>3, <1>5 DEF Contexts, Stage
  <1>11. OwnContext(t)'
    BY <1>1, <1>3, <1>4, <1>10 DEF OwnContext
  <1>12. Following(t)'
    <2>1. Noticed \subseteq Busy
      BY DEF Noticed, Busy, Profiling, Updating, Scheduling
    <2>2. Follows(t)' <=> Follows(t)
      BY <1>1, <1>3, <1>7, FollowsPrimed DEF Follows
    <2>3. HasOwn(t)' => obj'[t].need
      BY <1>1, <1>7 DEF HasOwn
    <2> QED
      BY <1>1, <1>3, <1>4, <1>8, <1>10, <2>1, <2>2, <2>3 DEF Following
  <1>13. \A c \in Setters : SetterOwn(c)'
    BY <1>1, <1>5 DEF SetterOwn, PInv, Contexts
  <1> QED
    BY <1>3, <1>9, <1>11, <1>12, <1>13 DEF PInv, Own

LEMMA PInit == Init /\ Own => PInv
  <1> SUFFICES ASSUME Init, Own PROVE PInv
    OBVIOUS
  <1>1. \A c \in Contexts : pc[c] \in {"idle", "dead"} /\ loc[c] = NoLoc
    BY DEF Init
  <1>2. \A t \in Tasks : OwnContext(t)
    <2> TAKE t \in Tasks
    <2>1. /\ io[t] \in {t, None} /\ ctx[t] = None /\ loc[t].ctx = None /\ ioprio[t] = "be" /\ asked[t] = "be"
      BY <1>1 DEF Init, Own, NoLoc, Contexts
    <2>2. Stage(t) \in {"idle", "dead"}
      BY <1>1 DEF Stage, MapOps, Contexts
    <2> QED
      BY <2>1, <2>2 DEF OwnContext, Making
  <1>3. \A t \in Tasks : Following(t)
    <2> TAKE t \in Tasks
    <2>1. Stage(t) \in {"idle", "dead"}
      BY <1>1 DEF Stage, MapOps, Contexts
    <2>2. ~HasOwn(t)
      BY DEF Init, HasOwn
    <2> QED
      BY <2>1, <2>2 DEF Following, Busy, Making, Profiling
  <1>4. \A s \in Setters : SetterOwn(s)
    BY <1>1 DEF SetterOwn, Contexts
  <1> QED
    BY <1>2, <1>3, <1>4 DEF PInv

LEMMA PNext == TInv /\ PInv /\ [Next /\ UNCHANGED setup]_vars => PInv'
  <1> SUFFICES ASSUME TInv, PInv, [Next /\ UNCHANGED setup]_vars PROVE PInv'
    OBVIOUS
  <1>1. CASE UNCHANGED vars
    <2>1. UNCHANGED <<setup, io, ioprio, ctx, obj, pc, loc, asked>>
      BY <1>1 DEF vars
    <2> QED
      BY <2>1 DEF PInv, Own, OwnContext, Following, SetterOwn, Stage, Pending, Follows, WillFollow, HasOwn,
                  GroupNqs, MaxNqid, NrCqs
  <1>2. ASSUME UNCHANGED setup, NEW t \in Tasks,
               \/ \E c \in Cpus : Migrate(t, c)
               \/ \E bio \in setup.bios : SubmitBio(t, bio)
               \/ Profile(t) \/ Maps(t) \/ Send(t) \/ Exit(t) \/ FreeTaskIoc(t)
        PROVE  PInv'
    <2>1. CASE Profile(t)
      BY <1>2, <2>1, LookupP, InitTaskIocP, InsertTaskIocP, MovingP, PlainP, TakeNoticeP, RescheduleP,
         RecommendP, AssignP, OutlierP DEF Profile
    <2> QED
      BY <1>2, <2>1, MigrateP, SubmitBioP, MapsP, SendP, ExitP, FreeTaskIocP
  <1>3. ASSUME UNCHANGED setup, NEW s \in Setters, Set(s)
        PROVE  PInv'
    BY <1>3, SetIoprioP, NotifyP DEF Set
  <1> QED
    BY <1>1, <1>2, <1>3, IoAllocP DEF Next

(* A request newly allocated without a wait gets an NQ of the priority's   *)
(* group; a cached one is taken only if it suits the bio.                  *)
LEMMA SendRespects ==
  ASSUME TInv, PInv, PriorityRespected, UNCHANGED setup, NEW t \in Tasks, Send(t)
  PROVE  PriorityRespected'
  <1>1. (\A p : GroupNqs(p)' = GroupNqs(p)) /\ (Alone' <=> Alone)
    BY SameDevice DEF Alone
  <1>2. OwnContext(t) /\ Following(t) /\ setup' = setup
    BY DEF PInv
  <1> DEFINE Fits(r) == LET high == r.nq \in GroupNqs(LPrio)
                        IN  /\ r.how = "new" /\ (r.promoted => r.class = "rt") => (high <=> r.class = "rt")
                            /\ r.how = "cached" /\ r.class = "be" /\ ~r.urgent => ~high
                            /\ r.how = "cached" /\ r.class = "rt" /\ r.urgent => high
  <1>3. ASSUME NEW r, sent' = [sent EXCEPT ![t] = r], r # None /\ r.steady => Fits(r)
        PROVE  PriorityRespected'
    <2>1. sent'[t] = r /\ \A u \in Tasks \ {t} : sent'[u] = sent[u]
      <3>1. sent = [u \in Tasks |-> sent[u]]
        BY DEF TInv, Types, TySent
      <3>2. sent' = [u \in Tasks |-> IF u = t THEN r ELSE sent[u]]
        BY <1>3, <3>1
      <3> QED
        BY <3>2
    <2> QED
      BY <1>1, <1>2, <1>3, <2>1 DEF PriorityRespected
  <1>4. CASE UNCHANGED sent
    BY <1>1, <1>2, <1>4 DEF PriorityRespected
  <1>5. ASSUME NEW how, NEW nq, Get(t, how, nq), how = "cached" => CachedFits(t) /\ nq = cached[t],
               how = "new" => pc[t] = "route" /\ HasContext(io[t]) /\ nq = ReqAlloc(t)
        PROVE  PriorityRespected'
    <2> DEFINE new == how = "new"
               o == ctx[io[t]]
               r == [how |-> how, nq |-> nq, urgent |-> Urgent(t),
                     class |-> IF io[t] = None THEN "be" ELSE asked[io[t]],
                     steady |-> loc[t].steady, promoted |-> new /\ Promoted(t),
                     outlier |-> IF new /\ obj[o].prio = OutlierPrio THEN obj[o].outlier ELSE None]
    <2>1. sent' = [sent EXCEPT ![t] = r]
      BY <1>5 DEF Get
    <2>2. /\ r.how = how /\ r.nq = nq /\ r.urgent = Urgent(t) /\ r.steady = loc[t].steady
          /\ r.class = IF io[t] = None THEN "be" ELSE asked[io[t]]
          /\ r.promoted = (how = "new" /\ Promoted(t))
      OBVIOUS
    <2> HIDE DEF r
    <2>3. io[t] # None => io[t] = t /\ asked[t] = ioprio[t] /\ ioprio[t] \in {"rt", "be"}
      BY <1>2 DEF OwnContext, TInv, Types, TyEnv
    <2>4. BioPrio(t) = SimpleMap(r.class) /\ r.class \in {"rt", "be"}
      BY <2>2, <2>3 DEF BioPrio, SimpleMap
    <2>5. ASSUME how = "cached" PROVE Fits(r)
      BY <1>5, <2>2, <2>4, <2>5, LBits DEF CachedFits
    <2>6. ASSUME how = "new", loc[t].steady PROVE Fits(r)
      <3>1. Stage(t) = "route" /\ io[t] = t /\ ctx[t] = t /\ HasOwn(t) /\ r.class = ioprio[t]
        BY <1>2, <1>5, <2>2, <2>3, <2>6 DEF HasContext, OwnContext, HasOwn, Stage, MapOps
      <3>2. Follows(t)
        BY <1>2, <2>6, <3>1 DEF Following, Busy, Noticed, Updating, Scheduling, Unsettled, Gone, Making
      <3>3. ~Promoted(t) => nq = obj[t].hctx
        BY <1>5, <2>6, <3>1 DEF ReqAlloc
      <3>4. Promoted(t) => ioprio[t] # "rt"
        BY <3>1, <3>2 DEF Promoted, Follows
      <3>5. GroupNqs(TPrio) \cap GroupNqs(LPrio) = {}
        <4>1. setup \in Setups /\ TPrio \in Prios
          BY DEF TInv, Types, TyEnv, TPrio, Prios, PrioLevel
        <4> QED
          BY <4>1, GroupBlock
      <3> QED
        BY <2>2, <2>3, <2>6, <3>1, <3>2, <3>3, <3>4, <3>5 DEF Follows, SimpleMap
    <2>7. r.steady => Fits(r)
      BY <2>2, <2>5, <2>6
    <2> QED
      BY <1>3, <2>1, <2>7
  <1>6. CASE NoRequest(t)
    BY <1>3, <1>6 DEF NoRequest
  <1>7. CASE TakeCached(t)
    BY <1>5, <1>7 DEF TakeCached
  <1>8. CASE Route(t)
    <2>1. CASE ~HasContext(io[t]) /\ (setup.opt > 0 \/ io[t] = None)
      BY <1>4, <1>8, <2>1 DEF Route
    <2>2. CASE setup.opt = 0 /\ ~(~HasContext(io[t]) /\ (setup.opt > 0 \/ io[t] = None))
      BY <1>4, <1>5, <1>8, <2>2 DEF Route
    <2>3. CASE setup.opt # 0 /\ ~(~HasContext(io[t]) /\ (setup.opt > 0 \/ io[t] = None))
      <3>1. setup.opt \in 0 .. 2
        BY TenantAssumption DEF TInv, Types, TyEnv, Setup
      <3>2. HasContext(io[t]) /\ pc[t] = "route"
        BY <1>8, <2>3, <3>1 DEF Route, At
      <3> QED
        BY <1>4, <1>5, <1>8, <2>3, <3>2 DEF Route
    <2> QED
      BY <2>1, <2>2, <2>3
  <1>9. CASE GetTag(t)
    BY <1>4, <1>5, <1>9 DEF GetTag
  <1>10. CASE Unplug(t)
    BY <1>4, <1>10 DEF Unplug
  <1> QED
    BY <1>6, <1>7, <1>8, <1>9, <1>10 DEF Send

(* A request that a task with an io_context of its own has newly allocated *)
(* without waiting for a tag, with no ioprio_set() on the task under way   *)
(* or newly begun, has an NQ of the group of the priority last set, unless *)
(* it is an urgent request of a T-task; and a request it takes from its    *)
(* plug, allocated whenever, is no L one for a plain bio of best effort    *)
(* and no T one for an urgent bio of real time: on every device, at every  *)
(* opt level, with profiling or without, for any number of tasks, of       *)
(* priority changes, migrations and failures.                              *)
THEOREM PrioritiesRespected == Spec => [](Own => PriorityRespected)
  <1> DEFINE Inv == Own => PInv /\ PriorityRespected
  <1>1. Init => Inv
    BY PInit DEF Init, PriorityRespected
  <1>2. TInv /\ Inv /\ [Next /\ UNCHANGED setup]_vars => Inv'
    <2> SUFFICES ASSUME TInv, Inv, [Next /\ UNCHANGED setup]_vars, Own' PROVE PInv' /\ PriorityRespected'
      OBVIOUS
    <2>1. setup' = setup
      BY DEF vars
    <2>2. PInv /\ PriorityRespected
      BY <2>1 DEF Own
    <2>3. PInv'
      BY <2>2, PNext
    <2>4. UNCHANGED sent \/ \E t \in Tasks : Send(t)
      <3>1. ASSUME NEW t \in Tasks, Profile(t) PROVE UNCHANGED sent
        <4>1. CASE Lookup(t) \/ InitTaskIoc(t) \/ InitEnd(t) \/ InsertTaskIoc(t) \/ UpdateStats(t) \/ ClearOldCpu(t)
          BY <4>1 DEF Lookup, InitTaskIoc, InitEnd, InsertTaskIoc, UpdateStats, ClearOldCpu
        <4>2. CASE \/ SetNewCpu(t) \/ MoveEnd(t) \/ TakeNotice(t) \/ Reschedule(t) \/ Recommend(t) \/ GetCpu(t)
                   \/ ClearOldNq(t)
          BY <4>2 DEF SetNewCpu, MoveEnd, TakeNotice, Reschedule, Recommend, GetCpu, ClearOldNq
        <4>3. CASE PutCpu(t) \/ Assign(t) \/ Outlier(t)
          BY <4>3 DEF PutCpu, Assign, Outlier
        <4> QED
          BY <3>1, <4>1, <4>2, <4>3 DEF Profile
      <3>2. ASSUME NEW t \in Tasks, Maps(t) \/ Exit(t) \/ FreeTaskIoc(t) \/ (\E c \in Cpus : Migrate(t, c))
                                    \/ (\E bio \in setup.bios : SubmitBio(t, bio))
            PROVE  UNCHANGED sent
        BY <3>2 DEF Maps, SetClaim, SetLoad, SetStore, ClearLoad, ClearStore, Exit, FreeTaskIoc, Migrate, SubmitBio
      <3>3. ASSUME NEW c \in Contexts, IoAlloc(c) PROVE UNCHANGED sent
        BY <3>3 DEF IoAlloc
      <3>4. ASSUME NEW s \in Setters, Set(s) PROVE UNCHANGED sent
        BY <3>4 DEF Set, SetIoprio, SetIoprioNew, Notify
      <3> QED
        BY <3>1, <3>2, <3>3, <3>4 DEF Next, vars
    <2>5. CASE UNCHANGED sent
      BY <2>1, <2>2, <2>3, <2>5, SameDevice DEF PriorityRespected, Alone
    <2> QED
      BY <2>1, <2>2, <2>3, <2>4, <2>5, SendRespects
  <1>3. Inv => (Own => PriorityRespected)
    OBVIOUS
  <1> QED
    BY <1>1, <1>2, <1>3, TInit, TNext, PTL DEF Spec

-----------------------------------------------------------------------------
(* The maps.  Where they are kept exactly: without kernel preemption and   *)
(* I/O profiling, when no tasks share an io_context, and tasks that can    *)
(* meet on a CPU are bound to it.                                          *)
IoOf(t) == IF setup.io[t] = None THEN t ELSE setup.io[t]
Meet(t, u) == setup.home[t] \cap setup.home[u] # {} \/ IoOf(t) = IoOf(u)
Orderly ==
  /\ setup.opt = 2 /\ ~setup.preempt /\ ~setup.profile /\ Alone
  /\ \A t, u \in setup.tasks : t # u /\ Meet(t, u) => \E c \in Cpus : setup.home[t] = {c} /\ setup.home[u] = {c}

(* Tasks stay on their CPUs, and one at a time is inside a section on each.*)
OneInside == \A t, u \in Tasks : t # u /\ Section(t) /\ Section(u) => cpu[t] # cpu[u]
AtHome(t) ==
  /\ cpu[t] \in setup.home[t]
  /\ t \notin setup.tasks => pc[t] = "dead" /\ ~obj[t].live
  /\ ~loc[t].changed
  /\ Stage(t) \notin Gone => io[t] = IoOf(t) \/ (io[t] = None /\ setup.io[t] = None)
HInv == OneInside /\ \A t \in Tasks : AtHome(t)

(* Whose context it is, and who works on it. *)
OnTheDevice(o) == \E x \in Tasks : ctx[x] = o
Worker(t) == Stage(t) \in Making \cup Profiling \cup {"free"}
Subject(t) == IF Stage(t) \in Making THEN t ELSE loc[t].ctx

Owned(t) ==
  /\ \A x \in Tasks : ctx[x] = t => x = IoOf(t) /\ t \in setup.tasks /\ (io[t] = x \/ Stage(t) \in Gone)
  /\ Stage(t) \in {"init"} \cup Making => ~OnTheDevice(t)
  /\ Stage(t) \in Making => obj[t].live
  /\ Stage(t) \in Profiling \cup {"free"} => loc[t].ctx # None /\ ctx[IoOf(t)] = loc[t].ctx
  /\ obj[t].live => Stage(t) \in Making \/ OnTheDevice(t)
  /\ (obj[t].live \/ OnTheDevice(t)) /\ Stage(t) # "init_end" => obj[t].last \in setup.home[t]
  /\ OnTheDevice(t) => obj[t].live \/ pc[t] = "dead"
  /\ ~setup.reuse /\ pc[t] = "dead" => ~obj[t].live
OInv == \A t \in Tasks : Owned(t)

(* What the maps are updated with. *)
Sets == {"set", "set_load", "set_store"}
Clears == {"clear", "clear_store"}
Locals(s, l, c, n) ==
  /\ s \in {"init_end", "pin_clear", "unpin"} => l.cpu = c
  /\ s \in {"recommend", "pin", "pin_clear", "unpin"} => l.old = n
  /\ s \in {"pin", "pin_clear", "unpin"} => l.nq # n
  /\ s \in Updating => l.prio # OutlierPrio
Called(t) ==
  LET o == obj[Subject(t)]
      l == loc[t]
      With(ops, c, n) == pc[t] \in ops /\ l.mcpu = c /\ l.mnq = n
  IN
  /\ Locals(Stage(t), l, cpu[t], o.hctx)
  /\ pc[t] \in MapOps =>
       \/ l.next = "init_end" /\ With(Sets, cpu[t], o.hctx)
       \/ l.next = "moved_set" /\ With(Clears, o.last, o.hctx)
       \/ l.next = "moved_end" /\ With(Sets, cpu[t], o.hctx)
       \/ l.next = "pin" /\ With(Clears, o.last, o.hctx) /\ o.last # cpu[t]
       \/ l.next = "pin_clear" /\ With(Sets, cpu[t], l.nq)
       \/ l.next = "unpin" /\ With(Clears, cpu[t], o.hctx)
       \/ l.next = "free" /\ With(Clears, o.last, o.hctx)
  /\ pc[t] \in {"set_store", "clear_store"} => l.v = nsqMap[l.mcpu][l.mnq]
CInv == \A t \in Tasks : Called(t)

(* Where a context is counted: at its NQ on the CPU it was last updated    *)
(* on, unless a task is just moving it.                                    *)
Keeps(t) ==
  /\ Stage(t) \notin {"init_end", "moved_end", "assign"}
  /\ Stage(t) \in {"moved_set", "unpin", "free"} => pc[t] \in MapOps
  /\ Stage(t) \in {"pin", "pin_clear", "unpin"} /\ obj[Subject(t)].last # cpu[t] =>
       Stage(t) = "pin" /\ pc[t] \in MapOps
Gains(t) == Stage(t) \in {"unpin", "assign"} \/ pc[t] \in {"init_end", "moved_end", "pin_clear"}
NewNq(t) == IF Stage(t) \in {"init_end", "moved_end"} THEN obj[Subject(t)].hctx ELSE loc[t].nq
NewCpu(t) == IF Stage(t) = "assign" THEN obj[Subject(t)].last ELSE cpu[t]
CountedAt(o, c, n) ==
  \/ /\ obj[o].live /\ obj[o].last = c /\ obj[o].hctx = n
     /\ \A t \in Tasks : Worker(t) /\ Subject(t) = o => Keeps(t)
  \/ \E t \in Tasks : Worker(t) /\ Subject(t) = o /\ Gains(t) /\ NewCpu(t) = c /\ NewNq(t) = n
CountedAll(c, n) == {o \in Tasks : CountedAt(o, c, n)}

NoFailure == left.fail = setup.fails
Budget == DOMAIN left = {"fail", "move", "set", "submit"} /\ left.fail \in Nat /\ left.fail <= setup.fails
Agree(c, n) ==
  /\ nsqMap[c][n] >= Cardinality(CountedAll(c, n))
  /\ NoFailure => nsqMap[c][n] = Cardinality(CountedAll(c, n))
NInv == \A c \in Cpus, n \in Nqs : Agree(c, n)
ClaimInv ==
  \A c \in Cpus :
    /\ inUse[c] = Cardinality({n \in Nqs : nsqMap[c][n] > 0})
    /\ \A n \in Nqs : c \in claimed[n] <=>
         \/ nsqMap[c][n] > 0
         \/ \E t \in Tasks : pc[t] \in {"set_load", "set_store"} /\ loc[t].mcpu = c /\ loc[t].mnq = n

KInv == HInv /\ OInv /\ CInv /\ Budget /\ NInv
MInv == KInv /\ ClaimInv

(* What a step leaves of a task and of a context. *)
Same(u) ==
  /\ pc'[u] = pc[u] /\ cpu'[u] = cpu[u] /\ loc'[u].ctx = loc[u].ctx /\ loc'[u].nq = loc[u].nq
  /\ loc'[u].old = loc[u].old /\ loc'[u].prio = loc[u].prio /\ loc'[u].cpu = loc[u].cpu /\ loc'[u].v = loc[u].v
  /\ loc'[u].mcpu = loc[u].mcpu /\ loc'[u].mnq = loc[u].mnq /\ loc'[u].next = loc[u].next
  /\ loc'[u].pinned = loc[u].pinned /\ loc'[u].changed = loc[u].changed
IoKept(u) == io'[u] = io[u] \/ (io[u] = None /\ io'[u] = u)
SameCtx(o) == obj'[o].live = obj[o].live /\ obj'[o].last = obj[o].last /\ obj'[o].hctx = obj[o].hctx

LEMMA OrderlyFacts ==
  ASSUME TInv, Orderly
  PROVE  /\ setup.opt = 2 /\ ~setup.preempt /\ ~setup.profile /\ Alone
         /\ IsFiniteSet(Tasks) /\ None \notin Tasks /\ None \notin Nqs /\ None \notin Nat
         /\ \A t \in Tasks : IoOf(t) \in Tasks /\ IoOf(t) # None
         /\ \A t, u \in setup.tasks : t # u /\ Meet(t, u) => \E c : setup.home[t] = {c} /\ setup.home[u] = {c}
         /\ setup.tasks \subseteq Tasks /\ setup \in Setups /\ setup.fails \in Nat
  <1>1. setup \in Setups /\ None \notin Tasks /\ None \notin Nqs /\ None \notin Nat /\ setup.io \in [Tasks -> Tasks \cup {None}]
    BY DeviceFacts DEF TInv, Types, TyEnv
  <1>2. setup.tasks \subseteq Tasks /\ setup.fails \in Nat
    <2>1. setup \in Setup
      BY <1>1, TenantAssumption
    <2> QED
      BY <2>1 DEF Setup
  <1>3. \A t \in Tasks : IoOf(t) \in Tasks /\ IoOf(t) # None
    BY <1>1 DEF IoOf
  <1>4. /\ setup.opt = 2 /\ ~setup.preempt /\ ~setup.profile /\ Alone
        /\ \A t, u \in setup.tasks : t # u /\ Meet(t, u) => \E c : setup.home[t] = {c} /\ setup.home[u] = {c}
    BY DEF Orderly
  <1>5. IsFiniteSet(Tasks)
    BY TenantAssumption
  <1> QED
    BY <1>1, <1>2, <1>3, <1>4, <1>5

LEMMA SameSetup ==
  ASSUME UNCHANGED setup
  PROVE  /\ (Orderly' <=> Orderly) /\ Cpus' = Cpus /\ Nqs' = Nqs
         /\ \A t : IoOf(t)' = IoOf(t)
         /\ \A t, u : Meet(t, u)' <=> Meet(t, u)
  BY DEF Orderly, Alone, IoOf, Meet, Cpus, Nqs, MaxNqid, NrCpus

(* Tasks that do not share an io_context. *)
LEMMA AloneFacts ==
  ASSUME TInv, Orderly, NEW t \in setup.tasks, NEW u \in setup.tasks, IoOf(t) = IoOf(u)
  PROVE  t = u
  <1>1. setup \in Setups /\ setup.tasks \subseteq Tasks
    BY OrderlyFacts
  <1>2. t \in Tasks /\ u \in Tasks /\ \A x \in Tasks : setup.io[x] = None => \A y \in Tasks : setup.io[y] # x
    BY <1>1, TenantAssumption
  <1>3. (setup.io[t] = None => setup.io[u] # t) /\ (setup.io[u] = None => setup.io[t] # u)
    BY <1>2
  <1> QED
    BY <1>1, <1>2, <1>3 DEF Orderly, Alone, IoOf

(* Where a task is inside a section: the kernel is not preempted there. *)
Inside == MapOps \cup (Profiling \ {"recommend"}) \cup {"free", "init_end", "lookup", "route", "notify"}
LEMMA Sections ==
  ASSUME TInv, Orderly, NEW t \in Tasks
  PROVE  /\ pc[t] \in Inside => Section(t)
         /\ Stage(t) \in (Profiling \ {"recommend"}) \cup {"free", "init_end"} => Section(t)
         /\ ~Section(t) => pc[t] \in {"idle", "dead", "oops"} \cup Sleeps /\ Stage(t) = pc[t]
  <1>1. ~setup.preempt /\ pc[t] \in Labels
    BY OrderlyFacts DEF TInv, Types, TyEnv, Contexts
  <1>2. pc[t] \in Inside => Section(t)
    BY <1>1 DEF Section, AtRest, Sleeps, Inside, MapOps, Profiling
  <1>3. Stage(t) \in (Profiling \ {"recommend"}) \cup {"free", "init_end"} => pc[t] \in Inside
    BY DEF Stage, Inside
  <1>4. ~Section(t) => pc[t] \in {"idle", "dead", "oops"} \cup Sleeps
    BY <1>1, <1>2 DEF Labels, Inside, Making, Sleeps
  <1>5. pc[t] \in {"idle", "dead", "oops"} \cup Sleeps => Stage(t) = pc[t]
    BY DEF Stage, MapOps, Sleeps
  <1> QED
    BY <1>2, <1>3, <1>4, <1>5

LEMMA SameSection ==
  ASSUME UNCHANGED setup, NEW u, Same(u)
  PROVE  (Section(u)' <=> Section(u)) /\ Stage(u)' = Stage(u)
  BY DEF Section, AtRest, Sleeps, Same, Stage

(* No other task is inside a section on the task's CPU. *)
Clear(t) == \A u \in Tasks \ {t} : Section(u) => cpu[u] # cpu[t]

LEMMA ClearAt ==
  ASSUME NEW t \in Tasks, NEW l, At(t, l)
  PROVE  Clear(t) /\ pc[t] = l
  BY DEF At, Clear

LEMMA HFrame ==
  ASSUME UNCHANGED setup, NEW u \in Tasks, AtHome(u), Same(u), IoKept(u), obj'[u].live => obj[u].live
  PROVE  AtHome(u)'
  <1>1. Stage(u)' = Stage(u) /\ IoOf(u)' = IoOf(u)
    BY SameSection, SameSetup
  <1> QED
    BY <1>1 DEF AtHome, Same, IoKept, IoOf

LEMMA HStep ==
  ASSUME HInv, UNCHANGED setup, NEW t \in Tasks, Clear(t) \/ ~Section(t)', cpu'[t] = cpu[t] \/ ~Section(t)',
         \A u \in Tasks \ {t} : Same(u) /\ IoKept(u) /\ (obj'[u].live => obj[u].live), AtHome(t)'
  PROVE  HInv'
  <1>1. \A u \in Tasks : AtHome(u)'
    BY HFrame DEF HInv
  <1>2. \A u \in Tasks \ {t} : (Section(u)' <=> Section(u)) /\ cpu'[u] = cpu[u]
    BY SameSection DEF Same
  <1>3. OneInside'
    BY <1>2 DEF OneInside, HInv, Clear
  <1> QED
    BY <1>1, <1>3 DEF HInv

-----------------------------------------------------------------------------
(* Two tasks that work on contexts work on different ones, and a context   *)
(* is worked on by tasks of its own CPU.                                   *)
LEMMA MeetsHere ==
  ASSUME TInv, Orderly, HInv, NEW t \in setup.tasks, NEW u \in setup.tasks, t # u, Meet(t, u)
  PROVE  cpu[t] = cpu[u] /\ setup.home[t] = setup.home[u]
  <1>1. t \in Tasks /\ u \in Tasks
    BY OrderlyFacts
  <1>2. PICK c : setup.home[t] = {c} /\ setup.home[u] = {c}
    BY OrderlyFacts
  <1> QED
    BY <1>1, <1>2 DEF HInv, AtHome

LEMMA WorkersFacts ==
  ASSUME TInv, Orderly, HInv, OInv, NEW t \in Tasks, Worker(t)
  PROVE  LET o == Subject(t) IN
         /\ o \in Tasks /\ o # None /\ o \in setup.tasks /\ t \in setup.tasks /\ obj[o] \in ObjType /\ obj[o].hctx \in Nqs
         /\ o # t => cpu[o] = cpu[t] /\ setup.home[o] = setup.home[t] /\ OnTheDevice(o)
         /\ IoOf(o) = IoOf(t) /\ cpu[t] \in setup.home[o]
         /\ Stage(t) \in Making => o = t
         /\ Stage(t) \notin Making => ctx[IoOf(t)] = o /\ OnTheDevice(o) /\ o = loc[t].ctx
         /\ obj[o].live
         /\ o = t
  <1> DEFINE o == Subject(t)
  <1>1. /\ setup.tasks \subseteq Tasks /\ None \notin Tasks /\ IoOf(t) \in Tasks /\ Owned(t) /\ AtHome(t)
        /\ Types /\ Made /\ Placed(t) /\ loc[t] \in LocType
    BY OrderlyFacts, TaskTypes DEF OInv, HInv
  <1>2. t \in setup.tasks
    <2>1. pc[t] = "dead" => Stage(t) = "dead"
      BY DEF Stage, MapOps
    <2> QED
      BY <1>1, <2>1 DEF AtHome, Worker, Making, Profiling
  <1>3. o \in Tasks /\ o # None /\ (Stage(t) \in Making => o = t)
        /\ (Stage(t) \notin Making => ctx[IoOf(t)] = o /\ OnTheDevice(o) /\ o = loc[t].ctx)
    <2>1. CASE Stage(t) \in Making
      BY <1>1, <2>1 DEF Subject
    <2>2. CASE Stage(t) \notin Making
      <3>1. o = loc[t].ctx /\ o # None /\ ctx[IoOf(t)] = o
        BY <1>1, <2>2 DEF Subject, Worker, Owned
      <3> QED
        BY <1>1, <2>2, <3>1 DEF LocType, OnTheDevice
    <2> QED
      BY <2>1, <2>2
  <1> HIDE DEF o
  <1>4. Owned(o) /\ AtHome(o) /\ obj[o] \in ObjType
    BY <1>1, <1>3 DEF OInv, HInv, Types
  <1>5. IoOf(o) = IoOf(t) /\ o \in setup.tasks
    BY <1>1, <1>2, <1>3, <1>4 DEF Owned
  <1>6. o # t => cpu[o] = cpu[t] /\ setup.home[o] = setup.home[t] /\ OnTheDevice(o)
    <2>1. o # t => Meet(o, t)
      BY <1>5 DEF Meet
    <2> QED
      BY <1>2, <1>3, <1>5, <2>1, MeetsHere
  <1>7. cpu[t] \in setup.home[o]
    BY <1>1, <1>6 DEF AtHome
  <1>8. o = t
    BY <1>2, <1>5, AloneFacts
  <1>9. obj[o].live
    <2>1. pc[t] # "dead"
      BY DEF Worker, Stage, Making, Profiling, MapOps
    <2>2. Stage(t) \in Making => obj[t].live
      BY <1>1 DEF Owned
    <2> QED
      BY <1>3, <1>4, <1>8, <2>1, <2>2 DEF Owned
  <1>10. obj[o].hctx \in Nqs
    <2>1. obj[o].hctx # None
      BY <1>1, <1>3, <1>4 DEF Placed, Made, OnTheDevice
    <2> QED
      BY <1>4, <2>1 DEF ObjType
  <1> QED
    BY <1>2, <1>3, <1>4, <1>5, <1>6, <1>7, <1>8, <1>9, <1>10 DEF o

LEMMA OneWorker ==
  ASSUME TInv, Orderly, HInv, OInv, NEW t \in Tasks, NEW u \in Tasks, Worker(t), Worker(u), Subject(t) = Subject(u)
  PROVE  t = u
  BY WorkersFacts, OrderlyFacts

-----------------------------------------------------------------------------
(* Steps of one task, and what they leave alone. *)
Grows(t) == \A x \in Tasks : ctx'[x] = ctx[x] \/ (ctx[x] = None /\ ctx'[x] = t)
Only(t, o) == \A u \in Tasks \ {t} : Worker(u) => Subject(u) # o
OthersSame(t) == \A u \in Tasks \ {t} : Same(u) /\ IoKept(u)

LEMMA SameWork ==
  ASSUME UNCHANGED setup, NEW u, Same(u)
  PROVE  Stage(u)' = Stage(u) /\ (Worker(u)' <=> Worker(u)) /\ Subject(u)' = Subject(u)
  <1>1. Stage(u)' = Stage(u)
    BY SameSection
  <1> QED
    BY <1>1 DEF Worker, Subject, Same

LEMMA OFrame ==
  ASSUME OInv, UNCHANGED setup, NEW t, NEW u \in Tasks \ {t}, Grows(t), Same(u), IoKept(u),
         None \notin Tasks, IoOf(u) \in Tasks,
         obj'[u].live = obj[u].live,
         obj'[u].last = obj[u].last \/ obj'[u].last \in setup.home[u]
  PROVE  Owned(u)'
  <1>1. Owned(u) /\ Stage(u)' = Stage(u) /\ IoOf(u)' = IoOf(u) /\ pc'[u] = pc[u] /\ loc'[u].ctx = loc[u].ctx
    BY SameSection, SameSetup DEF OInv, Same
  <1>2. \A x \in Tasks : ctx'[x] = u <=> ctx[x] = u
    BY DEF Grows
  <1>3. OnTheDevice(u)' <=> OnTheDevice(u)
    BY <1>2 DEF OnTheDevice
  <1>4. \A x \in Tasks : ctx'[x] = u => x = IoOf(u) /\ u \in setup.tasks /\ (io'[u] = x \/ Stage(u) \in Gone)
    BY <1>1, <1>2 DEF Owned, IoKept
  <1>5. Stage(u) \in {"init"} \cup Making => ~OnTheDevice(u)
    BY <1>1 DEF Owned
  <1>6. Stage(u) \in Making => obj'[u].live
    BY <1>1, <1>5 DEF Owned
  <1>7. Stage(u) \in Profiling \cup {"free"} => loc[u].ctx # None /\ ctx'[IoOf(u)] = loc[u].ctx
    BY <1>1 DEF Owned, Grows
  <1>8. obj'[u].live => Stage(u) \in Making \/ OnTheDevice(u)
    BY <1>1 DEF Owned
  <1>9. (obj'[u].live \/ OnTheDevice(u)) /\ Stage(u) # "init_end" => obj'[u].last \in setup.home[u]
    BY <1>1 DEF Owned
  <1>10. OnTheDevice(u) => obj'[u].live \/ pc[u] = "dead"
    BY <1>1 DEF Owned
  <1>11. ~setup.reuse /\ pc[u] = "dead" => ~obj'[u].live
    BY <1>1 DEF Owned
  <1> QED
    BY <1>1, <1>3, <1>4, <1>5, <1>6, <1>7, <1>8, <1>9, <1>10, <1>11 DEF Owned

LEMMA CFrame ==
  ASSUME UNCHANGED setup, NEW u \in Tasks, Called(u), Same(u),
         Worker(u) => obj'[Subject(u)].last = obj[Subject(u)].last /\ obj'[Subject(u)].hctx = obj[Subject(u)].hctx,
         pc[u] \in {"set_store", "clear_store"} =>
           nsqMap'[loc[u].mcpu][loc[u].mnq] = nsqMap[loc[u].mcpu][loc[u].mnq]
  PROVE  Called(u)'
  <1> DEFINE o == obj[Subject(u)]
             p == obj'[Subject(u)]
  <1>1. Stage(u)' = Stage(u) /\ Subject(u)' = Subject(u)
    BY SameWork
  <1>2. /\ pc'[u] = pc[u] /\ cpu'[u] = cpu[u] /\ loc'[u].nq = loc[u].nq /\ loc'[u].old = loc[u].old
        /\ loc'[u].prio = loc[u].prio /\ loc'[u].cpu = loc[u].cpu /\ loc'[u].v = loc[u].v
        /\ loc'[u].mcpu = loc[u].mcpu /\ loc'[u].mnq = loc[u].mnq /\ loc'[u].next = loc[u].next
    BY DEF Same
  <1>3. Worker(u) => p.last = o.last /\ p.hctx = o.hctx
    OBVIOUS
  <1>4. obj[Subject(u)]' = p
    BY <1>1
  <1>5. Stage(u) \in {"init_end", "moved_set", "moved_end", "recommend", "pin", "pin_clear", "unpin", "free"} => Worker(u)
    BY DEF Worker, Making, Profiling
  <1>6. pc[u] \in MapOps => Stage(u) = loc[u].next
    BY DEF Stage
  <1> HIDE DEF o, p
  <1>8. Locals(Stage(u), loc[u], cpu[u], o.hctx)
    BY DEF Called, o
  <1>9. pc[u] \in MapOps =>
       \/ loc[u].next = "init_end" /\ pc[u] \in Sets /\ loc[u].mcpu = cpu[u] /\ loc[u].mnq = o.hctx
       \/ loc[u].next = "moved_set" /\ pc[u] \in Clears /\ loc[u].mcpu = o.last /\ loc[u].mnq = o.hctx
       \/ loc[u].next = "moved_end" /\ pc[u] \in Sets /\ loc[u].mcpu = cpu[u] /\ loc[u].mnq = o.hctx
       \/ loc[u].next = "pin" /\ pc[u] \in Clears /\ loc[u].mcpu = o.last /\ loc[u].mnq = o.hctx /\ o.last # cpu[u]
       \/ loc[u].next = "pin_clear" /\ pc[u] \in Sets /\ loc[u].mcpu = cpu[u] /\ loc[u].mnq = loc[u].nq
       \/ loc[u].next = "unpin" /\ pc[u] \in Clears /\ loc[u].mcpu = cpu[u] /\ loc[u].mnq = o.hctx
       \/ loc[u].next = "free" /\ pc[u] \in Clears /\ loc[u].mcpu = o.last /\ loc[u].mnq = o.hctx
    BY DEF Called, o
  <1>10. pc[u] \in MapOps =>
       \/ loc[u].next = "init_end" /\ pc[u] \in Sets /\ loc[u].mcpu = cpu[u] /\ loc[u].mnq = p.hctx
       \/ loc[u].next = "moved_set" /\ pc[u] \in Clears /\ loc[u].mcpu = p.last /\ loc[u].mnq = p.hctx
       \/ loc[u].next = "moved_end" /\ pc[u] \in Sets /\ loc[u].mcpu = cpu[u] /\ loc[u].mnq = p.hctx
       \/ loc[u].next = "pin" /\ pc[u] \in Clears /\ loc[u].mcpu = p.last /\ loc[u].mnq = p.hctx /\ p.last # cpu[u]
       \/ loc[u].next = "pin_clear" /\ pc[u] \in Sets /\ loc[u].mcpu = cpu[u] /\ loc[u].mnq = loc[u].nq
       \/ loc[u].next = "unpin" /\ pc[u] \in Clears /\ loc[u].mcpu = cpu[u] /\ loc[u].mnq = p.hctx
       \/ loc[u].next = "free" /\ pc[u] \in Clears /\ loc[u].mcpu = p.last /\ loc[u].mnq = p.hctx
    BY <1>3, <1>5, <1>6, <1>9
  <1>11. Locals(Stage(u), loc'[u], cpu[u], p.hctx)
    BY <1>2, <1>3, <1>5, <1>8 DEF Locals
  <1>12. pc[u] \in {"set_store", "clear_store"} => loc[u].v = nsqMap'[loc[u].mcpu][loc[u].mnq]
    BY DEF Called
  <1> QED
    BY <1>1, <1>2, <1>4, <1>8, <1>10, <1>11, <1>12 DEF Called

(* The maps a task updates are those of its own CPUs. *)
LEMMA OwnMaps ==
  ASSUME TInv, Orderly, HInv, OInv, CInv, NEW t \in Tasks, pc[t] \in MapOps
  PROVE  loc[t].mcpu \in setup.home[t] /\ Worker(t) /\ t \in setup.tasks /\ Stage(t) = loc[t].next
         /\ loc[t].next \in {"init_end", "moved_set", "moved_end", "pin", "pin_clear", "unpin", "free"}
  <1>1. Called(t) /\ Stage(t) = loc[t].next
    BY DEF CInv, Stage
  <1>2. loc[t].next \in {"init_end", "moved_set", "moved_end", "pin", "pin_clear", "unpin", "free"}
    BY <1>1 DEF Called, Locals
  <1>3. Worker(t)
    BY <1>1, <1>2 DEF Worker, Making, Profiling
  <1>4. /\ t \in setup.tasks /\ Subject(t) \in Tasks /\ cpu[t] \in setup.home[t]
        /\ Subject(t) # t => setup.home[Subject(t)] = setup.home[t]
    BY <1>3, WorkersFacts DEF HInv, AtHome
  <1>5. loc[t].mcpu = cpu[t] \/ (loc[t].next \in {"moved_set", "pin", "free"} /\ loc[t].mcpu = obj[Subject(t)].last)
    BY <1>1 DEF Called, Locals
  <1>6. loc[t].next \in {"moved_set", "pin", "free"} => obj[Subject(t)].last \in setup.home[Subject(t)]
    <2> HAVE loc[t].next \in {"moved_set", "pin", "free"}
    <2>1. Stage(t) \notin Making /\ OnTheDevice(Subject(t))
      BY <1>1, <1>3, WorkersFacts DEF Making
    <2> QED
      BY <1>4, <2>1 DEF OInv, Owned, Making
  <1> QED
    BY <1>1, <1>2, <1>3, <1>4, <1>5, <1>6

LEMMA OtherMaps ==
  ASSUME TInv, Orderly, HInv, OInv, CInv, NEW t \in Tasks, NEW u \in Tasks, t # u, pc[t] \in MapOps, pc[u] \in MapOps
  PROVE  loc[t].mcpu # loc[u].mcpu
  <1> SUFFICES ASSUME loc[t].mcpu = loc[u].mcpu PROVE FALSE
    OBVIOUS
  <1>1. Meet(t, u) /\ t \in setup.tasks /\ u \in setup.tasks
    BY OwnMaps DEF Meet
  <1>2. Section(t) /\ Section(u)
    BY Sections DEF Inside
  <1> QED
    BY <1>1, <1>2, MeetsHere DEF HInv, OneInside

-----------------------------------------------------------------------------
(* Counting: of the contexts a step leaves alone each is counted where it  *)
(* was, and the context at hand where its task's place says.               *)
Mine(t, o, c, n) ==
  IF Worker(t) /\ Subject(t) = o
    THEN \/ obj[o].live /\ obj[o].last = c /\ obj[o].hctx = n /\ Keeps(t)
         \/ Gains(t) /\ NewCpu(t) = c /\ NewNq(t) = n
    ELSE obj[o].live /\ obj[o].last = c /\ obj[o].hctx = n

LEMMA CountedMine ==
  ASSUME NEW t \in Tasks, NEW o, NEW c, NEW n
  PROVE  /\ Only(t, o) => (CountedAt(o, c, n) <=> Mine(t, o, c, n))
         /\ Only(t, o)' => (CountedAt(o, c, n)' <=> Mine(t, o, c, n)')
  <1>1. Only(t, o) => (CountedAt(o, c, n) <=> Mine(t, o, c, n))
    BY DEF Only, CountedAt, Mine
  <1>2. Only(t, o)' => (CountedAt(o, c, n)' <=> Mine(t, o, c, n)')
    BY DEF Only, CountedAt, Mine
  <1> QED
    BY <1>1, <1>2

LEMMA CountFrame ==
  ASSUME UNCHANGED setup, NEW t \in Tasks, OthersSame(t), NEW o \in Tasks, SameCtx(o),
         ~(Worker(t) /\ Subject(t) = o), ~(Worker(t)' /\ Subject(t)' = o), NEW c, NEW n
  PROVE  CountedAt(o, c, n)' <=> CountedAt(o, c, n)
  <1>1. ASSUME NEW u \in Tasks
        PROVE  /\ Worker(u)' /\ Subject(u)' = o <=> Worker(u) /\ Subject(u) = o
               /\ Worker(u) /\ Subject(u) = o =>
                    (Keeps(u)' <=> Keeps(u)) /\ (Gains(u)' <=> Gains(u)) /\ NewNq(u)' = NewNq(u) /\ NewCpu(u)' = NewCpu(u)
    <2>1. CASE u = t
      BY <2>1
    <2>2. CASE u # t
      <3>1. Same(u)
        BY <2>2 DEF OthersSame
      <3>2. Stage(u)' = Stage(u) /\ (Worker(u)' <=> Worker(u)) /\ Subject(u)' = Subject(u)
        BY <3>1, SameWork
      <3>3. pc'[u] = pc[u] /\ cpu'[u] = cpu[u] /\ loc'[u].nq = loc[u].nq
        BY <3>1 DEF Same
      <3>4. Gains(u)' <=> Gains(u)
        BY <3>2, <3>3 DEF Gains
      <3>5. Subject(u) = o => (Keeps(u)' <=> Keeps(u)) /\ NewNq(u)' = NewNq(u) /\ NewCpu(u)' = NewCpu(u)
        BY <3>2, <3>3 DEF Keeps, NewNq, NewCpu, SameCtx
      <3> QED
        BY <3>2, <3>3, <3>4, <3>5
    <2> QED
      BY <2>1, <2>2
  <1>2. obj'[o].live = obj[o].live /\ obj'[o].last = obj[o].last /\ obj'[o].hctx = obj[o].hctx
    BY DEF SameCtx
  <1> QED
    BY <1>1, <1>2 DEF CountedAt

LEMMA CountSizes ==
  ASSUME IsFiniteSet(Tasks), NEW c, NEW n
  PROVE  /\ IsFiniteSet(CountedAll(c, n)) /\ Cardinality(CountedAll(c, n)) \in Nat
         /\ IsFiniteSet(CountedAll(c, n)') /\ Cardinality(CountedAll(c, n)') \in Nat
  <1>1. CountedAll(c, n) \subseteq Tasks /\ CountedAll(c, n)' \subseteq Tasks
    BY DEF CountedAll
  <1> QED
    BY <1>1, FS_Subset, FS_CardinalityType

(* A step that leaves the maps alone moves no context, and may only free   *)
(* one that is counted nowhere, or where an allocation failed.             *)
LEMMA NStep ==
  ASSUME TInv, Orderly, NInv, UNCHANGED setup, UNCHANGED nsqMap, NEW t \in Tasks, NEW o \in Tasks, OthersSame(t),
         Only(t, o), Only(t, o)', \A p \in Tasks \ {o} : SameCtx(p),
         Worker(t) => Subject(t) = o, Worker(t)' => Subject(t)' = o, NoFailure' => NoFailure,
         \A c, n : Mine(t, o, c, n)' => Mine(t, o, c, n),
         NoFailure' => \A c \in Cpus, n \in Nqs : Mine(t, o, c, n) => Mine(t, o, c, n)'
  PROVE  NInv'
  <1> SUFFICES ASSUME NEW c \in Cpus, NEW n \in Nqs PROVE Agree(c, n)'
    BY SameSetup DEF NInv
  <1>1. \A p \in Tasks \ {o} : CountedAt(p, c, n)' <=> CountedAt(p, c, n)
    BY CountFrame
  <1>2. (CountedAt(o, c, n)' <=> Mine(t, o, c, n)') /\ (CountedAt(o, c, n) <=> Mine(t, o, c, n))
    BY CountedMine
  <1>3. CountedAll(c, n)' \subseteq CountedAll(c, n)
    BY <1>1, <1>2 DEF CountedAll
  <1>4. NoFailure' => CountedAll(c, n)' = CountedAll(c, n)
    BY <1>1, <1>2 DEF CountedAll
  <1>5. /\ Cardinality(CountedAll(c, n)) \in Nat /\ Cardinality(CountedAll(c, n)') \in Nat
        /\ Cardinality(CountedAll(c, n)') <= Cardinality(CountedAll(c, n))
    BY <1>3, OrderlyFacts, CountSizes, FS_Subset
  <1>6. Agree(c, n) /\ nsqMap'[c][n] = nsqMap[c][n] /\ nsqMap[c][n] \in Nat
    BY DEF NInv, TInv, Types, TyMaps
  <1>7. Cardinality(CountedAll(c, n))' = Cardinality(CountedAll(c, n)')
    OBVIOUS
  <1> HIDE DEF CountedAll
  <1> QED
    BY <1>4, <1>5, <1>6, <1>7 DEF Agree

(* Storing an entry counts the context at one more place, or one less.     *)
Stored(t, v) ==
  nsqMap' = [nsqMap EXCEPT ![loc[t].mcpu] = [nsqMap[loc[t].mcpu] EXCEPT ![loc[t].mnq] = v]]

LEMMA StoredAt ==
  ASSUME TInv, NEW t \in Tasks, loc[t].mcpu \in Cpus, loc[t].mnq \in Nqs, NEW v, Stored(t, v), NEW c \in Cpus, NEW n \in Nqs
  PROVE  nsqMap'[c][n] = IF c = loc[t].mcpu /\ n = loc[t].mnq THEN v ELSE nsqMap[c][n]
  BY DEF Stored, TInv, Types, TyMaps

LEMMA NStore ==
  ASSUME TInv, Orderly, NInv, UNCHANGED setup, NEW t \in Tasks, NEW o \in Tasks, OthersSame(t),
         Only(t, o), Only(t, o)', \A p \in Tasks : SameCtx(p),
         Worker(t) => Subject(t) = o, Worker(t)' => Subject(t)' = o, NoFailure' => NoFailure,
         loc[t].mcpu \in Cpus, loc[t].mnq \in Nqs, NEW v \in Nat, v = nsqMap[loc[t].mcpu][loc[t].mnq],
         \/ /\ Stored(t, v + 1) /\ ~Mine(t, o, loc[t].mcpu, loc[t].mnq)
            /\ \A c, n : Mine(t, o, c, n)' <=> Mine(t, o, c, n) \/ (c = loc[t].mcpu /\ n = loc[t].mnq)
         \/ /\ v > 0 => Stored(t, v - 1)
            /\ Mine(t, o, loc[t].mcpu, loc[t].mnq)
            /\ \A c, n : Mine(t, o, c, n)' <=> Mine(t, o, c, n) /\ ~(c = loc[t].mcpu /\ n = loc[t].mnq)
  PROVE  NInv' /\ (Mine(t, o, loc[t].mcpu, loc[t].mnq) => v > 0)
  <1>10. PICK a \in Cpus : a = loc[t].mcpu
    OBVIOUS
  <1>11. PICK b \in Nqs : b = loc[t].mnq
    OBVIOUS
  <1>9. \A c, n : Cardinality(CountedAll(c, n))' = Cardinality(CountedAll(c, n)')
    OBVIOUS
  <1>1. \A c, n : \A p \in Tasks \ {o} : CountedAt(p, c, n)' <=> CountedAt(p, c, n)
    BY CountFrame
  <1>2. \A c, n : (CountedAt(o, c, n)' <=> Mine(t, o, c, n)') /\ (CountedAt(o, c, n) <=> Mine(t, o, c, n))
    BY CountedMine
  <1>3. \A c \in Cpus, n \in Nqs : Agree(c, n) /\ nsqMap[c][n] \in Nat
    BY DEF NInv, TInv, Types, TyMaps
  <1>4. \A c, n : /\ IsFiniteSet(CountedAll(c, n)) /\ Cardinality(CountedAll(c, n)) \in Nat
                  /\ IsFiniteSet(CountedAll(c, n)') /\ Cardinality(CountedAll(c, n)') \in Nat
    BY OrderlyFacts, CountSizes
  <1>5. Mine(t, o, a, b) => v > 0
    <2> HAVE Mine(t, o, a, b)
    <2>1. o \in CountedAll(a, b)
      BY <1>2, <1>10, <1>11 DEF CountedAll
    <2>2. Cardinality(CountedAll(a, b)) # 0
      BY <1>4, <2>1, FS_EmptySet
    <2> QED
      BY <1>3, <1>4, <1>10, <1>11, <2>2 DEF Agree
  <1>6. ASSUME NEW c \in Cpus, NEW n \in Nqs, ~(c = a /\ n = b) PROVE Agree(c, n)'
    <2>3. Mine(t, o, c, n)' <=> Mine(t, o, c, n)
      BY <1>6, <1>10, <1>11
    <2>4. \A p \in Tasks : CountedAt(p, c, n)' <=> CountedAt(p, c, n)
      BY <1>1, <1>2, <2>3
    <2>1. CountedAll(c, n)' = CountedAll(c, n)
      BY <2>4 DEF CountedAll
    <2>2. nsqMap'[c][n] = nsqMap[c][n]
      BY <1>5, <1>6, <1>10, <1>11, StoredAt
    <2> QED
      BY <1>3, <1>9, <2>1, <2>2, SameSetup DEF Agree
  <1>7. Agree(a, b)'
    <2>1. CASE Stored(t, v + 1) /\ ~Mine(t, o, a, b) /\ Mine(t, o, a, b)'
      <3>1. CountedAll(a, b)' = CountedAll(a, b) \cup {o} /\ o \notin CountedAll(a, b)
        BY <1>1, <1>2, <2>1 DEF CountedAll
      <3>2. Cardinality(CountedAll(a, b)') = Cardinality(CountedAll(a, b)) + 1
        BY <1>4, <3>1, FS_AddElement
      <3>3. nsqMap'[a][b] = v + 1
        BY <1>10, <1>11, <2>1, StoredAt
      <3> QED
        BY <1>3, <1>4, <1>9, <1>10, <1>11, <3>2, <3>3, SameSetup DEF Agree
    <2>2. CASE Stored(t, v - 1) /\ Mine(t, o, a, b) /\ ~Mine(t, o, a, b)'
      <3>1. CountedAll(a, b)' = CountedAll(a, b) \ {o} /\ o \in CountedAll(a, b)
        BY <1>1, <1>2, <2>2 DEF CountedAll
      <3>2. Cardinality(CountedAll(a, b)') = Cardinality(CountedAll(a, b)) - 1
        BY <1>4, <3>1, FS_RemoveElement
      <3>3. nsqMap'[a][b] = v - 1
        BY <1>10, <1>11, <2>2, StoredAt
      <3> QED
        BY <1>3, <1>4, <1>9, <1>10, <1>11, <3>2, <3>3, SameSetup DEF Agree
    <2> QED
      BY <1>5, <1>10, <1>11, <2>1, <2>2
  <1>8. NInv'
    BY <1>6, <1>7, SameSetup DEF NInv
  <1> QED
    BY <1>5, <1>8, <1>10, <1>11

-----------------------------------------------------------------------------
(* A step of one task, put together. *)
Within(t) == (Clear(t) \/ ~Section(t)') /\ (cpu'[t] = cpu[t] \/ ~Section(t)')
Steps(t) ==
  /\ UNCHANGED setup /\ pc[t] # "dead" /\ OthersSame(t) /\ Grows(t) /\ Within(t)
  /\ AtHome(t)' /\ Owned(t)' /\ Called(t)'
  /\ Budget' /\ (NoFailure' => NoFailure)

LEMMA OnlyMine ==
  ASSUME TInv, Orderly, KInv, NEW t \in Tasks, Worker(t)
  PROVE  Only(t, Subject(t))
  BY OneWorker DEF Only, KInv

LEMMA OnlyPublished ==
  ASSUME TInv, Orderly, KInv, NEW t \in Tasks, t \in setup.tasks, NEW o \in Tasks, ctx[IoOf(t)] = o
  PROVE  Only(t, o)
  <1>1. HInv /\ OInv /\ IoOf(t) \in Tasks
    BY OrderlyFacts DEF KInv
  <1>2. o \in setup.tasks /\ IoOf(o) = IoOf(t)
    BY <1>1 DEF OInv, Owned
  <1>3. o = t
    BY <1>2, AloneFacts
  <1> QED
    BY <1>1, <1>3, WorkersFacts, OrderlyFacts DEF Only

LEMMA OnlyNew ==
  ASSUME TInv, Orderly, KInv, NEW t \in Tasks, ~OnTheDevice(t)
  PROVE  Only(t, t)
  BY WorkersFacts DEF Only, KInv

LEMMA OnlyStays ==
  ASSUME UNCHANGED setup, NEW t, OthersSame(t), NEW o, Only(t, o)
  PROVE  Only(t, o)'
  BY SameWork DEF Only, OthersSame

LEMMA HOStep ==
  ASSUME TInv, Orderly, KInv, NEW t \in Tasks, Steps(t), NEW o \in Tasks, \A p \in Tasks \ {o} : SameCtx(p),
         o # t => /\ obj'[o].live = obj[o].live
                  /\ obj'[o].last = obj[o].last \/ obj'[o].last \in setup.home[o]
  PROVE  HInv' /\ OInv' /\ Budget'
  <1>1. /\ UNCHANGED setup /\ OthersSame(t) /\ Grows(t) /\ Within(t) /\ AtHome(t)' /\ Owned(t)' /\ HInv /\ OInv
        /\ setup.tasks \subseteq Tasks /\ None \notin Tasks /\ \A u \in Tasks : IoOf(u) \in Tasks
    BY OrderlyFacts DEF Steps, KInv
  <1>3. \A u \in Tasks \ {t} : /\ obj'[u].live = obj[u].live
                               /\ obj'[u].last = obj[u].last \/ obj'[u].last \in setup.home[u]
    BY DEF SameCtx
  <1>4. HInv'
    <2>1. \A u \in Tasks \ {t} : obj'[u].live => obj[u].live
      BY <1>3
    <2> QED
      BY <1>1, <2>1, HStep DEF Within, OthersSame
  <1>5. OInv'
    <2>1. \A u \in Tasks \ {t} : Owned(u)'
      BY <1>1, <1>3, OFrame DEF OthersSame
    <2> QED
      BY <1>1, <2>1 DEF OInv
  <1> QED
    BY <1>4, <1>5 DEF Steps

LEMMA CStep ==
  ASSUME TInv, Orderly, KInv, NEW t \in Tasks, Steps(t), NEW o \in Tasks, \A p \in Tasks \ {o} : SameCtx(p),
         Only(t, o) \/ SameCtx(o),
         \A u \in Tasks \ {t} : pc[u] \in {"set_store", "clear_store"} =>
            nsqMap'[loc[u].mcpu][loc[u].mnq] = nsqMap[loc[u].mcpu][loc[u].mnq]
  PROVE  CInv'
  <1>1. UNCHANGED setup /\ OthersSame(t) /\ Called(t)' /\ CInv /\ HInv /\ OInv
    BY DEF Steps, KInv
  <1>2. ASSUME NEW u \in Tasks \ {t} PROVE Called(u)'
    <2>1. Worker(u) => SameCtx(Subject(u))
      BY <1>1, WorkersFacts DEF Only
    <2>2. Same(u) /\ Called(u)
      BY <1>1 DEF OthersSame, CInv
    <2> QED
      BY <1>1, <2>1, <2>2, CFrame DEF SameCtx
  <1> QED
    BY <1>1, <1>2 DEF CInv

(* The task works on the context before or after the step. *)
LEMMA WorkStep ==
  ASSUME TInv, Orderly, KInv, NEW t \in Tasks, Steps(t), NEW o \in Tasks, \A p \in Tasks \ {o} : SameCtx(p),
         o # t => /\ obj'[o].live = obj[o].live
                  /\ obj'[o].last = obj[o].last \/ obj'[o].last \in setup.home[o],
         UNCHANGED nsqMap, Only(t, o), Worker(t) => Subject(t) = o, Worker(t)' => Subject(t)' = o,
         \A c, n : Mine(t, o, c, n)' => Mine(t, o, c, n),
         NoFailure' => \A c \in Cpus, n \in Nqs : Mine(t, o, c, n) => Mine(t, o, c, n)'
  PROVE  KInv'
  <1>1. HInv' /\ OInv' /\ Budget'
    BY HOStep
  <1>2. CInv'
    BY CStep
  <1>3. NInv'
    <2>1. Only(t, o)' /\ UNCHANGED setup /\ OthersSame(t) /\ (NoFailure' => NoFailure)
      BY OnlyStays DEF Steps
    <2> QED
      BY <2>1, NStep DEF KInv
  <1> QED
    BY <1>1, <1>2, <1>3 DEF KInv

(* The task works on no context before and after. *)
LEMMA IdleStep ==
  ASSUME TInv, Orderly, KInv, NEW t \in Tasks, Steps(t), \A p \in Tasks : SameCtx(p),
         UNCHANGED nsqMap, ~Worker(t), ~Worker(t)'
  PROVE  KInv'
  <1>1. HInv' /\ OInv' /\ Budget'
    BY HOStep
  <1>2. CInv'
    BY CStep
  <1>3. ASSUME NEW c \in Cpus, NEW n \in Nqs PROVE Agree(c, n)'
    <2>1. UNCHANGED setup /\ OthersSame(t) /\ (NoFailure' => NoFailure)
      BY DEF Steps
    <2>2. \A o \in Tasks : CountedAt(o, c, n)' <=> CountedAt(o, c, n)
      BY <2>1, CountFrame
    <2>3. CountedAll(c, n)' = CountedAll(c, n)
      BY <2>2 DEF CountedAll
    <2>4. Cardinality(CountedAll(c, n))' = Cardinality(CountedAll(c, n)')
      OBVIOUS
    <2>5. Agree(c, n)
      BY <1>3 DEF KInv, NInv
    <2> HIDE DEF CountedAll
    <2> QED
      BY <2>1, <2>3, <2>4, <2>5, SameSetup DEF Agree
  <1>4. NInv'
    <2>1. Cpus' = Cpus /\ Nqs' = Nqs
      BY SameSetup DEF Steps
    <2> QED
      BY <1>3, <2>1 DEF NInv
  <1> QED
    BY <1>1, <1>2, <1>4 DEF KInv

-----------------------------------------------------------------------------
(* The actions.  First those of a task that works on its context. *)
LEMMA CallsTo ==
  ASSUME TInv, NEW t \in Tasks, NEW op, op \in MapOps, NEW l \in LocType, NEW c, NEW n, NEW s, UNCHANGED <<cpu, io>>,
         Call(t, op, c, n, s, l)
  PROVE  /\ OthersSame(t) /\ pc'[t] = op /\ Stage(t)' = s /\ loc'[t].mcpu = c /\ loc'[t].mnq = n /\ loc'[t].next = s
         /\ loc'[t].ctx = l.ctx /\ loc'[t].nq = l.nq /\ loc'[t].prio = l.prio /\ loc'[t].cpu = l.cpu
         /\ loc'[t].old = l.old /\ loc'[t].changed = l.changed
  <1>1. t \in Contexts /\ pc \in [Contexts -> Labels] /\ loc \in [Contexts -> LocType] /\ Tasks \subseteq Contexts
    BY DEF TInv, Types, TyEnv, Contexts
  <1> DEFINE m == [l EXCEPT !.mcpu = c, !.mnq = n, !.next = s]
  <1>2. pc' = [pc EXCEPT ![t] = op] /\ loc' = [loc EXCEPT ![t] = m]
    BY DEF Call, Goto
  <1>3. /\ m.mcpu = c /\ m.mnq = n /\ m.next = s /\ m.ctx = l.ctx /\ m.nq = l.nq /\ m.prio = l.prio /\ m.cpu = l.cpu
        /\ m.old = l.old /\ m.changed = l.changed
    BY DEF LocType
  <1> HIDE DEF m
  <1>4. pc'[t] = op /\ loc'[t] = m /\ \A u \in Tasks \ {t} : pc'[u] = pc[u] /\ loc'[u] = loc[u]
    BY <1>1, <1>2
  <1>5. OthersSame(t)
    BY <1>4 DEF OthersSame, Same, IoKept
  <1> QED
    BY <1>3, <1>4, <1>5 DEF Stage

LEMMA HomeStep ==
  ASSUME NEW t \in Tasks, AtHome(t), UNCHANGED <<setup, cpu, io>>, pc[t] # "dead", ~loc'[t].changed,
         Stage(t)' \notin Gone => Stage(t) \notin Gone
  PROVE  AtHome(t)'
  BY DEF AtHome, IoOf

LEMMA OwnedStep ==
  ASSUME NEW t \in Tasks, Owned(t), UNCHANGED <<setup, ctx, io>>, pc[t] # "dead", pc'[t] # "dead",
         Stage(t) \notin Gone \cup Making, Stage(t)' \notin {"init"} \cup Making \cup Gone, loc'[t].ctx = loc[t].ctx,
         Stage(t)' \in Profiling => Stage(t) \in Profiling, obj'[t].live = obj[t].live,
         obj'[t].last = obj[t].last \/ obj'[t].last \in setup.home[t]
  PROVE  Owned(t)'
  <1>1. /\ IoOf(t)' = IoOf(t) /\ (OnTheDevice(t)' <=> OnTheDevice(t))
    BY SameSetup DEF OnTheDevice
  <1>2. "free" \in Gone /\ "init_end" \in Making /\ "free" \notin Profiling
    BY DEF Gone, Making, Profiling
  <1>3. \A x \in Tasks : ctx'[x] = t => x = IoOf(t) /\ t \in setup.tasks /\ io'[t] = x
    BY DEF Owned
  <1>4. Stage(t)' \in Profiling \cup {"free"} => loc'[t].ctx # None /\ ctx'[IoOf(t)] = loc'[t].ctx
    BY <1>2 DEF Owned
  <1>5. obj'[t].live => OnTheDevice(t)
    BY DEF Owned
  <1>6. (obj'[t].live \/ OnTheDevice(t)) => obj'[t].last \in setup.home[t]
    BY <1>2 DEF Owned
  <1>7. OnTheDevice(t) => obj'[t].live
    BY DEF Owned
  <1> QED
    BY <1>1, <1>3, <1>4, <1>5, <1>6, <1>7 DEF Owned

LEMMA ProfStep ==
  ASSUME TInv, Orderly, KInv, NEW t \in Tasks, NEW o, o = Subject(t), Stage(t) \in Profiling, Clear(t), OthersSame(t),
         UNCHANGED <<setup, cpu, io, ctx, left, nsqMap>>, loc'[t].ctx = loc[t].ctx, ~loc'[t].changed,
         Stage(t)' \in Profiling \cup {"route", "oops"}, pc'[t] # "dead",
         \A p \in Tasks \ {o} : SameCtx(p), obj'[o].live = obj[o].live, obj'[o].last \in {obj[o].last, cpu[t]},
         Called(t)', \A c, n : Mine(t, o, c, n)' <=> Mine(t, o, c, n)
  PROVE  KInv'
  <1>1. Worker(t) /\ HInv /\ OInv /\ Budget /\ AtHome(t) /\ Owned(t) /\ setup.tasks \subseteq Tasks
    BY OrderlyFacts DEF Worker, KInv, HInv, OInv
  <1>2. o \in Tasks /\ cpu[t] \in setup.home[o] /\ Only(t, o)
    BY <1>1, WorkersFacts, OnlyMine
  <1>3. pc[t] # "dead" /\ Stage(t) \notin Gone \cup Making
        /\ Stage(t)' \notin {"init"} \cup Making \cup Gone
    BY DEF Stage, Profiling, Making, Gone, MapOps
  <1>5. AtHome(t)'
    BY <1>1, <1>3, HomeStep
  <1>6. obj'[t].live = obj[t].live /\ (obj'[t].last = obj[t].last \/ obj'[t].last \in setup.home[t])
    BY <1>2 DEF SameCtx
  <1>7. Owned(t)'
    BY <1>1, <1>3, <1>6, OwnedStep
  <1>8. Steps(t)
    <2>1. Grows(t) /\ Within(t) /\ Budget' /\ (NoFailure' => NoFailure)
      BY <1>1 DEF Grows, Within, Budget, NoFailure
    <2> QED
      BY <1>3, <1>5, <1>7, <2>1 DEF Steps
  <1>9. Worker(t)' => Subject(t)' = o
    <2>1. Stage(t) \notin Making /\ Stage(t)' \notin Making
      BY <1>3
    <2> QED
      BY <2>1 DEF Subject
  <1> QED
    BY <1>2, <1>8, <1>9, WorkStep

(* What is called for at the next place, outside the maps. *)
LEMMA CalledGo ==
  ASSUME NEW t \in Tasks, UNCHANGED cpu, NEW q, q \notin MapOps, Stage(t)' = q, pc'[t] = q, NEW o, Subject(t)' = o,
         Locals(q, loc'[t], cpu[t], obj'[o].hctx)
  PROVE  Called(t)'
  <1>1. q \notin {"set_store", "clear_store"}
    BY DEF MapOps
  <1> QED
    BY <1>1 DEF Called

(* A task at work on its context. *)
LEMMA AtWork ==
  ASSUME TInv, Orderly, KInv, NEW t \in Tasks, NEW p, p \in Profiling, At(t, p)
  PROVE  LET o == loc[t].ctx IN
         /\ pc[t] = p /\ Stage(t) = p /\ Worker(t) /\ Subject(t) = o /\ o \in Tasks /\ Clear(t) /\ ~loc[t].changed
         /\ loc[t] \in LocType /\ obj[o] \in ObjType /\ obj[o].hctx \in Nqs /\ Called(t) /\ obj[o].live
         /\ obj \in [Tasks -> ObjType] /\ p \notin MapOps /\ t \in setup.tasks /\ o = t
         /\ loc = [loc EXCEPT ![t] = loc[t]]
  <1>1. pc[t] = p /\ Clear(t) /\ p \notin MapOps /\ Stage(t) = p /\ p \notin Making
    BY ClearAt DEF Stage, Profiling, MapOps, Making
  <1>2. Worker(t) /\ Subject(t) = loc[t].ctx
    BY <1>1 DEF Worker, Subject
  <1>3. HInv /\ OInv /\ Called(t) /\ AtHome(t)
    BY DEF KInv, CInv, HInv
  <1>4. /\ loc[t].ctx \in Tasks /\ obj[loc[t].ctx] \in ObjType /\ obj[loc[t].ctx].hctx \in Nqs /\ t \in setup.tasks
        /\ obj[loc[t].ctx].live /\ loc[t].ctx = t
    BY <1>2, <1>3, WorkersFacts, OrderlyFacts
  <1>5. obj \in [Tasks -> ObjType]
    BY DEF TInv, Types
  <1> QED
    BY <1>1, <1>2, <1>3, <1>4, <1>5, SameLoc DEF AtHome

(* It goes on without the maps. *)
LEMMA WorkGoes ==
  ASSUME TInv, Orderly, KInv, UNCHANGED <<setup, cpu, io, ctx, left, nsqMap>>, NEW t \in Tasks,
         NEW p, p \in Profiling, At(t, p), NEW q, q \in Profiling \cup {"route", "oops"},
         NEW m \in LocType, m.ctx = loc[t].ctx, ~m.changed,
         pc' = [pc EXCEPT ![t] = q], loc' = [loc EXCEPT ![t] = m], NEW o, o = loc[t].ctx,
         \A x \in Tasks \ {o} : SameCtx(x), obj'[o].live = obj[o].live, obj'[o].last \in {obj[o].last, cpu[t]},
         Locals(q, m, cpu[t], obj'[o].hctx),
         (Stage(t)' = q /\ pc'[t] = q /\ loc'[t] = m) => \A c, n : Mine(t, o, c, n)' <=> Mine(t, o, c, n)
  PROVE  KInv'
  <1>1. /\ pc[t] = p /\ Stage(t) = p /\ Worker(t) /\ Subject(t) = o /\ o \in Tasks /\ Clear(t)
    BY AtWork
  <1>2. q \notin MapOps /\ q \notin Making /\ q # "dead"
    BY DEF MapOps, Profiling, Making
  <1>9. cpu' = cpu /\ io' = io
    OBVIOUS
  <1>3. OthersSame(t) /\ pc'[t] = q /\ Stage(t)' = q /\ loc'[t] = m
    <2>1. t \in Contexts /\ pc \in [Contexts -> Labels] /\ loc \in [Contexts -> LocType] /\ Tasks \subseteq Contexts
      BY DEF TInv, Types, TyEnv, Contexts
    <2>2. pc'[t] = q /\ loc'[t] = m /\ \A u \in Tasks \ {t} : pc'[u] = pc[u] /\ loc'[u] = loc[u]
      BY <2>1
    <2>3. OthersSame(t)
      BY <1>9, <2>2 DEF OthersSame, Same, IoKept
    <2> QED
      BY <1>2, <2>2, <2>3 DEF Stage
  <1>4. Subject(t)' = o
    BY <1>2, <1>3 DEF Subject
  <1>5. Called(t)'
    BY <1>2, <1>3, <1>4, CalledGo
  <1>6. \A c, n : Mine(t, o, c, n)' <=> Mine(t, o, c, n)
    BY <1>3
  <1>7. loc'[t].ctx = loc[t].ctx /\ ~loc'[t].changed /\ Stage(t)' \in Profiling \cup {"route", "oops"} /\ pc'[t] # "dead"
    BY <1>2, <1>3
  <1>8. UNCHANGED <<setup, cpu, io, ctx, left, nsqMap>> /\ OthersSame(t) /\ o = Subject(t) /\ Stage(t) \in Profiling
    BY <1>1, <1>3
  <1> QED
    BY <1>1, <1>5, <1>6, <1>7, <1>8, ProfStep

Usual == Profiling \ {"moved_set", "moved_end", "unpin", "assign", "pin", "pin_clear"}
LEMMA MineUsual ==
  ASSUME NEW t, NEW o, NEW c, NEW n
  PROVE  /\ pc[t] \in Usual /\ Stage(t) = pc[t] =>
              (Mine(t, o, c, n) <=> obj[o].live /\ obj[o].last = c /\ obj[o].hctx = n)
         /\ pc'[t] \in Usual \cup {"route", "oops", "idle", "dead", "lookup", "init", "io_alloc", "tag"} /\ Stage(t)' = pc'[t] =>
              (Mine(t, o, c, n)' <=> obj'[o].live /\ obj'[o].last = c /\ obj'[o].hctx = n)
  <1>1. ASSUME pc[t] \in Usual, Stage(t) = pc[t]
        PROVE  Mine(t, o, c, n) <=> obj[o].live /\ obj[o].last = c /\ obj[o].hctx = n
    <2>1. Keeps(t) /\ ~Gains(t)
      BY <1>1 DEF Keeps, Gains, Usual, Profiling
    <2> QED
      BY <2>1 DEF Mine
  <1>2. ASSUME pc'[t] \in Usual \cup {"route", "oops", "idle", "dead", "lookup", "init", "io_alloc", "tag"}, Stage(t)' = pc'[t]
        PROVE  Mine(t, o, c, n)' <=> obj'[o].live /\ obj'[o].last = c /\ obj'[o].hctx = n
    <2>1. Keeps(t)' /\ ~Gains(t)'
      BY <1>2 DEF Keeps, Gains, Usual, Profiling
    <2> QED
      BY <2>1 DEF Mine
  <1> QED
    BY <1>1, <1>2

LEMMA UpdateStatsM ==
  ASSUME TInv, Orderly, KInv, UNCHANGED setup, NEW t \in Tasks, UpdateStats(t)
  PROVE  KInv'
  <1>1. /\ At(t, "profile") /\ UNCHANGED <<cpu, io, ctx, left, nsqMap, obj, loc>> /\ pc' = [pc EXCEPT ![t] = "moved"]
    BY OrderlyFacts DEF UpdateStats, mapVars, Goto
  <1>2. "profile" \in Profiling /\ "moved" \in Profiling /\ "profile" \in Usual /\ "moved" \in Usual
        /\ "moved" \notin Updating
    BY DEF Profiling, Usual, Updating, Scheduling
  <1>3. Stage(t) = "profile" /\ pc[t] = "profile" /\ loc[t] \in LocType /\ ~loc[t].changed /\ loc' = [loc EXCEPT ![t] = loc[t]]
        /\ loc[t].ctx \in Tasks
    BY <1>1, <1>2, AtWork
  <1>4. PICK o \in Tasks : o = loc[t].ctx
    BY <1>3
  <1>5. \A x : SameCtx(x)
    BY <1>1 DEF SameCtx
  <1>6. Stage(t)' = "moved" /\ pc'[t] = "moved" => \A c, n : Mine(t, o, c, n)' <=> Mine(t, o, c, n)
    BY <1>1, <1>2, <1>3, MineUsual
  <1> QED
    BY <1>1, <1>2, <1>3, <1>4, <1>5, <1>6, WorkGoes DEF SameCtx, Locals

LEMMA TakeNoticeM ==
  ASSUME TInv, Orderly, KInv, UNCHANGED setup, NEW t \in Tasks, TakeNotice(t)
  PROVE  KInv'
  <1>1. At(t, "notice") /\ "notice" \in Profiling /\ "notice" \in Usual
    BY DEF TakeNotice, Profiling, Usual
  <1>2. /\ Stage(t) = "notice" /\ pc[t] = "notice" /\ loc[t] \in LocType /\ ~loc[t].changed /\ loc = [loc EXCEPT ![t] = loc[t]]
        /\ Called(t) /\ Subject(t) = loc[t].ctx /\ loc[t].ctx \in Tasks /\ obj \in [Tasks -> ObjType]
    BY <1>1, AtWork
  <1>3. PICK o \in Tasks : o = loc[t].ctx
    BY <1>2
  <1>4. /\ UNCHANGED <<cpu, io, ctx, left, nsqMap, loc>>
        /\ obj' = [obj EXCEPT ![o] = [obj[o] EXCEPT !.need = FALSE]]
    BY <1>3 DEF TakeNotice, mapVars
  <1>5. PICK q \in {"resched", "outlier"} : pc' = [pc EXCEPT ![t] = q]
    BY DEF TakeNotice, Goto
  <1>6. q \in Profiling /\ q \in Usual /\ q \notin Updating
    BY DEF Profiling, Usual, Updating, Scheduling
  <1>7. obj'[o].live = obj[o].live /\ obj'[o].last = obj[o].last /\ obj'[o].hctx = obj[o].hctx
        /\ \A x \in Tasks \ {o} : SameCtx(x)
    BY <1>2, <1>4 DEF ObjType, SameCtx
  <1>9. Stage(t)' = q /\ pc'[t] = q => \A c, n : Mine(t, o, c, n)' <=> Mine(t, o, c, n)
    BY <1>1, <1>2, <1>6, <1>7, MineUsual
  <1>10. q \notin {"init_end", "pin_clear", "unpin"} /\ q \notin {"recommend", "pin", "pin_clear", "unpin"} /\ q \in Profiling \cup {"route", "oops"}
    BY <1>6
  <1>12. UNCHANGED <<setup, cpu, io, ctx, left, nsqMap>>
    BY <1>4
  <1>11. loc' = [loc EXCEPT ![t] = loc[t]] /\ obj'[o].last \in {obj[o].last, cpu[t]}
    BY <1>2, <1>4, <1>7
  <1>13. Locals(q, loc[t], cpu[t], obj'[o].hctx)
    BY <1>6, <1>10 DEF Locals
  <1> QED
    BY <1>1, <1>2, <1>3, <1>5, <1>7, <1>9, <1>10, <1>11, <1>12, <1>13, WorkGoes

(* No pattern changes without profiling. *)
LEMMA OutlierM ==
  ASSUME TInv, Orderly, KInv, UNCHANGED setup, NEW t \in Tasks, Outlier(t)
  PROVE  KInv'
  <1>1. At(t, "outlier") /\ "outlier" \in Profiling /\ "outlier" \in Usual /\ "route" \notin Updating
    BY DEF Outlier, Profiling, Usual, Updating, Scheduling
  <1>2. Stage(t) = "outlier" /\ pc[t] = "outlier" /\ loc[t] \in LocType /\ ~loc[t].changed /\ loc = [loc EXCEPT ![t] = loc[t]]
        /\ loc[t].ctx \in Tasks
    BY <1>1, AtWork
  <1>3. PICK o \in Tasks : o = loc[t].ctx
    BY <1>2
  <1>4. UNCHANGED <<cpu, io, ctx, left, nsqMap, obj, loc>> /\ pc' = [pc EXCEPT ![t] = "route"]
    BY <1>2 DEF Outlier, mapVars, Goto
  <1>5. \A x : SameCtx(x)
    BY <1>4 DEF SameCtx
  <1>6. Stage(t)' = "route" /\ pc'[t] = "route" => \A c, n : Mine(t, o, c, n)' <=> Mine(t, o, c, n)
    BY <1>1, <1>2, <1>4, MineUsual
  <1> QED
    BY <1>1, <1>2, <1>3, <1>4, <1>5, <1>6, WorkGoes DEF SameCtx, Locals

(* It goes on to update a map. *)
LEMMA WorkCalls ==
  ASSUME TInv, Orderly, KInv, UNCHANGED <<setup, cpu, io, ctx, obj, left, nsqMap>>, NEW t \in Tasks,
         NEW p, p \in Profiling, At(t, p), NEW op, op \in {"set", "clear"}, NEW s, s \in Profiling,
         NEW l \in LocType, l.ctx = loc[t].ctx, ~l.changed, NEW e, NEW b, Call(t, op, e, b, s, l), NEW o, o = loc[t].ctx,
         Locals(s, l, cpu[t], obj[o].hctx),
         \/ s = "moved_set" /\ op = "clear" /\ e = obj[o].last /\ b = obj[o].hctx
         \/ s = "moved_end" /\ op = "set" /\ e = cpu[t] /\ b = obj[o].hctx
         \/ s = "pin" /\ op = "clear" /\ e = obj[o].last /\ b = obj[o].hctx /\ e # cpu[t]
         \/ s = "pin_clear" /\ op = "set" /\ e = cpu[t] /\ b = l.nq
         \/ s = "unpin" /\ op = "clear" /\ e = cpu[t] /\ b = obj[o].hctx,
         (Stage(t)' = s /\ pc'[t] = op /\ loc'[t].nq = l.nq /\ Worker(t)' /\ Subject(t)' = o) =>
            \A c, n : Mine(t, o, c, n)' <=> Mine(t, o, c, n)
  PROVE  KInv'
  <1>1. /\ pc[t] = p /\ Stage(t) = p /\ Worker(t) /\ Subject(t) = o /\ o \in Tasks /\ Clear(t)
    BY AtWork
  <1>2. op \in MapOps /\ s \notin Making /\ op \in Sets \cup Clears /\ op # "dead" /\ s # "init_end" /\ op \notin {"set_store", "clear_store"}
    BY DEF MapOps, Profiling, Making, Sets, Clears
  <1>3. t \in Contexts /\ pc \in [Contexts -> Labels] /\ loc \in [Contexts -> LocType] /\ Tasks \subseteq Contexts
    BY DEF TInv, Types, TyEnv, Contexts
  <1>4. /\ OthersSame(t) /\ pc'[t] = op /\ Stage(t)' = s /\ loc'[t].mcpu = e /\ loc'[t].mnq = b /\ loc'[t].next = s
        /\ loc'[t].ctx = l.ctx /\ loc'[t].nq = l.nq /\ loc'[t].prio = l.prio /\ loc'[t].cpu = l.cpu
        /\ loc'[t].old = l.old /\ loc'[t].changed = l.changed
    BY <1>2, CallsTo
  <1>5. Subject(t)' = o /\ Worker(t)'
    BY <1>2, <1>4 DEF Subject, Worker
  <1>6. Called(t)'
    <2>1. obj[Subject(t)]' = obj[o]
      BY <1>5
    <2> QED
      BY <1>2, <1>4, <1>5, <2>1 DEF Called, Locals, Sets, Clears
  <1>7. \A c, n : Mine(t, o, c, n)' <=> Mine(t, o, c, n)
    BY <1>4, <1>5
  <1>8. UNCHANGED <<setup, cpu, io, ctx, left, nsqMap>> /\ Stage(t) \in Profiling /\ Stage(t)' \in Profiling \cup {"route", "oops"}
        /\ \A x \in Tasks : SameCtx(x)
    BY <1>1, <1>4 DEF SameCtx
  <1>9. obj'[o].live = obj[o].live /\ obj'[o].last \in {obj[o].last, cpu[t]} /\ pc'[t] # "dead" /\ ~loc'[t].changed
        /\ loc'[t].ctx = loc[t].ctx
    BY <1>2, <1>4
  <1> QED
    BY <1>1, <1>4, <1>6, <1>7, <1>8, <1>9, ProfStep

LEMMA ClearOldCpuM ==
  ASSUME TInv, Orderly, KInv, UNCHANGED setup, NEW t \in Tasks, ClearOldCpu(t)
  PROVE  KInv'
  <1>1. At(t, "moved") /\ UNCHANGED <<setup, cpu, io, ctx, obj, left, nsqMap>> /\ "moved" \in Profiling /\ "moved" \in Usual
    BY DEF ClearOldCpu, mapVars, Profiling, Usual
  <1>2. /\ Stage(t) = "moved" /\ pc[t] = "moved" /\ loc[t] \in LocType /\ ~loc[t].changed /\ loc = [loc EXCEPT ![t] = loc[t]]
        /\ loc[t].ctx \in Tasks /\ Worker(t) /\ Subject(t) = loc[t].ctx
    BY <1>1, AtWork
  <1>3. PICK o \in Tasks : o = loc[t].ctx
    BY <1>2
  <1>4. \A x : SameCtx(x)
    BY <1>1 DEF SameCtx
  <1>5. CASE obj[o].last # cpu[t]
    <2>1. Call(t, "clear", obj[o].last, obj[o].hctx, "moved_set", loc[t])
      BY <1>3, <1>5 DEF ClearOldCpu
    <2>2. ASSUME Stage(t)' = "moved_set", pc'[t] = "clear", Worker(t)', Subject(t)' = o, NEW c, NEW n
          PROVE  Mine(t, o, c, n)' <=> Mine(t, o, c, n)
      <3>1. Keeps(t) /\ ~Gains(t) /\ Keeps(t)' /\ ~Gains(t)'
        BY <1>2, <2>2 DEF Keeps, Gains, MapOps
      <3> QED
        BY <1>1, <1>2, <1>3, <2>2, <3>1 DEF Mine
    <2>3. "moved_set" \in Profiling /\ "moved_set" \notin Updating
      BY DEF Profiling, Updating, Scheduling
    <2> QED
      BY <1>1, <1>2, <1>3, <2>1, <2>2, <2>3, WorkCalls DEF Locals
  <1>6. CASE obj[o].last = cpu[t]
    <2>1. loc' = [loc EXCEPT ![t] = loc[t]] /\ pc' = [pc EXCEPT ![t] = "notice"]
      BY <1>2, <1>3, <1>6 DEF ClearOldCpu, Goto
    <2>2. "notice" \in Profiling /\ "notice" \in Usual /\ "notice" \notin Updating
      BY DEF Profiling, Usual, Updating, Scheduling
    <2>3. Stage(t)' = "notice" /\ pc'[t] = "notice" => \A c, n : Mine(t, o, c, n)' <=> Mine(t, o, c, n)
      BY <1>1, <1>2, <2>2, MineUsual
    <2>4. UNCHANGED <<setup, cpu, io, ctx, left, nsqMap>> /\ obj' = obj
      BY <1>1
    <2> QED
      BY <1>1, <1>2, <1>3, <1>4, <1>6, <2>1, <2>2, <2>3, <2>4, WorkGoes DEF Locals
  <1> QED
    BY <1>5, <1>6

LEMMA SetNewCpuM ==
  ASSUME TInv, Orderly, KInv, UNCHANGED setup, NEW t \in Tasks, SetNewCpu(t)
  PROVE  KInv'
  <1>1. At(t, "moved_set") /\ UNCHANGED <<setup, cpu, io, ctx, obj, left, nsqMap>> /\ "moved_set" \in Profiling
    BY DEF SetNewCpu, mapVars, Profiling
  <1>2. /\ Stage(t) = "moved_set" /\ pc[t] = "moved_set" /\ loc[t] \in LocType /\ ~loc[t].changed
        /\ loc[t].ctx \in Tasks /\ Worker(t) /\ Subject(t) = loc[t].ctx
    BY <1>1, AtWork
  <1>3. PICK o \in Tasks : o = loc[t].ctx
    BY <1>2
  <1>4. Call(t, "set", cpu[t], obj[o].hctx, "moved_end", loc[t])
    BY <1>3 DEF SetNewCpu
  <1>5. ASSUME Stage(t)' = "moved_end", pc'[t] = "set", Worker(t)', Subject(t)' = o, NEW c, NEW n
        PROVE  Mine(t, o, c, n)' <=> Mine(t, o, c, n)
    <2>1. ~Keeps(t) /\ ~Gains(t) /\ ~Keeps(t)' /\ ~Gains(t)'
      BY <1>2, <1>5 DEF Keeps, Gains, MapOps
    <2> QED
      BY <1>2, <1>3, <1>5, <2>1 DEF Mine
  <1>6. "moved_end" \in Profiling /\ "moved_end" \notin Updating
    BY DEF Profiling, Updating, Scheduling
  <1> QED
    BY <1>1, <1>2, <1>3, <1>4, <1>5, <1>6, WorkCalls DEF Locals

LEMMA MoveEndM ==
  ASSUME TInv, Orderly, KInv, UNCHANGED setup, NEW t \in Tasks, MoveEnd(t)
  PROVE  KInv'
  <1>1. At(t, "moved_end") /\ UNCHANGED <<setup, cpu, io, ctx, left, nsqMap>> /\ "moved_end" \in Profiling
    BY DEF MoveEnd, mapVars, Profiling
  <1>2. /\ Stage(t) = "moved_end" /\ pc[t] = "moved_end" /\ loc[t] \in LocType /\ ~loc[t].changed /\ loc = [loc EXCEPT ![t] = loc[t]]
        /\ loc[t].ctx \in Tasks /\ Worker(t) /\ Subject(t) = loc[t].ctx /\ obj \in [Tasks -> ObjType]
        /\ obj[loc[t].ctx].live
    BY <1>1, AtWork
  <1>3. PICK o \in Tasks : o = loc[t].ctx
    BY <1>2
  <1>4. obj' = [obj EXCEPT ![o] = [obj[o] EXCEPT !.last = cpu[t]]] /\ loc' = [loc EXCEPT ![t] = loc[t]] /\ pc' = [pc EXCEPT ![t] = "notice"]
    BY <1>2, <1>3 DEF MoveEnd, Goto
  <1>5. obj'[o].live = obj[o].live /\ obj'[o].last = cpu[t] /\ obj'[o].hctx = obj[o].hctx /\ \A x \in Tasks \ {o} : SameCtx(x)
    BY <1>2, <1>4 DEF ObjType, SameCtx
  <1>6. "notice" \in Profiling /\ "notice" \in Usual /\ "notice" \notin Updating
    BY DEF Profiling, Usual, Updating, Scheduling
  <1>7. ASSUME Stage(t)' = "notice", pc'[t] = "notice", NEW c, NEW n
        PROVE  Mine(t, o, c, n)' <=> Mine(t, o, c, n)
    <2>1. ~Keeps(t) /\ Gains(t) /\ NewNq(t) = obj[o].hctx /\ NewCpu(t) = cpu[t]
      BY <1>2, <1>3 DEF Keeps, Gains, NewNq, NewCpu
    <2>2. Mine(t, o, c, n)' <=> obj'[o].live /\ obj'[o].last = c /\ obj'[o].hctx = n
      BY <1>6, <1>7, MineUsual
    <2> QED
      BY <1>2, <1>3, <1>5, <1>7, <2>1, <2>2 DEF Mine
  <1>8. Locals("notice", loc[t], cpu[t], obj'[o].hctx)
    BY <1>6 DEF Locals
  <1> QED
    BY <1>1, <1>2, <1>3, <1>4, <1>5, <1>6, <1>7, <1>8, WorkGoes

(* The default NQ is right, or recommended again. *)
LEMMA NqStays ==
  ASSUME TInv, Orderly, KInv, UNCHANGED <<setup, cpu, io, ctx, obj, left, nsqMap>>, NEW t \in Tasks,
         NEW p, p \in {"resched", "recommend"}, At(t, p), NEW m \in LocType, m.ctx = loc[t].ctx, ~m.changed,
         m.nq = obj[loc[t].ctx].hctx, m.prio # OutlierPrio,
         pc' = [pc EXCEPT ![t] = "assign"], loc' = [loc EXCEPT ![t] = m]
  PROVE  KInv'
  <1>1. p \in Profiling /\ p \in Usual /\ "assign" \in Profiling
    BY DEF Profiling, Usual
  <1>2. /\ Stage(t) = p /\ pc[t] = p /\ loc[t].ctx \in Tasks /\ Worker(t) /\ Subject(t) = loc[t].ctx
        /\ obj[loc[t].ctx].live
    BY <1>1, AtWork
  <1>3. PICK o \in Tasks : o = loc[t].ctx
    BY <1>2
  <1>4. ASSUME Stage(t)' = "assign", pc'[t] = "assign", loc'[t] = m, NEW c, NEW b
        PROVE  Mine(t, o, c, b)' <=> Mine(t, o, c, b)
    <2>1. Mine(t, o, c, b) <=> obj[o].last = c /\ obj[o].hctx = b
      BY <1>1, <1>2, <1>3, <1>4, MineUsual
    <2>2. Worker(t)' /\ Subject(t)' = o
      BY <1>1, <1>3, <1>4 DEF Worker, Subject, Making
    <2>3. ~Keeps(t)' /\ Gains(t)' /\ NewNq(t)' = obj[o].hctx /\ NewCpu(t)' = obj[o].last
      BY <1>3, <1>4, <2>2 DEF Keeps, Gains, NewNq, NewCpu
    <2> QED
      BY <2>1, <2>2, <2>3 DEF Mine
  <1>5. \A x : SameCtx(x)
    BY DEF SameCtx
  <1>6. Locals("assign", m, cpu[t], obj'[o].hctx)
    BY DEF Locals
  <1>7. /\ "assign" \in Profiling \cup {"route", "oops"} /\ obj'[o].live = obj[o].live
        /\ obj'[o].last \in {obj[o].last, cpu[t]} /\ \A x \in Tasks \ {o} : SameCtx(x)
    BY <1>1, <1>5
  <1>8. (Stage(t)' = "assign" /\ pc'[t] = "assign" /\ loc'[t] = m) => \A c, b : Mine(t, o, c, b)' <=> Mine(t, o, c, b)
    BY <1>4
  <1>9. UNCHANGED <<setup, cpu, io, ctx, left, nsqMap>>
    OBVIOUS
  <1> QED
    BY <1>1, <1>3, <1>6, <1>7, <1>8, <1>9, WorkGoes

LEMMA RescheduleM ==
  ASSUME TInv, Orderly, KInv, UNCHANGED setup, NEW t \in Tasks, Reschedule(t)
  PROVE  KInv'
  <1>1. At(t, "resched") /\ UNCHANGED <<setup, cpu, io, ctx, obj, left, nsqMap>> /\ "resched" \in Profiling /\ "resched" \in Usual
    BY DEF Reschedule, mapVars, Profiling, Usual
  <1>2. /\ Stage(t) = "resched" /\ pc[t] = "resched" /\ loc[t] \in LocType /\ ~loc[t].changed
        /\ loc[t].ctx \in Tasks /\ obj[loc[t].ctx].hctx \in Nqs
    BY <1>1, AtWork
  <1>3. PICK o \in Tasks : o = loc[t].ctx
    BY <1>2
  <1>4. (\A x : SameCtx(x)) /\ setup.opt = 2 /\ UNCHANGED <<setup, cpu, io, ctx, left, nsqMap>> /\ obj' = obj
    BY <1>1, OrderlyFacts DEF SameCtx
  <1>5. PICK new : new = MapIoprio(o, ioprio[io[t]])
    OBVIOUS
  <1>6. new \in IoPrios /\ OutlierPrio \notin Prios
    BY <1>5, MapIoprioType DEF IoPrios, Prios, PrioLevel, TPrio, LPrio, OutlierPrio
  <1>7. CASE new \notin Prios
    <2> DEFINE m == [loc[t] EXCEPT !.prio = new]
    <2>1. m \in LocType /\ m.ctx = o /\ ~m.changed
      BY <1>2, <1>3, <1>6 DEF LocType
    <2>2. loc' = [loc EXCEPT ![t] = m] /\ pc' = [pc EXCEPT ![t] = "oops"]
      BY <1>3, <1>5, <1>7 DEF Reschedule, Oops, Goto
    <2> HIDE DEF m
    <2>3. Locals("oops", m, cpu[t], obj'[o].hctx)
      BY DEF Locals, Updating, Scheduling
    <2>4. (Stage(t)' = "oops" /\ pc'[t] = "oops" /\ loc'[t] = m) => \A c, n : Mine(t, o, c, n)' <=> Mine(t, o, c, n)
      BY <1>1, <1>2, MineUsual
    <2>5. m.ctx = loc[t].ctx /\ (\A x \in Tasks \ {o} : SameCtx(x)) /\ obj'[o].live = obj[o].live
          /\ obj'[o].last \in {obj[o].last, cpu[t]}
      BY <1>3, <1>4, <2>1
    <2> QED
      BY <1>1, <1>3, <1>4, <2>1, <2>2, <2>3, <2>4, <2>5, WorkGoes
  <1>8. CASE new \in Prios
    <2>1. SchedUpdate(t, new, new)
      BY <1>3, <1>5, <1>8 DEF Reschedule
    <2>2. new # OutlierPrio
      BY <1>6, <1>8
    <2> DEFINE l == [loc[t] EXCEPT !.prio = new, !.old = obj[o].hctx]
               m == [l EXCEPT !.nq = obj[o].hctx]
    <2>3. l \in LocType /\ l.ctx = o /\ ~l.changed /\ l.prio = new /\ l.old = obj[o].hctx
      BY <1>2, <1>3, <1>6 DEF LocType
    <2>4. \/ pc' = [pc EXCEPT ![t] = "assign"] /\ loc' = [loc EXCEPT ![t] = m]
          \/ pc' = [pc EXCEPT ![t] = "recommend"] /\ loc' = [loc EXCEPT ![t] = l]
      <3>1. PICK right \in Allright(new, obj[o].hctx) :
              IF right \/ setup.opt = 1
                THEN /\ Goto(t, "assign")
                     /\ \E n \in IF right THEN {obj[o].hctx} ELSE GroupNqs(new) : loc' = [loc EXCEPT ![t] = [l EXCEPT !.nq = n]]
                ELSE Goto(t, "recommend") /\ loc' = [loc EXCEPT ![t] = l]
        BY <1>3, <2>1 DEF SchedUpdate
      <3>2. setup.opt # 1
        BY <1>4
      <3> HIDE DEF l
      <3> QED
        BY <3>1, <3>2 DEF Goto
    <2> HIDE DEF l
    <2>5. m \in LocType /\ m.ctx = o /\ ~m.changed /\ m.prio = new /\ m.nq = obj[o].hctx
      BY <1>2, <1>3, <2>3 DEF LocType
    <2> HIDE DEF m
    <2>6. CASE pc' = [pc EXCEPT ![t] = "assign"] /\ loc' = [loc EXCEPT ![t] = m]
      BY <1>1, <1>3, <2>2, <2>5, <2>6, NqStays
    <2>7. CASE pc' = [pc EXCEPT ![t] = "recommend"] /\ loc' = [loc EXCEPT ![t] = l]
      <3>1. "recommend" \in Profiling /\ "recommend" \in Usual
        BY DEF Profiling, Usual
      <3>2. (Stage(t)' = "recommend" /\ pc'[t] = "recommend" /\ loc'[t] = l) => \A c, b : Mine(t, o, c, b)' <=> Mine(t, o, c, b)
        BY <1>1, <1>2, <3>1, MineUsual
      <3>3. Locals("recommend", l, cpu[t], obj'[o].hctx)
        BY <1>4, <2>2, <2>3 DEF Locals
      <3>4. "recommend" \in Profiling \cup {"route", "oops"} /\ obj'[o].last \in {obj[o].last, cpu[t]}
            /\ obj'[o].live = obj[o].live /\ \A x \in Tasks \ {o} : SameCtx(x)
        BY <1>4, <3>1
      <3>5. l.ctx = loc[t].ctx
        BY <1>3, <2>3
      <3> QED
        BY <1>1, <1>3, <1>4, <2>3, <2>7, <3>2, <3>3, <3>4, <3>5, WorkGoes
    <2> QED
      BY <2>4, <2>6, <2>7
  <1> QED
    BY <1>7, <1>8

LEMMA RecommendM ==
  ASSUME TInv, Orderly, KInv, UNCHANGED setup, NEW t \in Tasks, Recommend(t)
  PROVE  KInv'
  <1>1. At(t, "recommend") /\ UNCHANGED <<setup, cpu, io, ctx, obj, left, nsqMap>> /\ "recommend" \in Profiling
        /\ "recommend" \in Usual /\ "recommend" \in Updating
    BY DEF Recommend, mapVars, Profiling, Usual, Updating
  <1>2. /\ Stage(t) = "recommend" /\ pc[t] = "recommend" /\ loc[t] \in LocType /\ ~loc[t].changed /\ loc[t].ctx = t
        /\ Worker(t) /\ Subject(t) = t /\ Called(t) /\ obj[t].hctx \in Nqs
    BY <1>1, AtWork
  <1>3. loc[t].old = obj[t].hctx /\ loc[t].prio # OutlierPrio
    BY <1>1, <1>2 DEF Called, Locals
  <1>4. loc[t].prio \in Prios /\ setup \in Setups
    <2>1. loc[t].prio \in IoPrios
      BY <1>2 DEF LocType
    <2> QED
      BY <1>3, <2>1 DEF IoPrios, Prios, PrioLevel, TPrio, LPrio, TInv, Types, TyEnv
  <1>5. PICK n \in GroupNqs(loc[t].prio) :
          IF n # loc[t].old /\ obj[[loc[t] EXCEPT !.nq = n].ctx].last # cpu[[loc[t] EXCEPT !.nq = n].ctx]
            THEN Call(t, "clear", obj[[loc[t] EXCEPT !.nq = n].ctx].last, [loc[t] EXCEPT !.nq = n].old, "pin",
                      [loc[t] EXCEPT !.nq = n])
            ELSE /\ pc' = [pc EXCEPT ![t] = IF n = loc[t].old THEN "assign" ELSE "pin"]
                 /\ loc' = [loc EXCEPT ![t] = [loc[t] EXCEPT !.nq = n]]
    BY <1>3, <1>2 DEF Recommend, Goto, LocType
  <1>6. n \in Nqs
    BY <1>4, GroupBlock
  <1> DEFINE m == [loc[t] EXCEPT !.nq = n]
  <1>7. m \in LocType /\ m.ctx = t /\ ~m.changed /\ m.prio = loc[t].prio /\ m.nq = n /\ m.old = obj[t].hctx
    BY <1>2, <1>3, <1>6 DEF LocType
  <1>8. \/ n = obj[t].hctx /\ pc' = [pc EXCEPT ![t] = "assign"] /\ loc' = [loc EXCEPT ![t] = m]
        \/ /\ n # obj[t].hctx /\ obj[t].last = cpu[t]
           /\ pc' = [pc EXCEPT ![t] = "pin"] /\ loc' = [loc EXCEPT ![t] = m]
        \/ n # obj[t].hctx /\ obj[t].last # cpu[t] /\ Call(t, "clear", obj[t].last, obj[t].hctx, "pin", m)
    BY <1>3, <1>5, <1>7
  <1> HIDE DEF m
  <1>9. "pin" \in Profiling /\ (\A x : SameCtx(x)) /\ m.ctx = loc[t].ctx /\ UNCHANGED <<setup, cpu, io, ctx, left, nsqMap>>
    BY <1>1, <1>2, <1>7 DEF Profiling, SameCtx
  <1>10. CASE n = obj[t].hctx /\ pc' = [pc EXCEPT ![t] = "assign"] /\ loc' = [loc EXCEPT ![t] = m]
    BY <1>1, <1>2, <1>3, <1>7, <1>10, NqStays
  <1>11. CASE /\ n # obj[t].hctx /\ obj[t].last = cpu[t]
              /\ pc' = [pc EXCEPT ![t] = "pin"] /\ loc' = [loc EXCEPT ![t] = m]
    <2>1. ASSUME Stage(t)' = "pin", pc'[t] = "pin", loc'[t] = m, NEW c, NEW b
          PROVE  Mine(t, t, c, b)' <=> Mine(t, t, c, b)
      <3>1. Mine(t, t, c, b) <=> obj[t].live /\ obj[t].last = c /\ obj[t].hctx = b
        BY <1>1, <1>2, MineUsual
      <3>2. Worker(t)' /\ Subject(t)' = t
        BY <1>7, <1>9, <2>1 DEF Worker, Subject, Making
      <3>3. Keeps(t)' /\ ~Gains(t)'
        BY <1>1, <1>11, <2>1, <3>2 DEF Keeps, Gains
      <3> QED
        BY <1>1, <3>1, <3>2, <3>3 DEF Mine
    <2>2. Locals("pin", m, cpu[t], obj'[t].hctx)
      BY <1>1, <1>3, <1>7, <1>11 DEF Locals
    <2>3. "pin" \in Profiling \cup {"route", "oops"} /\ obj'[t].last \in {obj[t].last, cpu[t]} /\ obj'[t].live = obj[t].live
          /\ (\A x \in Tasks \ {t} : SameCtx(x)) /\ t = loc[t].ctx
      BY <1>1, <1>2, <1>9
    <2>4. (Stage(t)' = "pin" /\ pc'[t] = "pin" /\ loc'[t] = m) => \A c, b : Mine(t, t, c, b)' <=> Mine(t, t, c, b)
      BY <2>1
    <2> QED
      BY <1>1, <1>7, <1>9, <1>11, <2>2, <2>3, <2>4, WorkGoes
  <1>12. CASE n # obj[t].hctx /\ obj[t].last # cpu[t] /\ Call(t, "clear", obj[t].last, obj[t].hctx, "pin", m)
    <2>1. ASSUME Stage(t)' = "pin", pc'[t] = "clear", Worker(t)', Subject(t)' = t, NEW c, NEW b
          PROVE  Mine(t, t, c, b)' <=> Mine(t, t, c, b)
      <3>1. Mine(t, t, c, b) <=> obj[t].live /\ obj[t].last = c /\ obj[t].hctx = b
        BY <1>1, <1>2, MineUsual
      <3>2. Keeps(t)' /\ ~Gains(t)'
        BY <2>1 DEF Keeps, Gains, MapOps
      <3> QED
        BY <1>1, <2>1, <3>1, <3>2 DEF Mine
    <2>2. /\ "pin" \in {"pin_clear", "unpin"} => m.cpu = cpu[t]
          /\ "pin" \in {"recommend", "pin", "pin_clear", "unpin"} => m.old = obj[t].hctx
          /\ "pin" \in {"pin", "pin_clear", "unpin"} => m.nq # obj[t].hctx
          /\ "pin" \in Updating => m.prio # OutlierPrio
      BY <1>3, <1>7, <1>12
    <2> QED
      BY <1>1, <1>2, <1>7, <1>9, <1>12, <2>1, <2>2, WorkCalls DEF Locals
  <1> QED
    BY <1>8, <1>10, <1>11, <1>12

LEMMA GetCpuM ==
  ASSUME TInv, Orderly, KInv, UNCHANGED setup, NEW t \in Tasks, GetCpu(t)
  PROVE  KInv'
  <1>1. At(t, "pin") /\ UNCHANGED <<setup, cpu, io, ctx, obj, left, nsqMap>> /\ "pin" \in Profiling /\ "pin" \in Updating
    BY DEF GetCpu, mapVars, Profiling, Updating, Scheduling
  <1>2. /\ Stage(t) = "pin" /\ pc[t] = "pin" /\ loc[t] \in LocType /\ ~loc[t].changed
        /\ loc[t].ctx \in Tasks /\ Worker(t) /\ Subject(t) = loc[t].ctx /\ Called(t)
    BY <1>1, AtWork
  <1>3. PICK o \in Tasks : o = loc[t].ctx
    BY <1>2
  <1> DEFINE l == [loc[t] EXCEPT !.pinned = TRUE, !.cpu = cpu[t]]
  <1>4. cpu[t] \in Cpus
    BY DEF TInv, Types, TyEnv
  <1>5. l \in LocType /\ l.ctx = o /\ ~l.changed /\ l.nq = loc[t].nq /\ l.old = loc[t].old /\ l.cpu = cpu[t] /\ l.prio = loc[t].prio
    BY <1>2, <1>3, <1>4 DEF LocType
  <1>6. Call(t, "set", cpu[t], l.nq, "pin_clear", l)
    BY <1>5 DEF GetCpu
  <1> HIDE DEF l
  <1>7. l.old = obj[o].hctx /\ l.nq # obj[o].hctx /\ l.prio # OutlierPrio
    BY <1>1, <1>2, <1>3, <1>5 DEF Called, Locals
  <1>8. ASSUME Stage(t)' = "pin_clear", pc'[t] = "set", Worker(t)', Subject(t)' = o, NEW c, NEW n
        PROVE  Mine(t, o, c, n)' <=> Mine(t, o, c, n)
    <2>1. (Keeps(t)' <=> Keeps(t)) /\ ~Gains(t) /\ ~Gains(t)'
      BY <1>1, <1>2, <1>3, <1>8 DEF Keeps, Gains, MapOps
    <2> QED
      BY <1>1, <1>2, <1>3, <1>8, <2>1 DEF Mine
  <1>9. "pin_clear" \in Profiling
    BY DEF Profiling
  <1>10. \A x : SameCtx(x)
    BY <1>1 DEF SameCtx
  <1> QED
    BY <1>1, <1>2, <1>3, <1>5, <1>6, <1>7, <1>8, <1>9, WorkCalls DEF Locals

LEMMA ClearOldNqM ==
  ASSUME TInv, Orderly, KInv, UNCHANGED setup, NEW t \in Tasks, ClearOldNq(t)
  PROVE  KInv'
  <1>1. At(t, "pin_clear") /\ UNCHANGED <<setup, cpu, io, ctx, obj, left, nsqMap>> /\ "pin_clear" \in Profiling
        /\ "pin_clear" \in Updating
    BY DEF ClearOldNq, mapVars, Profiling, Updating, Scheduling
  <1>2. /\ Stage(t) = "pin_clear" /\ pc[t] = "pin_clear" /\ loc[t] \in LocType /\ ~loc[t].changed
        /\ loc[t].ctx \in Tasks /\ Worker(t) /\ Subject(t) = loc[t].ctx /\ Called(t)
    BY <1>1, AtWork
  <1>3. PICK o \in Tasks : o = loc[t].ctx
    BY <1>2
  <1>4. loc[t].old = obj[o].hctx /\ loc[t].nq # obj[o].hctx /\ loc[t].prio # OutlierPrio /\ loc[t].cpu = cpu[t]
    BY <1>1, <1>2, <1>3 DEF Called, Locals
  <1>5. Call(t, "clear", cpu[t], obj[o].hctx, "unpin", loc[t])
    BY <1>3, <1>4 DEF ClearOldNq
  <1>6. ASSUME Stage(t)' = "unpin", pc'[t] = "clear", loc'[t].nq = loc[t].nq, Worker(t)', Subject(t)' = o, NEW c, NEW n
        PROVE  Mine(t, o, c, n)' <=> Mine(t, o, c, n)
    <2>1. Gains(t) /\ Gains(t)' /\ NewNq(t) = loc[t].nq /\ NewNq(t)' = loc[t].nq /\ NewCpu(t)' = NewCpu(t)
      BY <1>1, <1>2, <1>6 DEF Gains, NewNq, NewCpu
    <2>2. Keeps(t)' <=> Keeps(t)
      BY <1>1, <1>2, <1>3, <1>6 DEF Keeps, MapOps
    <2> QED
      BY <1>1, <1>2, <1>3, <1>6, <2>1, <2>2 DEF Mine
  <1>7. "unpin" \in Profiling
    BY DEF Profiling
  <1> QED
    BY <1>1, <1>2, <1>3, <1>4, <1>5, <1>6, <1>7, WorkCalls DEF Locals

LEMMA PutCpuM ==
  ASSUME TInv, Orderly, KInv, UNCHANGED setup, NEW t \in Tasks, PutCpu(t)
  PROVE  KInv'
  <1>1. At(t, "unpin") /\ UNCHANGED <<setup, cpu, io, ctx, left, nsqMap>> /\ "unpin" \in Profiling /\ "unpin" \in Updating
    BY DEF PutCpu, mapVars, Profiling, Updating, Scheduling
  <1>2. /\ Stage(t) = "unpin" /\ pc[t] = "unpin" /\ loc[t] \in LocType /\ ~loc[t].changed
        /\ loc[t].ctx \in Tasks /\ Worker(t) /\ Subject(t) = loc[t].ctx /\ Called(t) /\ obj \in [Tasks -> ObjType]
    BY <1>1, AtWork
  <1>3. PICK o \in Tasks : o = loc[t].ctx
    BY <1>2
  <1>4. loc[t].prio # OutlierPrio /\ loc[t].cpu = cpu[t]
    BY <1>1, <1>2, <1>3 DEF Called, Locals
  <1> DEFINE m == [loc[t] EXCEPT !.pinned = FALSE]
  <1>5. m \in LocType /\ m.ctx = o /\ ~m.changed /\ m.nq = loc[t].nq /\ m.prio = loc[t].prio
    BY <1>2, <1>3 DEF LocType
  <1>6. obj' = [obj EXCEPT ![o] = [obj[o] EXCEPT !.last = cpu[t]]] /\ loc' = [loc EXCEPT ![t] = m] /\ pc' = [pc EXCEPT ![t] = "assign"]
    BY <1>3, <1>4 DEF PutCpu, Goto
  <1> HIDE DEF m
  <1>7. obj'[o].live = obj[o].live /\ obj'[o].last = cpu[t] /\ obj'[o].hctx = obj[o].hctx /\ \A x \in Tasks \ {o} : SameCtx(x)
    BY <1>2, <1>6 DEF ObjType, SameCtx
  <1>8. ASSUME Stage(t)' = "assign", pc'[t] = "assign", loc'[t] = m, NEW c, NEW n
        PROVE  Mine(t, o, c, n)' <=> Mine(t, o, c, n)
    <2>1. ~Keeps(t) /\ Gains(t) /\ NewNq(t) = loc[t].nq /\ ~Keeps(t)' /\ Gains(t)' /\ NewNq(t)' = loc[t].nq
      BY <1>2, <1>5, <1>8 DEF Keeps, Gains, NewNq, MapOps
    <2>2. Worker(t)' /\ Subject(t)' = o
      BY <1>1, <1>5, <1>8 DEF Worker, Subject, Profiling, Making
    <2>3. NewCpu(t) = cpu[t] /\ NewCpu(t)' = cpu[t]
      BY <1>2, <1>7, <1>8, <2>2 DEF NewCpu
    <2> QED
      BY <1>2, <1>3, <2>1, <2>2, <2>3 DEF Mine
  <1>9. "assign" \in Profiling /\ "assign" \notin {"init_end", "pin_clear", "unpin"} /\ "assign" \notin {"recommend", "pin", "pin_clear", "unpin"}
        /\ m.prio # OutlierPrio
    BY <1>4, <1>5 DEF Profiling
  <1>10. UNCHANGED <<setup, cpu, io, ctx, left, nsqMap>>
    BY <1>1
  <1>11. (Stage(t)' = "assign" /\ pc'[t] = "assign" /\ loc'[t] = m) => \A c, n : Mine(t, o, c, n)' <=> Mine(t, o, c, n)
    BY <1>8
  <1>12. Locals("assign", m, cpu[t], obj'[o].hctx)
    BY <1>7, <1>9 DEF Locals
  <1>13. "assign" \in Profiling \cup {"route", "oops"} /\ m.ctx = loc[t].ctx /\ obj'[o].last \in {obj[o].last, cpu[t]}
    BY <1>3, <1>5, <1>7, <1>9
  <1> QED
    BY <1>1, <1>3, <1>5, <1>6, <1>7, <1>10, <1>11, <1>12, <1>13, WorkGoes

LEMMA AssignM ==
  ASSUME TInv, Orderly, KInv, UNCHANGED setup, NEW t \in Tasks, Assign(t)
  PROVE  KInv'
  <1>1. At(t, "assign") /\ UNCHANGED <<setup, cpu, io, ctx, left, nsqMap, loc>> /\ "assign" \in Profiling /\ "assign" \in Updating
    BY DEF Assign, mapVars, Profiling, Updating, Scheduling
  <1>2. /\ Stage(t) = "assign" /\ pc[t] = "assign" /\ loc[t] \in LocType /\ ~loc[t].changed
        /\ loc[t].ctx \in Tasks /\ Worker(t) /\ Subject(t) = loc[t].ctx /\ Called(t) /\ obj \in [Tasks -> ObjType]
        /\ obj[loc[t].ctx].live /\ loc = [loc EXCEPT ![t] = loc[t]]
    BY <1>1, AtWork
  <1>3. PICK o \in Tasks : o = loc[t].ctx
    BY <1>2
  <1>4. loc[t].prio # OutlierPrio
    BY <1>1, <1>2, <1>3 DEF Called, Locals
  <1>5. obj' = [obj EXCEPT ![o] = [obj[o] EXCEPT !.hctx = loc[t].nq, !.prio = loc[t].prio]] /\ pc' = [pc EXCEPT ![t] = "outlier"]
    BY <1>2, <1>3, <1>4 DEF Assign, Goto
  <1>6. obj'[o].live = obj[o].live /\ obj'[o].last = obj[o].last /\ obj'[o].hctx = loc[t].nq /\ \A x \in Tasks \ {o} : SameCtx(x)
    BY <1>2, <1>4, <1>5 DEF ObjType, SameCtx
  <1>7. "outlier" \in Profiling /\ "outlier" \in Usual /\ "outlier" \notin Updating
    BY DEF Profiling, Usual, Updating, Scheduling
  <1>8. ASSUME Stage(t)' = "outlier", pc'[t] = "outlier", NEW c, NEW n
        PROVE  Mine(t, o, c, n)' <=> Mine(t, o, c, n)
    <2>1. ~Keeps(t) /\ Gains(t) /\ NewNq(t) = loc[t].nq /\ NewCpu(t) = obj[o].last
      BY <1>2, <1>3 DEF Keeps, Gains, NewNq, NewCpu
    <2>2. Mine(t, o, c, n)' <=> obj'[o].live /\ obj'[o].last = c /\ obj'[o].hctx = n
      BY <1>7, <1>8, MineUsual
    <2> QED
      BY <1>2, <1>3, <1>6, <1>8, <2>1, <2>2 DEF Mine
  <1>9. UNCHANGED <<setup, cpu, io, ctx, left, nsqMap>> /\ loc' = [loc EXCEPT ![t] = loc[t]]
    BY <1>1, <1>2
  <1>10. Locals("outlier", loc[t], cpu[t], obj'[o].hctx)
    BY <1>7 DEF Locals
  <1>11. (Stage(t)' = "outlier" /\ pc'[t] = "outlier" /\ loc'[t] = loc[t]) => \A c, n : Mine(t, o, c, n)' <=> Mine(t, o, c, n)
    BY <1>8
  <1>12. "outlier" \in Profiling \cup {"route", "oops"} /\ obj'[o].last \in {obj[o].last, cpu[t]}
    BY <1>6, <1>7
  <1> QED
    BY <1>1, <1>2, <1>3, <1>5, <1>6, <1>9, <1>10, <1>11, <1>12, WorkGoes

-----------------------------------------------------------------------------
(* A task on its way to its context, or from it. *)
Rest == {"idle", "oops", "io_alloc", "lookup", "route", "init", "tag"}

LEMMA RestFacts ==
  ASSUME NEW t
  PROVE  /\ pc[t] \in Rest => Stage(t) = pc[t] /\ ~Worker(t) /\ pc[t] # "dead"
         /\ pc'[t] \in Rest => Stage(t)' = pc'[t] /\ ~Worker(t)' /\ Called(t)' /\ pc'[t] # "dead"
  <1>1. pc[t] \in Rest => Stage(t) = pc[t]
    BY DEF Rest, Stage, MapOps
  <1>2. pc'[t] \in Rest => Stage(t)' = pc'[t]
    BY DEF Rest, Stage, MapOps
  <1>3. pc'[t] \in Rest => Called(t)'
    BY <1>2 DEF Rest, Called, Locals, MapOps, Updating, Scheduling
  <1> QED
    BY <1>1, <1>2, <1>3 DEF Worker, Rest, Making, Profiling

LEMMA RestOwned ==
  ASSUME NEW t \in Tasks, Owned(t), UNCHANGED <<setup, ctx>>, SameCtx(t), IoKept(t),
         Stage(t) \notin Gone \cup Making, pc[t] # "dead", pc'[t] # "dead", Stage(t)' \in Rest, None \notin Tasks,
         Stage(t)' = "init" => ~OnTheDevice(t)
  PROVE  Owned(t)'
  <1>1. /\ IoOf(t)' = IoOf(t) /\ (OnTheDevice(t)' <=> OnTheDevice(t))
    BY SameSetup DEF OnTheDevice
  <1>2. Stage(t)' \notin Gone \cup Making \cup Profiling \cup {"free"} /\ "init_end" \in Making /\ "free" \in Gone
    BY DEF Rest, Gone, Making, Profiling
  <1>3. \A x \in Tasks : ctx'[x] = t => x = IoOf(t) /\ t \in setup.tasks /\ io'[t] = x
    BY DEF Owned, IoKept
  <1>4. obj'[t].live => OnTheDevice(t)
    BY DEF Owned, SameCtx
  <1>5. (obj'[t].live \/ OnTheDevice(t)) => obj'[t].last \in setup.home[t]
    BY <1>2 DEF Owned, SameCtx
  <1>6. OnTheDevice(t) => obj'[t].live
    BY DEF Owned, SameCtx
  <1> QED
    BY <1>1, <1>2, <1>3, <1>4, <1>5, <1>6 DEF Owned

LEMMA RestHome ==
  ASSUME NEW t \in Tasks, AtHome(t), UNCHANGED <<setup, cpu>>, pc[t] # "dead", ~loc'[t].changed, IoKept(t),
         Stage(t)' \notin Gone => Stage(t) \notin Gone
  PROVE  AtHome(t)'
  BY DEF AtHome, IoOf, IoKept

LEMMA RestStep ==
  ASSUME TInv, Orderly, KInv, NEW t \in Tasks, UNCHANGED <<setup, cpu, ctx, obj, nsqMap>>, OthersSame(t), IoKept(t),
         Clear(t), pc[t] \in Rest, pc'[t] \in Rest, ~loc'[t].changed, pc'[t] = "init" => ~OnTheDevice(t),
         Budget', NoFailure' => NoFailure
  PROVE  KInv'
  <1>1. HInv /\ OInv /\ AtHome(t) /\ Owned(t) /\ setup.tasks \subseteq Tasks /\ None \notin Tasks
    BY OrderlyFacts DEF KInv, HInv, OInv
  <1>2. /\ Stage(t) = pc[t] /\ ~Worker(t) /\ Stage(t)' = pc'[t] /\ ~Worker(t)' /\ Called(t)' /\ pc[t] # "dead" /\ pc'[t] # "dead"
        /\ Stage(t) \notin Gone \cup Making /\ Stage(t)' \notin Gone
    BY RestFacts DEF Rest, Gone, Making
  <1>3. \A x \in Tasks : SameCtx(x)
    BY DEF SameCtx
  <1>5. Owned(t)'
    BY <1>1, <1>2, <1>3, RestOwned
  <1>6. AtHome(t)'
    BY <1>1, <1>2, RestHome
  <1>7. Steps(t)
    BY <1>2, <1>5, <1>6 DEF Steps, Grows, Within
  <1> QED
    BY <1>2, <1>3, <1>7, IdleStep

LEMMA GoesFrom ==
  ASSUME TInv, Orderly, KInv, NEW t \in Tasks, NEW p, p \in Rest, At(t, p)
  PROVE  /\ pc[t] = p /\ Stage(t) = p /\ ~Worker(t) /\ Clear(t) /\ ~loc[t].changed /\ t \in setup.tasks
         /\ loc = [loc EXCEPT ![t] = loc[t]] /\ loc[t] \in LocType /\ ~NoLoc.changed /\ Budget
         /\ (io[t] = IoOf(t) \/ io[t] = None)
  <1>1. pc[t] = p /\ Clear(t) /\ Stage(t) = p /\ ~Worker(t) /\ p # "dead"
    BY ClearAt, RestFacts
  <1>2. AtHome(t) /\ Budget /\ "dead" \in Gone
    BY DEF KInv, HInv, Gone
  <1>3. p \notin Gone
    BY DEF Gone, Rest
  <1> QED
    BY <1>1, <1>2, <1>3, SameLoc DEF AtHome, NoLoc

LEMMA OneMoves ==
  ASSUME TInv, NEW t \in Tasks, NEW q, NEW m, pc' = [pc EXCEPT ![t] = q], loc' = [loc EXCEPT ![t] = m], cpu' = cpu,
         \A u \in Tasks \ {t} : IoKept(u)
  PROVE  OthersSame(t) /\ pc'[t] = q /\ loc'[t] = m
  <1>1. t \in Contexts /\ pc \in [Contexts -> Labels] /\ loc \in [Contexts -> LocType] /\ Tasks \subseteq Contexts
    BY DEF TInv, Types, TyEnv, Contexts
  <1>2. pc'[t] = q /\ loc'[t] = m /\ \A u \in Tasks \ {t} : pc'[u] = pc[u] /\ loc'[u] = loc[u]
    BY <1>1
  <1> QED
    BY <1>2 DEF OthersSame, Same

LEMMA FailsBudget ==
  ASSUME Budget, Fails, UNCHANGED setup, setup.fails \in Nat
  PROVE  Budget' /\ ~NoFailure'
  <1>1. DOMAIN left = {"fail", "move", "set", "submit"} /\ left.fail \in Nat /\ left.fail <= setup.fails /\ left.fail > 0
        /\ left' = [left EXCEPT !.fail = left.fail - 1]
    BY DEF Budget, Fails
  <1>2. DOMAIN left' = DOMAIN left /\ left'.fail = left.fail - 1
    BY <1>1
  <1>3. left.fail - 1 \in Nat /\ left.fail - 1 < left.fail
    BY <1>1
  <1>4. left'.fail # setup.fails /\ left'.fail <= setup.fails
    <2> DEFINE a == left.fail
    <2>1. a \in Nat /\ a > 0 /\ a <= setup.fails /\ left'.fail = a - 1
      BY <1>1, <1>2
    <2>2. setup.fails \in Nat
      OBVIOUS
    <2> HIDE DEF a
    <2> QED
      BY <2>1, <2>2
  <1> QED
    BY <1>1, <1>2, <1>3, <1>4 DEF Budget, NoFailure

(* A request, or none, and the plug. *)
LEMMA Sends ==
  ASSUME TInv, Orderly, KInv, UNCHANGED <<setup, cpu, io, ctx, obj, left, nsqMap>>, NEW t \in Tasks,
         NEW p \in {"route", "tag"}, At(t, p), NEW q \in {"idle", "oops", "tag"}, pc' = [pc EXCEPT ![t] = q],
         loc' = loc \/ loc' = [loc EXCEPT ![t] = NoLoc]
  PROVE  KInv'
  <1>1. p \in Rest /\ q \in Rest /\ q # "init"
    BY DEF Rest
  <1>2. /\ pc[t] = p /\ Clear(t) /\ ~loc[t].changed /\ loc = [loc EXCEPT ![t] = loc[t]] /\ ~NoLoc.changed /\ Budget
    BY <1>1, GoesFrom
  <1>3. \A u \in Tasks : IoKept(u)
    BY DEF IoKept
  <1>4. PICK m \in {loc[t], NoLoc} : loc' = [loc EXCEPT ![t] = m]
    BY <1>2
  <1>5. OthersSame(t) /\ pc'[t] = q /\ loc'[t] = m
    BY <1>3, <1>4, OneMoves
  <1>6. ~m.changed /\ Budget' /\ (NoFailure' => NoFailure)
    BY <1>2 DEF Budget, NoFailure
  <1> QED
    BY <1>1, <1>2, <1>3, <1>5, <1>6, RestStep

LEMMA SendM ==
  ASSUME TInv, Orderly, KInv, UNCHANGED setup, NEW t \in Tasks, NoRequest(t) \/ TakeCached(t) \/ Route(t) \/ GetTag(t)
  PROVE  KInv'
  <1>1. UNCHANGED <<setup, cpu, io, ctx, obj, left, nsqMap>>
    BY DEF NoRequest, TakeCached, Route, GetTag, mapVars
  <1>2. At(t, "route") \/ At(t, "tag")
    BY DEF NoRequest, TakeCached, Route, GetTag
  <1>3. ASSUME NEW how, NEW nq, Get(t, how, nq)
        PROVE  pc' = [pc EXCEPT ![t] = "idle"] /\ loc' = [loc EXCEPT ![t] = NoLoc]
    BY <1>3 DEF Get, Finish, Goto
  <1>4. \/ pc' = [pc EXCEPT ![t] = "idle"] /\ loc' = [loc EXCEPT ![t] = NoLoc]
        \/ pc' = [pc EXCEPT ![t] = "oops"] /\ loc' = loc
        \/ pc' = [pc EXCEPT ![t] = "tag"] /\ loc' = loc
    BY <1>3 DEF NoRequest, TakeCached, Route, GetTag, Finish, Oops, Goto
  <1> QED
    BY <1>1, <1>2, <1>4, Sends

LEMMA SubmitBioM ==
  ASSUME TInv, Orderly, KInv, UNCHANGED setup, NEW t \in Tasks, NEW bio, SubmitBio(t, bio)
  PROVE  KInv'
  <1>1. At(t, "idle") /\ UNCHANGED <<setup, cpu, io, ctx, obj, nsqMap>> /\ "idle" \in Rest
    BY DEF SubmitBio, mapVars, Rest
  <1>2. /\ pc[t] = "idle" /\ Clear(t) /\ Budget
    BY <1>1, GoesFrom
  <1>3. PICK b : loc' = [loc EXCEPT ![t] = [NoLoc EXCEPT !.bio = bio, !.target = t, !.steady = b]]
    BY DEF SubmitBio
  <1>4. PICK q \in {"io_alloc", "lookup"} : pc' = [pc EXCEPT ![t] = q]
    BY DEF SubmitBio, Goto
  <1> DEFINE m == [NoLoc EXCEPT !.bio = bio, !.target = t, !.steady = b]
  <1>5. ~m.changed
    BY DEF NoLoc
  <1>6. loc' = [loc EXCEPT ![t] = m]
    BY <1>3
  <1> HIDE DEF m
  <1>7. \A u \in Tasks : IoKept(u)
    BY <1>1 DEF IoKept
  <1>8. OthersSame(t) /\ pc'[t] = q /\ loc'[t] = m
    BY <1>1, <1>4, <1>6, <1>7, OneMoves
  <1>9. Budget' /\ (NoFailure' => NoFailure)
    BY <1>1, <1>2 DEF SubmitBio, Budget, NoFailure
  <1>10. q \in Rest /\ q # "init"
    BY DEF Rest
  <1> QED
    BY <1>1, <1>2, <1>5, <1>7, <1>8, <1>9, <1>10, RestStep

LEMMA LookupM ==
  ASSUME TInv, Orderly, KInv, UNCHANGED setup, NEW t \in Tasks, Lookup(t)
  PROVE  KInv'
  <1>1. At(t, "lookup") /\ UNCHANGED <<setup, cpu, io, ctx, obj, left, nsqMap>> /\ "lookup" \in Rest
    BY DEF Lookup, mapVars, Rest
  <1>2. /\ pc[t] = "lookup" /\ Stage(t) = "lookup" /\ Clear(t) /\ Budget /\ ~Worker(t) /\ ~loc[t].changed /\ loc[t] \in LocType
        /\ t \in setup.tasks /\ (io[t] = IoOf(t) \/ io[t] = None)
    BY <1>1, GoesFrom
  <1>3. /\ io[t] # None /\ io[t] \in Tasks /\ ctx \in [Tasks -> Tasks \cup {None}] /\ HInv /\ OInv /\ AtHome(t) /\ Owned(t)
        /\ setup.tasks \subseteq Tasks /\ None \notin Tasks
    BY <1>2, TaskTypes, OrderlyFacts DEF Placed, Types, TyEnv, KInv, HInv, OInv
  <1>4. \A u : IoKept(u) /\ SameCtx(u)
    BY <1>1 DEF IoKept, SameCtx
  <1>5. Budget' /\ (NoFailure' => NoFailure)
    BY <1>1, <1>2 DEF Budget, NoFailure
  <1>6. CASE ctx[io[t]] = None
    <2> DEFINE m == [loc[t] EXCEPT !.prio = SimpleMap(ioprio[io[t]])]
    <2>1. ~m.changed /\ pc' = [pc EXCEPT ![t] = "init"] /\ loc' = [loc EXCEPT ![t] = m]
      BY <1>2, <1>6 DEF Lookup, Goto, LocType
    <2> HIDE DEF m
    <2>2. OthersSame(t) /\ pc'[t] = "init" /\ loc'[t] = m
      BY <1>1, <1>4, <2>1, OneMoves
    <2>3. ~OnTheDevice(t)
      <3> SUFFICES ASSUME NEW x \in Tasks, ctx[x] = t PROVE FALSE
        BY DEF OnTheDevice
      <3>1. io[t] = x
        BY <1>2, <1>3 DEF Owned, Gone
      <3> QED
        BY <1>3, <1>6, <3>1
    <2>4. "init" \in Rest
      BY DEF Rest
    <2> QED
      BY <1>1, <1>2, <1>4, <1>5, <2>1, <2>2, <2>3, <2>4, RestStep
  <1>7. CASE ctx[io[t]] # None
    <2>1. PICK o \in Tasks : o = ctx[io[t]] /\ o = ctx[IoOf(t)]
      BY <1>2, <1>3, <1>7
    <2> DEFINE m == [loc[t] EXCEPT !.ctx = o]
    <2>2. ~m.changed /\ m.ctx = o /\ pc' = [pc EXCEPT ![t] = "profile"] /\ loc' = [loc EXCEPT ![t] = m]
      BY <1>2, <1>7, <2>1 DEF Lookup, Goto, LocType
    <2> HIDE DEF m
    <2>3. OthersSame(t) /\ pc'[t] = "profile" /\ loc'[t] = m
      BY <1>1, <1>4, <2>2, OneMoves
    <2>4. Stage(t)' = "profile" /\ Worker(t)' /\ Subject(t)' = o
      BY <2>2, <2>3 DEF Stage, MapOps, Worker, Subject, Profiling, Making
    <2>5. Called(t)'
      BY <2>3, <2>4 DEF Called, Locals, MapOps, Updating, Scheduling
    <2>6. Only(t, o)
      BY <1>2, <2>1, OnlyPublished
    <2>8. AtHome(t)'
      BY <1>1, <1>2, <1>3, <1>4, <2>2, <2>3, RestHome DEF Gone
    <2>9. Owned(t)'
      <3>1. IoOf(t)' = IoOf(t) /\ (OnTheDevice(t)' <=> OnTheDevice(t))
        BY <1>1, SameSetup DEF OnTheDevice
      <3>2. UNCHANGED <<ctx, io, obj, setup>>
        BY <1>1
      <3> QED
        BY <1>2, <1>3, <2>1, <2>2, <2>3, <2>4, <3>1, <3>2 DEF Owned, Gone, Making, Profiling
    <2>10. Steps(t)
      BY <1>1, <1>2, <1>5, <2>3, <2>5, <2>8, <2>9 DEF Steps, Grows, Within
    <2>11. \A c, n : Mine(t, o, c, n)' <=> Mine(t, o, c, n)
      <3>1. \A c, n : Mine(t, o, c, n) <=> obj[o].live /\ obj[o].last = c /\ obj[o].hctx = n
        BY <1>2 DEF Mine
      <3>2. \A c, n : Mine(t, o, c, n)' <=> obj'[o].live /\ obj'[o].last = c /\ obj'[o].hctx = n
        BY <2>3, <2>4, MineUsual DEF Usual, Profiling
      <3> QED
        BY <1>1, <3>1, <3>2
    <2> QED
      BY <1>1, <1>2, <1>4, <2>4, <2>6, <2>10, <2>11, WorkStep DEF SameCtx
  <1> QED
    BY <1>6, <1>7

(* A new context, which no other task can reach yet. *)
LEMMA InitTaskIocM ==
  ASSUME TInv, Orderly, KInv, UNCHANGED setup, NEW t \in Tasks, InitTaskIoc(t)
  PROVE  KInv'
  <1>1. At(t, "init") /\ UNCHANGED <<setup, cpu, io, ctx, nsqMap>> /\ "init" \in Rest
    BY DEF InitTaskIoc, mapVars, Rest
  <1>2. /\ pc[t] = "init" /\ Stage(t) = "init" /\ Clear(t) /\ Budget /\ ~Worker(t) /\ ~loc[t].changed /\ loc[t] \in LocType
        /\ t \in setup.tasks /\ (io[t] = IoOf(t) \/ io[t] = None) /\ loc = [loc EXCEPT ![t] = loc[t]]
    BY <1>1, GoesFrom
  <1>3. /\ HInv /\ OInv /\ AtHome(t) /\ Owned(t) /\ setup.tasks \subseteq Tasks /\ None \notin Tasks /\ setup.opt = 2
        /\ obj \in [Tasks -> ObjType] /\ cpu[t] \in Cpus
    BY OrderlyFacts DEF TInv, Types, TyEnv, KInv, HInv, OInv
  <1>4. \A u : IoKept(u)
    BY <1>1 DEF IoKept
  <1>5. ~OnTheDevice(t) /\ ~obj[t].live
    BY <1>2, <1>3 DEF Owned, Making
  <1>6. CASE Fails /\ Goto(t, "route") /\ UNCHANGED <<obj, loc>>
    <2>1. OthersSame(t) /\ pc'[t] = "route" /\ loc'[t] = loc[t]
      <3>1. pc' = [pc EXCEPT ![t] = "route"] /\ loc' = [loc EXCEPT ![t] = loc[t]] /\ cpu' = cpu
        BY <1>1, <1>2, <1>6 DEF Goto
      <3> QED
        BY <1>4, <3>1, OneMoves
    <2>2. Budget' /\ (NoFailure' => NoFailure)
      BY <1>2, <1>6, OrderlyFacts, FailsBudget
    <2>3. "route" \in Rest
      BY DEF Rest
    <2> QED
      BY <1>1, <1>2, <1>4, <1>6, <2>1, <2>2, <2>3, RestStep
  <1>7. ASSUME NEW n, UNCHANGED left,
               obj' = [obj EXCEPT ![t] = [NoCtx EXCEPT !.live = TRUE, !.prio = loc[t].prio, !.hctx = n]],
               Call(t, "set", cpu[t], n, "init_end", [loc[t] EXCEPT !.pinned = TRUE, !.cpu = cpu[t]])
        PROVE  KInv'
    <2> DEFINE l == [loc[t] EXCEPT !.pinned = TRUE, !.cpu = cpu[t]]
    <2>1. l \in LocType /\ l.cpu = cpu[t] /\ ~l.changed
      BY <1>2, <1>3 DEF LocType
    <2>2. Call(t, "set", cpu[t], n, "init_end", l)
      BY <1>7
    <2> HIDE DEF l
    <2>3. "set" \in MapOps /\ UNCHANGED <<cpu, io>>
      BY <1>1 DEF MapOps
    <2>4. /\ OthersSame(t) /\ pc'[t] = "set" /\ Stage(t)' = "init_end" /\ loc'[t].mcpu = cpu[t] /\ loc'[t].mnq = n /\ loc'[t].next = "init_end"
          /\ loc'[t].cpu = cpu[t] /\ ~loc'[t].changed
      BY <2>1, <2>2, <2>3, CallsTo
    <2>5. obj'[t].live /\ obj'[t].hctx = n /\ \A x \in Tasks \ {t} : SameCtx(x)
      BY <1>3, <1>7 DEF NoCtx, SameCtx
    <2>6. Worker(t)' /\ Subject(t)' = t
      BY <2>4 DEF Worker, Subject, Making
    <2>7. Called(t)'
      BY <1>1, <2>4, <2>5, <2>6 DEF Called, Locals, MapOps, Updating, Scheduling, Sets
    <2>8. Only(t, t)
      BY <1>5, OnlyNew
    <2>9. AtHome(t)'
      BY <1>1, <1>2, <1>3, <1>4, <2>4, RestHome DEF Gone
    <2>10. Owned(t)'
      <3>1. IoOf(t)' = IoOf(t) /\ (OnTheDevice(t)' <=> OnTheDevice(t))
        BY <1>1, SameSetup DEF OnTheDevice
      <3>2. \A x \in Tasks : ctx'[x] # t
        BY <1>1, <1>5 DEF OnTheDevice
      <3> QED
        BY <1>2, <1>3, <1>5, <2>4, <2>5, <3>1, <3>2 DEF Owned, Gone, Making, Profiling
    <2>11. Steps(t)
      <3>1. Budget' /\ (NoFailure' => NoFailure)
        BY <1>1, <1>2, <1>7 DEF Budget, NoFailure
      <3> QED
        BY <1>1, <1>2, <2>4, <2>7, <2>9, <2>10, <3>1 DEF Steps, Grows, Within
    <2>12. \A c, b : Mine(t, t, c, b)' <=> Mine(t, t, c, b)
      <3>1. ~Keeps(t)' /\ ~Gains(t)'
        BY <2>4 DEF Keeps, Gains
      <3> QED
        BY <1>2, <1>5, <2>6, <3>1 DEF Mine
    <2> QED
      BY <1>1, <1>2, <2>5, <2>6, <2>8, <2>11, <2>12, WorkStep
  <1>8. \/ Fails /\ Goto(t, "route") /\ UNCHANGED <<obj, loc>>
        \/ \E n : /\ UNCHANGED left
                  /\ obj' = [obj EXCEPT ![t] = [NoCtx EXCEPT !.live = TRUE, !.prio = loc[t].prio, !.hctx = n]]
                  /\ Call(t, "set", cpu[t], n, "init_end", [loc[t] EXCEPT !.pinned = TRUE, !.cpu = cpu[t]])
    <2>1. ~(setup.opt < 2)
      BY <1>3
    <2> QED
      BY <2>1, Zenon DEF InitTaskIoc
  <1> QED
    BY <1>6, <1>7, <1>8

LEMMA InitEndM ==
  ASSUME TInv, Orderly, KInv, UNCHANGED setup, NEW t \in Tasks, InitEnd(t)
  PROVE  KInv'
  <1>1. UNCHANGED <<setup, cpu, io, ctx, nsqMap, left>> /\ pc[t] = "init_end" /\ Stage(t) = "init_end" /\ Clear(t)
    BY ClearAt DEF InitEnd, mapVars, Stage, MapOps
  <1>2. /\ HInv /\ OInv /\ AtHome(t) /\ Owned(t) /\ setup.tasks \subseteq Tasks /\ None \notin Tasks /\ Budget /\ Called(t)
        /\ obj \in [Tasks -> ObjType] /\ loc[t] \in LocType
    BY OrderlyFacts, TaskTypes DEF TInv, Types, TyEnv, KInv, HInv, OInv, CInv
  <1>3. Worker(t) /\ Subject(t) = t /\ obj[t].live /\ ~OnTheDevice(t) /\ loc[t].cpu = cpu[t]
    BY <1>1, <1>2 DEF Worker, Subject, Making, Owned, Called, Locals
  <1> DEFINE m == [loc[t] EXCEPT !.pinned = FALSE]
  <1>4. ~m.changed /\ m.ctx = loc[t].ctx
    BY <1>1, <1>2 DEF LocType, AtHome
  <1>5. obj' = [obj EXCEPT ![t] = [obj[t] EXCEPT !.last = cpu[t]]] /\ loc' = [loc EXCEPT ![t] = m] /\ pc' = [pc EXCEPT ![t] = "insert"]
    BY <1>3 DEF InitEnd, Goto
  <1> HIDE DEF m
  <1>6. obj'[t].live = obj[t].live /\ obj'[t].last = cpu[t] /\ obj'[t].hctx = obj[t].hctx /\ \A x \in Tasks \ {t} : SameCtx(x)
    BY <1>2, <1>5 DEF ObjType, SameCtx
  <1>7. \A u : IoKept(u)
    BY <1>1 DEF IoKept
  <1>8. OthersSame(t) /\ pc'[t] = "insert" /\ loc'[t] = m
    BY <1>1, <1>5, <1>7, OneMoves
  <1>9. Stage(t)' = "insert" /\ Worker(t)' /\ Subject(t)' = t /\ Called(t)'
    BY <1>8 DEF Stage, MapOps, Worker, Subject, Making, Called, Locals, Updating, Scheduling
  <1>10. AtHome(t)'
    BY <1>1, <1>2, <1>4, <1>7, <1>8, <1>9, RestHome DEF Gone
  <1>11. Owned(t)'
    <2>1. IoOf(t)' = IoOf(t) /\ (OnTheDevice(t)' <=> OnTheDevice(t))
      BY <1>1, SameSetup DEF OnTheDevice
    <2>2. cpu[t] \in setup.home[t] /\ \A x \in Tasks : ctx'[x] # t
      BY <1>1, <1>2, <1>3 DEF AtHome, OnTheDevice
    <2> QED
      BY <1>1, <1>3, <1>6, <1>8, <1>9, <2>1, <2>2 DEF Owned, Gone, Making, Profiling
  <1>12. Steps(t)
    <2>1. Budget' /\ (NoFailure' => NoFailure)
      BY <1>1, <1>2 DEF Budget, NoFailure
    <2> QED
      BY <1>1, <1>8, <1>9, <1>10, <1>11, <2>1 DEF Steps, Grows, Within
  <1>13. \A c, n : Mine(t, t, c, n)' <=> Mine(t, t, c, n)
    <2>1. ~Keeps(t) /\ Gains(t) /\ NewNq(t) = obj[t].hctx /\ NewCpu(t) = cpu[t]
      BY <1>1, <1>3 DEF Keeps, Gains, NewNq, NewCpu
    <2>2. Keeps(t)' /\ ~Gains(t)'
      BY <1>8, <1>9 DEF Keeps, Gains
    <2> QED
      BY <1>3, <1>6, <1>9, <2>1, <2>2 DEF Mine
  <1>14. Only(t, t)
    BY <1>3, OnlyNew
  <1> QED
    BY <1>1, <1>3, <1>6, <1>9, <1>12, <1>13, <1>14, WorkStep

LEMMA InsertTaskIocM ==
  ASSUME TInv, Orderly, KInv, UNCHANGED setup, NEW t \in Tasks, InsertTaskIoc(t)
  PROVE  KInv'
  <1>1. UNCHANGED <<setup, cpu, io, nsqMap>> /\ pc[t] = "insert" /\ Stage(t) = "insert" /\ Clear(t)
    BY ClearAt DEF InsertTaskIoc, mapVars, Stage, MapOps
  <1>2. /\ HInv /\ OInv /\ AtHome(t) /\ Owned(t) /\ setup.tasks \subseteq Tasks /\ None \notin Tasks /\ Budget /\ setup.fails \in Nat
        /\ obj \in [Tasks -> ObjType] /\ loc[t] \in LocType /\ loc = [loc EXCEPT ![t] = loc[t]] /\ ~loc[t].changed
        /\ ctx \in [Tasks -> Tasks \cup {None}]
    BY OrderlyFacts, TaskTypes, SameLoc DEF TInv, Types, TyEnv, KInv, HInv, OInv, AtHome
  <1>3. /\ Worker(t) /\ Subject(t) = t /\ obj[t].live /\ ~OnTheDevice(t) /\ t \in setup.tasks
        /\ io[t] # None /\ io[t] \in Tasks /\ io[t] = IoOf(t)
    BY <1>1, <1>2, TaskTypes DEF Worker, Subject, Making, Owned, AtHome, Placed, Gone
  <1>4. Only(t, t) /\ obj[t].last \in setup.home[t] /\ \A u : IoKept(u)
    BY <1>1, <1>2, <1>3, OnlyNew DEF Owned, IoKept
  <1>5. CASE /\ ctx[io[t]] = None /\ ctx' = [ctx EXCEPT ![io[t]] = t] /\ loc' = [loc EXCEPT ![t].ctx = t]
             /\ Goto(t, "profile") /\ UNCHANGED <<obj, left>>
    <2> DEFINE m == [loc[t] EXCEPT !.ctx = t]
    <2>1. ~m.changed /\ m.ctx = t /\ loc' = [loc EXCEPT ![t] = m] /\ pc' = [pc EXCEPT ![t] = "profile"]
      BY <1>2, <1>5 DEF LocType, Goto
    <2> HIDE DEF m
    <2>2. OthersSame(t) /\ pc'[t] = "profile" /\ loc'[t] = m
      BY <1>1, <1>4, <2>1, OneMoves
    <2>3. Stage(t)' = "profile" /\ Worker(t)' /\ Subject(t)' = t
      BY <2>1, <2>2 DEF Stage, MapOps, Worker, Subject, Profiling, Making
    <2>4. Called(t)'
      BY <2>2, <2>3 DEF Called, Locals, MapOps, Updating, Scheduling
    <2>5. AtHome(t)'
      BY <1>1, <1>2, <1>4, <2>1, <2>2, RestHome DEF Gone
    <2>6. ctx'[IoOf(t)] = t /\ (\A x \in Tasks \ {IoOf(t)} : ctx'[x] = ctx[x]) /\ Grows(t)
      BY <1>2, <1>3, <1>5 DEF Grows
    <2>7. Owned(t)'
      <3>1. IoOf(t)' = IoOf(t) /\ OnTheDevice(t)'
        BY <1>1, <1>3, <2>6, SameSetup DEF OnTheDevice
      <3>2. \A x \in Tasks : ctx'[x] = t => x = IoOf(t)
        BY <1>3, <2>6 DEF OnTheDevice
      <3> QED
        BY <1>1, <1>3, <1>4, <1>5, <2>1, <2>2, <2>3, <2>6, <3>1, <3>2, <1>2 DEF Owned, Gone, Making, Profiling
    <2>8. Steps(t)
      <3>1. Budget' /\ (NoFailure' => NoFailure)
        BY <1>1, <1>2, <1>5 DEF Budget, NoFailure
      <3> QED
        BY <1>1, <2>2, <2>4, <2>5, <2>6, <2>7, <3>1 DEF Steps, Within
    <2>9. \A c, n : Mine(t, t, c, n)' <=> Mine(t, t, c, n)
      <3>1. Keeps(t) /\ ~Gains(t) /\ Keeps(t)' /\ ~Gains(t)'
        BY <1>1, <2>2, <2>3 DEF Keeps, Gains
      <3> QED
        BY <1>3, <1>5, <2>3, <3>1 DEF Mine
    <2>10. \A x \in Tasks : SameCtx(x)
      BY <1>5 DEF SameCtx
    <2> QED
      BY <1>1, <1>3, <1>4, <2>3, <2>8, <2>9, <2>10, WorkStep
  <1>6. CASE /\ IF ctx[io[t]] = None THEN Fails ELSE UNCHANGED left
             /\ obj' = [obj EXCEPT ![t].live = FALSE] /\ Goto(t, "route") /\ UNCHANGED <<ctx, loc>>
    <2>1. pc' = [pc EXCEPT ![t] = "route"] /\ loc' = [loc EXCEPT ![t] = loc[t]]
          /\ obj' = [obj EXCEPT ![t] = [obj[t] EXCEPT !.live = FALSE]] /\ ctx' = ctx
      BY <1>2, <1>6 DEF Goto
    <2>2. OthersSame(t) /\ pc'[t] = "route" /\ loc'[t] = loc[t]
      BY <1>1, <1>4, <2>1, OneMoves
    <2>3. Stage(t)' = "route" /\ ~Worker(t)' /\ Called(t)'
      BY <2>2, RestFacts DEF Rest
    <2>4. AtHome(t)'
      BY <1>1, <1>2, <1>4, <2>2, RestHome DEF Gone
    <2>5. ~obj'[t].live /\ obj'[t].last = obj[t].last /\ \A x \in Tasks \ {t} : SameCtx(x)
      BY <1>2, <2>1 DEF ObjType, SameCtx
    <2>6. Owned(t)'
      <3>1. IoOf(t)' = IoOf(t) /\ ~OnTheDevice(t)'
        BY <1>1, <1>3, <2>1, SameSetup DEF OnTheDevice
      <3>2. \A x \in Tasks : ctx'[x] # t
        BY <1>3, <2>1 DEF OnTheDevice
      <3> QED
        BY <2>2, <2>3, <2>5, <3>1, <3>2 DEF Owned, Gone, Making, Profiling
    <2>7. Budget' /\ (NoFailure' => NoFailure /\ ctx[io[t]] # None)
      <3>1. CASE Fails
        BY <1>1, <1>2, <3>1, FailsBudget
      <3>2. CASE ctx[io[t]] # None /\ UNCHANGED left
        BY <1>1, <1>2, <3>2 DEF Budget, NoFailure
      <3> QED
        BY <1>6, <3>1, <3>2
    <2>8. Steps(t)
      BY <1>1, <2>1, <2>2, <2>3, <2>4, <2>6, <2>7 DEF Steps, Grows, Within
    <2>9. \A c, n : ~Mine(t, t, c, n)'
      BY <2>3, <2>5 DEF Mine
    <2>10. ctx[io[t]] = None
      <3> SUFFICES ASSUME ctx[io[t]] # None PROVE FALSE
        OBVIOUS
      <3>1. PICK o \in Tasks : o = ctx[io[t]]
        BY <1>2, <1>3
      <3>2. IoOf(o) = IoOf(t) /\ o \in setup.tasks
        BY <1>2, <1>3, <3>1 DEF OInv, Owned
      <3>3. o = t
        BY <1>3, <3>2, AloneFacts
      <3> QED
        BY <1>3, <3>1, <3>3 DEF OnTheDevice
    <2> QED
      BY <1>1, <1>3, <1>4, <2>3, <2>5, <2>7, <2>8, <2>9, <2>10, WorkStep
  <1> QED
    BY <1>5, <1>6 DEF InsertTaskIoc

LEMMA ExitM ==
  ASSUME TInv, Orderly, KInv, UNCHANGED setup, NEW t \in Tasks, Exit(t)
  PROVE  KInv'
  <1>1. At(t, "idle") /\ UNCHANGED <<setup, cpu, ctx, obj, left, nsqMap>> /\ io' = [io EXCEPT ![t] = None] /\ "idle" \in Rest
    BY DEF Exit, mapVars, Rest
  <1>2. /\ pc[t] = "idle" /\ Stage(t) = "idle" /\ Clear(t) /\ Budget /\ ~Worker(t)
        /\ t \in setup.tasks /\ (io[t] = IoOf(t) \/ io[t] = None) /\ ~NoLoc.changed /\ loc = [loc EXCEPT ![t] = loc[t]] /\ ~loc[t].changed
    BY <1>1, GoesFrom
  <1>3. /\ HInv /\ OInv /\ AtHome(t) /\ Owned(t) /\ setup.tasks \subseteq Tasks /\ None \notin Tasks
        /\ ctx \in [Tasks -> Tasks \cup {None}] /\ io \in [Tasks -> Tasks \cup {None}]
    BY OrderlyFacts DEF TInv, Types, TyEnv, KInv, HInv, OInv
  <1>4. (\A x : SameCtx(x)) /\ \A u \in Tasks \ {t} : IoKept(u)
    BY <1>1, <1>3 DEF SameCtx, IoKept
  <1>5. Budget' /\ (NoFailure' => NoFailure)
    BY <1>1, <1>2 DEF Budget, NoFailure
  <1>6. /\ IoOf(t)' = IoOf(t) /\ (OnTheDevice(t)' <=> OnTheDevice(t)) /\ obj' = obj /\ ctx' = ctx
        /\ \A x \in Tasks : ctx[x] = t => x = IoOf(t) /\ io[t] = x
    BY <1>1, <1>2, <1>3, SameSetup DEF OnTheDevice, Owned, Gone
  <1>7. OnTheDevice(t) => HasContext(io[t])
    BY <1>3, <1>6 DEF OnTheDevice, HasContext
  <1>8. CASE (~HasContext(io[t]) \/ setup.reuse) /\ Goto(t, "dead") /\ UNCHANGED loc
    <2>1. pc' = [pc EXCEPT ![t] = "dead"] /\ loc' = [loc EXCEPT ![t] = loc[t]] /\ cpu' = cpu
      BY <1>1, <1>2, <1>8 DEF Goto
    <2>2. OthersSame(t) /\ pc'[t] = "dead" /\ loc'[t] = loc[t]
      BY <1>4, <2>1, OneMoves
    <2>3. Stage(t)' = "dead" /\ ~Worker(t)' /\ Called(t)'
      BY <2>2 DEF Stage, MapOps, Worker, Making, Profiling, Called, Locals, Updating, Scheduling
    <2>4. AtHome(t)'
      BY <1>1, <1>2, <1>3, <2>2, <2>3 DEF AtHome, Gone
    <2>6. Owned(t)'
      BY <1>1, <1>2, <1>3, <1>6, <1>7, <1>8, <2>2, <2>3 DEF Owned, Gone, Making, Profiling
    <2>7. Steps(t)
      BY <1>1, <1>2, <1>5, <2>2, <2>3, <2>4, <2>6 DEF Steps, Grows, Within
    <2> QED
      BY <1>1, <1>2, <1>4, <2>3, <2>7, IdleStep
  <1>9. CASE /\ HasContext(io[t])
             /\ Call(t, "clear", obj[ctx[io[t]]].last, obj[ctx[io[t]]].hctx, "free", [NoLoc EXCEPT !.ctx = ctx[io[t]]])
    <2>1. PICK o \in Tasks : o = ctx[io[t]] /\ o = ctx[IoOf(t)]
      BY <1>2, <1>3, <1>9 DEF HasContext
    <2> DEFINE m == [NoLoc EXCEPT !.ctx = o, !.mcpu = obj[o].last, !.mnq = obj[o].hctx, !.next = "free"]
    <2>2. m.ctx = o /\ m.mcpu = obj[o].last /\ m.mnq = obj[o].hctx /\ m.next = "free" /\ ~m.changed
          /\ loc' = [loc EXCEPT ![t] = m] /\ pc' = [pc EXCEPT ![t] = "clear"]
      BY <1>9, <2>1 DEF NoLoc, Call, Goto
    <2> HIDE DEF m
    <2>3. OthersSame(t) /\ pc'[t] = "clear" /\ loc'[t] = m
      BY <1>1, <1>4, <2>2, OneMoves
    <2>4. Stage(t)' = "free" /\ Worker(t)' /\ Subject(t)' = o
      BY <2>2, <2>3 DEF Stage, MapOps, Worker, Subject, Making
    <2>5. Called(t)'
      BY <1>6, <2>2, <2>3, <2>4 DEF Called, Locals, MapOps, Updating, Scheduling, Clears
    <2>6. AtHome(t)'
      BY <1>1, <1>2, <1>3, <2>2, <2>3, <2>4 DEF AtHome, Gone
    <2>8. Owned(t)'
      BY <1>1, <1>2, <1>3, <1>6, <2>1, <2>2, <2>3, <2>4 DEF Owned, Gone, Making, Profiling
    <2>9. Steps(t)
      BY <1>1, <1>2, <1>5, <2>3, <2>5, <2>6, <2>8 DEF Steps, Grows, Within
    <2>10. Only(t, o)
      BY <1>2, <2>1, OnlyPublished
    <2>11. \A c, n : Mine(t, o, c, n)' <=> Mine(t, o, c, n)
      <3>1. Keeps(t)' /\ ~Gains(t)'
        BY <2>3, <2>4 DEF Keeps, Gains, MapOps
      <3> QED
        BY <1>2, <1>6, <2>4, <3>1 DEF Mine
    <2> QED
      BY <1>1, <1>2, <1>4, <2>4, <2>9, <2>10, <2>11, WorkStep
  <1> QED
    BY <1>8, <1>9 DEF Exit

(* The context freed is the task's own, and is counted nowhere any more.   *)
LEMMA FreeTaskIocM ==
  ASSUME TInv, Orderly, KInv, UNCHANGED setup, NEW t \in Tasks, FreeTaskIoc(t)
  PROVE  KInv'
  <1>1. UNCHANGED <<setup, cpu, io, ctx, left, nsqMap>> /\ pc[t] = "free" /\ Stage(t) = "free" /\ Clear(t)
    BY ClearAt DEF FreeTaskIoc, mapVars, Stage, MapOps
  <1>2. /\ HInv /\ OInv /\ AtHome(t) /\ Owned(t) /\ setup.tasks \subseteq Tasks /\ None \notin Tasks /\ Budget
        /\ obj \in [Tasks -> ObjType] /\ ~NoLoc.changed
    BY OrderlyFacts DEF TInv, Types, TyEnv, KInv, HInv, OInv, NoLoc
  <1>3. Worker(t) /\ Subject(t) = loc[t].ctx
    BY <1>1 DEF Worker, Subject, Making
  <1>4. /\ loc[t].ctx \in Tasks /\ t \in setup.tasks /\ OnTheDevice(loc[t].ctx) /\ loc[t].ctx = t
    BY <1>1, <1>2, <1>3, WorkersFacts DEF Making
  <1>5. PICK o \in Tasks : o = loc[t].ctx
    BY <1>4
  <1>6. obj' = [obj EXCEPT ![o] = [obj[o] EXCEPT !.live = FALSE]] /\ loc' = [loc EXCEPT ![t] = NoLoc] /\ pc' = [pc EXCEPT ![t] = "dead"]
    BY <1>5 DEF FreeTaskIoc, Goto
  <1>7. ~obj'[o].live /\ obj'[o].last = obj[o].last /\ \A x \in Tasks \ {o} : SameCtx(x)
    BY <1>2, <1>6 DEF ObjType, SameCtx
  <1>8. OthersSame(t) /\ pc'[t] = "dead" /\ loc'[t] = NoLoc
    <2>1. \A u \in Tasks \ {t} : IoKept(u)
      BY <1>1 DEF IoKept
    <2> QED
      BY <1>1, <1>6, <2>1, OneMoves
  <1>9. Stage(t)' = "dead" /\ ~Worker(t)' /\ Called(t)'
    BY <1>8 DEF Stage, MapOps, Worker, Making, Profiling, Called, Locals, Updating, Scheduling
  <1>10. AtHome(t)'
    BY <1>1, <1>2, <1>4, <1>8, <1>9 DEF AtHome, Gone
  <1>12. (obj'[t].live => obj[t].live) /\ ~obj'[t].live /\ obj'[t].last = obj[t].last
    BY <1>4, <1>5, <1>7 DEF SameCtx
  <1>13. Owned(t)'
    <2>1. IoOf(t)' = IoOf(t) /\ (OnTheDevice(t)' <=> OnTheDevice(t)) /\ \A x \in Tasks : ctx'[x] = t => x = IoOf(t) /\ t \in setup.tasks
      BY <1>1, <1>2, SameSetup DEF OnTheDevice, Owned
    <2> QED
      BY <1>1, <1>2, <1>8, <1>9, <1>12, <2>1 DEF Owned, Gone, Making, Profiling
  <1>14. Steps(t)
    <2>1. Budget' /\ (NoFailure' => NoFailure)
      BY <1>1, <1>2 DEF Budget, NoFailure
    <2> QED
      BY <1>1, <1>8, <1>9, <1>10, <1>13, <2>1 DEF Steps, Grows, Within
  <1>15. \A c, n : ~Mine(t, o, c, n)' /\ ~Mine(t, o, c, n)
    <2>1. ~Keeps(t) /\ ~Gains(t)
      BY <1>1 DEF Keeps, Gains, MapOps
    <2> QED
      BY <1>3, <1>5, <1>7, <1>9, <2>1 DEF Mine
  <1>16. Only(t, o) /\ o = t
    BY <1>3, <1>4, <1>5, OnlyMine
  <1> QED
    BY <1>1, <1>3, <1>5, <1>7, <1>9, <1>14, <1>15, <1>16, WorkStep

LEMMA MigrateM ==
  ASSUME TInv, Orderly, KInv, UNCHANGED setup, NEW t \in Tasks, NEW c \in Cpus, Migrate(t, c)
  PROVE  KInv'
  <1>1. /\ UNCHANGED <<setup, io, ctx, obj, nsqMap, pc, loc>> /\ pc[t] # "dead" /\ ~Section(t) /\ c \in setup.home[t]
        /\ cpu' = [cpu EXCEPT ![t] = c] /\ left' = [left EXCEPT !.move = @ - 1]
    BY DEF Migrate, mapVars
  <1>2. pc[t] \in {"idle", "oops"} \cup Sleeps /\ Stage(t) = pc[t]
    BY <1>1, Sections
  <1>3. /\ HInv /\ OInv /\ AtHome(t) /\ Owned(t) /\ setup.tasks \subseteq Tasks /\ None \notin Tasks /\ Budget /\ cpu \in [Tasks -> Cpus]
    BY OrderlyFacts DEF TInv, Types, TyEnv, KInv, HInv, OInv
  <1>4. (\A x : SameCtx(x)) /\ (\A u : IoKept(u)) /\ cpu'[t] = c /\ \A u \in Tasks \ {t} : cpu'[u] = cpu[u]
    BY <1>1, <1>3 DEF SameCtx, IoKept
  <1>5. OthersSame(t)
    BY <1>1, <1>4 DEF OthersSame, Same
  <1>6. /\ Stage(t)' = Stage(t) /\ (Worker(t)' <=> Worker(t)) /\ Subject(t)' = Subject(t) /\ (Section(t)' <=> Section(t))
        /\ IoOf(t)' = IoOf(t) /\ (OnTheDevice(t)' <=> OnTheDevice(t))
        /\ (Worker(t) => Stage(t) \in {"insert", "recommend"} /\ Subject(t) = t)
    <2>1. Worker(t) => Stage(t) \in {"insert", "recommend"}
      BY <1>2 DEF Worker, Making, Profiling, Sleeps
    <2>2. Worker(t) => Subject(t) = t
      BY <1>3, WorkersFacts, OrderlyFacts
    <2> QED
      BY <1>1, <2>1, <2>2, SameSetup DEF Stage, Worker, Subject, Section, AtRest, Sleeps, OnTheDevice
  <1>7. Called(t)'
    <2>1. Locals(Stage(t), loc[t], c, obj[Subject(t)].hctx)
      BY <1>2, <1>3 DEF KInv, CInv, Called, Locals, Sleeps
    <2>2. pc'[t] \notin MapOps
      BY <1>1, <1>2 DEF MapOps, Sleeps
    <2>3. obj[Subject(t)]' = obj[Subject(t)]
      BY <1>1, <1>6
    <2> QED
      BY <1>1, <1>4, <1>6, <2>1, <2>2, <2>3 DEF Called, MapOps
  <1>8. AtHome(t)'
    BY <1>1, <1>3, <1>4, <1>6 DEF AtHome
  <1>10. Owned(t)'
    BY <1>1, <1>3, <1>6 DEF Owned
  <1>11. Steps(t)
    <2>1. Budget' /\ (NoFailure' => NoFailure)
      BY <1>1, <1>3 DEF Budget, NoFailure
    <2> QED
      BY <1>1, <1>5, <1>6, <1>7, <1>8, <1>10, <2>1 DEF Steps, Grows, Within
  <1>12. CASE Worker(t)
    <2>1. \A e, n : Mine(t, t, e, n)' <=> Mine(t, t, e, n)
      <3>1. Keeps(t) /\ ~Gains(t) /\ Keeps(t)' /\ ~Gains(t)'
        BY <1>1, <1>2, <1>6, <1>12 DEF Keeps, Gains
      <3>2. Worker(t)' /\ Subject(t) = t /\ Subject(t)' = t
        BY <1>6, <1>12
      <3> QED
        BY <1>1, <1>12, <3>1, <3>2 DEF Mine
    <2>2. Only(t, t)
      BY <1>6, <1>12, OnlyMine
    <2> QED
      BY <1>1, <1>4, <1>6, <1>11, <1>12, <2>1, <2>2, WorkStep
  <1>13. CASE ~Worker(t)
    BY <1>1, <1>4, <1>6, <1>11, <1>13, IdleStep
  <1> QED
    BY <1>12, <1>13

-----------------------------------------------------------------------------
(* Steps of other processes. *)
LEMMA OutsideStep ==
  ASSUME TInv, Orderly, KInv, UNCHANGED <<setup, cpu, ctx, nsqMap>>,
         \A u \in Tasks : Same(u) /\ IoKept(u) /\ SameCtx(u), Budget', NoFailure' => NoFailure
  PROVE  KInv'
  <1>1. HInv /\ OInv /\ CInv /\ None \notin Tasks /\ setup.tasks \subseteq Tasks /\ (\A u \in Tasks : IoOf(u) \in Tasks) /\ UNCHANGED setup
    BY OrderlyFacts DEF KInv
  <1>2. \A u \in Tasks : /\ (Section(u)' <=> Section(u)) /\ cpu'[u] = cpu[u] /\ Stage(u)' = Stage(u)
                         /\ (Worker(u)' <=> Worker(u)) /\ Subject(u)' = Subject(u) /\ pc'[u] = pc[u] /\ loc'[u].nq = loc[u].nq
    BY <1>1, SameSection, SameWork DEF Same
  <1>3. HInv'
    <2>1. \A u \in Tasks : AtHome(u)'
      BY <1>1, HFrame DEF HInv, SameCtx
    <2>2. OneInside'
      BY <1>1, <1>2 DEF HInv, OneInside
    <2> QED
      BY <2>1, <2>2 DEF HInv
  <1>5. OInv'
    <2>1. Grows(None)
      BY DEF Grows
    <2>2. ASSUME NEW u \in Tasks PROVE Owned(u)'
      <3>1. u \in Tasks \ {None} /\ Same(u) /\ IoKept(u) /\ SameCtx(u) /\ IoOf(u) \in Tasks
        BY <1>1
      <3> QED
        BY <1>1, <2>1, <3>1, OFrame DEF SameCtx
    <2> QED
      BY <2>2 DEF OInv
  <1>6. CInv'
    <2>1. ASSUME NEW u \in Tasks PROVE Called(u)'
      <3>1. Worker(u) => Subject(u) \in Tasks
        BY <1>1, WorkersFacts
      <3>2. Worker(u) => SameCtx(Subject(u))
        BY <3>1
      <3>3. Called(u) /\ Same(u)
        BY <1>1 DEF CInv
      <3> QED
        BY <1>1, <3>2, <3>3, CFrame DEF SameCtx
    <2> QED
      BY <2>1 DEF CInv
  <1>7. NInv'
    <2> SUFFICES ASSUME NEW c \in Cpus, NEW n \in Nqs PROVE Agree(c, n)'
      BY <1>1, SameSetup DEF NInv
    <2>1. ASSUME NEW o \in Tasks PROVE CountedAt(o, c, n)' <=> CountedAt(o, c, n)
      <3>1. obj'[o].live = obj[o].live /\ obj'[o].last = obj[o].last /\ obj'[o].hctx = obj[o].hctx
        BY DEF SameCtx
      <3>2. ASSUME NEW u \in Tasks, Worker(u), Subject(u) = o
            PROVE  /\ (Keeps(u)' <=> Keeps(u)) /\ (Gains(u)' <=> Gains(u))
                   /\ NewNq(u)' = NewNq(u) /\ NewCpu(u)' = NewCpu(u)
        <4>1. (Keeps(u)' <=> Keeps(u)) /\ (Gains(u)' <=> Gains(u))
          BY <1>2, <3>1, <3>2 DEF Keeps, Gains
        <4>2. NewNq(u)' = NewNq(u) /\ NewCpu(u)' = NewCpu(u)
          BY <1>2, <3>1, <3>2 DEF NewNq, NewCpu
        <4> QED
          BY <4>1, <4>2
      <3> QED
        BY <1>2, <3>1, <3>2 DEF CountedAt
    <2>2. CountedAll(c, n)' = CountedAll(c, n)
      BY <2>1 DEF CountedAll
    <2>3. Cardinality(CountedAll(c, n))' = Cardinality(CountedAll(c, n)')
      OBVIOUS
    <2>4. Agree(c, n)
      BY DEF KInv, NInv
    <2>5. nsqMap' = nsqMap
      BY <1>1, SameSetup
    <2> HIDE DEF CountedAll
    <2> QED
      BY <2>2, <2>3, <2>4, <2>5 DEF Agree
  <1> QED
    BY <1>3, <1>5, <1>6, <1>7 DEF KInv

LEMMA SetterSame ==
  ASSUME TInv, NEW s \in Setters, Set(s), NEW u \in Tasks
  PROVE  Same(u) /\ IoKept(u) /\ SameCtx(u)
  <1>1. /\ pc \in [Contexts -> Labels] /\ loc \in [Contexts -> LocType] /\ Tasks \subseteq Contexts /\ s \notin Tasks
        /\ s \in Contexts /\ obj \in [Tasks -> ObjType]
    BY DeviceFacts DEF TInv, Types, TyEnv, Contexts
  <1>2. ASSUME NEW t \in Tasks, NEW class, SetIoprio(s, t, class) \/ SetIoprioNew(s, t, class)
        PROVE  Same(u) /\ IoKept(u) /\ SameCtx(u)
    <2>1. pc'[u] = pc[u]
      BY <1>1, <1>2 DEF SetIoprio, SetIoprioNew, Goto
    <2>2. loc'[u] \in {loc[u], [loc[u] EXCEPT !.steady = FALSE]}
      BY <1>1, <1>2 DEF SetIoprio, SetIoprioNew, Unsteady
    <2>3. UNCHANGED <<cpu, io, obj>>
      BY <1>2 DEF SetIoprio, SetIoprioNew
    <2> QED
      BY <1>1, <2>1, <2>2, <2>3 DEF Same, IoKept, SameCtx, LocType
  <1>3. CASE Notify(s)
    <2>1. pc'[u] = pc[u] /\ loc'[u] = loc[u] /\ UNCHANGED <<cpu, io>>
      BY <1>1, <1>3 DEF Notify, Oops, Finish, Goto
    <2>2. obj' = obj \/ \E x : obj' = [obj EXCEPT ![x].need = TRUE]
      BY <1>3 DEF Notify
    <2>3. SameCtx(u)
      BY <1>1, <2>2 DEF SameCtx, ObjType
    <2> QED
      BY <2>1, <2>3 DEF Same, IoKept
  <1> QED
    BY <1>2, <1>3 DEF Set

LEMMA SetterM ==
  ASSUME TInv, Orderly, KInv, UNCHANGED setup, NEW s \in Setters, Set(s)
  PROVE  KInv'
  <1>1. UNCHANGED <<setup, cpu, ctx, nsqMap>> /\ (left' = left \/ left' = [left EXCEPT !.set = @ - 1])
    BY DEF Set, SetIoprio, SetIoprioNew, Notify, mapVars
  <1>2. Budget' /\ (NoFailure' => NoFailure)
    BY <1>1 DEF KInv, Budget, NoFailure
  <1> QED
    BY <1>1, <1>2, SetterSame, OutsideStep

LEMMA IoAllocSame ==
  ASSUME TInv, NEW c \in Contexts \ Tasks, IoAlloc(c), NEW u \in Tasks
  PROVE  Same(u) /\ IoKept(u) /\ SameCtx(u)
  <1>1. /\ pc \in [Contexts -> Labels] /\ loc \in [Contexts -> LocType] /\ Tasks \subseteq Contexts
        /\ io \in [Tasks -> Tasks \cup {None}] /\ UNCHANGED <<cpu, obj>>
    BY DEF TInv, Types, TyEnv, Contexts, IoAlloc
  <1>2. pc'[u] = pc[u]
    BY <1>1 DEF IoAlloc, Goto
  <1>3. loc'[u] \in {loc[u], [loc[u] EXCEPT !.steady = FALSE]}
    BY <1>1 DEF IoAlloc
  <1>4. IoKept(u)
    BY <1>1 DEF IoAlloc, IoKept
  <1> QED
    BY <1>1, <1>2, <1>3, <1>4 DEF Same, SameCtx, LocType

LEMMA IoAllocM ==
  ASSUME TInv, Orderly, KInv, UNCHANGED setup, NEW c \in Contexts, IoAlloc(c)
  PROVE  KInv'
  <1>1. UNCHANGED <<setup, cpu, ctx, obj, nsqMap>> /\ At(c, "io_alloc")
    BY DEF IoAlloc, mapVars
  <1>2. /\ pc \in [Contexts -> Labels] /\ loc \in [Contexts -> LocType] /\ Tasks \subseteq Contexts /\ Budget
        /\ io \in [Tasks -> Tasks \cup {None}] /\ None \notin Tasks /\ setup.fails \in Nat
    BY OrderlyFacts DEF TInv, Types, TyEnv, Contexts, KInv
  <1>3. Budget' /\ (NoFailure' => NoFailure)
    <2>1. Fails => Budget' /\ ~NoFailure'
      BY <1>1, <1>2, FailsBudget
    <2>2. left' = left => Budget' /\ (NoFailure' => NoFailure)
      BY <1>1, <1>2 DEF Budget, NoFailure
    <2> QED
      BY <2>1, <2>2 DEF IoAlloc
  <1>4. CASE c \in Tasks
    <2>1. loc[c].target = c /\ pc[c] = "io_alloc" /\ Clear(c) /\ ~loc[c].changed /\ "io_alloc" \in Rest
          /\ loc = [loc EXCEPT ![c] = loc[c]]
      BY <1>1, <1>4, GoesFrom, TaskTypes DEF Placed, Rest
    <2>2. PICK q \in {"lookup", "route"} : pc' = [pc EXCEPT ![c] = q]
      BY <2>1 DEF IoAlloc, Goto
    <2>3. loc' = [loc EXCEPT ![c] = loc[c]] /\ \A u \in Tasks : IoKept(u)
      BY <1>2, <1>4, <2>1 DEF IoAlloc, IoKept
    <2>4. OthersSame(c) /\ pc'[c] = q /\ loc'[c] = loc[c]
      <3>1. cpu' = cpu
        BY <1>1
      <3> QED
        BY <1>4, <2>2, <2>3, <3>1, OneMoves
    <2>5. q \in Rest /\ q # "init"
      BY DEF Rest
    <2> QED
      BY <1>1, <1>3, <1>4, <2>1, <2>3, <2>4, <2>5, RestStep
  <1>5. CASE c \notin Tasks
    <2>1. \A u \in Tasks : Same(u) /\ IoKept(u) /\ SameCtx(u)
      BY <1>5, IoAllocSame
    <2> QED
      BY <1>1, <1>3, <2>1, OutsideStep
  <1> QED
    BY <1>4, <1>5

-----------------------------------------------------------------------------
(* The maps themselves. *)
LEMMA InMaps ==
  ASSUME TInv, Orderly, KInv, NEW t \in Tasks, NEW p, p \in MapOps, At(t, p)
  PROVE  /\ pc[t] = p /\ Clear(t) /\ Stage(t) = loc[t].next /\ Worker(t) /\ Subject(t) \in Tasks /\ Only(t, Subject(t))
         /\ loc[t].next \in {"init_end", "moved_set", "moved_end", "pin", "pin_clear", "unpin", "free"}
         /\ loc[t].mcpu \in Cpus /\ loc[t].mnq \in Nqs /\ Called(t) /\ Owned(t) /\ AtHome(t) /\ Budget /\ loc[t] \in LocType
         /\ obj[Subject(t)].live /\ loc = [loc EXCEPT ![t] = loc[t]] /\ p # "dead"
         /\ nsqMap[loc[t].mcpu][loc[t].mnq] \in Nat
  <1>1. pc[t] = p /\ Clear(t)
    BY ClearAt
  <1>2. HInv /\ OInv /\ CInv /\ Budget /\ Called(t) /\ Owned(t) /\ AtHome(t)
    BY DEF KInv, HInv, OInv, CInv
  <1>3. /\ Worker(t) /\ Stage(t) = loc[t].next
        /\ loc[t].next \in {"init_end", "moved_set", "moved_end", "pin", "pin_clear", "unpin", "free"}
    BY <1>1, <1>2, OwnMaps
  <1>4. Subject(t) \in Tasks /\ Only(t, Subject(t)) /\ obj[Subject(t)].live
    BY <1>2, <1>3, WorkersFacts, OnlyMine
  <1>5. loc[t] \in LocType /\ loc[t].mnq # None /\ loc = [loc EXCEPT ![t] = loc[t]]
    BY <1>1, TaskTypes, SameLoc DEF Placed
  <1>6. loc[t].mcpu \in Cpus /\ loc[t].mnq \in Nqs
    BY <1>5 DEF LocType
  <1>7. nsqMap[loc[t].mcpu][loc[t].mnq] \in Nat
    BY <1>6 DEF TInv, Types, TyMaps
  <1> QED
    BY <1>1, <1>2, <1>3, <1>4, <1>5, <1>6, <1>7 DEF MapOps

LEMMA MapsSame ==
  ASSUME TInv, Orderly, KInv, NEW t \in Tasks, NEW p, p \in MapOps, At(t, p), UNCHANGED <<setup, cpu, io, ctx, obj, left>>,
         OthersSame(t), Stage(t)' = Stage(t), loc'[t].ctx = loc[t].ctx, pc'[t] # "dead", ~loc'[t].changed, Called(t)'
  PROVE  Steps(t) /\ Worker(t)' /\ Subject(t)' = Subject(t)
  <1>1. pc[t] # "dead" /\ Clear(t) /\ Owned(t) /\ AtHome(t) /\ Worker(t) /\ Budget /\ setup.tasks \subseteq Tasks
    BY InMaps, OrderlyFacts
  <1>2. Worker(t)' /\ Subject(t)' = Subject(t)
    BY <1>1 DEF Worker, Subject
  <1>4. /\ IoOf(t)' = IoOf(t) /\ (OnTheDevice(t)' <=> OnTheDevice(t))
    BY SameSetup DEF OnTheDevice
  <1>5. Owned(t)'
    BY <1>1, <1>4 DEF Owned
  <1>6. AtHome(t)'
    BY <1>1, HomeStep
  <1>7. Budget' /\ (NoFailure' => NoFailure)
    BY <1>1 DEF Budget, NoFailure
  <1> QED
    BY <1>1, <1>2, <1>5, <1>6, <1>7 DEF Steps, Grows, Within

(* Up to the store nothing is counted otherwise. *)
LEMMA MapsGo ==
  ASSUME TInv, Orderly, KInv, UNCHANGED setup, NEW t \in Tasks, SetClaim(t) \/ SetLoad(t) \/ ClearLoad(t)
  PROVE  KInv'
  <1>1. PICK p \in MapOps : At(t, p) /\ \/ p = "set" /\ SetClaim(t)
                                        \/ p = "set_load" /\ SetLoad(t)
                                        \/ p = "clear" /\ ClearLoad(t)
    BY DEF SetClaim, SetLoad, ClearLoad, MapOps
  <1>2. UNCHANGED <<setup, cpu, io, ctx, obj, left>> /\ nsqMap' = nsqMap
    BY <1>1 DEF SetClaim, SetLoad, ClearLoad, mapVars
  <1>3. /\ pc[t] = p /\ Clear(t) /\ Stage(t) = loc[t].next /\ Worker(t) /\ Subject(t) \in Tasks /\ Only(t, Subject(t))
        /\ loc[t].mcpu \in Cpus /\ loc[t].mnq \in Nqs /\ Called(t) /\ AtHome(t) /\ loc[t] \in LocType
        /\ loc = [loc EXCEPT ![t] = loc[t]] /\ nsqMap[loc[t].mcpu][loc[t].mnq] \in Nat
    BY <1>1, InMaps
  <1> DEFINE v == nsqMap[loc[t].mcpu][loc[t].mnq]
             l == IF p = "set" THEN loc[t] ELSE [loc[t] EXCEPT !.v = v]
             q == IF p = "set" THEN "set_load" ELSE IF p = "set_load" THEN "set_store" ELSE "clear_store"
  <1>4. pc' = [pc EXCEPT ![t] = q] /\ loc' = [loc EXCEPT ![t] = l]
    BY <1>1, <1>3 DEF SetClaim, SetLoad, ClearLoad, Goto
  <1>5. /\ l.ctx = loc[t].ctx /\ l.nq = loc[t].nq /\ l.prio = loc[t].prio /\ l.cpu = loc[t].cpu /\ l.mcpu = loc[t].mcpu
        /\ l.mnq = loc[t].mnq /\ l.next = loc[t].next /\ l.changed = loc[t].changed /\ (p # "set" => l.v = v)
        /\ l.old = loc[t].old
    BY <1>3 DEF LocType
  <1>6. q \in MapOps /\ (p \in Sets <=> q \in Sets) /\ (p \in Clears <=> q \in Clears) /\ (q \in {"set_store", "clear_store"} => p # "set")
    BY <1>1 DEF MapOps, Sets, Clears
  <1> HIDE DEF l, q
  <1>7. OthersSame(t) /\ pc'[t] = q /\ loc'[t] = l
    <2>1. \A u \in Tasks \ {t} : IoKept(u)
      BY <1>2 DEF IoKept
    <2>2. cpu' = cpu
      BY <1>2
    <2> QED
      BY <1>4, <2>1, <2>2, OneMoves
  <1>8. Stage(t)' = Stage(t) /\ q # "dead" /\ ~l.changed
    BY <1>3, <1>5, <1>6, <1>7 DEF Stage, MapOps, AtHome
  <1>9. Subject(t)' = Subject(t)
    BY <1>5, <1>7, <1>8 DEF Subject
  <1>10. Called(t)'
    <2>1. Locals(Stage(t), l, cpu[t], obj[Subject(t)].hctx)
      BY <1>3, <1>5 DEF Called, Locals
    <2>2. \/ l.next = "init_end" /\ q \in Sets /\ l.mcpu = cpu[t] /\ l.mnq = obj[Subject(t)].hctx
          \/ l.next = "moved_set" /\ q \in Clears /\ l.mcpu = obj[Subject(t)].last /\ l.mnq = obj[Subject(t)].hctx
          \/ l.next = "moved_end" /\ q \in Sets /\ l.mcpu = cpu[t] /\ l.mnq = obj[Subject(t)].hctx
          \/ /\ l.next = "pin" /\ q \in Clears /\ l.mcpu = obj[Subject(t)].last /\ l.mnq = obj[Subject(t)].hctx
             /\ obj[Subject(t)].last # cpu[t]
          \/ l.next = "pin_clear" /\ q \in Sets /\ l.mcpu = cpu[t] /\ l.mnq = l.nq
          \/ l.next = "unpin" /\ q \in Clears /\ l.mcpu = cpu[t] /\ l.mnq = obj[Subject(t)].hctx
          \/ l.next = "free" /\ q \in Clears /\ l.mcpu = obj[Subject(t)].last /\ l.mnq = obj[Subject(t)].hctx
      BY <1>1, <1>3, <1>5, <1>6 DEF Called
    <2>3. q \in {"set_store", "clear_store"} => l.v = nsqMap'[l.mcpu][l.mnq]
      BY <1>2, <1>5, <1>6
    <2>4. obj[Subject(t)]' = obj[Subject(t)] /\ cpu' = cpu
      BY <1>2, <1>9
    <2> QED
      BY <1>7, <1>8, <2>1, <2>2, <2>3, <2>4 DEF Called
  <1>11. Steps(t) /\ Worker(t)'
    BY <1>1, <1>2, <1>5, <1>7, <1>8, <1>10, MapsSame
  <1>12. \A x \in Tasks : SameCtx(x)
    BY <1>2 DEF SameCtx
  <1>13. PICK o \in Tasks : o = Subject(t)
    BY <1>3
  <1>14. \A c, n : Mine(t, o, c, n)' <=> Mine(t, o, c, n)
    <2>1. pc[t] \in MapOps /\ pc'[t] \in MapOps /\ obj' = obj /\ cpu' = cpu /\ loc'[t].nq = loc[t].nq
      BY <1>1, <1>2, <1>3, <1>5, <1>6, <1>7
    <2>2. (Keeps(t)' <=> Keeps(t)) /\ (Gains(t)' <=> Gains(t))
      BY <1>8, <1>9, <2>1 DEF Keeps, Gains, MapOps
    <2>3. NewNq(t)' = NewNq(t) /\ NewCpu(t)' = NewCpu(t)
      BY <1>8, <1>9, <2>1 DEF NewNq, NewCpu
    <2> QED
      BY <1>3, <1>9, <1>11, <1>13, <2>1, <2>2, <2>3 DEF Mine
  <1> QED
    BY <1>2, <1>3, <1>9, <1>11, <1>12, <1>13, <1>14, WorkStep

LEMMA StoreMoves ==
  ASSUME TInv, NEW t \in Tasks, UNCHANGED <<setup, cpu, io, ctx, obj, left>>, loc' = loc, pc' = [pc EXCEPT ![t] = loc[t].next]
  PROVE  OthersSame(t) /\ pc'[t] = loc[t].next
  <1>1. t \in Contexts /\ pc \in [Contexts -> Labels] /\ Tasks \subseteq Contexts
    BY DEF TInv, Types, TyEnv, Contexts
  <1> QED
    BY <1>1 DEF OthersSame, Same, IoKept

(* A count taken where no context is counted, so that none is missed.      *)
Spare(t, v) ==
  /\ IF v > 0 THEN Stored(t, v - 1) ELSE nsqMap' = nsqMap
  /\ \A x \in Tasks : ~CountedAt(x, loc[t].mcpu, loc[t].mnq)

LEMMA NSpare ==
  ASSUME TInv, Orderly, NInv, UNCHANGED setup, NEW t \in Tasks, NEW o \in Tasks, OthersSame(t),
         Only(t, o), Only(t, o)', \A p \in Tasks : SameCtx(p),
         Worker(t) => Subject(t) = o, Worker(t)' => Subject(t)' = o, NoFailure' => NoFailure,
         loc[t].mcpu \in Cpus, loc[t].mnq \in Nqs, NEW v \in Nat, v = nsqMap[loc[t].mcpu][loc[t].mnq],
         Spare(t, v), \A c, n : Mine(t, o, c, n)' <=> Mine(t, o, c, n)
  PROVE  NInv'
  <1> SUFFICES ASSUME NEW c \in Cpus, NEW n \in Nqs PROVE Agree(c, n)'
    BY SameSetup DEF NInv
  <1>1. \A p \in Tasks : CountedAt(p, c, n)' <=> CountedAt(p, c, n)
    <2>1. \A p \in Tasks \ {o} : CountedAt(p, c, n)' <=> CountedAt(p, c, n)
      BY CountFrame
    <2>2. CountedAt(o, c, n)' <=> CountedAt(o, c, n)
      BY CountedMine
    <2> QED
      BY <2>1, <2>2
  <1>2. CountedAll(c, n)' = CountedAll(c, n) /\ Cardinality(CountedAll(c, n))' = Cardinality(CountedAll(c, n)')
    BY <1>1 DEF CountedAll
  <1>3. Agree(c, n) /\ nsqMap[c][n] \in Nat /\ Cardinality(CountedAll(c, n)) \in Nat
    BY OrderlyFacts, CountSizes DEF NInv, TInv, Types, TyMaps
  <1>5. CASE c = loc[t].mcpu /\ n = loc[t].mnq /\ v > 0
    <2>1. nsqMap'[c][n] = v - 1
      BY <1>5, StoredAt DEF Spare
    <2>2. CountedAll(c, n) = {}
      BY <1>5 DEF Spare, CountedAll
    <2>3. Cardinality(CountedAll(c, n)) = 0
      BY <2>2, FS_EmptySet
    <2> HIDE DEF CountedAll
    <2> QED
      BY <1>2, <1>3, <1>5, <2>1, <2>3 DEF Agree
  <1>6. CASE ~(c = loc[t].mcpu /\ n = loc[t].mnq /\ v > 0)
    <2>1. nsqMap'[c][n] = nsqMap[c][n]
      BY <1>6, StoredAt DEF Spare
    <2> HIDE DEF CountedAll
    <2> QED
      BY <1>2, <1>3, <2>1 DEF Agree
  <1> QED
    BY <1>5, <1>6

(* The store: the task is at the place it returns to. *)
LEMMA StoreStep ==
  ASSUME TInv, Orderly, KInv, UNCHANGED <<setup, cpu, io, ctx, obj, left>>, loc' = loc, NEW t \in Tasks,
         NEW p, p \in {"set_store", "clear_store"}, At(t, p), OthersSame(t), pc'[t] = loc[t].next,
         NEW v, v \in Nat, v = nsqMap[loc[t].mcpu][loc[t].mnq], NEW o, o = Subject(t),
         \A c \in Cpus \ {loc[t].mcpu} : nsqMap'[c] = nsqMap[c],
         (Stage(t)' = loc[t].next /\ pc'[t] = loc[t].next /\ Worker(t)' /\ Subject(t)' = o) =>
           \/ /\ Stored(t, v + 1) /\ ~Mine(t, o, loc[t].mcpu, loc[t].mnq)
              /\ \A c, n : Mine(t, o, c, n)' <=> Mine(t, o, c, n) \/ (c = loc[t].mcpu /\ n = loc[t].mnq)
           \/ /\ v > 0 => Stored(t, v - 1)
              /\ Mine(t, o, loc[t].mcpu, loc[t].mnq)
              /\ \A c, n : Mine(t, o, c, n)' <=> Mine(t, o, c, n) /\ ~(c = loc[t].mcpu /\ n = loc[t].mnq)
           \/ Spare(t, v) /\ \A c, n : Mine(t, o, c, n)' <=> Mine(t, o, c, n)
  PROVE  KInv'
  <1>1. p \in MapOps
    BY DEF MapOps
  <1>2. /\ pc[t] = p /\ Clear(t) /\ Stage(t) = loc[t].next /\ Worker(t) /\ Subject(t) \in Tasks /\ Only(t, Subject(t))
        /\ loc[t].next \in {"init_end", "moved_set", "moved_end", "pin", "pin_clear", "unpin", "free"}
        /\ loc[t].mcpu \in Cpus /\ loc[t].mnq \in Nqs /\ Called(t) /\ AtHome(t) /\ loc[t] \in LocType
        /\ loc = [loc EXCEPT ![t] = loc[t]]
    BY <1>1, InMaps
  <1>3. OthersSame(t) /\ pc'[t] = loc[t].next /\ loc'[t] = loc[t]
    OBVIOUS
  <1>4. Stage(t)' = Stage(t) /\ pc'[t] \notin MapOps /\ pc'[t] # "dead"
    BY <1>2, <1>3 DEF Stage, MapOps
  <1>5. Subject(t)' = Subject(t)
    BY <1>3, <1>4 DEF Subject
  <1>6. Called(t)'
    <2>1. obj[Subject(t)]' = obj[Subject(t)] /\ cpu' = cpu /\ pc'[t] \notin {"set_store", "clear_store"}
      BY <1>4, <1>5 DEF MapOps
    <2>2. Locals(Stage(t), loc[t], cpu[t], obj[Subject(t)].hctx)
      BY <1>2 DEF Called
    <2> QED
      BY <1>3, <1>4, <2>1, <2>2 DEF Called
  <1>7. Steps(t) /\ Worker(t)'
    BY <1>1, <1>2, <1>3, <1>4, <1>6, MapsSame DEF AtHome
  <1>8. (\A x : SameCtx(x)) /\ o \in Tasks
    BY <1>2 DEF SameCtx
  <1>9. HInv' /\ OInv' /\ Budget'
    BY <1>7, <1>8, HOStep
  <1>10. CInv'
    <2>1. ASSUME NEW u \in Tasks \ {t}, pc[u] \in {"set_store", "clear_store"}
          PROVE  nsqMap'[loc[u].mcpu][loc[u].mnq] = nsqMap[loc[u].mcpu][loc[u].mnq]
      <3>1. pc[u] \in MapOps /\ pc[t] \in MapOps
        BY <1>1, <1>2, <2>1 DEF MapOps
      <3>2. loc[t].mcpu # loc[u].mcpu
        BY <3>1, OtherMaps DEF KInv
      <3>3. loc[u].mcpu \in Cpus
        BY TaskTypes DEF LocType
      <3> QED
        BY <3>2, <3>3
    <2> QED
      BY <1>7, <1>8, <2>1, CStep
  <1>11. NInv'
    <2>1. /\ UNCHANGED setup /\ Only(t, o)' /\ Only(t, o) /\ (NoFailure' => NoFailure) /\ NInv
          /\ Worker(t) => Subject(t) = o
          /\ Worker(t)' => Subject(t)' = o
      BY <1>2, <1>3, <1>5, <1>7, OnlyStays DEF KInv, Steps
    <2>2. \/ /\ Stored(t, v + 1) /\ ~Mine(t, o, loc[t].mcpu, loc[t].mnq)
             /\ \A c, n : Mine(t, o, c, n)' <=> Mine(t, o, c, n) \/ (c = loc[t].mcpu /\ n = loc[t].mnq)
          \/ /\ v > 0 => Stored(t, v - 1)
             /\ Mine(t, o, loc[t].mcpu, loc[t].mnq)
             /\ \A c, n : Mine(t, o, c, n)' <=> Mine(t, o, c, n) /\ ~(c = loc[t].mcpu /\ n = loc[t].mnq)
          \/ Spare(t, v) /\ \A c, n : Mine(t, o, c, n)' <=> Mine(t, o, c, n)
      BY <1>2, <1>3, <1>4, <1>5, <1>7
    <2> QED
      BY <1>2, <1>3, <1>8, <2>1, <2>2, NStore, NSpare
  <1> QED
    BY <1>9, <1>10, <1>11 DEF KInv

LEMMA SetStoreM ==
  ASSUME TInv, Orderly, KInv, UNCHANGED setup, NEW t \in Tasks, SetStore(t)
  PROVE  KInv'
  <1>1. UNCHANGED <<setup, cpu, io, ctx, obj, left>> /\ loc' = loc /\ At(t, "set_store") /\ "set_store" \in MapOps
        /\ pc' = [pc EXCEPT ![t] = loc[t].next]
    BY DEF SetStore, Goto, MapOps
  <1>2. /\ pc[t] = "set_store" /\ Stage(t) = loc[t].next /\ Worker(t) /\ Subject(t) \in Tasks
        /\ loc[t].mcpu \in Cpus /\ loc[t].mnq \in Nqs /\ Called(t)
        /\ obj[Subject(t)].live /\ nsqMap[loc[t].mcpu][loc[t].mnq] \in Nat
    BY <1>1, InMaps
  <1>3. PICK o \in Tasks : o = Subject(t)
    BY <1>2
  <1>4. PICK v \in Nat : v = nsqMap[loc[t].mcpu][loc[t].mnq]
    BY <1>2
  <1>5. loc[t].v = v
    BY <1>2, <1>4 DEF Called, Locals
  <1>6. Stored(t, v + 1)
    BY <1>5 DEF SetStore, Stored
  <1>7. \A c \in Cpus \ {loc[t].mcpu} : nsqMap'[c] = nsqMap[c]
    BY <1>6 DEF Stored, TInv, Types, TyMaps
  <1>8. \/ loc[t].next \in {"init_end", "moved_end"} /\ loc[t].mcpu = cpu[t] /\ loc[t].mnq = obj[o].hctx
        \/ /\ loc[t].next = "pin_clear" /\ loc[t].mcpu = cpu[t] /\ loc[t].mnq = loc[t].nq
           /\ loc[t].nq # obj[o].hctx
    BY <1>1, <1>2, <1>3 DEF Called, Locals, Clears
  <1>9. ASSUME Stage(t)' = loc[t].next, pc'[t] = loc[t].next, Worker(t)', Subject(t)' = o
        PROVE  /\ ~Mine(t, o, loc[t].mcpu, loc[t].mnq)
               /\ \A c, n : Mine(t, o, c, n)' <=> Mine(t, o, c, n) \/ (c = loc[t].mcpu /\ n = loc[t].mnq)
    <2>1. CASE loc[t].next \in {"init_end", "moved_end"} /\ loc[t].mcpu = cpu[t] /\ loc[t].mnq = obj[o].hctx
      <3>1. ~Keeps(t) /\ ~Gains(t)
        BY <1>2, <2>1 DEF Keeps, Gains
      <3>2. ~Keeps(t)' /\ Gains(t)'
        BY <1>9, <2>1 DEF Keeps, Gains
      <3>3. NewNq(t)' = obj[o].hctx /\ NewCpu(t)' = cpu[t]
        BY <1>1, <1>9, <2>1 DEF NewNq, NewCpu
      <3> QED
        BY <1>1, <1>2, <1>3, <1>9, <2>1, <3>1, <3>2, <3>3 DEF Mine
    <2>2. CASE /\ loc[t].next = "pin_clear" /\ loc[t].mcpu = cpu[t] /\ loc[t].mnq = loc[t].nq
               /\ loc[t].nq # obj[o].hctx
      <3>1. (Keeps(t) <=> obj[o].last = cpu[t]) /\ ~Gains(t)
        BY <1>2, <1>3, <2>2 DEF Keeps, Gains
      <3>2. (Keeps(t)' <=> obj[o].last = cpu[t]) /\ Gains(t)'
        BY <1>1, <1>9, <2>2 DEF Keeps, Gains
      <3>3. NewNq(t)' = loc[t].nq /\ NewCpu(t)' = cpu[t]
        BY <1>1, <1>9, <2>2 DEF NewNq, NewCpu
      <3> QED
        BY <1>1, <1>2, <1>3, <1>9, <2>2, <3>1, <3>2, <3>3 DEF Mine
    <2> QED
      BY <1>8, <2>1, <2>2
  <1> QED
    <2>1. "set_store" \in {"set_store", "clear_store"} /\ OthersSame(t) /\ pc'[t] = loc[t].next
      BY <1>1, StoreMoves
    <2>2. (Stage(t)' = loc[t].next /\ pc'[t] = loc[t].next /\ Worker(t)' /\ Subject(t)' = o) =>
            \/ /\ Stored(t, v + 1) /\ ~Mine(t, o, loc[t].mcpu, loc[t].mnq)
               /\ \A c, n : Mine(t, o, c, n)' <=> Mine(t, o, c, n) \/ (c = loc[t].mcpu /\ n = loc[t].mnq)
            \/ /\ v > 0 => Stored(t, v - 1)
               /\ Mine(t, o, loc[t].mcpu, loc[t].mnq)
               /\ \A c, n : Mine(t, o, c, n)' <=> Mine(t, o, c, n) /\ ~(c = loc[t].mcpu /\ n = loc[t].mnq)
            \/ Spare(t, v) /\ \A c, n : Mine(t, o, c, n)' <=> Mine(t, o, c, n)
      BY <1>6, <1>9
    <2> QED
      BY <1>1, <1>3, <1>4, <1>7, <2>1, <2>2, StoreStep

LEMMA GainsAtHome ==
  ASSUME TInv, Orderly, HInv, OInv, NEW u \in Tasks, Worker(u)
  PROVE  NewCpu(u) \in setup.home[Subject(u)]
  <1>1. Subject(u) \in Tasks /\ Subject(u) = u /\ cpu[u] \in setup.home[u] /\ (Stage(u) \notin Making => OnTheDevice(u))
    BY WorkersFacts, OrderlyFacts DEF HInv, AtHome
  <1>2. Stage(u) = "assign" => obj[u].last \in setup.home[u]
    BY <1>1 DEF OInv, Owned, Making
  <1> QED
    BY <1>1, <1>2 DEF NewCpu

(* A task that has moved is the only one of the CPU it has moved to. *)
LEMMA Elsewhere ==
  ASSUME TInv, Orderly, KInv, NEW t \in Tasks, Worker(t), Stage(t) \notin Making, obj[Subject(t)].last # cpu[t],
         NEW x \in Tasks, x # Subject(t), NEW n
  PROVE  ~CountedAt(x, cpu[t], n)
  <1>1. /\ HInv /\ OInv /\ Subject(t) = t /\ t \in setup.tasks /\ OnTheDevice(t) /\ cpu[t] \in setup.home[t]
        /\ setup.tasks \subseteq Tasks
    BY WorkersFacts, OrderlyFacts DEF KInv, HInv, AtHome
  <1>2. obj[t].last \in setup.home[t] /\ obj[t].last # cpu[t]
    BY <1>1 DEF OInv, Owned, Making
  <1>3. ASSUME x \in setup.tasks, cpu[t] \in setup.home[x] PROVE FALSE
    <2>1. Meet(t, x) /\ x # t
      BY <1>1, <1>3 DEF Meet
    <2>2. PICK c : setup.home[t] = {c}
      BY <1>1, <1>3, <2>1, OrderlyFacts
    <2> QED
      BY <1>1, <1>2, <2>2
  <1>4. ASSUME NEW u \in Tasks, Worker(u), Subject(u) = x, Gains(u), NewCpu(u) = cpu[t] PROVE FALSE
    <2>1. x \in setup.tasks /\ NewCpu(u) \in setup.home[x]
      BY <1>1, <1>4, WorkersFacts, GainsAtHome
    <2> QED
      BY <1>3, <1>4, <2>1
  <1>5. ASSUME obj[x].live, obj[x].last = cpu[t], \A u \in Tasks : Worker(u) /\ Subject(u) = x => Keeps(u) PROVE FALSE
    <2>1. Stage(x) # "init_end"
      BY <1>5 DEF Worker, Subject, Making, Keeps
    <2>2. obj[x].last \in setup.home[x] /\ x \in setup.tasks
      BY <1>1, <1>5, <2>1 DEF OInv, Owned, HInv, AtHome
    <2> QED
      BY <1>3, <1>5, <2>2
  <1> QED
    BY <1>4, <1>5 DEF CountedAt

LEMMA ClearStoreM ==
  ASSUME TInv, Orderly, KInv, UNCHANGED setup, NEW t \in Tasks, ClearStore(t)
  PROVE  KInv'
  <1>1. UNCHANGED <<setup, cpu, io, ctx, obj, left>> /\ loc' = loc /\ At(t, "clear_store") /\ "clear_store" \in MapOps
        /\ pc' = [pc EXCEPT ![t] = loc[t].next]
    BY DEF ClearStore, Goto, MapOps
  <1>2. /\ pc[t] = "clear_store" /\ Stage(t) = loc[t].next /\ Worker(t) /\ Subject(t) \in Tasks
        /\ loc[t].mcpu \in Cpus /\ loc[t].mnq \in Nqs /\ Called(t)
        /\ obj[Subject(t)].live /\ nsqMap[loc[t].mcpu][loc[t].mnq] \in Nat
    BY <1>1, InMaps
  <1>3. PICK o \in Tasks : o = Subject(t)
    BY <1>2
  <1>4. PICK v \in Nat : v = nsqMap[loc[t].mcpu][loc[t].mnq]
    BY <1>2
  <1>5. loc[t].v = v
    BY <1>2, <1>4 DEF Called, Locals
  <1>6. v > 0 => Stored(t, v - 1)
    <2> HAVE v > 0
    <2>1. (IF v > 1 THEN v - 1 ELSE IF v = 1 THEN 0 ELSE nsqMap[loc[t].mcpu][loc[t].mnq]) = v - 1
      OBVIOUS
    <2> QED
      BY <1>5, <2>1 DEF ClearStore, Stored
  <1>7. \A c \in Cpus \ {loc[t].mcpu} : nsqMap'[c] = nsqMap[c]
    BY DEF ClearStore, TInv, Types, TyMaps
  <1>8. \/ /\ loc[t].next \in {"moved_set", "pin", "free"} /\ loc[t].mcpu = obj[o].last /\ loc[t].mnq = obj[o].hctx
           /\ loc[t].next = "pin" => obj[o].last # cpu[t]
        \/ /\ loc[t].next = "unpin" /\ loc[t].mcpu = cpu[t] /\ loc[t].mnq = obj[o].hctx
           /\ loc[t].nq # obj[o].hctx
    BY <1>1, <1>2, <1>3 DEF Called, Locals, Sets
  <1>9. ASSUME Stage(t)' = loc[t].next, pc'[t] = loc[t].next, Worker(t)', Subject(t)' = o,
               ~(loc[t].next = "unpin" /\ obj[o].last # cpu[t])
        PROVE  /\ Mine(t, o, loc[t].mcpu, loc[t].mnq)
               /\ \A c, n : Mine(t, o, c, n)' <=> Mine(t, o, c, n) /\ ~(c = loc[t].mcpu /\ n = loc[t].mnq)
    <2>1. CASE /\ loc[t].next \in {"moved_set", "pin", "free"} /\ loc[t].mcpu = obj[o].last /\ loc[t].mnq = obj[o].hctx
               /\ loc[t].next = "pin" => obj[o].last # cpu[t]
      <3>1. Keeps(t) /\ ~Gains(t)
        BY <1>1, <1>2, <2>1 DEF Keeps, Gains
      <3>2. ~Keeps(t)' /\ ~Gains(t)'
        BY <1>1, <1>9, <2>1 DEF Keeps, Gains, MapOps
      <3> QED
        BY <1>1, <1>2, <1>3, <1>9, <2>1, <3>1, <3>2 DEF Mine
    <2>2. CASE /\ loc[t].next = "unpin" /\ loc[t].mcpu = cpu[t] /\ loc[t].mnq = obj[o].hctx
               /\ loc[t].nq # obj[o].hctx
      <3>4. obj[o].last = cpu[t]
        BY <1>9, <2>2
      <3>1. Keeps(t)
        BY <1>1, <1>2, <1>3, <2>2, <3>4 DEF Keeps
      <3>5. Gains(t) /\ NewNq(t) = loc[t].nq /\ NewCpu(t) = cpu[t]
        BY <1>2, <2>2 DEF Gains, NewNq, NewCpu
      <3>2. ~Keeps(t)' /\ Gains(t)'
        BY <1>9, <2>2 DEF Keeps, Gains, MapOps
      <3>3. NewNq(t)' = loc[t].nq /\ NewCpu(t)' = cpu[t]
        BY <1>1, <1>9, <2>2 DEF NewNq, NewCpu
      <3> QED
        BY <1>1, <1>2, <1>3, <1>9, <2>2, <3>1, <3>2, <3>3, <3>4, <3>5 DEF Mine
    <2> QED
      BY <1>8, <2>1, <2>2
  <1>10. ASSUME Stage(t)' = loc[t].next, pc'[t] = loc[t].next, Worker(t)', Subject(t)' = o,
                loc[t].next = "unpin", obj[o].last # cpu[t]
         PROVE  Spare(t, v) /\ \A c, n : Mine(t, o, c, n)' <=> Mine(t, o, c, n)
    <2>1. loc[t].mcpu = cpu[t] /\ loc[t].mnq = obj[o].hctx /\ loc[t].nq # obj[o].hctx
      BY <1>8, <1>10
    <2>2. ~Keeps(t) /\ ~Keeps(t)' /\ Gains(t) /\ Gains(t)'
      BY <1>1, <1>2, <1>3, <1>10 DEF Keeps, Gains, MapOps
    <2>3. NewNq(t) = loc[t].nq /\ NewNq(t)' = loc[t].nq /\ NewCpu(t) = cpu[t] /\ NewCpu(t)' = cpu[t]
      BY <1>1, <1>2, <1>10 DEF NewNq, NewCpu
    <2>4. \A c, n : Mine(t, o, c, n)' <=> Mine(t, o, c, n)
      BY <1>1, <1>2, <1>3, <1>10, <2>2, <2>3 DEF Mine
    <2>5. ~Mine(t, o, loc[t].mcpu, loc[t].mnq)
      BY <1>2, <1>3, <2>1, <2>2, <2>3 DEF Mine
    <2>6. ~CountedAt(o, loc[t].mcpu, loc[t].mnq)
      BY <1>2, <1>3, <2>5, CountedMine, OnlyMine
    <2>7. \A x \in Tasks \ {o} : ~CountedAt(x, loc[t].mcpu, loc[t].mnq)
      <3>1. Stage(t) \notin Making
        BY <1>2, <1>10 DEF Making
      <3> QED
        BY <1>2, <1>3, <1>10, <2>1, <3>1, Elsewhere
    <2>8. IF v > 0 THEN Stored(t, v - 1) ELSE nsqMap' = nsqMap
      <3>1. ASSUME v = 0 PROVE nsqMap' = nsqMap
        <4>1. (IF loc[t].v > 1 THEN loc[t].v - 1 ELSE IF loc[t].v = 1 THEN 0 ELSE nsqMap[loc[t].mcpu][loc[t].mnq])
                = nsqMap[loc[t].mcpu][loc[t].mnq]
          BY <1>5, <3>1
        <4>2. Stored(t, nsqMap[loc[t].mcpu][loc[t].mnq])
          BY <4>1 DEF ClearStore, Stored
        <4> QED
          BY <1>2, <4>2 DEF Stored, TInv, Types, TyMaps
      <3> QED
        BY <1>4, <1>6, <3>1
    <2> QED
      BY <2>4, <2>6, <2>7, <2>8 DEF Spare
  <1> QED
    <2>1. "clear_store" \in {"set_store", "clear_store"} /\ OthersSame(t) /\ pc'[t] = loc[t].next
      BY <1>1, StoreMoves
    <2>2. (Stage(t)' = loc[t].next /\ pc'[t] = loc[t].next /\ Worker(t)' /\ Subject(t)' = o) =>
            \/ /\ Stored(t, v + 1) /\ ~Mine(t, o, loc[t].mcpu, loc[t].mnq)
               /\ \A c, n : Mine(t, o, c, n)' <=> Mine(t, o, c, n) \/ (c = loc[t].mcpu /\ n = loc[t].mnq)
            \/ /\ v > 0 => Stored(t, v - 1)
               /\ Mine(t, o, loc[t].mcpu, loc[t].mnq)
               /\ \A c, n : Mine(t, o, c, n)' <=> Mine(t, o, c, n) /\ ~(c = loc[t].mcpu /\ n = loc[t].mnq)
            \/ Spare(t, v) /\ \A c, n : Mine(t, o, c, n)' <=> Mine(t, o, c, n)
      BY <1>6, <1>9, <1>10
    <2> QED
      BY <1>1, <1>3, <1>4, <1>7, <2>1, <2>2, StoreStep

LEMMA KNext == TInv /\ Orderly /\ KInv /\ [Next /\ UNCHANGED setup]_vars => KInv'
  <1> SUFFICES ASSUME TInv, Orderly, KInv, [Next /\ UNCHANGED setup]_vars PROVE KInv'
    OBVIOUS
  <1>1. CASE UNCHANGED vars
    <2>1. UNCHANGED <<setup, cpu, ctx, nsqMap, io, obj, pc, loc, left>>
      BY <1>1 DEF vars, mapVars
    <2>2. \A u \in Tasks : Same(u) /\ IoKept(u) /\ SameCtx(u)
      BY <2>1 DEF Same, IoKept, SameCtx
    <2>3. Budget' /\ (NoFailure' => NoFailure)
      BY <2>1 DEF KInv, Budget, NoFailure
    <2> QED
      BY <2>1, <2>2, <2>3, OutsideStep
  <1>2. ASSUME UNCHANGED setup, NEW t \in Tasks, Profile(t) PROVE KInv'
    BY <1>2, LookupM, InitTaskIocM, InitEndM, InsertTaskIocM, UpdateStatsM, ClearOldCpuM, SetNewCpuM, MoveEndM,
       TakeNoticeM, RescheduleM, RecommendM, GetCpuM, ClearOldNqM, PutCpuM, AssignM, OutlierM DEF Profile
  <1>3. ASSUME UNCHANGED setup, NEW t \in Tasks, Maps(t) PROVE KInv'
    BY <1>3, MapsGo, SetStoreM, ClearStoreM DEF Maps
  <1>4. ASSUME UNCHANGED setup, NEW s \in Setters, Set(s) PROVE KInv'
    BY <1>4, SetterM
  <1>5. ASSUME UNCHANGED setup, NEW t \in Tasks,
               \/ \E c \in Cpus : Migrate(t, c)
               \/ \E bio \in setup.bios : SubmitBio(t, bio)
               \/ Exit(t) \/ FreeTaskIoc(t)
        PROVE  KInv'
    BY <1>5, MigrateM, SubmitBioM, ExitM, FreeTaskIocM
  <1>6. ASSUME UNCHANGED setup, NEW c \in Contexts, IoAlloc(c) PROVE KInv'
    BY <1>6, IoAllocM
  <1>7. ASSUME UNCHANGED setup, NEW t \in Tasks, Send(t) PROVE KInv'
    <2>1. CASE Unplug(t)
      <3>1. UNCHANGED <<setup, cpu, ctx, nsqMap, io, obj, pc, loc, left>>
        BY <1>7, <2>1 DEF Unplug, mapVars
      <3>2. \A u \in Tasks : Same(u) /\ IoKept(u) /\ SameCtx(u)
        BY <3>1 DEF Same, IoKept, SameCtx
      <3>3. Budget' /\ (NoFailure' => NoFailure)
        BY <3>1 DEF KInv, Budget, NoFailure
      <3> QED
        BY <3>1, <3>2, <3>3, OutsideStep
    <2>2. CASE ~Unplug(t)
      BY <1>7, <2>2, SendM DEF Send
    <2> QED
      BY <2>1, <2>2
  <1> QED
    BY <1>1, <1>2, <1>3, <1>4, <1>5, <1>6, <1>7 DEF Next

-----------------------------------------------------------------------------
(* nr_in_use and the masks. *)
Setting == {"set_load", "set_store"}
SetUnderWay(c, n) == \E t \in Tasks : pc[t] \in Setting /\ loc[t].mcpu = c /\ loc[t].mnq = n
UsedNqs(c) == {n \in Nqs : nsqMap[c][n] > 0}
ClaimOf(c, n) == c \in claimed[n] <=> nsqMap[c][n] > 0 \/ SetUnderWay(c, n)
Where(u) == (pc'[u] \in Setting <=> pc[u] \in Setting) /\ loc'[u].mcpu = loc[u].mcpu /\ loc'[u].mnq = loc[u].mnq

LEMMA ClaimParts == ClaimInv <=> \A c \in Cpus : inUse[c] = Cardinality(UsedNqs(c)) /\ \A n \in Nqs : ClaimOf(c, n)
  BY DEF ClaimInv, UsedNqs, ClaimOf, SetUnderWay, Setting

LEMMA ClaimPartsNext ==
  ASSUME UNCHANGED setup
  PROVE  ClaimInv' <=> \A c \in Cpus : inUse'[c] = Cardinality(UsedNqs(c)') /\ \A n \in Nqs : ClaimOf(c, n)'
  <1>1. Cpus' = Cpus /\ Nqs' = Nqs
    BY SameSetup
  <1> QED
    BY <1>1 DEF ClaimInv, UsedNqs, ClaimOf, SetUnderWay, Setting

LEMMA ClaimStay ==
  ASSUME ClaimInv, UNCHANGED <<setup, nsqMap, inUse, claimed>>,
         \A u \in Tasks : Where(u) \/ (pc[u] \notin Setting /\ pc'[u] \notin Setting)
  PROVE  ClaimInv'
  <1>1. \A c, n : SetUnderWay(c, n)' <=> SetUnderWay(c, n)
    BY DEF SetUnderWay, Where
  <1>2. \A c : UsedNqs(c)' = UsedNqs(c)
    BY SameSetup DEF UsedNqs
  <1>3. \A c, n : ClaimOf(c, n)' <=> ClaimOf(c, n)
    BY <1>1 DEF ClaimOf
  <1> QED
    BY <1>2, <1>3, ClaimParts, ClaimPartsNext

LEMMA UsedFinite ==
  ASSUME setup \in Setups, NEW c
  PROVE  IsFiniteSet(UsedNqs(c)) /\ Cardinality(UsedNqs(c)) \in Nat
  <1>1. IsFiniteSet(Nqs)
    BY DeviceFacts, FS_Interval
  <1>2. UsedNqs(c) \subseteq Nqs
    BY DEF UsedNqs
  <1> QED
    BY <1>1, <1>2, FS_Subset, FS_CardinalityType

LEMMA SetClaimC ==
  ASSUME TInv, Orderly, KInv, ClaimInv, UNCHANGED setup, NEW t \in Tasks, SetClaim(t)
  PROVE  ClaimInv'
  <1>1. At(t, "set") /\ "set" \in MapOps /\ UNCHANGED <<nsqMap, inUse, cpu, loc>> /\ pc' = [pc EXCEPT ![t] = "set_load"]
        /\ claimed' = [claimed EXCEPT ![loc[t].mnq] = claimed[loc[t].mnq] \cup {loc[t].mcpu}]
    BY DEF SetClaim, MapOps, Goto
  <1>2. /\ loc[t].mcpu \in Cpus /\ loc[t].mnq \in Nqs /\ pc[t] = "set" /\ pc \in [Contexts -> Labels] /\ Tasks \subseteq Contexts
        /\ claimed \in [Nqs -> SUBSET Cpus]
    BY <1>1, InMaps DEF TInv, Types, TyEnv, TyMaps, Contexts
  <1>3. pc'[t] \in Setting /\ pc[t] \notin Setting /\ \A u \in Tasks \ {t} : pc'[u] = pc[u]
    BY <1>1, <1>2 DEF Setting
  <1>4. \A c, n : SetUnderWay(c, n)' <=> SetUnderWay(c, n) \/ (c = loc[t].mcpu /\ n = loc[t].mnq)
    BY <1>1, <1>3 DEF SetUnderWay
  <1>5. \A c : \A n \in Nqs : c \in claimed'[n] <=> c \in claimed[n] \/ (c = loc[t].mcpu /\ n = loc[t].mnq)
    BY <1>1, <1>2
  <1>6. \A c \in Cpus, n \in Nqs : ClaimOf(c, n)'
    BY <1>1, <1>4, <1>5, ClaimParts DEF ClaimOf
  <1>7. \A c : UsedNqs(c)' = UsedNqs(c)
    BY <1>1, SameSetup DEF UsedNqs
  <1> QED
    BY <1>1, <1>6, <1>7, ClaimParts, ClaimPartsNext

LEMMA SetStoreC ==
  ASSUME TInv, Orderly, KInv, ClaimInv, UNCHANGED setup, NEW t \in Tasks, SetStore(t)
  PROVE  ClaimInv'
  <1>1. At(t, "set_store") /\ "set_store" \in MapOps /\ UNCHANGED <<claimed, cpu, loc>> /\ pc' = [pc EXCEPT ![t] = loc[t].next]
    BY DEF SetStore, MapOps, Goto
  <1>2. /\ loc[t].mcpu \in Cpus /\ loc[t].mnq \in Nqs /\ pc[t] = "set_store" /\ pc \in [Contexts -> Labels] /\ Tasks \subseteq Contexts
        /\ inUse \in [Cpus -> Int] /\ nsqMap \in [Cpus -> [Nqs -> Nat]] /\ nsqMap[loc[t].mcpu][loc[t].mnq] \in Nat /\ Called(t)
        /\ loc[t].next \notin Setting /\ setup \in Setups
    BY <1>1, InMaps DEF TInv, Types, TyEnv, TyMaps, Contexts, Setting
  <1>3. PICK v \in Nat : v = nsqMap[loc[t].mcpu][loc[t].mnq]
    BY <1>2
  <1>4. PICK a \in Cpus : a = loc[t].mcpu
    BY <1>2
  <1>5. PICK b \in Nqs : b = loc[t].mnq
    BY <1>2
  <1>6. loc[t].v = v
    BY <1>2, <1>3 DEF Called, Locals
  <1>7. /\ nsqMap'[a][b] = v + 1 /\ (\A n \in Nqs \ {b} : nsqMap'[a][n] = nsqMap[a][n]) /\ (\A c \in Cpus \ {a} : nsqMap'[c] = nsqMap[c])
    BY <1>2, <1>4, <1>5, <1>6 DEF SetStore
  <1>8. inUse'[a] = (IF v = 0 THEN inUse[a] + 1 ELSE inUse[a]) /\ \A c \in Cpus \ {a} : inUse'[c] = inUse[c]
    BY <1>2, <1>4, <1>6 DEF SetStore
  <1>9. pc'[t] \notin Setting /\ pc[t] \in Setting /\ \A u \in Tasks \ {t} : pc'[u] = pc[u]
    BY <1>1, <1>2 DEF Setting
  <1>10. SetUnderWay(a, b) /\ \A c, n : ~(c = a /\ n = b) => (SetUnderWay(c, n)' <=> SetUnderWay(c, n))
    BY <1>1, <1>4, <1>5, <1>9 DEF SetUnderWay
  <1>11. \A c \in Cpus, n \in Nqs : ClaimOf(c, n)'
    <2>1. ASSUME NEW c \in Cpus, NEW n \in Nqs, ~(c = a /\ n = b) PROVE ClaimOf(c, n)'
      <3>1. nsqMap'[c][n] = nsqMap[c][n]
        BY <1>7, <2>1
      <3> QED
        BY <1>1, <1>10, <2>1, <3>1, ClaimParts DEF ClaimOf
    <2>2. ClaimOf(a, b)'
      <3>1. a \in claimed[b]
        BY <1>10, ClaimParts DEF ClaimOf
      <3> QED
        BY <1>1, <1>7, <3>1 DEF ClaimOf
    <2> QED
      BY <2>1, <2>2
  <1>12. \A c \in Cpus \ {a} : UsedNqs(c)' = UsedNqs(c)
    BY <1>7, SameSetup DEF UsedNqs
  <1>13. UsedNqs(a)' = UsedNqs(a) \cup {b} /\ (b \in UsedNqs(a) <=> v # 0)
    BY <1>3, <1>4, <1>5, <1>7, SameSetup DEF UsedNqs
  <1>14. inUse'[a] = Cardinality(UsedNqs(a)')
    <2>1. inUse[a] = Cardinality(UsedNqs(a)) /\ IsFiniteSet(UsedNqs(a)) /\ Cardinality(UsedNqs(a)) \in Nat
      BY <1>2, ClaimParts, UsedFinite
    <2> QED
      BY <1>8, <1>13, <2>1, FS_AddElement
  <1>15. \A c \in Cpus : inUse'[c] = Cardinality(UsedNqs(c)')
    BY <1>8, <1>12, <1>14, ClaimParts
  <1> QED
    BY <1>11, <1>15, ClaimPartsNext

LEMMA ClearStoreC ==
  ASSUME TInv, Orderly, KInv, ClaimInv, UNCHANGED setup, NEW t \in Tasks, ClearStore(t)
  PROVE  ClaimInv'
  <1>1. At(t, "clear_store") /\ "clear_store" \in MapOps /\ UNCHANGED <<cpu, loc>> /\ pc' = [pc EXCEPT ![t] = loc[t].next]
    BY DEF ClearStore, MapOps, Goto
  <1>2. /\ loc[t].mcpu \in Cpus /\ loc[t].mnq \in Nqs /\ pc[t] = "clear_store" /\ pc \in [Contexts -> Labels] /\ Tasks \subseteq Contexts
        /\ inUse \in [Cpus -> Int] /\ nsqMap \in [Cpus -> [Nqs -> Nat]] /\ nsqMap[loc[t].mcpu][loc[t].mnq] \in Nat /\ Called(t)
        /\ loc[t].next \notin Setting /\ setup \in Setups /\ claimed \in [Nqs -> SUBSET Cpus]
    BY <1>1, InMaps DEF TInv, Types, TyEnv, TyMaps, Contexts, Setting
  <1>3. PICK v \in Nat : v = nsqMap[loc[t].mcpu][loc[t].mnq]
    BY <1>2
  <1>4. PICK a \in Cpus : a = loc[t].mcpu
    BY <1>2
  <1>5. PICK b \in Nqs : b = loc[t].mnq
    BY <1>2
  <1>6. loc[t].v = v
    BY <1>2, <1>3 DEF Called, Locals
  <1>7. /\ nsqMap'[a][b] = (IF v > 1 THEN v - 1 ELSE 0) /\ (\A n \in Nqs \ {b} : nsqMap'[a][n] = nsqMap[a][n])
        /\ (\A c \in Cpus \ {a} : nsqMap'[c] = nsqMap[c])
    <2>1. nsqMap' = [nsqMap EXCEPT ![a][b] = IF v > 1 THEN v - 1 ELSE IF v = 1 THEN 0 ELSE nsqMap[a][b]]
      BY <1>4, <1>5, <1>6 DEF ClearStore
    <2>2. v = nsqMap[a][b] /\ (v \in {0, 1} \/ v > 1)
      BY <1>3, <1>4, <1>5
    <2> QED
      BY <1>2, <2>1, <2>2
  <1>8. inUse'[a] = (IF v = 1 THEN inUse[a] - 1 ELSE inUse[a]) /\ \A c \in Cpus \ {a} : inUse'[c] = inUse[c]
    BY <1>2, <1>4, <1>6 DEF ClearStore
  <1>9. /\ claimed'[b] = (IF v > 1 THEN claimed[b] ELSE claimed[b] \ {a}) /\ (\A n \in Nqs \ {b} : claimed'[n] = claimed[n])
    BY <1>2, <1>4, <1>5, <1>6 DEF ClearStore
  <1>10. pc'[t] \notin Setting /\ pc[t] \notin Setting /\ \A u \in Tasks \ {t} : pc'[u] = pc[u]
    BY <1>1, <1>2 DEF Setting
  <1>11. \A c, n : SetUnderWay(c, n)' <=> SetUnderWay(c, n)
    BY <1>1, <1>10 DEF SetUnderWay
  <1>12. ~SetUnderWay(a, b)
    <2> SUFFICES ASSUME NEW u \in Tasks, pc[u] \in Setting, loc[u].mcpu = a PROVE FALSE
      BY DEF SetUnderWay
    <2>1. u # t /\ pc[u] \in MapOps /\ pc[t] \in MapOps
      BY <1>1, <1>2, <1>10 DEF Setting, MapOps
    <2> QED
      BY <1>4, <2>1, OtherMaps DEF KInv
  <1>13. \A c \in Cpus, n \in Nqs : ClaimOf(c, n)'
    <2>1. ASSUME NEW c \in Cpus, NEW n \in Nqs, ~(c = a /\ n = b) PROVE ClaimOf(c, n)'
      <3>1. nsqMap'[c][n] = nsqMap[c][n] /\ (c \in claimed'[n] <=> c \in claimed[n])
        BY <1>7, <1>9, <2>1
      <3> QED
        BY <1>11, <3>1, ClaimParts DEF ClaimOf
    <2>2. ClaimOf(a, b)'
      <3>1. v > 1 => a \in claimed[b]
        BY <1>3, <1>4, <1>5, ClaimParts DEF ClaimOf
      <3> QED
        BY <1>7, <1>9, <1>11, <1>12, <3>1 DEF ClaimOf
    <2> QED
      BY <2>1, <2>2
  <1>14. \A c \in Cpus \ {a} : UsedNqs(c)' = UsedNqs(c)
    BY <1>7, SameSetup DEF UsedNqs
  <1>15. /\ v = 1 => UsedNqs(a)' = UsedNqs(a) \ {b} /\ b \in UsedNqs(a)
         /\ v # 1 => UsedNqs(a)' = UsedNqs(a)
    BY <1>3, <1>4, <1>5, <1>7, SameSetup DEF UsedNqs
  <1>16. inUse'[a] = Cardinality(UsedNqs(a)')
    <2>1. inUse[a] = Cardinality(UsedNqs(a)) /\ IsFiniteSet(UsedNqs(a)) /\ Cardinality(UsedNqs(a)) \in Nat
      BY <1>2, ClaimParts, UsedFinite
    <2> QED
      BY <1>8, <1>15, <2>1, FS_RemoveElement
  <1>17. \A c \in Cpus : inUse'[c] = Cardinality(UsedNqs(c)')
    BY <1>8, <1>14, <1>16, ClaimParts
  <1> QED
    BY <1>13, <1>17, ClaimPartsNext

(* The steps that leave the maps alone do not come from setting an entry,  *)
(* and do not go there.                                                    *)
Moves(t) ==
  /\ UNCHANGED <<nsqMap, inUse, claimed>> /\ pc[t] \notin Setting
  /\ \E q : q \notin Setting /\ pc' = [pc EXCEPT ![t] = q]
  /\ loc' = loc \/ \E m : loc' = [loc EXCEPT ![t] = m]

LEMMA MovesStay ==
  ASSUME TInv, ClaimInv, UNCHANGED setup, NEW t \in Tasks, Moves(t)
  PROVE  ClaimInv'
  <1>1. t \in Contexts /\ pc \in [Contexts -> Labels] /\ loc \in [Contexts -> LocType] /\ Tasks \subseteq Contexts
    BY DEF TInv, Types, TyEnv, Contexts
  <1>2. UNCHANGED <<setup, nsqMap, inUse, claimed>> /\ pc[t] \notin Setting
    BY DEF Moves
  <1>3. PICK q : q \notin Setting /\ pc' = [pc EXCEPT ![t] = q]
    BY DEF Moves
  <1>4. pc'[t] \notin Setting /\ \A u \in Tasks \ {t} : pc'[u] = pc[u]
    BY <1>1, <1>3
  <1>5. \A u \in Tasks \ {t} : loc'[u] = loc[u]
    BY <1>1 DEF Moves
  <1>6. \A u \in Tasks : Where(u) \/ (pc[u] \notin Setting /\ pc'[u] \notin Setting)
    BY <1>2, <1>4, <1>5 DEF Where
  <1> QED
    BY <1>2, <1>6, ClaimStay

LEMMA ProfileMoves ==
  ASSUME TInv, NEW t \in Tasks, Profile(t)
  PROVE  Moves(t)
  <1> USE DEF At, Goto, Call, Finish, Oops, mapVars, Setting
  <1>1. CASE Lookup(t)
    BY <1>1 DEF Lookup, Moves
  <1>2. CASE InitTaskIoc(t)
    <2>1. UNCHANGED <<nsqMap, inUse, claimed>> /\ pc[t] = "init"
      BY <1>2 DEF InitTaskIoc
    <2>2. \E q \in {"insert", "set", "route"} : pc' = [pc EXCEPT ![t] = q]
      BY <1>2 DEF InitTaskIoc
    <2>3. loc' = loc \/ \E m : loc' = [loc EXCEPT ![t] = m]
      BY <1>2 DEF InitTaskIoc
    <2> QED
      BY <2>1, <2>2, <2>3 DEF Moves
  <1>3. CASE InitEnd(t)
    BY <1>3 DEF InitEnd, Moves
  <1>4. CASE InsertTaskIoc(t)
    BY <1>4 DEF InsertTaskIoc, Moves
  <1>5. CASE UpdateStats(t)
    BY <1>5 DEF UpdateStats, Moves
  <1>6. CASE ClearOldCpu(t)
    BY <1>6 DEF ClearOldCpu, Moves
  <1>7. CASE SetNewCpu(t)
    BY <1>7 DEF SetNewCpu, Moves
  <1>8. CASE MoveEnd(t)
    BY <1>8 DEF MoveEnd, Moves
  <1>9. CASE TakeNotice(t)
    BY <1>9 DEF TakeNotice, Moves
  <1>10. ASSUME NEW p, NEW r, SchedUpdate(t, p, r)
         PROVE  /\ \E q \in {"assign", "recommend"} : pc' = [pc EXCEPT ![t] = q]
                /\ \E m : loc' = [loc EXCEPT ![t] = m]
    BY <1>10 DEF SchedUpdate
  <1>11. CASE Reschedule(t)
    <2>1. UNCHANGED <<nsqMap, inUse, claimed>> /\ pc[t] = "resched"
      BY <1>11 DEF Reschedule
    <2>2. \/ \E p, r : SchedUpdate(t, p, r)
          \/ pc' = [pc EXCEPT ![t] = "oops"] /\ \E m : loc' = [loc EXCEPT ![t] = m]
      BY <1>11 DEF Reschedule
    <2> QED
      BY <1>10, <2>1, <2>2 DEF Moves
  <1>12. CASE GetCpu(t)
    BY <1>12 DEF GetCpu, Moves
  <1>13. CASE ClearOldNq(t)
    BY <1>13 DEF ClearOldNq, Moves
  <1>14. CASE PutCpu(t)
    BY <1>14 DEF PutCpu, Moves
  <1>15. CASE Assign(t)
    BY <1>15 DEF Assign, Moves
  <1>16. CASE Outlier(t)
    <2>1. UNCHANGED <<nsqMap, inUse, claimed>> /\ pc[t] = "outlier"
      BY <1>16 DEF Outlier
    <2>2. (\E p, r : SchedUpdate(t, p, r)) \/ (pc' = [pc EXCEPT ![t] = "route"] /\ loc' = loc)
      BY <1>16 DEF Outlier
    <2> QED
      BY <1>10, <2>1, <2>2 DEF Moves
  <1>17. CASE Recommend(t)
    <2>1. UNCHANGED <<nsqMap, inUse, claimed>> /\ pc[t] = "recommend"
      BY <1>17 DEF Recommend
    <2>2. /\ \E q \in {"assign", "pin", "clear"} : pc' = [pc EXCEPT ![t] = q]
          /\ \E m : loc' = [loc EXCEPT ![t] = m]
      BY <1>17 DEF Recommend
    <2> QED
      BY <2>1, <2>2 DEF Moves
  <1> QED
    BY <1>1, <1>2, <1>3, <1>4, <1>5, <1>6, <1>7, <1>8, <1>9, <1>11, <1>12, <1>13, <1>14, <1>15, <1>16, <1>17 DEF Profile

LEMMA SendMoves ==
  ASSUME TInv, NEW t \in Tasks, NoRequest(t) \/ TakeCached(t) \/ Route(t) \/ GetTag(t)
  PROVE  Moves(t)
  <1>1. UNCHANGED <<nsqMap, inUse, claimed>> /\ pc[t] \in {"route", "tag"}
    BY DEF NoRequest, TakeCached, Route, GetTag, At, mapVars
  <1>2. ASSUME NEW how, NEW nq, Get(t, how, nq)
        PROVE  pc' = [pc EXCEPT ![t] = "idle"] /\ loc' = [loc EXCEPT ![t] = NoLoc]
    BY <1>2 DEF Get, Finish, Goto
  <1>3. \/ pc' = [pc EXCEPT ![t] = "idle"] /\ loc' = [loc EXCEPT ![t] = NoLoc]
        \/ pc' = [pc EXCEPT ![t] = "oops"] /\ loc' = loc
        \/ pc' = [pc EXCEPT ![t] = "tag"] /\ loc' = loc
    BY <1>2 DEF NoRequest, TakeCached, Route, GetTag, Finish, Oops, Goto
  <1> QED
    BY <1>1, <1>3 DEF Moves, Setting

LEMMA MapsC ==
  ASSUME TInv, Orderly, KInv, ClaimInv, UNCHANGED setup, NEW t \in Tasks, Maps(t)
  PROVE  ClaimInv'
  <1>1. CASE SetLoad(t) \/ ClearLoad(t)
    <2>1. UNCHANGED <<setup, nsqMap, inUse, claimed>>
      BY <1>1 DEF SetLoad, ClearLoad, mapVars
    <2>2. /\ t \in Contexts /\ pc \in [Contexts -> Labels] /\ loc \in [Contexts -> LocType] /\ Tasks \subseteq Contexts
      BY DEF TInv, Types, TyEnv, Contexts
    <2>3. \/ pc[t] = "set_load" /\ pc' = [pc EXCEPT ![t] = "set_store"]
          \/ pc[t] = "clear" /\ pc' = [pc EXCEPT ![t] = "clear_store"]
      BY <1>1 DEF SetLoad, ClearLoad, At, Goto
    <2>4. PICK v : loc' = [loc EXCEPT ![t] = [loc[t] EXCEPT !.v = v]]
      BY <1>1 DEF SetLoad, ClearLoad
    <2>5. ASSUME NEW u \in Tasks PROVE Where(u)
      <3>1. loc'[u].mcpu = loc[u].mcpu /\ loc'[u].mnq = loc[u].mnq
        BY <2>2, <2>4 DEF LocType
      <3>2. pc'[u] \in Setting <=> pc[u] \in Setting
        BY <2>2, <2>3 DEF Setting
      <3> QED
        BY <3>1, <3>2 DEF Where
    <2> QED
      BY <2>1, <2>5, ClaimStay
  <1> QED
    BY <1>1, SetClaimC, SetStoreC, ClearStoreC DEF Maps

LEMMA ClaimNext == TInv /\ Orderly /\ KInv /\ ClaimInv /\ [Next /\ UNCHANGED setup]_vars => ClaimInv'
  <1> SUFFICES ASSUME TInv, Orderly, KInv, ClaimInv, [Next /\ UNCHANGED setup]_vars PROVE ClaimInv'
    OBVIOUS
  <1>1. CASE UNCHANGED vars
    <2>1. UNCHANGED <<setup, nsqMap, inUse, claimed, pc, loc>>
      BY <1>1 DEF vars, mapVars
    <2> QED
      BY <2>1, ClaimStay DEF Where
  <1>2. ASSUME UNCHANGED setup, NEW t \in Tasks, Profile(t) PROVE ClaimInv'
    BY <1>2, ProfileMoves, MovesStay
  <1>3. ASSUME UNCHANGED setup, NEW t \in Tasks, Maps(t) PROVE ClaimInv'
    BY <1>3, MapsC
  <1>4. ASSUME UNCHANGED setup, NEW s \in Setters, Set(s) PROVE ClaimInv'
    <2>1. UNCHANGED <<setup, nsqMap, inUse, claimed>>
      BY <1>4 DEF Set, SetIoprio, SetIoprioNew, Notify, mapVars
    <2>2. \A u \in Tasks : Where(u)
      BY <1>4, SetterSame DEF Where, Same
    <2> QED
      BY <2>1, <2>2, ClaimStay
  <1>5. ASSUME UNCHANGED setup, NEW t \in Tasks,
               \/ \E c \in Cpus : Migrate(t, c)
               \/ \E bio \in setup.bios : SubmitBio(t, bio)
               \/ Exit(t) \/ FreeTaskIoc(t)
        PROVE  ClaimInv'
    <2>1. CASE \E c \in Cpus : Migrate(t, c)
      <3>1. UNCHANGED <<setup, nsqMap, inUse, claimed, pc, loc>>
        BY <1>5, <2>1 DEF Migrate, mapVars
      <3> QED
        BY <3>1, ClaimStay DEF Where
    <2>2. ASSUME NEW bio, SubmitBio(t, bio) PROVE Moves(t)
      BY <2>2 DEF SubmitBio, Moves, At, Goto, mapVars, Setting
    <2>3. CASE Exit(t)
      <3>1. UNCHANGED <<nsqMap, inUse, claimed>> /\ pc[t] = "idle"
        BY <2>3 DEF Exit, At, mapVars
      <3>2. \E q \in {"dead", "clear"} : pc' = [pc EXCEPT ![t] = q]
        BY <2>3 DEF Exit, Goto, Call
      <3>3. loc' = loc \/ \E m : loc' = [loc EXCEPT ![t] = m]
        BY <2>3 DEF Exit, Call
      <3>4. Moves(t)
        BY <3>1, <3>2, <3>3 DEF Moves, Setting
      <3> QED
        BY <1>5, <3>4, MovesStay
    <2>4. CASE FreeTaskIoc(t)
      <3>1. Moves(t)
        BY <2>4 DEF FreeTaskIoc, Moves, At, Goto, mapVars, Setting
      <3> QED
        BY <1>5, <3>1, MovesStay
    <2> QED
      BY <1>5, <2>1, <2>2, <2>3, <2>4, MovesStay
  <1>6. ASSUME UNCHANGED setup, NEW c \in Contexts, IoAlloc(c) PROVE ClaimInv'
    <2>1. CASE c \in Tasks
      <3>1. UNCHANGED <<nsqMap, inUse, claimed>> /\ pc[c] = "io_alloc" /\ loc[c].target = c
        BY <1>6, <2>1, TaskTypes DEF IoAlloc, At, mapVars, Placed
      <3>2. \E q \in {"lookup", "route"} : pc' = [pc EXCEPT ![c] = q]
        BY <1>6, <3>1 DEF IoAlloc, Goto
      <3>3. loc' = loc
        BY <1>6, <3>1 DEF IoAlloc
      <3>4. Moves(c)
        BY <3>1, <3>2, <3>3 DEF Moves, Setting
      <3> QED
        BY <1>6, <2>1, <3>4, MovesStay
    <2>2. CASE c \notin Tasks
      <3>1. UNCHANGED <<setup, nsqMap, inUse, claimed>>
        BY <1>6 DEF IoAlloc, mapVars
      <3>2. \A u \in Tasks : Where(u)
        BY <1>6, <2>2, IoAllocSame DEF Where, Same
      <3> QED
        BY <3>1, <3>2, ClaimStay
    <2> QED
      BY <2>1, <2>2
  <1>7. ASSUME UNCHANGED setup, NEW t \in Tasks, Send(t) PROVE ClaimInv'
    <2>1. CASE Unplug(t)
      <3>1. UNCHANGED <<setup, nsqMap, inUse, claimed, pc, loc>>
        BY <1>7, <2>1 DEF Unplug, mapVars
      <3> QED
        BY <3>1, ClaimStay DEF Where
    <2>2. CASE ~Unplug(t)
      BY <1>7, <2>2, SendMoves, MovesStay DEF Send
    <2> QED
      BY <2>1, <2>2
  <1> QED
    BY <1>1, <1>2, <1>3, <1>4, <1>5, <1>6, <1>7 DEF Next

-----------------------------------------------------------------------------
(* The invariant as a whole. *)
LEMMA MInit == Init /\ Orderly => MInv
  <1> SUFFICES ASSUME Init, Orderly PROVE MInv
    OBVIOUS
  <1>1. TInv
    BY TInit
  <1>2. /\ setup \in Setups /\ setup.tasks \subseteq Tasks /\ None \notin Tasks /\ IsFiniteSet(Tasks) /\ setup.fails \in Nat
        /\ setup.io \in [Tasks -> Tasks \cup {None}] /\ Tasks \subseteq Contexts
    BY <1>1, OrderlyFacts, DeviceFacts DEF Contexts
  <1>3. \A t \in Tasks : /\ pc[t] \in {"idle", "dead"} /\ (t \notin setup.tasks => pc[t] = "dead")
                         /\ (t \in setup.tasks => pc[t] = "idle") /\ loc[t] = NoLoc /\ obj[t] = NoCtx
                         /\ ctx[t] = None /\ io[t] = setup.io[t] /\ cpu[t] \in setup.home[t]
    <2>1. Tasks \cap Setters = {} /\ setup.setters \subseteq Setters
      <3>1. setup \in Setup
        BY <1>2, TenantAssumption
      <3> QED
        BY <3>1, TenantAssumption DEF Setup
    <2> QED
      BY <1>2, <2>1 DEF Init
  <1>4. \A t \in Tasks : /\ Stage(t) = pc[t] /\ ~Worker(t) /\ ~Section(t) /\ ~obj[t].live /\ ~loc[t].changed /\ ~OnTheDevice(t)
                         /\ pc[t] \notin MapOps
    <2> SUFFICES ASSUME NEW t \in Tasks
                 PROVE  /\ Stage(t) = pc[t] /\ ~Worker(t) /\ ~Section(t) /\ ~obj[t].live /\ ~loc[t].changed /\ ~OnTheDevice(t)
                        /\ pc[t] \notin MapOps
      OBVIOUS
    <2>1. Stage(t) = pc[t] /\ pc[t] \notin MapOps
      BY <1>3 DEF Stage, MapOps
    <2>2. ~Worker(t)
      BY <1>3, <2>1 DEF Worker, Making, Profiling
    <2>3. ~Section(t)
      BY <1>3 DEF Section, AtRest, NoLoc
    <2>4. ~OnTheDevice(t)
      BY <1>2, <1>3 DEF OnTheDevice
    <2> QED
      BY <1>3, <2>1, <2>2, <2>3, <2>4 DEF NoCtx, NoLoc
  <1>5. HInv
    <2>1. \A t \in Tasks : AtHome(t)
      BY <1>3, <1>4 DEF AtHome, IoOf
    <2> QED
      BY <1>4, <2>1 DEF HInv, OneInside
  <1>6. OInv
    <2> SUFFICES ASSUME NEW t \in Tasks PROVE Owned(t)
      BY DEF OInv
    <2>1. Stage(t) \notin {"init", "init_end", "free"} \cup Making \cup Profiling
      BY <1>3, <1>4 DEF Making, Profiling
    <2>2. \A x \in Tasks : ctx[x] # t
      BY <1>2, <1>3
    <2> QED
      BY <1>4, <2>1, <2>2 DEF Owned
  <1>7. CInv
    <2> SUFFICES ASSUME NEW t \in Tasks PROVE Called(t)
      BY DEF CInv
    <2>1. Stage(t) \in {"idle", "dead"} /\ pc[t] \in {"idle", "dead"}
      BY <1>3, <1>4
    <2> QED
      BY <2>1 DEF Called, Locals, Updating, Scheduling, MapOps
  <1>8. Budget
    BY <1>2 DEF Init, Budget
  <1>9. NInv
    <2> SUFFICES ASSUME NEW c \in Cpus, NEW n \in Nqs PROVE Agree(c, n)
      BY DEF NInv
    <2>1. CountedAll(c, n) = {}
      BY <1>4 DEF CountedAll, CountedAt
    <2>2. nsqMap[c][n] = 0 /\ Cardinality(CountedAll(c, n)) = 0
      BY <2>1, FS_EmptySet DEF Init
    <2> QED
      BY <2>2 DEF Agree
  <1>10. ClaimInv
    <2> SUFFICES ASSUME NEW c \in Cpus PROVE inUse[c] = Cardinality(UsedNqs(c)) /\ \A n \in Nqs : ClaimOf(c, n)
      BY ClaimParts
    <2>1. \A n \in Nqs : nsqMap[c][n] = 0 /\ claimed[n] = {} /\ inUse[c] = 0
      BY DEF Init
    <2>2. UsedNqs(c) = {} /\ inUse[c] = 0
      BY <2>1 DEF UsedNqs, Init
    <2>3. Cardinality(UsedNqs(c)) = 0
      BY <2>2, FS_EmptySet
    <2>4. \A n \in Nqs : ~SetUnderWay(c, n)
      BY <1>4 DEF SetUnderWay, Setting, MapOps
    <2> QED
      BY <2>1, <2>2, <2>3, <2>4 DEF ClaimOf
  <1> QED
    BY <1>5, <1>6, <1>7, <1>8, <1>9, <1>10 DEF MInv, KInv

LEMMA MNext == TInv /\ (Orderly => MInv) /\ [Next /\ UNCHANGED setup]_vars => (Orderly => MInv)'
  <1> SUFFICES ASSUME TInv, Orderly => MInv, [Next /\ UNCHANGED setup]_vars, Orderly' PROVE MInv'
    OBVIOUS
  <1>1. setup' = setup
    BY DEF vars
  <1>2. Orderly /\ MInv
    BY <1>1, SameSetup
  <1> QED
    BY <1>2, KNext, ClaimNext DEF MInv

(* On a CPU where nobody is on the way, a context is counted where it is.  *)
LEMMA Settled ==
  ASSUME TInv, Orderly, MInv, NEW c \in Cpus, SettledOn(c), NEW n \in Nqs
  PROVE  CountedAll(c, n) = Using(c, n)
  <1>1. HInv /\ OInv
    BY DEF MInv, KInv
  <1>2. \A t \in Tasks : AtRest(t) => Stage(t) = pc[t] /\ ~Worker(t)
    BY DEF AtRest, Stage, MapOps, Worker, Making, Profiling
  <1>3. \A t \in Tasks : c \in setup.home[t] => ~Worker(t) /\ Stage(t) \notin Making
    BY <1>2 DEF SettledOn, AtRest, Making
  <1>4. ASSUME NEW o \in Tasks, NEW t \in Tasks, Worker(t), Subject(t) = o, c \in setup.home[o] PROVE FALSE
    <2>1. o # t => setup.home[o] = setup.home[t]
      BY <1>1, <1>4, WorkersFacts
    <2> QED
      BY <1>3, <1>4, <2>1
  <1>5. ASSUME NEW o \in Tasks, CountedAt(o, c, n)
        PROVE  obj[o].live /\ obj[o].last = c /\ obj[o].hctx = n
    <2> SUFFICES ASSUME NEW t \in Tasks, Worker(t), Subject(t) = o, NewCpu(t) = c PROVE FALSE
      BY <1>5 DEF CountedAt
    <2>1. NewCpu(t) \in setup.home[o]
      BY <1>1, GainsAtHome
    <2> QED
      BY <1>4, <2>1
  <1>6. ASSUME NEW o \in Tasks, obj[o].live, obj[o].last = c, obj[o].hctx = n, Published(o)
        PROVE  CountedAt(o, c, n)
    <2>1. OnTheDevice(o) /\ Owned(o)
      BY <1>1, <1>6 DEF Published, OnTheDevice, OInv
    <2>2. c \in setup.home[o]
      BY <1>6, <2>1 DEF Owned, Making
    <2> QED
      BY <1>4, <1>6, <2>2 DEF CountedAt
  <1>7. ASSUME NEW o \in Tasks, CountedAt(o, c, n) PROVE Published(o)
    <2>1. obj[o].live /\ obj[o].last = c /\ Owned(o)
      BY <1>1, <1>5, <1>7 DEF OInv
    <2>2. Stage(o) \notin Making
      <3>1. CASE Stage(o) = "init_end"
        <4>1. Worker(o) /\ Subject(o) = o
          BY <3>1 DEF Worker, Subject, Making
        <4>2. ~Keeps(o)
          BY <3>1 DEF Keeps
        <4>3. PICK t \in Tasks : Worker(t) /\ Subject(t) = o /\ NewCpu(t) = c
          BY <1>7, <4>1, <4>2 DEF CountedAt
        <4>4. c \in setup.home[o]
          BY <1>1, <4>3, GainsAtHome
        <4> QED
          BY <1>4, <4>3, <4>4
      <3>2. CASE Stage(o) # "init_end"
        <4>1. c \in setup.home[o]
          BY <2>1, <3>2 DEF Owned
        <4> QED
          BY <1>3, <4>1
      <3> QED
        BY <3>1, <3>2
    <2> QED
      BY <2>1, <2>2 DEF Owned, Published, OnTheDevice
  <1> QED
    BY <1>5, <1>6, <1>7 DEF CountedAll, Using, Published

LEMMA Exact == TInv /\ Orderly /\ MInv => ExitFreesContext /\ NsqMapCounts /\ ClaimsFollowMaps
  <1> SUFFICES ASSUME TInv, Orderly, MInv PROVE ExitFreesContext /\ NsqMapCounts /\ ClaimsFollowMaps
    OBVIOUS
  <1>1. HInv /\ OInv /\ CInv /\ NInv /\ ClaimInv
    BY DEF MInv, KInv
  <1>2. ExitFreesContext
    BY <1>1 DEF ExitFreesContext, OInv, Owned
  <1>3. NsqMapCounts
    <2> SUFFICES ASSUME MapsExact, NEW c \in Cpus, SettledOn(c), NEW n \in Nqs PROVE nsqMap[c][n] = Cardinality(Using(c, n))
      BY DEF NsqMapCounts
    <2>1. NoFailure
      BY DEF MapsExact, NoFailure
    <2>2. Agree(c, n)
      BY <1>1, <2>1 DEF NInv
    <2> QED
      BY <2>1, <2>2, Settled DEF Agree
  <1>4. ClaimsFollowMaps
    <2> SUFFICES ASSUME NEW c \in Cpus, SettledOn(c)
                 PROVE  /\ inUse[c] = Cardinality({n \in Nqs : nsqMap[c][n] > 0})
                        /\ \A n \in Nqs : c \in claimed[n] <=> nsqMap[c][n] > 0
      BY DEF ClaimsFollowMaps
    <2>1. \A n : ~SetUnderWay(c, n)
      <3> SUFFICES ASSUME NEW t \in Tasks, pc[t] \in Setting, loc[t].mcpu = c PROVE FALSE
        BY DEF SetUnderWay
      <3>1. c \in setup.home[t]
        BY <1>1, OwnMaps DEF Setting, MapOps
      <3> QED
        BY <3>1 DEF SettledOn, AtRest, Setting
    <2> QED
      BY <1>1, <2>1, ClaimParts DEF ClaimOf, UsedNqs
  <1> QED
    BY <1>2, <1>3, <1>4

(* Where tasks that meet are bound to one CPU, none share an io_context,   *)
(* the kernel is not preempted and profiling is off: unless an allocation  *)
(* failed, each CPU's map of NSQs counts exactly the tasks that last ran   *)
(* there and use the NSQ, and nr_in_use and the masks follow the map, for  *)
(* any number of tasks, setters, migrations, priority changes, sleeps and  *)
(* exits, and across every interleaving of their map updates; and an       *)
(* exiting task's context is freed (blk_blex_set_maps(),                   *)
(* blk_blex_clear_maps(), blk_blex_sched_task_update(), blk-blex.c:379).   *)
THEOREM MapsAreExact == Spec => [](Orderly => MapsCountTasks)
  <1>1. TInv => TypeOK
    <2> SUFFICES ASSUME TInv PROVE TypeOK
      OBVIOUS
    <2>1. ObjType = [live : BOOLEAN, prio : {TPrio, LPrio, OutlierPrio},
                     hctx : Nqs \cup {None}, outlier : Nqs \cup {None}, last : Cpus,
                     need : BOOLEAN, sync : 0 .. Magnitude, async : 0 .. Magnitude]
      BY DEF ObjType, IoPrios
    <2> QED
      BY <2>1 DEF TInv, Types, TyEnv, TyMaps, TySent, TypeOK
  <1>2. Init => (Orderly => MInv)
    BY MInit
  <1>3. TInv /\ (Orderly => MInv) => (Orderly => MapsCountTasks)
    BY <1>1, Exact DEF MapsCountTasks
  <1> QED
    BY <1>2, <1>3, TInit, TNext, MNext, PTL DEF Spec

(* Under the same conditions, but whatever allocation or insertion fails   *)
(* and even if the memory of a freed io_context no longer holds its        *)
(* entries at exit: no NSQ looks less used than it is                      *)
(* (blk_blex_tenant_ioc_profile(), exit_io_context(), blk-blex.c:189).     *)
THEOREM NeverTooFew == Spec => [](Orderly => NeverUndercounted)
  <1>1. TInv /\ (Orderly => MInv) => (Orderly => NeverUndercounted)
    <2> SUFFICES ASSUME TInv, Orderly, MInv, NEW c \in Cpus, SettledOn(c), NEW n \in Nqs
                 PROVE  nsqMap[c][n] >= Cardinality(Using(c, n))
      BY DEF NeverUndercounted, NotTooFew
    <2>1. Agree(c, n)
      BY DEF MInv, KInv, NInv
    <2> QED
      BY <2>1, Settled DEF Agree
  <1>2. Init => (Orderly => MInv)
    BY MInit
  <1> QED
    BY <1>1, <1>2, TInit, TNext, MNext, PTL DEF Spec
=============================================================================
