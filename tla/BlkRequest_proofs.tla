------------------------- MODULE BlkRequest_proofs -------------------------
(***************************************************************************)
(* Proofs about requests and their tags, for any hctxs and sharing of tag  *)
(* maps, any tasks, freezers and workload: that references balance, that a *)
(* tag is kept while its request is held, that a command is not timed out  *)
(* before it is sent, and that nothing is left where somebody waited for   *)
(* all requests to end.                                                    *)
(***************************************************************************)
EXTENDS BlkRequest, FiniteSetTheorems, TLAPS

TaskRecs == [pc : {"out", "get", "retry", "again", "asleep", "test", "init", "issue", "timer", "flight"},
             h : Hctxs \cup {None}, rq : Rqs \cup {None}, left : Nat, ios : Nat, nowait : BOOLEAN]
RqRecs   == [st : {"idle", "flight", "complete"}, ref : Nat, hctx : Hctxs \cup {None},
             dev : BOOLEAN, late : BOOLEAN, out : BOOLEAN]
WalkRecs == [left : SUBSET (Hctxs \X Rqs), cur : Rqs \cup {None}, h : Hctxs \cup {None}]
Timers   == [pc : {"idle", "walk", "sync", "call", "drain", "cancel", "put"}, phase : {"check", "handle"},
             due : SUBSET Rqs, found : BOOLEAN, next : BOOLEAN, sync : SUBSET Issuers]
Hotplugs == [st : [Hctxs -> {"online", "inactive", "wait", "offline"}], missed : [Hctxs -> SUBSET Rqs]]

Typed ==
  /\ setup \in Setups /\ bits \subseteq Rqs /\ listed \subseteq Rqs /\ pending \subseteq Rqs
  /\ rq \in [Rqs -> RqRecs] /\ task \in [Issuers -> TaskRecs]
  /\ cached \in [Tasks -> Seq(Rqs)] /\ waits \in [Tasks -> Cqs \cup {None}]
  /\ wakes \in [Cqs -> Nat] /\ users \in Int /\ depth \in Int /\ killed \in BOOLEAN
  /\ freezer \in [Freezers -> {"out", "wait", "frozen", "done"}] /\ quiesced \in BOOLEAN
  /\ cpuhp \in Hotplugs /\ timer \in Timers /\ walk \in [{"queue", "set"} -> WalkRecs]

(* Where a task has a request in its hand, and a hctx. *)
Tagging == {"test", "init"}
Issuing == {"issue", "timer", "flight"}
Hands ==
  /\ \A i \in Issuers : task[i].rq \in Rqs <=> task[i].pc \in Tagging \cup Issuing
  /\ \A t \in Allocating : task[t].h \in Hctxs
  /\ \A t \in Tasks : task[t].pc \in Tagging => task[t].rq[1] = TagsOf[task[t].h]
  /\ task[Worker].pc \in {"out"} \cup Issuing

(* A tag is set for a request with references, or for one task that is     *)
(* about to initialise its request.                                        *)
HeldTags ==
  \A r \in Rqs : rq[r].ref > 0 => r \in bits /\ rq[r].hctx \in Hctxs /\ r[1] = TagsOf[rq[r].hctx]
BitsMapped == \A r \in bits : r[2] < setup.depth
FreeIsFree == \A r \in Rqs : rq[r].ref = 0 => rq[r] = Free
BitsHeld ==
  \A r \in bits : rq[r].ref > 0 \/ \E t \in Tasks : task[t].pc \in Tagging /\ task[t].rq = r
NewTags ==
  /\ \A t \in Tasks : task[t].pc \in Tagging => task[t].rq \in bits /\ rq[task[t].rq].ref = 0
  /\ \A t, u \in Tasks : task[t].pc \in Tagging /\ task[u].pc \in Tagging /\ task[t].rq = task[u].rq => t = u
TagsKept == HeldTags /\ BitsMapped /\ FreeIsFree /\ BitsHeld /\ NewTags

(* A request has one owner at a time, and a state that suits him. *)
CachedApart ==
  /\ \A t, u \in Tasks : \A k \in DOMAIN cached[t], l \in DOMAIN cached[u] :
       cached[t][k] = cached[u][l] => t = u /\ k = l
  /\ \A t \in Tasks : \A k \in DOMAIN cached[t] : cached[t][k] \notin pending /\ rq[cached[t][k]].st = "idle"
IssuedApart ==
  /\ \A i, j \in Issuers : task[i].pc \in Issuing /\ task[j].pc \in Issuing /\ task[i].rq = task[j].rq => i = j
  /\ \A i \in Issuers : task[i].pc \in Issuing =>
       /\ task[i].rq \notin pending
       /\ \A t \in Tasks : \A k \in DOMAIN cached[t] : cached[t][k] # task[i].rq
PendingIdle == \A r \in pending : rq[r].st = "idle"
StateSuits ==
  /\ \A i \in Issuers : task[i].pc \in {"issue", "timer"} => rq[task[i].rq].st = "idle"
  /\ \A i \in Issuers : task[i].pc = "flight" => rq[task[i].rq].st = "flight" /\ ~rq[task[i].rq].dev
  /\ \A r \in Rqs : rq[r].dev => rq[r].st = "flight"
OneOwner == CachedApart /\ IssuedApart /\ PendingIdle /\ StateSuits

(* A walk is on where its code is, and only there. *)
WalksPlaced ==
  /\ timer.pc \in {"call", "put", "drain", "cancel"} => walk["queue"].cur \in Rqs /\ timer.phase = "handle"
  /\ timer.pc \in {"idle", "sync"} => Walked("queue") /\ timer.phase = "check"
  /\ ~Walked("set") => timer.pc = "cancel"

(* Nothing gets into flight while the handler cancels, and the walk has    *)
(* what is in flight before it.                                            *)
Cancelling ==
  /\ timer.pc \in {"drain", "cancel"} => quiesced
  /\ \A r \in Rqs : rq[r].st = "flight" => r \in listed
  /\ \A i \in Issuers : task[i].pc = "timer" => task[i].rq \in listed
  /\ timer.pc = "cancel" =>
       /\ Sections = {} /\ \A r \in Rqs : ~rq[r].dev
       /\ \A r \in Rqs : rq[r].st = "flight" => walk["set"].cur = r \/ \E v \in walk["set"].left : v[2] = r

(* Whose submission is under way is not due, or it is waited for. *)
NotDueYet ==
  /\ timer.pc = "sync" => \A i \in Sections : i \in timer.sync \/ task[i].rq \notin timer.due
  /\ timer.phase = "handle" => \A i \in Sections : task[i].rq \notin timer.due

Freezing == {f \in Freezers : freezer[f] \in {"wait", "frozen"}}
Frozen ==
  /\ depth = Cardinality(Freezing) /\ (killed <=> Freezing # {})
  /\ (\E f \in Freezers : freezer[f] = "frozen") => users = 0

(* Requests of a hctx that is offline are those overlooked. *)
Offline ==
  /\ \A h \in Hctxs : Inactive(h) => h \in setup.unplugged
  /\ \A h \in Hctxs : cpuhp.st[h] = "offline" =>
       /\ \A r \in Rqs : rq[r].ref > 0 /\ rq[r].hctx = h => r \in cpuhp.missed[h]
       /\ \A t \in Tasks : task[t].pc = "init" /\ task[t].h = h => task[t].rq \in cpuhp.missed[h]

(* RequestRefs and QueueUsers, in other words. *)
OnWalk(w, r) == IF walk[w].cur = r THEN 1 ELSE 0
Has(r) == IF r \in Owned THEN 1 ELSE 0
Refs == \A r \in Rqs : rq[r].ref = OnWalk("queue", r) + OnWalk("set", r) + Has(r)

Draining == {h \in Hctxs : cpuhp.st[h] = "wait"}
Working == IF timer.pc = "idle" THEN 0 ELSE 1
Users ==
  users = Cardinality(Allocating) + Cardinality(Held) + Cardinality(Owed) + Working + Cardinality(Draining)

ReqInv ==
  /\ Typed /\ Hands /\ TagsKept /\ OneOwner /\ Refs /\ Users
  /\ WalksPlaced /\ Cancelling /\ NotDueYet /\ Frozen /\ Offline

-----------------------------------------------------------------------------
LEMMA Constants ==
  /\ IsFiniteSet(Rqs) /\ IsFiniteSet(Tasks) /\ IsFiniteSet(Hctxs) /\ IsFiniteSet(Freezers)
  /\ IsFiniteSet(Cqs) /\ Cqs \subseteq Hctxs /\ Hctxs \subseteq Nat /\ Depth \in Nat \ {0}
  /\ None \notin Rqs /\ None \notin Hctxs /\ Worker \notin Tasks
  /\ TagsOf \in [Hctxs -> Hctxs] /\ \A h \in Hctxs : TagsOf[h] \in Cqs
  /\ Tasks \subseteq Issuers /\ Worker \in Issuers /\ Issuers = Tasks \cup {Worker}
  /\ \A r \in Rqs : r[1] \in Cqs /\ r[2] \in Nat
  <1>1. IsFiniteSet(Cqs) /\ Cqs \subseteq Hctxs
    BY RequestAssumption, FS_Subset DEF Cqs
  <1>2. IsFiniteSet(0 .. Depth - 1)
    BY RequestAssumption, FS_Interval
  <1>3. IsFiniteSet(Rqs)
    BY <1>1, <1>2, FS_Product DEF Rqs
  <1>4. \A r \in Rqs : r[1] \in Cqs /\ r[2] \in Nat
    BY RequestAssumption DEF Rqs
  <1>5. /\ IsFiniteSet(Tasks) /\ IsFiniteSet(Hctxs) /\ IsFiniteSet(Freezers)
        /\ Hctxs \subseteq Nat /\ Depth \in Nat \ {0}
        /\ None \notin Rqs /\ None \notin Hctxs /\ Worker \notin Tasks
        /\ TagsOf \in [Hctxs -> Hctxs] /\ \A h \in Hctxs : TagsOf[h] \in Cqs
    BY RequestAssumption
  <1> QED
    BY <1>1, <1>3, <1>4, <1>5 DEF Issuers

LEMMA SetupType ==
  ASSUME Typed
  PROVE  /\ setup.hctxs \in SUBSET Hctxs /\ setup.ios \in Nat /\ setup.nowait \in BOOLEAN
         /\ setup.timer \in BOOLEAN /\ setup.reqs \in [Tasks -> Nat] /\ setup.unplugged \in SUBSET Hctxs
         /\ setup.depth \in 1 .. Depth /\ setup.freezers \in SUBSET Freezers
  BY RequestAssumption DEF Typed

LEMMA WalksCount ==
  ASSUME NEW r
  PROVE  Walks(r) = OnWalk("queue", r) + OnWalk("set", r)
  <1> DEFINE W == {w \in {"queue", "set"} : walk[w].cur = r}
  <1>1. Cardinality({}) = 0 /\ Cardinality({"queue"}) = 1 /\ Cardinality({"set"}) = 1
    BY FS_EmptySet, FS_Singleton
  <1>2. Cardinality({"queue", "set"}) = 2
    <2>1. {"queue", "set"} = {"queue"} \cup {"set"} /\ "set" \notin {"queue"} /\ IsFiniteSet({"queue"})
      BY FS_Singleton
    <2>2. Cardinality({"queue"} \cup {"set"}) = Cardinality({"queue"}) + 1
      BY <2>1, FS_AddElement
    <2> QED
      BY <1>1, <2>1, <2>2
  <1>3. Walks(r) = Cardinality(W)
    BY DEF Walks
  <1>4. /\ walk["queue"].cur = r /\ walk["set"].cur = r => W = {"queue", "set"}
        /\ walk["queue"].cur = r /\ walk["set"].cur # r => W = {"queue"}
        /\ walk["queue"].cur # r /\ walk["set"].cur = r => W = {"set"}
        /\ walk["queue"].cur # r /\ walk["set"].cur # r => W = {}
    OBVIOUS
  <1> HIDE DEF W
  <1> QED
    BY <1>1, <1>2, <1>3, <1>4 DEF OnWalk

LEMMA RefsEquivalent == RequestRefs <=> Refs
  BY WalksCount DEF RequestRefs, Refs, Has

LEMMA UsersEquivalent == QueueUsers <=> Users
  BY DEF QueueUsers, Users, Working, Draining

LEMMA Ranges ==
  /\ \A m \in Nat : IsFiniteSet(1 .. m)
  /\ \A m, n \in Nat : IsFiniteSet(m + 1 .. m + n) /\ Cardinality(m + 1 .. m + n) = n
  <1>1. ASSUME NEW m \in Nat PROVE IsFiniteSet(1 .. m)
    BY FS_Interval
  <1>2. ASSUME NEW m \in Nat, NEW n \in Nat
        PROVE  IsFiniteSet(m + 1 .. m + n) /\ Cardinality(m + 1 .. m + n) = n
    BY FS_Interval
  <1> QED
    BY <1>1, <1>2

LEMMA Finite ==
  ASSUME Typed
  PROVE  /\ IsFiniteSet(Allocating) /\ Cardinality(Allocating) \in Nat
         /\ IsFiniteSet(Held) /\ Cardinality(Held) \in Nat
         /\ IsFiniteSet(Owed) /\ Cardinality(Owed) \in Nat
         /\ IsFiniteSet(Draining) /\ Cardinality(Draining) \in Nat
  <1>1. Allocating \subseteq Tasks /\ Held \subseteq Rqs /\ Draining \subseteq Hctxs
    BY DEF Allocating, Held, Draining
  <1>2. IsFiniteSet(Owed)
    <2> DEFINE S == {{c} \X (1 .. wakes[c]) : c \in Cqs}
               f == [c \in Cqs |-> {c} \X (1 .. wakes[c])]
    <2>1. f \in Surjection(Cqs, S)
      BY DEF Surjection
    <2>2. IsFiniteSet(S)
      BY <2>1, Constants, FS_Surjection
    <2>3. ASSUME NEW c \in Cqs PROVE IsFiniteSet({c} \X (1 .. wakes[c]))
      <3>1. wakes[c] \in Nat
        BY DEF Typed
      <3>3. IsFiniteSet({c}) /\ IsFiniteSet(1 .. wakes[c])
        BY Zenon, <3>1, Ranges, FS_Singleton
      <3> QED
        BY <3>3, FS_Product
    <2>4. \A T \in S : IsFiniteSet(T)
      BY <2>3
    <2> QED
      BY <2>2, <2>4, FS_UNION DEF Owed
  <1> QED
    BY <1>1, <1>2, Constants, FS_Subset, FS_CardinalityType

LEMMA OwedMore ==
  ASSUME Typed, NEW c \in Cqs, NEW n \in Nat, wakes' = [wakes EXCEPT ![c] = wakes[c] + n]
  PROVE  Cardinality(Owed') = Cardinality(Owed) + n
  <1> DEFINE D == {c} \X (wakes[c] + 1 .. wakes[c] + n)
  <1>1. wakes[c] \in Nat /\ wakes \in [Cqs -> Nat]
    BY DEF Typed
  <1>2. IsFiniteSet({c}) /\ Cardinality({c}) = 1
    BY FS_Singleton
  <1>3. IsFiniteSet(wakes[c] + 1 .. wakes[c] + n) /\ Cardinality(wakes[c] + 1 .. wakes[c] + n) = n
    BY Zenon, <1>1, Ranges
  <1>4. IsFiniteSet(D) /\ Cardinality(D) = n
    <2>1. IsFiniteSet(D) /\ Cardinality(D) = Cardinality({c}) * Cardinality(wakes[c] + 1 .. wakes[c] + n)
      BY <1>2, <1>3, FS_Product
    <2> QED
      BY <1>2, <1>3, <2>1
  <1>5. \A k : k \in 1 .. wakes[c] + n <=> k \in 1 .. wakes[c] \/ k \in wakes[c] + 1 .. wakes[c] + n
    BY <1>1
  <1>6. /\ \A o : o \in Owed <=> \E b \in Cqs : o \in {b} \X (1 .. wakes[b])
        /\ \A o : o \in Owed' <=> \E b \in Cqs : o \in {b} \X (1 .. wakes'[b])
    BY DEF Owed
  <1>7. wakes'[c] = wakes[c] + n /\ \A b \in Cqs \ {c} : wakes'[b] = wakes[b]
    BY <1>1
  <1>8. Owed' = Owed \cup D
    BY <1>5, <1>6, <1>7
  <1>9. Owed \cap D = {}
    <2>1. \A k : ~(k \in 1 .. wakes[c] /\ k \in wakes[c] + 1 .. wakes[c] + n)
      BY <1>1
    <2> QED
      BY <1>6, <2>1
  <1>10. Cardinality(Owed \cup D) = Cardinality(Owed) + Cardinality(D) - Cardinality(Owed \cap D)
    BY <1>4, Finite, FS_Union
  <1>11. Cardinality(Owed \cap D) = 0
    BY <1>9, FS_EmptySet
  <1> HIDE DEF D
  <1> QED
    BY <1>4, <1>8, <1>10, <1>11, Finite

LEMMA OwedLess ==
  ASSUME Typed, NEW c \in Cqs, wakes[c] > 0, wakes' = [wakes EXCEPT ![c] = @ - 1]
  PROVE  Cardinality(Owed') = Cardinality(Owed) - 1 /\ Cardinality(Owed) > 0
  <1> DEFINE o == <<c, wakes[c]>>
  <1>1. wakes[c] \in Nat /\ wakes \in [Cqs -> Nat]
    BY DEF Typed
  <1>2. /\ \A p : p \in Owed <=> \E b \in Cqs : p \in {b} \X (1 .. wakes[b])
        /\ \A p : p \in Owed' <=> \E b \in Cqs : p \in {b} \X (1 .. wakes'[b])
    BY DEF Owed
  <1>3. wakes'[c] = wakes[c] - 1 /\ \A b \in Cqs \ {c} : wakes'[b] = wakes[b]
    BY <1>1
  <1>4. \A k : k \in 1 .. wakes[c] - 1 <=> k \in 1 .. wakes[c] /\ k # wakes[c]
    BY <1>1
  <1>5. wakes[c] \in 1 .. wakes[c]
    BY <1>1
  <1>6. o \in Owed /\ Owed' = Owed \ {o}
    BY <1>2, <1>3, <1>4, <1>5
  <1>7. Cardinality(Owed \ {o}) = Cardinality(Owed) - 1
    BY <1>6, Finite, FS_RemoveElement
  <1>8. Cardinality(Owed) # 0
    BY <1>6, Finite, FS_EmptySet
  <1> QED
    BY <1>6, <1>7, <1>8, Finite

-----------------------------------------------------------------------------
(* What it does to put references.                                         *)
Ending(rs) == {r \in rs : rq[r].ref = 1}
Released(rs) ==
  /\ rs \in SUBSET Rqs /\ rq' \in [Rqs -> RqRecs] /\ bits' = bits \ Ending(rs)
  /\ \A r \in rs : rq[r].ref > 0
  /\ \A r \in Rqs \ rs : rq'[r] = rq[r]
  /\ \A r \in Ending(rs) : rq'[r] = Free
  /\ \A r \in rs \ Ending(rs) :
       /\ rq'[r].ref = rq[r].ref - 1 /\ rq'[r].hctx = rq[r].hctx
       /\ rq'[r].dev = rq[r].dev /\ rq'[r].late = rq[r].late /\ rq'[r].out = rq[r].out

LEMMA FreeType == Free \in RqRecs
  BY DEF Free, RqRecs

LEMMA PutEffect ==
  ASSUME Typed, NEW rs \in SUBSET Rqs, NEW st \in [rs -> {"idle", "flight", "complete"}],
         \A r \in rs : rq[r].ref > 0, PutRefs(rs, st)
  PROVE  Released(rs) /\ \A r \in rs \ Ending(rs) : rq'[r].st = st[r]
  <1>1. rq \in [Rqs -> RqRecs]
    BY DEF Typed
  <1>2. bits' = bits \ Ending(rs)
    BY DEF PutRefs, FreeRequests, Ending
  <1>3. rq' = [r \in Rqs |-> IF r \in Ending(rs) THEN Free
                             ELSE IF r \in rs THEN [rq[r] EXCEPT !.ref = @ - 1, !.st = st[r]] ELSE rq[r]]
    BY DEF PutRefs, Ending
  <1>4. ASSUME NEW r \in rs \ Ending(rs)
        PROVE  /\ rq'[r] \in RqRecs
               /\ rq'[r].ref = rq[r].ref - 1 /\ rq'[r].hctx = rq[r].hctx /\ rq'[r].st = st[r]
               /\ rq'[r].dev = rq[r].dev /\ rq'[r].late = rq[r].late /\ rq'[r].out = rq[r].out
    <2>1. rq'[r] = [rq[r] EXCEPT !.ref = @ - 1, !.st = st[r]]
      BY <1>3
    <2>2. rq[r] \in RqRecs /\ rq[r].ref > 0 /\ st[r] \in {"idle", "flight", "complete"}
      BY <1>1
    <2>3. rq[r].ref - 1 \in Nat
      BY <2>2 DEF RqRecs
    <2> QED
      BY <2>1, <2>2, <2>3 DEF RqRecs
  <1>5. /\ \A r \in Rqs \ rs : rq'[r] = rq[r]
        /\ \A r \in Ending(rs) : rq'[r] = Free
        /\ Ending(rs) \subseteq rs
    BY <1>3 DEF Ending
  <1>6. rq' \in [Rqs -> RqRecs]
    BY <1>1, <1>3, <1>4, <1>5, FreeType
  <1> QED
    BY <1>2, <1>4, <1>5, <1>6 DEF Released

LEMMA PutCounts ==
  ASSUME Typed, NEW rs \in SUBSET Rqs, NEW st, PutRefs(rs, st), Released(rs),
         \A r, s \in rs : r[1] = s[1]
  PROVE  /\ wakes' \in [Cqs -> Nat]
         /\ Cardinality(Held') + Cardinality(Owed') = Cardinality(Held) + Cardinality(Owed)
  <1> DEFINE L == Ending(rs)
             of(c) == {r \in L : r[1] = c}
  <1>0. L \subseteq Rqs /\ L \subseteq Held /\ Held' = Held \ L
    BY DEF Ending, Released, Held, Free, Typed, RqRecs
  <1>1. IsFiniteSet(L) /\ Cardinality(L) \in Nat
    BY <1>0, Constants, FS_Subset, FS_CardinalityType
  <1>2. wakes' = [c \in Cqs |-> wakes[c] + Cardinality(of(c))]
    BY DEF PutRefs, FreeRequests, Ending
  <1>3. \A c \in Cqs : Cardinality(of(c)) \in Nat
    <2>1. ASSUME NEW c \in Cqs PROVE of(c) \in SUBSET L
      OBVIOUS
    <2> QED
      BY <1>1, <2>1, FS_Subset, FS_CardinalityType
  <1>4. wakes' \in [Cqs -> Nat]
    BY <1>2, <1>3 DEF Typed
  <1>5. Cardinality(Held') = Cardinality(Held) - Cardinality(L)
    <2>1. Held = Held' \cup L /\ Held' \cap L = {}
      BY <1>0
    <2>2. IsFiniteSet(Held') /\ Cardinality(Held') \in Nat
      BY <1>0, Finite, FS_Subset, FS_CardinalityType
    <2>3. Cardinality(Held) = Cardinality(Held') + Cardinality(L) - Cardinality(Held' \cap L)
      BY <1>1, <2>1, <2>2, FS_Union
    <2>4. Cardinality(Held' \cap L) = 0
      BY <2>1, FS_EmptySet
    <2> HIDE DEF L
    <2> QED
      BY <1>1, <2>2, <2>3, <2>4
  <1>6. Cardinality(Owed') = Cardinality(Owed) + Cardinality(L)
    <2>1. CASE L = {}
      <3>1. \A c \in Cqs : Cardinality(of(c)) = 0
        BY <2>1, FS_EmptySet
      <3>2. wakes' = wakes /\ Cardinality(L) = 0
        BY <1>2, <2>1, <3>1, FS_EmptySet DEF Typed
      <3> QED
        BY <3>2, Finite DEF Owed
    <2>2. CASE L # {}
      <3>1. PICK l \in L : TRUE
        BY <2>2
      <3>2. l[1] \in Cqs /\ of(l[1]) = L /\ \A c \in Cqs \ {l[1]} : of(c) = {}
        BY <1>0, <3>1, Constants DEF Ending
      <3>3. \A c \in Cqs \ {l[1]} : Cardinality(of(c)) = 0
        BY <3>2, FS_EmptySet
      <3> HIDE DEF L, of
      <3>4. wakes' = [wakes EXCEPT ![l[1]] = wakes[l[1]] + Cardinality(L)]
        <4>1. wakes \in [Cqs -> Nat]
          BY DEF Typed
        <4>2. wakes'[l[1]] = wakes[l[1]] + Cardinality(L) /\ \A c \in Cqs \ {l[1]} : wakes'[c] = wakes[c]
          BY <1>2, <3>2, <3>3, <4>1
        <4> QED
          BY <1>2, <3>2, <4>1, <4>2
      <3> QED
        BY <1>1, <3>2, <3>4, OwedMore
    <2> QED
      BY <2>1, <2>2
  <1> HIDE DEF L
  <1> QED
    BY <1>1, <1>4, <1>5, <1>6, Finite

OwnedIs ==
  \A r \in Rqs : r \in Owned <=>
    \/ rq[r].st \in {"flight", "complete"} \/ r \in pending
    \/ \E t \in Tasks : \E k \in DOMAIN cached[t] : cached[t][k] = r
    \/ \E i \in Issuers : task[i].rq = r /\ task[i].pc \in Issuing

LEMMA OwnedMeans == OwnedIs
  BY DEF OwnedIs, Owned, ToSet, Issuing

LEMMA ReleaseKeepsTags ==
  ASSUME Typed, TagsKept, NEW rs, Released(rs), UNCHANGED <<task, setup>>
  PROVE  TagsKept'
  <1>1. \A r \in Rqs : rq[r].ref \in Nat
    BY DEF Typed, RqRecs
  <1>2. Free.ref = 0
    BY DEF Free
  <1>3. \A r \in Rqs : rq'[r].ref > 0 => rq[r].ref > 0 /\ rq'[r].hctx = rq[r].hctx /\ r \notin Ending(rs)
    BY <1>2 DEF Released, Ending
  <1>4. \A r \in Rqs : rq[r].ref > 0 /\ r \notin Ending(rs) => rq'[r].ref > 0
    BY <1>1 DEF Released, Ending
  <1>5. \A r \in Rqs : rq[r].ref = 0 => rq'[r] = rq[r] /\ r \notin Ending(rs)
    BY DEF Released, Ending
  <1>6. \A r \in Rqs : r \in bits' <=> r \in bits /\ r \notin Ending(rs)
    BY DEF Released
  <1>7. HeldTags' /\ BitsMapped'
    BY <1>3, <1>6 DEF TagsKept, HeldTags, BitsMapped, Typed, Released
  <1>8. FreeIsFree'
    BY <1>1, <1>4, <1>5 DEF TagsKept, FreeIsFree, Released
  <1>9. BitsHeld'
    BY <1>4, <1>6 DEF TagsKept, BitsHeld, Typed, Released
  <1>10. NewTags'
    BY <1>5, <1>6 DEF TagsKept, NewTags, Typed
  <1> QED
    BY <1>7, <1>8, <1>9, <1>10 DEF TagsKept

LEMMA ReleaseKeepsOffline ==
  ASSUME Typed, Offline, NEW rs, Released(rs), UNCHANGED <<task, setup, cpuhp>>
  PROVE  Offline'
  <1>1. \A r \in Rqs : rq'[r].ref > 0 => rq[r].ref > 0 /\ rq'[r].hctx = rq[r].hctx
    BY DEF Released, Free
  <1> QED
    BY <1>1 DEF Offline, Inactive

LEMMA CountTypes == Typed => Cardinality(Held) \in Nat /\ Cardinality(Owed) \in Nat
  BY Finite

LEMMA ReleaseKeepsUsers ==
  ASSUME Typed, Users, Cardinality(Held') + Cardinality(Owed') = Cardinality(Held) + Cardinality(Owed),
         Typed', UNCHANGED <<users, task, cpuhp>>, Working' = Working
  PROVE  Users'
  <1>1. Allocating' = Allocating /\ Draining' = Draining
    BY DEF Allocating, Draining
  <1>2. Cardinality(Held') \in Nat /\ Cardinality(Owed') \in Nat
    <2>1. (Typed => Cardinality(Held) \in Nat /\ Cardinality(Owed) \in Nat)'
      BY CountTypes, PTL
    <2> QED
      BY <2>1
  <1> QED
    BY <1>1, <1>2, Finite DEF Users, Working

LEMMA OwnersPut ==
  ASSUME Typed, Refs, NEW rs, Released(rs), UNCHANGED walk,
         \A r \in rs : r \in Owned /\ r \notin Owned',
         \A r \in Rqs \ rs : r \in Owned <=> r \in Owned'
  PROVE  Refs'
  <1> QED
    BY DEF Refs, Has, OnWalk, Released, Ending, Free

LEMMA WalkPut ==
  ASSUME Typed, Refs, NEW w \in {"queue", "set"}, NEW r \in Rqs, walk[w].cur = r, Released({r}),
         walk'[w].cur = None, \A v \in {"queue", "set"} \ {w} : walk'[v].cur = walk[v].cur,
         \A s \in Rqs : s \in Owned <=> s \in Owned'
  PROVE  Refs'
  <1>1. None \notin Rqs
    BY Constants
  <1>2. OnWalk(w, r) = 1 /\ OnWalk(w, r)' = 0
    BY <1>1 DEF OnWalk
  <1>3. \A s \in Rqs \ {r} : OnWalk(w, s) = 0 /\ OnWalk(w, s)' = 0
    BY <1>1 DEF OnWalk
  <1>4. \A s \in Rqs : \A v \in {"queue", "set"} \ {w} : OnWalk(v, s)' = OnWalk(v, s)
    BY DEF OnWalk
  <1>5. \A s \in Rqs : Has(s)' = Has(s) /\ Has(s) \in {0, 1} /\ \A v \in {"queue", "set"} : OnWalk(v, s) \in {0, 1}
    BY DEF Has, OnWalk
  <1>6. \A s \in Rqs \ {r} : rq'[s] = rq[s]
    BY DEF Released
  <1>7. rq'[r].ref = rq[r].ref - 1
    BY DEF Released, Ending, Free, Typed, RqRecs
  <1>8. w = "queue" \/ w = "set"
    OBVIOUS
  <1> QED
    BY <1>2, <1>3, <1>4, <1>5, <1>6, <1>7, <1>8 DEF Refs

-----------------------------------------------------------------------------
(* What a step does not touch keeps its part of the invariant. *)
LEMMA Named ==
  ASSUME Typed
  PROVE  /\ task \in [Issuers -> TaskRecs] /\ Issuers = Tasks \cup {Worker} /\ Worker \notin Tasks
         /\ \A i \in Issuers : task[i] \in TaskRecs
         /\ None \notin Rqs /\ None \notin Hctxs
  BY Constants DEF Typed

LEMMA HandsFrame == ASSUME Hands, UNCHANGED task PROVE Hands'
  BY DEF Hands, Allocating

LEMMA TagsFrame == ASSUME TagsKept, UNCHANGED <<setup, bits, rq, task>> PROVE TagsKept'
  BY DEF TagsKept, HeldTags, BitsMapped, FreeIsFree, BitsHeld, NewTags

LEMMA OwnerFrame == ASSUME OneOwner, UNCHANGED <<cached, pending, rq, task>> PROVE OneOwner'
  BY DEF OneOwner, CachedApart, IssuedApart, PendingIdle, StateSuits

LEMMA RefsFrame == ASSUME Refs, UNCHANGED <<cached, pending, rq, task, walk>> PROVE Refs'
  BY DEF Refs, OnWalk, Has, Owned

LEMMA UsersFrame == ASSUME Users, UNCHANGED <<users, task, rq, wakes, timer, cpuhp>> PROVE Users'
  BY DEF Users, Allocating, Held, Owed, Working, Draining

LEMMA PlacedFrame == ASSUME WalksPlaced, UNCHANGED <<timer, walk>> PROVE WalksPlaced'
  BY DEF WalksPlaced, Walked

LEMMA CancelFrame ==
  ASSUME Cancelling, UNCHANGED <<timer, quiesced, rq, listed, task, walk>> PROVE Cancelling'
  BY DEF Cancelling, Sections

LEMMA DueFrame == ASSUME NotDueYet, UNCHANGED <<timer, task>> PROVE NotDueYet'
  BY DEF NotDueYet, Sections

LEMMA FrozenFrame == ASSUME Frozen, UNCHANGED <<depth, killed, freezer, users>> PROVE Frozen'
  BY DEF Frozen, Freezing

LEMMA OfflineFrame == ASSUME Offline, UNCHANGED <<cpuhp, rq, task, setup>> PROVE Offline'
  BY DEF Offline, Inactive

LEMMA WakeOneType ==
  ASSUME Typed, NEW c, WakeOne(c)
  PROVE  waits' \in [Tasks -> Cqs \cup {None}]
  BY DEF WakeOne, Typed

(* The rest of a list. *)
Shifted(s, r) ==
  /\ 1 \in DOMAIN s /\ Head(s) = s[1]
  /\ \A k \in DOMAIN r : k + 1 \in DOMAIN s /\ k + 1 # 1 /\ r[k] = s[k + 1]
  /\ \A k \in DOMAIN s \ {1} : k - 1 \in DOMAIN r /\ r[k - 1] = s[k]
  /\ \A k \in DOMAIN s : k \in Int
  /\ \A k \in DOMAIN r : k \in Int

LEMMA TailShifts ==
  ASSUME NEW S, NEW s \in Seq(S), s # <<>>
  PROVE  Tail(s) \in Seq(S) /\ Head(s) \in S /\ Shifted(s, Tail(s))
  <1>1. Len(s) \in Nat /\ Len(s) > 0 /\ DOMAIN s = 1 .. Len(s)
    OBVIOUS
  <1>2. Tail(s) \in Seq(S) /\ Len(Tail(s)) = Len(s) - 1 /\ DOMAIN Tail(s) = 1 .. Len(s) - 1
    BY <1>1
  <1>3. \A k \in 1 .. Len(s) - 1 : Tail(s)[k] = s[k + 1]
    BY <1>1
  <1>4. Head(s) = s[1] /\ Head(s) \in S
    BY <1>1
  <1> QED
    BY <1>1, <1>2, <1>3, <1>4 DEF Shifted

Cached(r) == \E t \in Tasks : \E k \in DOMAIN cached[t] : cached[t][k] = r

LEMMA TakeCached ==
  ASSUME Typed, NEW t \in Tasks, cached[t] # <<>>, cached' = [cached EXCEPT ![t] = Tail(@)]
  PROVE  /\ cached' \in [Tasks -> Seq(Rqs)] /\ \A u \in Tasks \ {t} : cached'[u] = cached[u]
         /\ Head(cached[t]) \in Rqs /\ Shifted(cached[t], cached'[t])
         /\ \A r : Cached(r) <=> r = Head(cached[t]) \/ Cached(r)'
  <1>1. cached \in [Tasks -> Seq(Rqs)] /\ cached[t] \in Seq(Rqs)
    BY DEF Typed
  <1>2. Tail(cached[t]) \in Seq(Rqs) /\ Head(cached[t]) \in Rqs /\ Shifted(cached[t], Tail(cached[t]))
    BY <1>1, TailShifts
  <1>3. cached'[t] = Tail(cached[t])
    BY <1>1
  <1>4. \A u \in Tasks \ {t} : cached'[u] = cached[u]
    BY <1>1
  <1>5. ASSUME NEW r PROVE Cached(r)' => Cached(r)
    BY <1>2, <1>3, <1>4 DEF Cached, Shifted
  <1>6. Cached(Head(cached[t]))
    BY <1>2 DEF Cached, Shifted
  <1>7. ASSUME NEW r, r # Head(cached[t]) PROVE Cached(r) => Cached(r)'
    <2> SUFFICES ASSUME NEW u \in Tasks, NEW k \in DOMAIN cached[u], cached[u][k] = r PROVE Cached(r)'
      BY DEF Cached
    <2>1. CASE u = t
      <3>1. k # 1
        BY <1>2, <1>7, <2>1 DEF Shifted
      <3>2. k - 1 \in DOMAIN cached'[t] /\ cached'[t][k - 1] = r
        BY <1>2, <1>3, <2>1, <3>1 DEF Shifted
      <3> QED
        BY <3>2 DEF Cached
    <2>2. CASE u # t
      BY <1>4, <2>2 DEF Cached
    <2> QED
      BY <2>1, <2>2
  <1>8. \A r : Cached(r) <=> r = Head(cached[t]) \/ Cached(r)'
    BY <1>5, <1>6, <1>7
  <1> QED
    BY <1>1, <1>2, <1>3, <1>8

(* A tag that is not set has a request that nobody holds. *)
Unheld(r) ==
  /\ rq[r] = Free /\ r \notin pending /\ walk["queue"].cur # r /\ walk["set"].cur # r
  /\ \A t \in Tasks : \A k \in DOMAIN cached[t] : cached[t][k] # r
  /\ \A i \in Issuers : task[i].pc \in Issuing => task[i].rq # r
  /\ r \notin Owned

LEMMA NobodyHolds ==
  ASSUME Typed, TagsKept, Refs, NEW r \in Rqs, rq[r].ref = 0
  PROVE  Unheld(r)
  <1>1. OnWalk("queue", r) = 0 /\ OnWalk("set", r) = 0 /\ Has(r) = 0
    BY DEF Refs, OnWalk, Has
  <1>2. r \notin Owned
    BY <1>1 DEF Has
  <1>3. walk["queue"].cur # r /\ walk["set"].cur # r
    BY <1>1 DEF OnWalk
  <1>4. rq[r] = Free
    BY DEF TagsKept, FreeIsFree
  <1> QED
    BY <1>2, <1>3, <1>4, OwnedMeans DEF OwnedIs, Unheld

LEMMA UnsetIsFree ==
  ASSUME Typed, TagsKept, NEW r \in Rqs, r \notin bits
  PROVE  rq[r].ref = 0
  BY DEF TagsKept, HeldTags, Typed, RqRecs

-----------------------------------------------------------------------------
LEMMA EnterStep ==
  ASSUME ReqInv, NEW t \in Tasks, Enter(t)
  PROVE  ReqInv'
  <1> USE DEF ReqInv
  <1>0. /\ task \in [Issuers -> TaskRecs] /\ Issuers = Tasks \cup {Worker} /\ Worker \notin Tasks
        /\ \A j \in Issuers : task[j] \in TaskRecs
        /\ None \notin Rqs /\ None \notin Hctxs
    BY Named
  <1>1. UNCHANGED <<setup, bits, waits, wakes, listed, rq, cached, pending, depth, killed, freezer, quiesced, cpuhp, timer, walk>>
    BY DEF Enter, tagVars, queueVars, flagVars, timeVars, walkElse, freezeElse, hotplugElse
  <1>2. /\ task[t].pc = "out" /\ ~killed /\ users' = users + 1
        /\ task' \in [Issuers -> TaskRecs] /\ \A i \in Issuers \ {t} : task'[i] = task[i]
        /\ task'[t].pc = "get" /\ task'[t].rq = task[t].rq /\ task'[t].h \in Hctxs
    BY <1>0, SetupType DEF Enter, Mapped, TaskRecs
  <1>10. Typed'
    BY <1>0, <1>1, <1>2 DEF Typed
  <1>11. Hands'
    BY <1>0, <1>1, <1>2 DEF Hands, Allocating, Tagging, Issuing
  <1>12. TagsKept'
    BY <1>0, <1>1, <1>2 DEF TagsKept, HeldTags, BitsMapped, FreeIsFree, BitsHeld, NewTags, Tagging
  <1>13. OneOwner'
    BY <1>0, <1>1, <1>2 DEF OneOwner, CachedApart, IssuedApart, PendingIdle, StateSuits, Issuing
  <1>14. Refs'
    <2>1. OwnedIs /\ OwnedIs'
      BY OwnedMeans, PTL
    <2>2. \A x \in Rqs : x \in Owned' <=> x \in Owned
      BY <1>0, <1>1, <1>2, <2>1 DEF OwnedIs, Issuing
    <2> QED
      BY <1>1, <2>2 DEF Refs, OnWalk, Has
  <1>15. Users'
    <2>1. Allocating' = Allocating \cup {t} /\ t \notin Allocating
      BY <1>0, <1>2, Constants DEF Allocating
    <2>2. Cardinality(Allocating') = Cardinality(Allocating) + 1
      BY <2>1, Finite, FS_AddElement
    <2>3. UNCHANGED <<Held, Owed, Draining, Working>>
      BY <1>1 DEF Held, Owed, Draining, Working
    <2> QED
      BY <1>2, <2>2, <2>3, Finite DEF Users, Working
  <1>16. WalksPlaced'
    BY <1>1, PlacedFrame
  <1>17. Cancelling'
    BY <1>0, <1>1, <1>2 DEF Cancelling, Sections
  <1>18. NotDueYet'
    BY <1>0, <1>1, <1>2 DEF NotDueYet, Sections
  <1>19. Frozen'
    BY <1>0, <1>1, <1>2 DEF Frozen, Freezing
  <1>20. Offline'
    BY <1>0, <1>1, <1>2 DEF Offline, Inactive
  <1> QED
    BY <1>10, <1>11, <1>12, <1>13, <1>14, <1>15, <1>16, <1>17, <1>18, <1>19, <1>20

LEMMA UseCachedStep ==
  ASSUME ReqInv, NEW t \in Tasks, UseCached(t)
  PROVE  ReqInv'
  <1> USE DEF ReqInv
  <1>0. /\ task \in [Issuers -> TaskRecs] /\ Issuers = Tasks \cup {Worker} /\ Worker \notin Tasks
        /\ \A j \in Issuers : task[j] \in TaskRecs
        /\ None \notin Rqs /\ None \notin Hctxs
    BY Named
  <1>1. UNCHANGED <<setup, bits, waits, wakes, listed, rq, pending, users, depth, killed, freezer, quiesced, cpuhp, timer, walk>>
    BY DEF UseCached, tagVars, queueVars, flagVars, timeVars, walkElse, freezeElse, hotplugElse
  <1>2. /\ task[t].pc = "out" /\ cached[t] # <<>> /\ cached' = [cached EXCEPT ![t] = Tail(@)]
        /\ task' \in [Issuers -> TaskRecs] /\ \A i \in Issuers \ {t} : task'[i] = task[i]
        /\ task'[t].pc = "issue" /\ task'[t].rq = Head(cached[t]) /\ task'[t].h = task[t].h
    <2>1. Head(cached[t]) \in Rqs
      BY TakeCached DEF UseCached
    <2> QED
      BY <1>0, <2>1 DEF UseCached, TaskRecs
  <1>3. /\ cached' \in [Tasks -> Seq(Rqs)] /\ \A u \in Tasks \ {t} : cached'[u] = cached[u]
        /\ Head(cached[t]) \in Rqs /\ Shifted(cached[t], cached'[t])
        /\ \A q : Cached(q) <=> q = Head(cached[t]) \/ Cached(q)'
    BY <1>2, TakeCached
  <1>4. Head(cached[t]) = cached[t][1] /\ 1 \in DOMAIN cached[t] /\ rq[Head(cached[t])].st = "idle" /\ Head(cached[t]) \in Rqs
    BY <1>3 DEF Shifted, OneOwner, CachedApart
  <1>10. Typed'
    BY <1>1, <1>2, <1>3 DEF Typed
  <1>11. Hands'
    BY <1>0, <1>1, <1>2, <1>4 DEF Hands, Allocating, Tagging, Issuing
  <1>12. TagsKept'
    BY <1>0, <1>1, <1>2 DEF TagsKept, HeldTags, BitsMapped, FreeIsFree, BitsHeld, NewTags, Tagging
  <1>13. OneOwner'
    <2>1. \A u \in Tasks : \A k \in DOMAIN cached'[u] : \E l \in DOMAIN cached[u] :
            /\ cached'[u][k] = cached[u][l] /\ (u = t => l = k + 1 /\ l # 1) /\ (u # t => l = k)
      BY <1>3 DEF Shifted
    <2>2. CachedApart'
      <3>1. \A u \in Tasks : \A k \in DOMAIN cached'[u] : u = t => k \in Int
        BY <1>3 DEF Shifted
      <3> QED
        BY <1>1, <2>1, <3>1 DEF OneOwner, CachedApart
    <2>3. IssuedApart'
      <3>1. \A i \in Issuers : task[i].pc \in Issuing => task[i].rq # Head(cached[t])
        BY <1>4 DEF OneOwner, IssuedApart
      <3>2. \A u \in Tasks : \A k \in DOMAIN cached'[u] : cached'[u][k] # Head(cached[t])
        BY <1>4, <2>1 DEF OneOwner, CachedApart
      <3>3. Head(cached[t]) \notin pending /\ t \in Issuers
        BY <1>0, <1>4 DEF OneOwner, CachedApart
      <3> QED
        BY <1>0, <1>1, <1>2, <2>1, <3>1, <3>2, <3>3 DEF OneOwner, IssuedApart, Issuing
    <2>4. PendingIdle' /\ StateSuits'
      BY <1>0, <1>1, <1>2, <1>4 DEF OneOwner, PendingIdle, StateSuits, CachedApart
    <2> QED
      BY <2>2, <2>3, <2>4 DEF OneOwner
  <1>14. Refs'
    <2>1. OwnedIs /\ OwnedIs'
      BY OwnedMeans, PTL
    <2>2. \A r \in Rqs : (\E u \in Tasks : \E k \in DOMAIN cached[u] : cached[u][k] = r)
            <=> r = Head(cached[t]) \/ (\E u \in Tasks : \E k \in DOMAIN cached'[u] : cached'[u][k] = r)
      BY <1>3 DEF Cached
    <2>3. \A r \in Rqs : (\E i \in Issuers : task'[i].rq = r /\ task'[i].pc \in Issuing)
            <=> r = Head(cached[t]) \/ (\E i \in Issuers : task[i].rq = r /\ task[i].pc \in Issuing)
      BY <1>0, <1>2 DEF Issuing
    <2>4. \A r \in Rqs : r \in Owned' <=> r \in Owned
      BY <1>1, <2>1, <2>2, <2>3 DEF OwnedIs
    <2> QED
      BY <1>1, <2>4 DEF Refs, OnWalk, Has
  <1>15. Users'
    <2>1. Allocating' = Allocating
      BY <1>0, <1>2 DEF Allocating
    <2>2. UNCHANGED <<Held, Owed, Draining, Working>>
      BY <1>1 DEF Held, Owed, Draining, Working
    <2> QED
      BY <1>1, <2>1, <2>2 DEF Users
  <1>16. WalksPlaced'
    BY <1>1, PlacedFrame
  <1>17. Cancelling'
    BY <1>0, <1>1, <1>2 DEF Cancelling, Sections
  <1>18. NotDueYet'
    BY <1>0, <1>1, <1>2 DEF NotDueYet, Sections
  <1>19. Frozen'
    BY <1>1, FrozenFrame
  <1>20. Offline'
    BY <1>0, <1>1, <1>2 DEF Offline, Inactive
  <1> QED
    BY <1>10, <1>11, <1>12, <1>13, <1>14, <1>15, <1>16, <1>17, <1>18, <1>19, <1>20

LEMMA FreePlugRqsStep ==
  ASSUME ReqInv, NEW t \in Tasks, FreePlugRqs(t)
  PROVE  ReqInv'
  <1> USE DEF ReqInv
  <1>0. /\ task \in [Issuers -> TaskRecs] /\ Issuers = Tasks \cup {Worker} /\ Worker \notin Tasks
        /\ \A j \in Issuers : task[j] \in TaskRecs
        /\ None \notin Rqs /\ None \notin Hctxs
    BY Named
  <1>1. UNCHANGED <<setup, waits, listed, task, pending, users, depth, killed, freezer, quiesced, cpuhp, timer, walk>>
    BY DEF FreePlugRqs, tagVars, queueVars, flagVars, timeVars, walkElse, freezeElse, hotplugElse
  <1>2. /\ cached[t] # <<>> /\ cached' = [cached EXCEPT ![t] = Tail(@)] /\ FreeOwned({Head(cached[t])})
        /\ task[t].pc \in {"out", "asleep"}
    BY DEF FreePlugRqs
  <1>3. /\ cached' \in [Tasks -> Seq(Rqs)] /\ \A u \in Tasks \ {t} : cached'[u] = cached[u]
        /\ Head(cached[t]) \in Rqs /\ Shifted(cached[t], cached'[t])
        /\ \A q : Cached(q) <=> q = Head(cached[t]) \/ Cached(q)'
    BY <1>2, TakeCached
  <1> DEFINE r == Head(cached[t])
  <1>4. r = cached[t][1] /\ 1 \in DOMAIN cached[t] /\ rq[r].st = "idle" /\ r \notin pending
    BY <1>3 DEF Shifted, OneOwner, CachedApart
  <1>5. OwnedIs /\ OwnedIs'
    BY OwnedMeans, PTL
  <1>6. r \in Owned /\ rq[r].ref > 0
    BY <1>3, <1>4, <1>5 DEF OwnedIs, Refs, OnWalk, Has
  <1> HIDE DEF r
  <1>7. PutRefs({r}, [s \in {r} |-> "idle"]) /\ [s \in {r} |-> "idle"] \in [{r} -> {"idle", "flight", "complete"}]
    BY <1>2 DEF FreeOwned, r
  <1>8. {r} \in SUBSET Rqs /\ r \in Rqs
    BY <1>3 DEF r
  <1>9. Released({r}) /\ \A s \in {r} \ Ending({r}) : rq'[s].st = "idle"
    <2>1. Released({r}) /\ \A s \in {r} \ Ending({r}) : rq'[s].st = [x \in {r} |-> "idle"][s]
      BY <1>6, <1>7, <1>8, PutEffect
    <2> QED
      BY <2>1
  <1>a. rq'[r].st = "idle" /\ ~rq'[r].dev /\ \A s \in Rqs \ {r} : rq'[s] = rq[s]
    BY <1>4, <1>8, <1>9 DEF Released, Ending, Free, OneOwner, StateSuits
  <1>b. wakes' \in [Cqs -> Nat] /\ Cardinality(Held') + Cardinality(Owed') = Cardinality(Held) + Cardinality(Owed)
    BY <1>7, <1>8, <1>9, PutCounts
  <1>c. \A u \in Tasks : \A k \in DOMAIN cached'[u] : \E l \in DOMAIN cached[u] :
          /\ cached'[u][k] = cached[u][l] /\ (u = t => l = k + 1 /\ l # 1 /\ k \in Int) /\ (u # t => l = k)
    BY <1>3 DEF Shifted
  <1>10. Typed'
    BY <1>1, <1>3, <1>9, <1>b DEF Typed, Released
  <1>11. Hands'
    BY <1>1, HandsFrame
  <1>12. TagsKept'
    BY <1>1, <1>9, ReleaseKeepsTags
  <1>13. OneOwner'
    <2>2. CachedApart'
      <3>1. \A u, v \in Tasks : \A k \in DOMAIN cached'[u], l \in DOMAIN cached'[v] :
              cached'[u][k] = cached'[v][l] => u = v /\ k = l
        BY <1>c DEF OneOwner, CachedApart
      <3>2. \A u \in Tasks : \A k \in DOMAIN cached'[u] : cached'[u][k] \in Rqs
        BY <1>3
      <3> QED
        BY <1>1, <1>a, <1>c, <3>1, <3>2 DEF OneOwner, CachedApart
    <2>3. IssuedApart'
      BY <1>0, <1>1, <1>c DEF OneOwner, IssuedApart, Issuing
    <2>4. PendingIdle'
      BY <1>1, <1>4, <1>a DEF OneOwner, PendingIdle, Typed
    <2>5. \A i \in Issuers : task[i].pc \in Issuing => task[i].rq \in Rqs
      BY DEF Hands
    <2>6. StateSuits'
      BY <1>1, <1>4, <1>a, <2>5 DEF OneOwner, StateSuits, Issuing
    <2> QED
      BY <2>2, <2>3, <2>4, <2>6 DEF OneOwner
  <1>14. Refs'
    <2>2. r \notin Owned'
      <3>1. \A u \in Tasks : \A k \in DOMAIN cached'[u] : cached'[u][k] # r
        BY <1>4, <1>c DEF OneOwner, CachedApart
      <3>2. \A i \in Issuers : task[i].pc \in Issuing => task[i].rq # r
        BY <1>4 DEF OneOwner, IssuedApart
      <3> QED
        BY <1>1, <1>4, <1>5, <1>8, <1>a, <3>1, <3>2 DEF OwnedIs
    <2>3. \A s \in Rqs \ {r} : s \in Owned <=> s \in Owned'
      <3>1. \A s \in Rqs \ {r} : (\E u \in Tasks : \E k \in DOMAIN cached[u] : cached[u][k] = s)
              <=> (\E u \in Tasks : \E k \in DOMAIN cached'[u] : cached'[u][k] = s)
        BY <1>3 DEF Cached, r
      <3> QED
        BY <1>1, <1>5, <1>a, <3>1 DEF OwnedIs
    <2> QED
      BY <1>1, <1>6, <1>9, <2>2, <2>3, OwnersPut
  <1>15. Users'
    <2>1. Typed'
      BY <1>1, <1>3, <1>9, <1>b DEF Typed, Released
    <2> QED
      BY <1>1, <1>b, <2>1, ReleaseKeepsUsers DEF Working
  <1>16. WalksPlaced'
    BY <1>1, PlacedFrame
  <1>17. Cancelling'
    BY <1>1, <1>4, <1>8, <1>a DEF Cancelling, Sections
  <1>18. NotDueYet'
    BY <1>1, DueFrame
  <1>19. Frozen'
    BY <1>1, FrozenFrame
  <1>20. Offline'
    BY <1>1, <1>9, ReleaseKeepsOffline
  <1> QED
    BY <1>10, <1>11, <1>12, <1>13, <1>14, <1>15, <1>16, <1>17, <1>18, <1>19, <1>20

LEMMA GetTagStep ==
  ASSUME ReqInv, NEW t \in Tasks, GetTag(t)
  PROVE  ReqInv'
  <1> USE DEF ReqInv
  <1>0. /\ task \in [Issuers -> TaskRecs] /\ Issuers = Tasks \cup {Worker} /\ Worker \notin Tasks
        /\ \A j \in Issuers : task[j] \in TaskRecs
        /\ None \notin Rqs /\ None \notin Hctxs
    BY Named
  <1>1. UNCHANGED <<setup, wakes, listed, rq, cached, pending, users, depth, killed, freezer, quiesced, cpuhp, timer, walk>>
    BY DEF GetTag, tagVars, queueVars, flagVars, timeVars, walkElse, freezeElse, hotplugElse
  <1>p. PICK r \in FreeTags(TagsOf[task[t].h]) :
           /\ bits' = bits \cup {r}
           /\ task' = [task EXCEPT ![t].rq = r, ![t].pc = IF setup.unplugged = {} THEN "init" ELSE "test"]
    BY DEF GetTag
  <1>q. /\ task[t].pc \in {"get", "retry", "again"} /\ t \in Allocating /\ task[t].h \in Hctxs
        /\ waits' \in [Tasks -> Cqs \cup {None}]
    BY DEF GetTag, Hands, Allocating, Typed
  <1>r. r \in Rqs /\ r \notin bits /\ r[1] = TagsOf[task[t].h] /\ r[2] < setup.depth
    BY <1>p DEF FreeTags, Map
  <1>s. /\ task' \in [Issuers -> TaskRecs] /\ \A i \in Issuers \ {t} : task'[i] = task[i]
        /\ task'[t].pc \in Tagging /\ task'[t].rq = r /\ task'[t].h = task[t].h
        /\ (task'[t].pc = "init" => setup.unplugged = {})
    <2> DEFINE p == IF setup.unplugged = {} THEN "init" ELSE "test"
    <2>1. p \in {"test", "init"} /\ (p = "init" => setup.unplugged = {})
      OBVIOUS
    <2>2. task' = [task EXCEPT ![t].rq = r, ![t].pc = p]
      BY <1>p
    <2> HIDE DEF p
    <2>3. task'[t] = [task[t] EXCEPT !.rq = r, !.pc = p] /\ \A i \in Issuers \ {t} : task'[i] = task[i]
      BY <1>0, <2>2
    <2>4. task[t] \in TaskRecs
      BY <1>0
    <2>5. /\ task'[t] \in TaskRecs /\ task'[t].rq = r /\ task'[t].h = task[t].h /\ task'[t].pc = p
      BY <1>r, <2>1, <2>3, <2>4 DEF TaskRecs
    <2>6. task' \in [Issuers -> TaskRecs]
      BY <1>0, <2>2, <2>3, <2>5
    <2> QED
      BY <2>1, <2>3, <2>5, <2>6 DEF Tagging
  <1>2. /\ bits' = bits \cup {r} /\ task' \in [Issuers -> TaskRecs]
        /\ (\A i \in Issuers \ {t} : task'[i] = task[i]) /\ t \in Issuers
        /\ task'[t].pc \in {"test", "init"} /\ task'[t].rq = r /\ task'[t].h = task[t].h
        /\ task[t].pc \in {"get", "retry", "again"} /\ task[t].h \in Hctxs
    BY <1>0, <1>p, <1>q, <1>s DEF Tagging
  <1>3. rq[r].ref = 0 /\ rq[r] = Free
    BY <1>r, UnsetIsFree, NobodyHolds DEF Unheld
  <1>10. Typed'
    BY <1>1, <1>2, <1>q, <1>r DEF Typed
  <1>11. Hands'
    BY <1>0, <1>2, <1>r DEF Hands, Allocating, Tagging, Issuing
  <1>12. TagsKept'
    <2>1. HeldTags' /\ FreeIsFree'
      BY <1>1, <1>2 DEF TagsKept, HeldTags, FreeIsFree
    <2>2. BitsMapped'
      BY <1>1, <1>2, <1>r DEF TagsKept, BitsMapped
    <2>3. BitsHeld'
      BY <1>0, <1>1, <1>2 DEF TagsKept, BitsHeld, Tagging
    <2>4. NewTags'
      BY <1>0, <1>1, <1>2, <1>3, <1>r DEF TagsKept, NewTags, Tagging
    <2> QED
      BY <2>1, <2>2, <2>3, <2>4 DEF TagsKept
  <1>13. OneOwner'
    BY <1>0, <1>1, <1>2 DEF OneOwner, CachedApart, IssuedApart, PendingIdle, StateSuits, Issuing
  <1>14. Refs'
    <2>1. OwnedIs /\ OwnedIs'
      BY OwnedMeans, PTL
    <2>2. \A x \in Rqs : x \in Owned' <=> x \in Owned
      BY <1>0, <1>1, <1>2, <2>1 DEF OwnedIs, Issuing
    <2> QED
      BY <1>1, <2>2 DEF Refs, OnWalk, Has
  <1>15. Users'
    <2>1. Allocating' = Allocating
      BY <1>0, <1>2 DEF Allocating
    <2>2. UNCHANGED <<Held, Owed, Draining, Working>>
      BY <1>1 DEF Held, Owed, Draining, Working
    <2> QED
      BY <1>1, <2>1, <2>2 DEF Users
  <1>16. WalksPlaced'
    BY <1>1, PlacedFrame
  <1>17. Cancelling'
    BY <1>0, <1>1, <1>2 DEF Cancelling, Sections
  <1>18. NotDueYet'
    BY <1>0, <1>1, <1>2 DEF NotDueYet, Sections
  <1>19. Frozen'
    BY <1>1, FrozenFrame
  <1>20. Offline'
    <2>1. \A h \in Hctxs : Inactive(h) => task'[t].pc # "init"
      BY <1>s DEF Offline
    <2> QED
      BY <1>0, <1>1, <1>2, <2>1 DEF Offline, Inactive
  <1> QED
    BY <1>10, <1>11, <1>12, <1>13, <1>14, <1>15, <1>16, <1>17, <1>18, <1>19, <1>20

LEMMA TestInactiveStep ==
  ASSUME ReqInv, NEW t \in Tasks, TestInactive(t)
  PROVE  ReqInv'
  <1> USE DEF ReqInv
  <1>0. /\ task \in [Issuers -> TaskRecs] /\ Issuers = Tasks \cup {Worker} /\ Worker \notin Tasks
        /\ \A j \in Issuers : task[j] \in TaskRecs
        /\ None \notin Rqs /\ None \notin Hctxs
    BY Named
  <1>1. UNCHANGED <<setup, wakes, listed, rq, cached, pending, depth, killed, freezer, quiesced, cpuhp, timer, walk>>
    BY DEF TestInactive, tagVars, queueVars, flagVars, timeVars, walkElse, freezeElse, hotplugElse
  <1>q. task[t].pc = "test" /\ task[t].rq \in Rqs /\ t \in Allocating /\ t \in Issuers
    BY <1>0 DEF TestInactive, Hands, Tagging, Allocating
  <1> DEFINE Passes == /\ task'[t].pc = "init" /\ task'[t].rq = task[t].rq /\ task'[t].h = task[t].h
                       /\ ~Inactive(task[t].h) /\ users' = users /\ bits' = bits
             Anew   == /\ task'[t].pc = "get" /\ task'[t].rq = None /\ task'[t].h \in Hctxs
                       /\ users' = users /\ bits' = bits \ {task[t].rq}
             Leaves == /\ task'[t].pc = "out" /\ task'[t].rq = None
                       /\ users' = users - 1 /\ bits' = bits \ {task[t].rq}
  <1>2. /\ task' \in [Issuers -> TaskRecs] /\ (\A i \in Issuers \ {t} : task'[i] = task[i])
        /\ Passes \/ Anew \/ Leaves
    <2>1. CASE ~Inactive(task[t].h)
      BY <1>0, <1>q, <2>1 DEF TestInactive, Goto, TaskRecs
    <2>2. CASE Inactive(task[t].h) /\ task[t].nowait
      BY <1>0, <1>q, <2>2 DEF TestInactive, TaskRecs
    <2>3. CASE Inactive(task[t].h) /\ ~task[t].nowait
      <3>1. PICK h \in setup.hctxs :
               /\ task' = [task EXCEPT ![t].pc = "get", ![t].rq = None, ![t].h = h]
               /\ users' = users /\ bits' = bits \ {task[t].rq}
        BY <2>3 DEF TestInactive
      <3>2. h \in Hctxs
        BY SetupType
      <3> QED
        BY <1>0, <1>q, <3>1, <3>2 DEF TaskRecs
    <2> QED
      BY <2>1, <2>2, <2>3
  <1>3. waits' \in [Tasks -> Cqs \cup {None}]
    <2>1. UNCHANGED waits \/ WakeOne(task[t].rq[1])
      BY DEF TestInactive
    <2> QED
      BY <2>1, WakeOneType DEF Typed
  <1>4. task[t].rq \in bits /\ rq[task[t].rq].ref = 0
        /\ \A u \in Tasks \ {t} : task[u].pc \in Tagging => task[u].rq # task[t].rq
    BY <1>q DEF TagsKept, NewTags, Tagging
  <1>5. users' \in Int
    BY <1>2 DEF Typed
  <1>6. bits' = bits \/ bits' = bits \ {task[t].rq}
    BY <1>2
  <1>10. Typed'
    BY <1>1, <1>2, <1>3, <1>5, <1>6 DEF Typed
  <1>11. Hands'
    BY <1>0, <1>2, <1>q DEF Hands, Allocating, Tagging, Issuing
  <1>12. TagsKept'
    <2>1. HeldTags' /\ FreeIsFree'
      BY <1>1, <1>4, <1>6 DEF TagsKept, HeldTags, FreeIsFree
    <2>2. BitsMapped'
      BY <1>1, <1>6 DEF TagsKept, BitsMapped
    <2>3. BitsHeld'
      <3>1. CASE Passes
        BY <1>0, <1>1, <1>2, <1>q, <3>1 DEF TagsKept, BitsHeld, Tagging
      <3>2. CASE bits' = bits \ {task[t].rq}
        BY <1>0, <1>1, <1>2, <3>2 DEF TagsKept, BitsHeld, Tagging
      <3> QED
        BY <1>2, <3>1, <3>2
    <2>4. NewTags'
      <3>1. CASE Passes
        BY <1>0, <1>1, <1>2, <1>4, <1>q, <3>1 DEF TagsKept, NewTags, Tagging
      <3>2. CASE bits' = bits \ {task[t].rq} /\ task'[t].pc \in {"get", "out"}
        BY <1>0, <1>1, <1>2, <1>4, <3>2 DEF TagsKept, NewTags, Tagging
      <3> QED
        BY <1>2, <3>1, <3>2
    <2> QED
      BY <2>1, <2>2, <2>3, <2>4 DEF TagsKept
  <1>13. OneOwner'
    BY <1>0, <1>1, <1>2, <1>q DEF OneOwner, CachedApart, IssuedApart, PendingIdle, StateSuits, Issuing
  <1>14. Refs'
    <2>1. OwnedIs /\ OwnedIs'
      BY OwnedMeans, PTL
    <2>2. \A x \in Rqs : x \in Owned' <=> x \in Owned
      BY <1>0, <1>1, <1>2, <1>q, <2>1 DEF OwnedIs, Issuing
    <2> QED
      BY <1>1, <2>2 DEF Refs, OnWalk, Has
  <1>15. Users'
    <2>1. UNCHANGED <<Held, Owed, Draining, Working>>
      BY <1>1 DEF Held, Owed, Draining, Working
    <2>2. CASE Leaves
      <3>1. Allocating' = Allocating \ {t}
        BY <1>0, <1>2, <2>2 DEF Allocating
      <3>2. Cardinality(Allocating') = Cardinality(Allocating) - 1
        BY <1>q, <3>1, Finite, FS_RemoveElement
      <3> QED
        BY <2>1, <2>2, <3>2, Finite DEF Users, Working
    <2>3. CASE Passes \/ Anew
      <3>1. Allocating' = Allocating /\ users' = users
        BY <1>0, <1>2, <1>q, <2>3 DEF Allocating
      <3> QED
        BY <2>1, <3>1 DEF Users
    <2> QED
      BY <1>2, <2>2, <2>3
  <1>16. WalksPlaced'
    BY <1>1, PlacedFrame
  <1>17. Cancelling'
    BY <1>0, <1>1, <1>2, <1>q DEF Cancelling, Sections
  <1>18. NotDueYet'
    BY <1>0, <1>1, <1>2, <1>q DEF NotDueYet, Sections
  <1>19. Frozen'
    <2>1. users # 0
      <3>1. Cardinality(Allocating) # 0
        BY <1>q, Finite, FS_EmptySet
      <3>2. /\ Cardinality(Allocating) \in Nat /\ Cardinality(Held) \in Nat /\ Cardinality(Owed) \in Nat
            /\ Cardinality(Draining) \in Nat /\ Working \in {0, 1}
        BY Finite DEF Working
      <3>3. users = Cardinality(Allocating) + Cardinality(Held) + Cardinality(Owed) + Working + Cardinality(Draining)
        BY DEF Users
      <3>4. \A a, h, o, w, d \in Nat : a # 0 => a + h + o + w + d # 0
        OBVIOUS
      <3>5. Working \in Nat
        BY <3>2
      <3> QED
        BY <3>1, <3>2, <3>3, <3>4, <3>5
    <2> QED
      BY <1>1, <2>1 DEF Frozen, Freezing
  <1>20. Offline'
    <2>1. Passes => cpuhp.st[task[t].h] # "offline"
      BY DEF Inactive
    <2> QED
      BY <1>0, <1>1, <1>2, <2>1 DEF Offline, Inactive
  <1> QED
    BY <1>10, <1>11, <1>12, <1>13, <1>14, <1>15, <1>16, <1>17, <1>18, <1>19, <1>20

LEMMA CtxInitOneStep ==
  ASSUME ReqInv, NEW t \in Tasks, CtxInitOne(t)
  PROVE  ReqInv'
  <1> USE DEF ReqInv
  <1>0. /\ task \in [Issuers -> TaskRecs] /\ Issuers = Tasks \cup {Worker} /\ Worker \notin Tasks
        /\ \A j \in Issuers : task[j] \in TaskRecs
        /\ None \notin Rqs /\ None \notin Hctxs
    BY Named
  <1>1. UNCHANGED <<setup, bits, waits, wakes, listed, cached, pending, users, depth, killed, freezer, quiesced, cpuhp, timer, walk>>
    BY DEF CtxInitOne, tagVars, queueVars, flagVars, timeVars, walkElse, freezeElse, hotplugElse
  <1> DEFINE r == task[t].rq
  <1>q. task[t].pc = "init" /\ r \in Rqs /\ t \in Allocating /\ t \in Issuers /\ task[t].h \in Hctxs
    BY <1>0 DEF CtxInitOne, Hands, Tagging, Allocating
  <1>3. r \in bits /\ rq[r].ref = 0 /\ r[1] = TagsOf[task[t].h]
        /\ \A u \in Tasks \ {t} : task[u].pc \in Tagging => task[u].rq # r
    BY <1>q DEF TagsKept, NewTags, Tagging, Hands
  <1>2. /\ task' \in [Issuers -> TaskRecs] /\ (\A i \in Issuers \ {t} : task'[i] = task[i])
        /\ task'[t].pc = "issue" /\ task'[t].rq = r /\ task'[t].h = task[t].h
    BY <1>0, <1>q DEF CtxInitOne, Goto, TaskRecs
  <1>4. /\ rq' \in [Rqs -> RqRecs] /\ (\A s \in Rqs \ {r} : rq'[s] = rq[s])
        /\ rq'[r].ref = 1 /\ rq'[r].hctx = task[t].h /\ rq'[r].st = "idle" /\ ~rq'[r].dev
    BY <1>q DEF CtxInitOne, CtxInit, Free, RqRecs, Typed
  <1>5. /\ rq[r] = Free /\ r \notin pending /\ walk["queue"].cur # r /\ walk["set"].cur # r
        /\ (\A u \in Tasks : \A k \in DOMAIN cached[u] : cached[u][k] # r)
        /\ (\A i \in Issuers : task[i].pc \in Issuing => task[i].rq # r)
        /\ r \notin Owned
    BY <1>3, <1>q, NobodyHolds DEF Unheld
  <1> HIDE DEF r
  <1>10. Typed'
    BY <1>1, <1>2, <1>4 DEF Typed
  <1>11. Hands'
    BY <1>0, <1>2, <1>q DEF Hands, Allocating, Tagging, Issuing
  <1>12. TagsKept'
    <2>1. HeldTags' /\ FreeIsFree'
      BY <1>1, <1>3, <1>4, <1>q DEF TagsKept, HeldTags, FreeIsFree
    <2>2. BitsMapped'
      BY <1>1 DEF TagsKept, BitsMapped
    <2>3. BitsHeld'
      <3>1. bits \subseteq Rqs /\ task[t].rq = r
        BY DEF Typed, r
      <3> QED
        BY <1>0, <1>1, <1>2, <1>4, <1>q, <3>1 DEF TagsKept, BitsHeld, Tagging
    <2>4. NewTags'
      <3>1. \A u \in Tasks : task'[u].pc \in Tagging => u # t /\ task[u].pc \in Tagging /\ task'[u] = task[u]
        BY <1>0, <1>2 DEF Tagging
      <3>2. \A u \in Tasks : task[u].pc \in Tagging => task[u].rq \in Rqs
        BY <1>0 DEF Hands
      <3> QED
        BY <1>1, <1>3, <1>4, <3>1, <3>2 DEF TagsKept, NewTags
    <2> QED
      BY <2>1, <2>2, <2>3, <2>4 DEF TagsKept
  <1>13. OneOwner'
    <2>1. \A u \in Tasks : \A k \in DOMAIN cached[u] : cached[u][k] \in Rqs
      BY DEF Typed
    <2>2. CachedApart'
      BY <1>1, <1>4, <1>5, <2>1 DEF OneOwner, CachedApart
    <2>3. IssuedApart'
      BY <1>0, <1>1, <1>2, <1>5 DEF OneOwner, IssuedApart, Issuing
    <2>4. PendingIdle'
      BY <1>1, <1>4 DEF OneOwner, PendingIdle, Typed
    <2>5. \A i \in Issuers : task[i].pc \in Issuing => task[i].rq \in Rqs
      BY DEF Hands
    <2>6. StateSuits'
      BY <1>0, <1>1, <1>2, <1>4, <1>5, <2>5 DEF OneOwner, StateSuits, Issuing
    <2> QED
      BY <2>2, <2>3, <2>4, <2>6 DEF OneOwner
  <1>14. Refs'
    <2>1. OwnedIs /\ OwnedIs'
      BY OwnedMeans, PTL
    <2>2. \A s \in Rqs \ {r} : s \in Owned' <=> s \in Owned
      BY <1>0, <1>1, <1>2, <1>4, <1>q, <2>1 DEF OwnedIs, Issuing
    <2>3. r \in Owned'
      BY <1>2, <1>q, <2>1 DEF OwnedIs, Issuing
    <2> QED
      BY <1>1, <1>4, <1>5, <2>2, <2>3 DEF Refs, OnWalk, Has
  <1>15. Users'
    <2>1. Allocating' = Allocating \ {t}
      BY <1>0, <1>2 DEF Allocating
    <2>2. Cardinality(Allocating') = Cardinality(Allocating) - 1
      BY <1>q, <2>1, Finite, FS_RemoveElement
    <2>3. Held' = Held \cup {r} /\ r \notin Held
      BY <1>3, <1>4, <1>q DEF Held
    <2>4. Cardinality(Held') = Cardinality(Held) + 1
      BY <2>3, Finite, FS_AddElement
    <2>5. UNCHANGED <<Owed, Draining, Working, users>>
      BY <1>1 DEF Owed, Draining, Working
    <2> QED
      BY <2>2, <2>4, <2>5, Finite DEF Users, Working
  <1>16. WalksPlaced'
    BY <1>1, PlacedFrame
  <1>17. Cancelling'
    BY <1>0, <1>1, <1>2, <1>4, <1>q DEF Cancelling, Sections
  <1>18. NotDueYet'
    BY <1>0, <1>1, <1>2 DEF NotDueYet, Sections
  <1>19. Frozen'
    BY <1>1, FrozenFrame
  <1>20. Offline'
    BY <1>0, <1>1, <1>2, <1>4, <1>q DEF Offline, Inactive, r
  <1> QED
    BY <1>10, <1>11, <1>12, <1>13, <1>14, <1>15, <1>16, <1>17, <1>18, <1>19, <1>20

LEMMA PrepareToWaitStep ==
  ASSUME ReqInv, NEW t \in Tasks, PrepareToWait(t)
  PROVE  ReqInv'
  <1> USE DEF ReqInv
  <1>0. /\ task \in [Issuers -> TaskRecs] /\ Issuers = Tasks \cup {Worker} /\ Worker \notin Tasks
        /\ \A j \in Issuers : task[j] \in TaskRecs
        /\ None \notin Rqs /\ None \notin Hctxs
    BY Named
  <1>1. UNCHANGED <<setup, bits, wakes, listed, rq, cached, pending, depth, killed, freezer, quiesced, cpuhp, timer, walk>>
    BY DEF PrepareToWait, tagVars, queueVars, flagVars, timeVars, walkElse, freezeElse, hotplugElse
  <1>q. task[t].pc \in {"get", "retry"} /\ t \in Allocating /\ t \in Issuers /\ task[t].h \in Hctxs
    BY <1>0 DEF PrepareToWait, Hands, Allocating
  <1> DEFINE Waits  == task'[t].pc = "again" /\ users' = users
             Leaves == task'[t].pc = "out" /\ users' = users - 1
  <1>2. /\ task' \in [Issuers -> TaskRecs] /\ (\A i \in Issuers \ {t} : task'[i] = task[i])
        /\ task'[t].rq = task[t].rq /\ task'[t].h = task[t].h /\ (Waits \/ Leaves)
    BY <1>0, <1>q DEF PrepareToWait, Goto, TaskRecs
  <1>3. waits' \in [Tasks -> Cqs \cup {None}] /\ users' \in Int
    <2>1. waits' = waits \/ waits' = [waits EXCEPT ![t] = TagsOf[task[t].h]]
      BY DEF PrepareToWait
    <2>2. TagsOf[task[t].h] \in Cqs
      BY <1>q, Constants
    <2> QED
      BY <1>2, <2>1, <2>2 DEF Typed
  <1>10. Typed'
    BY <1>1, <1>2, <1>3 DEF Typed
  <1>11. Hands'
    BY <1>0, <1>2, <1>q DEF Hands, Allocating, Tagging, Issuing
  <1>12. TagsKept'
    BY <1>0, <1>1, <1>2, <1>q DEF TagsKept, HeldTags, BitsMapped, FreeIsFree, BitsHeld, NewTags, Tagging
  <1>13. OneOwner'
    BY <1>0, <1>1, <1>2, <1>q DEF OneOwner, CachedApart, IssuedApart, PendingIdle, StateSuits, Issuing
  <1>14. Refs'
    <2>1. OwnedIs /\ OwnedIs'
      BY OwnedMeans, PTL
    <2>2. \A x \in Rqs : x \in Owned' <=> x \in Owned
      BY <1>0, <1>1, <1>2, <1>q, <2>1 DEF OwnedIs, Issuing
    <2> QED
      BY <1>1, <2>2 DEF Refs, OnWalk, Has
  <1>15. Users'
    <2>1. UNCHANGED <<Held, Owed, Draining, Working>>
      BY <1>1 DEF Held, Owed, Draining, Working
    <2>2. CASE Leaves
      <3>1. Allocating' = Allocating \ {t}
        BY <1>0, <1>2, <2>2 DEF Allocating
      <3>2. Cardinality(Allocating') = Cardinality(Allocating) - 1
        BY <1>q, <3>1, Finite, FS_RemoveElement
      <3> QED
        BY <2>1, <2>2, <3>2, Finite DEF Users, Working
    <2>3. CASE Waits
      <3>1. Allocating' = Allocating /\ users' = users
        BY <1>0, <1>2, <1>q, <2>3 DEF Allocating
      <3> QED
        BY <2>1, <3>1 DEF Users
    <2> QED
      BY <1>2, <2>2, <2>3
  <1>16. WalksPlaced'
    BY <1>1, PlacedFrame
  <1>17. Cancelling'
    BY <1>0, <1>1, <1>2, <1>q DEF Cancelling, Sections
  <1>18. NotDueYet'
    BY <1>0, <1>1, <1>2, <1>q DEF NotDueYet, Sections
  <1>19. Frozen'
    <2>1. users # 0
      <3>1. Cardinality(Allocating) # 0
        BY <1>q, Finite, FS_EmptySet
      <3>2. /\ Cardinality(Allocating) \in Nat /\ Cardinality(Held) \in Nat /\ Cardinality(Owed) \in Nat
            /\ Cardinality(Draining) \in Nat /\ Working \in {0, 1}
        BY Finite DEF Working
      <3>3. users = Cardinality(Allocating) + Cardinality(Held) + Cardinality(Owed) + Working + Cardinality(Draining)
        BY DEF Users
      <3>4. \A a, h, o, w, d \in Nat : a # 0 => a + h + o + w + d # 0
        OBVIOUS
      <3>5. Working \in Nat
        BY <3>2
      <3> QED
        BY <3>1, <3>2, <3>3, <3>4, <3>5
    <2> QED
      BY <1>1, <2>1 DEF Frozen, Freezing
  <1>20. Offline'
    BY <1>0, <1>1, <1>2, <1>q DEF Offline, Inactive
  <1> QED
    BY <1>10, <1>11, <1>12, <1>13, <1>14, <1>15, <1>16, <1>17, <1>18, <1>19, <1>20

LEMMA SleepStep ==
  ASSUME ReqInv, NEW t \in Tasks, Sleep(t)
  PROVE  ReqInv'
  <1> USE DEF ReqInv
  <1>0. /\ task \in [Issuers -> TaskRecs] /\ Issuers = Tasks \cup {Worker} /\ Worker \notin Tasks
        /\ \A j \in Issuers : task[j] \in TaskRecs
        /\ None \notin Rqs /\ None \notin Hctxs
    BY Named
  <1>1. UNCHANGED <<setup, bits, waits, wakes, listed, rq, cached, pending, users, depth, killed, freezer, quiesced, cpuhp, timer, walk>>
    BY DEF Sleep, tagVars, queueVars, flagVars, timeVars, walkElse, freezeElse, hotplugElse
  <1>2. /\ task' \in [Issuers -> TaskRecs] /\ (\A i \in Issuers \ {t} : task'[i] = task[i]) /\ t \in Issuers
        /\ task'[t].rq = task[t].rq /\ task'[t].h = task[t].h /\ task'[t].pc = "asleep" /\ task[t].pc = "again"
    BY <1>0 DEF Sleep, Goto, TaskRecs
  <1>10. Typed'
    BY <1>0, <1>1, <1>2 DEF Typed
  <1>11. Hands'
    BY <1>0, <1>1, <1>2 DEF Hands, Allocating, Tagging, Issuing
  <1>12. TagsKept'
    BY <1>0, <1>1, <1>2 DEF TagsKept, HeldTags, BitsMapped, FreeIsFree, BitsHeld, NewTags, Tagging
  <1>13. OneOwner'
    BY <1>0, <1>1, <1>2 DEF OneOwner, CachedApart, IssuedApart, PendingIdle, StateSuits, Issuing
  <1>14. Refs'
    <2>1. OwnedIs /\ OwnedIs'
      BY OwnedMeans, PTL
    <2>2. \A x \in Rqs : x \in Owned' <=> x \in Owned
      BY <1>0, <1>1, <1>2, <2>1 DEF OwnedIs, Issuing
    <2> QED
      BY <1>1, <2>2 DEF Refs, OnWalk, Has
  <1>15. Users'
    <2>1. Allocating' = Allocating
      BY <1>0, <1>2 DEF Allocating
    <2>2. UNCHANGED <<Held, Owed, Draining, Working>>
      BY <1>1 DEF Held, Owed, Draining, Working
    <2> QED
      BY <1>1, <2>1, <2>2 DEF Users
  <1>16. WalksPlaced'
    BY <1>1, PlacedFrame
  <1>17. Cancelling'
    BY <1>0, <1>1, <1>2 DEF Cancelling, Sections
  <1>18. NotDueYet'
    BY <1>0, <1>1, <1>2 DEF NotDueYet, Sections
  <1>19. Frozen'
    BY <1>1, FrozenFrame
  <1>20. Offline'
    BY <1>0, <1>1, <1>2 DEF Offline, Inactive
  <1> QED
    BY <1>10, <1>11, <1>12, <1>13, <1>14, <1>15, <1>16, <1>17, <1>18, <1>19, <1>20

LEMMA WokenStep ==
  ASSUME ReqInv, NEW t \in Tasks, Woken(t)
  PROVE  ReqInv'
  <1> USE DEF ReqInv
  <1>0. /\ task \in [Issuers -> TaskRecs] /\ Issuers = Tasks \cup {Worker} /\ Worker \notin Tasks
        /\ \A j \in Issuers : task[j] \in TaskRecs
        /\ None \notin Rqs /\ None \notin Hctxs
    BY Named
  <1>1. UNCHANGED <<setup, bits, wakes, listed, rq, cached, pending, users, depth, killed, freezer, quiesced, cpuhp, timer, walk>>
    BY DEF Woken, tagVars, queueVars, flagVars, timeVars, walkElse, freezeElse, hotplugElse
  <1>q. PICK h \in Mapped : /\ task' = [task EXCEPT ![t].pc = "retry", ![t].h = h]
                            /\ FakeWake(t, TagsOf[task[t].h], TagsOf[h])
    BY DEF Woken
  <1>r. h \in Hctxs
    BY <1>q, SetupType DEF Mapped
  <1>2. /\ task' \in [Issuers -> TaskRecs] /\ (\A i \in Issuers \ {t} : task'[i] = task[i]) /\ t \in Issuers
        /\ task'[t].rq = task[t].rq /\ task'[t].h \in Hctxs /\ task'[t].pc = "retry" /\ task[t].pc = "asleep"
    <2>1. task[t].pc = "asleep" /\ t \in Issuers
      BY <1>0 DEF Woken
    <2>2. task'[t] = [task[t] EXCEPT !.pc = "retry", !.h = h] /\ \A i \in Issuers \ {t} : task'[i] = task[i]
      BY <1>0, <1>q, <2>1
    <2>3. task[t] \in TaskRecs
      BY <1>0
    <2>4. task'[t] \in TaskRecs /\ task'[t].rq = task[t].rq /\ task'[t].h = h /\ task'[t].pc = "retry"
      BY <1>r, <2>2, <2>3 DEF TaskRecs
    <2>5. task' \in [Issuers -> TaskRecs]
      BY <1>0, <1>q, <2>2, <2>4
    <2> QED
      BY <1>r, <2>1, <2>2, <2>4, <2>5
  <1>3. waits' \in [Tasks -> Cqs \cup {None}]
    BY <1>q, WakeOneType DEF FakeWake, Typed
  <1>10. Typed'
    BY <1>1, <1>2, <1>3 DEF Typed
  <1>11. Hands'
    BY <1>0, <1>1, <1>2 DEF Hands, Allocating, Tagging, Issuing
  <1>12. TagsKept'
    BY <1>0, <1>1, <1>2 DEF TagsKept, HeldTags, BitsMapped, FreeIsFree, BitsHeld, NewTags, Tagging
  <1>13. OneOwner'
    BY <1>0, <1>1, <1>2 DEF OneOwner, CachedApart, IssuedApart, PendingIdle, StateSuits, Issuing
  <1>14. Refs'
    <2>1. OwnedIs /\ OwnedIs'
      BY OwnedMeans, PTL
    <2>2. \A x \in Rqs : x \in Owned' <=> x \in Owned
      BY <1>0, <1>1, <1>2, <2>1 DEF OwnedIs, Issuing
    <2> QED
      BY <1>1, <2>2 DEF Refs, OnWalk, Has
  <1>15. Users'
    <2>1. Allocating' = Allocating
      BY <1>0, <1>2 DEF Allocating
    <2>2. UNCHANGED <<Held, Owed, Draining, Working>>
      BY <1>1 DEF Held, Owed, Draining, Working
    <2> QED
      BY <1>1, <2>1, <2>2 DEF Users
  <1>16. WalksPlaced'
    BY <1>1, PlacedFrame
  <1>17. Cancelling'
    BY <1>0, <1>1, <1>2 DEF Cancelling, Sections
  <1>18. NotDueYet'
    BY <1>0, <1>1, <1>2 DEF NotDueYet, Sections
  <1>19. Frozen'
    BY <1>1, FrozenFrame
  <1>20. Offline'
    BY <1>0, <1>1, <1>2 DEF Offline, Inactive
  <1> QED
    BY <1>10, <1>11, <1>12, <1>13, <1>14, <1>15, <1>16, <1>17, <1>18, <1>19, <1>20

LEMMA WakeUpStep ==
  ASSUME ReqInv, NEW c \in Cqs, WakeUp(c)
  PROVE  ReqInv'
  <1> USE DEF ReqInv
  <1>0. /\ task \in [Issuers -> TaskRecs] /\ Issuers = Tasks \cup {Worker} /\ Worker \notin Tasks
        /\ \A j \in Issuers : task[j] \in TaskRecs
        /\ None \notin Rqs /\ None \notin Hctxs
    BY Named
  <1>1. UNCHANGED <<setup, bits, listed, rq, cached, task, pending, depth, killed, freezer, quiesced, cpuhp, timer, walk>>
    BY DEF WakeUp, tagVars, queueVars, flagVars, timeVars, walkElse, freezeElse, hotplugElse
  <1>2. /\ wakes[c] > 0 /\ wakes' = [wakes EXCEPT ![c] = @ - 1] /\ users' = users - 1
        /\ waits' \in [Tasks -> Cqs \cup {None}]
    BY WakeOneType DEF WakeUp
  <1>3. Cardinality(Owed') = Cardinality(Owed) - 1 /\ Cardinality(Owed) > 0
    BY <1>2, OwedLess
  <1>4. wakes' \in [Cqs -> Nat] /\ users' \in Int
    BY <1>2 DEF Typed
  <1>10. Typed'
    BY <1>1, <1>2, <1>4 DEF Typed
  <1>11. Hands'
    BY <1>1, HandsFrame
  <1>12. TagsKept'
    BY <1>1, TagsFrame
  <1>13. OneOwner'
    BY <1>1, OwnerFrame
  <1>14. Refs'
    BY <1>1, RefsFrame
  <1>15. Users'
    <2>1. UNCHANGED <<Allocating, Held, Draining, Working>>
      BY <1>1 DEF Allocating, Held, Draining, Working
    <2> QED
      BY <1>2, <1>3, <2>1, Finite DEF Users, Working
  <1>16. WalksPlaced'
    BY <1>1, PlacedFrame
  <1>17. Cancelling'
    BY <1>1, CancelFrame
  <1>18. NotDueYet'
    BY <1>1, DueFrame
  <1>19. Frozen'
    <2>1. users # 0
      BY <1>3, Finite DEF Users, Working
    <2> QED
      BY <1>1, <2>1 DEF Frozen, Freezing
  <1>20. Offline'
    BY <1>1, OfflineFrame
  <1> QED
    BY <1>10, <1>11, <1>12, <1>13, <1>14, <1>15, <1>16, <1>17, <1>18, <1>19, <1>20

-----------------------------------------------------------------------------
(* Batches. *)
BatchNone(t) ==
  /\ task[t].pc = "get" /\ task' = [task EXCEPT ![t].ios = 1]
  /\ UNCHANGED <<setup, bits, waits, wakes, listed, rq, cached, pending, users, depth, killed, freezer,
                 quiesced, cpuhp, timer, walk>>

BatchOf(t, n, got) ==
  /\ task[t].pc = "get" /\ \A i, j \in 1 .. n : i < j => Before(got[j], got[i])
  /\ bits' = bits \cup ToSet(got)
  /\ task' = [task EXCEPT ![t].ios = 1, ![t].pc = "issue", ![t].rq = got[1]]
  /\ cached' = [cached EXCEPT ![t] = Tail(got) \o @]
  /\ CountBatch(ToSet(got)) /\ CtxInit(t, ToSet(got))
  /\ cpuhp' = IF cpuhp.st[task[t].h] = "offline"
              THEN [cpuhp EXCEPT !.missed[task[t].h] = @ \cup ToSet(got)] ELSE cpuhp
  /\ UNCHANGED <<setup, waits, wakes, listed, pending, depth, killed, freezer, quiesced, timer, walk>>

LEMMA BatchCases ==
  ASSUME Typed, NEW t \in Tasks, AllocBatch(t)
  PROVE  \/ BatchNone(t)
         \/ \E n \in Nat \ {0} : \E got \in [1 .. n -> FreeTags(TagsOf[task[t].h])] : BatchOf(t, n, got)
  <1> DEFINE free == FreeTags(TagsOf[task[t].h])
             n == IF Cardinality(free) < task[t].ios THEN Cardinality(free) ELSE task[t].ios
  <1>1. free \subseteq Rqs
    BY DEF FreeTags, Map
  <1>2. Cardinality(free) \in Nat
    BY <1>1, Constants, FS_Subset, FS_CardinalityType
  <1>3. task[t].ios \in Nat
    BY Constants DEF Typed, TaskRecs
  <1>4. n \in Nat
    BY <1>2, <1>3
  <1>5. CASE n = 0 /\ task' = [task EXCEPT ![t].ios = 1] /\ UNCHANGED <<bits, users, rq, cached, cpuhp>>
    BY <1>5 DEF AllocBatch, BatchNone, timeVars
  <1>6. CASE \E got \in [1 .. n -> free] :
               /\ n > 0 /\ \A i, j \in 1 .. n : i < j => Before(got[j], got[i])
               /\ bits' = bits \cup ToSet(got)
               /\ task' = [task EXCEPT ![t].ios = 1, ![t].pc = "issue", ![t].rq = got[1]]
               /\ cached' = [cached EXCEPT ![t] = Tail(got) \o @]
               /\ CountBatch(ToSet(got)) /\ CtxInit(t, ToSet(got))
               /\ cpuhp' = IF cpuhp.st[task[t].h] = "offline"
                           THEN [cpuhp EXCEPT !.missed[task[t].h] = @ \cup ToSet(got)] ELSE cpuhp
    <2>1. n \in Nat \ {0}
      BY <1>4, <1>6
    <2>2. /\ task[t].pc = "get"
          /\ UNCHANGED <<setup, waits, wakes, listed, pending, depth, killed, freezer, quiesced, timer, walk>>
      BY DEF AllocBatch, timeVars
    <2> HIDE DEF n
    <2> QED
      BY <1>6, <2>1, <2>2 DEF BatchOf
  <1> QED
    BY <1>5, <1>6 DEF AllocBatch

LEMMA GotFacts ==
  ASSUME ReqInv, NEW t \in Tasks, NEW n \in Nat \ {0}, NEW got \in [1 .. n -> FreeTags(TagsOf[task[t].h])],
         BatchOf(t, n, got)
  PROVE  /\ \A r \in ToSet(got) : r \in Rqs /\ r \notin bits /\ r[1] = TagsOf[task[t].h] /\ r[2] < setup.depth
         /\ \A i, j \in 1 .. n : got[i] = got[j] => i = j
         /\ IsFiniteSet(ToSet(got)) /\ Cardinality(ToSet(got)) = n
         /\ \A r : r \in ToSet(got) <=> \E k \in 1 .. n : got[k] = r
  <1>1. DOMAIN got = 1 .. n
    OBVIOUS
  <1>2. \A r : r \in ToSet(got) <=> \E k \in 1 .. n : got[k] = r
    BY <1>1 DEF ToSet
  <1>3. \A r \in ToSet(got) : r \in Rqs /\ r \notin bits /\ r[1] = TagsOf[task[t].h] /\ r[2] < setup.depth
    BY <1>2 DEF FreeTags, Map
  <1>4. \A r \in Rqs : ~Before(r, r)
    <2>1. \A r \in Rqs : r[1] \in Nat /\ r[2] \in Nat
      BY Constants
    <2> QED
      BY <2>1 DEF Before
  <1>5. \A i, j \in 1 .. n : i < j => got[i] # got[j]
    BY <1>2, <1>3, <1>4 DEF BatchOf
  <1>6. \A i, j \in 1 .. n : got[i] = got[j] => i = j
    <2>1. \A i, j \in 1 .. n : i < j \/ j < i \/ i = j
      OBVIOUS
    <2> QED
      BY <1>5, <2>1
  <1>7. got \in Bijection(1 .. n, ToSet(got))
    <2>1. got \in [1 .. n -> ToSet(got)] /\ \A r \in ToSet(got) : \E k \in 1 .. n : got[k] = r
      BY <1>2
    <2> QED
      BY <1>6, <2>1 DEF Bijection, Injection, Surjection, IsInjective
  <1>8. IsFiniteSet(1 .. n) /\ Cardinality(1 .. n) = n
    BY FS_Interval
  <1>9. ExistsBijection(1 .. n, ToSet(got))
    BY <1>7 DEF ExistsBijection
  <1> QED
    BY <1>2, <1>3, <1>6, <1>8, <1>9, FS_Bijection

LEMMA GotCached ==
  ASSUME Typed, NEW t \in Tasks, NEW n \in Nat \ {0}, NEW got \in [1 .. n -> Rqs],
         cached' = [cached EXCEPT ![t] = Tail(got) \o @]
  PROVE  /\ cached' \in [Tasks -> Seq(Rqs)] /\ \A u \in Tasks \ {t} : cached'[u] = cached[u]
         /\ \A k \in DOMAIN cached'[t] :
              /\ k \in Int
              /\ \/ k \in 1 .. n - 1 /\ cached'[t][k] = got[k + 1]
                 \/ k > n - 1 /\ k - (n - 1) \in DOMAIN cached[t] /\ cached'[t][k] = cached[t][k - (n - 1)]
         /\ \A k \in 1 .. n - 1 : k \in DOMAIN cached'[t] /\ cached'[t][k] = got[k + 1]
         /\ \A k \in DOMAIN cached[t] :
              k + (n - 1) \in DOMAIN cached'[t] /\ cached'[t][k + (n - 1)] = cached[t][k]
  <1> DEFINE s == Tail(got)
             c == cached[t]
  <1>1. got \in Seq(Rqs) /\ Len(got) = n /\ got # <<>>
    OBVIOUS
  <1>2. s \in Seq(Rqs) /\ Len(s) = n - 1 /\ \A k \in 1 .. n - 1 : s[k] = got[k + 1]
    BY <1>1
  <1>3. cached \in [Tasks -> Seq(Rqs)] /\ c \in Seq(Rqs) /\ Len(c) \in Nat /\ DOMAIN c = 1 .. Len(c)
    BY DEF Typed
  <1>4. cached'[t] = s \o c /\ \A u \in Tasks \ {t} : cached'[u] = cached[u]
    BY <1>3
  <1>5. n - 1 \in Nat
    OBVIOUS
  <1> HIDE DEF s, c
  <1>6. /\ s \o c \in Seq(Rqs) /\ DOMAIN (s \o c) = 1 .. (n - 1) + Len(c)
        /\ \A k \in 1 .. (n - 1) + Len(c) : (s \o c)[k] = IF k <= n - 1 THEN s[k] ELSE c[k - (n - 1)]
    BY <1>2, <1>3, <1>5
  <1>7. cached' \in [Tasks -> Seq(Rqs)]
    BY <1>3, <1>4, <1>6
  <1>8. \A k \in 1 .. (n - 1) + Len(c) :
          /\ k \in Int
          /\ \/ k \in 1 .. n - 1 /\ (s \o c)[k] = got[k + 1]
             \/ k > n - 1 /\ k - (n - 1) \in 1 .. Len(c) /\ (s \o c)[k] = c[k - (n - 1)]
    BY <1>2, <1>3, <1>5, <1>6
  <1>9. \A k \in 1 .. n - 1 : k \in 1 .. (n - 1) + Len(c) /\ (s \o c)[k] = got[k + 1]
    BY <1>2, <1>3, <1>5, <1>6
  <1>10. \A k \in 1 .. Len(c) :
           /\ k + (n - 1) \in 1 .. (n - 1) + Len(c) /\ (s \o c)[k + (n - 1)] = c[k]
    <2> SUFFICES ASSUME NEW k \in 1 .. Len(c)
                 PROVE  k + (n - 1) \in 1 .. (n - 1) + Len(c) /\ (s \o c)[k + (n - 1)] = c[k]
      OBVIOUS
    <2>1. /\ k + (n - 1) \in 1 .. (n - 1) + Len(c) /\ ~(k + (n - 1) <= n - 1)
          /\ (k + (n - 1)) - (n - 1) = k
      BY <1>3, <1>5
    <2> QED
      BY <1>6, <2>1
  <1>11. DOMAIN cached'[t] = 1 .. (n - 1) + Len(c) /\ cached'[t] = s \o c /\ DOMAIN c = 1 .. Len(c)
    BY <1>3, <1>4, <1>6
  <1>12. \A k \in DOMAIN cached'[t] :
           /\ k \in Int
           /\ \/ k \in 1 .. n - 1 /\ cached'[t][k] = got[k + 1]
              \/ k > n - 1 /\ k - (n - 1) \in DOMAIN c /\ cached'[t][k] = c[k - (n - 1)]
    BY Zenon, <1>8, <1>11
  <1>13. \A k \in 1 .. n - 1 : k \in DOMAIN cached'[t] /\ cached'[t][k] = got[k + 1]
    BY Zenon, <1>9, <1>11
  <1>14. \A k \in DOMAIN c : k + (n - 1) \in DOMAIN cached'[t] /\ cached'[t][k + (n - 1)] = c[k]
    BY Zenon, <1>10, <1>11
  <1>15. \A u \in Tasks \ {t} : cached'[u] = cached[u]
    BY <1>4
  <1> QED
    BY Zenon, <1>7, <1>12, <1>13, <1>14, <1>15 DEF c

LEMMA BatchNoneStep ==
  ASSUME ReqInv, NEW t \in Tasks, BatchNone(t)
  PROVE  ReqInv'
  <1> USE DEF ReqInv
  <1>0. /\ task \in [Issuers -> TaskRecs] /\ Issuers = Tasks \cup {Worker} /\ Worker \notin Tasks
        /\ \A j \in Issuers : task[j] \in TaskRecs
        /\ None \notin Rqs /\ None \notin Hctxs
    BY Named
  <1>1. UNCHANGED <<setup, bits, waits, wakes, listed, rq, cached, pending, users, depth, killed, freezer, quiesced, cpuhp, timer, walk>>
    BY DEF BatchNone, tagVars, queueVars, flagVars, timeVars, walkElse, freezeElse, hotplugElse
  <1>2. /\ task' \in [Issuers -> TaskRecs] /\ (\A i \in Issuers \ {t} : task'[i] = task[i]) /\ t \in Issuers
        /\ task'[t].rq = task[t].rq /\ task'[t].h = task[t].h /\ task'[t].pc = "get" /\ task[t].pc = "get"
    BY <1>0 DEF BatchNone, TaskRecs
  <1>10. Typed'
    BY <1>0, <1>1, <1>2 DEF Typed
  <1>11. Hands'
    BY <1>0, <1>1, <1>2 DEF Hands, Allocating, Tagging, Issuing
  <1>12. TagsKept'
    BY <1>0, <1>1, <1>2 DEF TagsKept, HeldTags, BitsMapped, FreeIsFree, BitsHeld, NewTags, Tagging
  <1>13. OneOwner'
    BY <1>0, <1>1, <1>2 DEF OneOwner, CachedApart, IssuedApart, PendingIdle, StateSuits, Issuing
  <1>14. Refs'
    <2>1. OwnedIs /\ OwnedIs'
      BY OwnedMeans, PTL
    <2>2. \A x \in Rqs : x \in Owned' <=> x \in Owned
      BY <1>0, <1>1, <1>2, <2>1 DEF OwnedIs, Issuing
    <2> QED
      BY <1>1, <2>2 DEF Refs, OnWalk, Has
  <1>15. Users'
    <2>1. Allocating' = Allocating
      BY <1>0, <1>2 DEF Allocating
    <2>2. UNCHANGED <<Held, Owed, Draining, Working>>
      BY <1>1 DEF Held, Owed, Draining, Working
    <2> QED
      BY <1>1, <2>1, <2>2 DEF Users
  <1>16. WalksPlaced'
    BY <1>1, PlacedFrame
  <1>17. Cancelling'
    BY <1>0, <1>1, <1>2 DEF Cancelling, Sections
  <1>18. NotDueYet'
    BY <1>0, <1>1, <1>2 DEF NotDueYet, Sections
  <1>19. Frozen'
    BY <1>1, FrozenFrame
  <1>20. Offline'
    BY <1>0, <1>1, <1>2 DEF Offline, Inactive
  <1> QED
    BY <1>10, <1>11, <1>12, <1>13, <1>14, <1>15, <1>16, <1>17, <1>18, <1>19, <1>20

LEMMA BatchOfStep ==
  ASSUME ReqInv, NEW t \in Tasks, NEW n \in Nat \ {0},
         NEW got \in [1 .. n -> FreeTags(TagsOf[task[t].h])], BatchOf(t, n, got)
  PROVE  ReqInv'
  <1> USE DEF ReqInv
  <1>0. /\ task \in [Issuers -> TaskRecs] /\ Issuers = Tasks \cup {Worker} /\ Worker \notin Tasks
        /\ \A j \in Issuers : task[j] \in TaskRecs
        /\ None \notin Rqs /\ None \notin Hctxs
    BY Named
  <1>1. UNCHANGED <<setup, waits, wakes, listed, pending, depth, killed, freezer, quiesced, timer, walk>>
    BY DEF BatchOf, tagVars, queueVars, flagVars, timeVars, walkElse, freezeElse, hotplugElse
  <1> DEFINE G == ToSet(got)
  <1>q. task[t].pc = "get" /\ t \in Issuers /\ t \in Allocating /\ task[t].h \in Hctxs
    BY <1>0 DEF BatchOf, Allocating, Hands
  <1>3. /\ \A r \in G : r \in Rqs /\ r \notin bits /\ r[1] = TagsOf[task[t].h] /\ r[2] < setup.depth
        /\ \A i, j \in 1 .. n : got[i] = got[j] => i = j
        /\ IsFiniteSet(G) /\ Cardinality(G) = n
        /\ \A r : r \in G <=> \E k \in 1 .. n : got[k] = r
    BY GotFacts
  <1>4. 1 \in 1 .. n /\ got[1] \in G /\ got \in [1 .. n -> Rqs]
    BY <1>3
  <1>5. \A r \in G : rq[r].ref = 0 /\ Unheld(r)
    BY <1>3, UnsetIsFree, NobodyHolds
  <1> HIDE DEF G
  <1>2. /\ task' \in [Issuers -> TaskRecs] /\ (\A i \in Issuers \ {t} : task'[i] = task[i])
        /\ task'[t].pc = "issue" /\ task'[t].rq = got[1] /\ task'[t].h = task[t].h
    <2>1. task' = [task EXCEPT ![t].ios = 1, ![t].pc = "issue", ![t].rq = got[1]]
      BY DEF BatchOf
    <2>2. task'[t] = [task[t] EXCEPT !.ios = 1, !.pc = "issue", !.rq = got[1]] /\ task[t] \in TaskRecs
          /\ \A i \in Issuers \ {t} : task'[i] = task[i]
      BY <1>0, <1>q, <2>1
    <2>3. /\ task'[t] \in TaskRecs /\ task'[t].rq = got[1] /\ task'[t].h = task[t].h /\ task'[t].pc = "issue"
      <3>1. got[1] \in Rqs /\ 1 \in Nat
        BY <1>3, <1>4
      <3>2. task[t] \in TaskRecs /\ task'[t] = [task[t] EXCEPT !.ios = 1, !.pc = "issue", !.rq = got[1]]
        BY <2>2
      <3> QED
        BY <3>1, <3>2 DEF TaskRecs
    <2>4. task' \in [Issuers -> TaskRecs]
      BY <1>0, <2>1, <2>2, <2>3
    <2> QED
      BY <2>2, <2>3, <2>4
  <1>6. bits' = bits \cup G /\ users' = users + n - 1
    BY <1>3 DEF BatchOf, CountBatch, G
  <1>7. /\ rq' \in [Rqs -> RqRecs] /\ (\A s \in Rqs \ G : rq'[s] = rq[s])
        /\ \A s \in G : rq'[s].ref = 1 /\ rq'[s].hctx = task[t].h /\ rq'[s].st = "idle" /\ ~rq'[s].dev
    <2>1. rq' = [r \in Rqs |-> IF r \in G THEN [Free EXCEPT !.ref = 1, !.hctx = task[t].h] ELSE rq[r]]
      BY DEF BatchOf, CtxInit, G
    <2>2. [Free EXCEPT !.ref = 1, !.hctx = task[t].h] \in RqRecs
      BY <1>q DEF Free, RqRecs
    <2>3. [Free EXCEPT !.ref = 1, !.hctx = task[t].h].ref = 1
          /\ [Free EXCEPT !.ref = 1, !.hctx = task[t].h].hctx = task[t].h
          /\ [Free EXCEPT !.ref = 1, !.hctx = task[t].h].st = "idle"
          /\ ~[Free EXCEPT !.ref = 1, !.hctx = task[t].h].dev
      BY DEF Free
    <2> QED
      BY <1>3, <2>1, <2>2, <2>3 DEF Typed
  <1>8. /\ cached' \in [Tasks -> Seq(Rqs)] /\ \A u \in Tasks \ {t} : cached'[u] = cached[u]
        /\ \A k \in DOMAIN cached'[t] :
             /\ k \in Int
             /\ \/ k \in 1 .. n - 1 /\ cached'[t][k] = got[k + 1]
                \/ k > n - 1 /\ k - (n - 1) \in DOMAIN cached[t] /\ cached'[t][k] = cached[t][k - (n - 1)]
        /\ \A k \in 1 .. n - 1 : k \in DOMAIN cached'[t] /\ cached'[t][k] = got[k + 1]
        /\ \A k \in DOMAIN cached[t] :
             k + (n - 1) \in DOMAIN cached'[t] /\ cached'[t][k + (n - 1)] = cached[t][k]
    BY <1>4, GotCached DEF BatchOf
  <1>9. /\ cpuhp' \in Hotplugs /\ cpuhp'.st = cpuhp.st
        /\ \A h \in Hctxs : cpuhp.missed[h] \subseteq cpuhp'.missed[h]
        /\ cpuhp.st[task[t].h] = "offline" => G \subseteq cpuhp'.missed[task[t].h]
    <2>0. cpuhp \in Hotplugs /\ G \in SUBSET Rqs
      BY <1>3 DEF Typed
    <2>1. CASE cpuhp.st[task[t].h] = "offline"
      <3>1. cpuhp' = [cpuhp EXCEPT !.missed[task[t].h] = @ \cup G]
        BY <2>1 DEF BatchOf, G
      <3> QED
        BY <1>q, <2>0, <3>1 DEF Hotplugs
    <2>2. CASE cpuhp.st[task[t].h] # "offline"
      <3>1. cpuhp' = cpuhp
        BY <2>2 DEF BatchOf
      <3> QED
        BY <2>0, <2>2, <3>1
    <2> QED
      BY <2>1, <2>2
  <1>a. \A r \in Rqs : r \in G => /\ r \notin pending
             /\ (\A u \in Tasks : \A k \in DOMAIN cached[u] : cached[u][k] # r)
             /\ (\A i \in Issuers : task[i].pc \in Issuing => task[i].rq # r)
             /\ r \notin Owned
             /\ walk["queue"].cur # r /\ walk["set"].cur # r
    BY <1>5 DEF Unheld
  <1>b. \A u \in Tasks : \A k \in DOMAIN cached'[u] :
          \/ u = t /\ k \in 1 .. n - 1 /\ k + 1 \in 1 .. n /\ k + 1 # 1 /\ cached'[u][k] = got[k + 1]
          \/ u = t /\ k \in Int /\ k > n - 1 /\ k - (n - 1) \in DOMAIN cached[u] /\ cached'[u][k] = cached[u][k - (n - 1)]
          \/ u # t /\ k \in DOMAIN cached[u] /\ cached'[u][k] = cached[u][k]
    BY <1>8
  <1>c. \A r : Cached(r)' <=> Cached(r) \/ (r \in G /\ r # got[1])
    <2>1. ASSUME NEW r, Cached(r)' PROVE Cached(r) \/ (r \in G /\ r # got[1])
      <3>0. PICK u \in Tasks : \E k \in DOMAIN cached'[u] : cached'[u][k] = r
        BY <2>1 DEF Cached
      <3>1. PICK k \in DOMAIN cached'[u] : cached'[u][k] = r
        BY <3>0
      <3> QED
        BY <1>3, <1>4, <1>b, <3>1 DEF Cached
    <2>2. ASSUME NEW r, Cached(r) PROVE Cached(r)'
      BY <1>8, <2>2 DEF Cached
    <2>3. ASSUME NEW r \in G, r # got[1] PROVE Cached(r)'
      <3>1. PICK k \in 1 .. n : got[k] = r
        BY <1>3
      <3>2. k - 1 \in 1 .. n - 1 /\ (k - 1) + 1 = k
        BY <2>3, <3>1
      <3>3. k - 1 \in DOMAIN cached'[t] /\ cached'[t][k - 1] = r
        BY <1>8, <3>1, <3>2
      <3> QED
        BY <3>3 DEF Cached
    <2> QED
      BY <2>1, <2>2, <2>3
  <1>10. Typed'
    <2>1. users' \in Int /\ bits' \subseteq Rqs
      BY <1>3, <1>6 DEF Typed
    <2> QED
      BY <1>1, <1>2, <1>7, <1>8, <1>9, <2>1 DEF Typed
  <1>11. Hands'
    <2>1. got[1] \in Rqs
      BY <1>3, <1>4
    <2> QED
      BY <1>0, <1>2, <1>q, <2>1 DEF Hands, Allocating, Tagging, Issuing
  <1>12. TagsKept'
    <2>1. HeldTags' /\ FreeIsFree'
      BY <1>1, <1>3, <1>6, <1>7, <1>q DEF TagsKept, HeldTags, FreeIsFree
    <2>2. BitsMapped'
      BY <1>1, <1>3, <1>6 DEF TagsKept, BitsMapped
    <2>3. BitsHeld'
      <3>1. \A r \in bits' : r \in G \/ (r \in bits /\ r \in Rqs)
        <4>1. bits \subseteq Rqs
          BY DEF Typed
        <4> QED
          BY <1>6, <4>1
      <3>2. \A r \in G : rq'[r].ref > 0
        BY <1>3, <1>7
      <3>3. \A r \in bits : rq[r].ref > 0 \/ \E u \in Tasks : task[u].pc \in Tagging /\ task[u].rq = r
        BY DEF TagsKept, BitsHeld
      <3>4. \A u \in Tasks : task[u].pc \in Tagging => task'[u] = task[u]
        BY <1>0, <1>2, <1>q DEF Tagging
      <3>5. \A r \in Rqs : r \in G \/ rq'[r] = rq[r]
        BY <1>7
      <3> QED
        BY <3>1, <3>2, <3>3, <3>4, <3>5 DEF BitsHeld
    <2>4. NewTags'
      <3>1. \A u \in Tasks : task'[u].pc \in Tagging => u # t /\ task[u].pc \in Tagging /\ task'[u] = task[u]
        BY <1>0, <1>2 DEF Tagging
      <3>2. \A u \in Tasks : task[u].pc \in Tagging => task[u].rq \in Rqs /\ task[u].rq \notin G
        BY <1>0, <1>3 DEF Hands, TagsKept, NewTags
      <3> QED
        BY <1>6, <1>7, <3>1, <3>2 DEF TagsKept, NewTags
    <2> QED
      BY <2>1, <2>2, <2>3, <2>4 DEF TagsKept
  <1>13. OneOwner'
    <2>1. \A u \in Tasks : \A k \in DOMAIN cached[u] : cached[u][k] \in Rqs /\ cached[u][k] \notin G
      BY <1>a DEF Typed
    <2>2. CachedApart'
      <3>1. \A u, v \in Tasks : \A k \in DOMAIN cached'[u], l \in DOMAIN cached'[v] :
              cached'[u][k] = cached'[v][l] => u = v /\ k = l
        <4> SUFFICES ASSUME NEW u \in Tasks, NEW v \in Tasks, NEW k \in DOMAIN cached'[u], NEW l \in DOMAIN cached'[v],
                            cached'[u][k] = cached'[v][l]
                     PROVE  u = v /\ k = l
          OBVIOUS
        <4>1. CASE u = t /\ k \in 1 .. n - 1 /\ k + 1 \in 1 .. n /\ cached'[u][k] = got[k + 1]
          <5>1. cached'[v][l] \in G
            BY <1>3, <4>1
          <5>2. v = t /\ l \in 1 .. n - 1 /\ l + 1 \in 1 .. n /\ cached'[v][l] = got[l + 1]
            BY <1>b, <2>1, <5>1
          <5>3. k + 1 = l + 1
            BY <1>3, <4>1, <5>2
          <5> QED
            BY <4>1, <5>2, <5>3
        <4>2. CASE v = t /\ l \in 1 .. n - 1 /\ l + 1 \in 1 .. n /\ cached'[v][l] = got[l + 1]
          <5>1. cached'[u][k] \in G
            BY <1>3, <4>2
          <5>2. u = t /\ k \in 1 .. n - 1 /\ k + 1 \in 1 .. n /\ cached'[u][k] = got[k + 1]
            BY <1>b, <2>1, <5>1
          <5>3. k + 1 = l + 1
            BY <1>3, <4>2, <5>2
          <5> QED
            BY <4>2, <5>2, <5>3
        <4>3. CASE /\ (u = t /\ k \in Int /\ k - (n - 1) \in DOMAIN cached[u] /\ cached'[u][k] = cached[u][k - (n - 1)])
                      \/ (u # t /\ k \in DOMAIN cached[u] /\ cached'[u][k] = cached[u][k])
                   /\ (v = t /\ l \in Int /\ l - (n - 1) \in DOMAIN cached[v] /\ cached'[v][l] = cached[v][l - (n - 1)])
                      \/ (v # t /\ l \in DOMAIN cached[v] /\ cached'[v][l] = cached[v][l])
          <5>1. u = v
            BY <4>3 DEF OneOwner, CachedApart
          <5>2. CASE u = t
            <6>1. k - (n - 1) = l - (n - 1) /\ k \in Int /\ l \in Int
              BY <4>3, <5>1, <5>2 DEF OneOwner, CachedApart
            <6> QED
              BY <5>1, <6>1
          <5>3. CASE u # t
            BY <4>3, <5>1, <5>3 DEF OneOwner, CachedApart
          <5> QED
            BY <5>2, <5>3
        <4> QED
          BY <1>b, <4>1, <4>2, <4>3
      <3>2. \A u \in Tasks : \A k \in DOMAIN cached'[u] : cached'[u][k] \notin pending /\ rq'[cached'[u][k]].st = "idle"
        <4> SUFFICES ASSUME NEW u \in Tasks, NEW k \in DOMAIN cached'[u]
                     PROVE  cached'[u][k] \notin pending /\ rq'[cached'[u][k]].st = "idle"
          OBVIOUS
        <4>1. CASE cached'[u][k] \in G
          BY <1>3, <1>7, <1>a, <4>1
        <4>2. CASE cached'[u][k] \notin G
          <5>1. PICK l \in DOMAIN cached[u] : cached'[u][k] = cached[u][l]
            BY <1>3, <1>b, <4>2
          <5> QED
            BY <1>7, <2>1, <5>1 DEF OneOwner, CachedApart
        <4> QED
          BY <4>1, <4>2
      <3> QED
        BY <1>1, <3>1, <3>2 DEF CachedApart
    <2>3. IssuedApart'
      <3>1. \A q : \A i \in Issuers : task'[i].pc \in Issuing /\ task'[i].rq = q => q \notin pending /\ ~Cached(q)'
        <4>1. \A i \in Issuers \ {t} : task[i].pc \in Issuing => task[i].rq \notin pending /\ ~Cached(task[i].rq) /\ task[i].rq \notin G
          BY <1>3, <1>a DEF OneOwner, IssuedApart, Cached
        <4>2. got[1] \notin pending /\ ~Cached(got[1])
          BY <1>3, <1>4, <1>a DEF Cached
        <4>3. SUFFICES ASSUME NEW q, NEW i \in Issuers, task'[i].pc \in Issuing, task'[i].rq = q
                       PROVE  q \notin pending /\ ~Cached(q) /\ (q \notin G \/ q = got[1])
          BY <1>c
        <4>4. CASE i = t
          BY <1>2, <4>2, <4>3, <4>4
        <4>5. CASE i # t
          BY <1>2, <4>1, <4>3, <4>5
        <4> QED
          BY <4>4, <4>5
      <3>2. \A i \in Issuers : task[i].pc \in Issuing => task[i].rq # got[1]
        BY <1>3, <1>4, <1>a
      <3>3. \A i, j \in Issuers : task'[i].pc \in Issuing /\ task'[j].pc \in Issuing /\ task'[i].rq = task'[j].rq => i = j
        BY <1>2, <1>q, <3>2 DEF OneOwner, IssuedApart
      <3> QED
        <4>1. \A i \in Issuers : task'[i].pc \in Issuing =>
                \A u \in Tasks : \A k \in DOMAIN cached'[u] : cached'[u][k] # task'[i].rq
          BY <3>1 DEF Cached
        <4>2. pending' = pending
          BY <1>1
        <4> QED
          BY <3>1, <3>3, <4>1, <4>2 DEF IssuedApart
    <2>4. PendingIdle'
      BY <1>1, <1>7 DEF OneOwner, PendingIdle, Typed
    <2>5. \A i \in Issuers : task[i].pc \in Issuing => task[i].rq \in Rqs /\ task[i].rq \notin G
      BY <1>a DEF Hands
    <2>6. StateSuits'
      BY <1>1, <1>2, <1>4, <1>7, <2>5 DEF OneOwner, StateSuits, Issuing
    <2> QED
      BY <2>2, <2>3, <2>4, <2>6 DEF OneOwner
  <1>14. Refs'
    <2>1. OwnedIs /\ OwnedIs'
      BY OwnedMeans, PTL
    <2>2. \A s \in Rqs \ G : s \in Owned' <=> s \in Owned
      <3>1. \A s \in Rqs \ G : (\E i \in Issuers : task'[i].rq = s /\ task'[i].pc \in Issuing)
                                 <=> (\E i \in Issuers : task[i].rq = s /\ task[i].pc \in Issuing)
        BY <1>2, <1>4, <1>q DEF Issuing
      <3> QED
        BY <1>1, <1>7, <1>c, <2>1, <3>1 DEF OwnedIs, Cached
    <2>3. \A s \in G : s \in Owned'
      BY <1>2, <1>3, <1>c, <1>q, <2>1 DEF OwnedIs, Issuing, Cached
    <2> QED
      BY <1>1, <1>3, <1>7, <1>a, <2>2, <2>3 DEF Refs, OnWalk, Has
  <1>15. Users'
    <2>1. Allocating' = Allocating \ {t}
      BY <1>0, <1>2 DEF Allocating
    <2>2. Cardinality(Allocating') = Cardinality(Allocating) - 1
      BY <1>q, <2>1, Finite, FS_RemoveElement
    <2>3. Held' = Held \cup G /\ Held \cap G = {}
      BY <1>3, <1>5, <1>7 DEF Held
    <2>4. Cardinality(Held') = Cardinality(Held) + n
      <3>1. Cardinality(Held \cup G) = Cardinality(Held) + Cardinality(G) - Cardinality(Held \cap G)
        BY <1>3, Finite, FS_Union
      <3>2. Cardinality(Held \cap G) = 0
        BY <2>3, FS_EmptySet
      <3> QED
        BY <1>3, <2>3, <3>1, <3>2, Finite
    <2>5. UNCHANGED <<Owed, Draining, Working>>
      BY <1>1, <1>9 DEF Owed, Draining, Working
    <2> QED
      BY SMTT(40), <1>6, <2>2, <2>4, <2>5, Finite DEF Users, Working
  <1>16. WalksPlaced'
    BY <1>1, PlacedFrame
  <1>17. Cancelling'
    <2>1. \A i \in Issuers : task[i].pc \in Issuing => task[i].rq \in Rqs
      BY DEF Hands
    <2> QED
      BY <1>0, <1>1, <1>2, <1>7, <1>q DEF Cancelling, Sections
  <1>18. NotDueYet'
    BY <1>0, <1>1, <1>2, <1>q DEF NotDueYet, Sections
  <1>19. Frozen'
    <2>1. Cardinality(Allocating) # 0
      BY <1>q, Finite, FS_EmptySet
    <2>2. /\ Cardinality(Allocating) \in Nat /\ Cardinality(Held) \in Nat /\ Cardinality(Owed) \in Nat
          /\ Cardinality(Draining) \in Nat /\ Working \in Nat
      BY Finite DEF Working
    <2>3. \A a, h, o, w, d \in Nat : a # 0 => a + h + o + w + d # 0
      OBVIOUS
    <2>4. users # 0
      BY <2>1, <2>2, <2>3 DEF Users
    <2> QED
      BY <1>1, <2>4 DEF Frozen, Freezing
  <1>20. Offline'
    <2>1. \A h \in Hctxs : Inactive(h) => h \in setup.unplugged
      BY DEF Offline
    <2>2. \A h \in Hctxs : cpuhp.st[h] = "offline" => \A r \in Rqs : rq'[r].ref > 0 /\ rq'[r].hctx = h => r \in cpuhp'.missed[h]
      BY <1>7, <1>9 DEF Offline
    <2>3. \A h \in Hctxs : cpuhp.st[h] = "offline" =>
            \A u \in Tasks : task'[u].pc = "init" /\ task'[u].h = h => task'[u].rq \in cpuhp'.missed[h]
      BY <1>0, <1>2, <1>9 DEF Offline
    <2> QED
      BY <1>1, <1>9, <2>1, <2>2, <2>3 DEF Offline, Inactive
  <1> QED
    BY <1>10, <1>11, <1>12, <1>13, <1>14, <1>15, <1>16, <1>17, <1>18, <1>19, <1>20

LEMMA AllocBatchStep ==
  ASSUME ReqInv, NEW t \in Tasks, AllocBatch(t)
  PROVE  ReqInv'
  <1>1. Typed
    BY DEF ReqInv
  <1>2. CASE BatchNone(t)
    BY <1>2, BatchNoneStep
  <1>3. CASE \E n \in Nat \ {0} : \E got \in [1 .. n -> FreeTags(TagsOf[task[t].h])] : BatchOf(t, n, got)
    BY <1>3, BatchOfStep
  <1> QED
    BY <1>1, <1>2, <1>3, BatchCases

-----------------------------------------------------------------------------
(* Steps that change a request that is held, or do nothing to it. *)
Touched ==
  /\ rq' \in [Rqs -> RqRecs]
  /\ \A r \in Rqs : /\ rq'[r].ref > 0 <=> rq[r].ref > 0
                    /\ rq'[r].hctx = rq[r].hctx
                    /\ rq[r].ref = 0 => rq'[r] = rq[r]

Moved ==
  \A t \in Tasks : \/ task'[t] = task[t]
                   \/ task[t].pc \in {"out"} \cup Issuing /\ task'[t].pc \in {"out"} \cup Issuing

LEMMA CachedAre == Typed => \A t \in Tasks : \A k \in DOMAIN cached[t] : cached[t][k] \in Rqs
  BY DEF Typed

LEMMA TouchKeepsTags ==
  ASSUME Typed, TagsKept, Touched, Moved, UNCHANGED <<setup, bits>>
  PROVE  TagsKept'
  <1>1. \A t \in Tasks : /\ task'[t].pc \in Tagging <=> task[t].pc \in Tagging
                         /\ task[t].pc \in Tagging => task'[t] = task[t]
    BY DEF Moved, Tagging, Issuing
  <1>2. HeldTags' /\ BitsMapped'
    BY DEF TagsKept, HeldTags, BitsMapped, Touched
  <1>5. FreeIsFree'
    <2>1. \A r \in Rqs : rq[r].ref \in Nat
      BY DEF Typed, RqRecs
    <2>2. \A r \in Rqs : rq'[r].ref = 0 => rq[r].ref = 0
      BY <2>1 DEF Touched
    <2> QED
      BY <2>2 DEF TagsKept, FreeIsFree, Touched
  <1>3. BitsHeld'
    <2>1. \A r \in bits : r \in Rqs /\ (rq[r].ref > 0 => rq'[r].ref > 0)
      BY DEF Typed, Touched
    <2> QED
      BY <1>1, <2>1 DEF TagsKept, BitsHeld
  <1>4. NewTags'
    <2>1. /\ \A t \in Tasks : task[t].pc \in Tagging => task[t].rq \in bits /\ rq[task[t].rq].ref = 0
          /\ \A t, u \in Tasks : task[t].pc \in Tagging /\ task[u].pc \in Tagging /\ task[t].rq = task[u].rq => t = u
      BY DEF TagsKept, NewTags
    <2>2. \A r \in bits : rq[r].ref = 0 => rq'[r] = rq[r]
      BY DEF Touched, Typed
    <2> QED
      BY <1>1, <2>1, <2>2 DEF NewTags
  <1> QED
    BY <1>2, <1>3, <1>4, <1>5 DEF TagsKept

LEMMA TouchKeepsUsers ==
  ASSUME Users, Touched, Moved, UNCHANGED <<users, wakes, cpuhp>>, Working' = Working
  PROVE  Users'
  <1>1. Allocating' = Allocating
    BY DEF Moved, Allocating, Issuing
  <1>2. Held' = Held
    BY DEF Held, Touched
  <1> QED
    BY <1>1, <1>2 DEF Users, Owed, Draining

LEMMA TouchKeepsOffline ==
  ASSUME Offline, Touched, Moved, UNCHANGED <<cpuhp, setup>>
  PROVE  Offline'
  <1>1. \A t \in Tasks : task'[t].pc = "init" => task'[t] = task[t]
    BY DEF Moved, Issuing
  <1> QED
    BY <1>1 DEF Offline, Inactive, Touched

LEMMA TouchKeepsRefs ==
  ASSUME Refs, \A r \in Rqs : rq'[r].ref = rq[r].ref, UNCHANGED walk,
         \A r \in Rqs : r \in Owned' <=> r \in Owned
  PROVE  Refs'
  BY DEF Refs, OnWalk, Has

LEMMA SameOwners ==
  ASSUME Typed, Hands, OneOwner, UNCHANGED <<task, cached, pending>>,
         \A x \in Rqs : rq'[x].st = rq[x].st /\ rq'[x].dev = rq[x].dev
  PROVE  OneOwner'
  <1>1. CachedApart' /\ PendingIdle' /\ IssuedApart'
    <2>1. pending \subseteq Rqs
      BY DEF Typed
    <2> QED
      BY <2>1, CachedAre DEF OneOwner, CachedApart, IssuedApart, PendingIdle
  <1>2. StateSuits'
    <2>1. \A i \in Issuers : task[i].pc \in Issuing => task[i].rq \in Rqs
      BY DEF Hands
    <2> QED
      BY <2>1 DEF OneOwner, StateSuits, Issuing
  <1> QED
    BY <1>1, <1>2 DEF OneOwner

Ends(i) == task' = [task EXCEPT ![i].pc = "out", ![i].rq = None]

LEMMA TaskEnds ==
  ASSUME Typed, NEW i \in Issuers, Ends(i)
  PROVE  /\ task' \in [Issuers -> TaskRecs] /\ \A j \in Issuers \ {i} : task'[j] = task[j]
         /\ task'[i].pc = "out" /\ task'[i].rq = None /\ task'[i].h = task[i].h
  <1>1. task'[i] = [task[i] EXCEPT !.pc = "out", !.rq = None] /\ task[i] \in TaskRecs
        /\ \A j \in Issuers \ {i} : task'[j] = task[j]
    BY DEF Typed, Ends
  <1>2. task'[i] \in TaskRecs /\ task'[i].pc = "out" /\ task'[i].rq = None /\ task'[i].h = task[i].h
    <2>1. task'[i] = [task[i] EXCEPT !.pc = "out", !.rq = None] /\ task[i] \in TaskRecs
      BY <1>1
    <2> QED
      BY <2>1 DEF TaskRecs
  <1>3. task' \in [Issuers -> TaskRecs]
    BY <1>1, <1>2 DEF Typed, Ends
  <1> QED
    BY <1>1, <1>2, <1>3

LEMMA TaskGoes ==
  ASSUME Typed, NEW i \in Issuers, NEW pc \in {"issue", "timer", "flight"}, Goto(i, pc)
  PROVE  /\ task' \in [Issuers -> TaskRecs] /\ \A j \in Issuers \ {i} : task'[j] = task[j]
         /\ task'[i].pc = pc /\ task'[i].rq = task[i].rq /\ task'[i].h = task[i].h
  <1>1. task'[i] = [task[i] EXCEPT !.pc = pc] /\ task[i] \in TaskRecs
        /\ \A j \in Issuers \ {i} : task'[j] = task[j]
    BY DEF Typed, Goto
  <1>2. task'[i] \in TaskRecs /\ task'[i].pc = pc /\ task'[i].rq = task[i].rq /\ task'[i].h = task[i].h
    BY <1>1 DEF TaskRecs
  <1>3. task' \in [Issuers -> TaskRecs]
    BY <1>1, <1>2 DEF Typed, Goto
  <1> QED
    BY <1>1, <1>2, <1>3

(* The request a task issues: it owns it. *)
LEMMA IssuedFacts ==
  ASSUME ReqInv, NEW i \in Issuers, task[i].pc \in Issuing
  PROVE  /\ task[i].rq \in Rqs /\ task[i].rq \in Owned /\ rq[task[i].rq].ref > 0
         /\ task[i].rq \notin pending /\ ~Cached(task[i].rq)
         /\ \A j \in Issuers \ {i} : task[j].pc \in Issuing => task[j].rq # task[i].rq
         /\ i \in Tasks => task[i].pc \notin {"get", "retry", "again", "asleep", "test", "init"}
  <1> USE DEF ReqInv
  <1>1. task[i].rq \in Rqs
    BY DEF Hands
  <1>2. task[i].rq \in Owned
    BY <1>1 DEF Owned, Issuing
  <1>3. rq[task[i].rq].ref > 0
    BY <1>1, <1>2 DEF Refs, Has, OnWalk
  <1>4. task[i].rq \notin pending /\ ~Cached(task[i].rq)
    BY DEF OneOwner, IssuedApart, Cached
  <1>5. \A j \in Issuers \ {i} : task[j].pc \in Issuing => task[j].rq # task[i].rq
    BY DEF OneOwner, IssuedApart
  <1> QED
    BY <1>1, <1>2, <1>3, <1>4, <1>5 DEF Issuing

IssueBack(i) ==
  /\ task[i].pc = "issue" /\ quiesced /\ pending' = pending \cup {task[i].rq}
  /\ task' = [task EXCEPT ![i].pc = "out", ![i].rq = None]
  /\ UNCHANGED <<setup, bits, waits, wakes, listed, rq, cached, users, depth, killed, freezer,
                 quiesced, cpuhp, timer, walk>>

IssueNow(i) ==
  /\ task[i].pc = "issue" /\ ~quiesced
  /\ listed' = listed \cup {task[i].rq} /\ rq' = [rq EXCEPT ![task[i].rq].late = FALSE]
  /\ timer' = [timer EXCEPT !.due = @ \ {task[i].rq}] /\ Goto(i, "timer")
  /\ UNCHANGED <<setup, bits, waits, wakes, cached, pending, users, depth, killed, freezer,
                 quiesced, cpuhp, walk>>

LEMMA IssueCases == ASSUME NEW i, Issue(i) PROVE IssueBack(i) \/ IssueNow(i)
  BY DEF Issue, IssueBack, IssueNow, tagVars, queueVars, flagVars

LEMMA TakeStep ==
  ASSUME ReqInv, NEW r \in Rqs, Take(r)
  PROVE  ReqInv'
  <1> USE DEF ReqInv
  <1>0. /\ task \in [Issuers -> TaskRecs] /\ Issuers = Tasks \cup {Worker} /\ Worker \notin Tasks
        /\ \A j \in Issuers : task[j] \in TaskRecs
        /\ None \notin Rqs /\ None \notin Hctxs
    BY Named
  <1>1. UNCHANGED <<setup, bits, waits, wakes, listed, rq, cached, users, depth, killed, freezer, quiesced, cpuhp, timer, walk>>
    BY DEF Take, tagVars, queueVars, flagVars, timeVars, walkElse, freezeElse, hotplugElse
  <1>2. /\ task[Worker].pc = "out" /\ r \in pending /\ ~quiesced /\ pending' = pending \ {r}
        /\ task' \in [Issuers -> TaskRecs] /\ (\A i \in Issuers \ {Worker} : task'[i] = task[i]) /\ Worker \in Issuers
        /\ task'[Worker].pc = "issue" /\ task'[Worker].rq = r /\ task'[Worker].h = task[Worker].h
    <2>1. /\ task[Worker].pc = "out" /\ r \in pending /\ ~quiesced /\ pending' = pending \ {r} /\ Worker \in Issuers
          /\ task' = [task EXCEPT ![Worker].pc = "issue", ![Worker].rq = r]
      BY <1>0 DEF Take
    <2>2. task'[Worker] = [task[Worker] EXCEPT !.pc = "issue", !.rq = r] /\ task[Worker] \in TaskRecs
          /\ \A i \in Issuers \ {Worker} : task'[i] = task[i]
      BY <1>0, <2>1
    <2>3. task'[Worker] \in TaskRecs /\ task'[Worker].pc = "issue" /\ task'[Worker].rq = r /\ task'[Worker].h = task[Worker].h
      <3>1. task'[Worker] = [task[Worker] EXCEPT !.pc = "issue", !.rq = r] /\ task[Worker] \in TaskRecs
        BY <2>2
      <3> QED
        BY <3>1 DEF TaskRecs
    <2>4. task' \in [Issuers -> TaskRecs]
      BY <1>0, <2>1, <2>2, <2>3
    <2> QED
      BY <2>1, <2>2, <2>3, <2>4
  <1>3. /\ rq[r].st = "idle" /\ (\A t \in Tasks : \A k \in DOMAIN cached[t] : cached[t][k] # r)
        /\ \A i \in Issuers : task[i].pc \in Issuing => task[i].rq # r
    BY <1>2 DEF OneOwner, CachedApart, IssuedApart, PendingIdle
  <1>10. Typed'
    BY <1>0, <1>1, <1>2 DEF Typed
  <1>11. Hands'
    BY <1>0, <1>1, <1>2 DEF Hands, Allocating, Tagging, Issuing
  <1>12. TagsKept'
    BY <1>0, <1>1, <1>2 DEF TagsKept, HeldTags, BitsMapped, FreeIsFree, BitsHeld, NewTags, Tagging
  <1>13. OneOwner'
    <2>1. CachedApart' /\ PendingIdle'
      BY <1>1, <1>2 DEF OneOwner, CachedApart, PendingIdle
    <2>2. IssuedApart'
      BY <1>0, <1>1, <1>2, <1>3 DEF OneOwner, IssuedApart
    <2>3. StateSuits'
      BY <1>0, <1>1, <1>2, <1>3 DEF OneOwner, StateSuits
    <2> QED
      BY <2>1, <2>2, <2>3 DEF OneOwner
  <1>14. Refs'
    <2>1. OwnedIs /\ OwnedIs'
      BY OwnedMeans, PTL
    <2>2. \A x \in Rqs : x \in Owned' <=> x \in Owned
      BY <1>0, <1>1, <1>2, <2>1 DEF OwnedIs, Issuing, Cached
    <2> QED
      BY <1>1, <2>2 DEF Refs, OnWalk, Has
  <1>15. Users'
    <2>1. Allocating' = Allocating
      BY <1>0, <1>2 DEF Allocating
    <2>2. UNCHANGED <<Held, Owed, Draining, Working>>
      BY <1>1 DEF Held, Owed, Draining, Working
    <2> QED
      BY <1>1, <2>1, <2>2 DEF Users
  <1>16. WalksPlaced'
    BY <1>1, PlacedFrame
  <1>17. Cancelling'
    BY <1>0, <1>1, <1>2 DEF Cancelling, Sections
  <1>18. NotDueYet'
    BY <1>0, <1>1, <1>2 DEF NotDueYet, Sections
  <1>19. Frozen'
    BY <1>1, FrozenFrame
  <1>20. Offline'
    BY <1>0, <1>1, <1>2 DEF Offline, Inactive
  <1> QED
    BY <1>10, <1>11, <1>12, <1>13, <1>14, <1>15, <1>16, <1>17, <1>18, <1>19, <1>20

LEMMA IssueBackStep ==
  ASSUME ReqInv, NEW i \in Issuers, IssueBack(i)
  PROVE  ReqInv'
  <1> USE DEF ReqInv
  <1>0. /\ task \in [Issuers -> TaskRecs] /\ Issuers = Tasks \cup {Worker} /\ Worker \notin Tasks
        /\ \A j \in Issuers : task[j] \in TaskRecs
        /\ None \notin Rqs /\ None \notin Hctxs
    BY Named
  <1>1. UNCHANGED <<setup, bits, waits, wakes, listed, rq, cached, users, depth, killed, freezer, quiesced, cpuhp, timer, walk>>
    BY DEF IssueBack, tagVars, queueVars, flagVars, timeVars, walkElse, freezeElse, hotplugElse
  <1>2. /\ task[i].pc = "issue" /\ pending' = pending \cup {task[i].rq}
        /\ task' \in [Issuers -> TaskRecs] /\ (\A j \in Issuers \ {i} : task'[j] = task[j])
        /\ task'[i].pc = "out" /\ task'[i].rq = None /\ task'[i].h = task[i].h
    BY TaskEnds DEF IssueBack, Ends
  <1>3. /\ task[i].rq \in Rqs /\ rq[task[i].rq].st = "idle" /\ ~Cached(task[i].rq)
        /\ \A j \in Issuers \ {i} : task[j].pc \in Issuing => task[j].rq # task[i].rq
    BY <1>2, IssuedFacts DEF OneOwner, StateSuits, Issuing
  <1>10. Typed'
    BY <1>0, <1>1, <1>2, <1>3 DEF Typed
  <1>11. Hands'
    BY <1>0, <1>1, <1>2 DEF Hands, Allocating, Tagging, Issuing
  <1>12. TagsKept'
    BY <1>0, <1>1, <1>2 DEF TagsKept, HeldTags, BitsMapped, FreeIsFree, BitsHeld, NewTags, Tagging
  <1>13. OneOwner'
    <2>1. CachedApart' /\ PendingIdle'
      BY <1>1, <1>2, <1>3 DEF OneOwner, CachedApart, PendingIdle, Cached
    <2>2. IssuedApart'
      BY <1>0, <1>1, <1>2, <1>3 DEF OneOwner, IssuedApart, Issuing
    <2>3. StateSuits'
      BY <1>0, <1>1, <1>2, <1>3 DEF OneOwner, StateSuits
    <2> QED
      BY <2>1, <2>2, <2>3 DEF OneOwner
  <1>14. Refs'
    <2>1. OwnedIs /\ OwnedIs'
      BY OwnedMeans, PTL
    <2>2. \A x \in Rqs : x \in Owned' <=> x \in Owned
      BY <1>0, <1>1, <1>2, <2>1 DEF OwnedIs, Issuing, Cached
    <2> QED
      BY <1>1, <2>2 DEF Refs, OnWalk, Has
  <1>15. Users'
    <2>1. Allocating' = Allocating
      BY <1>0, <1>2 DEF Allocating
    <2>2. UNCHANGED <<Held, Owed, Draining, Working>>
      BY <1>1 DEF Held, Owed, Draining, Working
    <2> QED
      BY <1>1, <2>1, <2>2 DEF Users
  <1>16. WalksPlaced'
    BY <1>1, PlacedFrame
  <1>17. Cancelling'
    BY <1>0, <1>1, <1>2 DEF Cancelling, Sections
  <1>18. NotDueYet'
    BY <1>0, <1>1, <1>2 DEF NotDueYet, Sections
  <1>19. Frozen'
    BY <1>1, FrozenFrame
  <1>20. Offline'
    BY <1>0, <1>1, <1>2 DEF Offline, Inactive
  <1> QED
    BY <1>10, <1>11, <1>12, <1>13, <1>14, <1>15, <1>16, <1>17, <1>18, <1>19, <1>20

LEMMA IssueNowStep ==
  ASSUME ReqInv, NEW i \in Issuers, IssueNow(i)
  PROVE  ReqInv'
  <1> USE DEF ReqInv
  <1>0. /\ task \in [Issuers -> TaskRecs] /\ Issuers = Tasks \cup {Worker} /\ Worker \notin Tasks
        /\ \A j \in Issuers : task[j] \in TaskRecs
        /\ None \notin Rqs /\ None \notin Hctxs
    BY Named
  <1>1. UNCHANGED <<setup, bits, waits, wakes, cached, pending, users, depth, killed, freezer, quiesced, cpuhp, walk>>
    BY DEF IssueNow, tagVars, queueVars, flagVars, timeVars, walkElse, freezeElse, hotplugElse
  <1>2. /\ task[i].pc = "issue" /\ ~quiesced /\ listed' = listed \cup {task[i].rq}
        /\ task' \in [Issuers -> TaskRecs] /\ (\A j \in Issuers \ {i} : task'[j] = task[j])
        /\ task'[i].pc = "timer" /\ task'[i].rq = task[i].rq /\ task'[i].h = task[i].h
    BY TaskGoes DEF IssueNow
  <1>3. /\ task[i].rq \in Rqs /\ rq[task[i].rq].st = "idle" /\ rq[task[i].rq].ref > 0 /\ task[i].rq \in Owned
        /\ \A j \in Issuers \ {i} : task[j].pc \in Issuing => task[j].rq # task[i].rq
    BY <1>2, IssuedFacts DEF OneOwner, StateSuits, Issuing
  <1>4. /\ rq' \in [Rqs -> RqRecs] /\ \A s \in Rqs \ {task[i].rq} : rq'[s] = rq[s]
        /\ rq'[task[i].rq].st = "idle" /\ rq'[task[i].rq].ref = rq[task[i].rq].ref
        /\ rq'[task[i].rq].hctx = rq[task[i].rq].hctx /\ rq'[task[i].rq].dev = rq[task[i].rq].dev
    <2>1. rq' = [rq EXCEPT ![task[i].rq].late = FALSE] /\ rq \in [Rqs -> RqRecs]
      BY DEF IssueNow, Typed
    <2> DEFINE r == task[i].rq
    <2>2. r \in Rqs
      BY <1>3
    <2>3. rq' = [rq EXCEPT ![r].late = FALSE]
      BY <2>1
    <2> HIDE DEF r
    <2>4. rq'[r] = [rq[r] EXCEPT !.late = FALSE] /\ rq[r] \in RqRecs /\ \A s \in Rqs \ {r} : rq'[s] = rq[s]
      BY <2>1, <2>2, <2>3
    <2>5. rq'[r] \in RqRecs /\ rq'[r].st = rq[r].st /\ rq'[r].ref = rq[r].ref /\ rq'[r].hctx = rq[r].hctx /\ rq'[r].dev = rq[r].dev
      BY <2>4 DEF RqRecs
    <2>6. rq' \in [Rqs -> RqRecs]
      BY <2>1, <2>2, <2>3, <2>5
    <2> QED
      BY <1>3, <2>4, <2>5, <2>6 DEF r
  <1>5. /\ timer' \in Timers /\ timer'.pc = timer.pc /\ timer'.phase = timer.phase /\ timer'.sync = timer.sync
        /\ timer'.due = timer.due \ {task[i].rq}
    BY DEF IssueNow, Typed, Timers
  <1>6. timer.pc \notin {"drain", "cancel"}
    BY <1>2 DEF Cancelling
  <1>s. \A x \in Rqs : rq'[x].ref = rq[x].ref
    BY <1>4
  <1>t. Touched /\ Moved
    <2>1. \A x \in Rqs : x = task[i].rq \/ rq'[x] = rq[x]
      BY <1>4
    <2>2. Touched
      BY <1>3, <1>4, <2>1 DEF Touched
    <2>3. Moved
      BY <1>0, <1>2 DEF Moved, Issuing
    <2> QED
      BY <2>2, <2>3
  <1>10. Typed'
    BY <1>0, <1>1, <1>2, <1>3, <1>4, <1>5 DEF Typed
  <1>11. Hands'
    BY <1>0, <1>1, <1>2 DEF Hands, Allocating, Tagging, Issuing
  <1>12. TagsKept'
    BY <1>1, <1>t, TouchKeepsTags
  <1>13. OneOwner'
    <2>1. CachedApart' /\ PendingIdle'
      <3>1. \A x \in Rqs : rq'[x].st = rq[x].st
        BY <1>3, <1>4
      <3>2. pending \subseteq Rqs
        BY DEF Typed
      <3> QED
        BY <1>1, <3>1, <3>2, CachedAre DEF OneOwner, CachedApart, PendingIdle
    <2>2. IssuedApart'
      BY <1>0, <1>1, <1>2 DEF OneOwner, IssuedApart, Issuing
    <2>3. StateSuits'
      BY <1>0, <1>1, <1>2, <1>3, <1>4 DEF OneOwner, StateSuits, Issuing, Hands
    <2> QED
      BY <2>1, <2>2, <2>3 DEF OneOwner
  <1>14. Refs'
    <2>1. OwnedIs /\ OwnedIs'
      BY OwnedMeans, PTL
    <2>2. \A x \in Rqs : x \in Owned' <=> x \in Owned
      BY <1>0, <1>1, <1>2, <1>3, <1>4, <2>1 DEF OwnedIs, Issuing, Cached
    <2> QED
      BY <1>1, <1>s, <2>2, TouchKeepsRefs
  <1>15. Users'
    BY <1>1, <1>5, <1>t, TouchKeepsUsers DEF Working
  <1>16. WalksPlaced'
    BY <1>1, <1>5 DEF WalksPlaced, Walked
  <1>17. Cancelling'
    BY <1>0, <1>1, <1>2, <1>3, <1>4, <1>5, <1>6 DEF Cancelling
  <1>18. NotDueYet'
    <2>1. Sections' = Sections \cup {i}
      BY <1>2 DEF Sections
    <2> QED
      BY <1>2, <1>5, <2>1 DEF NotDueYet, Sections
  <1>19. Frozen'
    BY <1>1, FrozenFrame
  <1>20. Offline'
    BY <1>1, <1>t, TouchKeepsOffline
  <1> QED
    BY <1>10, <1>11, <1>12, <1>13, <1>14, <1>15, <1>16, <1>17, <1>18, <1>19, <1>20

LEMMA IssueStep ==
  ASSUME ReqInv, NEW i \in Issuers, Issue(i)
  PROVE  ReqInv'
  BY IssueCases, IssueBackStep, IssueNowStep

LEMMA StartRequestStep ==
  ASSUME ReqInv, NEW i \in Issuers, StartRequest(i)
  PROVE  ReqInv'
  <1> USE DEF ReqInv
  <1>0. /\ task \in [Issuers -> TaskRecs] /\ Issuers = Tasks \cup {Worker} /\ Worker \notin Tasks
        /\ \A j \in Issuers : task[j] \in TaskRecs
        /\ None \notin Rqs /\ None \notin Hctxs
    BY Named
  <1>1. UNCHANGED <<setup, bits, waits, wakes, listed, cached, pending, users, depth, killed, freezer, quiesced, cpuhp, timer, walk>>
    BY DEF StartRequest, tagVars, queueVars, flagVars, timeVars, walkElse, freezeElse, hotplugElse
  <1>2. /\ task[i].pc = "timer"
        /\ task' \in [Issuers -> TaskRecs] /\ (\A j \in Issuers \ {i} : task'[j] = task[j])
        /\ task'[i].pc = "flight" /\ task'[i].rq = task[i].rq /\ task'[i].h = task[i].h
    BY TaskGoes DEF StartRequest
  <1>3. /\ task[i].rq \in Rqs /\ rq[task[i].rq].st = "idle" /\ rq[task[i].rq].ref > 0 /\ task[i].rq \in Owned
        /\ task[i].rq \notin pending /\ ~Cached(task[i].rq) /\ ~rq[task[i].rq].dev
        /\ \A j \in Issuers \ {i} : task[j].pc \in Issuing => task[j].rq # task[i].rq
    BY <1>2, IssuedFacts DEF OneOwner, StateSuits, Issuing
  <1>4. /\ rq' \in [Rqs -> RqRecs] /\ \A s \in Rqs \ {task[i].rq} : rq'[s] = rq[s]
        /\ rq'[task[i].rq].st = "flight" /\ rq'[task[i].rq].ref = rq[task[i].rq].ref
        /\ rq'[task[i].rq].hctx = rq[task[i].rq].hctx /\ rq'[task[i].rq].dev = rq[task[i].rq].dev
    <2>1. rq' = [rq EXCEPT ![task[i].rq].st = "flight"] /\ rq \in [Rqs -> RqRecs]
      BY DEF StartRequest, Typed
    <2> DEFINE r == task[i].rq
    <2>2. r \in Rqs
      BY <1>3
    <2>3. rq' = [rq EXCEPT ![r].st = "flight"]
      BY <2>1
    <2> HIDE DEF r
    <2>4. rq'[r] = [rq[r] EXCEPT !.st = "flight"] /\ rq[r] \in RqRecs /\ \A s \in Rqs \ {r} : rq'[s] = rq[s]
      BY <2>1, <2>2, <2>3
    <2>5. rq'[r] \in RqRecs /\ rq'[r].st = "flight" /\ rq'[r].ref = rq[r].ref /\ rq'[r].hctx = rq[r].hctx /\ rq'[r].dev = rq[r].dev
      BY <2>4 DEF RqRecs
    <2>6. rq' \in [Rqs -> RqRecs]
      BY <2>1, <2>2, <2>3, <2>5
    <2> QED
      BY <1>3, <2>4, <2>5, <2>6 DEF r
  <1>5. i \in Sections /\ task[i].rq \in listed /\ timer.pc # "cancel"
    BY <1>2 DEF Cancelling, Sections
  <1>6. Sections' = Sections
    BY <1>2 DEF Sections
  <1>s. \A x \in Rqs : rq'[x].ref = rq[x].ref
    BY <1>4
  <1>t. Touched /\ Moved
    <2>1. \A x \in Rqs : x = task[i].rq \/ rq'[x] = rq[x]
      BY <1>4
    <2>2. Touched
      BY <1>3, <1>4, <2>1 DEF Touched
    <2>3. Moved
      BY <1>0, <1>2 DEF Moved, Issuing
    <2> QED
      BY <2>2, <2>3
  <1>10. Typed'
    BY <1>0, <1>1, <1>2, <1>4 DEF Typed
  <1>11. Hands'
    BY <1>0, <1>1, <1>2 DEF Hands, Allocating, Tagging, Issuing
  <1>12. TagsKept'
    BY <1>1, <1>t, TouchKeepsTags
  <1>13. OneOwner'
    <2>1. CachedApart' /\ PendingIdle'
      BY <1>1, <1>3, <1>4 DEF OneOwner, CachedApart, PendingIdle, Typed, Cached
    <2>2. IssuedApart'
      BY <1>0, <1>1, <1>2 DEF OneOwner, IssuedApart, Issuing
    <2>3. StateSuits'
      BY <1>0, <1>1, <1>2, <1>3, <1>4 DEF OneOwner, StateSuits, Issuing, Hands
    <2> QED
      BY <2>1, <2>2, <2>3 DEF OneOwner
  <1>14. Refs'
    <2>1. OwnedIs /\ OwnedIs'
      BY OwnedMeans, PTL
    <2>2. \A x \in Rqs : x \in Owned' <=> x \in Owned
      BY <1>0, <1>1, <1>2, <1>3, <1>4, <2>1 DEF OwnedIs, Issuing, Cached
    <2> QED
      BY <1>1, <1>s, <2>2, TouchKeepsRefs
  <1>15. Users'
    BY <1>1, <1>t, TouchKeepsUsers DEF Working
  <1>16. WalksPlaced'
    BY <1>1, PlacedFrame
  <1>17. Cancelling'
    BY <1>0, <1>1, <1>2, <1>3, <1>4, <1>5, <1>6 DEF Cancelling
  <1>18. NotDueYet'
    BY <1>1, <1>2, <1>6 DEF NotDueYet, Sections
  <1>19. Frozen'
    BY <1>1, FrozenFrame
  <1>20. Offline'
    BY <1>1, <1>t, TouchKeepsOffline
  <1> QED
    BY <1>10, <1>11, <1>12, <1>13, <1>14, <1>15, <1>16, <1>17, <1>18, <1>19, <1>20

LEMMA SubmitStep ==
  ASSUME ReqInv, NEW i \in Issuers, NEW answered \in BOOLEAN, Submit(i, answered)
  PROVE  ReqInv'
  <1> USE DEF ReqInv
  <1>0. /\ task \in [Issuers -> TaskRecs] /\ Issuers = Tasks \cup {Worker} /\ Worker \notin Tasks
        /\ \A j \in Issuers : task[j] \in TaskRecs
        /\ None \notin Rqs /\ None \notin Hctxs
    BY Named
  <1>1. UNCHANGED <<setup, bits, waits, wakes, listed, cached, pending, users, depth, killed, freezer, quiesced, cpuhp, walk>>
    BY DEF Submit, tagVars, queueVars, flagVars, timeVars, walkElse, freezeElse, hotplugElse
  <1>2. /\ task[i].pc = "flight"
        /\ task' \in [Issuers -> TaskRecs] /\ (\A j \in Issuers \ {i} : task'[j] = task[j])
        /\ task'[i].pc = "out" /\ task'[i].rq = None /\ task'[i].h = task[i].h
    BY TaskEnds DEF Submit, Ends
  <1>3. /\ task[i].rq \in Rqs /\ rq[task[i].rq].st = "flight" /\ rq[task[i].rq].ref > 0
        /\ \A j \in Issuers \ {i} : task[j].pc \in Issuing => task[j].rq # task[i].rq
    BY <1>2, IssuedFacts DEF OneOwner, StateSuits, Issuing
  <1>4. /\ rq' \in [Rqs -> RqRecs] /\ \A s \in Rqs \ {task[i].rq} : rq'[s] = rq[s]
        /\ rq'[task[i].rq].st = "flight" /\ rq'[task[i].rq].ref = rq[task[i].rq].ref
        /\ rq'[task[i].rq].hctx = rq[task[i].rq].hctx
    <2>1. rq' = [rq EXCEPT ![task[i].rq].dev = answered] /\ rq \in [Rqs -> RqRecs]
      BY DEF Submit, Typed
    <2> DEFINE r == task[i].rq
    <2>2. r \in Rqs
      BY <1>3
    <2>3. rq' = [rq EXCEPT ![r].dev = answered]
      BY <2>1
    <2> HIDE DEF r
    <2>4. rq'[r] = [rq[r] EXCEPT !.dev = answered] /\ rq[r] \in RqRecs /\ \A s \in Rqs \ {r} : rq'[s] = rq[s]
      BY <2>1, <2>2, <2>3
    <2>5. rq'[r] \in RqRecs /\ rq'[r].st = rq[r].st /\ rq'[r].ref = rq[r].ref /\ rq'[r].hctx = rq[r].hctx
      BY <2>4 DEF RqRecs
    <2>6. rq' \in [Rqs -> RqRecs]
      BY <2>1, <2>2, <2>3, <2>5
    <2> QED
      BY <1>3, <2>4, <2>5, <2>6 DEF r
  <1>5. /\ timer' \in Timers /\ timer'.pc = timer.pc /\ timer'.phase = timer.phase /\ timer'.due = timer.due
        /\ timer'.sync = timer.sync \ {i}
    BY DEF Submit, Typed, Timers
  <1>6. Sections' = Sections \ {i}
    BY <1>2 DEF Sections
  <1>7. timer.pc # "cancel"
    BY <1>2 DEF Cancelling, Sections
  <1>s. \A x \in Rqs : rq'[x].ref = rq[x].ref
    BY <1>4
  <1>t. Touched /\ Moved
    <2>1. \A x \in Rqs : x = task[i].rq \/ rq'[x] = rq[x]
      BY <1>4
    <2>2. Touched
      BY <1>3, <1>4, <2>1 DEF Touched
    <2>3. Moved
      BY <1>0, <1>2 DEF Moved, Issuing
    <2> QED
      BY <2>2, <2>3
  <1>10. Typed'
    BY <1>0, <1>1, <1>2, <1>4, <1>5 DEF Typed
  <1>11. Hands'
    BY <1>0, <1>1, <1>2 DEF Hands, Allocating, Tagging, Issuing
  <1>12. TagsKept'
    BY <1>1, <1>t, TouchKeepsTags
  <1>13. OneOwner'
    <2>1. CachedApart' /\ PendingIdle'
      <3>1. \A x \in Rqs : rq'[x].st = rq[x].st
        BY <1>3, <1>4
      <3>2. pending \subseteq Rqs
        BY DEF Typed
      <3> QED
        BY <1>1, <3>1, <3>2, CachedAre DEF OneOwner, CachedApart, PendingIdle
    <2>2. IssuedApart'
      BY <1>0, <1>1, <1>2 DEF OneOwner, IssuedApart, Issuing
    <2>3. StateSuits'
      BY <1>0, <1>1, <1>2, <1>3, <1>4 DEF OneOwner, StateSuits, Issuing, Hands
    <2> QED
      BY <2>1, <2>2, <2>3 DEF OneOwner
  <1>14. Refs'
    <2>1. OwnedIs /\ OwnedIs'
      BY OwnedMeans, PTL
    <2>2. \A x \in Rqs : x \in Owned' <=> x \in Owned
      BY <1>0, <1>1, <1>2, <1>3, <1>4, <2>1 DEF OwnedIs, Issuing, Cached
    <2> QED
      BY <1>1, <1>s, <2>2, TouchKeepsRefs
  <1>15. Users'
    BY <1>1, <1>5, <1>t, TouchKeepsUsers DEF Working
  <1>16. WalksPlaced'
    BY <1>1, <1>5 DEF WalksPlaced, Walked
  <1>17. Cancelling'
    BY <1>0, <1>1, <1>2, <1>3, <1>4, <1>5, <1>6, <1>7 DEF Cancelling
  <1>18. NotDueYet'
    BY <1>1, <1>2, <1>5, <1>6 DEF NotDueYet, Sections
  <1>19. Frozen'
    BY <1>1, FrozenFrame
  <1>20. Offline'
    BY <1>1, <1>t, TouchKeepsOffline
  <1> QED
    BY <1>10, <1>11, <1>12, <1>13, <1>14, <1>15, <1>16, <1>17, <1>18, <1>19, <1>20

LEMMA CompleteStep ==
  ASSUME ReqInv, NEW r \in Rqs, Complete(r)
  PROVE  ReqInv'
  <1> USE DEF ReqInv
  <1>0. /\ task \in [Issuers -> TaskRecs] /\ Issuers = Tasks \cup {Worker} /\ Worker \notin Tasks
        /\ \A j \in Issuers : task[j] \in TaskRecs
        /\ None \notin Rqs /\ None \notin Hctxs
    BY Named
  <1>1. UNCHANGED <<setup, bits, waits, wakes, listed, cached, task, pending, users, depth, killed, freezer, quiesced, cpuhp, timer, walk>>
    BY DEF Complete, tagVars, queueVars, flagVars, timeVars, walkElse, freezeElse, hotplugElse
  <1>2. rq[r].st = "flight" /\ rq[r].dev /\ r \in Owned /\ rq[r].ref > 0
    <2>1. rq[r].st = "flight" /\ rq[r].dev
      BY DEF Complete
    <2>2. r \in Owned
      BY <2>1 DEF Owned
    <2> QED
      BY <2>1, <2>2 DEF Refs, Has, OnWalk
  <1>4. /\ rq' \in [Rqs -> RqRecs] /\ \A s \in Rqs \ {r} : rq'[s] = rq[s]
        /\ rq'[r].st = "complete" /\ rq'[r].ref = rq[r].ref /\ rq'[r].hctx = rq[r].hctx /\ ~rq'[r].dev
    <2>1. rq' = [rq EXCEPT ![r].st = "complete", ![r].dev = FALSE] /\ rq \in [Rqs -> RqRecs]
      BY DEF Complete, Typed
    <2>2. rq'[r] = [rq[r] EXCEPT !.st = "complete", !.dev = FALSE] /\ rq[r] \in RqRecs
      BY <2>1
    <2>3. rq'[r] \in RqRecs /\ rq'[r].st = "complete" /\ rq'[r].ref = rq[r].ref
          /\ rq'[r].hctx = rq[r].hctx /\ ~rq'[r].dev
      BY <2>2 DEF RqRecs
    <2> QED
      BY <2>1, <2>3
  <1>s. \A x \in Rqs : rq'[x].ref = rq[x].ref
    BY <1>4
  <1>t. Touched /\ Moved
    BY <1>1, <1>2, <1>4 DEF Touched, Moved
  <1>10. Typed'
    BY <1>1, <1>4 DEF Typed
  <1>11. Hands'
    BY <1>1, HandsFrame
  <1>12. TagsKept'
    BY <1>1, <1>t, TouchKeepsTags
  <1>13. OneOwner'
    <2>1. CachedApart' /\ PendingIdle' /\ IssuedApart'
      <3>1. \A x \in Rqs : rq[x].st = "idle" => rq'[x].st = "idle"
        BY <1>2, <1>4
      <3>2. pending \subseteq Rqs
        BY DEF Typed
      <3> QED
        BY <1>1, <3>1, <3>2, CachedAre DEF OneOwner, CachedApart, IssuedApart, PendingIdle
    <2>3. StateSuits'
      <3>1. \A i \in Issuers : task[i].pc \in Issuing => task[i].rq \in Rqs /\ task[i].rq # r
        BY <1>2 DEF Hands, OneOwner, StateSuits, Issuing
      <3> QED
        BY <1>0, <1>1, <1>2, <1>4, <3>1 DEF OneOwner, StateSuits, Issuing
    <2> QED
      BY <2>1, <2>3 DEF OneOwner
  <1>14. Refs'
    <2>1. OwnedIs /\ OwnedIs'
      BY OwnedMeans, PTL
    <2>2. \A x \in Rqs : x \in Owned' <=> x \in Owned
      BY <1>0, <1>1, <1>2, <1>4, <2>1 DEF OwnedIs, Issuing, Cached
    <2> QED
      BY <1>1, <1>s, <2>2, TouchKeepsRefs
  <1>15. Users'
    BY <1>1, <1>t, TouchKeepsUsers DEF Working
  <1>16. WalksPlaced'
    BY <1>1, PlacedFrame
  <1>17. Cancelling'
    <2>1. \A x \in Rqs : (rq'[x].st = "flight" => rq[x].st = "flight") /\ (rq'[x].dev => rq[x].dev)
      BY <1>4
    <2> QED
      BY <1>1, <2>1 DEF Cancelling, Sections
  <1>18. NotDueYet'
    BY <1>1, DueFrame
  <1>19. Frozen'
    BY <1>1, FrozenFrame
  <1>20. Offline'
    BY <1>1, <1>t, TouchKeepsOffline
  <1> QED
    BY <1>10, <1>11, <1>12, <1>13, <1>14, <1>15, <1>16, <1>17, <1>18, <1>19, <1>20

LEMMA RequeueStep ==
  ASSUME ReqInv, NEW r \in Rqs, Requeue(r)
  PROVE  ReqInv'
  <1> USE DEF ReqInv
  <1>0. /\ task \in [Issuers -> TaskRecs] /\ Issuers = Tasks \cup {Worker} /\ Worker \notin Tasks
        /\ \A j \in Issuers : task[j] \in TaskRecs
        /\ None \notin Rqs /\ None \notin Hctxs
    BY Named
  <1>1. UNCHANGED <<setup, bits, waits, wakes, listed, cached, task, users, depth, killed, freezer, quiesced, cpuhp, timer, walk>>
    BY DEF Requeue, tagVars, queueVars, flagVars, timeVars, walkElse, freezeElse, hotplugElse
  <1>2. rq[r].st = "complete" /\ r \in Owned /\ rq[r].ref > 0 /\ pending' = pending \cup {r} /\ ~rq[r].dev
    <2>1. rq[r].st = "complete" /\ pending' = pending \cup {r}
      BY DEF Requeue
    <2>2. r \in Owned
      BY <2>1 DEF Owned
    <2> QED
      BY <2>1, <2>2 DEF Refs, Has, OnWalk, OneOwner, StateSuits
  <1>4. /\ rq' \in [Rqs -> RqRecs] /\ \A s \in Rqs \ {r} : rq'[s] = rq[s]
        /\ rq'[r].st = "idle" /\ rq'[r].ref = rq[r].ref /\ rq'[r].hctx = rq[r].hctx /\ ~rq'[r].dev
    <2>1. rq' = [rq EXCEPT ![r].st = "idle", ![r].out = FALSE] /\ rq \in [Rqs -> RqRecs]
      BY DEF Requeue, Typed
    <2>2. rq'[r] = [rq[r] EXCEPT !.st = "idle", !.out = FALSE] /\ rq[r] \in RqRecs
      BY <2>1
    <2>3. rq'[r] \in RqRecs /\ rq'[r].st = "idle" /\ rq'[r].ref = rq[r].ref
          /\ rq'[r].hctx = rq[r].hctx /\ rq'[r].dev = rq[r].dev
      BY <2>2 DEF RqRecs
    <2> QED
      BY <1>2, <2>1, <2>3
  <1>5. ~Cached(r) /\ \A i \in Issuers : task[i].pc \in Issuing => task[i].rq \in Rqs /\ task[i].rq # r
    BY <1>2 DEF Cached, Hands, OneOwner, CachedApart, StateSuits, Issuing
  <1>s. \A x \in Rqs : rq'[x].ref = rq[x].ref
    BY <1>4
  <1>t. Touched /\ Moved
    BY <1>1, <1>2, <1>4 DEF Touched, Moved
  <1>10. Typed'
    BY <1>1, <1>2, <1>4 DEF Typed
  <1>11. Hands'
    BY <1>1, HandsFrame
  <1>12. TagsKept'
    BY <1>1, <1>t, TouchKeepsTags
  <1>13. OneOwner'
    <2>1. CachedApart' /\ PendingIdle' /\ IssuedApart'
      <3>1. \A x \in Rqs : (rq[x].st = "idle" => rq'[x].st = "idle")
        BY <1>2, <1>4
      <3>2. pending \subseteq Rqs
        BY DEF Typed
      <3> QED
        BY <1>1, <1>2, <1>4, <1>5, <3>1, <3>2, CachedAre DEF OneOwner, CachedApart, IssuedApart, PendingIdle, Cached
    <2>3. StateSuits'
      BY <1>0, <1>1, <1>2, <1>4, <1>5 DEF OneOwner, StateSuits, Issuing
    <2> QED
      BY <2>1, <2>3 DEF OneOwner
  <1>14. Refs'
    <2>1. OwnedIs /\ OwnedIs'
      BY OwnedMeans, PTL
    <2>2. \A x \in Rqs : x \in Owned' <=> x \in Owned
      BY <1>0, <1>1, <1>2, <1>4, <2>1 DEF OwnedIs, Issuing, Cached
    <2> QED
      BY <1>1, <1>s, <2>2, TouchKeepsRefs
  <1>15. Users'
    BY <1>1, <1>t, TouchKeepsUsers DEF Working
  <1>16. WalksPlaced'
    BY <1>1, PlacedFrame
  <1>17. Cancelling'
    <2>1. \A x \in Rqs : (rq'[x].st = "flight" => rq[x].st = "flight") /\ (rq'[x].dev => rq[x].dev)
      BY <1>4
    <2> QED
      BY <1>1, <2>1 DEF Cancelling, Sections
  <1>18. NotDueYet'
    BY <1>1, DueFrame
  <1>19. Frozen'
    BY <1>1, FrozenFrame
  <1>20. Offline'
    BY <1>1, <1>t, TouchKeepsOffline
  <1> QED
    BY <1>10, <1>11, <1>12, <1>13, <1>14, <1>15, <1>16, <1>17, <1>18, <1>19, <1>20

LEMMA PassDeadlineStep ==
  ASSUME ReqInv, NEW r \in Rqs, PassDeadline(r)
  PROVE  ReqInv'
  <1> USE DEF ReqInv
  <1>0. /\ task \in [Issuers -> TaskRecs] /\ Issuers = Tasks \cup {Worker} /\ Worker \notin Tasks
        /\ \A j \in Issuers : task[j] \in TaskRecs
        /\ None \notin Rqs /\ None \notin Hctxs
    BY Named
  <1>1. UNCHANGED <<setup, bits, waits, wakes, listed, cached, task, pending, users, depth, killed, freezer, quiesced, cpuhp, timer, walk>>
    BY DEF PassDeadline, tagVars, queueVars, flagVars, timeVars, walkElse, freezeElse, hotplugElse
  <1>2. rq[r].st = "flight" /\ r \in Owned /\ rq[r].ref > 0
    <2>1. rq[r].st = "flight"
      BY DEF PassDeadline
    <2>2. r \in Owned
      BY <2>1 DEF Owned
    <2> QED
      BY <2>1, <2>2 DEF Refs, Has, OnWalk
  <1>4. /\ rq' \in [Rqs -> RqRecs] /\ \A s \in Rqs \ {r} : rq'[s] = rq[s]
        /\ rq'[r].st = rq[r].st /\ rq'[r].ref = rq[r].ref /\ rq'[r].hctx = rq[r].hctx /\ rq'[r].dev = rq[r].dev
    <2>1. rq' = [rq EXCEPT ![r].late = TRUE] /\ rq \in [Rqs -> RqRecs]
      BY DEF PassDeadline, Typed
    <2> QED
      BY <2>1 DEF RqRecs
  <1>5. \A x \in Rqs : rq'[x].st = rq[x].st /\ rq'[x].dev = rq[x].dev
    BY <1>4
  <1>s. \A x \in Rqs : rq'[x].ref = rq[x].ref
    BY <1>4
  <1>t. Touched /\ Moved
    BY <1>1, <1>2, <1>4 DEF Touched, Moved
  <1>10. Typed'
    BY <1>1, <1>4 DEF Typed
  <1>11. Hands'
    BY <1>1, HandsFrame
  <1>12. TagsKept'
    BY <1>1, <1>t, TouchKeepsTags
  <1>13. OneOwner'
    BY <1>1, <1>5, SameOwners
  <1>14. Refs'
    <2>1. OwnedIs /\ OwnedIs'
      BY OwnedMeans, PTL
    <2>2. \A x \in Rqs : x \in Owned' <=> x \in Owned
      BY <1>0, <1>1, <1>5, <2>1 DEF OwnedIs, Issuing, Cached
    <2> QED
      BY <1>1, <1>s, <2>2, TouchKeepsRefs
  <1>15. Users'
    BY <1>1, <1>t, TouchKeepsUsers DEF Working
  <1>16. WalksPlaced'
    BY <1>1, PlacedFrame
  <1>17. Cancelling'
    BY <1>1, <1>5 DEF Cancelling, Sections
  <1>18. NotDueYet'
    BY <1>1, DueFrame
  <1>19. Frozen'
    BY <1>1, FrozenFrame
  <1>20. Offline'
    BY <1>1, <1>t, TouchKeepsOffline
  <1> QED
    BY <1>10, <1>11, <1>12, <1>13, <1>14, <1>15, <1>16, <1>17, <1>18, <1>19, <1>20

LEMMA EndRequestsStep ==
  ASSUME ReqInv, NEW rs \in SUBSET {r \in Rqs : rq[r].st = "complete"}, rs # {}, EndRequests(rs)
  PROVE  ReqInv'
  <1> USE DEF ReqInv
  <1>0. /\ task \in [Issuers -> TaskRecs] /\ Issuers = Tasks \cup {Worker} /\ Worker \notin Tasks
        /\ \A j \in Issuers : task[j] \in TaskRecs
        /\ None \notin Rqs /\ None \notin Hctxs
    BY Named
  <1>1. UNCHANGED <<setup, waits, listed, cached, task, pending, users, depth, killed, freezer, quiesced, cpuhp, timer, walk>>
    BY DEF EndRequests, tagVars, queueVars, flagVars, timeVars, walkElse, freezeElse, hotplugElse
  <1>2. /\ rs \in SUBSET Rqs /\ \A r \in rs : rq[r].st = "complete" /\ r \in Owned /\ rq[r].ref > 0 /\ ~rq[r].dev
    <2>1. rs \in SUBSET Rqs /\ \A r \in rs : rq[r].st = "complete" /\ r \in Owned
      BY DEF Owned
    <2> QED
      BY <2>1 DEF Refs, Has, OnWalk, OneOwner, StateSuits
  <1>3. \A r, s \in rs : r[1] = s[1]
    BY <1>2 DEF EndRequests, TagsKept, HeldTags
  <1>7. PutRefs(rs, [s \in rs |-> "idle"]) /\ [s \in rs |-> "idle"] \in [rs -> {"idle", "flight", "complete"}]
    BY DEF EndRequests, FreeOwned
  <1>9. Released(rs) /\ \A s \in rs : rq'[s].st = "idle" /\ ~rq'[s].dev
    <2>1. Released(rs) /\ \A s \in rs \ Ending(rs) : rq'[s].st = [x \in rs |-> "idle"][s]
      BY <1>2, <1>7, PutEffect
    <2>2. \A s \in rs \ Ending(rs) : rq'[s].st = "idle" /\ rq'[s].dev = rq[s].dev
      BY <2>1 DEF Released
    <2>3. \A s \in Ending(rs) : rq'[s].st = "idle" /\ ~rq'[s].dev
      BY <2>1 DEF Released, Free
    <2> QED
      BY <1>2, <2>1, <2>2, <2>3
  <1>a. \A s \in Rqs \ rs : rq'[s] = rq[s]
    BY <1>9 DEF Released
  <1>b. wakes' \in [Cqs -> Nat] /\ Cardinality(Held') + Cardinality(Owed') = Cardinality(Held) + Cardinality(Owed)
    BY <1>2, <1>3, <1>7, <1>9, PutCounts
  <1>5. \A r \in rs : /\ r \notin pending /\ ~Cached(r)
                      /\ \A i \in Issuers : task[i].pc \in Issuing => task[i].rq # r
    BY <1>2 DEF Cached, OneOwner, CachedApart, PendingIdle, StateSuits, Issuing
  <1>10. Typed'
    BY <1>1, <1>9, <1>b DEF Typed, Released
  <1>11. Hands'
    BY <1>1, HandsFrame
  <1>12. TagsKept'
    BY <1>1, <1>9, ReleaseKeepsTags
  <1>13. OneOwner'
    <2>1. CachedApart' /\ PendingIdle' /\ IssuedApart'
      <3>1. \A x \in Rqs : rq[x].st = "idle" => rq'[x].st = "idle"
        BY <1>9, <1>a
      <3>2. pending \subseteq Rqs
        BY DEF Typed
      <3> QED
        BY <1>1, <3>1, <3>2, CachedAre DEF OneOwner, CachedApart, IssuedApart, PendingIdle
    <2>3. StateSuits'
      <3>1. \A i \in Issuers : task[i].pc \in Issuing => task[i].rq \in Rqs \ rs
        BY <1>5 DEF Hands
      <3> QED
        BY <1>0, <1>1, <1>2, <1>9, <1>a, <3>1 DEF OneOwner, StateSuits, Issuing
    <2> QED
      BY <2>1, <2>3 DEF OneOwner
  <1>14. Refs'
    <2>1. OwnedIs /\ OwnedIs'
      BY OwnedMeans, PTL
    <2>2. \A r \in rs : r \in Owned /\ r \notin Owned'
      BY <1>1, <1>2, <1>5, <1>9, <2>1 DEF OwnedIs, Cached
    <2>3. \A r \in Rqs \ rs : r \in Owned <=> r \in Owned'
      BY <1>1, <1>a, <2>1 DEF OwnedIs
    <2> QED
      BY <1>1, <1>9, <2>2, <2>3, OwnersPut
  <1>15. Users'
    BY <1>1, <1>b, <1>10, ReleaseKeepsUsers DEF Working
  <1>16. WalksPlaced'
    BY <1>1, PlacedFrame
  <1>17. Cancelling'
    <2>1. \A x \in Rqs : (rq'[x].st = "flight" => rq[x].st = "flight") /\ (rq'[x].dev => rq[x].dev)
      BY <1>9, <1>a
    <2> QED
      BY <1>1, <2>1 DEF Cancelling, Sections
  <1>18. NotDueYet'
    BY <1>1, DueFrame
  <1>19. Frozen'
    BY <1>1, FrozenFrame
  <1>20. Offline'
    BY <1>1, <1>9, ReleaseKeepsOffline
  <1> QED
    BY <1>10, <1>11, <1>12, <1>13, <1>14, <1>15, <1>16, <1>17, <1>18, <1>19, <1>20

LEMMA FindNextStep ==
  ASSUME ReqInv, NEW w \in {"queue", "set"}, FindNext(w)
  PROVE  ReqInv'
  <1> USE DEF ReqInv
  <1>0. /\ task \in [Issuers -> TaskRecs] /\ Issuers = Tasks \cup {Worker} /\ Worker \notin Tasks
        /\ \A j \in Issuers : task[j] \in TaskRecs
        /\ None \notin Rqs /\ None \notin Hctxs
    BY Named
  <1>1. UNCHANGED <<setup, bits, waits, wakes, listed, cached, task, pending, users, depth, killed, freezer, quiesced, cpuhp, timer>>
    BY DEF FindNext, tagVars, queueVars, flagVars, timeVars, walkElse, freezeElse, hotplugElse
  <1>p. PICK v \in walk[w].left :
          /\ walk' = [walk EXCEPT ![w] = [left |-> walk[w].left \ {v}, h |-> v[1],
                                          cur |-> IF There(v[2]) THEN v[2] ELSE None]]
          /\ IF There(v[2]) THEN GetRef(v[2]) ELSE UNCHANGED rq
    BY DEF FindNext
  <1>2. /\ v \in Hctxs \X Rqs /\ v[2] \in Rqs /\ v[1] \in Hctxs /\ walk[w] \in WalkRecs /\ walk[w].left \subseteq Hctxs \X Rqs
        /\ walk[w].cur = None
    BY DEF Typed, WalkRecs, FindNext
  <1>3. /\ walk' \in [{"queue", "set"} -> WalkRecs] /\ \A u \in {"queue", "set"} \ {w} : walk'[u] = walk[u]
        /\ walk'[w].left = walk[w].left \ {v}
        /\ There(v[2]) => walk'[w].cur = v[2]
        /\ ~There(v[2]) => walk'[w].cur = None
    <2> DEFINE new == [left |-> walk[w].left \ {v}, h |-> v[1], cur |-> IF There(v[2]) THEN v[2] ELSE None]
    <2>1. new \in WalkRecs
      BY <1>2 DEF WalkRecs
    <2>2. /\ new.left = walk[w].left \ {v}
          /\ There(v[2]) => new.cur = v[2]
          /\ ~There(v[2]) => new.cur = None
      OBVIOUS
    <2>3. walk' = [walk EXCEPT ![w] = new]
      BY <1>p
    <2> HIDE DEF new
    <2> QED
      BY <2>1, <2>2, <2>3 DEF Typed
  <1>4. /\ rq' \in [Rqs -> RqRecs] /\ \A s \in Rqs \ {v[2]} : rq'[s] = rq[s]
        /\ \A s \in Rqs : rq'[s].st = rq[s].st /\ rq'[s].dev = rq[s].dev /\ rq'[s].hctx = rq[s].hctx
        /\ There(v[2]) => rq'[v[2]].ref = rq[v[2]].ref + 1 /\ rq[v[2]].ref > 0
        /\ ~There(v[2]) => rq' = rq
    <2>1. rq \in [Rqs -> RqRecs] /\ \A s \in Rqs : rq[s].ref \in Nat
      BY DEF Typed, RqRecs
    <2>2. CASE There(v[2])
      <3>1. rq' = [rq EXCEPT ![v[2]].ref = @ + 1] /\ rq[v[2]].ref > 0
        BY <1>p, <2>2 DEF GetRef, There
      <3>2. rq'[v[2]] = [rq[v[2]] EXCEPT !.ref = @ + 1] /\ rq[v[2]] \in RqRecs
        BY <1>2, <2>1, <3>1
      <3>3. /\ rq'[v[2]] \in RqRecs /\ rq'[v[2]].ref = rq[v[2]].ref + 1 /\ rq'[v[2]].st = rq[v[2]].st
            /\ rq'[v[2]].dev = rq[v[2]].dev /\ rq'[v[2]].hctx = rq[v[2]].hctx
        BY <3>2 DEF RqRecs
      <3> QED
        BY <1>2, <2>1, <2>2, <3>1, <3>3
    <2>3. CASE ~There(v[2])
      BY <1>p, <2>1, <2>3
    <2> QED
      BY <2>2, <2>3
  <1>5. \A x \in Rqs : rq[x].ref > 0 <=> rq'[x].ref > 0
    <2>1. \A x \in Rqs : rq[x].ref \in Nat
      BY DEF Typed, RqRecs
    <2> QED
      BY <1>2, <1>4, <2>1
  <1>t. Touched /\ Moved
    BY <1>1, <1>4, <1>5 DEF Touched, Moved
  <1>10. Typed'
    BY <1>1, <1>3, <1>4 DEF Typed
  <1>11. Hands'
    BY <1>1, HandsFrame
  <1>12. TagsKept'
    BY <1>1, <1>t, TouchKeepsTags
  <1>13. OneOwner'
    BY <1>1, <1>4, SameOwners
  <1>14. Refs'
    <2>1. OwnedIs /\ OwnedIs'
      BY OwnedMeans, PTL
    <2>2. \A x \in Rqs : x \in Owned' <=> x \in Owned
      BY <1>1, <1>4, <2>1 DEF OwnedIs
    <2>3. CASE ~There(v[2])
      <3>1. \A u \in {"queue", "set"} : walk'[u].cur = walk[u].cur
        BY <1>2, <1>3, <2>3
      <3> QED
        BY <1>4, <2>2, <2>3, <3>1 DEF Refs, OnWalk, Has
    <2>4. CASE There(v[2])
      <3>1. /\ OnWalk(w, v[2]) = 0 /\ OnWalk(w, v[2])' = 1
            /\ \A x \in Rqs \ {v[2]} : OnWalk(w, x) = 0 /\ OnWalk(w, x)' = 0
        BY <1>0, <1>2, <1>3, <2>4 DEF OnWalk
      <3>2. \A x \in Rqs : \A u \in {"queue", "set"} \ {w} : OnWalk(u, x)' = OnWalk(u, x)
        BY <1>3 DEF OnWalk
      <3>3. \A x \in Rqs : Has(x)' = Has(x) /\ Has(x) \in {0, 1} /\ \A u \in {"queue", "set"} : OnWalk(u, x) \in {0, 1}
        BY <2>2 DEF Has, OnWalk
      <3>4. w = "queue" \/ w = "set"
        OBVIOUS
      <3> QED
        BY <1>2, <1>4, <2>4, <3>1, <3>2, <3>3, <3>4 DEF Refs
    <2> QED
      BY <2>3, <2>4
  <1>15. Users'
    BY <1>1, <1>t, TouchKeepsUsers DEF Working
  <1>16. WalksPlaced'
    <2>1. ~Walked(w) /\ walk[w].cur \notin Rqs /\ v \in walk[w].left
      BY <1>0, <1>2 DEF Walked
    <2> QED
      BY <1>1, <1>3, <2>1 DEF WalksPlaced, Walked
  <1>17. Cancelling'
    <2>1. \A x \in Rqs : rq'[x].st = "flight" => x \in listed /\ x \in bits /\ rq[x].ref > 0 /\ rq[x].st = "flight"
      <3>1. \A x \in Rqs : rq[x].st = "flight" => rq[x].ref > 0
        BY DEF Refs, Has, OnWalk, Owned
      <3> QED
        BY <1>4, <3>1 DEF Cancelling, TagsKept, HeldTags
    <2>4. \A x \in Rqs : rq'[x].dev = rq[x].dev
      BY <1>4
    <2>2. \A x \in Rqs : rq'[x].st = "flight" /\ walk["set"].cur = x => walk'["set"].cur = x
      BY <1>0, <1>2, <1>3
    <2>3. \A x \in Rqs : \A u \in walk["set"].left : rq'[x].st = "flight" /\ u[2] = x
            => walk'["set"].cur = x \/ u \in walk'["set"].left
      BY <1>3, <2>1 DEF There
    <2> QED
      BY <1>1, <2>1, <2>2, <2>3, <2>4 DEF Cancelling, Sections
  <1>18. NotDueYet'
    BY <1>1, DueFrame
  <1>19. Frozen'
    BY <1>1, FrozenFrame
  <1>20. Offline'
    BY <1>1, <1>t, TouchKeepsOffline
  <1> QED
    BY <1>10, <1>11, <1>12, <1>13, <1>14, <1>15, <1>16, <1>17, <1>18, <1>19, <1>20

-----------------------------------------------------------------------------
(* Walks. *)
LEMMA WalkSets == QueueWalk \subseteq Hctxs \X Rqs /\ SetWalk \subseteq Hctxs \X Rqs
  BY DEF QueueWalk, SetWalk

LEMMA RestType ==
  ASSUME Typed, NEW w \in {"queue", "set"}, NEW left \in SUBSET (Hctxs \X Rqs), Rest(w, left)
  PROVE  /\ walk' \in [{"queue", "set"} -> WalkRecs] /\ \A v \in {"queue", "set"} \ {w} : walk'[v] = walk[v]
         /\ walk'[w].left = left /\ walk'[w].cur = None
  <1> DEFINE new == [left |-> left, cur |-> None, h |-> None]
  <1>1. new \in WalkRecs /\ new.left = left /\ new.cur = None
    BY DEF WalkRecs
  <1>2. walk' = [walk EXCEPT ![w] = new]
    BY DEF Rest
  <1> HIDE DEF new
  <1> QED
    BY <1>1, <1>2 DEF Typed

LEMMA WalkHolds ==
  ASSUME ReqInv, NEW w \in {"queue", "set"}, walk[w].cur \in Rqs
  PROVE  rq[walk[w].cur].ref > 0 /\ (rq[walk[w].cur].ref = 1 => walk[w].cur \notin Owned)
  BY DEF ReqInv, Refs, OnWalk, Has

LEMMA PutBack ==
  ASSUME ReqInv, NEW w \in {"queue", "set"}, walk[w].cur \in Rqs, PutWalked(w),
         NEW left \in SUBSET (Hctxs \X Rqs), Rest(w, left), UNCHANGED <<task, cached, pending>>
  PROVE  /\ Released({walk[w].cur}) /\ wakes' \in [Cqs -> Nat]
         /\ Cardinality(Held') + Cardinality(Owed') = Cardinality(Held) + Cardinality(Owed)
         /\ \A x \in Rqs : rq'[x].st = rq[x].st /\ rq'[x].dev = rq[x].dev
         /\ walk' \in [{"queue", "set"} -> WalkRecs] /\ \A v \in {"queue", "set"} \ {w} : walk'[v] = walk[v]
         /\ walk'[w].left = left /\ walk'[w].cur = None
         /\ Refs'
  <1> USE DEF ReqInv
  <1> DEFINE r == walk[w].cur
             st == [s \in {r} |-> rq[r].st]
  <1>1. r \in Rqs /\ rq[r].ref > 0 /\ (rq[r].ref = 1 => r \notin Owned)
    BY WalkHolds
  <1>2. st \in [{r} -> {"idle", "flight", "complete"}] /\ PutRefs({r}, st) /\ st[r] = rq[r].st
    BY <1>1 DEF PutWalked, Typed, RqRecs
  <1> HIDE DEF r, st
  <1>3. Released({r}) /\ \A s \in {r} \ Ending({r}) : rq'[s].st = st[s]
    BY <1>1, <1>2, PutEffect
  <1>4. wakes' \in [Cqs -> Nat] /\ Cardinality(Held') + Cardinality(Owed') = Cardinality(Held) + Cardinality(Owed)
    BY <1>1, <1>2, <1>3, PutCounts
  <1>5. rq'[r].st = rq[r].st /\ rq'[r].dev = rq[r].dev
    <2>1. CASE r \in Ending({r})
      <3>1. rq[r].st = "idle"
        BY <1>1, <2>1 DEF Ending, Owned, Typed, RqRecs
      <3>2. ~rq[r].dev /\ rq[r].dev \in BOOLEAN
        BY <1>1, <3>1 DEF OneOwner, StateSuits, Typed, RqRecs
      <3>3. rq'[r].st = "idle" /\ rq'[r].dev = FALSE
        BY <1>3, <2>1 DEF Released, Free
      <3>4. rq[r].dev = FALSE
        BY Zenon, <3>2
      <3> QED
        BY <3>1, <3>3, <3>4
    <2>2. CASE r \notin Ending({r})
      BY <1>2, <1>3, <2>2 DEF Released
    <2> QED
      BY <2>1, <2>2
  <1>6. \A x \in Rqs : rq'[x].st = rq[x].st /\ rq'[x].dev = rq[x].dev
    BY <1>3, <1>5 DEF Released
  <1>7. /\ walk' \in [{"queue", "set"} -> WalkRecs] /\ \A v \in {"queue", "set"} \ {w} : walk'[v] = walk[v]
        /\ walk'[w].left = left /\ walk'[w].cur = None
    BY RestType
  <1>8. Refs'
    <2>1. OwnedIs /\ OwnedIs'
      BY OwnedMeans, PTL
    <2>2. \A x \in Rqs : x \in Owned <=> x \in Owned'
      BY <1>6, <2>1 DEF OwnedIs
    <2> QED
      BY <1>1, <1>3, <1>7, <2>2, WalkPut DEF r
  <1> QED
    BY <1>3, <1>4, <1>6, <1>7, <1>8 DEF r

LEMMA Placed ==
  ASSUME Typed
  PROVE  /\ timer.pc \in {"idle", "walk", "sync", "call", "drain", "cancel", "put"}
         /\ timer.phase \in {"check", "handle"} /\ timer.due \in SUBSET Rqs /\ timer \in Timers
         /\ \A w \in {"queue", "set"} : walk[w] \in WalkRecs /\ walk[w].left \in SUBSET (Hctxs \X Rqs) /\ walk[w].cur \in Rqs \cup {None}
  BY DEF Typed, Timers, WalkRecs

LEMMA AtRestType ==
  AtRest \in Timers /\ AtRest.pc = "idle" /\ AtRest.phase = "check"
  BY DEF AtRest, Timers

WorkStarts ==
  /\ timer.pc = "idle" /\ MayWork /\ users' = users + 1
  /\ timer' = [AtRest EXCEPT !.pc = "walk", !.due = {r \in Rqs : rq[r].late}]
  /\ Rest("queue", QueueWalk)
  /\ UNCHANGED <<setup, bits, waits, wakes, listed, rq, cached, task, pending, depth, killed, freezer,
                 quiesced, cpuhp>>

Same == UNCHANGED <<setup, bits, waits, wakes, listed, rq, cached, task, pending, users, depth, killed,
                    freezer, quiesced, cpuhp, timer, walk>>

LEMMA SameKeeps == ReqInv /\ Same => ReqInv'
  <1> SUFFICES ASSUME ReqInv, Same PROVE ReqInv'
    OBVIOUS
  <1> USE DEF ReqInv, Same
  <1>1. Typed'
    BY DEF Typed
  <1>2. Hands' /\ TagsKept' /\ OneOwner'
    BY HandsFrame, TagsFrame, OwnerFrame
  <1>3. Refs' /\ Users' /\ WalksPlaced' /\ Cancelling'
    BY RefsFrame, UsersFrame, PlacedFrame, CancelFrame
  <1>4. NotDueYet' /\ Frozen' /\ Offline'
    BY DueFrame, FrozenFrame, OfflineFrame
  <1> QED
    BY <1>1, <1>2, <1>3, <1>4

LEMMA WorkStartsStep ==
  ASSUME ReqInv, WorkStarts
  PROVE  ReqInv'
  <1> USE DEF ReqInv
  <1>0. /\ task \in [Issuers -> TaskRecs] /\ Issuers = Tasks \cup {Worker} /\ Worker \notin Tasks
        /\ \A j \in Issuers : task[j] \in TaskRecs
        /\ None \notin Rqs /\ None \notin Hctxs
    BY Named
  <1>1. UNCHANGED <<setup, bits, waits, wakes, listed, rq, cached, task, pending, depth, killed, freezer, quiesced, cpuhp>>
    BY DEF WorkStarts, tagVars, queueVars, flagVars, timeVars, walkElse, freezeElse, hotplugElse
  <1>2. /\ timer.pc = "idle" /\ ~(killed /\ users = 0) /\ users' = users + 1
        /\ timer' \in Timers /\ timer'.pc = "walk" /\ timer'.phase = "check"
        /\ walk' \in [{"queue", "set"} -> WalkRecs] /\ walk'["set"] = walk["set"] /\ Walked("set") /\ Walked("queue")
        /\ \A w \in {"queue", "set"} : walk'[w].cur = walk[w].cur
    <2>1. timer.pc = "idle" /\ ~(killed /\ users = 0) /\ users' = users + 1 /\ Rest("queue", QueueWalk)
      BY DEF WorkStarts, MayWork
    <2>2. Walked("queue") /\ Walked("set")
      BY <2>1 DEF WalksPlaced
    <2>3. /\ walk' \in [{"queue", "set"} -> WalkRecs] /\ walk'["set"] = walk["set"] /\ walk'["queue"].cur = None
      BY <2>1, RestType, WalkSets
    <2>4. timer' = [AtRest EXCEPT !.pc = "walk", !.due = {r \in Rqs : rq[r].late}]
      BY DEF WorkStarts
    <2>5. timer' \in Timers /\ timer'.pc = "walk" /\ timer'.phase = "check"
      BY <2>4 DEF AtRest, Timers
    <2> QED
      BY <2>1, <2>2, <2>3, <2>5 DEF Walked
  <1>10. Typed'
    BY <1>1, <1>2 DEF Typed
  <1>11. Hands'
    BY <1>1, HandsFrame
  <1>12. TagsKept'
    BY <1>1, TagsFrame
  <1>13. OneOwner'
    BY <1>1, OwnerFrame
  <1>14. Refs'
    <2>1. \A w \in {"queue", "set"} : walk'[w].cur = walk[w].cur
      BY <1>2
    <2>2. UNCHANGED Owned
      BY <1>1 DEF Owned
    <2> QED
      BY <1>1, <2>1, <2>2 DEF Refs, OnWalk, Has
  <1>15. Users'
    <2>1. UNCHANGED <<Allocating, Held, Owed, Draining>>
      BY <1>1 DEF Allocating, Held, Owed, Draining
    <2> QED
      BY <1>1, <1>2, <2>1, Finite DEF Users, Working
  <1>16. WalksPlaced'
    BY <1>0, <1>1, <1>2 DEF WalksPlaced, Walked
  <1>17. Cancelling'
    BY <1>0, <1>1, <1>2 DEF Cancelling, Sections
  <1>18. NotDueYet'
    BY <1>0, <1>1, <1>2 DEF NotDueYet, Sections
  <1>19. Frozen'
    BY <1>1, <1>2 DEF Frozen, Freezing
  <1>20. Offline'
    BY <1>1, OfflineFrame
  <1> QED
    BY <1>10, <1>11, <1>12, <1>13, <1>14, <1>15, <1>16, <1>17, <1>18, <1>19, <1>20

LEMMA TimeoutWorkStep ==
  ASSUME ReqInv, TimeoutWork
  PROVE  ReqInv'
  <1>1. CASE MayWork
    <2>1. WorkStarts
      BY <1>1 DEF TimeoutWork, WorkStarts, tagVars, flagVars
    <2> QED
      BY <2>1, WorkStartsStep
  <1>2. CASE ~MayWork
    BY <1>2, SameKeeps DEF TimeoutWork, Same, tagVars, flagVars
  <1> QED
    BY <1>1, <1>2

LEMMA LookAtStep ==
  ASSUME ReqInv, LookAt
  PROVE  ReqInv'
  <1> USE DEF ReqInv
  <1>0. /\ task \in [Issuers -> TaskRecs] /\ Issuers = Tasks \cup {Worker} /\ Worker \notin Tasks
        /\ \A j \in Issuers : task[j] \in TaskRecs
        /\ None \notin Rqs /\ None \notin Hctxs
    BY Named
  <1>1. UNCHANGED <<setup, waits, listed, cached, task, pending, users, depth, killed, freezer, quiesced, cpuhp>>
    BY DEF LookAt, tagVars, queueVars, flagVars, timeVars, walkElse, freezeElse, hotplugElse
  <1>2. /\ walk["queue"].cur \in Rqs /\ PutWalked("queue")
        /\ timer' \in Timers /\ timer'.phase = timer.phase /\ timer'.due = timer.due /\ timer'.sync = timer.sync
        /\ timer.pc \in {"walk", "put"} /\ timer'.pc = "walk"
    BY Placed DEF LookAt, Timers
  <1>q. PICK left \in SUBSET (Hctxs \X Rqs) : Rest("queue", left)
    <2> DEFINE left == walk["queue"].left
             kept == IF Expired(walk["queue"].cur) /\ timer.phase = "check" THEN {v \in left : v[1] # walk["queue"].h} ELSE left
    <2>1. kept \in SUBSET (Hctxs \X Rqs)
      BY Placed
    <2>2. Rest("queue", kept)
      BY DEF LookAt
    <2> QED
      BY <2>1, <2>2
  <1>3. /\ Released({walk["queue"].cur}) /\ wakes' \in [Cqs -> Nat]
        /\ Cardinality(Held') + Cardinality(Owed') = Cardinality(Held) + Cardinality(Owed)
        /\ \A x \in Rqs : rq'[x].st = rq[x].st /\ rq'[x].dev = rq[x].dev
        /\ walk' \in [{"queue", "set"} -> WalkRecs] /\ walk'["set"] = walk["set"]
        /\ walk'["queue"].cur = None /\ Refs'
    BY <1>1, <1>2, <1>q, PutBack
  <1>10. Typed'
    BY <1>1, <1>2, <1>3 DEF Typed, Released
  <1>11. Hands'
    BY <1>1, HandsFrame
  <1>12. TagsKept'
    BY <1>1, <1>3, ReleaseKeepsTags
  <1>13. OneOwner'
    BY <1>1, <1>3, SameOwners
  <1>14. Refs'
    BY <1>3
  <1>15. Users'
    <2>1. Working' = Working
      BY <1>2 DEF Working
    <2> QED
      BY <1>1, <1>3, <1>10, <2>1, ReleaseKeepsUsers
  <1>16. WalksPlaced'
    BY <1>0, <1>1, <1>2, <1>3 DEF WalksPlaced, Walked
  <1>17. Cancelling'
    BY <1>1, <1>2, <1>3 DEF Cancelling, Sections
  <1>18. NotDueYet'
    BY <1>1, <1>2 DEF NotDueYet, Sections
  <1>19. Frozen'
    BY <1>1, FrozenFrame
  <1>20. Offline'
    BY <1>1, <1>3, ReleaseKeepsOffline
  <1> QED
    BY <1>10, <1>11, <1>12, <1>13, <1>14, <1>15, <1>16, <1>17, <1>18, <1>19, <1>20

LEMMA PutHandledStep ==
  ASSUME ReqInv, PutHandled
  PROVE  ReqInv'
  <1> USE DEF ReqInv
  <1>0. /\ task \in [Issuers -> TaskRecs] /\ Issuers = Tasks \cup {Worker} /\ Worker \notin Tasks
        /\ \A j \in Issuers : task[j] \in TaskRecs
        /\ None \notin Rqs /\ None \notin Hctxs
    BY Named
  <1>1. UNCHANGED <<setup, waits, listed, cached, task, pending, users, depth, killed, freezer, quiesced, cpuhp>>
    BY DEF PutHandled, tagVars, queueVars, flagVars, timeVars, walkElse, freezeElse, hotplugElse
  <1>2. /\ walk["queue"].cur \in Rqs /\ PutWalked("queue")
        /\ timer' \in Timers /\ timer'.phase = timer.phase /\ timer'.due = timer.due /\ timer'.sync = timer.sync
        /\ timer.pc \in {"walk", "put"} /\ timer'.pc = "walk"
    BY Placed DEF PutHandled, WalksPlaced, Timers
  <1>q. PICK left \in SUBSET (Hctxs \X Rqs) : Rest("queue", left)
    BY Placed DEF PutHandled
  <1>3. /\ Released({walk["queue"].cur}) /\ wakes' \in [Cqs -> Nat]
        /\ Cardinality(Held') + Cardinality(Owed') = Cardinality(Held) + Cardinality(Owed)
        /\ \A x \in Rqs : rq'[x].st = rq[x].st /\ rq'[x].dev = rq[x].dev
        /\ walk' \in [{"queue", "set"} -> WalkRecs] /\ walk'["set"] = walk["set"]
        /\ walk'["queue"].cur = None /\ Refs'
    BY <1>1, <1>2, <1>q, PutBack
  <1>10. Typed'
    BY <1>1, <1>2, <1>3 DEF Typed, Released
  <1>11. Hands'
    BY <1>1, HandsFrame
  <1>12. TagsKept'
    BY <1>1, <1>3, ReleaseKeepsTags
  <1>13. OneOwner'
    BY <1>1, <1>3, SameOwners
  <1>14. Refs'
    BY <1>3
  <1>15. Users'
    <2>1. Working' = Working
      BY <1>2 DEF Working
    <2> QED
      BY <1>1, <1>3, <1>10, <2>1, ReleaseKeepsUsers
  <1>16. WalksPlaced'
    BY <1>0, <1>1, <1>2, <1>3 DEF WalksPlaced, Walked
  <1>17. Cancelling'
    BY <1>1, <1>2, <1>3 DEF Cancelling, Sections
  <1>18. NotDueYet'
    BY <1>1, <1>2 DEF NotDueYet, Sections
  <1>19. Frozen'
    BY <1>1, FrozenFrame
  <1>20. Offline'
    BY <1>1, <1>3, ReleaseKeepsOffline
  <1> QED
    BY <1>10, <1>11, <1>12, <1>13, <1>14, <1>15, <1>16, <1>17, <1>18, <1>19, <1>20

LEMMA CheckEndsStep ==
  ASSUME ReqInv, CheckEnds
  PROVE  ReqInv'
  <1> USE DEF ReqInv
  <1>0. /\ task \in [Issuers -> TaskRecs] /\ Issuers = Tasks \cup {Worker} /\ Worker \notin Tasks
        /\ \A j \in Issuers : task[j] \in TaskRecs
        /\ None \notin Rqs /\ None \notin Hctxs
    BY Named
  <1>1. UNCHANGED <<setup, bits, waits, wakes, listed, rq, cached, task, pending, users, depth, killed, freezer, quiesced, cpuhp, walk>>
    BY DEF CheckEnds, tagVars, queueVars, flagVars, timeVars, walkElse, freezeElse, hotplugElse
  <1>2. /\ timer.pc = "walk" /\ timer.phase = "check" /\ Walked("queue") /\ timer' \in Timers
        /\ timer'.pc = "sync" /\ timer'.phase = "check" /\ timer'.sync = Sections
    <2>1. timer' = [timer EXCEPT !.pc = "sync", !.sync = Sections] /\ timer \in Timers /\ Sections \in SUBSET Issuers
      BY DEF CheckEnds, WaitFor, Typed, Sections
    <2>2. timer' \in Timers /\ timer'.pc = "sync" /\ timer'.phase = timer.phase /\ timer'.sync = Sections
      BY <2>1 DEF Timers
    <2> QED
      BY <2>2 DEF CheckEnds
  <1>10. Typed'
    BY <1>0, <1>1, <1>2 DEF Typed
  <1>11. Hands'
    BY <1>1, HandsFrame
  <1>12. TagsKept'
    BY <1>1, TagsFrame
  <1>13. OneOwner'
    BY <1>1, OwnerFrame
  <1>14. Refs'
    BY <1>1, RefsFrame
  <1>15. Users'
    <2>1. UNCHANGED <<Allocating, Held, Owed, Draining>>
      BY <1>1 DEF Allocating, Held, Owed, Draining
    <2> QED
      BY <1>1, <1>2, <2>1, Finite DEF Users, Working
  <1>16. WalksPlaced'
    BY <1>0, <1>1, <1>2 DEF WalksPlaced, Walked
  <1>17. Cancelling'
    BY <1>0, <1>1, <1>2 DEF Cancelling, Sections
  <1>18. NotDueYet'
    BY <1>0, <1>1, <1>2 DEF NotDueYet, Sections
  <1>19. Frozen'
    BY <1>1, FrozenFrame
  <1>20. Offline'
    BY <1>1, OfflineFrame
  <1> QED
    BY <1>10, <1>11, <1>12, <1>13, <1>14, <1>15, <1>16, <1>17, <1>18, <1>19, <1>20

LEMMA HandleStartsStep ==
  ASSUME ReqInv, HandleStarts
  PROVE  ReqInv'
  <1> USE DEF ReqInv
  <1>0. /\ task \in [Issuers -> TaskRecs] /\ Issuers = Tasks \cup {Worker} /\ Worker \notin Tasks
        /\ \A j \in Issuers : task[j] \in TaskRecs
        /\ None \notin Rqs /\ None \notin Hctxs
    BY Named
  <1>1. UNCHANGED <<setup, bits, waits, wakes, listed, rq, cached, task, pending, users, depth, killed, freezer, quiesced, cpuhp>>
    BY DEF HandleStarts, tagVars, queueVars, flagVars, timeVars, walkElse, freezeElse, hotplugElse
  <1>2. /\ timer.pc = "sync" /\ timer.sync = {} /\ timer' \in Timers
        /\ timer'.pc = "walk" /\ timer'.phase = "handle" /\ timer'.due = timer.due
        /\ walk' \in [{"queue", "set"} -> WalkRecs] /\ walk'["set"] = walk["set"] /\ Walked("set")
        /\ \A w \in {"queue", "set"} : walk'[w].cur = walk[w].cur
    <2>1. timer' = [timer EXCEPT !.pc = "walk", !.phase = "handle", !.next = FALSE] /\ timer \in Timers
      BY DEF HandleStarts, Typed
    <2>2. timer' \in Timers /\ timer'.pc = "walk" /\ timer'.phase = "handle" /\ timer'.due = timer.due
      BY <2>1 DEF Timers
    <2>3. timer.pc = "sync" /\ timer.sync = {} /\ Rest("queue", QueueWalk)
      BY DEF HandleStarts
    <2>4. Walked("set") /\ Walked("queue")
      BY <2>3 DEF WalksPlaced
    <2>5. walk' \in [{"queue", "set"} -> WalkRecs] /\ walk'["set"] = walk["set"] /\ walk'["queue"].cur = None
      BY <2>3, RestType, WalkSets
    <2> QED
      BY <2>2, <2>3, <2>4, <2>5 DEF Walked
  <1>10. Typed'
    BY <1>0, <1>1, <1>2 DEF Typed
  <1>11. Hands'
    BY <1>1, HandsFrame
  <1>12. TagsKept'
    BY <1>1, TagsFrame
  <1>13. OneOwner'
    BY <1>1, OwnerFrame
  <1>14. Refs'
    <2>1. \A w \in {"queue", "set"} : walk'[w].cur = walk[w].cur
      BY <1>2
    <2>2. UNCHANGED Owned
      BY <1>1 DEF Owned
    <2> QED
      BY <1>1, <2>1, <2>2 DEF Refs, OnWalk, Has
  <1>15. Users'
    <2>1. UNCHANGED <<Allocating, Held, Owed, Draining>>
      BY <1>1 DEF Allocating, Held, Owed, Draining
    <2> QED
      BY <1>1, <1>2, <2>1, Finite DEF Users, Working
  <1>16. WalksPlaced'
    BY <1>0, <1>1, <1>2 DEF WalksPlaced, Walked
  <1>17. Cancelling'
    BY <1>0, <1>1, <1>2 DEF Cancelling, Sections
  <1>18. NotDueYet'
    BY <1>0, <1>1, <1>2 DEF NotDueYet, Sections
  <1>19. Frozen'
    BY <1>1, FrozenFrame
  <1>20. Offline'
    BY <1>1, OfflineFrame
  <1> QED
    BY <1>10, <1>11, <1>12, <1>13, <1>14, <1>15, <1>16, <1>17, <1>18, <1>19, <1>20

LEMMA WorkEndsStep ==
  ASSUME ReqInv, WorkEnds
  PROVE  ReqInv'
  <1> USE DEF ReqInv
  <1>0. /\ task \in [Issuers -> TaskRecs] /\ Issuers = Tasks \cup {Worker} /\ Worker \notin Tasks
        /\ \A j \in Issuers : task[j] \in TaskRecs
        /\ None \notin Rqs /\ None \notin Hctxs
    BY Named
  <1>1. UNCHANGED <<setup, bits, waits, wakes, listed, rq, cached, task, pending, depth, killed, freezer, quiesced, cpuhp, walk>>
    BY DEF WorkEnds, tagVars, queueVars, flagVars, timeVars, walkElse, freezeElse, hotplugElse
  <1>2. /\ timer.pc = "walk" /\ Walked("queue") /\ users' = users - 1 /\ timer' \in Timers
        /\ timer'.pc = "idle" /\ timer'.phase = "check"
    BY AtRestType DEF WorkEnds
  <1>10. Typed'
    BY <1>0, <1>1, <1>2 DEF Typed
  <1>11. Hands'
    BY <1>1, HandsFrame
  <1>12. TagsKept'
    BY <1>1, TagsFrame
  <1>13. OneOwner'
    BY <1>1, OwnerFrame
  <1>14. Refs'
    BY <1>1, RefsFrame
  <1>15. Users'
    <2>1. UNCHANGED <<Allocating, Held, Owed, Draining>>
      BY <1>1 DEF Allocating, Held, Owed, Draining
    <2> QED
      BY <1>1, <1>2, <2>1, Finite DEF Users, Working
  <1>16. WalksPlaced'
    BY <1>0, <1>1, <1>2 DEF WalksPlaced, Walked
  <1>17. Cancelling'
    BY <1>0, <1>1, <1>2 DEF Cancelling, Sections
  <1>18. NotDueYet'
    BY <1>0, <1>1, <1>2 DEF NotDueYet, Sections
  <1>19. Frozen'
    <2>1. Working = 1
      BY <1>2 DEF Working
    <2>2. /\ Cardinality(Allocating) \in Nat /\ Cardinality(Held) \in Nat /\ Cardinality(Owed) \in Nat
          /\ Cardinality(Draining) \in Nat /\ Working \in Nat
      BY Finite DEF Working
    <2>3. users # 0
      BY <2>1, <2>2 DEF Users
    <2> QED
      BY <1>1, <2>3 DEF Frozen, Freezing
  <1>20. Offline'
    BY <1>1, OfflineFrame
  <1> QED
    BY <1>10, <1>11, <1>12, <1>13, <1>14, <1>15, <1>16, <1>17, <1>18, <1>19, <1>20

LEMMA CancelledStep ==
  ASSUME ReqInv, Cancelled
  PROVE  ReqInv'
  <1> USE DEF ReqInv
  <1>0. /\ task \in [Issuers -> TaskRecs] /\ Issuers = Tasks \cup {Worker} /\ Worker \notin Tasks
        /\ \A j \in Issuers : task[j] \in TaskRecs
        /\ None \notin Rqs /\ None \notin Hctxs
    BY Named
  <1>1. UNCHANGED <<setup, bits, waits, wakes, listed, rq, cached, task, pending, users, depth, killed, freezer, cpuhp, walk>>
    BY DEF Cancelled, tagVars, queueVars, flagVars, timeVars, walkElse, freezeElse, hotplugElse
  <1>2. /\ timer.pc = "cancel" /\ Walked("set") /\ quiesced' = FALSE /\ timer' \in Timers
        /\ timer'.pc = "put" /\ timer'.phase = timer.phase /\ timer'.due = timer.due
    BY DEF Cancelled, Typed, Timers
  <1>10. Typed'
    BY <1>0, <1>1, <1>2 DEF Typed
  <1>11. Hands'
    BY <1>1, HandsFrame
  <1>12. TagsKept'
    BY <1>1, TagsFrame
  <1>13. OneOwner'
    BY <1>1, OwnerFrame
  <1>14. Refs'
    BY <1>1, RefsFrame
  <1>15. Users'
    <2>1. UNCHANGED <<Allocating, Held, Owed, Draining>>
      BY <1>1 DEF Allocating, Held, Owed, Draining
    <2> QED
      BY <1>1, <1>2, <2>1, Finite DEF Users, Working
  <1>16. WalksPlaced'
    BY <1>0, <1>1, <1>2 DEF WalksPlaced, Walked
  <1>17. Cancelling'
    BY <1>0, <1>1, <1>2 DEF Cancelling, Sections
  <1>18. NotDueYet'
    BY <1>0, <1>1, <1>2 DEF NotDueYet, Sections
  <1>19. Frozen'
    BY <1>1, FrozenFrame
  <1>20. Offline'
    BY <1>1, OfflineFrame
  <1> QED
    BY <1>10, <1>11, <1>12, <1>13, <1>14, <1>15, <1>16, <1>17, <1>18, <1>19, <1>20

-----------------------------------------------------------------------------
(* Freezing and hotplug. *)
LEMMA SumIsZero ==
  \A a, h, o, w, d \in Nat : a + h + o + w + d = 0 => a = 0 /\ h = 0 /\ w = 0
  OBVIOUS

LEMMA IdleQueue ==
  ASSUME Typed, Users, users = 0
  PROVE  Allocating = {} /\ Held = {} /\ timer.pc = "idle"
  <1>1. /\ Cardinality(Allocating) \in Nat /\ Cardinality(Held) \in Nat /\ Cardinality(Owed) \in Nat
        /\ Cardinality(Draining) \in Nat /\ Working \in Nat
    BY Finite DEF Working
  <1>2. Cardinality(Allocating) = 0 /\ Cardinality(Held) = 0 /\ Working = 0
    <2>2. Cardinality(Allocating) + Cardinality(Held) + Cardinality(Owed) + Working + Cardinality(Draining) = 0
      BY DEF Users
    <2> HIDE DEF Working
    <2> QED
      BY ZenonT(60), <1>1, <2>2, SumIsZero
  <1> QED
    BY <1>2, Finite, FS_EmptySet DEF Working

GetQueueLive(h) ==
  /\ cpuhp.st[h] = "inactive" /\ MayWork /\ users' = users + 1
  /\ cpuhp' = [cpuhp EXCEPT !.st[h] = "wait"]
  /\ UNCHANGED <<setup, bits, waits, wakes, listed, rq, cached, task, pending, depth, killed, freezer,
                 quiesced, timer, walk>>

GetQueueDead(h) ==
  /\ cpuhp.st[h] = "inactive" /\ ~MayWork
  /\ cpuhp' = [cpuhp EXCEPT !.st[h] = "offline"]
  /\ UNCHANGED <<setup, bits, waits, wakes, listed, rq, cached, task, pending, users, depth, killed,
                 freezer, quiesced, timer, walk>>

LEMMA TimedOutStep ==
  ASSUME ReqInv, TimedOut
  PROVE  ReqInv'
  <1> USE DEF ReqInv
  <1>0. /\ task \in [Issuers -> TaskRecs] /\ Issuers = Tasks \cup {Worker} /\ Worker \notin Tasks
        /\ \A j \in Issuers : task[j] \in TaskRecs
        /\ None \notin Rqs /\ None \notin Hctxs
    BY Named
  <1>1. UNCHANGED <<setup, bits, waits, wakes, listed, cached, task, pending, users, depth, killed, freezer, quiesced, cpuhp, walk>>
    BY DEF TimedOut, tagVars, queueVars, flagVars, timeVars, walkElse, freezeElse, hotplugElse
  <1>p. /\ walk["queue"].cur \in Rqs /\ timer.pc = "walk" /\ timer.phase = "handle"
        /\ rq[walk["queue"].cur].ref > 0
    BY Placed, WalkHolds DEF TimedOut
  <1>2. timer' \in Timers /\ timer'.pc = "call" /\ timer'.phase = "handle" /\ timer'.due = timer.due
    <2>1. timer' = [timer EXCEPT !.pc = "call"] /\ timer \in Timers
      BY DEF TimedOut, Typed
    <2> QED
      BY <1>p, <2>1 DEF Timers
  <1>4. /\ rq' \in [Rqs -> RqRecs] /\ \A s \in Rqs \ {walk["queue"].cur} : rq'[s] = rq[s]
        /\ \A s \in Rqs : rq'[s].st = rq[s].st /\ rq'[s].ref = rq[s].ref /\ rq'[s].hctx = rq[s].hctx /\ rq'[s].dev = rq[s].dev
    <2> DEFINE r == walk["queue"].cur
    <2>1. rq' = [rq EXCEPT ![r].out = TRUE] /\ rq \in [Rqs -> RqRecs] /\ r \in Rqs
      BY <1>p DEF TimedOut, Typed
    <2> HIDE DEF r
    <2>2. rq'[r] = [rq[r] EXCEPT !.out = TRUE] /\ rq[r] \in RqRecs /\ \A s \in Rqs \ {r} : rq'[s] = rq[s]
      BY <2>1
    <2>3. /\ rq'[r] \in RqRecs /\ rq'[r].st = rq[r].st /\ rq'[r].ref = rq[r].ref
          /\ rq'[r].hctx = rq[r].hctx /\ rq'[r].dev = rq[r].dev
      BY <2>2 DEF RqRecs
    <2>4. rq' \in [Rqs -> RqRecs]
      BY <2>1, <2>3
    <2>5. \A s \in Rqs : rq'[s].st = rq[s].st /\ rq'[s].ref = rq[s].ref /\ rq'[s].hctx = rq[s].hctx /\ rq'[s].dev = rq[s].dev
      BY <2>2, <2>3
    <2> QED
      BY <2>2, <2>4, <2>5 DEF r
  <1>s. \A x \in Rqs : rq'[x].ref = rq[x].ref
    BY <1>4
  <1>t. Touched /\ Moved
    BY <1>1, <1>p, <1>4 DEF Touched, Moved
  <1>10. Typed'
    BY <1>1, <1>2, <1>4 DEF Typed
  <1>11. Hands'
    BY <1>1, HandsFrame
  <1>12. TagsKept'
    BY <1>1, <1>t, TouchKeepsTags
  <1>13. OneOwner'
    BY <1>1, <1>4, SameOwners
  <1>14. Refs'
    <2>1. OwnedIs /\ OwnedIs'
      BY OwnedMeans, PTL
    <2>2. \A x \in Rqs : x \in Owned' <=> x \in Owned
      BY <1>1, <1>4, <2>1 DEF OwnedIs, Issuing, Cached
    <2> QED
      BY <1>1, <1>s, <2>2, TouchKeepsRefs
  <1>15. Users'
    <2>1. Working' = Working
      BY <1>p, <1>2 DEF Working
    <2> QED
      BY <1>1, <1>t, <2>1, TouchKeepsUsers
  <1>16. WalksPlaced'
    BY <1>1, <1>p, <1>2 DEF WalksPlaced, Walked
  <1>17. Cancelling'
    BY <1>1, <1>p, <1>2, <1>4 DEF Cancelling, Sections
  <1>18. NotDueYet'
    BY <1>1, <1>p, <1>2 DEF NotDueYet, Sections
  <1>19. Frozen'
    BY <1>1, FrozenFrame
  <1>20. Offline'
    BY <1>1, <1>t, TouchKeepsOffline
  <1> QED
    BY <1>10, <1>11, <1>12, <1>13, <1>14, <1>15, <1>16, <1>17, <1>18, <1>19, <1>20

LEMMA HandlerStep ==
  ASSUME ReqInv, Handler
  PROVE  ReqInv'
  <1> USE DEF ReqInv
  <1>0. /\ task \in [Issuers -> TaskRecs] /\ Issuers = Tasks \cup {Worker} /\ Worker \notin Tasks
        /\ \A j \in Issuers : task[j] \in TaskRecs
        /\ None \notin Rqs /\ None \notin Hctxs
    BY Named
  <1>1. UNCHANGED <<setup, bits, waits, wakes, listed, cached, task, pending, users, depth, killed, freezer, cpuhp, walk>>
    BY DEF Handler, tagVars, queueVars, flagVars, timeVars, walkElse, freezeElse, hotplugElse
  <1>p. walk["queue"].cur \in Rqs /\ timer.pc = "call" /\ timer.phase = "handle" /\ rq[walk["queue"].cur].ref > 0
    BY WalkHolds DEF Handler, WalksPlaced
  <1>2. /\ timer' \in Timers /\ timer'.phase = "handle" /\ timer'.due \subseteq timer.due
        /\ (timer'.pc = "put" \/ (timer'.pc = "drain" /\ quiesced')) /\ quiesced' \in BOOLEAN
    <2>1. timer \in Timers /\ quiesced \in BOOLEAN
      BY DEF Typed
    <2>2. CASE timer' = [timer EXCEPT !.pc = "put"] /\ UNCHANGED quiesced
      BY <1>p, <2>1, <2>2 DEF Timers
    <2>3. CASE timer' = [timer EXCEPT !.pc = "put", !.due = @ \ {walk["queue"].cur}] /\ UNCHANGED quiesced
      BY <1>p, <2>1, <2>3 DEF Timers
    <2>4. CASE timer' = [timer EXCEPT !.pc = "drain"] /\ quiesced' = TRUE
      BY <1>p, <2>1, <2>4 DEF Timers
    <2> QED
      BY <2>2, <2>3, <2>4 DEF Handler, flagVars
  <1>4. /\ rq' \in [Rqs -> RqRecs] /\ \A s \in Rqs \ {walk["queue"].cur} : rq'[s] = rq[s]
        /\ \A s \in Rqs : rq'[s].st = rq[s].st /\ rq'[s].ref = rq[s].ref /\ rq'[s].hctx = rq[s].hctx /\ rq'[s].dev = rq[s].dev
    <2>1. rq \in [Rqs -> RqRecs]
      BY DEF Typed
    <2>2. CASE UNCHANGED rq
      BY <2>1, <2>2
    <2>3. CASE rq' = [rq EXCEPT ![walk["queue"].cur].late = FALSE, ![walk["queue"].cur].out = FALSE]
      <3>1. /\ rq'[walk["queue"].cur] = [rq[walk["queue"].cur] EXCEPT !.late = FALSE, !.out = FALSE]
            /\ rq[walk["queue"].cur] \in RqRecs /\ \A s \in Rqs \ {walk["queue"].cur} : rq'[s] = rq[s]
        BY <1>p, <2>1, <2>3
      <3> DEFINE new == rq'[walk["queue"].cur]
                 old == rq[walk["queue"].cur]
      <3>2. new = [old EXCEPT !.late = FALSE, !.out = FALSE] /\ old \in RqRecs
        BY <3>1
      <3> HIDE DEF new, old
      <3>3. new \in RqRecs /\ new.st = old.st /\ new.ref = old.ref /\ new.hctx = old.hctx /\ new.dev = old.dev
        BY <3>2 DEF RqRecs
      <3> QED
        BY <1>p, <2>1, <2>3, <3>1, <3>3 DEF new, old
    <2> QED
      BY <2>2, <2>3 DEF Handler
  <1>s. \A x \in Rqs : rq'[x].ref = rq[x].ref
    BY <1>4
  <1>t. Touched /\ Moved
    BY <1>1, <1>p, <1>4 DEF Touched, Moved
  <1>10. Typed'
    BY <1>1, <1>2, <1>4 DEF Typed
  <1>11. Hands'
    BY <1>1, HandsFrame
  <1>12. TagsKept'
    BY <1>1, <1>t, TouchKeepsTags
  <1>13. OneOwner'
    BY <1>1, <1>4, SameOwners
  <1>14. Refs'
    <2>1. OwnedIs /\ OwnedIs'
      BY OwnedMeans, PTL
    <2>2. \A x \in Rqs : x \in Owned' <=> x \in Owned
      BY <1>1, <1>4, <2>1 DEF OwnedIs, Issuing, Cached
    <2> QED
      BY <1>1, <1>s, <2>2, TouchKeepsRefs
  <1>15. Users'
    <2>1. Working' = Working
      BY <1>p, <1>2 DEF Working
    <2> QED
      BY <1>1, <1>t, <2>1, TouchKeepsUsers
  <1>16. WalksPlaced'
    BY <1>1, <1>p, <1>2 DEF WalksPlaced, Walked
  <1>17. Cancelling'
    BY <1>1, <1>p, <1>2, <1>4 DEF Cancelling, Sections
  <1>18. NotDueYet'
    BY <1>1, <1>p, <1>2 DEF NotDueYet, Sections
  <1>19. Frozen'
    BY <1>1, FrozenFrame
  <1>20. Offline'
    BY <1>1, <1>t, TouchKeepsOffline
  <1> QED
    BY <1>10, <1>11, <1>12, <1>13, <1>14, <1>15, <1>16, <1>17, <1>18, <1>19, <1>20

LEMMA DrainStep ==
  ASSUME ReqInv, Drain
  PROVE  ReqInv'
  <1> USE DEF ReqInv
  <1>0. /\ task \in [Issuers -> TaskRecs] /\ Issuers = Tasks \cup {Worker} /\ Worker \notin Tasks
        /\ \A j \in Issuers : task[j] \in TaskRecs
        /\ None \notin Rqs /\ None \notin Hctxs
    BY Named
  <1>1. UNCHANGED <<setup, bits, waits, wakes, listed, cached, task, pending, users, depth, killed, freezer, quiesced, cpuhp>>
    BY DEF Drain, tagVars, queueVars, flagVars, timeVars, walkElse, freezeElse, hotplugElse
  <1>2. /\ timer.pc = "drain" /\ Sections = {} /\ timer' \in Timers /\ timer'.pc = "cancel"
        /\ timer'.phase = timer.phase /\ timer'.due = timer.due
    <2>1. timer' = [timer EXCEPT !.pc = "cancel"] /\ timer \in Timers /\ timer.pc = "drain" /\ Sections = {}
      BY DEF Drain, Typed
    <2> QED
      BY <2>1 DEF Timers
  <1>3. /\ walk' \in [{"queue", "set"} -> WalkRecs] /\ walk'["queue"] = walk["queue"]
        /\ walk'["set"].left = SetWalk /\ walk'["set"].cur = None /\ walk["set"].cur = None
    <2>1. Rest("set", SetWalk)
      BY DEF Drain
    <2> QED
      BY <1>2, <2>1, RestType, WalkSets DEF WalksPlaced, Walked
  <1>4. /\ rq' \in [Rqs -> RqRecs]
        /\ \A s \in Rqs : /\ rq'[s].st = rq[s].st /\ rq'[s].ref = rq[s].ref /\ rq'[s].hctx = rq[s].hctx /\ ~rq'[s].dev
                          /\ rq[s].ref = 0 => rq'[s] = rq[s]
    <2>1. rq' = [s \in Rqs |-> [rq[s] EXCEPT !.dev = FALSE]]
      BY DEF Drain
    <2>2. ASSUME NEW s \in Rqs
          PROVE  /\ rq'[s] \in RqRecs /\ rq'[s].st = rq[s].st /\ rq'[s].ref = rq[s].ref
                 /\ rq'[s].hctx = rq[s].hctx /\ ~rq'[s].dev
      <3>1. rq'[s] = [rq[s] EXCEPT !.dev = FALSE] /\ rq[s] \in RqRecs
        BY <2>1 DEF Typed
      <3> QED
        BY <3>1 DEF RqRecs
    <2>3. ASSUME NEW s \in Rqs, rq[s].ref = 0 PROVE rq'[s] = rq[s]
      <3>1. rq[s] = Free
        BY <2>3 DEF TagsKept, FreeIsFree
      <3>2. [Free EXCEPT !.dev = FALSE] = Free
        <4>1. Free.dev = FALSE /\ Free = [x \in DOMAIN Free |-> Free[x]]
          BY DEF Free
        <4> HIDE DEF Free
        <4> QED
          BY <4>1
      <3> QED
        BY <2>1, <3>1, <3>2
    <2> QED
      BY <2>1, <2>2, <2>3
  <1>s. \A x \in Rqs : rq'[x].ref = rq[x].ref
    BY <1>4
  <1>t. Touched /\ Moved
    BY <1>1, <1>4 DEF Touched, Moved
  <1>10. Typed'
    BY <1>1, <1>2, <1>3, <1>4 DEF Typed
  <1>11. Hands'
    BY <1>1, HandsFrame
  <1>12. TagsKept'
    BY <1>1, <1>t, TouchKeepsTags
  <1>13. OneOwner'
    <2>1. CachedApart' /\ PendingIdle' /\ IssuedApart'
      <3>1. pending \subseteq Rqs
        BY DEF Typed
      <3> QED
        BY <1>1, <1>4, <3>1, CachedAre DEF OneOwner, CachedApart, IssuedApart, PendingIdle
    <2>2. StateSuits'
      <3>1. \A i \in Issuers : task[i].pc \in Issuing => task[i].rq \in Rqs
        BY DEF Hands
      <3> QED
        BY <1>1, <1>4, <3>1 DEF OneOwner, StateSuits, Issuing
    <2> QED
      BY <2>1, <2>2 DEF OneOwner
  <1>14. Refs'
    <2>1. OwnedIs /\ OwnedIs'
      BY OwnedMeans, PTL
    <2>2. \A x \in Rqs : x \in Owned' <=> x \in Owned
      BY <1>1, <1>4, <2>1 DEF OwnedIs
    <2>3. \A w \in {"queue", "set"} : walk'[w].cur = walk[w].cur
      BY <1>3
    <2> QED
      BY <1>4, <2>2, <2>3 DEF Refs, OnWalk, Has
  <1>15. Users'
    <2>1. Working' = Working
      BY <1>2 DEF Working
    <2> QED
      BY <1>1, <1>t, <2>1, TouchKeepsUsers
  <1>16. WalksPlaced'
    BY <1>1, <1>2, <1>3 DEF WalksPlaced, Walked
  <1>17. Cancelling'
    <2>1. \A x \in Rqs : rq[x].st = "flight" => rq[x].ref > 0
      BY DEF Refs, Has, OnWalk, Owned
    <2>2. \A x \in Rqs : rq'[x].st = "flight" => \E v \in walk'["set"].left : v[2] = x
      <3> SUFFICES ASSUME NEW x \in Rqs, rq'[x].st = "flight" PROVE <<x[1], x>> \in SetWalk
        BY <1>3
      <3>1. x \in bits /\ x[2] < setup.depth /\ x[1] \in Hctxs
        BY <1>4, <2>1, Constants DEF TagsKept, HeldTags, BitsMapped
      <3> QED
        BY <3>1 DEF SetWalk, Map
    <2>3. quiesced
      BY <1>2 DEF Cancelling
    <2> QED
      BY <1>1, <1>2, <1>4, <2>2, <2>3 DEF Cancelling, Sections
  <1>18. NotDueYet'
    BY <1>1, <1>2 DEF NotDueYet, Sections
  <1>19. Frozen'
    BY <1>1, FrozenFrame
  <1>20. Offline'
    BY <1>1, <1>t, TouchKeepsOffline
  <1> QED
    BY <1>10, <1>11, <1>12, <1>13, <1>14, <1>15, <1>16, <1>17, <1>18, <1>19, <1>20

LEMMA CancelStep ==
  ASSUME ReqInv, Cancel
  PROVE  ReqInv'
  <1> USE DEF ReqInv
  <1>0. /\ task \in [Issuers -> TaskRecs] /\ Issuers = Tasks \cup {Worker} /\ Worker \notin Tasks
        /\ \A j \in Issuers : task[j] \in TaskRecs
        /\ None \notin Rqs /\ None \notin Hctxs
    BY Named
  <1>1. UNCHANGED <<setup, waits, listed, cached, task, pending, users, depth, killed, freezer, quiesced, cpuhp, timer>>
    BY DEF Cancel, tagVars, queueVars, flagVars, timeVars, walkElse, freezeElse, hotplugElse
  <1> DEFINE r == walk["set"].cur
             st == [s \in {r} |-> IF rq[r].st = "flight" THEN "complete" ELSE rq[r].st]
             left == walk["set"].left
  <1>p. timer.pc = "cancel" /\ r \in Rqs /\ left \in SUBSET (Hctxs \X Rqs) /\ Rest("set", left) /\ PutRefs({r}, st)
    BY Placed DEF Cancel
  <1>2. rq[r].ref > 0 /\ (rq[r].ref = 1 => r \notin Owned) /\ rq[r].st \in {"idle", "flight", "complete"}
    BY <1>p, WalkHolds DEF Typed, RqRecs
  <1>q. st \in [{r} -> {"idle", "flight", "complete"}] /\ st[r] = IF rq[r].st = "flight" THEN "complete" ELSE rq[r].st
    BY <1>2
  <1>w. /\ walk' \in [{"queue", "set"} -> WalkRecs] /\ walk'["queue"] = walk["queue"]
        /\ walk'["set"].left = left /\ walk'["set"].cur = None
    BY <1>p, RestType
  <1>e. walk["set"].cur = r /\ walk["set"].left = left
    OBVIOUS
  <1> HIDE DEF r, st, left
  <1>3. Released({r}) /\ \A s \in {r} \ Ending({r}) : rq'[s].st = st[s]
    BY <1>p, <1>2, <1>q, PutEffect
  <1>4. wakes' \in [Cqs -> Nat] /\ Cardinality(Held') + Cardinality(Owed') = Cardinality(Held) + Cardinality(Owed)
    BY <1>p, <1>3, PutCounts
  <1>5. /\ rq'[r].st # "flight" /\ (rq[r].st = "idle" <=> rq'[r].st = "idle")
        /\ \A x \in Rqs \ {r} : rq'[x] = rq[x]
    <2>1. CASE r \in Ending({r})
      <3>1. rq[r].st = "idle"
        BY <1>2, <1>p, <2>1 DEF Ending, Owned
      <3>2. rq'[r].st = "idle"
        BY <1>3, <2>1 DEF Released, Free
      <3> QED
        BY <1>3, <3>1, <3>2 DEF Released
    <2>2. CASE r \notin Ending({r})
      BY <1>2, <1>3, <1>q, <2>2 DEF Released
    <2> QED
      BY <2>1, <2>2
  <1>6. \A x \in Rqs : ~rq'[x].dev
    <2>1. \A x \in Rqs : ~rq[x].dev
      BY <1>p DEF Cancelling
    <2> QED
      BY <1>3, <2>1 DEF Released, Ending, Free
  <1>7. \A x \in Rqs : /\ rq[x].st = "idle" <=> rq'[x].st = "idle"
                       /\ rq'[x].st = "flight" => rq[x].st = "flight" /\ x # r
                       /\ rq'[x].st \in {"idle", "flight", "complete"} /\ rq[x].st \in {"idle", "flight", "complete"}
    BY <1>3, <1>5 DEF Released, Typed, RqRecs
  <1>10. Typed'
    BY <1>1, <1>3, <1>4, <1>w DEF Typed, Released
  <1>11. Hands'
    BY <1>1, HandsFrame
  <1>12. TagsKept'
    BY <1>1, <1>3, ReleaseKeepsTags
  <1>13. OneOwner'
    <2>1. CachedApart' /\ PendingIdle' /\ IssuedApart'
      <3>1. pending \subseteq Rqs
        BY DEF Typed
      <3> QED
        BY <1>1, <1>7, <3>1, CachedAre DEF OneOwner, CachedApart, IssuedApart, PendingIdle
    <2>2. StateSuits'
      <3>1. \A i \in Issuers : task[i].pc \in Issuing => task[i].rq \in Rqs
        BY DEF Hands
      <3>2. \A i \in Issuers : task[i].pc \notin {"timer", "flight"}
        BY <1>p DEF Cancelling, Sections
      <3> QED
        BY <1>1, <1>6, <1>7, <3>1, <3>2 DEF OneOwner, StateSuits, Issuing
    <2> QED
      BY <2>1, <2>2 DEF OneOwner
  <1>14. Refs'
    <2>1. OwnedIs /\ OwnedIs'
      BY OwnedMeans, PTL
    <2>2. \A x \in Rqs : x \in Owned <=> x \in Owned'
      BY <1>1, <1>7, <2>1 DEF OwnedIs
    <2> QED
      BY <1>p, <1>e, <1>3, <1>w, <2>2, WalkPut
  <1>15. Users'
    BY <1>1, <1>4, <1>10, ReleaseKeepsUsers DEF Working
  <1>16. WalksPlaced'
    BY <1>1, <1>p, <1>w DEF WalksPlaced, Walked
  <1>17. Cancelling'
    <2>1. \A x \in Rqs : rq'[x].st = "flight" => \E v \in walk'["set"].left : v[2] = x
      BY <1>p, <1>e, <1>7, <1>w DEF Cancelling
    <2> QED
      BY <1>1, <1>p, <1>6, <1>7, <2>1 DEF Cancelling, Sections
  <1>18. NotDueYet'
    BY <1>1, DueFrame
  <1>19. Frozen'
    BY <1>1, FrozenFrame
  <1>20. Offline'
    BY <1>1, <1>3, ReleaseKeepsOffline
  <1> QED
    BY <1>10, <1>11, <1>12, <1>13, <1>14, <1>15, <1>16, <1>17, <1>18, <1>19, <1>20

LEMMA FreezeStartStep ==
  ASSUME ReqInv, NEW f \in Freezers, FreezeStart(f)
  PROVE  ReqInv'
  <1> USE DEF ReqInv
  <1>0. /\ task \in [Issuers -> TaskRecs] /\ Issuers = Tasks \cup {Worker} /\ Worker \notin Tasks
        /\ \A j \in Issuers : task[j] \in TaskRecs
        /\ None \notin Rqs /\ None \notin Hctxs
    BY Named
  <1>1. UNCHANGED <<setup, bits, waits, wakes, listed, rq, cached, task, pending, users, quiesced, cpuhp, timer, walk>>
    BY DEF FreezeStart, tagVars, queueVars, flagVars, timeVars, walkElse, freezeElse, hotplugElse
  <1>2. /\ freezer[f] = "out" /\ depth' = depth + 1 /\ killed' = TRUE /\ freezer' = [freezer EXCEPT ![f] = "wait"]
        /\ depth' \in Int
    BY DEF FreezeStart, Typed
  <1>3. Freezing' = Freezing \cup {f} /\ f \notin Freezing
    BY <1>2 DEF Freezing, Typed
  <1>10. Typed'
    BY <1>0, <1>1, <1>2 DEF Typed
  <1>11. Hands'
    BY <1>1, HandsFrame
  <1>12. TagsKept'
    BY <1>1, TagsFrame
  <1>13. OneOwner'
    BY <1>1, OwnerFrame
  <1>14. Refs'
    BY <1>1, RefsFrame
  <1>15. Users'
    BY <1>1, UsersFrame
  <1>16. WalksPlaced'
    BY <1>1, PlacedFrame
  <1>17. Cancelling'
    BY <1>1, CancelFrame
  <1>18. NotDueYet'
    BY <1>1, DueFrame
  <1>19. Frozen'
    <2>1. IsFiniteSet(Freezing)
      BY Constants, FS_Subset DEF Freezing
    <2>2. Cardinality(Freezing') = Cardinality(Freezing) + 1
      BY <1>3, <2>1, FS_AddElement
    <2>3. Freezing' # {} /\ \A g \in Freezers : freezer'[g] = "frozen" => freezer[g] = "frozen"
      BY <1>2, <1>3 DEF Typed
    <2> QED
      BY <1>1, <1>2, <2>2, <2>3 DEF Frozen
  <1>20. Offline'
    BY <1>1, OfflineFrame
  <1> QED
    BY <1>10, <1>11, <1>12, <1>13, <1>14, <1>15, <1>16, <1>17, <1>18, <1>19, <1>20

LEMMA FreezeWaitStep ==
  ASSUME ReqInv, NEW f \in Freezers, FreezeWait(f)
  PROVE  ReqInv'
  <1> USE DEF ReqInv
  <1>0. /\ task \in [Issuers -> TaskRecs] /\ Issuers = Tasks \cup {Worker} /\ Worker \notin Tasks
        /\ \A j \in Issuers : task[j] \in TaskRecs
        /\ None \notin Rqs /\ None \notin Hctxs
    BY Named
  <1>1. UNCHANGED <<setup, bits, waits, wakes, listed, rq, cached, task, pending, users, depth, killed, quiesced, cpuhp, timer, walk>>
    BY DEF FreezeWait, tagVars, queueVars, flagVars, timeVars, walkElse, freezeElse, hotplugElse
  <1>2. freezer[f] = "wait" /\ users = 0 /\ freezer' = [freezer EXCEPT ![f] = "frozen"]
    BY DEF FreezeWait
  <1>3. Freezing' = Freezing
    BY <1>2 DEF Freezing, Typed
  <1>10. Typed'
    BY <1>0, <1>1, <1>2 DEF Typed
  <1>11. Hands'
    BY <1>1, HandsFrame
  <1>12. TagsKept'
    BY <1>1, TagsFrame
  <1>13. OneOwner'
    BY <1>1, OwnerFrame
  <1>14. Refs'
    BY <1>1, RefsFrame
  <1>15. Users'
    BY <1>1, UsersFrame
  <1>16. WalksPlaced'
    BY <1>1, PlacedFrame
  <1>17. Cancelling'
    BY <1>1, CancelFrame
  <1>18. NotDueYet'
    BY <1>1, DueFrame
  <1>19. Frozen'
    BY <1>1, <1>2, <1>3 DEF Frozen
  <1>20. Offline'
    BY <1>1, OfflineFrame
  <1> QED
    BY <1>10, <1>11, <1>12, <1>13, <1>14, <1>15, <1>16, <1>17, <1>18, <1>19, <1>20

LEMMA UnfreezeStep ==
  ASSUME ReqInv, NEW f \in Freezers, Unfreeze(f)
  PROVE  ReqInv'
  <1> USE DEF ReqInv
  <1>0. /\ task \in [Issuers -> TaskRecs] /\ Issuers = Tasks \cup {Worker} /\ Worker \notin Tasks
        /\ \A j \in Issuers : task[j] \in TaskRecs
        /\ None \notin Rqs /\ None \notin Hctxs
    BY Named
  <1>1. UNCHANGED <<setup, bits, waits, wakes, listed, rq, cached, task, pending, users, quiesced, cpuhp, timer, walk>>
    BY DEF Unfreeze, tagVars, queueVars, flagVars, timeVars, walkElse, freezeElse, hotplugElse
  <1>2. /\ freezer[f] = "frozen" /\ depth' = depth - 1 /\ killed' = (killed /\ depth # 1)
        /\ freezer' = [freezer EXCEPT ![f] = "done"] /\ depth' \in Int /\ killed' \in BOOLEAN
    BY DEF Unfreeze, Resurrects, Typed
  <1>3. Freezing' = Freezing \ {f} /\ f \in Freezing
    BY <1>2 DEF Freezing, Typed
  <1>10. Typed'
    BY <1>0, <1>1, <1>2 DEF Typed
  <1>11. Hands'
    BY <1>1, HandsFrame
  <1>12. TagsKept'
    BY <1>1, TagsFrame
  <1>13. OneOwner'
    BY <1>1, OwnerFrame
  <1>14. Refs'
    BY <1>1, RefsFrame
  <1>15. Users'
    BY <1>1, UsersFrame
  <1>16. WalksPlaced'
    BY <1>1, PlacedFrame
  <1>17. Cancelling'
    BY <1>1, CancelFrame
  <1>18. NotDueYet'
    BY <1>1, DueFrame
  <1>19. Frozen'
    <2>1. IsFiniteSet(Freezing) /\ IsFiniteSet(Freezing')
      <3>1. Freezing \subseteq Freezers /\ Freezing' \subseteq Freezers
        BY <1>3 DEF Freezing
      <3> QED
        BY <3>1, Constants, FS_Subset
    <2>2. Cardinality(Freezing') = Cardinality(Freezing) - 1 /\ Cardinality(Freezing) \in Nat
      BY <1>3, <2>1, FS_RemoveElement, FS_CardinalityType
    <2>3. Cardinality(Freezing') = 0 <=> Freezing' = {}
      BY <2>1, FS_EmptySet
    <2>4. \A g \in Freezers : freezer'[g] = "frozen" => freezer[g] = "frozen"
      BY <1>2 DEF Typed
    <2>5. depth = Cardinality(Freezing) /\ killed
      BY <1>3 DEF Frozen
    <2>6. killed' <=> Freezing' # {}
      <3>1. CASE depth = 1
        <4>1. Cardinality(Freezing') = 0
          BY <2>2, <2>5, <3>1
        <4> QED
          BY <1>2, <2>3, <3>1, <4>1
      <3>2. CASE depth # 1
        <4>1. Cardinality(Freezing') # 0
          BY <2>2, <2>5, <3>2
        <4> QED
          BY <1>2, <2>3, <2>5, <3>2, <4>1
      <3> QED
        BY <3>1, <3>2
    <2> QED
      BY <1>1, <1>2, <2>2, <2>4, <2>5, <2>6 DEF Frozen
  <1>20. Offline'
    BY <1>1, OfflineFrame
  <1> QED
    BY <1>10, <1>11, <1>12, <1>13, <1>14, <1>15, <1>16, <1>17, <1>18, <1>19, <1>20

LEMMA NotifyOfflineStep ==
  ASSUME ReqInv, NEW h \in Hctxs, NotifyOffline(h)
  PROVE  ReqInv'
  <1> USE DEF ReqInv
  <1>0. /\ task \in [Issuers -> TaskRecs] /\ Issuers = Tasks \cup {Worker} /\ Worker \notin Tasks
        /\ \A j \in Issuers : task[j] \in TaskRecs
        /\ None \notin Rqs /\ None \notin Hctxs
    BY Named
  <1>1. UNCHANGED <<setup, bits, waits, wakes, listed, rq, cached, task, pending, users, depth, killed, freezer, quiesced, timer, walk>>
    BY DEF NotifyOffline, tagVars, queueVars, flagVars, timeVars, walkElse, freezeElse, hotplugElse
  <1>2. /\ h \in setup.unplugged /\ cpuhp.st[h] = "online" /\ cpuhp' \in Hotplugs /\ cpuhp'.missed = cpuhp.missed
        /\ cpuhp'.st[h] = "inactive" /\ \A g \in Hctxs \ {h} : cpuhp'.st[g] = cpuhp.st[g]
    <2>1. h \in setup.unplugged /\ cpuhp.st[h] = "online" /\ cpuhp' = [cpuhp EXCEPT !.st[h] = "inactive"] /\ cpuhp \in Hotplugs
      BY DEF NotifyOffline, Inactive, Typed
    <2> QED
      BY <2>1 DEF Hotplugs
  <1>10. Typed'
    BY <1>0, <1>1, <1>2 DEF Typed
  <1>11. Hands'
    BY <1>1, HandsFrame
  <1>12. TagsKept'
    BY <1>1, TagsFrame
  <1>13. OneOwner'
    BY <1>1, OwnerFrame
  <1>14. Refs'
    BY <1>1, RefsFrame
  <1>15. Users'
    <2>1. UNCHANGED <<Allocating, Held, Owed, Working>> /\ Draining' = Draining
      BY <1>1, <1>2 DEF Allocating, Held, Owed, Working, Draining
    <2> QED
      BY <1>1, <2>1 DEF Users
  <1>16. WalksPlaced'
    BY <1>1, PlacedFrame
  <1>17. Cancelling'
    BY <1>1, CancelFrame
  <1>18. NotDueYet'
    BY <1>1, DueFrame
  <1>19. Frozen'
    BY <1>1, FrozenFrame
  <1>20. Offline'
    BY <1>0, <1>1, <1>2 DEF Offline, Inactive
  <1> QED
    BY <1>10, <1>11, <1>12, <1>13, <1>14, <1>15, <1>16, <1>17, <1>18, <1>19, <1>20

LEMMA GetQueueLiveStep ==
  ASSUME ReqInv, NEW h \in Hctxs, GetQueueLive(h)
  PROVE  ReqInv'
  <1> USE DEF ReqInv
  <1>0. /\ task \in [Issuers -> TaskRecs] /\ Issuers = Tasks \cup {Worker} /\ Worker \notin Tasks
        /\ \A j \in Issuers : task[j] \in TaskRecs
        /\ None \notin Rqs /\ None \notin Hctxs
    BY Named
  <1>1. UNCHANGED <<setup, bits, waits, wakes, listed, rq, cached, task, pending, depth, killed, freezer, quiesced, timer, walk>>
    BY DEF GetQueueLive, tagVars, queueVars, flagVars, timeVars, walkElse, freezeElse, hotplugElse
  <1>2. /\ cpuhp.st[h] = "inactive" /\ ~(killed /\ users = 0) /\ users' = users + 1 /\ users' \in Int
        /\ cpuhp' \in Hotplugs /\ cpuhp'.missed = cpuhp.missed
        /\ cpuhp'.st[h] = "wait" /\ \A g \in Hctxs \ {h} : cpuhp'.st[g] = cpuhp.st[g]
    <2>1. cpuhp.st[h] = "inactive" /\ cpuhp' = [cpuhp EXCEPT !.st[h] = "wait"] /\ cpuhp \in Hotplugs
          /\ ~(killed /\ users = 0) /\ users' = users + 1 /\ users' \in Int
      BY DEF GetQueueLive, MayWork, Typed
    <2> QED
      BY <2>1 DEF Hotplugs
  <1>10. Typed'
    BY <1>0, <1>1, <1>2 DEF Typed
  <1>11. Hands'
    BY <1>1, HandsFrame
  <1>12. TagsKept'
    BY <1>1, TagsFrame
  <1>13. OneOwner'
    BY <1>1, OwnerFrame
  <1>14. Refs'
    BY <1>1, RefsFrame
  <1>15. Users'
    <2>1. UNCHANGED <<Allocating, Held, Owed, Working>> /\ Draining' = Draining \cup {h} /\ h \notin Draining
      BY <1>1, <1>2 DEF Allocating, Held, Owed, Working, Draining
    <2>2. Cardinality(Draining') = Cardinality(Draining) + 1
      BY <2>1, Finite, FS_AddElement
    <2> QED
      BY <1>2, <2>1, <2>2, Finite DEF Users, Working
  <1>16. WalksPlaced'
    BY <1>1, PlacedFrame
  <1>17. Cancelling'
    BY <1>1, CancelFrame
  <1>18. NotDueYet'
    BY <1>1, DueFrame
  <1>19. Frozen'
    BY <1>0, <1>1, <1>2 DEF Frozen, Freezing
  <1>20. Offline'
    BY <1>0, <1>1, <1>2 DEF Offline, Inactive
  <1> QED
    BY <1>10, <1>11, <1>12, <1>13, <1>14, <1>15, <1>16, <1>17, <1>18, <1>19, <1>20

LEMMA GetQueueDeadStep ==
  ASSUME ReqInv, NEW h \in Hctxs, GetQueueDead(h)
  PROVE  ReqInv'
  <1> USE DEF ReqInv
  <1>0. /\ task \in [Issuers -> TaskRecs] /\ Issuers = Tasks \cup {Worker} /\ Worker \notin Tasks
        /\ \A j \in Issuers : task[j] \in TaskRecs
        /\ None \notin Rqs /\ None \notin Hctxs
    BY Named
  <1>1. UNCHANGED <<setup, bits, waits, wakes, listed, rq, cached, task, pending, users, depth, killed, freezer, quiesced, timer, walk>>
    BY DEF GetQueueDead, tagVars, queueVars, flagVars, timeVars, walkElse, freezeElse, hotplugElse
  <1>2. /\ cpuhp.st[h] = "inactive" /\ killed /\ users = 0
        /\ cpuhp' \in Hotplugs /\ cpuhp'.missed = cpuhp.missed
        /\ cpuhp'.st[h] = "offline" /\ \A g \in Hctxs \ {h} : cpuhp'.st[g] = cpuhp.st[g]
    <2>1. cpuhp.st[h] = "inactive" /\ cpuhp' = [cpuhp EXCEPT !.st[h] = "offline"] /\ cpuhp \in Hotplugs
          /\ killed /\ users = 0
      BY DEF GetQueueDead, MayWork, Typed
    <2> QED
      BY <2>1 DEF Hotplugs
  <1>3. Allocating = {} /\ Held = {}
    BY <1>2, IdleQueue
  <1>10. Typed'
    BY <1>0, <1>1, <1>2 DEF Typed
  <1>11. Hands'
    BY <1>1, HandsFrame
  <1>12. TagsKept'
    BY <1>1, TagsFrame
  <1>13. OneOwner'
    BY <1>1, OwnerFrame
  <1>14. Refs'
    BY <1>1, RefsFrame
  <1>15. Users'
    <2>1. UNCHANGED <<Allocating, Held, Owed, Working>> /\ Draining' = Draining
      BY <1>1, <1>2 DEF Allocating, Held, Owed, Working, Draining
    <2> QED
      BY <1>1, <2>1 DEF Users
  <1>16. WalksPlaced'
    BY <1>1, PlacedFrame
  <1>17. Cancelling'
    BY <1>1, CancelFrame
  <1>18. NotDueYet'
    BY <1>1, DueFrame
  <1>19. Frozen'
    BY <1>1, FrozenFrame
  <1>20. Offline'
    <2>1. (\A r \in Rqs : ~(rq[r].ref > 0)) /\ \A t \in Tasks : task[t].pc # "init"
      BY <1>3 DEF Held, Allocating
    <2> QED
      BY <1>1, <1>2, <2>1 DEF Offline, Inactive
  <1> QED
    BY <1>10, <1>11, <1>12, <1>13, <1>14, <1>15, <1>16, <1>17, <1>18, <1>19, <1>20

LEMMA GetQueueStep ==
  ASSUME ReqInv, NEW h \in Hctxs, GetQueue(h)
  PROVE  ReqInv'
  <1>1. CASE MayWork
    <2>1. GetQueueLive(h)
      BY <1>1 DEF GetQueue, GetQueueLive, hotplugElse, tagVars, timeVars
    <2> QED
      BY <2>1, GetQueueLiveStep
  <1>2. CASE ~MayWork
    <2>1. GetQueueDead(h)
      BY <1>2 DEF GetQueue, GetQueueDead, hotplugElse, tagVars, timeVars
    <2> QED
      BY <2>1, GetQueueDeadStep
  <1> QED
    BY <1>1, <1>2

LEMMA DrainedStep ==
  ASSUME ReqInv, NEW h \in Hctxs, Drained(h)
  PROVE  ReqInv'
  <1> USE DEF ReqInv
  <1>0. /\ task \in [Issuers -> TaskRecs] /\ Issuers = Tasks \cup {Worker} /\ Worker \notin Tasks
        /\ \A j \in Issuers : task[j] \in TaskRecs
        /\ None \notin Rqs /\ None \notin Hctxs
    BY Named
  <1>1. UNCHANGED <<setup, bits, waits, wakes, listed, rq, cached, task, pending, depth, killed, freezer, quiesced, timer, walk>>
    BY DEF Drained, tagVars, queueVars, flagVars, timeVars, walkElse, freezeElse, hotplugElse
  <1> DEFINE late == {task[t].rq : t \in {u \in Tasks : task[u].pc = "init" /\ task[u].h = h}}
  <1>2. /\ cpuhp.st[h] = "wait" /\ ~HasRequests(h) /\ users' = users - 1 /\ users' \in Int
        /\ cpuhp' \in Hotplugs /\ cpuhp'.missed[h] = late /\ \A g \in Hctxs \ {h} : cpuhp'.missed[g] = cpuhp.missed[g]
        /\ cpuhp'.st[h] = "offline" /\ \A g \in Hctxs \ {h} : cpuhp'.st[g] = cpuhp.st[g]
    <2>1. cpuhp.st[h] = "wait" /\ ~HasRequests(h) /\ users' = users - 1 /\ users' \in Int
          /\ cpuhp' = [st |-> [cpuhp.st EXCEPT ![h] = "offline"], missed |-> [cpuhp.missed EXCEPT ![h] = late]]
          /\ cpuhp \in Hotplugs
      BY DEF Drained, Typed
    <2>2. late \in SUBSET Rqs
      BY <1>0 DEF Hands, Tagging
    <2> HIDE DEF late
    <2> QED
      BY <2>1, <2>2 DEF Hotplugs
  <1>10. Typed'
    BY <1>0, <1>1, <1>2 DEF Typed
  <1>11. Hands'
    BY <1>1, HandsFrame
  <1>12. TagsKept'
    BY <1>1, TagsFrame
  <1>13. OneOwner'
    BY <1>1, OwnerFrame
  <1>14. Refs'
    BY <1>1, RefsFrame
  <1>15. Users'
    <2>1. UNCHANGED <<Allocating, Held, Owed, Working>> /\ Draining' = Draining \ {h} /\ h \in Draining
      BY <1>1, <1>2 DEF Allocating, Held, Owed, Working, Draining
    <2>2. Cardinality(Draining') = Cardinality(Draining) - 1
      BY <2>1, Finite, FS_RemoveElement
    <2> QED
      BY <1>2, <2>1, <2>2, Finite DEF Users, Working
  <1>16. WalksPlaced'
    BY <1>1, PlacedFrame
  <1>17. Cancelling'
    BY <1>1, CancelFrame
  <1>18. NotDueYet'
    BY <1>1, DueFrame
  <1>19. Frozen'
    <2>1. Cardinality(Draining) # 0
      BY <1>2, Finite, FS_EmptySet DEF Draining
    <2>2. /\ Cardinality(Allocating) \in Nat /\ Cardinality(Held) \in Nat /\ Cardinality(Owed) \in Nat
          /\ Cardinality(Draining) \in Nat /\ Working \in Nat
      BY Finite DEF Working
    <2>3. users # 0
      BY <2>1, <2>2 DEF Users
    <2> QED
      BY <1>1, <2>3 DEF Frozen, Freezing
  <1>20. Offline'
    <2>1. \A r \in Rqs : rq[r].ref > 0 => rq[r].hctx # h
      BY <1>2 DEF HasRequests, Map, TagsKept, HeldTags, BitsMapped
    <2>2. \A t \in Tasks : task[t].pc = "init" /\ task[t].h = h => task[t].rq \in late
      OBVIOUS
    <2>3. \A g \in Hctxs : Inactive(g) => g \in setup.unplugged
      BY DEF Offline
    <2>4. Inactive(h)
      BY <1>2 DEF Inactive
    <2> HIDE DEF late
    <2> QED
      BY <1>1, <1>2, <2>1, <2>2, <2>3, <2>4 DEF Offline, Inactive
  <1> QED
    BY <1>10, <1>11, <1>12, <1>13, <1>14, <1>15, <1>16, <1>17, <1>18, <1>19, <1>20

LEMMA NotifyOnlineStep ==
  ASSUME ReqInv, NEW h \in Hctxs, NotifyOnline(h)
  PROVE  ReqInv'
  <1> USE DEF ReqInv
  <1>0. /\ task \in [Issuers -> TaskRecs] /\ Issuers = Tasks \cup {Worker} /\ Worker \notin Tasks
        /\ \A j \in Issuers : task[j] \in TaskRecs
        /\ None \notin Rqs /\ None \notin Hctxs
    BY Named
  <1>1. UNCHANGED <<setup, bits, waits, wakes, listed, rq, cached, task, pending, users, depth, killed, freezer, quiesced, timer, walk>>
    BY DEF NotifyOnline, tagVars, queueVars, flagVars, timeVars, walkElse, freezeElse, hotplugElse
  <1>2. /\ cpuhp.st[h] = "offline"
        /\ cpuhp' \in Hotplugs /\ \A g \in Hctxs \ {h} : cpuhp'.missed[g] = cpuhp.missed[g]
        /\ cpuhp'.st[h] = "online" /\ \A g \in Hctxs \ {h} : cpuhp'.st[g] = cpuhp.st[g]
    <2>1. cpuhp.st[h] = "offline" /\ cpuhp \in Hotplugs
          /\ cpuhp' = [st |-> [cpuhp.st EXCEPT ![h] = "online"], missed |-> [cpuhp.missed EXCEPT ![h] = {}]]
      BY DEF NotifyOnline, Typed
    <2> QED
      BY <2>1 DEF Hotplugs
  <1>10. Typed'
    BY <1>0, <1>1, <1>2 DEF Typed
  <1>11. Hands'
    BY <1>1, HandsFrame
  <1>12. TagsKept'
    BY <1>1, TagsFrame
  <1>13. OneOwner'
    BY <1>1, OwnerFrame
  <1>14. Refs'
    BY <1>1, RefsFrame
  <1>15. Users'
    <2>1. UNCHANGED <<Allocating, Held, Owed, Working>> /\ Draining' = Draining
      BY <1>1, <1>2 DEF Allocating, Held, Owed, Working, Draining
    <2> QED
      BY <1>1, <2>1 DEF Users
  <1>16. WalksPlaced'
    BY <1>1, PlacedFrame
  <1>17. Cancelling'
    BY <1>1, CancelFrame
  <1>18. NotDueYet'
    BY <1>1, DueFrame
  <1>19. Frozen'
    BY <1>1, FrozenFrame
  <1>20. Offline'
    BY <1>0, <1>1, <1>2 DEF Offline, Inactive
  <1> QED
    BY <1>10, <1>11, <1>12, <1>13, <1>14, <1>15, <1>16, <1>17, <1>18, <1>19, <1>20

-----------------------------------------------------------------------------
(* The invariant, and what follows from it. *)
LEMMA InitHolds == Init => ReqInv
  <1> SUFFICES ASSUME NEW s \in Setups, InitWith(s) PROVE ReqInv
    BY DEF Init
  <1> USE DEF InitWith
  <1>0. /\ s.reqs \in [Tasks -> Nat] /\ s.ios \in Nat
        /\ IsFiniteSet(Rqs) /\ Issuers = Tasks \cup {Worker} /\ Worker \in Issuers /\ Tasks \subseteq Issuers
        /\ None \notin Rqs /\ None \notin Hctxs /\ Cqs \subseteq Hctxs
    BY RequestAssumption, Constants
  <1>1. /\ task \in [Issuers -> TaskRecs] /\ \A i \in Issuers : task[i].pc = "out" /\ task[i].rq = None /\ task[i].h = None
    <2>1. ASSUME NEW i \in Issuers PROVE (IF i = Worker THEN 0 ELSE s.reqs[i]) \in Nat
      BY <1>0
    <2>2. ASSUME NEW i \in Issuers
          PROVE  /\ task[i] \in TaskRecs /\ task[i].pc = "out" /\ task[i].rq = None /\ task[i].h = None
      <3> DEFINE n == IF i = Worker THEN 0 ELSE s.reqs[i]
      <3>1. task[i] = [pc |-> "out", h |-> None, rq |-> None, left |-> n, ios |-> s.ios, nowait |-> FALSE]
        OBVIOUS
      <3>2. n \in Nat
        BY <2>1
      <3> HIDE DEF n
      <3> QED
        BY <1>0, <3>1, <3>2 DEF TaskRecs
    <2> QED
      BY <2>2
  <1>2. \A r \in Rqs : rq[r] = Free /\ rq[r].ref = 0 /\ rq[r].st = "idle" /\ ~rq[r].dev
    BY DEF Free
  <1>3. /\ \A w \in {"queue", "set"} : walk[w] \in WalkRecs /\ walk[w].left = {} /\ walk[w].cur = None
        /\ walk \in [{"queue", "set"} -> WalkRecs]
    BY DEF NoWalk, WalkRecs
  <1>4. timer \in Timers /\ timer.pc = "idle" /\ timer.phase = "check"
    BY AtRestType
  <1>5. cpuhp \in Hotplugs /\ \A h \in Hctxs : cpuhp.st[h] = "online"
    BY DEF Hotplugs
  <1>6. \A t \in Tasks : cached[t] = <<>> /\ DOMAIN cached[t] = {}
    OBVIOUS
  <1>7. Typed
    <2>1. cached \in [Tasks -> Seq(Rqs)] /\ waits \in [Tasks -> Cqs \cup {None}] /\ wakes \in [Cqs -> Nat]
      OBVIOUS
    <2>2. rq \in [Rqs -> RqRecs]
      BY FreeType
    <2> QED
      <3>1. /\ setup \in Setups /\ bits \subseteq Rqs /\ listed \subseteq Rqs /\ pending \subseteq Rqs
            /\ users \in Int /\ depth \in Int
        OBVIOUS
      <3>3. killed \in BOOLEAN /\ quiesced \in BOOLEAN
        BY Zenon
      <3>2. freezer \in [Freezers -> {"out", "wait", "frozen", "done"}]
        OBVIOUS
      <3> QED
        BY <1>1, <1>3, <1>4, <1>5, <2>1, <2>2, <3>1, <3>2, <3>3 DEF Typed
  <1>8. Hands
    BY <1>0, <1>1 DEF Hands, Allocating, Tagging, Issuing
  <1>9. TagsKept
    BY <1>0, <1>1, <1>2 DEF TagsKept, HeldTags, BitsMapped, FreeIsFree, BitsHeld, NewTags, Tagging
  <1>10. OneOwner
    BY <1>0, <1>1, <1>2, <1>6 DEF OneOwner, CachedApart, IssuedApart, PendingIdle, StateSuits, Issuing
  <1>11. Refs
    <2>1. OwnedIs
      BY OwnedMeans
    <2>2. \A r \in Rqs : r \notin Owned
      BY <1>1, <1>2, <1>6, <2>1 DEF OwnedIs, Issuing
    <2> QED
      BY <1>0, <1>2, <1>3, <2>2 DEF Refs, OnWalk, Has
  <1>12. Users
    <2>1. Allocating = {} /\ Held = {} /\ Draining = {}
      BY <1>0, <1>1, <1>2, <1>5 DEF Allocating, Held, Draining
    <2>2. Owed = {}
      <3>1. \A c \in Cqs : 1 .. wakes[c] = {}
        OBVIOUS
      <3> QED
        BY <3>1 DEF Owed
    <2> QED
      BY <1>4, <2>1, <2>2, FS_EmptySet DEF Users, Working
  <1>13. WalksPlaced /\ Cancelling
    BY <1>0, <1>1, <1>2, <1>3, <1>4 DEF WalksPlaced, Walked, Cancelling, Sections
  <1>14. NotDueYet
    BY <1>0, <1>1, <1>4 DEF NotDueYet, Sections
  <1>15. Frozen
    <2>1. Freezing = {} /\ Cardinality({}) = 0
      BY FS_EmptySet DEF Freezing
    <2> QED
      BY <2>1 DEF Frozen
  <1>16. Offline
    BY <1>2, <1>5 DEF Offline, Inactive
  <1> QED
    BY <1>7, <1>8, <1>9, <1>10, <1>11, <1>12, <1>13, <1>14, <1>15, <1>16 DEF ReqInv

LEMMA TaskSteps ==
  ASSUME ReqInv, NEW t \in Tasks, Enter(t) \/ UseCached(t) \/ FreePlugRqs(t) \/ Alloc(t)
  PROVE  ReqInv'
  BY EnterStep, UseCachedStep, FreePlugRqsStep, AllocBatchStep, GetTagStep, TestInactiveStep,
     CtxInitOneStep, PrepareToWaitStep, SleepStep, WokenStep DEF Alloc

LEMMA TimerSteps ==
  ASSUME ReqInv, Timer
  PROVE  ReqInv'
  BY TimeoutWorkStep, LookAtStep, CheckEndsStep, HandleStartsStep, WorkEndsStep, TimedOutStep, HandlerStep,
     DrainStep, CancelStep, CancelledStep, PutHandledStep, FindNextStep DEF Timer

LEMMA StepHolds == ReqInv /\ [Next]_vars => ReqInv'
  <1> SUFFICES ASSUME ReqInv, [Next]_vars PROVE ReqInv'
    OBVIOUS
  <1>1. CASE \E t \in Tasks : Enter(t) \/ UseCached(t) \/ FreePlugRqs(t) \/ Alloc(t)
    BY <1>1, TaskSteps
  <1>2. CASE \E i \in Issuers : Run(i)
    BY <1>2, IssueStep, StartRequestStep, SubmitStep DEF Run
  <1>3. CASE \E r \in Rqs : Take(r) \/ Complete(r) \/ Requeue(r) \/ PassDeadline(r)
    BY <1>3, TakeStep, CompleteStep, RequeueStep, PassDeadlineStep
  <1>4. CASE \E c \in Cqs : WakeUp(c)
    BY <1>4, WakeUpStep
  <1>5. CASE End
    BY <1>5, EndRequestsStep DEF End
  <1>6. CASE Timer
    BY <1>6, TimerSteps
  <1>7. CASE \E f \in Freezers : FreezeStart(f) \/ FreezeWait(f) \/ Unfreeze(f)
    BY <1>7, FreezeStartStep, FreezeWaitStep, UnfreezeStep
  <1>8. CASE \E h \in Hctxs : NotifyOffline(h) \/ Unplug(h) \/ NotifyOnline(h)
    BY <1>8, NotifyOfflineStep, GetQueueStep, DrainedStep, NotifyOnlineStep DEF Unplug
  <1>9. CASE UNCHANGED vars
    <2>1. Same
      BY <1>9 DEF vars, Same, tagVars, queueVars, flagVars, timeVars
    <2> QED
      BY <2>1, SameKeeps
  <1> QED
    BY <1>1, <1>2, <1>3, <1>4, <1>5, <1>6, <1>7, <1>8, <1>9 DEF Next

(* The inductive invariant holds in every state. *)
THEOREM RequestInvariance == Spec => []ReqInv
  BY InitHolds, StepHolds, PTL DEF Spec

LEMMA InvType == ReqInv => TypeOK
  <1> SUFFICES ASSUME ReqInv PROVE TypeOK
    OBVIOUS
  <1> USE DEF ReqInv
  <1>1. \A r \in Rqs : rq[r].ref \in 0 .. 3
    BY DEF Refs, OnWalk, Has
  <1>2. rq \in [Rqs -> [st : {"idle", "flight", "complete"}, ref : 0 .. 3, hctx : Hctxs \cup {None},
                        dev : BOOLEAN, late : BOOLEAN, out : BOOLEAN]]
    BY <1>1 DEF Typed, RqRecs
  <1>3. users \in Nat
    <2>1. /\ Cardinality(Allocating) \in Nat /\ Cardinality(Held) \in Nat /\ Cardinality(Owed) \in Nat
          /\ Cardinality(Draining) \in Nat /\ Working \in Nat
      BY Finite DEF Working
    <2> QED
      BY <2>1 DEF Users
  <1>4. depth \in 0 .. Cardinality(Freezers)
    <2>1. Freezing \subseteq Freezers
      BY DEF Freezing
    <2>2. Cardinality(Freezing) <= Cardinality(Freezers) /\ Cardinality(Freezing) \in Nat /\ Cardinality(Freezers) \in Nat
      BY <2>1, Constants, FS_Subset, FS_CardinalityType
    <2> QED
      BY <2>2 DEF Frozen
  <1>5. /\ \A w \in {"queue", "set"} : walk[w].cur \in Rqs \cup {None}
        /\ cpuhp.st \in [Hctxs -> {"online", "inactive", "wait", "offline"}]
        /\ cpuhp.missed \in [Hctxs -> SUBSET Rqs]
    BY Placed DEF Typed, Hotplugs
  <1> QED
    BY <1>2, <1>3, <1>4, <1>5 DEF TypeOK, Typed

(* No reference to a request or to the queue is lost or dropped twice, whoever *)
(* ends a request meanwhile: the owner, a walk or a handler that cancels       *)
(* (blk-mq-tag.c:283, blk-mq.c:206, 890).                                      *)
THEOREM ReferencesBalance == Spec => []RefsBalance
  <1>1. ReqInv => RefsBalance
    BY InvType, RefsEquivalent, UsersEquivalent DEF ReqInv, RefsBalance
  <1> QED
    BY <1>1, RequestInvariance, PTL

(* A tag is not given out again while its request is owned or walked upon      *)
(* (blk-mq.c:1654, 784).                                                       *)
THEOREM TagsAreKept == Spec => []HeldKeepsTag
  <1>1. ReqInv => HeldKeepsTag
    <2> SUFFICES ASSUME ReqInv, NEW r \in Rqs, rq[r].ref > 0 \/ Walks(r) > 0
                 PROVE  r \in bits /\ rq[r].hctx # None
      BY DEF HeldKeepsTag
    <2> USE DEF ReqInv
    <2>1. Walks(r) = OnWalk("queue", r) + OnWalk("set", r)
      BY WalksCount
    <2>2. rq[r].ref > 0
      BY <2>1 DEF Refs, OnWalk, Has
    <2> QED
      BY <2>2, Constants DEF TagsKept, HeldTags
  <1> QED
    BY <1>1, RequestInvariance, PTL

LEMMA CallsOnlyThere ==
  ASSUME Typed, [Next]_vars, timer.pc # "call", timer'.pc = "call"
  PROVE  TimedOut
  <1>0. timer \in Timers
    BY DEF Typed
  <1>1. timer' # timer
    OBVIOUS
  <1>2. ~UNCHANGED vars
    BY <1>1 DEF vars, timeVars
  <1>3. CASE \E t \in Tasks : Enter(t) \/ UseCached(t) \/ FreePlugRqs(t) \/ Alloc(t)
    <2>1. PICK t \in Tasks : Enter(t) \/ UseCached(t) \/ FreePlugRqs(t) \/ Alloc(t)
      BY <1>3
    <2>2. ~Enter(t) /\ ~UseCached(t) /\ ~FreePlugRqs(t)
      BY <1>1 DEF Enter, UseCached, FreePlugRqs, timeVars
    <2>3. ~AllocBatch(t)
      BY <1>1 DEF AllocBatch, timeVars
    <2>4. ~GetTag(t) /\ ~CtxInitOne(t) /\ ~Sleep(t) /\ ~Woken(t)
      BY <1>1 DEF GetTag, CtxInitOne, Sleep, Woken, timeVars
    <2>5. ~TestInactive(t) /\ ~PrepareToWait(t)
      BY <1>1 DEF TestInactive, PrepareToWait, timeVars
    <2> QED
      BY <2>1, <2>2, <2>3, <2>4, <2>5 DEF Alloc
  <1>4. CASE \E i \in Issuers : Run(i)
    BY <1>0, <1>1, <1>4 DEF Run, Issue, StartRequest, Submit, timeVars, Timers
  <1>5. CASE \E r \in Rqs : Take(r) \/ Complete(r) \/ Requeue(r) \/ PassDeadline(r)
    BY <1>1, <1>5 DEF Take, Complete, Requeue, PassDeadline, timeVars
  <1>6. CASE (\E c \in Cqs : WakeUp(c)) \/ End
    BY <1>1, <1>6 DEF WakeUp, End, EndRequests, timeVars
  <1>7. CASE \E f \in Freezers : FreezeStart(f) \/ FreezeWait(f) \/ Unfreeze(f)
    BY <1>1, <1>7 DEF FreezeStart, FreezeWait, Unfreeze, freezeElse, timeVars
  <1>8. CASE \E h \in Hctxs : NotifyOffline(h) \/ Unplug(h) \/ NotifyOnline(h)
    BY <1>1, <1>8 DEF NotifyOffline, Unplug, GetQueue, Drained, NotifyOnline, hotplugElse, timeVars
  <1>9. CASE Timer
    <2>1. CASE TimeoutWork \/ WorkEnds
      <3>1. timer' = timer \/ timer' = AtRest \/ timer' = [AtRest EXCEPT !.pc = "walk", !.due = {r \in Rqs : rq[r].late}]
        BY <2>1 DEF TimeoutWork, WorkEnds
      <3>2. AtRest.pc # "call"
        BY AtRestType
      <3>3. [AtRest EXCEPT !.pc = "walk", !.due = {r \in Rqs : rq[r].late}].pc = "walk"
        BY DEF AtRest
      <3> QED
        BY <1>1, <3>1, <3>2, <3>3
    <2>2. CASE LookAt \/ CheckEnds \/ HandleStarts \/ Handler \/ Drain \/ Cancelled \/ PutHandled
      BY <1>0, <2>2 DEF LookAt, CheckEnds, HandleStarts, Handler, Drain, Cancelled, PutHandled, Timers
    <2>3. CASE Cancel \/ \E w \in {"queue", "set"} : FindNext(w)
      BY <1>1, <2>3 DEF Cancel, FindNext
    <2> QED
      BY <1>9, <2>1, <2>2, <2>3 DEF Timer
  <1> QED
    BY <1>2, <1>3, <1>4, <1>5, <1>6, <1>7, <1>8, <1>9 DEF Next

(* The driver's timeout handler is not called for a request whose submission   *)
(* is under way: those that began before the first walk ended are waited for,  *)
(* and what is started later is not due (blk-mq.c:1700-1741).                  *)
THEOREM HandlerComesLater == Spec => TimedOutWasSubmitted
  <1>1. ReqInv /\ [Next]_vars =>
          [timer.pc # "call" /\ timer'.pc = "call" => \A i \in Issuers : task[i].rq # walk["queue"].cur]_vars
    <2> SUFFICES ASSUME ReqInv, [Next]_vars, timer.pc # "call", timer'.pc = "call"
                 PROVE  \A i \in Issuers : task[i].rq # walk["queue"].cur
      OBVIOUS
    <2> USE DEF ReqInv
    <2>1. TimedOut
      BY CallsOnlyThere
    <2>2. /\ walk["queue"].cur \in Rqs /\ timer.phase = "handle" /\ walk["queue"].cur \in timer.due
          /\ rq[walk["queue"].cur].st = "flight"
      BY <2>1, Placed DEF TimedOut, Expired, Counted
    <2>3. \A i \in Issuers : task[i].rq = walk["queue"].cur => task[i].pc \in Tagging \cup Issuing
      BY <2>2 DEF Hands
    <2>4. \A i \in Issuers : task[i].pc \in Tagging => task[i].rq # walk["queue"].cur
      <3>1. \A i \in Issuers : task[i].pc \in Tagging => i \in Tasks /\ rq[task[i].rq].ref = 0
        BY Named DEF Hands, Tagging, Issuing, TagsKept, NewTags
      <3>2. rq[walk["queue"].cur].ref > 0
        BY <2>2, WalkHolds
      <3> QED
        BY <3>1, <3>2
    <2>5. \A i \in Issuers : task[i].pc = "issue" => task[i].rq # walk["queue"].cur
      BY <2>2 DEF OneOwner, StateSuits
    <2>6. \A i \in Issuers : task[i].pc \in {"timer", "flight"} => task[i].rq # walk["queue"].cur
      BY <2>2 DEF NotDueYet, Sections
    <2> QED
      BY <2>3, <2>4, <2>5, <2>6 DEF Issuing
  <1> QED
    BY <1>1, RequestInvariance, PTL DEF Spec, TimedOutWasSubmitted

(* Who waits until no request is left, to freeze the queue, to disable the     *)
(* controller or for a CPU to go, finds none left when he goes ahead           *)
(* (blk-mq.c:206, 3768; nvme_disable_io_queues's callers).                     *)
THEOREM NothingIsLeft == Spec => []DrainsLeaveNone
  <1>1. ReqInv => DrainsLeaveNone
    <2> SUFFICES ASSUME ReqInv PROVE DrainsLeaveNone
      OBVIOUS
    <2> USE DEF ReqInv
    <2>1. FrozenIsIdle
      <3> SUFFICES ASSUME NEW f \in Freezers, freezer[f] = "frozen"
                   PROVE  bits = {} /\ Allocating = {} /\ timer.pc = "idle"
        BY DEF FrozenIsIdle
      <3>1. Allocating = {} /\ Held = {} /\ timer.pc = "idle"
        BY IdleQueue DEF Frozen
      <3>2. \A r \in bits : FALSE
        BY <3>1 DEF TagsKept, BitsHeld, Held, Allocating, Tagging, Typed
      <3> QED
        BY <3>1, <3>2
    <2>2. CancelLeavesNone
      BY Constants DEF CancelLeavesNone, Cancelling, Walked
    <2>3. InactiveDrained
      BY DEF InactiveDrained, Offline
    <2> QED
      BY <2>1, <2>2, <2>3 DEF DrainsLeaveNone
  <1> QED
    BY <1>1, RequestInvariance, PTL
=============================================================================
