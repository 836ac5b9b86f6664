--------------------------- MODULE BlkFlush_proofs ---------------------------
(***************************************************************************)
(* Proofs about the flush machinery, for any flush queues, requests, walks *)
(* and setups: the lists keep apart, a flush request that a walk holds is  *)
(* not reused, and what ended is on the medium as its flags promise.       *)
(***************************************************************************)
EXTENDS BlkFlush, FiniteSetTheorems, SequenceTheorems, WellFoundedInduction, TLAPS

Stages == {"pre", "data", "post"}
Flushed(r) == Policy(r) \cap {"pre", "post"} # {}
On(s, x) == \E i \in DOMAIN s : s[i] = x

(* A flush queue, and the machinery's part of the state. *)
FqType == [list : [{0, 1} -> Seq(Rqs)], pend : {0, 1}, run : {0, 1}, data : SUBSET Rqs, old : BOOLEAN,
           status : BOOLEAN, rq : [ref : Nat, tag : Rqs \cup {None}]]
MachineType == [fq : [Fqs -> FqType], seq : [Rqs -> SUBSET Stages], result : [Rqs -> {"ok", "error", None}],
                requeue : Seq(Items), bug : {FALSE}, failed : SUBSET Rqs]

(* What else there is: requests and flush requests on their way to the     *)
(* device and there, references of walks, writes.                          *)
Env == [out |-> dispatch \cup sent, sent |-> sent, new |-> new,
        walks |-> [f \in Fqs |-> Cardinality({w \in Walkers : held[w] = f})],
        durable |-> durable, cached |-> cached, snap |-> snap, before |-> before]

Queued(S, E, x) == x \in E.out \/ On(S.requeue, x)

(* The steps of a request are taken in their order. *)
InOrder(r, done) ==
  /\ Stages \ Policy(r) \subseteq done
  /\ "data" \in done \cap Policy(r) => "pre" \in done
  /\ "post" \in done \cap Policy(r) => {"pre", "data"} \subseteq done

(* Where a request is, and how far. *)
Placed(S, E, r) ==
  LET Q == S.fq[FqOf[r]]
      listed1 == On(Q.list[0], r) \/ On(Q.list[1], r)
  IN /\ r \in E.new => ~listed1 /\ r \notin Q.data /\ ~Queued(S, E, r) /\ S.result[r] = None /\ S.seq[r] = {}
     /\ listed1 => /\ Flushed(r) /\ r \notin Q.data /\ ~Queued(S, E, r) /\ S.result[r] = None
                   /\ CurSeq[S.seq[r]] \in {"pre", "post"}
     /\ r \in Q.data => Flushed(r) /\ Queued(S, E, r) /\ S.result[r] = None /\ CurSeq[S.seq[r]] = "data"
     /\ Queued(S, E, r) => S.result[r] = None /\ (Flushed(r) => r \in Q.data)
     /\ Flushed(r) /\ r \notin E.new /\ S.result[r] # "error" => InOrder(r, S.seq[r])
     /\ Flushed(r) /\ S.result[r] = "ok" => S.seq[r] = Stages

(* The lists of a flush queue, and its flush with n references besides     *)
(* those of walks and its own.                                             *)
Kept(S, E, f, n) ==
  LET Q == S.fq[f] IN
  /\ \A i \in {0, 1} : IsInjective(Q.list[i]) /\ \A r \in Rqs : On(Q.list[i], r) => FqOf[r] = f
  /\ \A r \in Rqs : ~(On(Q.list[0], r) /\ On(Q.list[1], r))
  /\ \A r \in Q.data : FqOf[r] = f
  /\ Q.rq.ref = n + E.walks[f] + (IF Queued(S, E, f) THEN 1 ELSE 0)
  /\ Q.pend = Q.run <=> Q.rq.ref = 0
  /\ Q.pend = Q.run <=> Q.rq.tag = None
  /\ Q.pend # Q.run => On(Q.list[Q.run], Q.rq.tag)
  /\ (Q.pend = Q.run \/ Queued(S, E, f)) => ~Q.status

Structure(S, E) ==
  /\ S \in MachineType
  /\ IsInjective(S.requeue) /\ \A x \in Items : ~(On(S.requeue, x) /\ x \in E.out)
  /\ \A f \in Fqs : Kept(S, E, f, 0)
  /\ \A r \in Rqs : Placed(S, E, r)

(* What else there is, when r is about to leave its place for the next. *)
EnvOk(E) == E.sent \subseteq E.out /\ E.walks \in [Fqs -> Nat]
Ready(S, E, r, done, err) ==
  LET Q == S.fq[FqOf[r]] IN
  /\ S \in MachineType
  /\ IsInjective(S.requeue) /\ \A x \in Items : ~(On(S.requeue, x) /\ x \in E.out)
  /\ \A f \in Fqs : Kept(S, E, f, 0)
  /\ \A q \in Rqs \ {r} : Placed(S, E, q)
  /\ Flushed(r) /\ r \notin E.new /\ ~Queued(S, E, r) /\ S.result[r] = None
  /\ done \subseteq Stages /\ (~err => InOrder(r, done))
  /\ Q.pend # Q.run => ~On(Q.list[Q.run], r)

(* U is S with r moved to where its next step is taken. *)
Moved(S, U, r, done, next, err) ==
  LET f == FqOf[r]
      Q == S.fq[f]
      R == U.fq[f]
  IN /\ U \in MachineType /\ U.failed = S.failed
     /\ U.seq[r] = done /\ U.result[r] = IF next = "done" THEN (IF err THEN "error" ELSE "ok") ELSE S.result[r]
     /\ \A q \in Rqs \ {r} : U.seq[q] = S.seq[q] /\ U.result[q] = S.result[q]
     /\ \A g \in Fqs \ {f} : U.fq[g] = S.fq[g]
     /\ R.pend = Q.pend /\ R.run = Q.run /\ R.status = Q.status /\ R.rq = Q.rq
     /\ \A i \in {0, 1} :
          /\ IsInjective(R.list[i])
          /\ \A x : On(R.list[i], x) <=>
                 (On(Q.list[i], x) /\ x # r) \/ (x = r /\ next \in {"pre", "post"} /\ i = Q.pend)
     /\ R.data = (Q.data \ {r}) \cup (IF next = "data" THEN {r} ELSE {})
     /\ IsInjective(U.requeue)
     /\ \A x : On(U.requeue, x) <=> On(S.requeue, x) \/ (x = r /\ next = "data")

(* What stays when the machinery moves r: others, the flush under way. *)
Elsewhere(S, V, E, r) ==
  LET f == FqOf[r] IN
  /\ V.failed = S.failed /\ V.fq[f].run = S.fq[f].run
  /\ \A g \in Fqs \ {f} : V.fq[g] = S.fq[g] /\ (Queued(V, E, g) <=> Queued(S, E, g))
  /\ \A q \in Rqs \ {r} :
       /\ V.seq[q] = S.seq[q] /\ V.result[q] = S.result[q]
       /\ \A i \in {0, 1} : On(V.fq[f].list[i], q) <=> On(S.fq[f].list[i], q)
       /\ Queued(V, E, q) <=> Queued(S, E, q)
  /\ \A i \in {0, 1} : On(V.fq[f].list[i], r) => S.fq[f].pend = i
  /\ \/ /\ V.fq[f].pend = S.fq[f].pend /\ V.fq[f].status = S.fq[f].status
        /\ Queued(V, E, f) <=> Queued(S, E, f)
     \/ /\ S.fq[f].pend = S.fq[f].run /\ V.fq[f].pend # V.fq[f].run
        /\ On(V.requeue, f) /\ f \notin E.out

(* A reference to the flush of f is about to be put. *)
Ending(S, E, f) ==
  /\ S \in MachineType
  /\ IsInjective(S.requeue) /\ \A x \in Items : ~(On(S.requeue, x) /\ x \in E.out)
  /\ Kept(S, E, f, 1) /\ \A g \in Fqs \ {f} : Kept(S, E, g, 0)
  /\ \A r \in Rqs : Placed(S, E, r)

(* The flush that ends, before and while it passes on those that waited.   *)
Over(S, f) ==
  LET Q == S.fq[f]
      R == [Q EXCEPT !.rq = [ref |-> Q.rq.ref - 1, tag |-> TagReturned(Q)], !.status = FALSE, !.run = 1 - @]
  IN [S EXCEPT !.fq[f] = R, !.bug = @ \/ Q.pend = Q.run]
PassOn(U, f, r, failing) ==
  [CompleteSeq(U, f, r, {CurSeq[U.seq[r]]}, failing) EXCEPT !.bug = @ \/ CurSeq[U.seq[r]] \notin {"pre", "post"}]

FlushTypes ==
  /\ setup \in Setups /\ dispatch \subseteq Items /\ sent \subseteq Items /\ dispatch \cap sent = {}
  /\ held \in [Walkers -> Fqs \cup {None}] /\ new \subseteq Rqs
  /\ snap \in [Fqs -> SUBSET Rqs] /\ before \in [Rqs -> SUBSET Rqs] /\ durable \subseteq Rqs /\ cached \subseteq Rqs

FInv == FlushTypes /\ new \cap cached = {} /\ Structure(Now, Env)

(* What a request relies on being on the medium. *)
Needs(S, E, r) == IF CurSeq[S.seq[r]] = "pre" THEN E.before[r] ELSE {r}

Promised(S, E, r) ==
  /\ E.before[r] \subseteq E.cached
  /\ Flushed(r) /\ "data" \in S.seq[r] \cap Policy(r) /\ S.result[r] # "error" => r \in E.cached
  /\ setup.kind[r].data /\ S.result[r] = "ok" => r \in E.cached
  /\ "pre" \in Policy(r) /\ (r \in E.cached \/ ("pre" \in S.seq[r] /\ S.result[r] # "error")) => E.before[r] \subseteq E.durable
  /\ "post" \in Policy(r) \cap S.seq[r] /\ S.result[r] # "error" => r \in E.durable
  /\ setup.kind[r].fua /\ setup.fua /\ r \in E.cached => r \in E.durable
  /\ r \in E.cached /\ ~setup.cache => r \in E.durable

(* What waits for the flush under way is covered by it. *)
Covered(S, E, f) ==
  LET Q == S.fq[f] IN
  Q.pend # Q.run /\ ~Q.status =>
    \A r \in Rqs : On(Q.list[Q.run], r) =>
      /\ f \in E.sent => Needs(S, E, r) \subseteq E.snap[f]
      /\ ~Queued(S, E, f) => Needs(S, E, r) \subseteq E.durable

Durable(S, E) == (\A r \in Rqs : Promised(S, E, r)) /\ \A f \in Fqs : Covered(S, E, f)

EndingWell(S, E, f, err) ==
  /\ \A r \in Rqs : Promised(S, E, r)
  /\ \A g \in Fqs \ {f} : Covered(S, E, g)
  /\ ~err => Covered(S, E, f) /\ (S.fq[f].rq.ref = 1 \/ ~S.fq[f].status)

(* At most one walk, or no failure: with two walks one may overwrite what  *)
(* the completion reports (FailureIsReported).                             *)
Reliable == setup.errs = 0 \/ \A w, v \in Walkers : setup.walks[w] > 0 /\ setup.walks[v] > 0 => w = v

Budgets ==
  /\ budget \in [errs : Nat, retries : Nat, walks : [Walkers -> Nat]] /\ budget.errs <= setup.errs
  /\ \A w \in Walkers : budget.walks[w] <= setup.walks[w] /\ (held[w] # None => setup.walks[w] > 0)
  /\ setup.errs = 0 => \A f \in Fqs : ~fq[f].status

DInv == Reliable => Durable(Now, Env) /\ Budgets

-----------------------------------------------------------------------------
(* Sequences as lists without repetition. *)

LEMMA ToSetOn == \A s, x : x \in ToSet(s) <=> On(s, x)
  BY DEF ToSet, On

LEMMA AppendOn ==
  ASSUME NEW X, NEW s \in Seq(X), NEW e \in X
  PROVE  /\ Append(s, e) \in Seq(X) /\ Append(s, e) # << >>
         /\ \A x : On(Append(s, e), x) <=> On(s, x) \/ x = e
         /\ IsInjective(s) /\ ~On(s, e) => IsInjective(Append(s, e))
  <1>1. /\ Append(s, e) \in Seq(X) /\ Len(Append(s, e)) = Len(s) + 1 /\ Len(s) \in Nat
        /\ \A i \in 1 .. Len(s) : Append(s, e)[i] = s[i]
        /\ Append(s, e)[Len(s) + 1] = e
    OBVIOUS
  <1>2. DOMAIN s = 1 .. Len(s) /\ DOMAIN Append(s, e) = 1 .. Len(s) + 1
    BY <1>1
  <1>3. Append(s, e) # << >>
    BY <1>1
  <1>4. \A i : i \in 1 .. Len(s) + 1 <=> i \in 1 .. Len(s) \/ i = Len(s) + 1
    BY <1>1
  <1>5. \A x : On(Append(s, e), x) <=> On(s, x) \/ x = e
    BY <1>1, <1>2, <1>4 DEF On
  <1>6. IsInjective(s) /\ ~On(s, e) => IsInjective(Append(s, e))
    BY <1>1, <1>2, <1>4 DEF On, IsInjective
  <1> QED
    BY <1>1, <1>3, <1>5, <1>6

LEMMA ConsOn ==
  ASSUME NEW X, NEW s \in Seq(X), NEW e \in X
  PROVE  /\ <<e>> \o s \in Seq(X)
         /\ \A x : On(<<e>> \o s, x) <=> On(s, x) \/ x = e
         /\ IsInjective(s) /\ ~On(s, e) => IsInjective(<<e>> \o s)
  <1> DEFINE t == <<e>> \o s
  <1>1. /\ t \in Seq(X) /\ Len(t) = Len(s) + 1 /\ Len(s) \in Nat
        /\ t[1] = e /\ \A i \in 1 .. Len(s) : t[i + 1] = s[i]
    OBVIOUS
  <1>2. DOMAIN s = 1 .. Len(s) /\ DOMAIN t = 1 .. Len(s) + 1
    BY <1>1
  <1>3. \A i \in DOMAIN t : i = 1 \/ (i - 1 \in DOMAIN s /\ t[i] = s[i - 1])
    BY <1>1, <1>2
  <1>4. \A i \in DOMAIN s : i + 1 \in DOMAIN t /\ t[i + 1] = s[i]
    BY <1>1, <1>2
  <1>5. 1 \in DOMAIN t /\ t[1] = e
    BY <1>1, <1>2
  <1>6. \A x : On(t, x) <=> On(s, x) \/ x = e
    <2> HIDE DEF t
    <2> QED
      BY <1>3, <1>4, <1>5 DEF On
  <1>7. IsInjective(s) /\ ~On(s, e) => IsInjective(t)
    <2> SUFFICES ASSUME IsInjective(s), ~On(s, e), NEW i \in DOMAIN t, NEW j \in DOMAIN t, t[i] = t[j]
                 PROVE  i = j
      BY DEF IsInjective
    <2>1. i \in Nat /\ j \in Nat
      BY <1>1, <1>2
    <2> HIDE DEF t
    <2> QED
      BY <1>3, <1>5, <2>1 DEF On, IsInjective
  <1> QED
    BY <1>1, <1>6, <1>7

LEMMA SmallestIs ==
  ASSUME NEW T, T \subseteq Nat, T # {}
  PROVE  Min(T) \in T /\ \A y \in T : Min(T) <= y
  <1> DEFINE R == {ss \in Nat \X Nat : ss[1] < ss[2]}
  <1>1. IsWellFoundedOn(R, Nat)
    BY NatLessThanWellFounded DEF OpToRel
  <1> HIDE DEF R
  <1>2. PICK x \in T : \A y \in T : ~(<<y, x>> \in R)
    BY <1>1, WFMin
  <1>3. \A x1, y \in Nat : <<y, x1>> \in R <=> y < x1
    BY DEF R
  <1>4. \A y \in T : x \in Nat /\ y \in Nat /\ ~(y < x)
    BY <1>2, <1>3
  <1>5. x \in T /\ \A y \in T : x <= y
    BY <1>4
  <1> QED
    BY <1>5 DEF Min

LEMMA RemoveOn ==
  ASSUME NEW X, NEW s \in Seq(X), IsInjective(s), NEW e
  PROVE  /\ RemoveFirst(s, e) \in Seq(X) /\ IsInjective(RemoveFirst(s, e))
         /\ \A x : On(RemoveFirst(s, e), x) <=> On(s, x) /\ x # e
         /\ ~On(s, e) => RemoveFirst(s, e) = s
  <1>1. Len(s) \in Nat /\ DOMAIN s = 1 .. Len(s)
    OBVIOUS
  <1>2. CASE ~\E i \in 1 .. Len(s) : s[i] = e
    BY <1>1, <1>2 DEF RemoveFirst, On
  <1>3. CASE \E i \in 1 .. Len(s) : s[i] = e
    <2> DEFINE I == {i \in 1 .. Len(s) : s[i] = e}
               k == Min(I)
               t == SubSeq(s, 1, k - 1) \o SubSeq(s, k + 1, Len(s))
    <2>1. I # {} /\ I \subseteq Nat
      BY <1>1, <1>3
    <2>2. k \in 1 .. Len(s) /\ s[k] = e
      BY <2>1, SmallestIs
    <2>3. RemoveFirst(s, e) = t
      BY <1>3, <2>1 DEF RemoveFirst, RemoveAt, SelectInSeq
    <2> HIDE DEF k, I
    <2>4. /\ SubSeq(s, 1, k - 1) \in Seq(X) /\ Len(SubSeq(s, 1, k - 1)) = k - 1
          /\ \A i \in 1 .. k - 1 : SubSeq(s, 1, k - 1)[i] = s[i]
      BY <1>1, <2>2, SubSeqProperties
    <2>5. /\ SubSeq(s, k + 1, Len(s)) \in Seq(X) /\ Len(SubSeq(s, k + 1, Len(s))) = Len(s) - k
          /\ \A i \in 1 .. Len(s) - k : SubSeq(s, k + 1, Len(s))[i] = s[i + k]
      <3> DEFINE m == k + 1
                 n == Len(s)
                 b == SubSeq(s, m, n)
      <3>1. m \in Int /\ n \in Int /\ \A i \in m .. n : s[i] \in X
        BY <1>1, <2>2
      <3>2. m \in Nat /\ n \in Nat /\ m - 1 = k /\ m <= n + 1
        BY <1>1, <2>2
      <3> HIDE DEF m, n
      <3>3. /\ b \in Seq(X) /\ Len(b) = (IF m <= n THEN n - m + 1 ELSE 0)
            /\ \A i \in 1 .. n - m + 1 : b[i] = s[m + i - 1]
        BY <3>1, SubSeqProperties
      <3> HIDE DEF b
      <3>4. Len(b) = n - k /\ \A i \in 1 .. n - k : i \in 1 .. n - m + 1 /\ m + i - 1 = i + k
        BY <2>2, <3>2, <3>3
      <3> QED
        BY <3>3, <3>4 DEF b, m, n
    <2>6. /\ t \in Seq(X) /\ DOMAIN t = 1 .. Len(s) - 1
          /\ \A i \in 1 .. Len(s) - 1 : t[i] = IF i < k THEN s[i] ELSE s[i + 1]
      <3> DEFINE a == SubSeq(s, 1, k - 1)
                 b == SubSeq(s, k + 1, Len(s))
      <3>1. /\ a \in Seq(X) /\ b \in Seq(X) /\ Len(a) = k - 1 /\ Len(b) = Len(s) - k
            /\ \A i \in 1 .. k - 1 : a[i] = s[i]
            /\ \A i \in 1 .. Len(s) - k : b[i] = s[i + k]
        BY <2>4, <2>5
      <3> HIDE DEF a, b
      <3>2. a \o b \in Seq(X) /\ Len(a \o b) = Len(a) + Len(b)
        BY <3>1, ConcatProperties
      <3>3. \A i \in 1 .. Len(a) + Len(b) : (a \o b)[i] = IF i <= Len(a) THEN a[i] ELSE b[i - Len(a)]
        BY <3>1, ConcatProperties
      <3>4. DOMAIN (a \o b) = 1 .. Len(s) - 1
        <4>1. DOMAIN (a \o b) = 1 .. Len(a \o b)
          BY <3>2
        <4> QED
          BY <1>1, <2>2, <3>1, <3>2, <4>1
      <3>5. ASSUME NEW i \in 1 .. Len(s) - 1
            PROVE  (a \o b)[i] = IF i < k THEN s[i] ELSE s[i + 1]
        <4>1. i \in Nat /\ k \in Nat /\ Len(s) \in Nat /\ 1 <= i /\ i <= Len(s) - 1 /\ 1 <= k /\ k <= Len(s)
          BY <1>1, <2>2
        <4>2. (a \o b)[i] = IF i <= k - 1 THEN a[i] ELSE b[i - (k - 1)]
          BY <3>1, <3>3, <4>1
        <4>3. i <= k - 1 => a[i] = s[i]
          BY <3>1, <4>1
        <4>4. ~(i <= k - 1) => b[i - (k - 1)] = s[i + 1]
          <5>1. ~(i <= k - 1) => i - (k - 1) \in 1 .. Len(s) - k /\ i - (k - 1) + k = i + 1
            BY <4>1
          <5> QED
            BY <3>1, <5>1
        <4> QED
          BY <4>1, <4>2, <4>3, <4>4
      <3> QED
        BY <3>2, <3>4, <3>5 DEF a, b
    <2> HIDE DEF t
    <2>7. \A i \in DOMAIN t : LET j == IF i < k THEN i ELSE i + 1 IN j \in DOMAIN s /\ j # k /\ t[i] = s[j]
      BY <1>1, <2>2, <2>6
    <2>8. \A j \in DOMAIN s : j # k => LET i == IF j < k THEN j ELSE j - 1 IN i \in DOMAIN t /\ t[i] = s[j]
      BY <1>1, <2>2, <2>6
    <2>9. k \in DOMAIN s /\ \A j \in DOMAIN s : s[j] = e => j = k
      BY <1>1, <2>2 DEF IsInjective
    <2>10. \A x : On(t, x) <=> On(s, x) /\ x # e
      BY <2>2, <2>7, <2>8, <2>9 DEF On
    <2>11. IsInjective(t)
      <3> SUFFICES ASSUME NEW i \in DOMAIN t, NEW j \in DOMAIN t, t[i] = t[j] PROVE i = j
        BY DEF IsInjective
      <3>1. i \in Nat /\ j \in Nat /\ k \in Nat
        BY <1>1, <2>2, <2>6
      <3>2. (IF i < k THEN i ELSE i + 1) = (IF j < k THEN j ELSE j + 1)
        BY <2>7 DEF IsInjective
      <3> QED
        BY <3>1, <3>2
    <2>12. On(s, e)
      BY <2>2, <1>1 DEF On
    <2> QED
      BY <2>3, <2>6, <2>10, <2>11, <2>12
  <1> QED
    BY <1>2, <1>3

-----------------------------------------------------------------------------
(* Steps and policies. *)

LEMMA StagesAre == ToSet(Steps) = Stages /\ DOMAIN Steps = 1 .. 3 /\ Steps[1] = "pre" /\ Steps[2] = "data" /\ Steps[3] = "post"
  <1>1. DOMAIN Steps = 1 .. 3 /\ Steps[1] = "pre" /\ Steps[2] = "data" /\ Steps[3] = "post"
    BY DEF Steps
  <1>2. \A i : i \in DOMAIN Steps <=> i = 1 \/ i = 2 \/ i = 3
    BY <1>1
  <1> QED
    BY <1>1, <1>2 DEF ToSet, Stages

LEMMA CurSeqIs ==
  ASSUME NEW done \in SUBSET Stages
  PROVE  CurSeq[done] = IF "pre" \notin done THEN "pre" ELSE IF "data" \notin done THEN "data"
                        ELSE IF "post" \notin done THEN "post" ELSE "done"
  <1> DEFINE I == {i \in DOMAIN Steps : Steps[i] \notin done}
  <1>1. CurSeq[done] = IF Stages \subseteq done THEN "done" ELSE Steps[Min(I)]
    BY StagesAre DEF CurSeq
  <1>2. \A i : i \in I <=> \/ i = 1 /\ "pre" \notin done
                           \/ i = 2 /\ "data" \notin done
                           \/ i = 3 /\ "post" \notin done
    <2>1. \A i : i \in 1 .. 3 <=> i = 1 \/ i = 2 \/ i = 3
      OBVIOUS
    <2> QED
      BY StagesAre, <2>1
  <1> HIDE DEF I
  <1>3. CASE Stages \subseteq done
    BY <1>1, <1>3 DEF Stages
  <1>4. CASE ~(Stages \subseteq done)
    <2>1. I \subseteq Nat /\ I # {}
      BY <1>2, <1>4 DEF Stages
    <2>2. Min(I) \in I /\ \A y \in I : Min(I) <= y
      BY <2>1, SmallestIs
    <2> QED
      BY <1>1, <1>2, <1>4, <2>2, StagesAre
  <1> QED
    BY <1>3, <1>4

LEMMA PolicyIs ==
  ASSUME setup \in Setups, NEW r \in Rqs
  PROVE  /\ Policy(r) \subseteq Stages /\ FqOf[r] \in Fqs
         /\ "data" \in Policy(r) <=> setup.kind[r].data
         /\ "pre" \in Policy(r) <=> setup.cache /\ setup.kind[r].pre
         /\ "post" \in Policy(r) <=> setup.cache /\ setup.kind[r].fua /\ ~setup.fua
         /\ "data" \in Policy(r) \/ (setup.kind[r].pre /\ ~setup.kind[r].fua)
         /\ setup.kind[r].fua => setup.kind[r].data
  <1>1. /\ setup.kind[r] \in {k \in [data : BOOLEAN, pre : BOOLEAN, fua : BOOLEAN] : IF k.data THEN TRUE ELSE k.pre /\ ~k.fua}
        /\ FqOf[r] \in Fqs
    BY FlushAssumption
  <1>2. setup.kind[r].data \/ (setup.kind[r].pre /\ ~setup.kind[r].fua)
    BY <1>1
  <1> QED
    BY <1>1, <1>2, StagesAre DEF Policy, Stages

(* After a flush a request has its data, or nothing, to do. *)
LEMMA NextStep ==
  ASSUME setup \in Setups, NEW r \in Rqs, NEW done \in SUBSET Stages, Flushed(r), InOrder(r, done)
  PROVE  /\ CurSeq[done] = "done" <=> done = Stages
         /\ CurSeq[done] \in {"pre", "data", "post", "done"}
         /\ CurSeq[done] # "done" => /\ CurSeq[done] \in Policy(r) /\ CurSeq[done] \notin done
                                     /\ InOrder(r, done \cup {CurSeq[done]})
         /\ CurSeq[done] = "data" => "pre" \in done
         /\ CurSeq[done] = "post" => {"pre", "data"} \subseteq done
  BY CurSeqIs, PolicyIs DEF InOrder, Flushed, Stages

-----------------------------------------------------------------------------
(* blk_kick_flush() *)

LEMMA FqRecord ==
  ASSUME NEW Q \in FqType
  PROVE  /\ Q = [list |-> Q.list, pend |-> Q.pend, run |-> Q.run, data |-> Q.data, old |-> Q.old,
                 status |-> Q.status, rq |-> Q.rq]
         /\ Q.list \in [{0, 1} -> Seq(Rqs)] /\ Q.pend \in {0, 1} /\ Q.run \in {0, 1} /\ Q.data \subseteq Rqs
         /\ Q.old \in BOOLEAN /\ Q.status \in BOOLEAN /\ Q.rq \in [ref : Nat, tag : Rqs \cup {None}]
  BY DEF FqType

LEMMA SetFlush ==
  ASSUME NEW Q \in FqType, NEW p, NEW q
  PROVE  [Q EXCEPT !.pend = p, !.rq = q] =
           [list |-> Q.list, pend |-> p, run |-> Q.run, data |-> Q.data, old |-> Q.old, status |-> Q.status, rq |-> q]
  <1> DEFINE M == [Q EXCEPT !.pend = p]
  <1>1. Q = [list |-> Q.list, pend |-> Q.pend, run |-> Q.run, data |-> Q.data, old |-> Q.old, status |-> Q.status,
             rq |-> Q.rq]
    BY FqRecord
  <1>2. M = [list |-> Q.list, pend |-> p, run |-> Q.run, data |-> Q.data, old |-> Q.old, status |-> Q.status,
             rq |-> Q.rq]
    BY <1>1
  <1> HIDE DEF M
  <1>3. [M EXCEPT !.rq = q] =
           [list |-> Q.list, pend |-> p, run |-> Q.run, data |-> Q.data, old |-> Q.old, status |-> Q.status, rq |-> q]
    BY <1>2
  <1> QED
    BY <1>3 DEF M

LEMMA MachineRecord ==
  ASSUME NEW S \in MachineType
  PROVE  /\ S = [fq |-> S.fq, seq |-> S.seq, result |-> S.result, requeue |-> S.requeue, bug |-> S.bug,
                 failed |-> S.failed]
         /\ S.fq \in [Fqs -> FqType] /\ S.seq \in [Rqs -> SUBSET Stages]
         /\ S.result \in [Rqs -> {"ok", "error", None}] /\ S.requeue \in Seq(Items)
         /\ S.bug = FALSE /\ S.failed \subseteq Rqs
  BY DEF MachineType

LEMMA KickIs ==
  ASSUME NEW S \in MachineType, NEW f \in Fqs
  PROVE  LET V == Kick(S, f) IN
         /\ V \in MachineType
         /\ V.seq = S.seq /\ V.result = S.result /\ V.failed = S.failed
         /\ \A g \in Fqs \ {f} : V.fq[g] = S.fq[g]
         /\ V.fq[f].list = S.fq[f].list /\ V.fq[f].data = S.fq[f].data /\ V.fq[f].run = S.fq[f].run
         /\ V.fq[f].status = S.fq[f].status
         /\ \/ V.fq[f].pend = S.fq[f].pend /\ V.fq[f].rq = S.fq[f].rq /\ V.requeue = S.requeue
            \/ /\ S.fq[f].pend = S.fq[f].run /\ V.fq[f].pend # V.fq[f].run
               /\ V.fq[f].rq.ref = 1 /\ V.fq[f].rq.tag \in Rqs
               /\ On(V.fq[f].list[V.fq[f].run], V.fq[f].rq.tag)
               /\ V.requeue = Append(S.requeue, f)
  <1> DEFINE Q == S.fq[f]
             head == Head(Q.list[Q.pend])
             N == [Q EXCEPT !.pend = 1 - @, !.rq = [ref |-> 1, tag |-> head]]
             V == Kick(S, f)
  <1>1. /\ Q \in FqType /\ S.requeue \in Seq(Items) /\ f \in Items
        /\ S.fq \in [Fqs -> FqType] /\ S.seq \in [Rqs -> SUBSET Stages]
        /\ S.result \in [Rqs -> {"ok", "error", None}] /\ S.bug \in {FALSE} /\ S.failed \in SUBSET Rqs
    BY DEF MachineType, Items
  <1>2. CASE ~(Idle(Q) /\ Q.list[Q.pend] # <<>> /\ Undeferred(Q))
    <2>1. V = S
      BY <1>2 DEF Kick
    <2> QED
      BY <2>1
  <1>3. CASE Idle(Q) /\ Q.list[Q.pend] # <<>> /\ Undeferred(Q)
    <2>1. V = [S EXCEPT !.fq = [@ EXCEPT ![f] = N], !.requeue = Append(@, f)]
      BY <1>3 DEF Kick
    <2>2. /\ Q.pend \in {0, 1} /\ Q.run = Q.pend /\ Q.list \in [{0, 1} -> Seq(Rqs)] /\ Q.list[Q.pend] # <<>>
      BY <1>1, <1>3 DEF FqType, Idle
    <2>3. head \in Rqs /\ On(Q.list[Q.pend], head)
      <3>1. Q.list[Q.pend] \in Seq(Rqs)
        BY <2>2
      <3> DEFINE l == Q.list[Q.pend]
      <3> HIDE DEF l
      <3>2. l \in Seq(Rqs) /\ l # <<>>
        BY <2>2, <3>1 DEF l
      <3>3. 1 \in DOMAIN l /\ Head(l) = l[1] /\ l[1] \in Rqs
        BY <3>2
      <3>4. Head(l) \in Rqs /\ On(l, Head(l))
        BY <3>3 DEF On
      <3> QED
        BY <3>4 DEF l
    <2> HIDE DEF head
    <2>4. /\ N \in FqType /\ N.list = Q.list /\ N.data = Q.data /\ N.run = Q.run /\ N.status = Q.status
          /\ N.pend = 1 - Q.pend /\ N.rq = [ref |-> 1, tag |-> head]
      <3>1. N = [list |-> Q.list, pend |-> 1 - Q.pend, run |-> Q.run, data |-> Q.data, old |-> Q.old,
                 status |-> Q.status, rq |-> [ref |-> 1, tag |-> head]]
        <4>1. N = [Q EXCEPT !.pend = 1 - Q.pend, !.rq = [ref |-> 1, tag |-> head]]
          OBVIOUS
        <4> HIDE DEF Q
        <4> QED
          BY <1>1, <4>1, SetFlush
      <3>2. 1 - Q.pend \in {0, 1} /\ [ref |-> 1, tag |-> head] \in [ref : Nat, tag : Rqs \cup {None}]
        BY <2>2, <2>3
      <3> QED
        BY <1>1, <3>1, <3>2 DEF FqType
    <2>5. N.pend # N.run /\ N.rq.ref = 1 /\ N.rq.tag = head
      BY <2>2, <2>4
    <2> HIDE DEF N, Q
    <2>6. /\ V.fq = [S.fq EXCEPT ![f] = N] /\ V.requeue = Append(S.requeue, f)
          /\ V.seq = S.seq /\ V.result = S.result /\ V.failed = S.failed /\ V.bug = S.bug
      BY <2>1 DEF MachineType
    <2>7. V.fq[f] = N /\ \A g \in Fqs \ {f} : V.fq[g] = S.fq[g]
      BY <1>1, <2>6
    <2>8. Append(S.requeue, f) \in Seq(Items)
      BY <1>1
    <2>9. V \in MachineType
      <3>1. [S.fq EXCEPT ![f] = N] \in [Fqs -> FqType]
        BY <1>1, <2>4
      <3> QED
        BY <1>1, <2>1, <2>8, <3>1 DEF MachineType
    <2>10. V.fq[f].run = Q.pend
      BY <2>2, <2>4, <2>7
    <2> HIDE DEF V
    <2> QED
      BY <2>2, <2>3, <2>4, <2>5, <2>6, <2>7, <2>9, <2>10 DEF Q, V
  <1> QED
    BY <1>2, <1>3

(* Where requests are does not depend on flush requests. *)
LEMMA PlacedSame ==
  ASSUME NEW S, NEW V, NEW E, NEW r \in Rqs,
         V.seq[r] = S.seq[r], V.result[r] = S.result[r],
         \A i \in {0, 1} : On(V.fq[FqOf[r]].list[i], r) <=> On(S.fq[FqOf[r]].list[i], r),
         r \in V.fq[FqOf[r]].data <=> r \in S.fq[FqOf[r]].data,
         Queued(V, E, r) <=> Queued(S, E, r), Placed(S, E, r)
  PROVE  Placed(V, E, r)
  BY DEF Placed

LEMMA KickKeeps ==
  ASSUME NEW S, NEW E, NEW f \in Fqs, EnvOk(E), Structure(S, E)
  PROVE  LET V == Kick(S, f) IN
         /\ Structure(V, E)
         /\ \A x \in Items \ {f} : Queued(V, E, x) <=> Queued(S, E, x)
         /\ \/ /\ V.fq[f].pend = S.fq[f].pend /\ V.fq[f].status = S.fq[f].status
               /\ Queued(V, E, f) <=> Queued(S, E, f)
            \/ /\ S.fq[f].pend = S.fq[f].run /\ V.fq[f].pend # V.fq[f].run
               /\ On(V.requeue, f) /\ f \notin E.out
  <1> DEFINE V == Kick(S, f)
  <1>1. S \in MachineType /\ f \in Items /\ S.requeue \in Seq(Items) /\ Kept(S, E, f, 0) /\ IsInjective(S.requeue)
    BY MachineRecord DEF Structure, Items
  <1>2. /\ V \in MachineType
        /\ V.seq = S.seq /\ V.result = S.result
        /\ \A g \in Fqs \ {f} : V.fq[g] = S.fq[g]
        /\ V.fq[f].list = S.fq[f].list /\ V.fq[f].data = S.fq[f].data /\ V.fq[f].run = S.fq[f].run
        /\ V.fq[f].status = S.fq[f].status
        /\ \/ V.fq[f].pend = S.fq[f].pend /\ V.fq[f].rq = S.fq[f].rq /\ V.requeue = S.requeue
           \/ /\ S.fq[f].pend = S.fq[f].run /\ V.fq[f].pend # V.fq[f].run
              /\ V.fq[f].rq.ref = 1 /\ V.fq[f].rq.tag \in Rqs
              /\ On(V.fq[f].list[V.fq[f].run], V.fq[f].rq.tag)
              /\ V.requeue = Append(S.requeue, f)
    BY <1>1, KickIs
  <1> HIDE DEF V
  <1>3. S.fq[f].pend = S.fq[f].run => ~Queued(S, E, f) /\ E.walks[f] = 0
    BY <1>1 DEF Kept, EnvOk
  <1>4. Append(S.requeue, f) \in Seq(Items) /\ \A x : On(Append(S.requeue, f), x) <=> On(S.requeue, x) \/ x = f
    BY <1>1, AppendOn
  <1>5. ~On(S.requeue, f) => IsInjective(Append(S.requeue, f))
    BY <1>1, AppendOn
  <1>6. \A x \in Items \ {f} : Queued(V, E, x) <=> Queued(S, E, x)
    BY <1>2, <1>4 DEF Queued
  <1>7. \/ /\ V.fq[f].pend = S.fq[f].pend /\ V.fq[f].rq = S.fq[f].rq /\ V.requeue = S.requeue
           /\ Queued(V, E, f) <=> Queued(S, E, f)
        \/ /\ S.fq[f].pend = S.fq[f].run /\ V.fq[f].pend # V.fq[f].run /\ V.fq[f].rq.ref = 1 /\ V.fq[f].rq.tag # None
           /\ On(V.fq[f].list[V.fq[f].run], V.fq[f].rq.tag)
           /\ V.requeue = Append(S.requeue, f) /\ Queued(V, E, f) /\ f \notin E.out /\ ~On(S.requeue, f)
    BY <1>2, <1>3, <1>4, FlushAssumption DEF Queued, Items
  <1>8. IsInjective(V.requeue) /\ \A x \in Items : ~(On(V.requeue, x) /\ x \in E.out)
    BY <1>1, <1>4, <1>5, <1>7 DEF Structure
  <1>9. Kept(V, E, f, 0)
    <2>1. CASE V.fq[f].pend = S.fq[f].pend /\ V.fq[f].rq = S.fq[f].rq /\ (Queued(V, E, f) <=> Queued(S, E, f))
      BY <1>1, <1>2, <2>1 DEF Kept
    <2>2. CASE /\ S.fq[f].pend = S.fq[f].run /\ V.fq[f].pend # V.fq[f].run /\ V.fq[f].rq.ref = 1
               /\ V.fq[f].rq.tag # None /\ On(V.fq[f].list[V.fq[f].run], V.fq[f].rq.tag) /\ Queued(V, E, f)
      BY <1>1, <1>2, <1>3, <2>2 DEF Kept
    <2> QED
      BY <1>7, <2>1, <2>2
  <1>10. ASSUME NEW g \in Fqs \ {f} PROVE Kept(V, E, g, 0)
    <2>1. V.fq[g] = S.fq[g] /\ (Queued(V, E, g) <=> Queued(S, E, g)) /\ Kept(S, E, g, 0)
      BY <1>2, <1>6 DEF Structure, Items
    <2> QED
      BY <2>1 DEF Kept
  <1>11. ASSUME NEW r \in Rqs PROVE Placed(V, E, r)
    <2>1. Placed(S, E, r) /\ (Queued(V, E, r) <=> Queued(S, E, r)) /\ FqOf[r] \in Fqs
      BY <1>6, FlushAssumption DEF Structure, Items
    <2>2. V.fq[FqOf[r]].list = S.fq[FqOf[r]].list /\ V.fq[FqOf[r]].data = S.fq[FqOf[r]].data
      BY <1>2, <2>1
    <2> QED
      BY <1>2, <2>1, <2>2, PlacedSame
  <1>12. Structure(V, E)
    BY <1>2, <1>8, <1>9, <1>10, <1>11 DEF Structure
  <1>13. /\ V.fq[f].status = S.fq[f].status
         /\ V.requeue = Append(S.requeue, f) => On(V.requeue, f)
    BY <1>2, <1>4
  <1> QED
    BY <1>6, <1>7, <1>12, <1>13 DEF V

-----------------------------------------------------------------------------
(* blk_flush_complete_seq() *)

LEMMA LeaveIs ==
  ASSUME NEW Q \in FqType, IsInjective(Q.list[0]), IsInjective(Q.list[1]), NEW r
  PROVE  LET L == Leave(Q, r) IN
         /\ L \in FqType /\ L.data = Q.data \ {r}
         /\ L.pend = Q.pend /\ L.run = Q.run /\ L.old = Q.old /\ L.status = Q.status /\ L.rq = Q.rq
         /\ \A i \in {0, 1} : /\ IsInjective(L.list[i])
                              /\ \A x : On(L.list[i], x) <=> On(Q.list[i], x) /\ x # r
  <1> DEFINE l0 == RemoveFirst(Q.list[0], r)
             l1 == RemoveFirst(Q.list[1], r)
             L == Leave(Q, r)
             l == [[Q.list EXCEPT ![0] = l0] EXCEPT ![1] = l1]
  <1>1. /\ Q = [list |-> Q.list, pend |-> Q.pend, run |-> Q.run, data |-> Q.data, old |-> Q.old,
                 status |-> Q.status, rq |-> Q.rq]
        /\ Q.list \in [{0, 1} -> Seq(Rqs)]
    BY FqRecord
  <1>2. /\ Q.list[0] \in Seq(Rqs) /\ Q.list[1] \in Seq(Rqs)
    BY <1>1
  <1>3. /\ l0 \in Seq(Rqs) /\ IsInjective(l0)
        /\ \A x : On(l0, x) <=> On(Q.list[0], x) /\ x # r
    BY <1>2, RemoveOn
  <1>4. /\ l1 \in Seq(Rqs) /\ IsInjective(l1)
        /\ \A x : On(l1, x) <=> On(Q.list[1], x) /\ x # r
    BY <1>2, RemoveOn
  <1>5. L = [[[Q EXCEPT !.list[0] = l0] EXCEPT !.list[1] = l1] EXCEPT !.data = Q.data \ {r}]
    BY DEF Leave
  <1> HIDE DEF l0, l1, L
  <1>6. l \in [{0, 1} -> Seq(Rqs)] /\ l[0] = l0 /\ l[1] = l1
    BY <1>1, <1>3, <1>4
  <1>7. L = [list |-> l, pend |-> Q.pend, run |-> Q.run, data |-> Q.data \ {r}, old |-> Q.old,
                 status |-> Q.status, rq |-> Q.rq]
    <2> DEFINE A == [Q EXCEPT !.list[0] = l0]
               B == [A EXCEPT !.list[1] = l1]
    <2>1. A = [list |-> [Q.list EXCEPT ![0] = l0], pend |-> Q.pend, run |-> Q.run, data |-> Q.data, old |-> Q.old,
                 status |-> Q.status, rq |-> Q.rq]
      <3>1. A = [Q EXCEPT !.list = [Q.list EXCEPT ![0] = l0]]
        OBVIOUS
      <3> QED
        BY <1>1, <3>1
    <2> HIDE DEF A
    <2>2. B = [list |-> l, pend |-> Q.pend, run |-> Q.run, data |-> Q.data, old |-> Q.old,
                 status |-> Q.status, rq |-> Q.rq]
      <3>1. B = [A EXCEPT !.list = [A.list EXCEPT ![1] = l1]]
        OBVIOUS
      <3> QED
        BY <2>1, <3>1
    <2> HIDE DEF B
    <2>3. L = [B EXCEPT !.data = Q.data \ {r}]
      BY <1>5 DEF A, B
    <2> QED
      BY <2>2, <2>3
  <1> HIDE DEF l
  <1>8. L \in FqType
    BY <1>6, <1>7, FqRecord DEF FqType
  <1>9. \A i \in {0, 1} : /\ IsInjective(l[i])
                          /\ \A x : On(l[i], x) <=> On(Q.list[i], x) /\ x # r
    BY <1>3, <1>4, <1>6
  <1> QED
    BY <1>7, <1>8, <1>9 DEF L

LEMMA MovedIs ==
  ASSUME NEW S \in MachineType, NEW r \in Rqs, NEW steps, NEW err \in BOOLEAN,
         S.seq[r] \cap steps = {}, steps \subseteq Stages, FqOf[r] \in Fqs,
         IsInjective(S.fq[FqOf[r]].list[0]), IsInjective(S.fq[FqOf[r]].list[1]),
         IsInjective(S.requeue), ~On(S.requeue, r)
  PROVE  \E U : LET done == S.seq[r] \cup steps
                    next == IF err THEN "done" ELSE CurSeq[done]
                IN /\ Moved(S, U, r, done, next, err)
                   /\ CompleteSeq(S, FqOf[r], r, steps, err) = Kick(U, FqOf[r])
  <1> DEFINE f == FqOf[r]
             done == S.seq[r] \cup steps
             next == IF err THEN "done" ELSE CurSeq[done]
             Q == Leave(S.fq[f], r)
             T == [S EXCEPT !.bug = @ \/ S.seq[r] \cap steps # {}, !.seq[r] = done]
             out == IF err THEN "error" ELSE "ok"
             W == [Q EXCEPT !.list[Q.pend] = Append(@, r), !.old = @ /\ Q.list[Q.pend] # <<>>]
             U == CASE next \in {"pre", "post"} -> [T EXCEPT !.fq[f] = W]
                    [] next = "data" ->
                         [T EXCEPT !.fq[f] = [Q EXCEPT !.data = @ \cup {r}], !.requeue = <<r>> \o @]
                    [] next = "done" -> [T EXCEPT !.fq[f] = Q, !.result[r] = out]
  <1>1. /\ S = [fq |-> S.fq, seq |-> S.seq, result |-> S.result, requeue |-> S.requeue, bug |-> S.bug,
                failed |-> S.failed]
        /\ S.fq \in [Fqs -> FqType] /\ S.seq \in [Rqs -> SUBSET Stages]
        /\ S.result \in [Rqs -> {"ok", "error", None}] /\ S.requeue \in Seq(Items) /\ S.failed \subseteq Rqs
        /\ S.bug \in {FALSE} /\ S.fq[f] \in FqType /\ r \in Items
    BY MachineRecord DEF Items
  <1>2. CompleteSeq(S, f, r, steps, err) = Kick(U, f)
    BY DEF CompleteSeq, Waiting
  <1>3. /\ Q \in FqType /\ Q.data = S.fq[f].data \ {r} /\ Q.pend = S.fq[f].pend /\ Q.run = S.fq[f].run
        /\ Q.status = S.fq[f].status /\ Q.rq = S.fq[f].rq
        /\ \A i \in {0, 1} : /\ IsInjective(Q.list[i])
                             /\ \A x : On(Q.list[i], x) <=> On(S.fq[f].list[i], x) /\ x # r
    BY <1>1, LeaveIs
  <1>4. done \subseteq Stages /\ next \in {"pre", "data", "post", "done"}
    <2>1. done \in SUBSET Stages
      BY <1>1
    <2> HIDE DEF done
    <2> QED
      BY <2>1, CurSeqIs
  <1>5. T = [fq |-> S.fq, seq |-> [S.seq EXCEPT ![r] = done], result |-> S.result, requeue |-> S.requeue,
             bug |-> S.bug, failed |-> S.failed]
    <2> DEFINE A == [S EXCEPT !.bug = S.bug \/ S.seq[r] \cap steps # {}]
    <2>1. A = S
      <3>1. S.seq[r] \cap steps = {} /\ S.bug = FALSE
        BY <1>1
      <3>2. (S.bug \/ S.seq[r] \cap steps # {}) = S.bug
        BY <3>1
      <3>3. A = [S EXCEPT !.bug = S.bug]
        BY <3>2
      <3> HIDE DEF A
      <3> QED
        BY <1>1, <3>3
    <2>2. T = [A EXCEPT !.seq = [A.seq EXCEPT ![r] = done]]
      OBVIOUS
    <2> HIDE DEF A, T, done
    <2>3. T = [S EXCEPT !.seq = [S.seq EXCEPT ![r] = done]]
      BY <2>1, <2>2
    <2>4. S = [fq |-> S.fq, seq |-> S.seq, result |-> S.result, requeue |-> S.requeue, bug |-> S.bug,
                failed |-> S.failed]
      BY <1>1
    <2> QED
      BY <2>3, <2>4
  <1> HIDE DEF f, done, next, Q, T, out
  <1>6. CASE next \in {"pre", "post"}
    <2> DEFINE l == [Q.list EXCEPT ![Q.pend] = Append(@, r)]
    <2>1. U = [T EXCEPT !.fq[f] = W]
      BY <1>6
    <2>2. /\ Q = [list |-> Q.list, pend |-> Q.pend, run |-> Q.run, data |-> Q.data, old |-> Q.old,
                  status |-> Q.status, rq |-> Q.rq]
          /\ Q.list \in [{0, 1} -> Seq(Rqs)] /\ Q.pend \in {0, 1} /\ Q.list[Q.pend] \in Seq(Rqs) /\ Q.old \in BOOLEAN
      BY <1>3, FqRecord
    <2>3. W = [list |-> l, pend |-> Q.pend, run |-> Q.run, data |-> Q.data, old |-> W.old,
               status |-> Q.status, rq |-> Q.rq] /\ W.old \in BOOLEAN
      <3> DEFINE A == [Q EXCEPT !.list[Q.pend] = Append(@, r)]
                 o == Q.old /\ Q.list[Q.pend] # <<>>
      <3>1. A = [list |-> l, pend |-> Q.pend, run |-> Q.run, data |-> Q.data, old |-> Q.old,
                 status |-> Q.status, rq |-> Q.rq]
        <4>1. A = [Q EXCEPT !.list = l]
          OBVIOUS
        <4> HIDE DEF A, l
        <4> QED
          BY <2>2, <4>1
      <3> HIDE DEF l
      <3>2. o \in BOOLEAN
        OBVIOUS
      <3>3. W = [A EXCEPT !.old = o]
        OBVIOUS
      <3> HIDE DEF A, o, W
      <3>4. W = [list |-> l, pend |-> Q.pend, run |-> Q.run, data |-> Q.data, old |-> o,
                 status |-> Q.status, rq |-> Q.rq]
        BY <3>1, <3>3
      <3> QED
        BY <3>2, <3>4
    <2> DEFINE a == Append(Q.list[Q.pend], r)
    <2>4. /\ a \in Seq(Rqs) /\ IsInjective(a)
          /\ \A x : On(a, x) <=> On(Q.list[Q.pend], x) \/ x = r
      BY <1>3, <2>2, AppendOn
    <2> HIDE DEF a
    <2>5. /\ l \in [{0, 1} -> Seq(Rqs)] /\ l[Q.pend] = a
          /\ \A i \in {0, 1} : i # Q.pend => l[i] = Q.list[i]
      BY <2>2, <2>4 DEF a
    <2> HIDE DEF l
    <2>6. /\ \A i \in {0, 1} : /\ IsInjective(l[i])
                               /\ \A x : On(l[i], x) <=> (On(S.fq[f].list[i], x) /\ x # r) \/ (x = r /\ i = Q.pend)
      <3> SUFFICES ASSUME NEW i \in {0, 1}
                   PROVE  /\ IsInjective(l[i])
                          /\ \A x : On(l[i], x) <=> (On(S.fq[f].list[i], x) /\ x # r) \/ (x = r /\ i = Q.pend)
        OBVIOUS
      <3>1. CASE i = Q.pend
        BY <1>3, <2>4, <2>5, <3>1
      <3>2. CASE i # Q.pend
        <4>1. l[i] = Q.list[i]
          BY <2>5, <3>2
        <4> QED
          BY <1>3, <3>2, <4>1
      <3> QED
        BY <3>1, <3>2
    <2>7. W \in FqType
      <3> HIDE DEF W
      <3> QED
        BY <1>3, <2>3, <2>5, FqRecord DEF FqType
    <2> HIDE DEF W
    <2>8. U = [fq |-> [S.fq EXCEPT ![f] = W], seq |-> [S.seq EXCEPT ![r] = done], result |-> S.result,
               requeue |-> S.requeue, bug |-> S.bug, failed |-> S.failed]
      BY <1>5, <2>1
    <2> HIDE DEF U
    <2>9. U \in MachineType
      BY <1>1, <1>4, <2>7, <2>8 DEF MachineType
    <2>10. U.fq[f] = W /\ \A g \in Fqs \ {f} : U.fq[g] = S.fq[g]
      BY <1>1, <2>8 DEF f
    <2>11. U.seq[r] = done /\ \A q \in Rqs \ {r} : U.seq[q] = S.seq[q]
      BY <1>1, <2>8
    <2>12. U.result = S.result /\ U.requeue = S.requeue /\ U.failed = S.failed
      BY <2>8
    <2>13. next # "data" /\ next # "done"
      BY <1>6
    <2>14. /\ W.list = l /\ W.pend = Q.pend /\ W.run = Q.run /\ W.data = Q.data /\ W.status = Q.status /\ W.rq = Q.rq
      BY <2>3
    <2>15. Moved(S, U, r, done, next, err)
      <3>1. \A i \in {0, 1} :
              /\ IsInjective(W.list[i])
              /\ \A x : On(W.list[i], x) <=>
                           (On(S.fq[f].list[i], x) /\ x # r) \/ (x = r /\ next \in {"pre", "post"} /\ i = S.fq[f].pend)
        <4>1. next \in {"pre", "post"} /\ Q.pend = S.fq[f].pend /\ W.list = l
          BY <1>3, <1>6, <2>14
        <4> SUFFICES ASSUME NEW i \in {0, 1}
                     PROVE  /\ IsInjective(W.list[i])
                            /\ \A x : On(W.list[i], x) <=>
                                 (On(S.fq[f].list[i], x) /\ x # r) \/ (x = r /\ next \in {"pre", "post"} /\ i = S.fq[f].pend)
          OBVIOUS
        <4>2. IsInjective(l[i]) /\ \A x : On(l[i], x) <=> (On(S.fq[f].list[i], x) /\ x # r) \/ (x = r /\ i = Q.pend)
          BY <2>6
        <4> QED
          BY <4>1, <4>2
      <3>2. W.data = (S.fq[f].data \ {r}) \cup (IF next = "data" THEN {r} ELSE {})
        BY <1>3, <2>13, <2>14
      <3>3. W.pend = S.fq[f].pend /\ W.run = S.fq[f].run /\ W.status = S.fq[f].status /\ W.rq = S.fq[f].rq
        BY <1>3, <2>14
      <3>4. IsInjective(S.requeue) /\ \A x : On(S.requeue, x) <=> On(S.requeue, x) \/ (x = r /\ next = "data")
        BY <2>13
      <3> QED
        BY <3>1, <3>2, <3>3, <3>4, <2>9, <2>10, <2>11, <2>12, <2>13 DEF Moved, f
    <2> QED
      BY <1>2, <2>15 DEF f, done, next
  <1>7. CASE next = "data"
    <2> DEFINE D == [Q EXCEPT !.data = @ \cup {r}]
               c == <<r>> \o S.requeue
    <2>1. U = [T EXCEPT !.fq[f] = D, !.requeue = <<r>> \o @]
      BY <1>7
    <2>2. /\ Q = [list |-> Q.list, pend |-> Q.pend, run |-> Q.run, data |-> Q.data, old |-> Q.old,
                  status |-> Q.status, rq |-> Q.rq]
          /\ Q.data \subseteq Rqs
      BY <1>3, FqRecord
    <2>3. D = [list |-> Q.list, pend |-> Q.pend, run |-> Q.run, data |-> Q.data \cup {r}, old |-> Q.old,
               status |-> Q.status, rq |-> Q.rq]
      BY <2>2
    <2> HIDE DEF D
    <2>4. D \in FqType
      BY <1>3, <2>2, <2>3, FqRecord DEF FqType
    <2>5. c \in Seq(Items) /\ IsInjective(c) /\ \A x : On(c, x) <=> On(S.requeue, x) \/ x = r
      BY <1>1, ConsOn
    <2>6. U = [fq |-> [S.fq EXCEPT ![f] = D], seq |-> [S.seq EXCEPT ![r] = done], result |-> S.result,
               requeue |-> c, bug |-> S.bug, failed |-> S.failed]
      <3> DEFINE A == [T EXCEPT !.fq[f] = D]
      <3>1. A = [fq |-> [S.fq EXCEPT ![f] = D], seq |-> [S.seq EXCEPT ![r] = done], result |-> S.result,
                 requeue |-> S.requeue, bug |-> S.bug, failed |-> S.failed]
        <4>1. A = [T EXCEPT !.fq = [T.fq EXCEPT ![f] = D]]
          OBVIOUS
        <4> HIDE DEF A
        <4> QED
          BY <1>5, <4>1
      <3>2. U = [A EXCEPT !.requeue = <<r>> \o T.requeue]
        BY <2>1
      <3>3. T.requeue = S.requeue
        BY <1>5
      <3> HIDE DEF A, U
      <3> QED
        BY <3>1, <3>2, <3>3
    <2> HIDE DEF U, c
    <2>7. U \in MachineType
      BY <1>1, <1>4, <2>4, <2>5, <2>6 DEF MachineType
    <2>8. U.fq[f] = D /\ \A g \in Fqs \ {f} : U.fq[g] = S.fq[g]
      BY <1>1, <2>6 DEF f
    <2>9. U.seq[r] = done /\ \A q \in Rqs \ {r} : U.seq[q] = S.seq[q]
      BY <1>1, <2>6
    <2>10. U.result = S.result /\ U.requeue = c /\ U.failed = S.failed
      BY <2>6
    <2>11. next # "pre" /\ next # "post" /\ next # "done"
      BY <1>7
    <2>12. /\ D.list = Q.list /\ D.pend = Q.pend /\ D.run = Q.run /\ D.data = Q.data \cup {r}
           /\ D.status = Q.status /\ D.rq = Q.rq
      BY <2>3
    <2>13. Moved(S, U, r, done, next, err)
      <3>1. \A i \in {0, 1} :
              /\ IsInjective(D.list[i])
              /\ \A x : On(D.list[i], x) <=>
                           (On(S.fq[f].list[i], x) /\ x # r) \/ (x = r /\ next \in {"pre", "post"} /\ i = S.fq[f].pend)
        <4>1. next \notin {"pre", "post"} /\ D.list = Q.list
          BY <1>7, <2>11, <2>12
        <4> SUFFICES ASSUME NEW i \in {0, 1}
                     PROVE  /\ IsInjective(D.list[i])
                            /\ \A x : On(D.list[i], x) <=>
                                 (On(S.fq[f].list[i], x) /\ x # r) \/ (x = r /\ next \in {"pre", "post"} /\ i = S.fq[f].pend)
          OBVIOUS
        <4>2. IsInjective(Q.list[i]) /\ \A x : On(Q.list[i], x) <=> On(S.fq[f].list[i], x) /\ x # r
          BY <1>3
        <4> QED
          BY <4>1, <4>2
      <3>2. D.data = (S.fq[f].data \ {r}) \cup (IF next = "data" THEN {r} ELSE {})
        BY <1>3, <1>7, <2>11, <2>12
      <3>3. D.pend = S.fq[f].pend /\ D.run = S.fq[f].run /\ D.status = S.fq[f].status /\ D.rq = S.fq[f].rq
        BY <1>3, <1>7, <2>11, <2>12
      <3> QED
        BY <3>1, <3>2, <3>3, <1>7, <2>5, <2>7, <2>8, <2>9, <2>10, <2>11, <2>12 DEF Moved, f
    <2> QED
      BY <1>2, <2>13 DEF f, done, next
  <1>8. CASE next = "done"
    <2>1. U = [T EXCEPT !.fq[f] = Q, !.result[r] = out]
      BY <1>8
    <2>2. out \in {"ok", "error", None}
      BY DEF out
    <2>3. U = [fq |-> [S.fq EXCEPT ![f] = Q], seq |-> [S.seq EXCEPT ![r] = done],
               result |-> [S.result EXCEPT ![r] = out], requeue |-> S.requeue, bug |-> S.bug, failed |-> S.failed]
      <3> DEFINE A == [T EXCEPT !.fq[f] = Q]
      <3>1. A = [fq |-> [S.fq EXCEPT ![f] = Q], seq |-> [S.seq EXCEPT ![r] = done], result |-> S.result,
                 requeue |-> S.requeue, bug |-> S.bug, failed |-> S.failed]
        <4>1. A = [T EXCEPT !.fq = [T.fq EXCEPT ![f] = Q]]
          OBVIOUS
        <4> HIDE DEF A
        <4> QED
          BY <1>5, <4>1
      <3>2. U = [A EXCEPT !.result = [A.result EXCEPT ![r] = out]]
        BY <2>1
      <3> HIDE DEF A, U
      <3> QED
        BY <3>1, <3>2
    <2> HIDE DEF U
    <2>4. U \in MachineType
      BY <1>1, <1>3, <1>4, <2>2, <2>3 DEF MachineType
    <2>5. U.fq[f] = Q /\ \A g \in Fqs \ {f} : U.fq[g] = S.fq[g]
      BY <1>1, <2>3 DEF f
    <2>6. /\ U.seq[r] = done /\ \A q \in Rqs \ {r} : U.seq[q] = S.seq[q]
          /\ U.result[r] = out /\ \A q \in Rqs \ {r} : U.result[q] = S.result[q]
      BY <1>1, <2>3
    <2>7. U.requeue = S.requeue /\ U.failed = S.failed
      BY <2>3
    <2>8. next # "pre" /\ next # "post" /\ next # "data"
      BY <1>8
    <2>9. Moved(S, U, r, done, next, err)
      <3>1. \A i \in {0, 1} :
              /\ IsInjective(Q.list[i])
              /\ \A x : On(Q.list[i], x) <=>
                           (On(S.fq[f].list[i], x) /\ x # r) \/ (x = r /\ next \in {"pre", "post"} /\ i = S.fq[f].pend)
        <4>1. next \notin {"pre", "post"}
          BY <1>8, <2>8
        <4> SUFFICES ASSUME NEW i \in {0, 1}
                     PROVE  /\ IsInjective(Q.list[i])
                            /\ \A x : On(Q.list[i], x) <=>
                                 (On(S.fq[f].list[i], x) /\ x # r) \/ (x = r /\ next \in {"pre", "post"} /\ i = S.fq[f].pend)
          OBVIOUS
        <4>2. IsInjective(Q.list[i]) /\ \A x : On(Q.list[i], x) <=> On(S.fq[f].list[i], x) /\ x # r
          BY <1>3
        <4> QED
          BY <4>1, <4>2
      <3>2. Q.data = (S.fq[f].data \ {r}) \cup (IF next = "data" THEN {r} ELSE {})
        BY <1>3, <1>8, <2>8
      <3>3. Q.pend = S.fq[f].pend /\ Q.run = S.fq[f].run /\ Q.status = S.fq[f].status /\ Q.rq = S.fq[f].rq
        BY <1>3, <1>8, <2>8
      <3> QED
        BY <3>1, <3>2, <3>3, <1>8, <2>4, <2>5, <2>6, <2>7, <2>8 DEF Moved, f, out
    <2> QED
      BY <1>2, <2>9 DEF f, done, next
  <1> QED
    BY <1>4, <1>6, <1>7, <1>8

LEMMA MovedKeeps ==
  ASSUME setup \in Setups, NEW S, NEW U, NEW E, NEW r \in Rqs, NEW done, NEW err \in BOOLEAN, EnvOk(E),
         Ready(S, E, r, done, err), Moved(S, U, r, done, IF err THEN "done" ELSE CurSeq[done], err)
  PROVE  /\ Structure(U, E)
         /\ \A x \in Items \ {r} : Queued(U, E, x) <=> Queued(S, E, x)
  <1> DEFINE f == FqOf[r]
             next == IF err THEN "done" ELSE CurSeq[done]
  <1>1. f \in Fqs /\ f \in Items /\ r \in Items /\ r \notin Fqs /\ done \in SUBSET Stages /\ Flushed(r)
    BY FlushAssumption DEF Items, Ready
  <1>2. /\ next \in {"pre", "data", "post", "done"}
        /\ ~err => next = CurSeq[done] /\ InOrder(r, done) /\ (next = "done" => done = Stages)
    BY <1>1, NextStep DEF Ready
  <1>3. Moved(S, U, r, done, next, err)
    OBVIOUS
  <1> HIDE DEF next
  <1>4. \A x \in Items \ {r} : Queued(U, E, x) <=> Queued(S, E, x)
    BY <1>3 DEF Moved, Queued
  <1>5. Queued(U, E, r) <=> next = "data"
    BY <1>3 DEF Moved, Queued, Ready
  <1>6. IsInjective(U.requeue) /\ \A x \in Items : ~(On(U.requeue, x) /\ x \in E.out)
    BY <1>3 DEF Moved, Ready, Queued
  <1>7. Kept(U, E, f, 0)
    <2>1. Kept(S, E, f, 0) /\ (Queued(U, E, f) <=> Queued(S, E, f)) /\ f # r
      BY <1>1, <1>4 DEF Ready
    <2> DEFINE Q == S.fq[f]
               R == U.fq[f]
    <2>2. /\ R.pend = Q.pend /\ R.run = Q.run /\ R.status = Q.status /\ R.rq = Q.rq
          /\ \A i \in {0, 1} :
               /\ IsInjective(R.list[i])
               /\ \A x : On(R.list[i], x) <=>
                      (On(Q.list[i], x) /\ x # r) \/ (x = r /\ next \in {"pre", "post"} /\ i = Q.pend)
          /\ R.data = (Q.data \ {r}) \cup (IF next = "data" THEN {r} ELSE {})
      BY <1>3 DEF Moved
    <2>3. Q.pend # Q.run => ~On(Q.list[Q.run], r)
      BY DEF Ready
    <2>4. Q.pend \in {0, 1} /\ Q.run \in {0, 1} /\ Q.rq.tag \in Rqs \cup {None}
      <3>1. Q \in FqType
        BY <1>1, MachineRecord DEF Ready
      <3> HIDE DEF Q
      <3> QED
        BY <3>1, FqRecord
    <2> HIDE DEF Q, R
    <2>5. /\ \A i \in {0, 1} : IsInjective(Q.list[i]) /\ \A q \in Rqs : On(Q.list[i], q) => FqOf[q] = f
          /\ \A q \in Rqs : ~(On(Q.list[0], q) /\ On(Q.list[1], q))
          /\ \A q \in Q.data : FqOf[q] = f
          /\ Q.rq.ref = 0 + E.walks[f] + (IF Queued(S, E, f) THEN 1 ELSE 0)
          /\ Q.pend = Q.run <=> Q.rq.ref = 0
          /\ Q.pend = Q.run <=> Q.rq.tag = None
          /\ Q.pend # Q.run => On(Q.list[Q.run], Q.rq.tag)
          /\ (Q.pend = Q.run \/ Queued(S, E, f)) => ~Q.status
      BY <2>1 DEF Kept, Q
    <2>6. \A i \in {0, 1} : IsInjective(R.list[i]) /\ \A q \in Rqs : On(R.list[i], q) => FqOf[q] = f
      BY <2>2, <2>5
    <2>7. \A q \in Rqs : ~(On(R.list[0], q) /\ On(R.list[1], q))
      BY <2>2, <2>4, <2>5
    <2>8. \A q \in R.data : FqOf[q] = f
      BY <2>2, <2>5
    <2>9. R.pend # R.run => On(R.list[R.run], R.rq.tag)
      BY <2>2, <2>3, <2>4, <2>5
    <2> QED
      BY <2>1, <2>2, <2>5, <2>6, <2>7, <2>8, <2>9 DEF Kept, R
  <1>8. ASSUME NEW g \in Fqs \ {f} PROVE Kept(U, E, g, 0)
    <2>1. U.fq[g] = S.fq[g] /\ (Queued(U, E, g) <=> Queued(S, E, g)) /\ Kept(S, E, g, 0)
      BY <1>1, <1>3, <1>4 DEF Moved, Ready, Items
    <2> QED
      BY <2>1 DEF Kept
  <1>9. ASSUME NEW q \in Rqs \ {r} PROVE Placed(U, E, q)
    <2>1. Placed(S, E, q) /\ (Queued(U, E, q) <=> Queued(S, E, q)) /\ FqOf[q] \in Fqs
      BY <1>4, FlushAssumption DEF Ready, Items
    <2>2. U.seq[q] = S.seq[q] /\ U.result[q] = S.result[q]
      BY <1>3 DEF Moved
    <2>3. CASE FqOf[q] = f
      <3>1. \A i \in {0, 1} : On(U.fq[FqOf[q]].list[i], q) <=> On(S.fq[FqOf[q]].list[i], q)
        BY <1>3, <2>3 DEF Moved
      <3>2. q \in U.fq[FqOf[q]].data <=> q \in S.fq[FqOf[q]].data
        BY <1>3, <2>3 DEF Moved
      <3> QED
        BY <2>1, <2>2, <3>1, <3>2, PlacedSame
    <2>4. CASE FqOf[q] # f
      <3>1. U.fq[FqOf[q]] = S.fq[FqOf[q]]
        BY <1>3, <2>1, <2>4 DEF Moved
      <3> QED
        BY <2>1, <2>2, <3>1, PlacedSame
    <2> QED
      BY <2>3, <2>4
  <1>10. Placed(U, E, r)
    <2>1. /\ U.seq[r] = done /\ U.result[r] = IF next = "done" THEN (IF err THEN "error" ELSE "ok") ELSE None
          /\ r \notin E.new /\ S.fq[f].pend \in {0, 1}
      <3>1. S.fq[f] \in FqType
        BY <1>1, MachineRecord DEF Ready
      <3>2. S.fq[f].pend \in {0, 1}
        BY <3>1, FqRecord
      <3> QED
        BY <1>3, <3>2 DEF Moved, Ready
    <2>2. /\ (On(U.fq[f].list[0], r) \/ On(U.fq[f].list[1], r)) <=> next \in {"pre", "post"}
          /\ r \in U.fq[f].data <=> next = "data"
      BY <1>3, <2>1 DEF Moved
    <2>3. err => next = "done"
      BY DEF next
    <2>4. None # "error" /\ None # "ok"
      BY FlushAssumption
    <2> QED
      BY <1>1, <1>2, <1>5, <2>1, <2>2, <2>3, <2>4 DEF Placed
  <1>11. U \in MachineType
    BY <1>3 DEF Moved
  <1> QED
    BY <1>4, <1>6, <1>7, <1>8, <1>9, <1>10, <1>11 DEF Structure

LEMMA CompleteKeeps ==
  ASSUME setup \in Setups, NEW S, NEW E, NEW r \in Rqs, NEW steps, NEW err \in BOOLEAN, EnvOk(E),
         S.seq[r] \cap steps = {}, steps \subseteq Stages, Ready(S, E, r, S.seq[r] \cup steps, err)
  PROVE  LET V == CompleteSeq(S, FqOf[r], r, steps, err) IN
         /\ Structure(V, E) /\ Elsewhere(S, V, E, r) /\ V.seq[r] = S.seq[r] \cup steps
         /\ V.result[r] = "ok" => ~err
         /\ V.result[r] # "error" => ~err
  <1> DEFINE f == FqOf[r]
             done == S.seq[r] \cup steps
             next == IF err THEN "done" ELSE CurSeq[done]
             V == CompleteSeq(S, f, r, steps, err)
  <1>1. f \in Fqs /\ f \in Items /\ r \in Items /\ r \notin Fqs
    BY FlushAssumption DEF Items
  <1>2. S \in MachineType /\ IsInjective(S.requeue) /\ ~On(S.requeue, r) /\ Kept(S, E, f, 0) /\ S.result[r] = None
    BY <1>1 DEF Ready, Queued
  <1>3. IsInjective(S.fq[f].list[0]) /\ IsInjective(S.fq[f].list[1])
    BY <1>2 DEF Kept
  <1>4. \E U : Moved(S, U, r, done, next, err) /\ V = Kick(U, f)
    BY <1>1, <1>2, <1>3, MovedIs
  <1> HIDE DEF V, next
  <1>5. PICK U : Moved(S, U, r, done, next, err) /\ V = Kick(U, f)
    BY <1>4
  <1>6. Structure(U, E) /\ \A x \in Items \ {r} : Queued(U, E, x) <=> Queued(S, E, x)
    BY <1>5, MovedKeeps DEF next
  <1>7. /\ Structure(V, E)
        /\ \A x \in Items \ {f} : Queued(V, E, x) <=> Queued(U, E, x)
        /\ \/ /\ V.fq[f].pend = U.fq[f].pend /\ V.fq[f].status = U.fq[f].status
              /\ Queued(V, E, f) <=> Queued(U, E, f)
           \/ /\ U.fq[f].pend = U.fq[f].run /\ V.fq[f].pend # V.fq[f].run
              /\ On(V.requeue, f) /\ f \notin E.out
    BY <1>1, <1>5, <1>6, KickKeeps
  <1>8. /\ V.seq = U.seq /\ V.result = U.result /\ V.failed = U.failed
        /\ \A g \in Fqs \ {f} : V.fq[g] = U.fq[g]
        /\ V.fq[f].list = U.fq[f].list /\ V.fq[f].run = U.fq[f].run
    <2>1. U \in MachineType
      BY <1>5 DEF Moved
    <2> QED
      BY <1>1, <1>5, <2>1, KickIs
  <1>9. /\ V.failed = S.failed /\ V.fq[f].run = S.fq[f].run
        /\ \A g \in Fqs \ {f} : V.fq[g] = S.fq[g]
        /\ \A q \in Rqs \ {r} : V.seq[q] = S.seq[q] /\ V.result[q] = S.result[q]
        /\ V.seq[r] = done /\ V.result[r] = IF next = "done" THEN (IF err THEN "error" ELSE "ok") ELSE S.result[r]
        /\ U.fq[f].pend = S.fq[f].pend /\ U.fq[f].status = S.fq[f].status /\ U.fq[f].run = S.fq[f].run
    BY <1>5, <1>8 DEF Moved
  <1>10. /\ \A q \in Rqs \ {r}, i \in {0, 1} : On(V.fq[f].list[i], q) <=> On(S.fq[f].list[i], q)
         /\ \A i \in {0, 1} : On(V.fq[f].list[i], r) => S.fq[f].pend = i
    BY <1>5, <1>8 DEF Moved
  <1>11. \A x \in Items \ {r, f} : Queued(V, E, x) <=> Queued(S, E, x)
    BY <1>6, <1>7
  <1>12. /\ \A g \in Fqs \ {f} : Queued(V, E, g) <=> Queued(S, E, g)
         /\ \A q \in Rqs \ {r} : Queued(V, E, q) <=> Queued(S, E, q)
    BY <1>1, <1>11, FlushAssumption DEF Items
  <1>13. \/ V.fq[f].pend = S.fq[f].pend /\ V.fq[f].status = S.fq[f].status /\ (Queued(V, E, f) <=> Queued(S, E, f))
         \/ S.fq[f].pend = S.fq[f].run /\ V.fq[f].pend # V.fq[f].run /\ On(V.requeue, f) /\ f \notin E.out
    BY <1>1, <1>6, <1>7, <1>9
  <1>14. Elsewhere(S, V, E, r)
    BY <1>9, <1>10, <1>12, <1>13 DEF Elsewhere
  <1>15. (V.result[r] = "ok" => ~err) /\ (V.result[r] # "error" => ~err)
    BY <1>9 DEF next
  <1> QED
    BY <1>7, <1>9, <1>10, <1>14, <1>15 DEF V

-----------------------------------------------------------------------------
(* flush_end_io(): the requests of the running list are passed on in turn. *)

LEMMA LargestIs ==
  ASSUME NEW k \in Nat, NEW s \in SUBSET (1 .. k), s # {}
  PROVE  Max(s) \in s /\ \A y \in s : Max(s) >= y
  <1> DEFINE T == {t \in 1 .. k : k + 1 - t \in s}
  <1>1. PICK a \in s : TRUE
    OBVIOUS
  <1>2. a \in 1 .. k /\ k + 1 - a \in 1 .. k /\ k + 1 - (k + 1 - a) = a
    BY <1>1
  <1>3. T # {} /\ T \subseteq Nat
    <2>1. k + 1 - (k + 1 - a) \in s
      BY <1>2
    <2>2. k + 1 - a \in T
      BY <1>2, <2>1
    <2>3. \A t \in T : t \in Nat
      OBVIOUS
    <2> QED
      BY <2>2, <2>3
  <1>4. Min(T) \in T /\ \A t \in T : Min(T) <= t
    BY <1>3, SmallestIs
  <1> DEFINE b == k + 1 - Min(T)
  <1>5. b \in s /\ Min(T) \in 1 .. k
    BY <1>4
  <1>6. ASSUME NEW y \in s PROVE b >= y
    <2>1. y \in 1 .. k /\ k + 1 - y \in 1 .. k /\ k + 1 - (k + 1 - y) = y
      OBVIOUS
    <2>2. k + 1 - y \in T
      BY <2>1
    <2>3. Min(T) <= k + 1 - y
      BY <1>4, <2>2
    <2> HIDE DEF T
    <2> QED
      BY <1>5, <2>1, <2>3
  <1> HIDE DEF b
  <1> QED
    BY <1>5, <1>6 DEF Max

LEMMA PassesAre ==
  ASSUME NEW S, NEW f, NEW err, LastRef(S.fq[f]), S.fq[f].list[S.fq[f].run] \in Seq(Rqs)
  PROVE  LET l == S.fq[f].list[S.fq[f].run]
         IN \E P : /\ P[0] = Over(S, f)
                   /\ \A k \in 1 .. Len(l) : P[k] = PassOn(P[k - 1], f, l[k], err \/ S.fq[f].status)
                   /\ FlushEndIo(S, f, err) = P[Len(l)]
  <1> DEFINE l == S.fq[f].list[S.fq[f].run]
             T == Over(S, f)
             n == Len(l)
             Pass(U, r) == PassOn(U, f, r, err \/ S.fq[f].status)
             Build(h, s) == LET x == Max(s) IN Pass(h[s \ {x}], l[x])
             Iter(h, D) == [s \in SUBSET D |-> IF s = {} THEN T ELSE Build(h, s)]
             iter == CHOOSE h : h = Iter(h, DOMAIN l)
  <1>1. FlushEndIo(S, f, err) = iter[DOMAIN l]
    BY DEF FlushEndIo, FoldLeft, MapThenFoldSet, Over, PassOn
  <1>2. n \in Nat /\ DOMAIN l = 1 .. n
    <2> l \in Seq(Rqs)
      OBVIOUS
    <2> HIDE DEF l
    <2> QED
      OBVIOUS
  <1> HIDE DEF l, T, Pass, n
  <1>3. ASSUME NEW k \in Nat, NEW s \in SUBSET (1 .. k), s # {}
        PROVE  Max(s) \in s /\ s \ {Max(s)} \in SUBSET (1 .. k)
    BY <1>3, LargestIs
  <1>4. \E h : h = Iter(h, 1 .. 0)
    <2> DEFINE h == [s \in SUBSET (1 .. 0) |-> T]
    <2>1. \A s \in SUBSET (1 .. 0) : s = {}
      OBVIOUS
    <2>2. h = Iter(h, 1 .. 0)
      BY <2>1
    <2> QED
      BY <2>2
  <1>5. ASSUME NEW k \in Nat, \E h : h = Iter(h, 1 .. k)
        PROVE  \E h : h = Iter(h, 1 .. k + 1)
    <2>1. PICK h : h = Iter(h, 1 .. k)
      BY <1>5
    <2> DEFINE g == [s \in SUBSET (1 .. k + 1) |-> IF k + 1 \in s THEN Pass(h[s \ {k + 1}], l[k + 1]) ELSE h[s]]
    <2>2. \A s \in SUBSET (1 .. k) : s \in SUBSET (1 .. k + 1) /\ k + 1 \notin s /\ g[s] = h[s]
      OBVIOUS
    <2>3. ASSUME NEW s \in SUBSET (1 .. k + 1)
          PROVE  g[s] = IF s = {} THEN T ELSE Build(g, s)
      <3>1. CASE k + 1 \in s
        <4>1. Max(s) = k + 1 /\ s # {}
          <5>1. k + 1 \in Nat /\ s # {}
            BY <3>1
          <5>2. Max(s) \in s /\ Max(s) >= k + 1
            BY <3>1, <5>1, LargestIs
          <5>3. Max(s) \in 1 .. k + 1
            BY <5>2
          <5> HIDE DEF g
          <5> QED
            BY <3>1, <5>1, <5>2, <5>3
        <4>2. s \ {k + 1} \in SUBSET (1 .. k)
          OBVIOUS
        <4>3. g[s] = Pass(h[s \ {k + 1}], l[k + 1])
          BY <3>1
        <4>4. g[s \ {k + 1}] = h[s \ {k + 1}]
          BY <2>2, <4>2
        <4> HIDE DEF g
        <4> QED
          BY <4>1, <4>3, <4>4
      <3>2. CASE k + 1 \notin s
        <4>1. s \in SUBSET (1 .. k) /\ g[s] = h[s]
          BY <3>2
        <4>2. h[s] = IF s = {} THEN T ELSE Build(h, s)
          <5>1. Iter(h, 1 .. k)[s] = IF s = {} THEN T ELSE Build(h, s)
            BY <4>1
          <5> HIDE DEF Iter, Build
          <5> QED
            BY <2>1, <5>1
        <4>3. s # {} => g[s \ {Max(s)}] = h[s \ {Max(s)}]
          BY <1>3, <2>2, <4>1
        <4> HIDE DEF g
        <4> QED
          BY <4>1, <4>2, <4>3
      <3> QED
        BY <3>1, <3>2
    <2>4. g = Iter(g, 1 .. k + 1)
      <3>1. g = [s \in SUBSET (1 .. k + 1) |-> g[s]]
        OBVIOUS
      <3> HIDE DEF g, Build
      <3> QED
        BY <2>3, <3>1
    <2> QED
      BY <2>4
  <1>6. \E h : h = Iter(h, 1 .. n)
    <2> DEFINE B == {k \in Nat : ~\E h : h = Iter(h, 1 .. k)}
    <2> HIDE DEF Iter
    <2>1. CASE B = {}
      BY <1>2, <2>1
    <2>2. CASE B # {}
      <3>1. Min(B) \in B /\ \A y \in B : Min(B) <= y
        <4>1. B \subseteq Nat
          OBVIOUS
        <4> HIDE DEF B
        <4> QED
          BY <2>2, <4>1, SmallestIs
      <3> DEFINE b == Min(B)
      <3>2. b \in Nat /\ b # 0
        BY <1>4, <3>1
      <3>3. b - 1 \in Nat /\ ~(b <= b - 1) /\ b - 1 + 1 = b
        BY <3>2
      <3>4. b - 1 \notin B
        BY <3>1, <3>3
      <3>5. \E h : h = Iter(h, 1 .. b - 1)
        BY <3>3, <3>4
      <3>6. \E h : h = Iter(h, 1 .. b - 1 + 1)
        BY <1>5, <3>3, <3>5
      <3> QED
        BY <3>1, <3>3, <3>6
    <2> QED
      BY <2>1, <2>2
  <1>7. iter = Iter(iter, 1 .. n)
    <2> HIDE DEF Iter
    <2> QED
      BY <1>2, <1>6
  <1> HIDE DEF iter
  <1>8. ASSUME NEW s \in SUBSET (1 .. n)
        PROVE  iter[s] = IF s = {} THEN T ELSE Build(iter, s)
    <2>1. Iter(iter, 1 .. n)[s] = IF s = {} THEN T ELSE Build(iter, s)
      OBVIOUS
    <2> HIDE DEF Iter, Build
    <2> QED
      BY <1>7, <2>1
  <1> DEFINE P == [k \in 0 .. n |-> iter[1 .. k]]
  <1>9. P[0] = T
    <2>1. 1 .. 0 = {} /\ 1 .. 0 \in SUBSET (1 .. n) /\ 0 \in 0 .. n
      BY <1>2
    <2> QED
      BY <1>8, <2>1
  <1>10. ASSUME NEW k \in 1 .. n PROVE P[k] = Pass(P[k - 1], l[k])
    <2>1. k \in Nat /\ k \in 0 .. n /\ k - 1 \in 0 .. n /\ 1 .. k \in SUBSET (1 .. n) /\ k \in 1 .. k
      BY <1>2
    <2>2. Max(1 .. k) = k
      <3>1. Max(1 .. k) \in 1 .. k /\ Max(1 .. k) >= k
        BY <2>1, LargestIs
      <3> QED
        BY <2>1, <3>1
    <2>3. (1 .. k) \ {k} = 1 .. k - 1
      BY <2>1
    <2>4. iter[1 .. k] = Pass(iter[1 .. k - 1], l[k])
      BY <1>8, <2>1, <2>2, <2>3
    <2> QED
      BY <2>1, <2>4
  <1>11. P[n] = iter[DOMAIN l]
    BY <1>2
  <1> HIDE DEF P
  <1> QED
    BY <1>1, <1>9, <1>10, <1>11 DEF l, T, Pass, n

LEMMA CompleteDurable ==
  ASSUME setup \in Setups, NEW S, NEW V, NEW E, NEW r \in Rqs, EnvOk(E),
         Structure(V, E), Elsewhere(S, V, E, r), \A g \in Fqs : Covered(S, E, g),
         \A q \in Rqs \ {r} : Promised(S, E, q), Promised(V, E, r)
  PROVE  Durable(V, E)
  <1> DEFINE f == FqOf[r]
  <1>1. f \in Fqs /\ f \in Items
    BY FlushAssumption DEF Items
  <1>2. \A q \in Rqs \ {r} : V.seq[q] = S.seq[q] /\ V.result[q] = S.result[q]
    BY DEF Elsewhere
  <1>3. ASSUME NEW q \in Rqs PROVE Promised(V, E, q)
    BY <1>2 DEF Promised
  <1>4. ASSUME NEW g \in Fqs \ {f} PROVE Covered(V, E, g)
    <2>1. V.fq[g] = S.fq[g] /\ (Queued(V, E, g) <=> Queued(S, E, g)) /\ Covered(S, E, g) /\ Kept(V, E, g, 0)
      BY DEF Elsewhere, Structure
    <2>2. V.fq[g].run \in {0, 1}
      <3>1. V.fq[g] \in FqType
        BY MachineRecord DEF Structure
      <3> QED
        BY <3>1, FqRecord
    <2>3. ~On(V.fq[g].list[V.fq[g].run], r)
      BY <2>1, <2>2 DEF Kept
    <2>4. \A q \in Rqs \ {r} : Needs(V, E, q) = Needs(S, E, q)
      BY <1>2 DEF Needs
    <2> QED
      BY <2>1, <2>3, <2>4 DEF Covered
  <1>5. Covered(V, E, f)
    <2>1. V.fq[f].run = S.fq[f].run /\ V.fq[f].run \in {0, 1}
      <3>1. V.fq[f] \in FqType
        BY <1>1, MachineRecord DEF Structure
      <3>2. V.fq[f].run \in {0, 1}
        BY <3>1, FqRecord
      <3> QED
        BY <3>2 DEF Elsewhere
    <2>2. CASE V.fq[f].pend = S.fq[f].pend /\ V.fq[f].status = S.fq[f].status /\ (Queued(V, E, f) <=> Queued(S, E, f))
      <3>1. SUFFICES ASSUME V.fq[f].pend # V.fq[f].run, ~V.fq[f].status, NEW q \in Rqs, On(V.fq[f].list[V.fq[f].run], q)
                     PROVE  /\ f \in E.sent => Needs(V, E, q) \subseteq E.snap[f]
                            /\ ~Queued(V, E, f) => Needs(V, E, q) \subseteq E.durable
        BY DEF Covered
      <3>2. q # r
        BY <2>1, <2>2, <3>1 DEF Elsewhere
      <3>3. On(S.fq[f].list[S.fq[f].run], q) /\ Needs(V, E, q) = Needs(S, E, q)
        BY <1>2, <2>1, <3>1, <3>2 DEF Elsewhere, Needs
      <3>4. Covered(S, E, f)
        BY <1>1
      <3> QED
        BY <2>1, <2>2, <3>1, <3>3, <3>4 DEF Covered
    <2>3. CASE On(V.requeue, f) /\ f \notin E.out
      BY <1>1, <2>3 DEF Covered, Queued, EnvOk
    <2> QED
      BY <2>2, <2>3 DEF Elsewhere
  <1> QED
    BY <1>3, <1>4, <1>5 DEF Durable

LEMMA PassKeeps ==
  ASSUME setup \in Setups, NEW U, NEW E, NEW r \in Rqs, NEW failing \in BOOLEAN, EnvOk(E), Structure(U, E),
         On(U.fq[FqOf[r]].list[1 - U.fq[FqOf[r]].run], r)
  PROVE  LET V == PassOn(U, FqOf[r], r, failing) IN
         /\ Structure(V, E) /\ Elsewhere(U, V, E, r)
         /\ Durable(U, E) /\ (~failing => Needs(U, E, r) \subseteq E.durable) => Durable(V, E)
  <1> DEFINE f == FqOf[r]
             step == CurSeq[U.seq[r]]
             V == CompleteSeq(U, f, r, {step}, failing)
  <1>1. f \in Fqs /\ f \in Items /\ r \in Items
    BY FlushAssumption DEF Items
  <1>2. /\ U \in MachineType /\ U.seq[r] \in SUBSET Stages /\ U.fq[f].run \in {0, 1} /\ Placed(U, E, r) /\ Kept(U, E, f, 0)
    <2>1. U \in MachineType
      BY DEF Structure
    <2>2. U.fq[f] \in FqType /\ U.seq[r] \in SUBSET Stages
      BY <1>1, <2>1, MachineRecord
    <2> QED
      BY <1>1, <2>1, <2>2, FqRecord DEF Structure
  <1>3. On(U.fq[f].list[0], r) \/ On(U.fq[f].list[1], r)
    BY <1>2
  <1>4. /\ Flushed(r) /\ ~Queued(U, E, r) /\ U.result[r] = None /\ r \notin E.new
        /\ step \in {"pre", "post"} /\ InOrder(r, U.seq[r])
    BY <1>2, <1>3, FlushAssumption DEF Placed
  <1>5. /\ step \notin U.seq[r] /\ InOrder(r, U.seq[r] \cup {step}) /\ {step} \subseteq Stages /\ U.seq[r] \cap {step} = {}
        /\ step \in Policy(r)
    <2>1. step # "done"
      BY <1>4
    <2>2. step \in Policy(r) /\ step \notin U.seq[r] /\ InOrder(r, U.seq[r] \cup {step})
      BY <1>2, <1>4, <2>1, NextStep
    <2> HIDE DEF step
    <2> QED
      BY <1>4, <2>2 DEF Stages
  <1>6. Ready(U, E, r, U.seq[r] \cup {step}, failing)
    <2>1. ~On(U.fq[f].list[U.fq[f].run], r)
      <3>1. ~(On(U.fq[f].list[0], r) /\ On(U.fq[f].list[1], r))
        BY <1>2 DEF Kept
      <3>2. CASE U.fq[f].run = 0
        BY <3>1, <3>2
      <3>3. CASE U.fq[f].run = 1
        BY <3>1, <3>3
      <3> QED
        BY <1>2, <3>2, <3>3
    <2> HIDE DEF step
    <2> QED
      BY <1>2, <1>4, <1>5, <2>1 DEF Ready, Structure
  <1> HIDE DEF V, step
  <1>7. /\ Structure(V, E) /\ Elsewhere(U, V, E, r) /\ V.seq[r] = U.seq[r] \cup {step}
        /\ V.result[r] # "error" => ~failing
        /\ V.result[r] = "ok" => ~failing
    <2> DEFINE steps == {step}
    <2>1. U.seq[r] \cap steps = {} /\ steps \subseteq Stages /\ Ready(U, E, r, U.seq[r] \cup steps, failing)
      BY <1>5, <1>6
    <2> DEFINE W == CompleteSeq(U, FqOf[r], r, steps, failing)
    <2>2. V = W
      BY DEF V
    <2> HIDE DEF steps
    <2>3. /\ Structure(W, E) /\ Elsewhere(U, W, E, r) /\ W.seq[r] = U.seq[r] \cup steps
          /\ W.result[r] = "ok" => ~failing
          /\ W.result[r] # "error" => ~failing
      BY <2>1, CompleteKeeps
    <2> HIDE DEF W
    <2> QED
      BY <2>2, <2>3 DEF steps
  <1>8. PassOn(U, f, r, failing) = V
    <2>1. V \in MachineType
      BY <1>7 DEF Structure
    <2>2. (V.bug \/ step \notin {"pre", "post"}) = V.bug
      BY <1>4, <2>1, MachineRecord
    <2>3. PassOn(U, f, r, failing) = [V EXCEPT !.bug = @ \/ step \notin {"pre", "post"}]
      BY DEF PassOn, V, step
    <2>4. PassOn(U, f, r, failing) = [V EXCEPT !.bug = V.bug]
      BY <2>2, <2>3
    <2>5. V = [fq |-> V.fq, seq |-> V.seq, result |-> V.result, requeue |-> V.requeue, bug |-> V.bug, failed |-> V.failed]
      BY <2>1, MachineRecord
    <2> QED
      BY <2>4, <2>5
  <1>9. ASSUME Durable(U, E), ~failing => Needs(U, E, r) \subseteq E.durable
        PROVE  Durable(V, E)
    <2>1. \A q \in Rqs : Promised(U, E, q)
      BY <1>9 DEF Durable
    <2>2. \A g \in Fqs : Covered(U, E, g)
      BY <1>9 DEF Durable
    <2>3. step = "pre" \/ step = "post"
      BY <1>4
    <2>4. Needs(U, E, r) = IF step = "pre" THEN E.before[r] ELSE {r}
      BY DEF Needs, step
    <2>5. Promised(V, E, r)
      <3>1. Promised(U, E, r) /\ U.result[r] # "error" /\ U.result[r] # "ok"
        BY <1>4, <2>1, FlushAssumption
      <3>2. "data" \in V.seq[r] <=> "data" \in U.seq[r]
        BY <1>7, <2>3
      <3>3. "pre" \in V.seq[r] /\ V.result[r] # "error" => "pre" \in U.seq[r] \/ E.before[r] \subseteq E.durable
        BY <1>7, <1>9, <2>3, <2>4
      <3>4. "post" \in V.seq[r] /\ V.result[r] # "error" => "post" \in U.seq[r] \/ r \in E.durable
        BY <1>7, <1>9, <2>3, <2>4
      <3>5. setup.kind[r].data /\ V.result[r] = "ok" => r \in E.cached
        <4>1. SUFFICES ASSUME setup.kind[r].data, V.result[r] = "ok" PROVE r \in E.cached
          OBVIOUS
        <4>2. V.seq[r] = Stages
          <5>1. Placed(V, E, r)
            BY <1>7 DEF Structure
          <5> QED
            BY <1>4, <4>1, <5>1 DEF Placed
        <4>3. "data" \in U.seq[r] \cap Policy(r)
          BY <3>2, <4>1, <4>2, PolicyIs DEF Stages
        <4> QED
          BY <1>4, <3>1, <4>3 DEF Promised
      <3> QED
        BY <3>1, <3>2, <3>3, <3>4, <3>5 DEF Promised
    <2> QED
      BY <1>7, <2>1, <2>2, <2>5, CompleteDurable
  <1> QED
    BY <1>7, <1>8, <1>9

LEMMA OverKeeps ==
  ASSUME NEW S, NEW E, NEW f \in Fqs, EnvOk(E), Ending(S, E, f), LastRef(S.fq[f])
  PROVE  LET T == Over(S, f) IN
         /\ Structure(T, E)
         /\ T.fq[f].run = 1 - S.fq[f].run /\ T.fq[f].list = S.fq[f].list
         /\ T.seq = S.seq /\ T.failed = S.failed /\ T.result = S.result
         /\ T.fq[f].pend = T.fq[f].run /\ ~T.fq[f].status
         /\ \A g \in Fqs \ {f} : T.fq[g] = S.fq[g]
         /\ T.requeue = S.requeue
  <1> DEFINE Q == S.fq[f]
             T == Over(S, f)
             none == [ref |-> Q.rq.ref - 1, tag |-> TagReturned(Q)]
             R == [Q EXCEPT !.rq = none, !.status = FALSE, !.run = 1 - @]
  <1>1. /\ S \in MachineType /\ Q \in FqType /\ Kept(S, E, f, 1)
        /\ S.fq \in [Fqs -> FqType] /\ S.seq \in [Rqs -> SUBSET Stages]
        /\ S.result \in [Rqs -> {"ok", "error", None}] /\ S.requeue \in Seq(Items)
        /\ S.bug = FALSE /\ S.failed \subseteq Rqs
    BY MachineRecord DEF Ending
  <1>2. Q = [list |-> Q.list, pend |-> Q.pend, run |-> Q.run, data |-> Q.data, old |-> Q.old,
             status |-> Q.status, rq |-> Q.rq]
    <2> HIDE DEF Q
    <2> QED
      BY <1>1, FqRecord
  <1>3. /\ Q.list \in [{0, 1} -> Seq(Rqs)] /\ Q.pend \in {0, 1} /\ Q.run \in {0, 1} /\ Q.data \subseteq Rqs
        /\ Q.old \in BOOLEAN
    <2> HIDE DEF Q
    <2> QED
      BY <1>1, FqRecord
  <1>4. Q.rq.ref = 1 /\ none = [ref |-> 0, tag |-> None]
    BY DEF LastRef, TagReturned
  <1>5. E.walks[f] = 0 /\ ~Queued(S, E, f) /\ Q.pend # Q.run
    BY <1>1, <1>4 DEF Kept, EnvOk
  <1> DEFINE no == FALSE
  <1>6. R = [list |-> Q.list, pend |-> Q.pend, run |-> 1 - Q.run, data |-> Q.data, old |-> Q.old,
             status |-> no, rq |-> none]
    <2> DEFINE A == [Q EXCEPT !.rq = none]
               B == [A EXCEPT !.status = no]
    <2> HIDE DEF no, Q, none
    <2>1. A = [list |-> Q.list, pend |-> Q.pend, run |-> Q.run, data |-> Q.data, old |-> Q.old,
               status |-> Q.status, rq |-> none]
      BY <1>2
    <2> HIDE DEF A
    <2>2. B = [list |-> Q.list, pend |-> Q.pend, run |-> Q.run, data |-> Q.data, old |-> Q.old,
               status |-> no, rq |-> none]
      BY <2>1
    <2> HIDE DEF B
    <2>3. R = [B EXCEPT !.run = 1 - Q.run]
      BY DEF A, B, no
    <2> HIDE DEF R
    <2> QED
      BY <2>2, <2>3
  <1>7. /\ R.list = Q.list /\ R.pend = Q.pend /\ R.run = 1 - Q.run /\ R.data = Q.data /\ R.status = FALSE
        /\ R.rq.ref = 0 /\ R.rq.tag = None
    <2> HIDE DEF Q, R, none
    <2> QED
      BY <1>4, <1>6
  <1>8. R \in FqType
    <2>1. 1 - Q.run \in {0, 1} /\ none \in [ref : Nat, tag : Rqs \cup {None}] /\ no \in BOOLEAN
      BY <1>3, <1>4
    <2> HIDE DEF Q, R, none, no
    <2> QED
      BY <1>3, <1>6, <2>1 DEF FqType
  <1>9. T = [fq |-> [S.fq EXCEPT ![f] = R], seq |-> S.seq, result |-> S.result, requeue |-> S.requeue,
             bug |-> S.bug, failed |-> S.failed]
    <2> DEFINE A == [S EXCEPT !.fq[f] = R]
    <2>1. (S.bug \/ Q.pend = Q.run) = S.bug
      BY <1>1, <1>5
    <2>2. T = [A EXCEPT !.bug = S.bug \/ Q.pend = Q.run]
      BY DEF Over
    <2>3. T = [A EXCEPT !.bug = S.bug]
      BY <2>1, <2>2
    <2> HIDE DEF R
    <2>4. A = [S EXCEPT !.fq = [S.fq EXCEPT ![f] = R]]
      OBVIOUS
    <2> HIDE DEF A, T
    <2>5. S = [fq |-> S.fq, seq |-> S.seq, result |-> S.result, requeue |-> S.requeue, bug |-> S.bug, failed |-> S.failed]
      BY <1>1, MachineRecord
    <2>6. A = [fq |-> [S.fq EXCEPT ![f] = R], seq |-> S.seq, result |-> S.result, requeue |-> S.requeue,
               bug |-> S.bug, failed |-> S.failed]
      BY <2>4, <2>5
    <2> QED
      BY <2>3, <2>6
  <1> HIDE DEF R, T, none
  <1>10. /\ T.seq = S.seq /\ T.failed = S.failed /\ T.result = S.result /\ T.requeue = S.requeue
         /\ T.fq[f] = R /\ \A g \in Fqs \ {f} : T.fq[g] = S.fq[g]
    BY <1>1, <1>9
  <1>11. T \in MachineType
    <2>1. [S.fq EXCEPT ![f] = R] \in [Fqs -> FqType]
      BY <1>1, <1>8
    <2> QED
      BY <1>1, <1>9, <2>1 DEF MachineType
  <1>12. \A x : Queued(T, E, x) <=> Queued(S, E, x)
    BY <1>10 DEF Queued
  <1>13. R.pend = R.run
    <2> HIDE DEF Q
    <2> QED
      BY <1>3, <1>5, <1>7
  <1>14. Kept(T, E, f, 0)
    BY <1>1, <1>5, <1>7, <1>10, <1>12, <1>13 DEF Kept
  <1>15. ASSUME NEW g \in Fqs \ {f} PROVE Kept(T, E, g, 0)
    <2>1. Kept(S, E, g, 0)
      BY DEF Ending
    <2> QED
      BY <1>10, <1>12, <2>1 DEF Kept
  <1>16. ASSUME NEW r \in Rqs PROVE Placed(T, E, r)
    <2>1. Placed(S, E, r) /\ FqOf[r] \in Fqs
      BY FlushAssumption DEF Ending
    <2>2. T.fq[FqOf[r]].list = S.fq[FqOf[r]].list /\ T.fq[FqOf[r]].data = S.fq[FqOf[r]].data
      BY <1>7, <1>10, <2>1
    <2> QED
      BY <1>10, <1>12, <2>1, <2>2, PlacedSame
  <1>17. Structure(T, E)
    BY <1>10, <1>11, <1>14, <1>15, <1>16 DEF Structure, Ending
  <1> QED
    BY <1>7, <1>10, <1>13, <1>17 DEF T

LEMMA NotLastKeeps ==
  ASSUME NEW S, NEW E, NEW f \in Fqs, NEW err \in BOOLEAN, EnvOk(E), Ending(S, E, f), ~LastRef(S.fq[f]),
         Queued(S, E, f) => ~err
  PROVE  LET V == FlushEndIo(S, f, err) IN
         /\ Structure(V, E) /\ V.failed = S.failed
         /\ \A g \in Fqs : V.fq[g].status => S.fq[g].status \/ err
         /\ EndingWell(S, E, f, err) => Durable(V, E)
  <1> DEFINE Q == S.fq[f]
             V == FlushEndIo(S, f, err)
             less == [Q.rq EXCEPT !.ref = Q.rq.ref - 1]
             A == [Q EXCEPT !.rq = less]
             B == [S EXCEPT !.fq = [S.fq EXCEPT ![f] = A]]
             R == [A EXCEPT !.status = err]
  <1>1. /\ S \in MachineType /\ Q \in FqType /\ Kept(S, E, f, 1)
        /\ S.fq \in [Fqs -> FqType] /\ S.seq \in [Rqs -> SUBSET Stages]
        /\ S.result \in [Rqs -> {"ok", "error", None}] /\ S.requeue \in Seq(Items)
        /\ S.bug \in {FALSE} /\ S.failed \subseteq Rqs
    BY MachineRecord DEF Ending
  <1>2. Q = [list |-> Q.list, pend |-> Q.pend, run |-> Q.run, data |-> Q.data, old |-> Q.old,
             status |-> Q.status, rq |-> Q.rq]
    <2> HIDE DEF Q
    <2> QED
      BY <1>1, FqRecord
  <1>3. /\ Q.list \in [{0, 1} -> Seq(Rqs)] /\ Q.pend \in {0, 1} /\ Q.run \in {0, 1} /\ Q.data \subseteq Rqs
        /\ Q.old \in BOOLEAN /\ Q.rq \in [ref : Nat, tag : Rqs \cup {None}]
    <2> HIDE DEF Q
    <2> QED
      BY <1>1, FqRecord
  <1>4. Q.rq.ref \in Nat /\ Q.rq.ref # 1 /\ Q.rq.ref = 1 + E.walks[f] + (IF Queued(S, E, f) THEN 1 ELSE 0)
    BY <1>1, <1>3 DEF Kept, LastRef
  <1>5. /\ Q.rq.ref - 1 \in Nat /\ Q.rq.ref # 0 /\ Q.rq.ref - 1 # 0
        /\ Q.rq.ref - 1 = 0 + E.walks[f] + (IF Queued(S, E, f) THEN 1 ELSE 0)
    BY <1>4 DEF EnvOk
  <1>6. Q.pend # Q.run /\ Q.rq.tag # None
    BY <1>1, <1>5 DEF Kept
  <1>7. less \in [ref : Nat, tag : Rqs \cup {None}] /\ less.ref = Q.rq.ref - 1 /\ less.tag = Q.rq.tag
    <2> HIDE DEF Q
    <2> QED
      BY <1>3, <1>5
  <1>8. R = [list |-> Q.list, pend |-> Q.pend, run |-> Q.run, data |-> Q.data, old |-> Q.old,
             status |-> err, rq |-> less]
    <2> HIDE DEF Q, less
    <2>1. A = [list |-> Q.list, pend |-> Q.pend, run |-> Q.run, data |-> Q.data, old |-> Q.old,
               status |-> Q.status, rq |-> less]
      BY <1>2
    <2> HIDE DEF A
    <2> QED
      BY <2>1
  <1>9. /\ R.list = Q.list /\ R.pend = Q.pend /\ R.run = Q.run /\ R.data = Q.data /\ R.status = err
        /\ R.rq.ref = Q.rq.ref - 1 /\ R.rq.tag = Q.rq.tag
    <2> HIDE DEF R, Q, less
    <2> QED
      BY <1>7, <1>8
  <1>10. R \in FqType
    <2> HIDE DEF R, Q, less
    <2> QED
      BY <1>3, <1>7, <1>8 DEF FqType
  <1>11. V = [S EXCEPT !.fq = [S.fq EXCEPT ![f] = R]]
    <2>1. V = [[S EXCEPT !.fq[f].rq.ref = Q.rq.ref - 1] EXCEPT !.fq[f].status = err]
      BY DEF FlushEndIo
    <2>2. [S EXCEPT !.fq[f].rq.ref = Q.rq.ref - 1] = B
      OBVIOUS
    <2>3. V = [B EXCEPT !.fq = [B.fq EXCEPT ![f] = [B.fq[f] EXCEPT !.status = err]]]
      BY <2>1, <2>2
    <2>4. S = [fq |-> S.fq, seq |-> S.seq, result |-> S.result, requeue |-> S.requeue, bug |-> S.bug, failed |-> S.failed]
      BY <1>1, MachineRecord
    <2> HIDE DEF A, Q, V
    <2>5. B = [fq |-> [S.fq EXCEPT ![f] = A], seq |-> S.seq, result |-> S.result, requeue |-> S.requeue, bug |-> S.bug,
               failed |-> S.failed]
      BY <2>4
    <2> HIDE DEF B
    <2>6. B.fq = [S.fq EXCEPT ![f] = A] /\ B.fq[f] = A
      BY <1>1, <2>5
    <2>7. V = [B EXCEPT !.fq = [[S.fq EXCEPT ![f] = A] EXCEPT ![f] = R]]
      BY <2>3, <2>6
    <2> HIDE DEF R
    <2>8. [[S.fq EXCEPT ![f] = A] EXCEPT ![f] = R] = [S.fq EXCEPT ![f] = R]
      BY <1>1
    <2> QED
      BY <2>4, <2>5, <2>7, <2>8
  <1> HIDE DEF R, V, A, B, less
  <1>12. V = [fq |-> [S.fq EXCEPT ![f] = R], seq |-> S.seq, result |-> S.result, requeue |-> S.requeue, bug |-> S.bug,
              failed |-> S.failed]
    <2>1. S = [fq |-> S.fq, seq |-> S.seq, result |-> S.result, requeue |-> S.requeue, bug |-> S.bug, failed |-> S.failed]
      BY <1>1, MachineRecord
    <2> HIDE DEF Q
    <2> QED
      BY <1>11, <2>1
  <1>13. /\ V.seq = S.seq /\ V.failed = S.failed /\ V.result = S.result /\ V.requeue = S.requeue
         /\ V.fq[f] = R /\ \A g \in Fqs \ {f} : V.fq[g] = S.fq[g]
    BY <1>1, <1>12
  <1>14. V \in MachineType
    <2>1. [S.fq EXCEPT ![f] = R] \in [Fqs -> FqType]
      BY <1>1, <1>10
    <2> QED
      BY <1>1, <1>12, <2>1 DEF MachineType
  <1>15. \A x : Queued(V, E, x) <=> Queued(S, E, x)
    BY <1>13 DEF Queued
  <1>16. Kept(V, E, f, 0)
    <2> HIDE DEF Q
    <2>1. /\ \A i \in {0, 1} : IsInjective(Q.list[i]) /\ \A r \in Rqs : On(Q.list[i], r) => FqOf[r] = f
          /\ \A r \in Rqs : ~(On(Q.list[0], r) /\ On(Q.list[1], r))
          /\ \A r \in Q.data : FqOf[r] = f
          /\ Q.pend # Q.run => On(Q.list[Q.run], Q.rq.tag)
      BY <1>1 DEF Kept, Q
    <2>2. Queued(V, E, f) => ~R.status
      BY <1>9, <1>15
    <2> QED
      BY <1>5, <1>6, <1>9, <1>13, <1>15, <2>1, <2>2 DEF Kept
  <1>17. ASSUME NEW g \in Fqs \ {f} PROVE Kept(V, E, g, 0)
    <2>1. Kept(S, E, g, 0)
      BY DEF Ending
    <2> QED
      BY <1>13, <1>15, <2>1 DEF Kept
  <1>18. ASSUME NEW r \in Rqs PROVE Placed(V, E, r)
    <2>1. Placed(S, E, r) /\ FqOf[r] \in Fqs
      BY FlushAssumption DEF Ending
    <2>2. V.fq[FqOf[r]].list = S.fq[FqOf[r]].list /\ V.fq[FqOf[r]].data = S.fq[FqOf[r]].data
      BY <1>9, <1>13, <2>1
    <2> QED
      BY <1>13, <1>15, <2>1, <2>2, PlacedSame
  <1>19. Structure(V, E)
    BY <1>13, <1>14, <1>16, <1>17, <1>18 DEF Structure, Ending
  <1>20. \A g \in Fqs : V.fq[g].status => S.fq[g].status \/ err
    BY <1>9, <1>13
  <1>21. ASSUME EndingWell(S, E, f, err) PROVE Durable(V, E)
    <2>1. ASSUME NEW r \in Rqs PROVE Promised(V, E, r)
      <3>1. Promised(S, E, r)
        BY <1>21 DEF EndingWell
      <3> QED
        BY <1>13, <3>1 DEF Promised
    <2>2. \A r \in Rqs : Needs(V, E, r) = Needs(S, E, r)
      BY <1>13 DEF Needs
    <2>3. ASSUME NEW g \in Fqs \ {f} PROVE Covered(V, E, g)
      <3>1. Covered(S, E, g)
        BY <1>21 DEF EndingWell
      <3> QED
        BY <1>13, <1>15, <2>2, <3>1 DEF Covered
    <2>4. Covered(V, E, f)
      <3>1. CASE err
        BY <1>9, <1>13, <3>1 DEF Covered
      <3>2. CASE ~err
        <4>1. Covered(S, E, f) /\ ~Q.status
          BY <1>4, <1>21, <3>2 DEF EndingWell
        <4> QED
          BY <1>9, <1>13, <1>15, <2>2, <4>1 DEF Covered
      <3> QED
        BY <3>1, <3>2
    <2> QED
      BY <2>1, <2>3, <2>4 DEF Durable
  <1> QED
    BY <1>13, <1>19, <1>20, <1>21 DEF V

LEMMA LastKeeps ==
  ASSUME setup \in Setups, NEW S, NEW E, NEW f \in Fqs, NEW err \in BOOLEAN, EnvOk(E), Ending(S, E, f), LastRef(S.fq[f])
  PROVE  LET V == FlushEndIo(S, f, err) IN
         /\ Structure(V, E) /\ V.failed = S.failed
         /\ \A g \in Fqs : V.fq[g].status => S.fq[g].status \/ err
         /\ EndingWell(S, E, f, err) => Durable(V, E)
  <1> DEFINE old == S.fq[f].run
             l == S.fq[f].list[old]
             n == Len(l)
             T == Over(S, f)
             failing == err \/ S.fq[f].status
             well == EndingWell(S, E, f, err)
             J(U, k) == /\ Structure(U, E) /\ U.fq[f].run = 1 - old /\ U.failed = S.failed
                        /\ \A j \in k + 1 .. n : On(U.fq[f].list[old], l[j]) /\ U.seq[l[j]] = S.seq[l[j]]
                        /\ \A g \in Fqs : U.fq[g].status => S.fq[g].status \/ err
                        /\ well => Durable(U, E)
  <1>1. /\ S \in MachineType /\ Kept(S, E, f, 1) /\ old \in {0, 1} /\ l \in Seq(Rqs) /\ IsInjective(l)
        /\ failing \in BOOLEAN /\ S.fq[f].rq.ref = 1
    <2>1. S \in MachineType /\ S.fq[f] \in FqType /\ Kept(S, E, f, 1)
      BY MachineRecord DEF Ending
    <2>2. old \in {0, 1} /\ S.fq[f].list \in [{0, 1} -> Seq(Rqs)]
      BY <2>1, FqRecord
    <2>3. l \in Seq(Rqs)
      BY <2>2
    <2>4. IsInjective(l)
      BY <2>1, <2>2 DEF Kept
    <2> QED
      BY <2>1, <2>2, <2>3, <2>4 DEF LastRef
  <1>2. /\ ~Queued(S, E, f) /\ S.fq[f].pend # S.fq[f].run
    BY <1>1 DEF Kept, EnvOk
  <1>3. /\ Structure(T, E)
        /\ T.fq[f].run = 1 - old /\ T.fq[f].list = S.fq[f].list
        /\ T.seq = S.seq /\ T.failed = S.failed /\ T.result = S.result
        /\ T.fq[f].pend = T.fq[f].run /\ ~T.fq[f].status
        /\ \A g \in Fqs \ {f} : T.fq[g] = S.fq[g]
        /\ T.requeue = S.requeue
    BY OverKeeps
  <1>4. \E P : /\ P[0] = T
               /\ \A k \in 1 .. n : P[k] = PassOn(P[k - 1], f, l[k], failing)
               /\ FlushEndIo(S, f, err) = P[n]
    BY <1>1, PassesAre
  <1> HIDE DEF T, l, n, failing
  <1>5. PICK P : /\ P[0] = T
                 /\ \A k \in 1 .. n : P[k] = PassOn(P[k - 1], f, l[k], failing)
                 /\ FlushEndIo(S, f, err) = P[n]
    BY <1>4
  <1>6. n \in Nat /\ DOMAIN l = 1 .. n /\ \A j \in 1 .. n : l[j] \in Rqs /\ On(l, l[j]) /\ FqOf[l[j]] = f
    <2>1. n \in Nat /\ DOMAIN l = 1 .. n /\ \A j \in 1 .. n : l[j] \in Rqs
      BY <1>1 DEF n
    <2>2. \A j \in 1 .. n : On(l, l[j])
      BY <2>1 DEF On
    <2>3. \A r \in Rqs : On(l, r) => FqOf[r] = f
      BY <1>1 DEF Kept, l
    <2> QED
      BY <2>1, <2>2, <2>3
  <1>7. J(P[0], 0)
    <2>1. \A j \in 0 + 1 .. n : On(T.fq[f].list[old], l[j]) /\ T.seq[l[j]] = S.seq[l[j]]
      <3>1. T.fq[f].list[old] = l
        BY <1>3 DEF l
      <3> QED
        BY <1>3, <1>6, <3>1
    <2>2. \A g \in Fqs : T.fq[g].status => S.fq[g].status \/ err
      BY <1>3
    <2>3. ASSUME well PROVE Durable(T, E)
      <3>1. \A x : Queued(T, E, x) <=> Queued(S, E, x)
        BY <1>3 DEF Queued
      <3>2. \A r \in Rqs : Needs(T, E, r) = Needs(S, E, r)
        BY <1>3 DEF Needs
      <3>3. ASSUME NEW r \in Rqs PROVE Promised(T, E, r)
        <4>1. Promised(S, E, r)
          BY <2>3 DEF EndingWell
        <4> QED
          BY <1>3, <4>1 DEF Promised
      <3>4. ASSUME NEW g \in Fqs \ {f} PROVE Covered(T, E, g)
        <4>1. Covered(S, E, g)
          BY <2>3 DEF EndingWell
        <4> QED
          BY <1>3, <3>1, <3>2, <4>1 DEF Covered
      <3>5. Covered(T, E, f)
        BY <1>3 DEF Covered
      <3> QED
        BY <3>3, <3>4, <3>5 DEF Durable
    <2> QED
      BY <1>3, <1>5, <2>1, <2>2, <2>3
  <1>8. ASSUME NEW k \in Nat, k + 1 \in 1 .. n, J(P[k], k)
        PROVE  J(P[k + 1], k + 1)
    <2> DEFINE r == l[k + 1]
               U == P[k]
               V == P[k + 1]
    <2>1. k + 1 - 1 = k /\ k + 1 \in k + 1 .. n
      BY <1>6, <1>8
    <2>2. V = PassOn(U, f, r, failing) /\ r \in Rqs /\ FqOf[r] = f
      BY <1>5, <1>6, <1>8, <2>1
    <2>3. Structure(U, E) /\ U.fq[f].run = 1 - old /\ On(U.fq[f].list[old], r) /\ U.seq[r] = S.seq[r]
      BY <1>8, <2>1
    <2>4. On(U.fq[FqOf[r]].list[1 - U.fq[FqOf[r]].run], r)
      <3>1. 1 - (1 - old) = old
        BY <1>1
      <3> QED
        BY <2>2, <2>3, <3>1
    <2> HIDE DEF r, U, V
    <2>5. /\ Structure(V, E) /\ Elsewhere(U, V, E, r)
          /\ Durable(U, E) /\ (~failing => Needs(U, E, r) \subseteq E.durable) => Durable(V, E)
      BY <1>1, <2>2, <2>3, <2>4, PassKeeps
    <2>6. V.failed = U.failed /\ V.fq[f].run = U.fq[f].run /\ U.failed = S.failed
      BY <1>8, <2>2, <2>5 DEF Elsewhere, U
    <2>7. ASSUME NEW j \in k + 2 .. n PROVE On(V.fq[f].list[old], l[j]) /\ V.seq[l[j]] = S.seq[l[j]]
      <3>1. j \in k + 1 .. n /\ j \in 1 .. n /\ j # k + 1 /\ k + 1 \in 1 .. n
        BY <1>6, <1>8
      <3>2. l[j] \in Rqs /\ l[j] # r
        BY <1>1, <1>6, <3>1 DEF IsInjective, r
      <3>3. On(U.fq[f].list[old], l[j]) /\ U.seq[l[j]] = S.seq[l[j]]
        BY <1>8, <3>1 DEF U
      <3> QED
        BY <1>1, <2>2, <2>5, <3>2, <3>3 DEF Elsewhere
    <2>8. ASSUME NEW g \in Fqs, V.fq[g].status PROVE S.fq[g].status \/ err
      <3>1. U.fq[g].status => S.fq[g].status \/ err
        BY <1>8 DEF U
      <3>2. CASE g # f
        BY <2>2, <2>5, <2>8, <3>1, <3>2 DEF Elsewhere
      <3>3. CASE g = f
        <4>1. CASE V.fq[f].status = U.fq[f].status
          BY <2>8, <3>1, <3>3, <4>1
        <4>2. CASE On(V.requeue, f)
          <5>1. Kept(V, E, f, 0)
            BY <2>5 DEF Structure
          <5> QED
            BY <2>8, <3>3, <4>2, <5>1 DEF Kept, Queued
        <4> QED
          BY <2>2, <2>5, <4>1, <4>2 DEF Elsewhere
      <3> QED
        BY <3>2, <3>3
    <2>9. ASSUME well PROVE Durable(V, E)
      <3>1. Durable(U, E)
        BY <1>8, <2>9 DEF U
      <3>2. ASSUME ~failing PROVE Needs(U, E, r) \subseteq E.durable
        <4>1. Covered(S, E, f) /\ ~S.fq[f].status
          BY <2>9, <3>2 DEF EndingWell, failing
        <4>2. On(S.fq[f].list[S.fq[f].run], r)
          BY <1>6, <1>8 DEF l, r
        <4>3. Needs(S, E, r) \subseteq E.durable
          BY <1>2, <2>2, <4>1, <4>2 DEF Covered
        <4>4. Needs(U, E, r) = Needs(S, E, r)
          BY <2>3 DEF Needs
        <4> QED
          BY <4>3, <4>4
      <3> QED
        BY <2>5, <3>1, <3>2
    <2>10. k + 1 + 1 = k + 2
      OBVIOUS
    <2> QED
      BY <2>3, <2>5, <2>6, <2>7, <2>8, <2>9, <2>10 DEF V
  <1>9. J(P[n], n)
    <2> DEFINE B == {k \in 0 .. n : ~J(P[k], k)}
    <2> HIDE DEF J
    <2>1. CASE B = {}
      BY <1>6, <2>1
    <2>2. CASE B # {}
      <3>1. Min(B) \in B /\ \A y \in B : Min(B) <= y
        <4>1. B \subseteq Nat
          BY <1>6
        <4> HIDE DEF B
        <4> QED
          BY <2>2, <4>1, SmallestIs
      <3> DEFINE b == Min(B)
      <3>2. b \in 0 .. n /\ b # 0 /\ ~J(P[b], b)
        BY <1>7, <3>1
      <3>3. b - 1 \in Nat /\ b - 1 \in 0 .. n /\ ~(b <= b - 1) /\ b - 1 + 1 = b /\ b \in 1 .. n
        BY <1>6, <3>2
      <3>4. b - 1 \notin B
        BY <3>1, <3>3
      <3>5. J(P[b - 1], b - 1)
        BY <3>3, <3>4
      <3> HIDE DEF b
      <3>6. J(P[b - 1 + 1], b - 1 + 1)
        BY <1>8, <3>3, <3>5
      <3> QED
        BY <3>2, <3>3, <3>6
    <2> QED
      BY <2>1, <2>2
  <1> QED
    BY <1>5, <1>9

-----------------------------------------------------------------------------
(* The state as a pair of records. *)

LEMMA WalksCounted ==
  ASSUME NEW h, NEW x
  PROVE  Cardinality({w \in Walkers : h[w] = x}) \in Nat
  <1>1. IsFiniteSet(Walkers) /\ {w \in Walkers : h[w] = x} \in SUBSET Walkers
    BY FlushAssumption
  <1>2. IsFiniteSet({w \in Walkers : h[w] = x})
    BY <1>1, FS_Subset
  <1> QED
    BY <1>2, FS_CardinalityType

LEMMA EnvIs ==
  /\ Env.out = dispatch \cup sent /\ Env.sent = sent /\ Env.new = new
  /\ Env.walks = [f \in Fqs |-> Cardinality({w \in Walkers : held[w] = f})]
  /\ Env.durable = durable /\ Env.cached = cached /\ Env.snap = snap /\ Env.before = before
  /\ EnvOk(Env)
  <1>1. [f \in Fqs |-> Cardinality({w \in Walkers : held[w] = f})] \in [Fqs -> Nat]
    BY WalksCounted
  <1> QED
    BY <1>1 DEF Env, EnvOk

LEMMA EnvNext ==
  /\ Env'.out = dispatch' \cup sent' /\ Env'.sent = sent' /\ Env'.new = new'
  /\ Env'.walks = [f \in Fqs |-> Cardinality({w \in Walkers : held'[w] = f})]
  /\ Env'.durable = durable' /\ Env'.cached = cached' /\ Env'.snap = snap' /\ Env'.before = before'
  /\ EnvOk(Env')
  <1>1. [f \in Fqs |-> Cardinality({w \in Walkers : held'[w] = f})] \in [Fqs -> Nat]
    BY WalksCounted
  <1> QED
    BY <1>1 DEF Env, EnvOk

LEMMA NowIs ==
  /\ Now.fq = fq /\ Now.seq = seq /\ Now.result = result /\ Now.requeue = requeue /\ Now.bug = bug /\ Now.failed = failed
  /\ Now'.fq = fq' /\ Now'.seq = seq' /\ Now'.result = result' /\ Now'.requeue = requeue' /\ Now'.bug = bug'
  /\ Now'.failed = failed'
  BY DEF Now

LEMMA BecomeIs ==
  ASSUME NEW R \in MachineType, fq' = R.fq, seq' = R.seq, result' = R.result, requeue' = R.requeue, bug' = R.bug,
         failed' = R.failed
  PROVE  Now' = R
  BY MachineRecord DEF Now

(* Requests and flush requests move on, but not in the flush machinery. *)
LEMMA MovesKeep ==
  ASSUME NEW S, NEW E, NEW V \in MachineType, NEW F, Structure(S, E),
         V.fq = S.fq, V.seq = S.seq, V.result = S.result, F.new = E.new, F.walks = E.walks,
         IsInjective(V.requeue), \A x \in Items : ~(On(V.requeue, x) /\ x \in F.out),
         \A x \in Items : Queued(V, F, x) <=> Queued(S, E, x)
  PROVE  Structure(V, F)
  <1>1. ASSUME NEW f \in Fqs PROVE Kept(V, F, f, 0)
    <2>1. Kept(S, E, f, 0) /\ (Queued(V, F, f) <=> Queued(S, E, f))
      BY DEF Structure, Items
    <2> QED
      BY <2>1 DEF Kept
  <1>2. ASSUME NEW r \in Rqs PROVE Placed(V, F, r)
    <2>1. Placed(S, E, r) /\ (Queued(V, F, r) <=> Queued(S, E, r))
      BY DEF Structure, Items
    <2> QED
      BY <2>1 DEF Placed
  <1> QED
    BY <1>1, <1>2 DEF Structure

LEMMA MovesDurable ==
  ASSUME NEW S, NEW E, NEW V, NEW F, Durable(S, E), EnvOk(E),
         V.fq = S.fq, V.seq = S.seq, V.result = S.result,
         \A x \in Items : Queued(V, F, x) <=> Queued(S, E, x),
         F.durable = E.durable, F.cached = E.cached, F.before = E.before,
         \A f \in Fqs : f \in F.sent => \/ f \in E.sent /\ F.snap[f] = E.snap[f]
                                        \/ \A r \in Rqs : On(S.fq[f].list[S.fq[f].run], r) => Needs(S, E, r) \subseteq F.snap[f]
  PROVE  Durable(V, F)
  <1>1. \A r \in Rqs : Promised(V, F, r)
    BY DEF Durable, Promised
  <1>2. \A r \in Rqs : Needs(V, F, r) = Needs(S, E, r)
    BY DEF Needs
  <1>3. ASSUME NEW f \in Fqs PROVE Covered(V, F, f)
    <2>1. Covered(S, E, f) /\ (Queued(V, F, f) <=> Queued(S, E, f))
      BY DEF Durable, Items
    <2> QED
      BY <1>2, <2>1 DEF Covered
  <1> QED
    BY <1>1, <1>3 DEF Durable

(* What waits for a flush is in the device's cache, written, when the      *)
(* flush is sent.                                                          *)
LEMMA NeedsWritten ==
  ASSUME setup \in Setups, NEW S, NEW E, Structure(S, E), Durable(S, E), NEW f \in Fqs, NEW r \in Rqs,
         On(S.fq[f].list[S.fq[f].run], r)
  PROVE  Needs(S, E, r) \subseteq E.cached
  <1>1. /\ S.fq[f].run \in {0, 1} /\ S.seq[r] \in SUBSET Stages
    <2>1. S \in MachineType
      BY DEF Structure
    <2>2. S.fq[f] \in FqType /\ S.seq[r] \in SUBSET Stages
      BY <2>1, MachineRecord
    <2> QED
      BY <2>2, FqRecord
  <1>2. FqOf[r] = f
    BY <1>1 DEF Structure, Kept
  <1>3. On(S.fq[FqOf[r]].list[0], r) \/ On(S.fq[FqOf[r]].list[1], r)
    BY <1>1, <1>2
  <1>4. Placed(S, E, r) /\ Promised(S, E, r)
    BY DEF Structure, Durable
  <1>5. /\ Flushed(r) /\ CurSeq[S.seq[r]] \in {"pre", "post"} /\ InOrder(r, S.seq[r]) /\ S.result[r] # "error"
    BY <1>3, <1>4, FlushAssumption DEF Placed
  <1>6. CASE CurSeq[S.seq[r]] = "pre"
    BY <1>4, <1>6 DEF Promised, Needs
  <1>7. CASE CurSeq[S.seq[r]] = "post"
    <2>1. "post" \in Policy(r) /\ "data" \in S.seq[r]
      <3>1. CurSeq[S.seq[r]] # "done"
        BY <1>7
      <3> DEFINE done == S.seq[r]
      <3>2. done \in SUBSET Stages /\ Flushed(r) /\ InOrder(r, done) /\ CurSeq[done] # "done" /\ CurSeq[done] = "post"
        BY <1>1, <1>5, <1>7, <3>1
      <3> HIDE DEF done
      <3>3. CurSeq[done] \in Policy(r) /\ {"pre", "data"} \subseteq done
        BY <3>2, NextStep
      <3> QED
        BY <3>2, <3>3 DEF done
    <2>2. "data" \in Policy(r)
      BY <2>1, PolicyIs
    <2>3. r \in E.cached
      BY <1>4, <1>5, <2>1, <2>2 DEF Promised
    <2> QED
      BY <1>7, <2>3 DEF Needs
  <1> QED
    BY <1>5, <1>6, <1>7

-----------------------------------------------------------------------------
(* The actions that do not change the machinery's lists. *)

LEMMA QueueSets ==
  ASSUME FInv
  PROVE  /\ Structure(Now, Env) /\ setup \in Setups /\ EnvOk(Env)
         /\ Now \in MachineType /\ requeue \in Seq(Items) /\ IsInjective(requeue)
         /\ \A x \in Items : ~(On(requeue, x) /\ x \in dispatch \cup sent)
         /\ \A x : Queued(Now, Env, x) <=> x \in dispatch \cup sent \/ On(requeue, x)
         /\ dispatch \subseteq Items /\ sent \subseteq Items /\ dispatch \cap sent = {}
         /\ fq \in [Fqs -> FqType] /\ seq \in [Rqs -> SUBSET Stages] /\ result \in [Rqs -> {"ok", "error", None}]
         /\ bug = FALSE /\ failed \subseteq Rqs /\ held \in [Walkers -> Fqs \cup {None}] /\ new \subseteq Rqs
  BY EnvIs, NowIs, MachineRecord DEF FInv, FlushTypes, Structure, Queued

(* Now' when only requeue changes in it. *)
LEMMA RequeueNext ==
  ASSUME FInv, requeue' \in Seq(Items), fq' = fq, seq' = seq, result' = result, bug' = bug, failed' = failed
  PROVE  Now' \in MachineType
  <1>1. Now' = [fq |-> fq, seq |-> seq, result |-> result, requeue |-> requeue', bug |-> bug, failed |-> failed]
    BY DEF Now
  <1>2. bug \in {FALSE}
    BY QueueSets
  <1> QED
    BY <1>1, <1>2, QueueSets DEF MachineType

LEMMA RequeueWorkKeeps ==
  ASSUME FInv, RequeueWork
  PROVE  Structure(Now', Env') /\ (Durable(Now, Env) => Durable(Now', Env'))
  <1> DEFINE V == Now'
             F == Env'
  <1>1. /\ dispatch' = dispatch \cup ToSet(requeue) /\ requeue' = <<>>
        /\ fq' = fq /\ seq' = seq /\ result' = result /\ bug' = bug /\ failed' = failed
        /\ sent' = sent /\ new' = new /\ held' = held /\ durable' = durable /\ cached' = cached
        /\ snap' = snap /\ before' = before
    BY DEF RequeueWork, deviceVars
  <1>2. /\ V.fq = Now.fq /\ V.seq = Now.seq /\ V.result = Now.result /\ V.requeue = <<>>
        /\ F.out = dispatch \cup sent \cup ToSet(requeue) /\ F.new = Env.new /\ F.walks = Env.walks
        /\ F.durable = Env.durable /\ F.cached = Env.cached /\ F.before = Env.before /\ F.snap = Env.snap /\ F.sent = Env.sent
    BY <1>1, EnvIs, EnvNext, NowIs
  <1>3. <<>> \in Seq(Items) /\ IsInjective(<<>>) /\ \A x : ~On(<<>>, x)
    BY DEF IsInjective, On
  <1>4. V \in MachineType
    BY <1>1, <1>3, RequeueNext
  <1> HIDE DEF V, F
  <1>5. \A x \in Items : Queued(V, F, x) <=> Queued(Now, Env, x)
    BY <1>2, <1>3, QueueSets, ToSetOn DEF Queued
  <1>6. Structure(V, F)
    BY <1>2, <1>3, <1>4, <1>5, QueueSets, MovesKeep
  <1>7. Durable(Now, Env) => Durable(V, F)
    BY <1>2, <1>5, EnvIs, MovesDurable
  <1> QED
    BY <1>6, <1>7 DEF V, F

LEMMA IssueKeeps ==
  ASSUME FInv, NEW x \in Items, Issue(x)
  PROVE  Structure(Now', Env') /\ (Durable(Now, Env) => Durable(Now', Env'))
  <1> DEFINE V == Now'
             F == Env'
  <1>1. /\ x \in dispatch /\ dispatch' = dispatch \ {x} /\ sent' = sent \cup {x} /\ requeue' = requeue
        /\ fq' = fq /\ seq' = seq /\ result' = result /\ bug' = bug /\ failed' = failed
        /\ new' = new /\ held' = held /\ durable' = durable /\ cached' = cached /\ before' = before
        /\ snap' = IF x \in Fqs THEN [snap EXCEPT ![x] = cached] ELSE snap
    BY DEF Issue, queueVars
  <1>2. /\ V.fq = Now.fq /\ V.seq = Now.seq /\ V.result = Now.result /\ V.requeue = requeue
        /\ F.out = dispatch \cup sent /\ F.new = Env.new /\ F.walks = Env.walks
        /\ F.durable = Env.durable /\ F.cached = Env.cached /\ F.before = Env.before /\ F.sent = sent \cup {x}
        /\ F.snap = IF x \in Fqs THEN [snap EXCEPT ![x] = cached] ELSE snap
    BY <1>1, EnvIs, EnvNext, NowIs
  <1>3. V \in MachineType
    BY <1>1, QueueSets, RequeueNext
  <1> HIDE DEF V, F
  <1>4. \A y \in Items : Queued(V, F, y) <=> Queued(Now, Env, y)
    BY <1>2, QueueSets DEF Queued
  <1>5. Structure(V, F)
    BY <1>2, <1>3, <1>4, QueueSets, MovesKeep
  <1>6. ASSUME Durable(Now, Env) PROVE Durable(V, F)
    <2>1. ASSUME NEW f \in Fqs, f \in F.sent
          PROVE  \/ f \in Env.sent /\ F.snap[f] = Env.snap[f]
                 \/ \A r \in Rqs : On(Now.fq[f].list[Now.fq[f].run], r) => Needs(Now, Env, r) \subseteq F.snap[f]
      <3>1. snap \in [Fqs -> SUBSET Rqs]
        BY DEF FInv, FlushTypes
      <3>2. CASE f = x
        <4>1. F.snap[f] = Env.cached
          BY <1>2, <3>1, <3>2, EnvIs
        <4> QED
          BY <1>6, <4>1, NeedsWritten, QueueSets
      <3>3. CASE f # x
        BY <1>2, <2>1, <3>1, <3>3, EnvIs
      <3> QED
        BY <3>2, <3>3
    <2> QED
      BY <1>2, <1>4, <1>6, <2>1, EnvIs, MovesDurable
  <1> QED
    BY <1>5, <1>6 DEF V, F

LEMMA RetryKeeps ==
  ASSUME FInv, NEW x \in Items, Retry(x)
  PROVE  Structure(Now', Env') /\ (Durable(Now, Env) => Durable(Now', Env'))
  <1> DEFINE V == Now'
             F == Env'
             c == <<x>> \o requeue
  <1>1. /\ x \in sent /\ sent' = sent \ {x} /\ requeue' = c /\ dispatch' = dispatch
        /\ fq' = fq /\ seq' = seq /\ result' = result /\ bug' = bug /\ failed' = failed
        /\ new' = new /\ held' = held /\ durable' = durable /\ cached' = cached /\ before' = before /\ snap' = snap
    BY DEF Retry, deviceVars
  <1>2. /\ V.fq = Now.fq /\ V.seq = Now.seq /\ V.result = Now.result /\ V.requeue = c
        /\ F.out = dispatch \cup (sent \ {x}) /\ F.new = Env.new /\ F.walks = Env.walks
        /\ F.durable = Env.durable /\ F.cached = Env.cached /\ F.before = Env.before /\ F.sent = sent \ {x}
        /\ F.snap = Env.snap
    BY <1>1, EnvIs, EnvNext, NowIs
  <1>3. c \in Seq(Items) /\ IsInjective(c) /\ \A y : On(c, y) <=> On(requeue, y) \/ y = x
    BY <1>1, QueueSets, ConsOn
  <1>4. V \in MachineType
    BY <1>1, <1>3, RequeueNext
  <1> HIDE DEF V, F, c
  <1>5. \A y \in Items : Queued(V, F, y) <=> Queued(Now, Env, y)
    BY <1>1, <1>2, <1>3, QueueSets DEF Queued
  <1>6. \A y \in Items : ~(On(V.requeue, y) /\ y \in F.out)
    BY <1>1, <1>2, <1>3, QueueSets
  <1>7. Structure(V, F)
    BY <1>2, <1>3, <1>4, <1>5, <1>6, QueueSets, MovesKeep
  <1>8. \A f \in Fqs : f \in F.sent => f \in Env.sent /\ F.snap[f] = Env.snap[f]
    BY <1>2, EnvIs
  <1>9. Durable(Now, Env) => Durable(V, F)
    BY <1>2, <1>5, <1>8, EnvIs, MovesDurable
  <1> QED
    BY <1>7, <1>9 DEF V, F

LEMMA TouchKeeps ==
  ASSUME NEW S, NEW E, NEW V \in MachineType, NEW F, NEW f \in Fqs, NEW d \in Nat, Structure(S, E), EnvOk(E),
         V.seq = S.seq, V.result = S.result, V.requeue = S.requeue,
         F.out = E.out, F.sent = E.sent, F.new = E.new, F.durable = E.durable, F.cached = E.cached,
         F.snap = E.snap, F.before = E.before,
         \A g \in Fqs \ {f} : V.fq[g] = S.fq[g] /\ F.walks[g] = E.walks[g],
         V.fq[f].list = S.fq[f].list, V.fq[f].data = S.fq[f].data, V.fq[f].pend = S.fq[f].pend,
         V.fq[f].run = S.fq[f].run, V.fq[f].status = S.fq[f].status, V.fq[f].rq.tag = S.fq[f].rq.tag,
         V.fq[f].rq.ref = S.fq[f].rq.ref + d, F.walks[f] = E.walks[f] + d, d = 0 \/ S.fq[f].rq.ref # 0
  PROVE  Structure(V, F) /\ (Durable(S, E) => Durable(V, F))
  <1>1. \A x : Queued(V, F, x) <=> Queued(S, E, x)
    BY DEF Queued
  <1>2. Kept(V, F, f, 0)
    <2>1. Kept(S, E, f, 0) /\ E.walks[f] \in Nat
      BY DEF Structure, EnvOk
    <2>2. S.fq[f].rq.ref = 0 + E.walks[f] + (IF Queued(S, E, f) THEN 1 ELSE 0)
      BY <2>1 DEF Kept
    <2>3. V.fq[f].rq.ref = 0 + F.walks[f] + (IF Queued(V, F, f) THEN 1 ELSE 0)
      BY <1>1, <2>1, <2>2
    <2>4. V.fq[f].rq.ref = 0 <=> S.fq[f].rq.ref = 0
      BY <2>1, <2>2
    <2> QED
      BY <1>1, <2>1, <2>3, <2>4 DEF Kept
  <1>3. ASSUME NEW g \in Fqs \ {f} PROVE Kept(V, F, g, 0)
    <2>1. Kept(S, E, g, 0)
      BY DEF Structure
    <2> QED
      BY <1>1, <2>1 DEF Kept
  <1>4. ASSUME NEW r \in Rqs PROVE Placed(V, F, r)
    <2>1. Placed(S, E, r) /\ FqOf[r] \in Fqs
      BY FlushAssumption DEF Structure
    <2>2. V.fq[FqOf[r]].list = S.fq[FqOf[r]].list /\ V.fq[FqOf[r]].data = S.fq[FqOf[r]].data
      BY <2>1
    <2> QED
      BY <1>1, <2>1, <2>2 DEF Placed
  <1>5. Structure(V, F)
    BY <1>2, <1>3, <1>4 DEF Structure
  <1>6. ASSUME Durable(S, E) PROVE Durable(V, F)
    <2>1. \A r \in Rqs : Promised(V, F, r)
      BY <1>6 DEF Durable, Promised
    <2>2. \A r \in Rqs : Needs(V, F, r) = Needs(S, E, r)
      BY DEF Needs
    <2>3. ASSUME NEW g \in Fqs PROVE Covered(V, F, g)
      <3>1. Covered(S, E, g)
        BY <1>6 DEF Durable
      <3>2. V.fq[g].list = S.fq[g].list /\ V.fq[g].pend = S.fq[g].pend /\ V.fq[g].run = S.fq[g].run /\ V.fq[g].status = S.fq[g].status
        BY <1>3
      <3> QED
        BY <1>1, <2>2, <3>1, <3>2 DEF Covered
    <2> QED
      BY <2>1, <2>3 DEF Durable
  <1> QED
    BY <1>5, <1>6

LEMMA WalkTaken ==
  ASSUME NEW h \in [Walkers -> Fqs \cup {None}], NEW w \in Walkers, NEW f \in Fqs, h[w] = None, NEW g \in Fqs
  PROVE  Cardinality({v \in Walkers : [h EXCEPT ![w] = f][v] = g}) =
           Cardinality({v \in Walkers : h[v] = g}) + (IF g = f THEN 1 ELSE 0)
  <1> DEFINE A == {v \in Walkers : h[v] = g}
             B == {v \in Walkers : [h EXCEPT ![w] = f][v] = g}
  <1>1. f # None /\ g # None /\ IsFiniteSet(Walkers)
    BY FlushAssumption DEF Items
  <1>2. IsFiniteSet(A) /\ w \notin A
    <2>1. A \subseteq Walkers /\ w \notin A
      BY <1>1
    <2> QED
      BY <1>1, <2>1, FS_Subset
  <1>3. B = IF g = f THEN A \cup {w} ELSE A
    BY <1>1
  <1> HIDE DEF A, B
  <1>4. Cardinality(A \cup {w}) = Cardinality(A) + 1 /\ Cardinality(A) \in Nat
    BY <1>2, FS_AddElement, FS_CardinalityType
  <1> QED
    BY <1>3, <1>4 DEF A, B

LEMMA WalkPut ==
  ASSUME NEW h \in [Walkers -> Fqs \cup {None}], NEW w \in Walkers, h[w] # None, NEW g \in Fqs
  PROVE  Cardinality({v \in Walkers : h[v] = g}) =
           Cardinality({v \in Walkers : [h EXCEPT ![w] = None][v] = g}) + (IF g = h[w] THEN 1 ELSE 0)
  <1> DEFINE A == {v \in Walkers : h[v] = g}
             B == {v \in Walkers : [h EXCEPT ![w] = None][v] = g}
  <1>1. g # None /\ IsFiniteSet(Walkers)
    BY FlushAssumption DEF Items
  <1>2. IsFiniteSet(B) /\ w \notin B
    <2>1. B \subseteq Walkers /\ w \notin B
      BY <1>1
    <2> QED
      BY <1>1, <2>1, FS_Subset
  <1>3. A = IF g = h[w] THEN B \cup {w} ELSE B
    BY <1>1
  <1> HIDE DEF A, B
  <1>4. Cardinality(B \cup {w}) = Cardinality(B) + 1 /\ Cardinality(B) \in Nat
    BY <1>2, FS_AddElement, FS_CardinalityType
  <1> QED
    BY <1>3, <1>4 DEF A, B

LEMMA MeetKeeps ==
  ASSUME FInv, NEW w \in Walkers, NEW f \in Fqs, Meet(w, f)
  PROVE  Structure(Now', Env') /\ (Durable(Now, Env) => Durable(Now', Env'))
  <1> DEFINE V == Now'
             F == Env'
             Q == fq[f]
             more == [Q.rq EXCEPT !.ref = Q.rq.ref + 1]
             R == [Q EXCEPT !.rq = more]
  <1>1. /\ held[w] = None /\ Q.rq.ref > 0
        /\ fq' = [fq EXCEPT ![f] = R] /\ held' = [held EXCEPT ![w] = f]
        /\ seq' = seq /\ result' = result /\ requeue' = requeue /\ bug' = bug /\ failed' = failed
        /\ dispatch' = dispatch /\ sent' = sent /\ new' = new /\ durable' = durable /\ cached' = cached
        /\ snap' = snap /\ before' = before
    BY DEF Meet, deviceVars
  <1>2. Q \in FqType
    BY QueueSets
  <1> HIDE DEF Q
  <1>3. /\ Q = [list |-> Q.list, pend |-> Q.pend, run |-> Q.run, data |-> Q.data, old |-> Q.old,
                status |-> Q.status, rq |-> Q.rq]
        /\ Q.rq \in [ref : Nat, tag : Rqs \cup {None}]
    BY <1>2, FqRecord
  <1>4. more \in [ref : Nat, tag : Rqs \cup {None}] /\ more.ref = Q.rq.ref + 1 /\ more.tag = Q.rq.tag
    BY <1>3
  <1> HIDE DEF more
  <1>5. R = [list |-> Q.list, pend |-> Q.pend, run |-> Q.run, data |-> Q.data, old |-> Q.old,
             status |-> Q.status, rq |-> more]
    BY <1>3
  <1> HIDE DEF R
  <1>6. R \in FqType
    BY <1>2, <1>4, <1>5, FqRecord DEF FqType
  <1>7. V = [fq |-> [fq EXCEPT ![f] = R], seq |-> seq, result |-> result, requeue |-> requeue, bug |-> bug, failed |-> failed]
    BY <1>1 DEF Now
  <1>8. V \in MachineType
    <2>1. [fq EXCEPT ![f] = R] \in [Fqs -> FqType] /\ bug \in {FALSE}
      BY <1>6, QueueSets
    <2> QED
      BY <1>7, <2>1, QueueSets DEF MachineType
  <1>9. /\ V.fq[f] = R /\ \A g \in Fqs \ {f} : V.fq[g] = Now.fq[g]
        /\ V.seq = Now.seq /\ V.result = Now.result /\ V.requeue = Now.requeue /\ Now.fq[f] = Q
    BY <1>1, NowIs, QueueSets DEF Q
  <1>10. ASSUME NEW g \in Fqs PROVE F.walks[g] = Env.walks[g] + (IF g = f THEN 1 ELSE 0)
    BY <1>1, EnvIs, EnvNext, QueueSets, WalkTaken
  <1>11. /\ F.out = Env.out /\ F.sent = Env.sent /\ F.new = Env.new /\ F.durable = Env.durable
         /\ F.cached = Env.cached /\ F.snap = Env.snap /\ F.before = Env.before
    BY <1>1, EnvIs, EnvNext
  <1> HIDE DEF V, F
  <1>12. \A g \in Fqs \ {f} : V.fq[g] = Now.fq[g] /\ F.walks[g] = Env.walks[g]
    <2>1. \A g \in Fqs : Env.walks[g] \in Nat
      BY EnvIs DEF EnvOk
    <2> QED
      BY <1>9, <1>10, <2>1
  <1>13. /\ V.fq[f].list = Now.fq[f].list /\ V.fq[f].data = Now.fq[f].data /\ V.fq[f].pend = Now.fq[f].pend
         /\ V.fq[f].run = Now.fq[f].run /\ V.fq[f].status = Now.fq[f].status /\ V.fq[f].rq.tag = Now.fq[f].rq.tag
         /\ V.fq[f].rq.ref = Now.fq[f].rq.ref + 1 /\ F.walks[f] = Env.walks[f] + 1 /\ Now.fq[f].rq.ref # 0
    BY <1>1, <1>3, <1>4, <1>5, <1>9, <1>10
  <1>14. Structure(V, F) /\ (Durable(Now, Env) => Durable(V, F))
    BY <1>8, <1>9, <1>11, <1>12, <1>13, QueueSets, TouchKeeps
  <1> QED
    BY <1>14 DEF V, F

LEMMA AgeKeeps ==
  ASSUME FInv, NEW f \in Fqs, Age(f)
  PROVE  Structure(Now', Env') /\ (Durable(Now, Env) => Durable(Now', Env'))
  <1> DEFINE V == Now'
             F == Env'
             Q == fq[f]
             R == [Q EXCEPT !.old = TRUE]
  <1>1. /\ fq' = [fq EXCEPT ![f] = R] /\ held' = held
        /\ seq' = seq /\ result' = result /\ requeue' = requeue /\ bug' = bug /\ failed' = failed
        /\ dispatch' = dispatch /\ sent' = sent /\ new' = new /\ durable' = durable /\ cached' = cached
        /\ snap' = snap /\ before' = before
    BY DEF Age, deviceVars
  <1>2. Q \in FqType
    BY QueueSets
  <1> HIDE DEF Q
  <1>3. Q = [list |-> Q.list, pend |-> Q.pend, run |-> Q.run, data |-> Q.data, old |-> Q.old,
             status |-> Q.status, rq |-> Q.rq]
    BY <1>2, FqRecord
  <1> DEFINE yes == TRUE
  <1>4. yes \in BOOLEAN /\ R = [Q EXCEPT !.old = yes]
    OBVIOUS
  <1> HIDE DEF R, yes
  <1>5. R = [list |-> Q.list, pend |-> Q.pend, run |-> Q.run, data |-> Q.data, old |-> yes,
             status |-> Q.status, rq |-> Q.rq]
    BY <1>3, <1>4
  <1>6. R \in FqType
    BY <1>2, <1>4, <1>5, FqRecord DEF FqType
  <1>7. V = [fq |-> [fq EXCEPT ![f] = R], seq |-> seq, result |-> result, requeue |-> requeue, bug |-> bug, failed |-> failed]
    BY <1>1 DEF Now
  <1>8. V \in MachineType
    <2>1. [fq EXCEPT ![f] = R] \in [Fqs -> FqType] /\ bug \in {FALSE}
      BY <1>6, QueueSets
    <2> QED
      BY <1>7, <2>1, QueueSets DEF MachineType
  <1>9. /\ V.fq[f] = R /\ \A g \in Fqs \ {f} : V.fq[g] = Now.fq[g]
        /\ V.seq = Now.seq /\ V.result = Now.result /\ V.requeue = Now.requeue /\ Now.fq[f] = Q
    BY <1>1, NowIs, QueueSets DEF Q
  <1>10. /\ F.out = Env.out /\ F.sent = Env.sent /\ F.new = Env.new /\ F.durable = Env.durable
         /\ F.cached = Env.cached /\ F.snap = Env.snap /\ F.before = Env.before /\ F.walks = Env.walks
    BY <1>1, EnvIs, EnvNext
  <1> HIDE DEF V, F
  <1>11. Env.walks[f] \in Nat /\ Q.rq.ref \in Nat
    <2>1. Q.rq \in [ref : Nat, tag : Rqs \cup {None}]
      BY <1>2, FqRecord
    <2> QED
      BY <2>1, EnvIs DEF EnvOk
  <1> DEFINE d == 0
  <1>x. d \in Nat /\ d = 0
    OBVIOUS
  <1> HIDE DEF d
  <1>12. /\ V.fq[f].list = Now.fq[f].list /\ V.fq[f].data = Now.fq[f].data /\ V.fq[f].pend = Now.fq[f].pend
         /\ V.fq[f].run = Now.fq[f].run /\ V.fq[f].status = Now.fq[f].status /\ V.fq[f].rq.tag = Now.fq[f].rq.tag
         /\ V.fq[f].rq.ref = Now.fq[f].rq.ref + d /\ F.walks[f] = Env.walks[f] + d
    BY <1>5, <1>9, <1>10, <1>11, <1>x
  <1>13. \A g \in Fqs \ {f} : V.fq[g] = Now.fq[g] /\ F.walks[g] = Env.walks[g]
    BY <1>9, <1>10
  <1>14. Structure(V, F) /\ (Durable(Now, Env) => Durable(V, F))
    <2>1. /\ V.seq = Now.seq /\ V.result = Now.result /\ V.requeue = Now.requeue
          /\ F.out = Env.out /\ F.sent = Env.sent /\ F.new = Env.new /\ F.durable = Env.durable
          /\ F.cached = Env.cached /\ F.snap = Env.snap /\ F.before = Env.before
      BY <1>9, <1>10
    <2>2. Structure(Now, Env) /\ EnvOk(Env) /\ (d = 0 \/ Now.fq[f].rq.ref # 0)
      BY <1>x, QueueSets
    <2> QED
      BY <1>8, <1>12, <1>13, <1>x, <2>1, <2>2, TouchKeeps
  <1> QED
    BY <1>14 DEF V, F

LEMMA EndIoKeeps ==
  ASSUME setup \in Setups, NEW S, NEW E, NEW f \in Fqs, NEW err \in BOOLEAN, EnvOk(E), Ending(S, E, f),
         Queued(S, E, f) => ~err
  PROVE  LET V == FlushEndIo(S, f, err) IN
         /\ Structure(V, E) /\ V.failed = S.failed
         /\ \A g \in Fqs : V.fq[g].status => S.fq[g].status \/ err
         /\ EndingWell(S, E, f, err) => Durable(V, E)
  BY LastKeeps, NotLastKeeps

LEMMA PutKeeps ==
  ASSUME FInv, NEW w \in Walkers, Put(w)
  PROVE  /\ Structure(Now', Env')
         /\ Reliable /\ Durable(Now, Env) /\ Budgets => Durable(Now', Env')
         /\ \A g \in Fqs : fq'[g].status => fq[g].status
  <1> DEFINE f == held[w]
             E == Env'
             V == FlushEndIo(Now, f, FALSE)
  <1>1. /\ f # None /\ held' = [held EXCEPT ![w] = None] /\ Become(V)
        /\ dispatch' = dispatch /\ sent' = sent /\ new' = new /\ durable' = durable /\ cached' = cached
        /\ snap' = snap /\ before' = before
    BY DEF Put, deviceVars
  <1>2. f \in Fqs
    BY <1>1, QueueSets
  <1>3. ASSUME NEW g \in Fqs PROVE Env.walks[g] = E.walks[g] + (IF g = f THEN 1 ELSE 0) /\ E.walks[g] \in Nat
    <2>1. EnvOk(E)
      BY EnvNext
    <2>2. /\ Env.walks[g] = Cardinality({v \in Walkers : held[v] = g})
          /\ E.walks[g] = Cardinality({v \in Walkers : held'[v] = g})
      BY EnvIs, EnvNext
    <2>3. held \in [Walkers -> Fqs \cup {None}] /\ held[w] # None /\ held' = [held EXCEPT ![w] = None]
      BY <1>1, QueueSets
    <2>4. Cardinality({v \in Walkers : held[v] = g}) =
            Cardinality({v \in Walkers : [held EXCEPT ![w] = None][v] = g}) + (IF g = held[w] THEN 1 ELSE 0)
      BY <2>3, WalkPut
    <2> QED
      BY <2>1, <2>2, <2>3, <2>4 DEF EnvOk
  <1>4. /\ E.out = Env.out /\ E.sent = Env.sent /\ E.new = Env.new /\ E.durable = Env.durable
        /\ E.cached = Env.cached /\ E.snap = Env.snap /\ E.before = Env.before /\ EnvOk(E)
    BY <1>1, EnvIs, EnvNext
  <1>5. \A x : Queued(Now, E, x) <=> Queued(Now, Env, x)
    BY <1>4 DEF Queued
  <1> HIDE DEF E, f
  <1>6. Ending(Now, E, f)
    <2>1. Kept(Now, E, f, 1)
      <3>1. Kept(Now, Env, f, 0)
        BY <1>2, QueueSets DEF Structure
      <3>2. Now.fq[f].rq.ref = 1 + E.walks[f] + (IF Queued(Now, E, f) THEN 1 ELSE 0)
        <4>1. Now.fq[f].rq.ref = 0 + Env.walks[f] + (IF Queued(Now, E, f) THEN 1 ELSE 0)
          BY <1>5, <3>1 DEF Kept
        <4> QED
          BY <1>2, <1>3, <4>1
      <3> QED
        BY <1>5, <3>1, <3>2 DEF Kept
    <2>2. ASSUME NEW g \in Fqs \ {f} PROVE Kept(Now, E, g, 0)
      <3>1. Kept(Now, Env, g, 0)
        BY QueueSets DEF Structure
      <3>2. E.walks[g] = Env.walks[g]
        BY <1>3
      <3> QED
        BY <1>5, <3>1, <3>2 DEF Kept
    <2>3. ASSUME NEW r \in Rqs PROVE Placed(Now, E, r)
      <3>1. Placed(Now, Env, r)
        BY QueueSets DEF Structure
      <3> QED
        BY <1>4, <1>5, <3>1 DEF Placed
    <2> QED
      BY <1>4, <2>1, <2>2, <2>3, QueueSets DEF Ending, Structure
  <1>7. /\ Structure(V, E)
        /\ \A g \in Fqs : V.fq[g].status => Now.fq[g].status \/ FALSE
        /\ EndingWell(Now, E, f, FALSE) => Durable(V, E)
    BY <1>2, <1>4, <1>6, QueueSets, EndIoKeeps
  <1> HIDE DEF V
  <1>8. Now' = V
    <2>1. V \in MachineType
      BY <1>7 DEF Structure
    <2>2. fq' = V.fq /\ seq' = V.seq /\ result' = V.result /\ requeue' = V.requeue /\ bug' = V.bug /\ failed' = V.failed
      BY <1>1 DEF Become
    <2> QED
      BY <2>1, <2>2, BecomeIs
  <1>9. ASSUME Reliable, Durable(Now, Env), Budgets PROVE EndingWell(Now, E, f, FALSE)
    <2>1. \A r \in Rqs : Promised(Now, E, r)
      BY <1>4, <1>9 DEF Durable, Promised
    <2>2. \A r \in Rqs : Needs(Now, E, r) = Needs(Now, Env, r)
      BY <1>4 DEF Needs
    <2>3. ASSUME NEW g \in Fqs PROVE Covered(Now, E, g)
      <3>1. Covered(Now, Env, g)
        BY <1>9 DEF Durable
      <3> QED
        BY <1>4, <1>5, <2>2, <3>1 DEF Covered
    <2>4. Now.fq[f].rq.ref = 1 \/ ~Now.fq[f].status
      <3>1. CASE setup.errs = 0
        BY <1>2, <1>9, <3>1, NowIs DEF Budgets
      <3>2. CASE \A u, v \in Walkers : setup.walks[u] > 0 /\ setup.walks[v] > 0 => u = v
        <4>1. E.walks[f] = 0
          <5>1. \A v \in Walkers : held'[v] # f
            <6>1. setup.walks[w] > 0
              BY <1>1, <1>9 DEF Budgets, f
            <6>2. \A v \in Walkers \ {w} : held[v] = None
              BY <1>9, <3>2, <6>1 DEF Budgets
            <6> QED
              BY <1>1, <6>2, QueueSets
          <5>2. {v \in Walkers : held'[v] = f} = {}
            BY <5>1
          <5> QED
            BY <1>2, <5>2, EnvNext, FS_EmptySet DEF E
        <4>2. Kept(Now, E, f, 1)
          BY <1>6 DEF Ending
        <4> QED
          BY <4>1, <4>2 DEF Kept
      <3> QED
        BY <1>9, <3>1, <3>2 DEF Reliable
    <2> QED
      BY <1>2, <2>1, <2>3, <2>4 DEF EndingWell
  <1>10. \A g \in Fqs : fq'[g].status => fq[g].status
    BY <1>7, <1>8, NowIs
  <1> QED
    BY <1>7, <1>8, <1>9, <1>10 DEF E

-----------------------------------------------------------------------------
(* A request that needs no flush moves on; others stay. *)

LEMMA EnvGrows ==
  ASSUME NEW S, NEW E, NEW F, NEW r \in Rqs, Durable(S, E),
         E.durable \subseteq F.durable, E.cached \subseteq F.cached, F.snap = E.snap,
         \A q \in Rqs \ {r} : F.before[q] = E.before[q] /\ (q \in F.cached <=> q \in E.cached),
         \A f \in Fqs : (f \in F.sent => f \in E.sent) /\ (Queued(S, F, f) <=> Queued(S, E, f)),
         \A f \in Fqs : S.fq[f].pend # S.fq[f].run => ~On(S.fq[f].list[S.fq[f].run], r)
  PROVE  /\ \A q \in Rqs \ {r} : Promised(S, F, q)
         /\ \A f \in Fqs : Covered(S, F, f)
  <1>1. ASSUME NEW q \in Rqs \ {r} PROVE Promised(S, F, q)
    <2>1. Promised(S, E, q)
      BY DEF Durable
    <2>2. F.before[q] = E.before[q] /\ (q \in F.cached <=> q \in E.cached) /\ (q \in E.durable => q \in F.durable)
      OBVIOUS
    <2>3. /\ E.before[q] \subseteq E.cached => F.before[q] \subseteq F.cached
          /\ E.before[q] \subseteq E.durable => F.before[q] \subseteq F.durable
      BY <2>2
    <2> QED
      BY <2>1, <2>2, <2>3 DEF Promised
  <1>2. \A q \in Rqs \ {r} : Needs(S, F, q) = Needs(S, E, q)
    BY DEF Needs
  <1>3. ASSUME NEW f \in Fqs PROVE Covered(S, F, f)
    <2>1. Covered(S, E, f)
      BY DEF Durable
    <2>2. ASSUME S.fq[f].pend # S.fq[f].run, ~S.fq[f].status, NEW q \in Rqs, On(S.fq[f].list[S.fq[f].run], q)
          PROVE  /\ f \in F.sent => Needs(S, F, q) \subseteq F.snap[f]
                 /\ ~Queued(S, F, f) => Needs(S, F, q) \subseteq F.durable
      <3>1. q # r
        BY <2>2
      <3>2. /\ f \in E.sent => Needs(S, E, q) \subseteq E.snap[f]
            /\ ~Queued(S, E, f) => Needs(S, E, q) \subseteq E.durable
        BY <2>1, <2>2 DEF Covered
      <3> QED
        BY <1>2, <3>1, <3>2
    <2> QED
      BY <2>2 DEF Covered
  <1> QED
    BY <1>1, <1>3

LEMMA PlainKeeps ==
  ASSUME NEW S, NEW E, NEW V \in MachineType, NEW F, NEW r \in Rqs, Structure(S, E), ~Flushed(r),
         V.fq = S.fq, V.seq = S.seq, V.requeue = S.requeue, \A q \in Rqs \ {r} : V.result[q] = S.result[q],
         F.walks = E.walks, \A x \in Items \ {r} : x \in F.out <=> x \in E.out,
         \A q \in Rqs \ {r} : q \in F.new <=> q \in E.new,
         r \notin F.new, ~(On(S.requeue, r) /\ r \in F.out), Queued(V, F, r) => V.result[r] = None
  PROVE  /\ Structure(V, F)
         /\ \A f \in Fqs : Queued(V, F, f) <=> Queued(S, E, f)
         /\ \A f \in Fqs : ~On(S.fq[f].list[S.fq[f].run], r)
  <1>1. \A x \in Items \ {r} : Queued(V, F, x) <=> Queued(S, E, x)
    BY DEF Queued
  <1>2. r \in Items /\ r \notin Fqs /\ FqOf[r] \in Fqs /\ \A f \in Fqs : f \in Items \ {r}
    BY FlushAssumption DEF Items
  <1>3. ASSUME NEW f \in Fqs PROVE Kept(V, F, f, 0)
    <2>1. Kept(S, E, f, 0) /\ (Queued(V, F, f) <=> Queued(S, E, f))
      BY <1>1, <1>2 DEF Structure
    <2> QED
      BY <2>1 DEF Kept
  <1>4. ASSUME NEW q \in Rqs \ {r} PROVE Placed(V, F, q)
    <2>1. Placed(S, E, q) /\ (Queued(V, F, q) <=> Queued(S, E, q))
      BY <1>1 DEF Structure, Items
    <2> QED
      BY <2>1 DEF Placed
  <1>5. Placed(S, E, r)
    BY DEF Structure
  <1>6. ~On(S.fq[FqOf[r]].list[0], r) /\ ~On(S.fq[FqOf[r]].list[1], r) /\ r \notin S.fq[FqOf[r]].data
    BY <1>5 DEF Placed
  <1>7. Placed(V, F, r)
    BY <1>6 DEF Placed
  <1>8. Structure(V, F)
    BY <1>3, <1>4, <1>7 DEF Structure
  <1>9. ASSUME NEW f \in Fqs PROVE ~On(S.fq[f].list[S.fq[f].run], r)
    <2>1. S \in MachineType
      BY DEF Structure
    <2>2. S.fq[f].run \in {0, 1}
      BY <2>1, MachineRecord, FqRecord
    <2>3. Kept(S, E, f, 0)
      BY DEF Structure
    <2>4. On(S.fq[f].list[S.fq[f].run], r) => FqOf[r] = f
      BY <2>2, <2>3 DEF Kept
    <2> QED
      BY <1>6, <2>2, <2>4
  <1> QED
    BY <1>1, <1>2, <1>8, <1>9

LEMMA PlainDurable ==
  ASSUME NEW S, NEW V, NEW F, NEW r \in Rqs,
         V.fq = S.fq, V.seq = S.seq, V.requeue = S.requeue, \A q \in Rqs \ {r} : V.result[q] = S.result[q],
         \A q \in Rqs \ {r} : Promised(S, F, q), \A f \in Fqs : Covered(S, F, f), Promised(V, F, r)
  PROVE  Durable(V, F)
  <1>1. \A q \in Rqs : Promised(V, F, q)
    BY DEF Promised
  <1>2. \A q \in Rqs : Needs(V, F, q) = Needs(S, F, q)
    BY DEF Needs
  <1>3. \A f \in Fqs : Covered(V, F, f)
    BY <1>2 DEF Covered, Queued
  <1> QED
    BY <1>1, <1>3 DEF Durable

-----------------------------------------------------------------------------
(* A command that ends is a flush, or a step of a request. *)

LEMMA EndFlushKeeps ==
  ASSUME FInv, NEW f \in Fqs, f \in sent, NEW err \in BOOLEAN, EndRequest(f, err),
         sent' = sent \ {f}, dispatch' = dispatch, new' = new, held' = held,
         snap' = snap, before' = before, cached' = cached, durable' = IF err THEN durable ELSE durable \cup snap[f]
  PROVE  /\ Structure(Now', Env')
         /\ Durable(Now, Env) => Durable(Now', Env')
         /\ \A g \in Fqs : fq'[g].status => fq[g].status \/ err
  <1> DEFINE E == Env'
             V == FlushEndIo(Now, f, err)
             late == ToSet(fq[f].list[fq[f].run])
             more == IF err THEN V.failed \cup late ELSE V.failed
             R == [V EXCEPT !.failed = IF err THEN @ \cup late ELSE @]
  <1>1. Become(R)
    BY DEF EndRequest
  <1>2. /\ E.out = dispatch \cup (sent \ {f}) /\ E.sent = sent \ {f} /\ E.new = Env.new /\ E.walks = Env.walks
        /\ E.durable = (IF err THEN durable ELSE durable \cup snap[f]) /\ E.cached = Env.cached
        /\ E.snap = Env.snap /\ E.before = Env.before /\ EnvOk(E)
    BY EnvIs, EnvNext
  <1> HIDE DEF E
  <1>3. ~Queued(Now, E, f) /\ Queued(Now, Env, f) /\ \A x \in Items \ {f} : Queued(Now, E, x) <=> Queued(Now, Env, x)
    <2>1. f \in Items
      BY DEF Items
    <2> QED
      BY <1>2, <2>1, EnvIs, NowIs, QueueSets DEF Queued
  <1>4. Kept(Now, Env, f, 0) /\ Env.walks[f] \in Nat
    BY QueueSets DEF Structure, EnvOk
  <1>5. Ending(Now, E, f)
    <2>1. Kept(Now, E, f, 1)
      <3>1. Now.fq[f].rq.ref = 0 + Env.walks[f] + (IF Queued(Now, Env, f) THEN 1 ELSE 0)
        BY <1>4 DEF Kept
      <3>2. Now.fq[f].rq.ref = 1 + E.walks[f] + (IF Queued(Now, E, f) THEN 1 ELSE 0)
        BY <1>2, <1>3, <1>4, <3>1
      <3> QED
        BY <1>3, <1>4, <3>2 DEF Kept
    <2>2. ASSUME NEW g \in Fqs \ {f} PROVE Kept(Now, E, g, 0)
      <3>1. Kept(Now, Env, g, 0) /\ g \in Items \ {f}
        BY QueueSets DEF Structure, Items
      <3> QED
        BY <1>2, <1>3, <3>1 DEF Kept
    <2>3. ASSUME NEW r \in Rqs PROVE Placed(Now, E, r)
      <3>1. Placed(Now, Env, r) /\ r \in Items \ {f}
        BY QueueSets, FlushAssumption DEF Structure, Items
      <3> QED
        BY <1>2, <1>3, <3>1 DEF Placed
    <2>4. \A x \in Items : ~(On(Now.requeue, x) /\ x \in E.out)
      BY <1>2, NowIs, QueueSets
    <2> QED
      BY <2>1, <2>2, <2>3, <2>4, NowIs, QueueSets DEF Ending
  <1>6. /\ Structure(V, E) /\ V.failed = Now.failed
        /\ \A g \in Fqs : V.fq[g].status => Now.fq[g].status \/ err
        /\ EndingWell(Now, E, f, err) => Durable(V, E)
    BY <1>2, <1>3, <1>5, QueueSets, EndIoKeeps
  <1> HIDE DEF V
  <1>7. late \subseteq Rqs
    <2>1. fq[f].run \in {0, 1} /\ fq[f].list \in [{0, 1} -> Seq(Rqs)]
      BY QueueSets, FqRecord
    <2>2. fq[f].list[fq[f].run] \in Seq(Rqs)
      BY <2>1
    <2> QED
      BY <2>2 DEF ToSet
  <1> HIDE DEF late
  <1>8. V \in MachineType
    BY <1>6 DEF Structure
  <1>9. more \subseteq Rqs
    BY <1>7, <1>8, MachineRecord
  <1>10. R = [V EXCEPT !.failed = more]
    OBVIOUS
  <1> HIDE DEF R, more
  <1>11. R = [fq |-> V.fq, seq |-> V.seq, result |-> V.result, requeue |-> V.requeue, bug |-> V.bug, failed |-> more]
    <2>1. V = [fq |-> V.fq, seq |-> V.seq, result |-> V.result, requeue |-> V.requeue, bug |-> V.bug, failed |-> V.failed]
      BY <1>8, MachineRecord
    <2> QED
      BY <1>10, <2>1
  <1>12. R \in MachineType /\ R.fq = V.fq /\ R.seq = V.seq /\ R.result = V.result /\ R.requeue = V.requeue
    <2>1. V.bug \in {FALSE}
      BY <1>8, MachineRecord
    <2> QED
      BY <1>8, <1>9, <1>11, <2>1, MachineRecord DEF MachineType
  <1>13. Now' = R
    <2>1. fq' = R.fq /\ seq' = R.seq /\ result' = R.result /\ requeue' = R.requeue /\ bug' = R.bug /\ failed' = R.failed
      BY <1>1 DEF Become
    <2> QED
      BY <1>12, <2>1, BecomeIs
  <1>14. \A x : Queued(R, E, x) <=> Queued(V, E, x)
    BY <1>12 DEF Queued
  <1>15. Structure(R, E)
    <2>1. IsInjective(V.requeue) /\ \A x \in Items : ~(On(V.requeue, x) /\ x \in E.out)
      BY <1>6 DEF Structure
    <2> QED
      BY <1>6, <1>12, <1>14, <2>1, MovesKeep
  <1>16. ASSUME Durable(Now, Env) PROVE EndingWell(Now, E, f, err)
    <2>1. Env.durable \subseteq E.durable
      BY <1>2, EnvIs
    <2>2. ASSUME NEW r \in Rqs PROVE Promised(Now, E, r)
      <3>1. Promised(Now, Env, r)
        BY <1>16 DEF Durable
      <3>2. r \in Env.durable => r \in E.durable
        BY <2>1
      <3>3. Env.before[r] \subseteq Env.durable => E.before[r] \subseteq E.durable
        BY <1>2, <2>1
      <3> QED
        BY <1>2, <3>1, <3>2, <3>3 DEF Promised
    <2>3. \A r \in Rqs : Needs(Now, E, r) = Needs(Now, Env, r)
      BY <1>2 DEF Needs
    <2>4. ASSUME NEW g \in Fqs \ {f} PROVE Covered(Now, E, g)
      <3>1. Covered(Now, Env, g) /\ g \in Items \ {f}
        BY <1>16 DEF Durable, Items
      <3> QED
        BY <1>2, <1>3, <2>1, <2>3, <3>1, EnvIs DEF Covered
    <2>5. ASSUME ~err PROVE Covered(Now, E, f) /\ ~Now.fq[f].status
      <3>1. Covered(Now, Env, f)
        BY <1>16 DEF Durable
      <3>2. Env.snap[f] \subseteq E.durable /\ f \in Env.sent /\ f \notin E.sent
        BY <1>2, <2>5, EnvIs
      <3>3. Covered(Now, E, f)
        BY <1>2, <1>3, <2>3, <3>1, <3>2 DEF Covered
      <3> QED
        BY <1>3, <1>4, <3>3 DEF Kept
    <2> QED
      BY <2>2, <2>4, <2>5 DEF EndingWell
  <1>17. ASSUME Durable(Now, Env) PROVE Durable(R, E)
    <2>1. Durable(V, E)
      BY <1>6, <1>16, <1>17
    <2> QED
      BY <1>2, <1>12, <1>14, <2>1, MovesDurable
  <1>18. \A g \in Fqs : fq'[g].status => fq[g].status \/ err
    BY <1>6, <1>12, <1>13, NowIs
  <1> QED
    BY <1>13, <1>15, <1>17, <1>18 DEF E

(* What the command of a request that ended has done with its data. *)
LEMMA EndedPromise ==
  ASSUME setup \in Setups, NEW S, NEW E, NEW V, NEW F, NEW r \in Rqs, NEW err \in BOOLEAN,
         Promised(S, E, r), S.result[r] = None,
         Flushed(r) => /\ S.seq[r] \in SUBSET Stages /\ InOrder(r, S.seq[r]) /\ CurSeq[S.seq[r]] = "data"
                       /\ V.seq[r] = S.seq[r] \cup {"data"},
         V.result[r] # "error" => ~err, V.result[r] = "ok" => ~err,
         F.before = E.before, E.cached \subseteq F.cached, E.durable \subseteq F.durable,
         err => F.cached = E.cached /\ F.durable = E.durable,
         ~err => r \in F.cached,
         ~err /\ (~setup.cache \/ (setup.kind[r].fua /\ setup.fua)) => r \in F.durable
  PROVE  Promised(V, F, r)
  <1>1. /\ None # "error"
        /\ Flushed(r) => "pre" \in S.seq[r] /\ "data" \notin S.seq[r] /\ ~("post" \in S.seq[r] /\ "post" \in Policy(r))
    <2>1. None # "error"
      BY FlushAssumption
    <2>2. ASSUME Flushed(r)
          PROVE  "pre" \in S.seq[r] /\ "data" \notin S.seq[r] /\ ~("post" \in S.seq[r] /\ "post" \in Policy(r))
      <3> DEFINE done == S.seq[r]
      <3>1. done \in SUBSET Stages /\ InOrder(r, done) /\ CurSeq[done] = "data"
        BY <2>2
      <3> HIDE DEF done
      <3>2. "pre" \in done /\ CurSeq[done] \notin done
        BY <2>2, <3>1, NextStep
      <3>3. "post" \in done \cap Policy(r) => "data" \in done
        BY <3>1 DEF InOrder
      <3> QED
        BY <3>1, <3>2, <3>3 DEF done
    <2> QED
      BY <2>1, <2>2
  <1>2. F.before[r] \subseteq F.cached
    BY DEF Promised
  <1>3. Flushed(r) /\ "data" \in V.seq[r] \cap Policy(r) /\ V.result[r] # "error" => r \in F.cached
    OBVIOUS
  <1>4. setup.kind[r].data /\ V.result[r] = "ok" => r \in F.cached
    OBVIOUS
  <1>5. ASSUME "pre" \in Policy(r), r \in F.cached \/ ("pre" \in V.seq[r] /\ V.result[r] # "error")
        PROVE  F.before[r] \subseteq F.durable
    <2>1. Flushed(r)
      BY <1>5 DEF Flushed
    <2>2. E.before[r] \subseteq E.durable
      BY <1>1, <1>5, <2>1 DEF Promised
    <2> QED
      BY <2>2
  <1>6. ASSUME "post" \in Policy(r) \cap V.seq[r] PROVE FALSE
    <2>1. Flushed(r)
      BY <1>6 DEF Flushed
    <2> QED
      BY <1>1, <1>6, <2>1
  <1>7. r \in F.cached /\ ((setup.kind[r].fua /\ setup.fua) \/ ~setup.cache) => r \in F.durable
    BY DEF Promised
  <1> QED
    BY <1>2, <1>3, <1>4, <1>5, <1>6, <1>7 DEF Promised

LEMMA EndRqKeeps ==
  ASSUME FInv, NEW r \in Rqs, r \in sent, NEW err \in BOOLEAN, EndRequest(r, err),
         sent' = sent \ {r}, dispatch' = dispatch, new' = new, held' = held, snap' = snap, before' = before,
         cached' = IF err THEN cached ELSE cached \cup {r},
         durable' = IF err \/ (setup.cache /\ ~(setup.kind[r].fua /\ setup.fua)) THEN durable ELSE durable \cup {r}
  PROVE  /\ Structure(Now', Env')
         /\ Durable(Now, Env) => Durable(Now', Env')
         /\ \A g \in Fqs : fq'[g].status => fq[g].status
  <1> DEFINE E == Env'
             f == FqOf[r]
  <1>1. /\ E.out = dispatch \cup (sent \ {r}) /\ E.sent = sent \ {r} /\ E.new = Env.new /\ E.walks = Env.walks
        /\ E.durable = (IF err \/ (setup.cache /\ ~(setup.kind[r].fua /\ setup.fua)) THEN durable ELSE durable \cup {r})
        /\ E.cached = (IF err THEN cached ELSE cached \cup {r})
        /\ E.snap = Env.snap /\ E.before = Env.before /\ EnvOk(E)
    BY EnvIs, EnvNext
  <1> HIDE DEF E
  <1>2. r \in Items /\ r \notin Fqs /\ f \in Fqs /\ \A g \in Fqs : g \in Items \ {r}
    BY FlushAssumption DEF Items
  <1>3. ~Queued(Now, E, r) /\ Queued(Now, Env, r) /\ \A x \in Items \ {r} : Queued(Now, E, x) <=> Queued(Now, Env, x)
    BY <1>1, <1>2, EnvIs, NowIs, QueueSets DEF Queued
  <1>4. Placed(Now, Env, r) /\ Now.seq[r] \in SUBSET Stages
    BY QueueSets, NowIs DEF Structure
  <1>5. /\ Now.result[r] = None /\ r \notin Env.new /\ ~On(Now.fq[f].list[0], r) /\ ~On(Now.fq[f].list[1], r)
        /\ Flushed(r) => CurSeq[Now.seq[r]] = "data" /\ InOrder(r, Now.seq[r])
    <2>1. None # "error"
      BY FlushAssumption
    <2> QED
      BY <1>3, <1>4, <2>1 DEF Placed
  <1>6. /\ Env.cached \subseteq E.cached /\ Env.durable \subseteq E.durable
        /\ err => E.cached = Env.cached /\ E.durable = Env.durable
        /\ ~err => r \in E.cached
        /\ ~err /\ (~setup.cache \/ (setup.kind[r].fua /\ setup.fua)) => r \in E.durable
    BY <1>1, EnvIs
  <1>7. \A g \in Fqs : ~On(Now.fq[g].list[Now.fq[g].run], r)
    <2>1. ASSUME NEW g \in Fqs PROVE ~On(Now.fq[g].list[Now.fq[g].run], r)
      <3>1. Kept(Now, Env, g, 0) /\ Now.fq[g].run \in {0, 1}
        BY QueueSets, FqRecord, NowIs DEF Structure
      <3>2. On(Now.fq[g].list[Now.fq[g].run], r) => FqOf[r] = g
        BY <3>1 DEF Kept
      <3> QED
        BY <1>5, <3>1, <3>2
    <2> QED
      BY <2>1
  <1>8. ASSUME Durable(Now, Env)
        PROVE  (\A q \in Rqs \ {r} : Promised(Now, E, q)) /\ (\A g \in Fqs : Covered(Now, E, g)) /\ Promised(Now, Env, r)
    <2>1. \A q \in Rqs \ {r} : E.before[q] = Env.before[q] /\ (q \in E.cached <=> q \in Env.cached)
      BY <1>1, EnvIs
    <2>2. \A g \in Fqs : (g \in E.sent => g \in Env.sent) /\ (Queued(Now, E, g) <=> Queued(Now, Env, g))
      BY <1>1, <1>2, <1>3, EnvIs
    <2>3. Promised(Now, Env, r)
      BY <1>8 DEF Durable
    <2> QED
      BY <1>1, <1>6, <1>7, <1>8, <2>1, <2>2, <2>3, EnvGrows
  <1>9. CASE Flushed(r)
    <2> DEFINE steps == {"data"}
               V == CompleteSeq(Now, FqOf[r], r, steps, err)
               done == Now.seq[r] \cup steps
    <2>1. Become(V)
      BY <1>2, <1>9 DEF EndRequest, Flushed
    <2>2. Now.seq[r] \cap steps = {} /\ steps \subseteq Stages /\ done \in SUBSET Stages /\ (~err => InOrder(r, done))
      <3> DEFINE s == Now.seq[r]
      <3>1. s \in SUBSET Stages /\ CurSeq[s] = "data" /\ InOrder(r, s)
        BY <1>4, <1>5, <1>9
      <3> HIDE DEF s
      <3>2. "data" \notin s /\ InOrder(r, s \cup {"data"})
        BY <1>9, <3>1, QueueSets, NextStep
      <3> QED
        BY <3>1, <3>2 DEF s, Stages
    <2> HIDE DEF done, steps
    <2>3. Ready(Now, E, r, done, err)
      <3>1. ASSUME NEW g \in Fqs PROVE Kept(Now, E, g, 0)
        <4>1. Kept(Now, Env, g, 0)
          BY QueueSets DEF Structure
        <4> QED
          BY <1>1, <1>2, <1>3, <4>1 DEF Kept
      <3>2. ASSUME NEW q \in Rqs \ {r} PROVE Placed(Now, E, q)
        <4>1. Placed(Now, Env, q) /\ q \in Items \ {r}
          BY QueueSets DEF Structure, Items
        <4> QED
          BY <1>1, <1>3, <4>1 DEF Placed
      <3>3. \A x \in Items : ~(On(Now.requeue, x) /\ x \in E.out)
        BY <1>1, NowIs, QueueSets
      <3> QED
        BY <1>1, <1>2, <1>3, <1>5, <1>7, <1>9, <2>2, <3>1, <3>2, <3>3, NowIs, QueueSets DEF Ready
    <2>4. /\ Structure(V, E) /\ Elsewhere(Now, V, E, r) /\ V.seq[r] = Now.seq[r] \cup steps
          /\ V.result[r] = "ok" => ~err
          /\ V.result[r] # "error" => ~err
      <3>1. Now.seq[r] \cap steps = {} /\ steps \subseteq Stages /\ Ready(Now, E, r, Now.seq[r] \cup steps, err)
        BY <2>2, <2>3 DEF done
      <3>2. setup \in Setups /\ EnvOk(E)
        BY <1>1, QueueSets
      <3> QED
        BY <3>1, <3>2, CompleteKeeps
    <2> HIDE DEF V
    <2>5. V \in MachineType
      BY <2>4 DEF Structure
    <2>6. Now' = V
      <3>1. fq' = V.fq /\ seq' = V.seq /\ result' = V.result /\ requeue' = V.requeue /\ bug' = V.bug /\ failed' = V.failed
        BY <2>1 DEF Become
      <3> QED
        BY <2>5, <3>1, BecomeIs
    <2>7. ASSUME Durable(Now, Env) PROVE Durable(V, E)
      <3>1. Promised(V, E, r)
        BY <1>1, <1>4, <1>5, <1>6, <1>8, <2>4, <2>7, QueueSets, EndedPromise DEF steps
      <3> QED
        BY <1>1, <1>8, <2>4, <2>7, <3>1, QueueSets, CompleteDurable
    <2>8. ASSUME NEW g \in Fqs, V.fq[g].status PROVE Now.fq[g].status
      <3>1. Kept(V, E, g, 0)
        BY <2>4 DEF Structure
      <3>2. CASE g # f
        BY <2>4, <2>8, <3>2 DEF Elsewhere
      <3>3. CASE g = f
        BY <2>4, <2>8, <3>1, <3>3 DEF Elsewhere, Kept, Queued
      <3> QED
        BY <3>2, <3>3
    <2> QED
      BY <2>4, <2>6, <2>7, <2>8, NowIs DEF E
  <1>10. CASE ~Flushed(r)
    <2> DEFINE V == Now'
               end == IF err THEN "error" ELSE "ok"
    <2>1. result' = [result EXCEPT ![r] = end] /\ fq' = fq /\ seq' = seq /\ requeue' = requeue /\ bug' = bug /\ failed' = failed
      BY <1>2, <1>10 DEF EndRequest, Flushed
    <2>2. end \in {"ok", "error", None} /\ (end = "ok" => ~err) /\ (end # "error" => ~err)
      OBVIOUS
    <2> HIDE DEF end
    <2>3. V = [fq |-> fq, seq |-> seq, result |-> [result EXCEPT ![r] = end], requeue |-> requeue, bug |-> bug, failed |-> failed]
      BY <2>1 DEF Now
    <2>4. V \in MachineType /\ V.result[r] = end /\ \A q \in Rqs \ {r} : V.result[q] = Now.result[q]
      <3>1. bug \in {FALSE} /\ [result EXCEPT ![r] = end] \in [Rqs -> {"ok", "error", None}]
        BY <2>2, QueueSets
      <3> QED
        BY <2>3, <3>1, NowIs, QueueSets DEF MachineType
    <2>5. V.fq = Now.fq /\ V.seq = Now.seq /\ V.requeue = Now.requeue
      BY <2>1, NowIs
    <2> HIDE DEF V
    <2>6. ~Queued(V, E, r)
      BY <1>3, <2>5 DEF Queued
    <2>7. Structure(V, E)
      <3>1. /\ \A x \in Items \ {r} : x \in E.out <=> x \in Env.out
            /\ \A q \in Rqs \ {r} : q \in E.new <=> q \in Env.new
            /\ r \notin E.new /\ ~(On(Now.requeue, r) /\ r \in E.out)
        BY <1>1, <1>2, <1>3, <1>5, EnvIs DEF Queued
      <3> QED
        BY <1>1, <1>10, <2>4, <2>5, <2>6, <3>1, QueueSets, PlainKeeps
    <2>8. ASSUME Durable(Now, Env) PROVE Durable(V, E)
      <3>1. Promised(V, E, r)
        BY <1>1, <1>5, <1>6, <1>8, <1>10, <2>2, <2>4, <2>8, QueueSets, EndedPromise
      <3> QED
        BY <1>8, <2>4, <2>5, <2>8, <3>1, PlainDurable
    <2> QED
      BY <2>1, <2>7, <2>8 DEF V, E
  <1> QED
    BY <1>9, <1>10

LEMMA SubmitKeeps ==
  ASSUME FInv, NEW r \in Rqs, Submit(r)
  PROVE  /\ Structure(Now', Env')
         /\ Durable(Now, Env) => Durable(Now', Env')
         /\ \A g \in Fqs : fq'[g].status => fq[g].status
  <1> DEFINE E == Env'
             f == FqOf[r]
             written == {s \in Ended : setup.kind[s].data}
  <1>1. /\ r \in new /\ new' = new \ {r} /\ before' = [before EXCEPT ![r] = written]
        /\ sent' = sent /\ held' = held /\ durable' = durable /\ cached' = cached /\ snap' = snap
    BY DEF Submit, deviceVars
  <1>2. written = {s \in Rqs : result[s] = "ok" /\ setup.kind[s].data}
    BY DEF Ended
  <1> HIDE DEF written
  <1>3. /\ E.out = dispatch' \cup sent /\ E.sent = sent /\ E.new = new \ {r} /\ E.walks = Env.walks
        /\ E.durable = Env.durable /\ E.cached = Env.cached /\ E.snap = Env.snap
        /\ E.before = [before EXCEPT ![r] = written] /\ EnvOk(E)
    BY <1>1, EnvIs, EnvNext
  <1>4. /\ E.before[r] = written /\ \A q \in Rqs \ {r} : E.before[q] = Env.before[q]
    BY <1>3, EnvIs DEF FInv, FlushTypes
  <1> HIDE DEF E
  <1>5. r \in Items /\ r \notin Fqs /\ f \in Fqs /\ (\A g \in Fqs : g \in Items \ {r}) /\ setup \in Setups
    BY FlushAssumption, QueueSets DEF Items
  <1>6. Placed(Now, Env, r) /\ r \in Env.new /\ r \notin Env.cached
    BY <1>1, EnvIs, QueueSets DEF Structure, FInv
  <1>7. /\ ~On(Now.fq[f].list[0], r) /\ ~On(Now.fq[f].list[1], r) /\ ~Queued(Now, Env, r)
        /\ Now.result[r] = None /\ Now.seq[r] = {}
    BY <1>6 DEF Placed
  <1>8. \A g \in Fqs : ~On(Now.fq[g].list[Now.fq[g].run], r)
    <2>1. ASSUME NEW g \in Fqs PROVE ~On(Now.fq[g].list[Now.fq[g].run], r)
      <3>1. Kept(Now, Env, g, 0) /\ Now.fq[g].run \in {0, 1}
        BY QueueSets, FqRecord, NowIs DEF Structure
      <3>2. On(Now.fq[g].list[Now.fq[g].run], r) => FqOf[r] = g
        BY <3>1 DEF Kept
      <3> QED
        BY <1>7, <3>1, <3>2
    <2> QED
      BY <2>1
  <1>9. Durable(Now, Env) => E.before[r] \subseteq E.cached
    <2>1. ASSUME Durable(Now, Env), NEW s \in written PROVE s \in Env.cached
      BY <1>2, <2>1, NowIs DEF Durable, Promised
    <2> QED
      BY <1>3, <1>4, <2>1
  <1>10. ASSUME NEW D, D.out = Env.out \/ D.out = Env.out \cup {r}, D.sent = Env.sent, D.durable = Env.durable,
                D.cached = Env.cached, D.snap = Env.snap, D.before = E.before, Durable(Now, Env)
         PROVE  (\A q \in Rqs \ {r} : Promised(Now, D, q)) /\ (\A g \in Fqs : Covered(Now, D, g))
    <2>1. \A q \in Rqs \ {r} : D.before[q] = Env.before[q] /\ (q \in D.cached <=> q \in Env.cached)
      BY <1>4, <1>10
    <2>2. \A g \in Fqs : (g \in D.sent => g \in Env.sent) /\ (Queued(Now, D, g) <=> Queued(Now, Env, g))
      BY <1>5, <1>10 DEF Queued
    <2> QED
      BY <1>8, <1>10, <2>1, <2>2, EnvGrows
  <1>11. CASE ~Flushed(r)
    <2> DEFINE V == Now'
    <2>1. /\ fq' = fq /\ seq' = seq /\ requeue' = requeue /\ bug' = bug /\ failed' = failed
          /\ \/ /\ Policy(r) = {} /\ result' = [result EXCEPT ![r] = "ok"] /\ dispatch' = dispatch
             \/ result' = result /\ dispatch' = dispatch \cup {r}
      <3>1. CASE Policy(r) = {}
        BY <3>1 DEF Submit
      <3>2. CASE Policy(r) = {"data"}
        BY <3>2 DEF Submit, queueVars
      <3>3. Policy(r) \subseteq {"data"}
        BY <1>5, <1>11, PolicyIs DEF Flushed, Stages
      <3> QED
        BY <3>1, <3>2, <3>3
    <2>2. result' \in [Rqs -> {"ok", "error", None}] /\ bug' \in {FALSE} /\ \A q \in Rqs \ {r} : result'[q] = result[q]
      BY <2>1, QueueSets
    <2>3. V = [fq |-> fq, seq |-> seq, result |-> result', requeue |-> requeue, bug |-> bug', failed |-> failed]
      BY <2>1 DEF Now
    <2>4. V \in MachineType
      BY <2>2, <2>3, QueueSets DEF MachineType
    <2>5. V.fq = Now.fq /\ V.seq = Now.seq /\ V.requeue = Now.requeue /\ V.result = result'
      BY <2>1, NowIs
    <2> HIDE DEF V
    <2>6. \A q \in Rqs \ {r} : V.result[q] = Now.result[q]
      BY <2>2, <2>5, NowIs
    <2>7. E.out = Env.out \/ E.out = Env.out \cup {r}
      BY <1>3, <2>1, EnvIs
    <2>8. Structure(V, E)
      <3>1. Queued(V, E, r) => V.result[r] = None
        <4>1. CASE dispatch' = dispatch
          BY <1>3, <1>7, <2>5, <4>1, EnvIs DEF Queued
        <4>2. CASE result' = result
          BY <1>7, <2>5, <4>2, NowIs
        <4> QED
          BY <2>1, <4>1, <4>2
      <3>2. \A x \in Items \ {r} : x \in E.out <=> x \in Env.out
        BY <2>7
      <3>3. r \notin E.new /\ (\A q \in Rqs \ {r} : q \in E.new <=> q \in Env.new) /\ ~(On(Now.requeue, r) /\ r \in E.out)
        BY <1>3, <1>7, EnvIs DEF Queued
      <3> QED
        BY <1>3, <1>11, <2>4, <2>5, <2>6, <3>1, <3>2, <3>3, QueueSets, PlainKeeps
    <2>9. ASSUME Durable(Now, Env) PROVE Durable(V, E)
      <3>1. V.result[r] = "ok" => Policy(r) = {}
        <4>1. "ok" # None
          BY FlushAssumption
        <4> QED
          BY <1>7, <2>1, <2>5, <4>1, NowIs
      <3>2. V.result[r] = "ok" => ~setup.kind[r].data
        BY <1>5, <3>1, PolicyIs
      <3>3. "pre" \notin Policy(r) /\ "post" \notin Policy(r) /\ r \notin E.cached
        BY <1>3, <1>6, <1>11 DEF Flushed
      <3>4. Promised(V, E, r)
        BY <1>9, <1>11, <2>9, <3>2, <3>3 DEF Promised
      <3>5. (\A q \in Rqs \ {r} : Promised(Now, E, q)) /\ (\A g \in Fqs : Covered(Now, E, g))
        BY <1>3, <1>10, <2>7, <2>9, EnvIs
      <3> QED
        BY <2>5, <2>6, <3>4, <3>5, PlainDurable
    <2> QED
      BY <2>1, <2>8, <2>9 DEF V, E
  <1>12. CASE Flushed(r)
    <2>13. PICK no \in BOOLEAN : no = FALSE
      OBVIOUS
    <2> DEFINE steps == Stages \ Policy(r)
               V == CompleteSeq(Now, FqOf[r], r, steps, no)
    <2>1. Become(V) /\ dispatch' = dispatch
      <3>1. Policy(r) # {} /\ Policy(r) # {"data"}
        BY <1>12 DEF Flushed
      <3> QED
        BY <2>13, <3>1, StagesAre DEF Submit
    <2>2. no \in BOOLEAN /\ ~no /\ steps \subseteq Stages /\ Now.seq[r] \cap steps = {} /\ Now.seq[r] \cup steps = steps
      BY <1>7, <2>13
    <2>3. InOrder(r, steps)
      BY DEF InOrder
    <2>4. steps # Stages /\ ~("data" \in steps \cap Policy(r)) /\ ~("pre" \in steps \cap Policy(r)) /\ ~("post" \in steps \cap Policy(r))
      BY <1>12 DEF Flushed, Stages
    <2> HIDE DEF steps
    <2>5. E.out = Env.out
      BY <1>3, <2>1, EnvIs
    <2>6. \A x : Queued(Now, E, x) <=> Queued(Now, Env, x)
      BY <2>5 DEF Queued
    <2>7. Ready(Now, E, r, steps, no)
      <3>1. ASSUME NEW g \in Fqs PROVE Kept(Now, E, g, 0)
        <4>1. Kept(Now, Env, g, 0)
          BY QueueSets DEF Structure
        <4> QED
          BY <1>3, <2>6, <4>1 DEF Kept
      <3>2. ASSUME NEW q \in Rqs \ {r} PROVE Placed(Now, E, q)
        <4>1. Placed(Now, Env, q)
          BY QueueSets DEF Structure
        <4> QED
          BY <1>3, <2>6, <4>1, EnvIs DEF Placed
      <3>3. \A x \in Items : ~(On(Now.requeue, x) /\ x \in E.out)
        BY <2>5, EnvIs, NowIs, QueueSets
      <3> QED
        BY <1>3, <1>5, <1>7, <1>8, <1>12, <2>2, <2>3, <2>6, <3>1, <3>2, <3>3, NowIs, QueueSets DEF Ready
    <2>8. /\ Structure(V, E) /\ Elsewhere(Now, V, E, r) /\ V.seq[r] = Now.seq[r] \cup steps
          /\ V.result[r] = "ok" => ~no
          /\ V.result[r] # "error" => ~no
      <3>1. Now.seq[r] \cap steps = {} /\ steps \subseteq Stages /\ Ready(Now, E, r, Now.seq[r] \cup steps, no)
        BY <2>2, <2>7
      <3>2. setup \in Setups /\ EnvOk(E)
        BY <1>3, QueueSets
      <3> QED
        BY <3>1, <3>2, CompleteKeeps
    <2> HIDE DEF V
    <2>9. V.seq[r] = steps
      BY <2>2, <2>8
    <2>10. Now' = V
      <3>1. V \in MachineType
        BY <2>8 DEF Structure
      <3>2. fq' = V.fq /\ seq' = V.seq /\ result' = V.result /\ requeue' = V.requeue /\ bug' = V.bug /\ failed' = V.failed
        BY <2>1 DEF Become
      <3> QED
        BY <3>1, <3>2, BecomeIs
    <2>11. ASSUME Durable(Now, Env) PROVE Durable(V, E)
      <3>1. V.result[r] # "ok"
        <4>1. Placed(V, E, r)
          BY <2>8 DEF Structure
        <4> QED
          BY <1>12, <2>4, <2>9, <4>1 DEF Placed
      <3>2. r \notin E.cached /\ E.before[r] \subseteq E.cached
        BY <1>3, <1>6, <1>9, <2>11
      <3>3. Promised(V, E, r)
        BY <2>4, <2>9, <3>1, <3>2 DEF Promised
      <3>4. (\A q \in Rqs \ {r} : Promised(Now, E, q)) /\ (\A g \in Fqs : Covered(Now, E, g))
        BY <1>3, <1>10, <2>5, <2>11, EnvIs
      <3> QED
        BY <1>3, <1>5, <2>8, <3>3, <3>4, CompleteDurable
    <2>12. ASSUME NEW g \in Fqs, V.fq[g].status PROVE Now.fq[g].status
      <3>1. Kept(V, E, g, 0)
        BY <2>8 DEF Structure
      <3>2. CASE g # f
        BY <2>8, <2>12, <3>2 DEF Elsewhere
      <3>3. CASE g = f
        BY <2>8, <2>12, <3>1, <3>3 DEF Elsewhere, Kept, Queued
      <3> QED
        BY <3>2, <3>3
    <2> QED
      BY <2>8, <2>10, <2>11, <2>12, NowIs DEF E
  <1> QED
    BY <1>11, <1>12

LEMMA CompleteActKeeps ==
  ASSUME FInv, NEW x \in Items, Complete(x)
  PROVE  /\ Structure(Now', Env')
         /\ Durable(Now, Env) => Durable(Now', Env')
         /\ \A g \in Fqs : fq'[g].status => fq[g].status
  <1>1. /\ x \in sent /\ sent' = sent \ {x} /\ dispatch' = dispatch /\ new' = new /\ held' = held
        /\ snap' = snap /\ before' = before /\ Performed(x) /\ EndRequest(x, FALSE)
    BY DEF Complete
  <1>2. PICK err \in BOOLEAN : err = FALSE
    OBVIOUS
  <1>3. EndRequest(x, err)
    BY <1>1, <1>2
  <1>4. CASE x \in Fqs
    <2>1. cached' = cached /\ durable' = IF err THEN durable ELSE durable \cup snap[x]
      BY <1>1, <1>2, <1>4 DEF Performed
    <2> QED
      BY <1>1, <1>2, <1>3, <1>4, <2>1, EndFlushKeeps
  <1>5. CASE x \in Rqs
    <2>1. x \notin Fqs
      BY <1>5, FlushAssumption
    <2>2. /\ cached' = IF err THEN cached ELSE cached \cup {x}
          /\ durable' = IF err \/ (setup.cache /\ ~(setup.kind[x].fua /\ setup.fua)) THEN durable ELSE durable \cup {x}
      BY <1>1, <1>2, <2>1 DEF Performed
    <2> QED
      BY <1>1, <1>2, <1>3, <1>5, <2>2, EndRqKeeps
  <1> QED
    BY <1>4, <1>5 DEF Items

LEMMA FailKeeps ==
  ASSUME FInv, NEW x \in Items, Fail(x)
  PROVE  /\ Structure(Now', Env')
         /\ Durable(Now, Env) => Durable(Now', Env')
  <1>1. /\ x \in sent /\ sent' = sent \ {x} /\ dispatch' = dispatch /\ new' = new /\ held' = held
        /\ snap' = snap /\ before' = before /\ durable' = durable /\ cached' = cached /\ EndRequest(x, TRUE)
    BY DEF Fail, deviceVars
  <1>2. PICK err \in BOOLEAN : err = TRUE
    OBVIOUS
  <1>3. EndRequest(x, err)
    BY <1>1, <1>2
  <1>4. CASE x \in Fqs
    <2>1. cached' = cached /\ durable' = IF err THEN durable ELSE durable \cup snap[x]
      BY <1>1, <1>2
    <2> QED
      BY <1>1, <1>3, <1>4, <2>1, EndFlushKeeps
  <1>5. CASE x \in Rqs
    <2>1. /\ cached' = IF err THEN cached ELSE cached \cup {x}
          /\ durable' = IF err \/ (setup.cache /\ ~(setup.kind[x].fua /\ setup.fua)) THEN durable ELSE durable \cup {x}
      BY <1>1, <1>2
    <2> QED
      BY <1>1, <1>3, <1>5, <2>1, EndRqKeeps
  <1> QED
    BY <1>4, <1>5 DEF Items

-----------------------------------------------------------------------------
(* The invariant, step by step. *)

LEMMA PrimeStructure ==
  ASSUME setup' = setup
  PROVE  /\ Structure(Now', Env') => Structure(Now, Env)'
         /\ Durable(Now', Env') => Durable(Now, Env)'
  <1>1. Structure(Now', Env') => Structure(Now, Env)'
    <2>1. ASSUME NEW r \in Rqs, Placed(Now', Env', r) PROVE Placed(Now, Env, r)'
      BY <2>1 DEF Placed, Queued, Flushed, Policy, InOrder, On
    <2>2. ASSUME NEW f \in Fqs, Kept(Now', Env', f, 0) PROVE Kept(Now, Env, f, 0)'
      BY <2>2 DEF Kept, Queued, On
    <2> QED
      BY <2>1, <2>2 DEF Structure
  <1>2. Durable(Now', Env') => Durable(Now, Env)'
    BY DEF Durable, Promised, Covered, Needs, Queued, Flushed, Policy, On
  <1> QED
    BY <1>1, <1>2

LEMMA StructureKept ==
  ASSUME FInv, Next
  PROVE  Structure(Now', Env') /\ setup' = setup
  <1>1. ASSUME NEW r \in Rqs, Submit(r) PROVE Structure(Now', Env') /\ setup' = setup
    BY <1>1, SubmitKeeps DEF Submit
  <1>2. ASSUME RequeueWork PROVE Structure(Now', Env') /\ setup' = setup
    BY <1>2, RequeueWorkKeeps DEF RequeueWork
  <1>3. ASSUME NEW x \in Items, Issue(x) PROVE Structure(Now', Env') /\ setup' = setup
    BY <1>3, IssueKeeps DEF Issue
  <1>4. ASSUME NEW x \in Items, Retry(x) PROVE Structure(Now', Env') /\ setup' = setup
    BY <1>4, RetryKeeps DEF Retry
  <1>5. ASSUME NEW w \in Walkers, Put(w) PROVE Structure(Now', Env') /\ setup' = setup
    BY <1>5, PutKeeps DEF Put
  <1>6. ASSUME NEW w \in Walkers, NEW f \in Fqs, Meet(w, f) PROVE Structure(Now', Env') /\ setup' = setup
    BY <1>6, MeetKeeps DEF Meet
  <1>7. ASSUME NEW f \in Fqs, Age(f) PROVE Structure(Now', Env') /\ setup' = setup
    BY <1>7, AgeKeeps DEF Age
  <1>8. ASSUME NEW x \in Items, Complete(x) PROVE Structure(Now', Env') /\ setup' = setup
    BY <1>8, CompleteActKeeps DEF Complete
  <1>9. ASSUME NEW x \in Items, Fail(x) PROVE Structure(Now', Env') /\ setup' = setup
    BY <1>9, FailKeeps DEF Fail
  <1> QED
    BY <1>1, <1>2, <1>3, <1>4, <1>5, <1>6, <1>7, <1>8, <1>9 DEF Next

LEMMA TypesKept ==
  ASSUME FInv, Next
  PROVE  FlushTypes' /\ (new \cap cached = {})'
  <1> USE DEF deviceVars, queueVars
  <1>1. /\ requeue \in Seq(Items) /\ (\A x \in Items : ~(On(requeue, x) /\ x \in dispatch \cup sent))
        /\ \A r \in Rqs : r \in new => r \notin dispatch \cup sent
    <2>1. ASSUME NEW r \in Rqs, r \in new PROVE r \notin dispatch \cup sent
      <3>1. Placed(Now, Env, r) /\ r \in Env.new
        BY <2>1, EnvIs, QueueSets DEF Structure
      <3> QED
        BY <3>1, QueueSets DEF Placed
    <2> QED
      BY <2>1, QueueSets
  <1>2. \A x : x \in ToSet(requeue) <=> On(requeue, x)
    BY <1>1, ToSetOn
  <1>3. ToSet(requeue) \subseteq Items
    BY <1>1 DEF ToSet
  <1>4. FlushTypes /\ new \cap cached = {}
    BY DEF FInv
  <1>5. ASSUME NEW r \in Rqs, Submit(r) PROVE FlushTypes' /\ (new \cap cached = {})'
    <2>1. /\ r \in new /\ new' = new \ {r} /\ setup' = setup /\ sent' = sent /\ held' = held /\ durable' = durable
          /\ cached' = cached /\ snap' = snap /\ before' = [before EXCEPT ![r] = {s \in Ended : setup.kind[s].data}]
          /\ dispatch' = dispatch \/ dispatch' = dispatch \cup {r}
      BY <1>5 DEF Submit
    <2>2. Ended \subseteq Rqs /\ r \in Items /\ r \notin sent
      BY <1>1, <2>1 DEF Ended, Items
    <2> QED
      BY <1>4, <2>1, <2>2 DEF FlushTypes
  <1>6. CASE RequeueWork
    BY <1>1, <1>2, <1>3, <1>4, <1>6 DEF RequeueWork, FlushTypes
  <1>7. ASSUME NEW x \in Items, Issue(x) PROVE FlushTypes' /\ (new \cap cached = {})'
    <2>1. snap' \in [Fqs -> SUBSET Rqs]
      BY <1>4, <1>7 DEF Issue, FlushTypes
    <2> QED
      BY <1>4, <1>7, <2>1 DEF Issue, FlushTypes
  <1>8. ASSUME NEW x \in Items, Complete(x) PROVE FlushTypes' /\ (new \cap cached = {})'
    <2>1. /\ x \in sent /\ sent' = sent \ {x} /\ setup' = setup /\ dispatch' = dispatch /\ held' = held /\ new' = new
          /\ snap' = snap /\ before' = before
      BY <1>8 DEF Complete
    <2>2. CASE x \in Fqs
      <3>1. cached' = cached /\ durable' = durable \cup snap[x]
        BY <1>8, <2>2 DEF Complete, Performed
      <3>2. snap[x] \subseteq Rqs
        BY <1>4, <2>2 DEF FlushTypes
      <3> QED
        BY <1>4, <2>1, <3>1, <3>2 DEF FlushTypes
    <2>3. CASE x \in Rqs
      <3>1. x \notin Fqs /\ x \notin new
        BY <1>1, <2>1, <2>3, FlushAssumption
      <3>2. cached' = cached \cup {x} /\ (durable' = durable \/ durable' = durable \cup {x})
        BY <1>8, <3>1 DEF Complete, Performed
      <3> QED
        BY <1>4, <2>1, <2>3, <3>1, <3>2 DEF FlushTypes
    <2> QED
      BY <2>2, <2>3 DEF Items
  <1>9. ASSUME NEW x \in Items, Fail(x) PROVE FlushTypes' /\ (new \cap cached = {})'
    BY <1>4, <1>9 DEF Fail, FlushTypes
  <1>10. ASSUME NEW x \in Items, Retry(x) PROVE FlushTypes' /\ (new \cap cached = {})'
    BY <1>4, <1>10 DEF Retry, FlushTypes
  <1>11. ASSUME NEW w \in Walkers, Put(w) PROVE FlushTypes' /\ (new \cap cached = {})'
    BY <1>4, <1>11 DEF Put, FlushTypes
  <1>12. ASSUME NEW w \in Walkers, NEW f \in Fqs, Meet(w, f) PROVE FlushTypes' /\ (new \cap cached = {})'
    BY <1>4, <1>12 DEF Meet, FlushTypes
  <1>13. ASSUME NEW f \in Fqs, Age(f) PROVE FlushTypes' /\ (new \cap cached = {})'
    BY <1>4, <1>13 DEF Age, FlushTypes
  <1> QED
    BY <1>5, <1>6, <1>7, <1>8, <1>9, <1>10, <1>11, <1>12, <1>13 DEF Next

LEMMA FInvStep == FInv /\ [Next]_vars => FInv'
  <1> SUFFICES ASSUME FInv, [Next]_vars PROVE FInv'
    OBVIOUS
  <1>1. CASE Next
    <2>1. Structure(Now, Env)'
      BY <1>1, StructureKept, PrimeStructure
    <2> QED
      BY <1>1, <2>1, TypesKept DEF FInv
  <1>2. CASE UNCHANGED vars
    <2>1. setup' = setup /\ Now' = Now /\ Env' = Env
      BY <1>2 DEF vars, queueVars, deviceVars, Now, Env
    <2>2. Structure(Now', Env')
      BY <2>1 DEF FInv
    <2>3. FlushTypes' /\ (new \cap cached = {})'
      BY <1>2 DEF FInv, FlushTypes, vars, deviceVars
    <2> QED
      BY <2>1, <2>2, <2>3, PrimeStructure DEF FInv
  <1> QED
    BY <1>1, <1>2

LEMMA FInvInit == Init => FInv
  <1> SUFFICES ASSUME NEW s \in Setups, InitWith(s) PROVE FInv
    BY DEF Init
  <1>1. /\ setup = s /\ fq = [f \in Fqs |-> EmptyFq] /\ seq = [r \in Rqs |-> {}] /\ result = [r \in Rqs |-> None]
        /\ requeue = <<>> /\ bug = FALSE /\ failed = {} /\ dispatch = {} /\ sent = {}
        /\ held = [w \in Walkers |-> None] /\ new = Rqs /\ durable = {} /\ cached = {}
        /\ snap = [f \in Fqs |-> {}] /\ before = [r \in Rqs |-> {}]
    BY DEF InitWith
  <1>2. FlushTypes /\ new \cap cached = {}
    BY <1>1 DEF FlushTypes
  <1> DEFINE lists == [i \in {0, 1} |-> <<>>]
             no == FALSE
             none == [ref |-> 0, tag |-> None]
  <1>3. EmptyFq = [list |-> lists, pend |-> 0, run |-> 0, data |-> {}, old |-> no, status |-> no, rq |-> none]
    BY DEF EmptyFq, NoFlush
  <1>4. /\ lists \in [{0, 1} -> Seq(Rqs)] /\ lists[0] = <<>> /\ lists[1] = <<>> /\ no \in BOOLEAN /\ ~no
        /\ none \in [ref : Nat, tag : Rqs \cup {None}] /\ none.ref = 0 /\ none.tag = None
    OBVIOUS
  <1>5. IsInjective(<<>>) /\ \A x : ~On(<<>>, x)
    BY DEF IsInjective, On
  <1> HIDE DEF lists, no, none
  <1>6. EmptyFq \in FqType
    BY <1>3, <1>4 DEF FqType
  <1>7. /\ EmptyFq.list = lists /\ EmptyFq.pend = 0 /\ EmptyFq.run = 0 /\ EmptyFq.data = {} /\ EmptyFq.status = no
        /\ EmptyFq.rq = none
    BY <1>3
  <1>8. Now \in MachineType
    <2>1. [f \in Fqs |-> EmptyFq] \in [Fqs -> FqType] /\ [r \in Rqs |-> {}] \in [Rqs -> SUBSET Stages]
      BY <1>6
    <2>2. [r \in Rqs |-> None] \in [Rqs -> {"ok", "error", None}] /\ <<>> \in Seq(Items)
      OBVIOUS
    <2>3. bug \in {FALSE}
      BY <1>1
    <2> QED
      BY <1>1, <2>1, <2>2, <2>3 DEF MachineType, Now
  <1>9. \A x : ~Queued(Now, Env, x)
    BY <1>1, <1>5, EnvIs, NowIs DEF Queued
  <1>10. \A f \in Fqs : Now.fq[f] = EmptyFq
    BY <1>1, NowIs
  <1>11. ASSUME NEW f \in Fqs PROVE Kept(Now, Env, f, 0)
    <2>1. Env.walks[f] = 0
      <3>1. None # f
        BY FlushAssumption DEF Items
      <3>2. {w \in Walkers : held[w] = f} = {}
        BY <1>1, <3>1
      <3> QED
        BY <3>2, EnvIs, FS_EmptySet
    <2>2. Now.fq[f] = EmptyFq
      BY <1>10
    <2>3. \A i \in {0, 1} : EmptyFq.list[i] = <<>>
      BY <1>4, <1>7
    <2> QED
      BY <1>4, <1>5, <1>7, <1>9, <2>1, <2>2, <2>3 DEF Kept
  <1>12. ASSUME NEW r \in Rqs PROVE Placed(Now, Env, r)
    <2>1. Now.fq[FqOf[r]] = EmptyFq
      BY <1>10, FlushAssumption
    <2>2. ~On(EmptyFq.list[0], r) /\ ~On(EmptyFq.list[1], r) /\ r \notin EmptyFq.data
      BY <1>4, <1>5, <1>7
    <2>3. Now.seq[r] = {} /\ Now.result[r] = None /\ r \in Env.new
      BY <1>1, EnvIs, NowIs
    <2>4. None # "ok"
      BY FlushAssumption
    <2> QED
      BY <1>9, <2>1, <2>2, <2>3, <2>4 DEF Placed
  <1>13. IsInjective(Now.requeue) /\ \A x \in Items : ~(On(Now.requeue, x) /\ x \in Env.out)
    BY <1>1, <1>5, NowIs
  <1> QED
    BY <1>2, <1>8, <1>11, <1>12, <1>13 DEF FInv, Structure

LEMMA FInvHolds == Spec => []FInv
  BY FInvInit, FInvStep, PTL DEF Spec

LEMMA BudgetsKept ==
  ASSUME FInv, Budgets, Next
  PROVE  Budgets'
  <1>1. /\ setup' = setup /\ setup \in Setups /\ fq \in [Fqs -> FqType] /\ held \in [Walkers -> Fqs \cup {None}]
    BY StructureKept, QueueSets
  <1>2. setup.errs \in Nat /\ setup.walks \in [Walkers -> Nat]
    BY <1>1, FlushAssumption
  <1>3. ASSUME budget' = budget, held' = held, \A f \in Fqs : fq'[f].status => fq[f].status
        PROVE  Budgets'
    BY <1>1, <1>3 DEF Budgets
  <1>4. ASSUME NEW r \in Rqs, Submit(r) PROVE Budgets'
    BY <1>3, <1>4, SubmitKeeps DEF Submit
  <1>5. CASE RequeueWork
    BY <1>3, <1>5 DEF RequeueWork
  <1>6. ASSUME NEW x \in Items, Issue(x) PROVE Budgets'
    BY <1>3, <1>6 DEF Issue, queueVars
  <1>7. ASSUME NEW x \in Items, Complete(x) PROVE Budgets'
    BY <1>3, <1>7, CompleteActKeeps DEF Complete
  <1>8. ASSUME NEW x \in Items, Fail(x) PROVE Budgets'
    <2>1. budget' = [budget EXCEPT !.errs = budget.errs - 1] /\ budget.errs > 0 /\ held' = held
      BY <1>8 DEF Fail
    <2>2. /\ budget \in [errs : Nat, retries : Nat, walks : [Walkers -> Nat]] /\ budget.errs <= setup.errs
          /\ \A w \in Walkers : budget.walks[w] <= setup.walks[w] /\ (held[w] # None => setup.walks[w] > 0)
      BY DEF Budgets
    <2>3. /\ budget' \in [errs : Nat, retries : Nat, walks : [Walkers -> Nat]]
          /\ budget'.errs = budget.errs - 1 /\ budget'.walks = budget.walks
      BY <2>1, <2>2
    <2>4. setup.errs # 0 /\ budget'.errs <= setup.errs
      BY <1>2, <2>1, <2>2, <2>3
    <2> QED
      BY <1>1, <2>1, <2>2, <2>3, <2>4 DEF Budgets
  <1>9. ASSUME NEW x \in Items, Retry(x) PROVE Budgets'
    <2>1. budget' = [budget EXCEPT !.retries = budget.retries - 1] /\ budget.retries > 0 /\ held' = held /\ fq' = fq
      BY <1>9 DEF Retry
    <2>2. budget \in [errs : Nat, retries : Nat, walks : [Walkers -> Nat]]
      BY DEF Budgets
    <2>3. /\ budget' \in [errs : Nat, retries : Nat, walks : [Walkers -> Nat]]
          /\ budget'.errs = budget.errs /\ budget'.walks = budget.walks
      BY <2>1, <2>2
    <2> QED
      BY <1>1, <2>1, <2>3 DEF Budgets
  <1>10. ASSUME NEW w \in Walkers, Put(w) PROVE Budgets'
    <2>1. budget' = budget /\ held' = [held EXCEPT ![w] = None] /\ \A f \in Fqs : fq'[f].status => fq[f].status
      BY <1>10, PutKeeps DEF Put
    <2>2. \A v \in Walkers : held'[v] # None => held[v] # None
      BY <1>1, <2>1
    <2> QED
      BY <1>1, <2>1, <2>2 DEF Budgets
  <1>11. ASSUME NEW w \in Walkers, NEW f \in Fqs, Meet(w, f) PROVE Budgets'
    <2>1. /\ budget.walks[w] > 0 /\ budget' = [budget EXCEPT !.walks = [budget.walks EXCEPT ![w] = budget.walks[w] - 1]]
          /\ held' = [held EXCEPT ![w] = f]
          /\ fq' = [fq EXCEPT ![f] = [fq[f] EXCEPT !.rq = [fq[f].rq EXCEPT !.ref = fq[f].rq.ref + 1]]]
      BY <1>11 DEF Meet
    <2>2. /\ budget \in [errs : Nat, retries : Nat, walks : [Walkers -> Nat]]
          /\ \A v \in Walkers : budget.walks[v] <= setup.walks[v] /\ (held[v] # None => setup.walks[v] > 0)
      BY DEF Budgets
    <2> DEFINE walks == [budget.walks EXCEPT ![w] = budget.walks[w] - 1]
    <2>3. walks \in [Walkers -> Nat] /\ \A v \in Walkers : walks[v] <= budget.walks[v]
      BY <2>1, <2>2
    <2>4. budget' = [budget EXCEPT !.walks = walks]
      BY <2>1
    <2> HIDE DEF walks
    <2>5. /\ budget' \in [errs : Nat, retries : Nat, walks : [Walkers -> Nat]]
          /\ budget'.errs = budget.errs /\ budget'.walks = walks
      BY <2>2, <2>3, <2>4
    <2>6. ASSUME NEW v \in Walkers
          PROVE  budget'.walks[v] <= setup.walks[v] /\ (held'[v] # None => setup.walks[v] > 0)
      <3>1. walks[v] \in Nat /\ budget.walks[v] \in Nat /\ setup.walks[v] \in Nat
        BY <1>2, <2>2, <2>3
      <3> QED
        BY <1>1, <2>1, <2>2, <2>3, <2>5, <3>1
    <2>7. ASSUME NEW g \in Fqs, fq'[g].status PROVE fq[g].status
      <3> DEFINE Q == fq[f]
                 more == [fq[f].rq EXCEPT !.ref = fq[f].rq.ref + 1]
      <3>1. Q = [list |-> Q.list, pend |-> Q.pend, run |-> Q.run, data |-> Q.data, old |-> Q.old, status |-> Q.status,
                 rq |-> Q.rq]
        BY <1>1, FqRecord
      <3>2. fq' = [fq EXCEPT ![f] = [Q EXCEPT !.rq = more]]
        BY <2>1
      <3> HIDE DEF Q, more
      <3>3. [Q EXCEPT !.rq = more].status = Q.status
        BY <3>1
      <3>4. fq'[g].status = fq[g].status
        BY <1>1, <3>2, <3>3 DEF Q
      <3> QED
        BY <2>7, <3>4
    <2> QED
      BY <1>1, <2>2, <2>5, <2>6, <2>7 DEF Budgets
  <1>12. ASSUME NEW f \in Fqs, Age(f) PROVE Budgets'
    <2>1. budget' = budget /\ held' = held /\ fq' = [fq EXCEPT ![f] = [fq[f] EXCEPT !.old = TRUE]]
      BY <1>12 DEF Age
    <2>2. ASSUME NEW g \in Fqs, fq'[g].status PROVE fq[g].status
      <3> DEFINE Q == fq[f]
                 yes == TRUE
      <3>1. Q = [list |-> Q.list, pend |-> Q.pend, run |-> Q.run, data |-> Q.data, old |-> Q.old, status |-> Q.status,
                 rq |-> Q.rq]
        BY <1>1, FqRecord
      <3>2. fq' = [fq EXCEPT ![f] = [Q EXCEPT !.old = yes]]
        BY <2>1
      <3> HIDE DEF Q, yes
      <3>3. [Q EXCEPT !.old = yes].status = Q.status
        BY <3>1
      <3>4. fq'[g].status = fq[g].status
        BY <1>1, <3>2, <3>3 DEF Q
      <3> QED
        BY <2>2, <3>4
    <2> QED
      BY <1>3, <2>1, <2>2
  <1> QED
    BY <1>4, <1>5, <1>6, <1>7, <1>8, <1>9, <1>10, <1>11, <1>12 DEF Next

LEMMA DurableKept ==
  ASSUME FInv, Next, Reliable, Durable(Now, Env), Budgets
  PROVE  Durable(Now', Env')
  <1>1. ASSUME NEW r \in Rqs, Submit(r) PROVE Durable(Now', Env')
    BY <1>1, SubmitKeeps
  <1>2. CASE RequeueWork
    BY <1>2, RequeueWorkKeeps
  <1>3. ASSUME NEW x \in Items, Issue(x) PROVE Durable(Now', Env')
    BY <1>3, IssueKeeps
  <1>4. ASSUME NEW x \in Items, Complete(x) PROVE Durable(Now', Env')
    BY <1>4, CompleteActKeeps
  <1>5. ASSUME NEW x \in Items, Fail(x) PROVE Durable(Now', Env')
    BY <1>5, FailKeeps
  <1>6. ASSUME NEW x \in Items, Retry(x) PROVE Durable(Now', Env')
    BY <1>6, RetryKeeps
  <1>7. ASSUME NEW w \in Walkers, Put(w) PROVE Durable(Now', Env')
    BY <1>7, PutKeeps
  <1>8. ASSUME NEW w \in Walkers, NEW f \in Fqs, Meet(w, f) PROVE Durable(Now', Env')
    BY <1>8, MeetKeeps
  <1>9. ASSUME NEW f \in Fqs, Age(f) PROVE Durable(Now', Env')
    BY <1>9, AgeKeeps
  <1> QED
    BY <1>1, <1>2, <1>3, <1>4, <1>5, <1>6, <1>7, <1>8, <1>9 DEF Next

LEMMA DInvStep == FInv /\ DInv /\ [Next]_vars => DInv'
  <1> SUFFICES ASSUME FInv, DInv, [Next]_vars, Reliable' PROVE (Durable(Now, Env) /\ Budgets)'
    BY DEF DInv
  <1>1. CASE Next
    <2>1. setup' = setup
      BY <1>1, StructureKept
    <2>2. Reliable
      BY <2>1 DEF Reliable
    <2>3. Durable(Now, Env) /\ Budgets
      BY <2>2 DEF DInv
    <2> QED
      BY <1>1, <2>1, <2>2, <2>3, DurableKept, BudgetsKept, PrimeStructure
  <1>2. CASE UNCHANGED vars
    <2>1. setup' = setup /\ Now' = Now /\ Env' = Env
      BY <1>2 DEF vars, queueVars, deviceVars, Now, Env
    <2>2. Reliable
      BY <2>1 DEF Reliable
    <2>3. Durable(Now', Env') /\ Budgets
      BY <2>1, <2>2 DEF DInv
    <2>4. Budgets'
      BY <1>2, <2>3 DEF Budgets, vars, queueVars
    <2> QED
      BY <2>1, <2>3, <2>4, PrimeStructure
  <1> QED
    BY <1>1, <1>2

LEMMA DInvInit == Init => DInv
  <1> SUFFICES ASSUME NEW s \in Setups, InitWith(s) PROVE Durable(Now, Env) /\ Budgets
    BY DEF Init, DInv
  <1>1. /\ setup = s /\ fq = [f \in Fqs |-> EmptyFq] /\ seq = [r \in Rqs |-> {}] /\ result = [r \in Rqs |-> None]
        /\ held = [w \in Walkers |-> None] /\ cached = {} /\ before = [r \in Rqs |-> {}]
        /\ budget = [errs |-> s.errs, retries |-> s.retries, walks |-> s.walks]
    BY DEF InitWith
  <1>2. \A f \in Fqs : fq[f].pend = fq[f].run /\ ~fq[f].status
    BY <1>1 DEF EmptyFq
  <1>3. ASSUME NEW r \in Rqs PROVE Promised(Now, Env, r)
    <2>1. /\ Now.seq[r] = {} /\ Now.result[r] = None /\ Env.cached = {} /\ Env.before[r] = {}
      BY <1>1, EnvIs, NowIs
    <2>2. None # "ok"
      BY FlushAssumption
    <2> QED
      BY <2>1, <2>2 DEF Promised
  <1>4. \A f \in Fqs : Covered(Now, Env, f)
    BY <1>2, NowIs DEF Covered
  <1>5. Budgets
    <2>1. s.errs \in Nat /\ s.retries \in Nat /\ s.walks \in [Walkers -> Nat]
      BY FlushAssumption
    <2> QED
      BY <1>1, <1>2, <2>1 DEF Budgets
  <1> QED
    BY <1>3, <1>4, <1>5 DEF Durable

-----------------------------------------------------------------------------
(* Every variable has its type, the two lists of a flush queue keep apart, *)
(* no step of a request is taken twice, and a flush borrows the tag of a   *)
(* request that waits for it and is nowhere else (blk-flush.c:223, 322,    *)
(* 350).                                                                   *)
THEOREM ListsApart == Spec => []ListsKeepApart
  <1> SUFFICES ASSUME FInv PROVE ListsKeepApart
    BY FInvHolds, PTL
  <1>1. \A x : x \in ToSet(requeue) <=> On(requeue, x)
    BY QueueSets, ToSetOn
  <1>2. ASSUME NEW f \in Fqs
        PROVE  /\ fq[f] \in FqType /\ Kept(Now, Env, f, 0) /\ fq[f].rq.tag \in Rqs \cup {None}
               /\ fq[f].pend \in {0, 1} /\ fq[f].run \in {0, 1} /\ fq[f].list[fq[f].run] \in Seq(Rqs)
    <2>1. fq[f] \in FqType /\ Kept(Now, Env, f, 0)
      BY QueueSets DEF Structure
    <2>2. /\ fq[f].pend \in {0, 1} /\ fq[f].run \in {0, 1} /\ fq[f].list \in [{0, 1} -> Seq(Rqs)]
          /\ fq[f].rq \in [ref : Nat, tag : Rqs \cup {None}]
      BY <2>1, FqRecord
    <2> QED
      BY <2>1, <2>2
  <1>3. TypeOK
    <2>1. ASSUME NEW f \in Fqs PROVE fq[f].rq.ref \in 0 .. 1 + Cardinality(Walkers)
      <3>1. /\ Cardinality({w \in Walkers : held[w] = f}) <= Cardinality(Walkers)
            /\ Cardinality({w \in Walkers : held[w] = f}) \in Nat /\ Cardinality(Walkers) \in Nat
        <4>1. IsFiniteSet(Walkers) /\ {w \in Walkers : held[w] = f} \in SUBSET Walkers
          BY FlushAssumption
        <4> QED
          BY <4>1, FS_Subset, FS_CardinalityType
      <3>2. fq[f].rq.ref = 0 + Env.walks[f] + (IF Queued(Now, Env, f) THEN 1 ELSE 0)
        BY <1>2, NowIs DEF Kept
      <3> QED
        BY <3>1, <3>2, EnvIs
    <2>2. seq \in [Rqs -> SUBSET ToSet(Steps)]
      BY QueueSets, StagesAre
    <2>3. ToSet(requeue) \cap (dispatch \cup sent) = {}
      <3>1. ToSet(requeue) \subseteq Items
        BY QueueSets DEF ToSet
      <3> QED
        BY <1>1, <3>1, QueueSets
    <2> QED
      BY <1>2, <2>1, <2>2, <2>3, QueueSets DEF TypeOK
  <1>4. NoMix
    BY QueueSets DEF NoMix
  <1>5. ASSUME NEW f \in Fqs, Pending(f)
        PROVE  LET r == fq[f].rq.tag IN
               r \in ToSet(fq[f].list[fq[f].run]) /\ r \notin dispatch \cup sent \cup ToSet(requeue) /\ result[r] = None
    <2> DEFINE r == fq[f].rq.tag
               l == fq[f].list[fq[f].run]
    <2>1. r # None /\ r \in Rqs /\ l \in Seq(Rqs)
      BY <1>2, <1>5 DEF Pending
    <2>2. On(l, r)
      BY <1>2, <2>1, NowIs DEF Kept
    <2>3. FqOf[r] = f
      BY <1>2, <2>1, <2>2, NowIs DEF Kept
    <2>4. On(Now.fq[FqOf[r]].list[0], r) \/ On(Now.fq[FqOf[r]].list[1], r)
      BY <1>2, <2>2, <2>3, NowIs
    <2>5. Placed(Now, Env, r)
      BY <2>1, QueueSets DEF Structure
    <2>6. ~Queued(Now, Env, r) /\ Now.result[r] = None
      BY <2>4, <2>5 DEF Placed
    <2>7. r \in ToSet(l)
      BY <2>1, <2>2, ToSetOn
    <2> QED
      BY <1>1, <2>6, <2>7, NowIs, QueueSets
  <1> QED
    BY <1>3, <1>4, <1>5 DEF ListsKeepApart, LenderWaits

(* A flush request has as many references as walks hold it, and one of its *)
(* own while its command is on the way or with the device: it is not set   *)
(* up again while a walk works on it.                                      *)
THEOREM WalksHoldFlushes == Spec => []WalkedFlushStays
  <1> SUFFICES ASSUME FInv PROVE WalkedFlushStays
    BY FInvHolds, PTL
  <1>1. \A x : x \in ToSet(requeue) <=> On(requeue, x)
    BY QueueSets, ToSetOn
  <1>2. ASSUME NEW f \in Fqs
        PROVE  fq[f].rq.ref = Cardinality({w \in Walkers : held[w] = f})
                              + (IF f \in dispatch \cup sent \cup ToSet(requeue) THEN 1 ELSE 0)
    <2>1. Kept(Now, Env, f, 0)
      BY QueueSets DEF Structure
    <2>2. fq[f].rq.ref = 0 + Env.walks[f] + (IF Queued(Now, Env, f) THEN 1 ELSE 0)
      BY <2>1, NowIs DEF Kept
    <2>3. Env.walks[f] = Cardinality({w \in Walkers : held[w] = f}) /\ Env.walks[f] \in Nat
      BY EnvIs DEF EnvOk
    <2> QED
      BY <1>1, <2>2, <2>3, QueueSets
  <1> QED
    BY <1>2 DEF WalkedFlushStays

(* What a request was promised is on the medium when it is to be: before   *)
(* its data is written, and when it ends.                                  *)
LEMMA PromisesKept ==
  ASSUME FInv, Durable(Now, Env)
  PROVE  EndedIsDurable
  <1>1. ASSUME NEW r \in Rqs
        PROVE  /\ Placed(Now, Env, r) /\ Promised(Now, Env, r) /\ Now.seq[r] \in SUBSET Stages
               /\ setup \in Setups /\ None \notin {"ok", "error"}
    <2>1. Now.seq[r] \in SUBSET Stages
      BY NowIs, QueueSets
    <2> QED
      BY <2>1, QueueSets, FlushAssumption DEF Structure, Durable
  <1>2. ASSUME NEW r \in Rqs, "pre" \in Policy(r), r \in dispatch \cup sent \cup cached
        PROVE  before[r] \subseteq durable
    <2>1. Flushed(r)
      BY <1>2 DEF Flushed
    <2>2. CASE r \in cached
      BY <1>1, <1>2, <2>2, EnvIs DEF Promised
    <2>3. CASE r \in dispatch \cup sent
      <3>1. Queued(Now, Env, r)
        BY <2>3, EnvIs DEF Queued
      <3>2. Now.result[r] = None /\ r \notin Env.new /\ CurSeq[Now.seq[r]] = "data"
        BY <1>1, <2>1, <3>1 DEF Placed
      <3>3. InOrder(r, Now.seq[r])
        BY <1>1, <2>1, <3>2 DEF Placed
      <3> DEFINE done == Now.seq[r]
      <3>4. done \in SUBSET Stages /\ CurSeq[done] = "data" /\ InOrder(r, done)
        BY <1>1, <3>2, <3>3
      <3> HIDE DEF done
      <3>5. "pre" \in done
        BY <1>1, <2>1, <3>4, NextStep
      <3>6. "pre" \in Now.seq[r] /\ Now.result[r] # "error"
        BY <1>1, <3>2, <3>5 DEF done
      <3> QED
        BY <1>1, <1>2, <3>6, EnvIs DEF Promised
    <2> QED
      BY <1>2, <2>2, <2>3
  <1>3. ASSUME NEW r \in Ended
        PROVE  /\ setup.kind[r].pre => before[r] \subseteq durable
               /\ setup.kind[r].fua => r \in durable
    <2>1. r \in Rqs /\ Now.result[r] = "ok"
      BY NowIs DEF Ended
    <2>2. Flushed(r) => "pre" \in Now.seq[r] /\ "post" \in Now.seq[r]
      BY <1>1, <2>1 DEF Placed, Stages
    <2>3. ASSUME setup.kind[r].pre PROVE before[r] \subseteq durable
      <3>1. CASE setup.cache
        <4>1. "pre" \in Policy(r)
          BY <1>1, <2>1, <2>3, <3>1, PolicyIs
        <4>2. Flushed(r)
          BY <4>1 DEF Flushed
        <4> QED
          BY <1>1, <2>1, <2>2, <4>1, <4>2, EnvIs DEF Promised
      <3>2. CASE ~setup.cache
        <4>1. before[r] \subseteq cached /\ cached \subseteq Rqs
          BY <1>1, <2>1, EnvIs DEF Promised, FInv, FlushTypes
        <4>2. ASSUME NEW q \in cached PROVE q \in durable
          BY <1>1, <3>2, <4>1, <4>2, EnvIs DEF Promised
        <4> QED
          BY <4>1, <4>2
      <3> QED
        BY <3>1, <3>2
    <2>4. ASSUME setup.kind[r].fua PROVE r \in durable
      <3>1. r \in cached
        <4>1. setup.kind[r].data
          BY <1>1, <2>1, <2>4, PolicyIs
        <4> QED
          BY <1>1, <2>1, <4>1, EnvIs DEF Promised
      <3>2. CASE setup.fua \/ ~setup.cache
        BY <1>1, <2>1, <2>4, <3>1, <3>2, EnvIs DEF Promised
      <3>3. CASE ~setup.fua /\ setup.cache
        <4>1. "post" \in Policy(r)
          BY <1>1, <2>1, <2>4, <3>3, PolicyIs
        <4>2. "post" \in Now.seq[r]
          BY <2>2, <4>1 DEF Flushed
        <4> QED
          BY <1>1, <2>1, <4>1, <4>2, EnvIs DEF Promised
      <3> QED
        BY <3>2, <3>3
    <2> QED
      BY <2>3, <2>4
  <1> QED
    BY <1>2, <1>3 DEF EndedIsDurable, DataAfterFlush, PromiseKept

(* The data of a PREFLUSH request is written after what had ended before   *)
(* it is on the medium, and whatever ended well kept its promise, however  *)
(* requests share flushes; as long as no two walks overwrite what a failed *)
(* flush reported (blk-flush.c:15, 262, 322).                              *)
THEOREM EndedOnMedium == Spec => [](Reliable => EndedIsDurable)
  <1>1. FInv /\ DInv => (Reliable => EndedIsDurable)
    BY PromisesKept DEF DInv
  <1> QED
    BY <1>1, FInvHolds, FInvInit, FInvStep, DInvInit, DInvStep, PTL DEF Spec
=============================================================================
