-------------------------- MODULE BlkTagSet_proofs --------------------------
(***************************************************************************)
(* Proofs about the NQ layout and the regulator that is brought up on it,  *)
(* for any number of NQs and NCQs: where the blocks of NCQs begin, that    *)
(* the arithmetic of BlexQueueMap agrees with it, that bring-up is all or  *)
(* nothing and leaves a layout that serves every command.                  *)
(***************************************************************************)
EXTENDS BlkTagSet, FiniteSetTheorems, TLAPS

Layout(M, C) == M \in Nat \ {0} /\ C \in Nat \ {0} /\ C <= M
Ave(M, C) == M \div C
Extra(M, C) == M % C

(* The ID after the first k NCQs and their NSQs. *)
First(k, M, C) ==
  IF k <= Extra(M, C) THEN k * (Ave(M, C) + 1) + 1
  ELSE Extra(M, C) * (Ave(M, C) + 1) + 1 + (k - Extra(M, C)) * Ave(M, C)
Width(k, M, C) == IF k < Extra(M, C) THEN Ave(M, C) + 1 ELSE Ave(M, C)

LEMMA MulFacts ==
  /\ \A a, b \in Nat : a * b \in Nat
  /\ \A a, b, c \in Nat : (a + b) * c = a * c + b * c /\ c * (a + b) = c * a + c * b
  /\ \A a, b, c \in Nat : a <= b => a * c <= b * c
  OBVIOUS

LEMMA DivUnique ==
  ASSUME NEW b \in Nat \ {0}, NEW q \in Nat, NEW r \in Nat, r < b
  PROVE  /\ (q * b + r) \div b = q
         /\ (q * b + r) % b = r
         /\ (q * b) \div b = q
  OBVIOUS

LEMMA DivMod ==
  ASSUME NEW a \in Nat, NEW b \in Nat \ {0}
  PROVE  /\ a \div b \in Nat /\ a % b \in Nat /\ a % b < b
         /\ a = (a \div b) * b + (a % b)
  OBVIOUS

LEMMA Parts ==
  ASSUME NEW M, NEW C, Layout(M, C)
  PROVE  /\ Ave(M, C) \in Nat \ {0} /\ Extra(M, C) \in Nat /\ Extra(M, C) < C
         /\ M = Ave(M, C) * C + Extra(M, C)
         /\ MinNoExtraSqCqid(M, C) = Extra(M, C) * (Ave(M, C) + 1) + 1
  <1>1. M \in Nat /\ C \in Nat \ {0} /\ C <= M
    BY DEF Layout
  <1>2. M \div C \in Nat /\ M % C \in Nat /\ M % C < C /\ M = (M \div C) * C + (M % C)
    BY <1>1, DivMod
  <1>3. M \div C # 0
    BY <1>1, <1>2
  <1> QED
    BY <1>2, <1>3 DEF Ave, Extra, MinNoExtraSqCqid

LEMMA FirstFacts ==
  ASSUME NEW M, NEW C, Layout(M, C)
  PROVE  /\ First(0, M, C) = 1 /\ First(C, M, C) = M + 1
         /\ \A k \in 0 .. C - 1 : /\ First(k, M, C) \in Nat \ {0} /\ First(k + 1, M, C) \in Nat
                                  /\ Width(k, M, C) \in Nat \ {0}
                                  /\ First(k + 1, M, C) = First(k, M, C) + Width(k, M, C)
  <1> DEFINE a == Ave(M, C)
             e == Extra(M, C)
  <1>1. a \in Nat \ {0} /\ e \in Nat /\ e < C /\ C \in Nat \ {0} /\ M = a * C + e
    BY Parts DEF Layout
  <1>2. First(0, M, C) = 1
    BY <1>1 DEF First
  <1>3. First(C, M, C) = M + 1
    <2>1. First(C, M, C) = e * (a + 1) + 1 + (C - e) * a
      BY <1>1 DEF First
    <2>2. e * (a + 1) = e * a + e /\ C * a = (C - e) * a + e * a
      BY <1>1, MulFacts
    <2> QED
      BY <1>1, <2>1, <2>2
  <1>4. ASSUME NEW k \in 0 .. C - 1
        PROVE  /\ First(k, M, C) \in Nat \ {0} /\ First(k + 1, M, C) \in Nat
               /\ Width(k, M, C) \in Nat \ {0}
               /\ First(k + 1, M, C) = First(k, M, C) + Width(k, M, C)
    <2>1. CASE k < e
      <3>1. First(k, M, C) = k * (a + 1) + 1 /\ First(k + 1, M, C) = (k + 1) * (a + 1) + 1 /\ Width(k, M, C) = a + 1
        BY <1>1, <2>1 DEF First, Width
      <3>2. (k + 1) * (a + 1) = k * (a + 1) + (a + 1) /\ k * (a + 1) \in Nat
        BY <1>1, MulFacts
      <3> QED
        BY <1>1, <3>1, <3>2
    <2>2. CASE k >= e
      <3>1. First(k, M, C) = e * (a + 1) + 1 + (k - e) * a
        <4>1. k = e => (k - e) * a = 0
          BY <1>1
        <4>2. k = e => First(k, M, C) = e * (a + 1) + 1
          BY <1>1 DEF First
        <4>3. k # e => First(k, M, C) = e * (a + 1) + 1 + (k - e) * a
          <5>1. k # e => ~(k <= Extra(M, C))
            BY <1>1, <2>2
          <5> QED
            BY ONLY <5>1 DEF First
        <4>4. e * (a + 1) \in Nat
          BY <1>1, MulFacts
        <4> QED
          BY <4>1, <4>2, <4>3, <4>4
      <3>2. First(k + 1, M, C) = e * (a + 1) + 1 + (k + 1 - e) * a /\ Width(k, M, C) = a
        BY <1>1, <2>2 DEF First, Width
      <3>3. (k + 1 - e) * a = (k - e) * a + a /\ (k - e) * a \in Nat /\ e * (a + 1) \in Nat
        BY <1>1, <2>2, MulFacts
      <3> QED
        BY <1>1, <3>1, <3>2, <3>3
    <2> QED
      BY <1>1, <2>1, <2>2
  <1> QED
    BY <1>2, <1>3, <1>4

LEMMA KthIsFirst ==
  ASSUME NEW M, NEW C, Layout(M, C), NEW k \in 0 .. C - 1
  PROVE  /\ GetKthCqid(k, M, C) = First(k, M, C)
         /\ GetCqNrNsqs(First(k, M, C), M, C) = Width(k, M, C)
         /\ CqidToIndex(First(k, M, C), M, C) = k
  <1> DEFINE a == Ave(M, C)
             e == Extra(M, C)
             min == e * (a + 1) + 1
  <1>1. /\ a \in Nat \ {0} /\ e \in Nat /\ e < C /\ C \in Nat \ {0} /\ k \in Nat /\ k < C
        /\ MinNoExtraSqCqid(M, C) = min
    BY Parts DEF Layout
  <1>2. k % C = k
    BY <1>1
  <1>3. GetKthCqid(k, M, C) = IF k < e THEN k * (a + 1) + 1 ELSE e + k * a + 1
    BY <1>2 DEF GetKthCqid, Ave, Extra
  <1>4. /\ GetCqNrNsqs(First(k, M, C), M, C) = IF First(k, M, C) < min THEN a + 1 ELSE a
        /\ CqidToIndex(First(k, M, C), M, C) =
             IF First(k, M, C) <= min THEN First(k, M, C) \div (a + 1)
             ELSE ((First(k, M, C) - min) \div a) + (min \div (a + 1))
    BY <1>1 DEF GetCqNrNsqs, CqidToIndex, Ave, Extra
  <1>5. min \in Nat /\ e * (a + 1) \in Nat /\ min \div (a + 1) = e
    <2>1. e * (a + 1) \in Nat
      BY <1>1, MulFacts
    <2>2. (e * (a + 1) + 1) \div (a + 1) = e
      BY <1>1, DivUnique
    <2> QED
      BY <2>1, <2>2
  <1>6. CASE k < e
    <2>1. First(k, M, C) = k * (a + 1) + 1
      BY <1>1, <1>6 DEF First
    <2>2. k * (a + 1) \in Nat /\ (k + 1) * (a + 1) = k * (a + 1) + (a + 1) /\ (k + 1) * (a + 1) <= e * (a + 1)
      BY <1>1, <1>6, MulFacts
    <2>3. First(k, M, C) < min
      BY <1>1, <2>1, <2>2
    <2>4. (k * (a + 1) + 1) \div (a + 1) = k
      BY <1>1, DivUnique
    <2> HIDE DEF min
    <2> QED
      BY <1>1, <1>3, <1>4, <1>5, <1>6, <2>1, <2>2, <2>3, <2>4 DEF Width
  <1>7. CASE k >= e
    <2> DEFINE d == k - e
    <2>1. d \in Nat /\ k = e + d
      BY <1>1, <1>7
    <2>2. First(k, M, C) = min + d * a
      BY <1>1, <1>7 DEF First
    <2>3. k * a = e * a + d * a /\ e * (a + 1) = e * a + e /\ d * a \in Nat /\ e * a \in Nat
      BY <1>1, <2>1, MulFacts
    <2>4. (d * a) \div a = d
      <3>1. 0 \in Nat /\ 0 < a
        BY <1>1
      <3> HIDE DEF d, min
      <3> QED
        BY <1>1, <2>1, <3>1, DivUnique
    <2>5. d # 0 => d * a > 0
      BY <1>1, <2>1
    <2>6. GetKthCqid(k, M, C) = First(k, M, C)
      BY <1>1, <1>3, <1>7, <2>2, <2>3
    <2>7. ~(First(k, M, C) < min) /\ Width(k, M, C) = a
      BY <1>1, <1>5, <1>7, <2>2, <2>3 DEF Width
    <2>8. CqidToIndex(First(k, M, C), M, C) = k
      <3>1. CASE d = 0
        <4>1. First(k, M, C) = min
          BY <1>1, <1>5, <2>2, <3>1
        <4> QED
          BY <1>1, <1>4, <1>5, <2>1, <3>1, <4>1
      <3>2. CASE d # 0
        <4> HIDE DEF min, d
        <4>1. ~(First(k, M, C) <= min) /\ First(k, M, C) - min = d * a
          BY <1>1, <1>5, <2>2, <2>3, <2>5, <3>2
        <4>2. (First(k, M, C) - min) \div a = d
          BY <2>4, <4>1
        <4> QED
          BY <1>1, <1>4, <1>5, <2>1, <4>1, <4>2
      <3> QED
        BY <3>1, <3>2
    <2> QED
      BY <1>4, <2>6, <2>7, <2>8
  <1> QED
    BY <1>1, <1>6, <1>7

(* Induction on numbers, without an operator as a parameter. *)
LEMMA Least ==
  ASSUME NEW T, T \subseteq Nat, T # {}
  PROVE  \E x \in T : \A y \in T : x <= y
  <1> DEFINE R == {ss \in Nat \X Nat : ss[1] < ss[2]}
  <1>1. IsWellFoundedOn(R, Nat)
    BY NatLessThanWellFounded DEF OpToRel
  <1> HIDE DEF R
  <1>2. \E x \in T : \A y \in T : ~(<<y, x>> \in R)
    BY <1>1, WFMin
  <1>3. \A x, y \in Nat : <<y, x>> \in R <=> y < x
    BY DEF R
  <1>4. PICK x \in T : \A y \in T : ~(<<y, x>> \in R)
    BY <1>2
  <1>5. \A y \in T : x \in Nat /\ y \in Nat /\ ~(y < x)
    BY <1>3, <1>4
  <1> QED
    BY <1>4, <1>5

LEMMA FirstGrows ==
  ASSUME NEW M, NEW C, Layout(M, C), NEW j \in 0 .. C, NEW k \in 0 .. C, j < k
  PROVE  /\ First(j, M, C) \in Nat /\ First(k, M, C) \in Nat
         /\ First(j, M, C) < First(k, M, C) /\ First(j + 1, M, C) <= First(k, M, C)
  <1> DEFINE a == Ave(M, C)
             e == Extra(M, C)
             F(i) == First(i, M, C)
  <1>1. /\ C \in Nat \ {0} /\ \A i \in 0 .. C - 1 : /\ F(i) \in Nat \ {0} /\ F(i + 1) \in Nat
                               /\ Width(i, M, C) \in Nat \ {0} /\ F(i + 1) = F(i) + Width(i, M, C)
    BY FirstFacts DEF Layout
  <1> DEFINE Bad == {i \in 0 .. C : j + 1 <= i /\ ~(F(j + 1) <= F(i))}
  <1>2. Bad = {}
    <2>1. SUFFICES ASSUME Bad # {} PROVE FALSE
      OBVIOUS
    <2>2. Bad \subseteq Nat
      BY <1>1
    <2>3. PICK i \in Bad : \A l \in Bad : i <= l
      BY <2>1, <2>2, Least
    <2>4. i # j + 1
      BY <1>1, <2>3
    <2>5. i - 1 \notin Bad
      BY <1>1, <2>2, <2>3
    <2>6. i - 1 \in 0 .. C - 1 /\ j + 1 <= i - 1 /\ j + 1 \in 0 .. C
      BY <1>1, <2>3, <2>4
    <2>7. F(j + 1) <= F(i - 1)
      BY <1>1, <2>5, <2>6
    <2>8. F(i) = F(i - 1) + Width(i - 1, M, C) /\ F(i - 1) \in Nat /\ Width(i - 1, M, C) \in Nat
      BY <1>1, <2>6
    <2>9. j \in 0 .. C - 1 /\ F(j + 1) \in Nat
      BY <1>1
    <2> HIDE DEF F
    <2> QED
      BY <2>3, <2>7, <2>8, <2>9
  <1>3. k \notin Bad
    BY <1>2
  <1>4. F(j + 1) <= F(k)
    BY <1>3
  <1>5. j \in 0 .. C - 1 /\ k - 1 \in 0 .. C - 1
    BY <1>1
  <1>6. F(k - 1 + 1) \in Nat /\ k - 1 + 1 = k
    BY <1>1, <1>5
  <1> QED
    BY <1>1, <1>4, <1>5, <1>6

(* Each NQ is attached to one NCQ. *)
LEMMA BlockOf ==
  ASSUME NEW M, NEW C, Layout(M, C), NEW n \in 1 .. M
  PROVE  \E k \in 0 .. C - 1 : /\ First(k, M, C) <= n /\ n < First(k + 1, M, C)
                               /\ GetCqid(n, M, C) = First(k, M, C)
  <1> DEFINE a == Ave(M, C)
             e == Extra(M, C)
             min == e * (a + 1) + 1
  <1>1. /\ a \in Nat \ {0} /\ e \in Nat /\ e < C /\ C \in Nat \ {0} /\ M = a * C + e /\ M \in Nat
        /\ MinNoExtraSqCqid(M, C) = min
    BY Parts DEF Layout
  <1>2. min \in Nat
    BY <1>1, MulFacts
  <1>3. CASE n < min
    <2> DEFINE k == (n - 1) \div (a + 1)
    <2>1. k \in Nat /\ (n - 1) % (a + 1) \in 0 .. a /\ n - 1 = k * (a + 1) + ((n - 1) % (a + 1))
      <3>1. n - 1 \in Nat /\ a + 1 \in Nat \ {0}
        BY <1>1
      <3>2. /\ (n - 1) \div (a + 1) \in Nat /\ (n - 1) % (a + 1) \in Nat /\ (n - 1) % (a + 1) < a + 1
            /\ n - 1 = ((n - 1) \div (a + 1)) * (a + 1) + ((n - 1) % (a + 1))
        BY <3>1, DivMod
      <3> QED
        BY <1>1, <3>2
    <2>2. GetCqid(n, M, C) = k * (a + 1) + 1
      BY <1>1, <1>3 DEF GetCqid, Ave, Extra
    <2> HIDE DEF k
    <2>3. k * (a + 1) \in Nat /\ (k + 1) * (a + 1) = k * (a + 1) + (a + 1)
      BY <1>1, <2>1, MulFacts
    <2>4. k < e
      <3>1. e <= k => e * (a + 1) <= k * (a + 1)
        BY <1>1, <2>1, MulFacts
      <3> QED
        BY <1>1, <1>2, <1>3, <2>1, <2>3, <3>1
    <2>5. First(k, M, C) = k * (a + 1) + 1 /\ First(k + 1, M, C) = (k + 1) * (a + 1) + 1
      BY <1>1, <2>1, <2>4 DEF First
    <2> QED
      BY <1>1, <2>1, <2>2, <2>3, <2>4, <2>5
  <1>4. CASE n >= min
    <2> DEFINE d == (n - min) \div a
               k == e + d
    <2>1. n - min \in Nat
      BY <1>2, <1>4
    <2>2. d \in Nat /\ (n - min) % a \in 0 .. a - 1 /\ n - min = d * a + ((n - min) % a)
      <3> HIDE DEF min
      <3>1. /\ (n - min) \div a \in Nat /\ (n - min) % a \in Nat /\ (n - min) % a < a
            /\ n - min = ((n - min) \div a) * a + ((n - min) % a)
        BY <1>1, <2>1, DivMod
      <3> QED
        BY <1>1, <3>1
    <2>3. GetCqid(n, M, C) = min + d * a
      BY <1>1, <1>4 DEF GetCqid, Ave, Extra
    <2> HIDE DEF d
    <2>4. d * a \in Nat /\ (d + 1) * a = d * a + a /\ e * (a + 1) = e * a + e /\ e * a \in Nat
      BY <1>1, <2>2, MulFacts
    <2>5. k < C
      <3>1. C <= k => C * a <= (e + d) * a
        BY <1>1, <2>2, MulFacts
      <3>2. (e + d) * a = e * a + d * a /\ C * a = a * C
        BY <1>1, <2>2, MulFacts
      <3>3. n <= a * C + e /\ n = e * a + e + 1 + d * a + ((n - min) % a)
        BY <1>1, <2>2, <2>4
      <3> HIDE DEF k
      <3> QED
        BY <1>1, <2>2, <2>4, <3>1, <3>2, <3>3 DEF k
    <2>6. First(k, M, C) = min + d * a
      <3>1. d = 0 => First(k, M, C) = min /\ d * a = 0
        BY <1>1 DEF First
      <3>2. d # 0 => First(k, M, C) = min + d * a
        BY <1>1, <2>2 DEF First
      <3> QED
        BY <1>2, <2>2, <2>4, <3>1, <3>2
    <2>7. First(k + 1, M, C) = First(k, M, C) + a
      <3>1. k \in 0 .. C - 1 /\ Width(k, M, C) = a
        BY <1>1, <2>2, <2>5 DEF Width
      <3> QED
        BY <3>1, FirstFacts
    <2> HIDE DEF k, min
    <2> QED
      BY <1>1, <1>2, <2>1, <2>2, <2>3, <2>4, <2>5, <2>6, <2>7 DEF k
  <1> QED
    BY <1>2, <1>3, <1>4

LEMMA InBlock ==
  ASSUME NEW M, NEW C, Layout(M, C), NEW n \in 1 .. M, NEW k \in 0 .. C - 1
  PROVE  GetCqid(n, M, C) = First(k, M, C) <=> First(k, M, C) <= n /\ n < First(k + 1, M, C)
  <1> DEFINE F(i) == First(i, M, C)
  <1>1. C \in Nat \ {0} /\ M \in Nat
    BY DEF Layout
  <1>2. PICK j \in 0 .. C - 1 : F(j) <= n /\ n < F(j + 1) /\ GetCqid(n, M, C) = F(j)
    BY BlockOf
  <1>3. /\ F(j) \in Nat /\ F(j + 1) \in Nat /\ F(k) \in Nat /\ F(k + 1) \in Nat
        /\ j \in 0 .. C /\ k \in 0 .. C
    BY <1>1, FirstFacts
  <1>4. j < k => F(j) < F(k) /\ F(j + 1) <= F(k)
    BY <1>3, FirstGrows
  <1>5. k < j => F(k) < F(j) /\ F(k + 1) <= F(j)
    BY <1>3, FirstGrows
  <1>6. j < k \/ k < j \/ j = k
    BY <1>1
  <1> HIDE DEF F
  <1> QED
    BY <1>1, <1>2, <1>3, <1>4, <1>5, <1>6 DEF F

(* The blocks of consecutive NCQs make an interval. *)
LEMMA Blocks ==
  ASSUME NEW M, NEW C, Layout(M, C), NEW f \in 0 .. C, NEW t \in 0 .. C, f <= t, NEW n \in Nat
  PROVE  First(f, M, C) <= n /\ n < First(t, M, C) <=>
           \E k \in f .. t - 1 : First(k, M, C) <= n /\ n < First(k + 1, M, C)
  <1> DEFINE F(i) == First(i, M, C)
  <1>1. C \in Nat \ {0} /\ M \in Nat /\ F(0) = 1 /\ F(C) = M + 1
    BY FirstFacts DEF Layout
  <1>2. \A i \in 0 .. C : F(i) \in Nat
    BY <1>1, FirstFacts
  <1>3. \A i, j \in 0 .. C : i <= j => F(i) <= F(j)
    <2> SUFFICES ASSUME NEW i \in 0 .. C, NEW j \in 0 .. C, i <= j PROVE F(i) <= F(j)
      OBVIOUS
    <2>1. i < j => F(i) < F(j)
      BY FirstGrows
    <2>2. i = j => F(i) = F(j)
      OBVIOUS
    <2> HIDE DEF F
    <2> QED
      BY <1>1, <1>2, <2>1, <2>2
  <1>4. ASSUME NEW k \in f .. t - 1, F(k) <= n, n < F(k + 1) PROVE F(f) <= n /\ n < F(t)
    <2>1. k \in 0 .. C /\ k + 1 \in 0 .. C /\ f <= k /\ k + 1 <= t
      BY <1>1
    <2>2. F(f) <= F(k) /\ F(k + 1) <= F(t)
      BY <1>3, <2>1
    <2> HIDE DEF F
    <2> QED
      BY <1>2, <1>4, <2>1, <2>2
  <1>5. ASSUME F(f) <= n, n < F(t) PROVE \E k \in f .. t - 1 : F(k) <= n /\ n < F(k + 1)
    <2>1. n \in 1 .. M
      <3>1. F(0) <= F(f) /\ F(t) <= F(C)
        BY <1>1, <1>3
      <3> HIDE DEF F
      <3> QED
        BY <1>1, <1>2, <1>5, <3>1
    <2>2. PICK k \in 0 .. C - 1 : F(k) <= n /\ n < F(k + 1)
      BY <2>1, BlockOf
    <2>3. k \in 0 .. C /\ k + 1 \in 0 .. C
      BY <1>1
    <2>4. t <= k => F(t) <= F(k)
      BY <1>3, <2>3
    <2>5. k + 1 <= f => F(k + 1) <= F(f)
      BY <1>3, <2>3
    <2> HIDE DEF F
    <2>6. ~(t <= k) /\ ~(k + 1 <= f)
      BY <1>2, <1>5, <2>2, <2>3, <2>4, <2>5
    <2> QED
      BY <1>1, <2>2, <2>3, <2>6
  <1> QED
    BY <1>4, <1>5

(* Induction on finite sets, in the same way. *)
LEMMA Smallest ==
  ASSUME NEW S, IsFiniteSet(S), NEW T \in SUBSET (SUBSET S), T # {}
  PROVE  \E x \in T : \A y \in T : ~(y \subseteq x /\ y # x)
  <1>1. FiniteSubsetsOf(S) = SUBSET S
    BY FS_FiniteSubsetsOfFinite
  <1>2. IsWellFoundedOn(StrictSubsetOrdering(S), SUBSET S)
    BY <1>1, FS_StrictSubsetOrderingWellFounded
  <1>3. PICK x \in T : \A y \in T : ~(<<y, x>> \in StrictSubsetOrdering(S))
    <2>1. T \subseteq SUBSET S
      OBVIOUS
    <2> QED
      BY <1>2, <2>1, WFMin
  <1>4. ASSUME NEW y \in T, y \subseteq x, y # x PROVE FALSE
    <2>1. <<y, x>> \in StrictSubsetOrdering(S)
      BY <1>4 DEF StrictSubsetOrdering
    <2> QED
      BY <1>3, <2>1
  <1> QED
    BY <1>4

LEMMA IntervalSize ==
  ASSUME NEW a \in Nat, NEW b \in Nat, a <= b
  PROVE  IsFiniteSet(a .. b - 1) /\ Cardinality(a .. b - 1) = b - a
  <1>1. a \in Int /\ b - 1 \in Int
    OBVIOUS
  <1>2. IsFiniteSet(a .. b - 1) /\ Cardinality(a .. b - 1) = IF a > b - 1 THEN 0 ELSE b - 1 - a + 1
    BY Zenon, <1>1, FS_Interval
  <1> QED
    BY <1>2

GroupSize(p, C) == IF p = 1 THEN C - C \div 2 ELSE C \div 2

(* The NQs of a group's NCQs, some of them. *)
Attached(s, f, M, C) == {n \in 1 .. M : \E i \in s : First(f + i, M, C) <= n /\ n < First(f + i + 1, M, C)}

LEMMA AttachedFinite ==
  ASSUME NEW M, NEW C, Layout(M, C), NEW f, NEW s
  PROVE  IsFiniteSet(Attached(s, f, M, C)) /\ Cardinality(Attached(s, f, M, C)) \in Nat
  <1>1. M \in Nat
    BY DEF Layout
  <1>2. IsFiniteSet(1 .. M)
    BY <1>1, FS_Interval
  <1>3. Attached(s, f, M, C) \in SUBSET (1 .. M)
    BY DEF Attached
  <1> QED
    BY <1>2, <1>3, FS_Subset, FS_CardinalityType

LEMMA AttachedNone ==
  ASSUME NEW M, NEW C, NEW f
  PROVE  Cardinality(Attached({}, f, M, C)) = 0
  <1>1. Attached({}, f, M, C) = {}
    BY DEF Attached
  <1> QED
    BY <1>1, FS_EmptySet

LEMMA AttachedStep ==
  ASSUME NEW M, NEW C, Layout(M, C), NEW f \in Nat, NEW s \in SUBSET {i \in Nat : f + i \in 0 .. C - 1}, NEW x \in s
  PROVE  Cardinality(Attached(s, f, M, C)) =
           GetCqNrNsqs(GetKthCqid(f + x, M, C), M, C) + Cardinality(Attached(s \ {x}, f, M, C))
  <1> DEFINE F(i) == First(i, M, C)
             A(u) == Attached(u, f, M, C)
  <1>1. /\ C \in Nat \ {0} /\ M \in Nat
        /\ \A i \in 0 .. C - 1 : F(i) \in Nat \ {0} /\ F(i + 1) \in Nat /\ Width(i, M, C) \in Nat \ {0} /\ F(i + 1) = F(i) + Width(i, M, C)
    BY FirstFacts DEF Layout
  <1> DEFINE B == F(f + x) .. F(f + x + 1) - 1
  <1>2. \A i \in s : i \in Nat /\ f + i \in 0 .. C - 1
    OBVIOUS
  <1>3. x \in Nat /\ f + x \in 0 .. C - 1
    BY <1>2
  <1>4. F(f + x) \in Nat \ {0} /\ F(f + x + 1) \in Nat /\ F(f + x + 1) = F(f + x) + Width(f + x, M, C)
        /\ Width(f + x, M, C) \in Nat \ {0}
    BY <1>1, <1>3
  <1>5. IsFiniteSet(B) /\ Cardinality(B) = Width(f + x, M, C)
    <2>1. F(f + x) <= F(f + x + 1) /\ F(f + x + 1) - F(f + x) = Width(f + x, M, C)
      <3> HIDE DEF F
      <3> QED
        BY <1>4
    <2> HIDE DEF F
    <2> QED
      BY <1>4, <2>1, IntervalSize
  <1>6. GetCqNrNsqs(GetKthCqid(f + x, M, C), M, C) = Width(f + x, M, C)
    BY <1>3, KthIsFirst
  <1>7. \A n \in B : n \in 1 .. M /\ F(f + x) <= n /\ n < F(f + x + 1)
    <2>1. F(f + x + 1) <= F(C)
      <3>1. f + x + 1 \in 0 .. C /\ C \in 0 .. C
        BY <1>1, <1>3
      <3>2. f + x + 1 < C => F(f + x + 1) < F(C)
        BY <3>1, FirstGrows
      <3>3. F(C) \in Nat
        BY <1>1, FirstFacts
      <3> HIDE DEF F
      <3> QED
        BY <1>4, <3>1, <3>2, <3>3
    <2>2. F(C) = M + 1
      BY FirstFacts
    <2> HIDE DEF F
    <2> QED
      BY <1>1, <1>4, <2>1, <2>2
  <1>8. A(s) = A(s \ {x}) \cup B
    <2>1. \A n \in A(s) : n \in A(s \ {x}) \/ n \in B
      BY <1>3, <1>4 DEF Attached
    <2>2. \A n \in A(s \ {x}) : n \in A(s)
      BY DEF Attached
    <2>3. \A n \in B : n \in A(s)
      BY <1>7 DEF Attached
    <2> HIDE DEF A, B
    <2> QED
      BY <2>1, <2>2, <2>3
  <1>9. A(s \ {x}) \cap B = {}
    <2> SUFFICES ASSUME NEW n \in A(s \ {x}), n \in B PROVE FALSE
      OBVIOUS
    <2>1. n \in 1 .. M
      BY DEF Attached
    <2>2. PICK i \in s \ {x} : F(f + i) <= n /\ n < F(f + i + 1)
      BY DEF Attached
    <2>3. GetCqid(n, M, C) = F(f + x)
      BY <1>3, <1>7, <2>1, InBlock
    <2>4. f + i \in 0 .. C - 1 /\ i \in Nat /\ i # x
      BY <1>2
    <2>5. GetCqid(n, M, C) = F(f + i)
      BY <2>1, <2>2, <2>4, InBlock
    <2>6. f + i \in 0 .. C /\ f + x \in 0 .. C
      BY <1>1, <1>3, <2>4
    <2>7. f + i < f + x => F(f + i) < F(f + x)
      BY <2>6, FirstGrows
    <2>8. f + x < f + i => F(f + x) < F(f + i)
      BY <2>6, FirstGrows
    <2>9. F(f + i) \in Nat /\ F(f + x) \in Nat
      BY <1>1, <1>3, <2>4
    <2> HIDE DEF F
    <2> QED
      BY <1>3, <2>3, <2>4, <2>5, <2>7, <2>8, <2>9
  <1>10. Cardinality(A(s \ {x}) \cup B) = Cardinality(A(s \ {x})) + Cardinality(B) - Cardinality({})
    <2>0. IsFiniteSet(A(s \ {x}))
      BY AttachedFinite
    <2> HIDE DEF A, B
    <2>1. Cardinality(A(s \ {x}) \cup B) = Cardinality(A(s \ {x})) + Cardinality(B) - Cardinality(A(s \ {x}) \cap B)
      BY Zenon, <2>0, <1>5, FS_Union
    <2> QED
      BY <1>9, <2>1
  <1>11. Cardinality(A(s \ {x})) \in Nat
    BY AttachedFinite
  <1>12. Cardinality(A(s)) = GetCqNrNsqs(GetKthCqid(f + x, M, C), M, C) + Cardinality(A(s \ {x}))
    <2> HIDE DEF A, B
    <2> QED
      BY <1>4, <1>5, <1>6, <1>8, <1>10, <1>11, FS_EmptySet
  <1> QED
    BY <1>12

LEMMA AttachedAll ==
  ASSUME NEW M, NEW C, Layout(M, C), NEW f \in Nat, NEW r \in Nat, f + r <= C
  PROVE  Cardinality(Attached(0 .. r - 1, f, M, C)) = First(f + r, M, C) - First(f, M, C)
  <1> DEFINE F(i) == First(i, M, C)
             A(s) == Attached(s, f, M, C)
  <1>1. /\ C \in Nat \ {0} /\ M \in Nat
        /\ \A i \in 0 .. C - 1 : F(i) \in Nat \ {0} /\ F(i + 1) \in Nat /\ Width(i, M, C) \in Nat \ {0} /\ F(i + 1) = F(i) + Width(i, M, C)
    BY FirstFacts DEF Layout
  <1>2. f \in 0 .. C /\ f + r \in 0 .. C /\ f <= f + r
    BY <1>1
  <1>3. F(f) \in Nat /\ F(f + r) \in Nat /\ F(f) <= F(f + r) /\ F(f) >= 1 /\ F(f + r) <= M + 1
    <2>1. F(0) = 1 /\ F(C) = M + 1
      BY FirstFacts
    <2>2. f < f + r => F(f) < F(f + r)
      BY <1>2, FirstGrows
    <2>3. 0 < f => F(0) < F(f)
      BY <1>1, <1>2, FirstGrows
    <2>4. f + r < C => F(f + r) < F(C)
      BY <1>1, <1>2, FirstGrows
    <2>5. F(f) \in Nat /\ F(f + r) \in Nat
      <3>1. \A i \in 0 .. C : F(i) \in Nat
        BY <1>1, <2>1
      <3> QED
        BY <1>2, <3>1
    <2> HIDE DEF F
    <2> QED
      BY <1>1, <1>2, <2>1, <2>2, <2>3, <2>4, <2>5
  <1>4. A(0 .. r - 1) = F(f) .. F(f + r) - 1
    <2>1. ASSUME NEW n \in A(0 .. r - 1) PROVE n \in F(f) .. F(f + r) - 1
      <3>1. PICK i \in 0 .. r - 1 : F(f + i) <= n /\ n < F(f + i + 1)
        BY <2>1 DEF Attached
      <3>2. f + i \in f .. f + r - 1 /\ n \in Nat
        BY <2>1 DEF Attached
      <3>3. F(f) <= n /\ n < F(f + r)
        BY <1>2, <3>1, <3>2, Blocks
      <3> HIDE DEF F
      <3> QED
        BY <1>3, <3>2, <3>3
    <2>2. ASSUME NEW n \in F(f) .. F(f + r) - 1 PROVE n \in A(0 .. r - 1)
      <3>1. n \in Nat /\ F(f) <= n /\ n < F(f + r) /\ n \in 1 .. M
        <4> HIDE DEF F
        <4> QED
          BY <1>1, <1>3
      <3>2. PICK k \in f .. f + r - 1 : F(k) <= n /\ n < F(k + 1)
        BY <1>2, <3>1, Blocks
      <3>3. k - f \in 0 .. r - 1 /\ f + (k - f) = k
        OBVIOUS
      <3> QED
        BY <3>1, <3>2, <3>3 DEF Attached
    <2> HIDE DEF A, F
    <2> QED
      BY <2>1, <2>2
  <1>5. Cardinality(F(f) .. F(f + r) - 1) = F(f + r) - F(f)
    <2> HIDE DEF F
    <2> QED
      BY <1>3, IntervalSize
  <1>6. Cardinality(A(0 .. r - 1)) = F(f + r) - F(f)
    <2> HIDE DEF A, F
    <2> QED
      BY <1>4, <1>5
  <1> QED
    BY <1>6

LEMMA Prio == Prios = {0, 1} /\ TPrio = 0 /\ LPrio = 1 /\ PrioLevel = 2
  BY DEF Prios, PrioLevel, TPrio, LPrio

LEMMA Split ==
  ASSUME NEW C \in Nat \ {0, 1}
  PROVE  /\ \A p \in Prios : /\ NcqStartIdx(p, C) \in Nat /\ GroupSize(p, C) \in Nat \ {0}
                             /\ NcqStartIdx(p, C) + GroupSize(p, C) <= C
         /\ NcqStartIdx(0, C) = 0 /\ NcqStartIdx(1, C) = GroupSize(0, C)
         /\ NcqStartIdx(1, C) + GroupSize(1, C) = C
  <1>1. C \div 2 \in Nat \ {0} /\ C \div 2 < C
    OBVIOUS
  <1>2. NcqStartIdx(0, C) = 0 /\ NcqStartIdx(1, C) = C \div 2
    BY <1>1, Prio DEF NcqStartIdx
  <1>3. GroupSize(0, C) = C \div 2 /\ GroupSize(1, C) = C - C \div 2
    BY DEF GroupSize
  <1> QED
    BY <1>1, <1>2, <1>3, Prio

LEMMA GroupFacts ==
  ASSUME NEW M, NEW C, Layout(M, C), C # 1, NEW p \in Prios
  PROVE  LET f == NcqStartIdx(p, C)
             r == GroupSize(p, C)
             g == GroupOf(p, M, C)
         IN /\ g.ncq_start = First(f, M, C) /\ g.nr_ncqs = r
            /\ g.ncqs = {First(f + i, M, C) : i \in 0 .. r - 1}
            /\ g.nr_attach_nsqs = First(f + r, M, C) - First(f, M, C)
  <1> DEFINE f == NcqStartIdx(p, C)
             r == GroupSize(p, C)
             g == GroupOf(p, M, C)
             S == 0 .. r - 1
             Put(s, h) == LET x == CHOOSE x \in s : TRUE
                          IN GetCqNrNsqs(GetKthCqid(f + x, M, C), M, C) + h[s \ {x}]
             Iter(h) == [s \in SUBSET S |-> IF s = {} THEN 0 ELSE Put(s, h)]
             iter == CHOOSE h : h = Iter(h)
             count == [s \in SUBSET S |-> Cardinality(Attached(s, f, M, C))]
  <1>1. C \in Nat \ {0, 1} /\ f \in Nat /\ r \in Nat \ {0} /\ f + r <= C
    BY Split DEF Layout
  <1>2. r = IF p + 1 = PrioLevel THEN C - f ELSE C \div PrioLevel
    BY <1>1, Prio, Split DEF GroupSize
  <1>3. /\ g.ncq_start = GetKthCqid(f, M, C) /\ g.nr_ncqs = r
        /\ g.ncqs = {GetKthCqid(f + i, M, C) : i \in S}
    BY <1>2 DEF GroupOf
  <1>4. g.nr_attach_nsqs = iter[S]
    BY <1>2 DEF GroupOf, MapThenSumSet, MapThenFoldSet
  <1>5. ASSUME NEW s \in SUBSET S, s # {}
        PROVE  Put(s, count) = count[s]
    <2> DEFINE x == CHOOSE x \in s : TRUE
    <2>1. x \in s /\ s \ {x} \in SUBSET S
      BY <1>5
    <2>2. s \in SUBSET {i \in Nat : f + i \in 0 .. C - 1}
      BY <1>1
    <2>3. ASSUME NEW y \in s
          PROVE  Cardinality(Attached(s, f, M, C)) =
                   GetCqNrNsqs(GetKthCqid(f + y, M, C), M, C) + Cardinality(Attached(s \ {y}, f, M, C))
      <3>1. f \in Nat
        BY <1>1
      <3> HIDE DEF f
      <3> QED
        BY <3>1, <2>2, AttachedStep
    <2> QED
      BY <2>1, <2>3
  <1>6. count = Iter(count)
    <2>1. count[{}] = 0
      <3>1. {} \in SUBSET S
        OBVIOUS
      <3>2. Cardinality(Attached({}, f, M, C)) = 0
        BY AttachedNone
      <3> QED
        BY <3>1, <3>2
    <2>2. \A s \in SUBSET S : count[s] = Iter(count)[s]
      <3> HIDE DEF count, Put
      <3> QED
        BY <1>5, <2>1
    <2>3. count = [s \in SUBSET S |-> count[s]] /\ Iter(count) = [s \in SUBSET S |-> Iter(count)[s]]
      OBVIOUS
    <2> HIDE DEF count, Iter
    <2> QED
      BY <2>2, <2>3
  <1>7. iter = Iter(iter)
    BY <1>6
  <1>8. iter[S] = count[S]
    <2> DEFINE T == {s \in SUBSET S : iter[s] # count[s]}
    <2>1. SUFFICES ASSUME T # {} PROVE FALSE
      <3>1. S \in SUBSET S
        OBVIOUS
      <3> QED
        BY <3>1
    <2>2. IsFiniteSet(S)
      BY <1>1, FS_Interval
    <2>3. PICK s \in T : \A y \in T : ~(y \subseteq s /\ y # s)
      <3>1. T \in SUBSET (SUBSET S)
        OBVIOUS
      <3> HIDE DEF T, S
      <3> QED
        BY <2>1, <2>2, <3>1, Smallest
    <2>4. s # {}
      <3>1. iter[{}] = 0
        <4>1. Iter(iter)[{}] = 0
          OBVIOUS
        <4> QED
          BY <1>7, <4>1
      <3>2. count[{}] = 0
        <4>1. {} \in SUBSET S
          OBVIOUS
        <4> QED
          BY <4>1, AttachedNone
      <3> QED
        BY <2>3, <3>1, <3>2
    <2> DEFINE x == CHOOSE x \in s : TRUE
    <2>5. x \in s /\ s \in SUBSET S /\ s \ {x} \in SUBSET S
      BY <2>3, <2>4
    <2>6. iter[s \ {x}] = count[s \ {x}]
      <3>1. s \ {x} \notin T
        BY <2>3, <2>5
      <3> QED
        BY <2>5, <3>1
    <2>7. iter[s] = Put(s, iter)
      <3>1. Iter(iter)[s] = Put(s, iter)
        BY <2>4, <2>5
      <3> QED
        BY <1>7, <3>1
    <2>8. Put(s, iter) = Put(s, count)
      BY <2>6
    <2>9. iter[s] = count[s]
      BY <1>5, <2>4, <2>5, <2>7, <2>8
    <2> QED
      BY <2>3, <2>9
  <1>9. count[S] = First(f + r, M, C) - First(f, M, C)
    BY <1>1, AttachedAll
  <1>10. \A i \in S : f + i \in 0 .. C - 1
    BY <1>1
  <1>11. /\ GetKthCqid(f, M, C) = First(f, M, C)
         /\ {GetKthCqid(f + i, M, C) : i \in S} = {First(f + i, M, C) : i \in S}
    <2>1. f \in 0 .. C - 1
      BY <1>1
    <2> QED
      BY <1>10, <2>1, KthIsFirst
  <1> HIDE DEF f, r, g, iter, count, S
  <1> QED
    BY <1>3, <1>4, <1>8, <1>9, <1>11 DEF f, r, g, S
-----------------------------------------------------------------------------
(* What the selection of NQs goes round. *)
LEMMA Wraps ==
  ASSUME NEW a \in Nat, NEW w \in Nat \ {0}, NEW x \in Nat, w <= x + 1
  PROVE  {a + (o % w) : o \in 0 .. x} = a .. a + w - 1
  <1>1. ASSUME NEW o \in 0 .. x PROVE a + (o % w) \in a .. a + w - 1
    <2>1. o % w \in Nat /\ o % w < w
      BY DivMod
    <2> QED
      BY <2>1
  <1>2. ASSUME NEW n \in a .. a + w - 1 PROVE \E o \in 0 .. x : n = a + (o % w)
    <2>1. n - a \in 0 .. x /\ n - a < w
      OBVIOUS
    <2>2. (n - a) % w = n - a
      BY <2>1
    <2>3. n = a + ((n - a) % w)
      BY <2>2
    <2> QED
      BY <2>1, <2>3
  <1> QED
    BY <1>1, <1>2

(* The NQs from a to b - 1, of those there are. *)
Between(a, b, M) == {n \in 1 .. M : a <= n /\ n < b}

LEMMA BetweenIs ==
  ASSUME NEW M, NEW C, Layout(M, C), NEW j \in 0 .. C, NEW k \in 0 .. C, j <= k
  PROVE  /\ Between(First(j, M, C), First(k, M, C), M) = First(j, M, C) .. First(k, M, C) - 1
         /\ First(j, M, C) \in Nat \ {0} /\ First(k, M, C) \in Nat /\ First(j, M, C) <= First(k, M, C)
         /\ First(k, M, C) - First(j, M, C) <= M
  <1> DEFINE F(i) == First(i, M, C)
  <1>1. C \in Nat \ {0} /\ M \in Nat \ {0} /\ F(0) = 1 /\ F(C) = M + 1
    BY FirstFacts DEF Layout
  <1>2. 0 < j => F(0) < F(j)
    BY <1>1, FirstGrows
  <1>3. k < C => F(k) < F(C)
    BY <1>1, FirstGrows
  <1>4. j < k => F(j) < F(k)
    BY FirstGrows
  <1>5. \A i \in 0 .. C : F(i) \in Nat
    BY <1>1, FirstFacts
  <1>6. j = 0 \/ 0 < j
    BY <1>1
  <1>7. k = C \/ k < C
    BY <1>1
  <1>8. j = k \/ j < k
    BY <1>1
  <1>9. F(j) \in Nat /\ F(k) \in Nat
    BY <1>5
  <1>10. F(j) >= 1 /\ F(k) <= M + 1 /\ F(j) <= F(k)
    <2> HIDE DEF F
    <2> QED
      BY <1>1, <1>2, <1>3, <1>4, <1>6, <1>7, <1>8, <1>9
  <1>11. /\ Between(F(j), F(k), M) = F(j) .. F(k) - 1
         /\ F(j) \in Nat \ {0} /\ F(k) \in Nat /\ F(j) <= F(k) /\ F(k) - F(j) <= M
    <2> HIDE DEF F
    <2> QED
      BY <1>1, <1>9, <1>10 DEF Between
  <1> QED
    BY <1>11

LEMMA NcqFacts ==
  ASSUME NEW M, NEW C, Layout(M, C), NEW k \in 0 .. C - 1, NEW x \in Nat
  PROVE  LET q == GetKthCqid(k, M, C)
             nsqs == Between(First(k, M, C), First(k + 1, M, C), M)
         IN /\ q = First(k, M, C) /\ q \in 1 .. M /\ GetCqid(q, M, C) = q /\ CqidToIndex(q, M, C) = k
            /\ nsqs = {q + i : i \in 0 .. GetCqNrNsqs(q, M, C) - 1}
            /\ nsqs = {CqidToKthSqid(q, i, M, C) : i \in 0 .. x + M}
            /\ nsqs = {n \in 1 .. M : GetCqid(n, M, C) = q}
            /\ nsqs = {n \in 1 .. M : GetTagIdx(NqidToHctx(n), M, C) = k}
  <1> DEFINE q == GetKthCqid(k, M, C)
             w == Width(k, M, C)
             nsqs == Between(First(k, M, C), First(k + 1, M, C), M)
  <1>1. q = First(k, M, C) /\ GetCqNrNsqs(q, M, C) = w /\ CqidToIndex(q, M, C) = k
    BY KthIsFirst
  <1>2. C \in Nat \ {0} /\ M \in Nat \ {0} /\ k \in 0 .. C /\ k + 1 \in 0 .. C /\ k <= k + 1
    BY DEF Layout
  <1>3. w \in Nat \ {0} /\ First(k + 1, M, C) = q + w
    BY <1>1, FirstFacts
  <1>4. /\ nsqs = First(k, M, C) .. First(k + 1, M, C) - 1
        /\ First(k, M, C) \in Nat \ {0} /\ First(k + 1, M, C) \in Nat
        /\ First(k + 1, M, C) - First(k, M, C) <= M
    BY <1>2, BetweenIs
  <1>5. nsqs = q .. q + w - 1 /\ q \in Nat \ {0} /\ w <= M
    <2> HIDE DEF nsqs, q, w
    <2> QED
      BY <1>1, <1>3, <1>4
  <1>6. q \in 1 .. M
    <2>1. q \in nsqs
      <3> HIDE DEF nsqs, q, w
      <3> QED
        BY <1>3, <1>5
    <2> HIDE DEF q
    <2> QED
      BY <2>1 DEF Between
  <1>7. nsqs = {n \in 1 .. M : GetCqid(n, M, C) = q}
    <2>1. \A n \in 1 .. M : GetCqid(n, M, C) = q <=> First(k, M, C) <= n /\ n < First(k + 1, M, C)
      BY <1>1, InBlock
    <2> HIDE DEF q
    <2> QED
      BY <2>1 DEF Between
  <1>8. GetCqid(q, M, C) = q
    <2>1. q \in nsqs
      <3> HIDE DEF nsqs, q, w
      <3> QED
        BY <1>3, <1>5
    <2> HIDE DEF nsqs, q, w
    <2> QED
      BY <1>7, <2>1
  <1>9. nsqs = {q + i : i \in 0 .. GetCqNrNsqs(q, M, C) - 1}
    <2> HIDE DEF nsqs, q, w
    <2>1. \A n \in q .. q + w - 1 : n - q \in 0 .. w - 1 /\ n = q + (n - q)
      BY <1>3, <1>5
    <2>2. \A i \in 0 .. w - 1 : q + i \in q .. q + w - 1
      BY <1>3, <1>5
    <2> QED
      BY <1>1, <1>5, <2>1, <2>2
  <1>10. nsqs = {CqidToKthSqid(q, i, M, C) : i \in 0 .. x + M}
    <2> HIDE DEF nsqs, q, w
    <2>1. \A i : CqidToKthSqid(q, i, M, C) = q + (i % w)
      BY <1>1 DEF CqidToKthSqid
    <2>2. {q + (i % w) : i \in 0 .. x + M} = q .. q + w - 1
      <3>1. x + M \in Nat /\ w <= x + M + 1 /\ q \in Nat
        BY <1>2, <1>5, <1>3
      <3> QED
        BY <1>3, <3>1, Wraps
    <2> QED
      BY <1>5, <2>1, <2>2
  <1>11. \A n \in 1 .. M : GetTagIdx(NqidToHctx(n), M, C) = k <=> GetCqid(n, M, C) = q
    <2> SUFFICES ASSUME NEW n \in 1 .. M PROVE GetTagIdx(NqidToHctx(n), M, C) = k <=> GetCqid(n, M, C) = q
      OBVIOUS
    <2>1. HctxToNqid(NqidToHctx(n)) = n
      BY <1>2 DEF HctxToNqid, NqidToHctx
    <2>2. PICK j \in 0 .. C - 1 : GetCqid(n, M, C) = First(j, M, C)
      BY BlockOf
    <2>3. GetTagIdx(NqidToHctx(n), M, C) = j
      BY <2>1, <2>2, KthIsFirst DEF GetTagIdx
    <2>4. First(j, M, C) = First(k, M, C) => j = k
      BY KthIsFirst
    <2> HIDE DEF q
    <2> QED
      BY <1>1, <2>2, <2>3, <2>4
  <1> HIDE DEF q, nsqs
  <1>12. nsqs = {n \in 1 .. M : GetTagIdx(NqidToHctx(n), M, C) = k}
    BY <1>7, <1>11
  <1> QED
    BY <1>1, <1>6, <1>7, <1>8, <1>9, <1>10, <1>12 DEF q, nsqs

-----------------------------------------------------------------------------
(* The groups. *)
Start(p, M, C) == First(NcqStartIdx(p, C), M, C)
End(p, M, C) == First(NcqStartIdx(p, C) + GroupSize(p, C), M, C)
Members(p, M, C) == Between(Start(p, M, C), End(p, M, C), M)

(* In a group are the NQs of its NCQs. *)
LEMMA InGroup ==
  ASSUME NEW M, NEW C, Layout(M, C), C # 1, NEW p \in Prios, NEW n \in 1 .. M
  PROVE  /\ GetCqid(n, M, C) \in GroupOf(p, M, C).ncqs <=> n \in Members(p, M, C)
         /\ n \in Members(p, M, C) <=>
              \E i \in 0 .. GroupSize(p, C) - 1 : LET k == NcqStartIdx(p, C) + i IN
                First(k, M, C) <= n /\ n < First(k + 1, M, C) /\ GetCqid(n, M, C) = First(k, M, C)
  <1> DEFINE f == NcqStartIdx(p, C)
             r == GroupSize(p, C)
             F(i) == First(i, M, C)
  <1>1. C \in Nat \ {0, 1} /\ M \in Nat \ {0} /\ f \in Nat /\ r \in Nat \ {0} /\ f + r <= C
    BY Split DEF Layout
  <1>2. f \in 0 .. C /\ f + r \in 0 .. C /\ f <= f + r /\ n \in Nat
    BY <1>1
  <1>3. n \in Members(p, M, C) <=> \E k \in f .. f + r - 1 : F(k) <= n /\ n < F(k + 1)
    <2>1. F(f) <= n /\ n < F(f + r) <=> \E k \in f .. f + r - 1 : F(k) <= n /\ n < F(k + 1)
      <3>1. ASSUME NEW t \in 0 .. C, f <= t
            PROVE  F(f) <= n /\ n < F(t) <=> \E k \in f .. t - 1 : F(k) <= n /\ n < F(k + 1)
        <4>1. f \in 0 .. C /\ n \in Nat
          BY <1>2
        <4> HIDE DEF f
        <4> QED
          BY <3>1, <4>1, Blocks
      <3> HIDE DEF f, r, F
      <3> QED
        BY <1>1, <1>2, <3>1
    <2>2. n \in Members(p, M, C) <=> F(f) <= n /\ n < F(f + r)
      BY DEF Members, Start, End, Between
    <2> QED
      BY <2>1, <2>2
  <1>4. \A k \in f .. f + r - 1 : k \in 0 .. C - 1 /\ k - f \in 0 .. r - 1 /\ f + (k - f) = k
    BY <1>1
  <1>5. \A i \in 0 .. r - 1 : f + i \in f .. f + r - 1
    BY <1>1
  <1>6. \A k \in f .. f + r - 1 : GetCqid(n, M, C) = F(k) <=> F(k) <= n /\ n < F(k + 1)
    BY <1>4, InBlock
  <1>7. GroupOf(p, M, C).ncqs = {F(f + i) : i \in 0 .. r - 1}
    BY GroupFacts
  <1> HIDE DEF f, r, F
  <1>8. n \in Members(p, M, C) <=> \E i \in 0 .. r - 1 : F(f + i) <= n /\ n < F(f + i + 1)
    BY <1>3, <1>4, <1>5
  <1>9. /\ GetCqid(n, M, C) \in GroupOf(p, M, C).ncqs <=> n \in Members(p, M, C)
        /\ n \in Members(p, M, C) <=> \E i \in 0 .. r - 1 : LET k == f + i IN
             F(k) <= n /\ n < F(k + 1) /\ GetCqid(n, M, C) = F(k)
    BY <1>5, <1>6, <1>7, <1>8
  <1> QED
    BY <1>9 DEF f, r, F

(* The groups split the NQs. *)
LEMMA OneGroup ==
  ASSUME NEW M, NEW C, Layout(M, C), C # 1, NEW p \in Prios, NEW n \in 1 .. M
  PROVE  (CHOOSE q \in Prios : GetCqid(n, M, C) \in GroupOf(q, M, C).ncqs) = p <=> n \in Members(p, M, C)
  <1>1. \A q \in Prios : GetCqid(n, M, C) \in GroupOf(q, M, C).ncqs <=> n \in Members(q, M, C)
    BY InGroup
  <1>2. C \in Nat \ {0, 1} /\ M \in Nat \ {0}
    BY DEF Layout
  <1>3. End(0, M, C) = Start(1, M, C) /\ Start(0, M, C) = 1 /\ End(1, M, C) = M + 1
    <2>1. /\ NcqStartIdx(0, C) = 0 /\ NcqStartIdx(1, C) = GroupSize(0, C) /\ GroupSize(0, C) \in Nat
          /\ NcqStartIdx(1, C) + GroupSize(1, C) = C
      BY <1>2, Split, Prio
    <2> QED
      BY <2>1, FirstFacts DEF Start, End
  <1>4. Start(1, M, C) \in Nat
    <2>1. NcqStartIdx(1, C) \in 0 .. C
      BY <1>2, Split, Prio
    <2>2. \A i \in 0 .. C : First(i, M, C) \in Nat
      BY <1>2, FirstFacts
    <2> QED
      BY <2>1, <2>2 DEF Start
  <1>5. n \in Members(1, M, C) <=> n \notin Members(0, M, C)
    BY <1>2, <1>3, <1>4 DEF Members, Between
  <1> QED
    BY <1>1, <1>5, Prio

(* Round-robin over the NSQs of a group. *)
LEMMA RrNsq ==
  ASSUME NEW M, NEW C, Layout(M, C), C # 1, NEW p \in Prios, NEW g,
         g.ncq_start = Start(p, M, C), g.nr_attach_nsqs = End(p, M, C) - Start(p, M, C)
  PROVE  {RrNextByNsq(g, o) : o \in 0 .. M} = Members(p, M, C)
  <1> DEFINE f == NcqStartIdx(p, C)
             r == GroupSize(p, C)
             a == Start(p, M, C)
             b == End(p, M, C)
  <1>1. C \in Nat \ {0, 1} /\ M \in Nat \ {0} /\ f \in Nat /\ r \in Nat \ {0} /\ f + r <= C
    BY Split DEF Layout
  <1>2. f \in 0 .. C /\ f + r \in 0 .. C /\ f < f + r /\ f <= f + r
    BY <1>1
  <1>3. Members(p, M, C) = a .. b - 1 /\ a \in Nat \ {0} /\ b \in Nat /\ b - a <= M
    BY <1>2, BetweenIs DEF Members, Start, End
  <1>4. a < b
    BY <1>2, FirstGrows DEF Start, End
  <1> HIDE DEF a, b
  <1> DEFINE w == b - a
  <1>5. w \in Nat \ {0} /\ w <= M + 1 /\ a + w - 1 = b - 1 /\ M \in Nat /\ a \in Nat
    BY <1>1, <1>3, <1>4
  <1>6. {a + (o % w) : o \in 0 .. M} = a .. a + w - 1
    <2> HIDE DEF w
    <2> QED
      BY <1>5, Wraps
  <1>7. \A o : RrNextByNsq(g, o) = a + (o % w)
    BY DEF RrNextByNsq, a, b
  <1> HIDE DEF w
  <1> QED
    BY <1>3, <1>5, <1>6, <1>7

(* Round-robin over its NCQs, then over the NSQs of one. *)
LEMMA RrNcq ==
  ASSUME NEW M, NEW C, Layout(M, C), C # 1, NEW p \in Prios, NEW g,
         g.ncq_start = Start(p, M, C), g.nr_ncqs = GroupSize(p, C)
  PROVE  {RrNextByNcq(g, o1, o2, M, C) : o1, o2 \in 0 .. M} = Members(p, M, C)
  <1> DEFINE f == NcqStartIdx(p, C)
             r == GroupSize(p, C)
             F(i) == First(i, M, C)
             W(i) == Width(i, M, C)
  <1>1. C \in Nat \ {0, 1} /\ M \in Nat \ {0} /\ f \in Nat /\ r \in Nat \ {0} /\ f + r <= C /\ C <= M
    BY Split DEF Layout
  <1>2. f \in 0 .. C - 1 /\ f \in 0 .. C /\ f + r \in 0 .. C /\ f <= f + r
    BY <1>1
  <1>3. CqidToIndex(g.ncq_start, M, C) = f
    BY <1>2, KthIsFirst DEF Start
  <1>4. \A i \in 0 .. r - 1 : /\ f + i \in 0 .. C - 1 /\ f + i \in f .. f + r - 1
                              /\ GetKthCqid(f + i, M, C) = F(f + i) /\ GetCqNrNsqs(F(f + i), M, C) = W(f + i)
    <2>1. \A i \in 0 .. r - 1 : f + i \in 0 .. C - 1 /\ f + i \in f .. f + r - 1
      BY <1>1
    <2> QED
      BY <2>1, KthIsFirst
  <1>5. \A i \in 0 .. C - 1 : F(i) \in Nat \ {0} /\ F(i + 1) \in Nat /\ W(i) \in Nat \ {0} /\ F(i + 1) = F(i) + W(i)
    BY FirstFacts
  <1>6. \A o \in Nat : o % r \in 0 .. r - 1
    <2> HIDE DEF r
    <2> QED
      BY <1>1, DivMod
  <1>7. \A o1, o2 \in Nat : RrNextByNcq(g, o1, o2, M, C) = F(f + (o1 % r)) + (o2 % W(f + (o1 % r)))
    BY <1>3, <1>4, <1>6 DEF RrNextByNcq
  <1>8. \A n \in Nat : n \in Members(p, M, C) <=> n \in 1 .. M /\ \E k \in f .. f + r - 1 : F(k) <= n /\ n < F(k + 1)
    <2> TAKE n \in Nat
    <2>1. F(f) <= n /\ n < F(f + r) <=> \E k \in f .. f + r - 1 : F(k) <= n /\ n < F(k + 1)
      <3>1. ASSUME NEW t \in 0 .. C, f <= t
            PROVE  F(f) <= n /\ n < F(t) <=> \E k \in f .. t - 1 : F(k) <= n /\ n < F(k + 1)
        <4>1. f \in 0 .. C /\ n \in Nat
          BY <1>2
        <4> HIDE DEF f
        <4> QED
          BY <3>1, <4>1, Blocks
      <3> HIDE DEF f, r, F
      <3> QED
        BY <1>1, <1>2, <3>1
    <2>2. n \in Members(p, M, C) <=> n \in 1 .. M /\ F(f) <= n /\ n < F(f + r)
      BY DEF Members, Start, End, Between
    <2> QED
      BY <2>1, <2>2
  <1>9. \A k \in f .. f + r - 1 : F(k) >= 1 /\ F(k + 1) <= M + 1 /\ k \in 0 .. C - 1 /\ k - f \in 0 .. r - 1 /\ f + (k - f) = k
    <2> TAKE k \in f .. f + r - 1
    <2>1. k \in 0 .. C - 1 /\ k \in 0 .. C /\ k + 1 \in 0 .. C /\ k <= k + 1
      BY <1>1
    <2>2. F(C) = M + 1
      BY FirstFacts
    <2>3. k + 1 < C => F(k + 1) < F(C)
      BY <1>1, <2>1, FirstGrows
    <2>4. k + 1 = C => F(k + 1) = F(C)
      OBVIOUS
    <2>5. F(k) \in Nat \ {0} /\ F(k + 1) \in Nat
      BY <1>5, <2>1
    <2>6. k - f \in 0 .. r - 1 /\ f + (k - f) = k
      BY <1>1
    <2>7. k + 1 < C \/ k + 1 = C
      BY <1>1, <2>1
    <2> HIDE DEF F, f, r
    <2> QED
      BY <1>1, <2>1, <2>2, <2>3, <2>4, <2>5, <2>6, <2>7
  <1> HIDE DEF f, r, F, W
  <1>10. ASSUME NEW o1 \in 0 .. M, NEW o2 \in 0 .. M PROVE RrNextByNcq(g, o1, o2, M, C) \in Members(p, M, C)
    <2> DEFINE k == f + (o1 % r)
    <2>1. o1 \in Nat /\ o2 \in Nat
      OBVIOUS
    <2>2. k \in f .. f + r - 1 /\ k \in 0 .. C - 1
      BY <1>4, <1>6, <2>1
    <2>3. RrNextByNcq(g, o1, o2, M, C) = F(k) + (o2 % W(k))
      BY <1>7, <2>1
    <2> HIDE DEF k
    <2>4. F(k) \in Nat /\ W(k) \in Nat \ {0} /\ F(k + 1) = F(k) + W(k) /\ F(k) >= 1 /\ F(k + 1) <= M + 1
      BY <1>5, <1>9, <2>2
    <2>5. o2 % W(k) \in Nat /\ o2 % W(k) < W(k)
      BY <2>1, <2>4, DivMod
    <2> DEFINE n == F(k) + (o2 % W(k))
    <2>6. n \in 1 .. M /\ F(k) <= n /\ n < F(k + 1) /\ n \in Nat
      BY <1>1, <2>4, <2>5
    <2> HIDE DEF n
    <2>7. n \in Members(p, M, C)
      BY <1>8, <2>2, <2>6
    <2> QED
      BY <2>3, <2>7 DEF n
  <1>11. ASSUME NEW n \in Members(p, M, C)
         PROVE  \E o1, o2 \in 0 .. M : n = RrNextByNcq(g, o1, o2, M, C)
    <2>1. n \in 1 .. M /\ n \in Nat
      BY DEF Members, Between
    <2>2. PICK k \in f .. f + r - 1 : F(k) <= n /\ n < F(k + 1)
      BY <1>8, <2>1
    <2> DEFINE o1 == k - f
               o2 == n - F(k)
    <2>3. k \in 0 .. C - 1 /\ o1 \in 0 .. r - 1 /\ f + o1 = k /\ o1 \in 0 .. M /\ o1 \in Nat
      BY <1>1, <1>9
    <2>4. F(k) \in Nat /\ W(k) \in Nat \ {0} /\ F(k + 1) = F(k) + W(k) /\ F(k) >= 1
      BY <1>5, <2>3
    <2>5. o2 \in Nat /\ o2 < W(k) /\ o2 \in 0 .. M /\ F(k) + o2 = n
      BY <1>1, <2>1, <2>2, <2>4
    <2> HIDE DEF o1, o2
    <2>6. o1 % r = o1 /\ o2 % W(k) = o2
      BY <1>1, <2>3, <2>4, <2>5
    <2>7. RrNextByNcq(g, o1, o2, M, C) = n
      <3>1. RrNextByNcq(g, o1, o2, M, C) = F(f + (o1 % r)) + (o2 % W(f + (o1 % r)))
        BY <1>7, <2>3, <2>5
      <3> QED
        BY <2>3, <2>5, <2>6, <3>1
    <2> QED
      BY <2>3, <2>5, <2>7
  <1>12. \A n \in {RrNextByNcq(g, o1, o2, M, C) : o1, o2 \in 0 .. M} : n \in Members(p, M, C)
    BY <1>10
  <1>13. \A n \in Members(p, M, C) : n \in {RrNextByNcq(g, o1, o2, M, C) : o1, o2 \in 0 .. M}
    BY <1>11
  <1> QED
    BY <1>12, <1>13

(* The heap of a group holds its NCQs, the first one on top. *)
LEMMA HeapHolds ==
  ASSUME NEW M, NEW C, Layout(M, C), C # 1, NEW p \in Prios
  PROVE  LET h == InitNcqHeap(GroupOf(p, M, C), M, C)
         IN /\ {h[i] : i \in DOMAIN h} = {n \in Members(p, M, C) : n = GetCqid(n, M, C)}
            /\ h[0] \in 1 .. M
  <1> DEFINE f == NcqStartIdx(p, C)
             r == GroupSize(p, C)
             F(i) == First(i, M, C)
             h == InitNcqHeap(GroupOf(p, M, C), M, C)
  <1>1. C \in Nat \ {0, 1} /\ M \in Nat \ {0} /\ f \in Nat /\ r \in Nat \ {0} /\ f + r <= C
    BY Split DEF Layout
  <1>2. GroupOf(p, M, C).ncq_start = F(f) /\ GroupOf(p, M, C).nr_ncqs = r
    BY GroupFacts
  <1>3. \A i \in 0 .. r - 1 : f + i \in 0 .. C - 1
    BY <1>1
  <1>4. CqidToIndex(F(f), M, C) = f
    <2>1. f \in 0 .. C - 1
      BY <1>1
    <2> QED
      BY <2>1, KthIsFirst
  <1>5. \A i \in 0 .. r - 1 : /\ GetKthCqid(f + i, M, C) = F(f + i) /\ F(f + i) \in 1 .. M
                              /\ GetCqid(F(f + i), M, C) = F(f + i)
    <2> TAKE i \in 0 .. r - 1
    <2>1. f + i \in 0 .. C - 1 /\ 0 \in Nat
      BY <1>3
    <2> DEFINE k == f + i
    <2> HIDE DEF k
    <2>2. k \in 0 .. C - 1
      BY <2>1 DEF k
    <2>3. /\ GetKthCqid(k, M, C) = First(k, M, C) /\ GetKthCqid(k, M, C) \in 1 .. M
          /\ GetCqid(GetKthCqid(k, M, C), M, C) = GetKthCqid(k, M, C)
      BY <2>1, <2>2, NcqFacts
    <2> QED
      BY <2>3 DEF k
  <1>6. h = [i \in 0 .. r - 1 |-> GetKthCqid(f + i, M, C)]
    BY <1>2, <1>4 DEF InitNcqHeap
  <1>7. DOMAIN h = 0 .. r - 1 /\ \A i \in 0 .. r - 1 : h[i] = F(f + i)
    <2> HIDE DEF h, f, r, F
    <2> QED
      BY <1>5, <1>6
  <1>8. \A n \in 1 .. M : n \in Members(p, M, C) <=>
          \E i \in 0 .. r - 1 : F(f + i) <= n /\ n < F(f + i + 1) /\ GetCqid(n, M, C) = F(f + i)
    BY InGroup
  <1>9. \A i \in 0 .. r - 1 : F(f + i) < F(f + i + 1) /\ F(f + i) <= F(f + i)
    <2> TAKE i \in 0 .. r - 1
    <2>1. F(f + i) \in Nat /\ Width(f + i, M, C) \in Nat \ {0} /\ F(f + i + 1) = F(f + i) + Width(f + i, M, C)
      BY <1>3, FirstFacts
    <2> HIDE DEF F, f, r
    <2> QED
      BY <2>1
  <1>10. \A n \in Members(p, M, C) : n \in 1 .. M
    BY DEF Members, Between
  <1>11. 0 \in 0 .. r - 1 /\ f + 0 = f
    BY <1>1
  <1> HIDE DEF h, f, r, F
  <1>12. {h[i] : i \in DOMAIN h} = {n \in Members(p, M, C) : n = GetCqid(n, M, C)}
    <2>1. \A i \in 0 .. r - 1 : h[i] \in Members(p, M, C) /\ h[i] = GetCqid(h[i], M, C)
      BY <1>5, <1>7, <1>8, <1>9
    <2>2. \A n \in Members(p, M, C) : n = GetCqid(n, M, C) => \E i \in 0 .. r - 1 : n = h[i]
      BY <1>7, <1>8, <1>10
    <2> QED
      BY <1>7, <2>1, <2>2
  <1>13. h[0] \in 1 .. M
    BY <1>5, <1>7, <1>11
  <1> QED
    BY <1>12, <1>13 DEF h

-----------------------------------------------------------------------------
(* The inductive invariant of the regulator: what each stage has built, and *)
(* that exactly the allocations of the stages passed are live.              *)
GroupMade(p) ==
  LET g == GroupOf(p, MaxNqid, NrCqs)
      h == InitNcqHeap(g, MaxNqid, NrCqs)
  IN  [ncq_start |-> g.ncq_start, nr_ncqs |-> g.nr_ncqs, ncqs |-> g.ncqs,
       nr_attach_nsqs |-> g.nr_attach_nsqs, heap |-> h,
       top |-> IF g.nr_ncqs = 0 THEN 0 ELSE h[0]]

RegShape ==
  /\ geo \in Geometries
  /\ pc \in {"maps", "enqs", "groups", "nqs", "ready", "failed", "freed"}
  /\ DOMAIN groups = Prios /\ groups = [p \in Prios |-> groups[p]]
  /\ DOMAIN enqs = Nqids /\ enqs = [n \in Nqids |-> enqs[n]]

RegStage ==
  /\ pc \in {"maps", "enqs"} => next = 0
  /\ pc = "groups" => next \in Prios
  /\ pc = "nqs" => next \in Nqids

RegBuilt ==
  /\ pc = "groups" => \A p \in Prios : p < next => groups[p] = GroupMade(p)
  /\ pc \in {"nqs", "ready"} => \A p \in Prios : groups[p] = GroupMade(p)
  /\ pc = "nqs" => \A n \in Nqids : n < next => enqs[n] = EnqValue(n)
  /\ pc = "ready" => \A n \in Nqids : enqs[n] = EnqValue(n)

RegLive ==
  /\ pc \in {"maps", "failed", "freed"} => live = {}
  /\ pc = "enqs" => live = {NsqMaps}
  /\ pc = "groups" => live = {NsqMaps, Enqs} \cup {HeapOf(p) : p \in {q \in Prios : q < next}}
  /\ pc = "nqs" => live = GroupInitErr \cup EarlierEnqs(next)
  /\ pc = "ready" => live = AllLive

RegInv == RegShape /\ RegStage /\ RegBuilt /\ RegLive

(* A device that may be is one with a layout. *)
LEMMA GeoLayout ==
  ASSUME geo \in Geometries
  PROVE  /\ Layout(MaxNqid, NrCqs)
         /\ \A n \in 1 .. MaxNqid : InitNsqHeap(n, MaxNqid, NrCqs) # None
  BY GeometryAssumption DEF Layout, MaxNqid, NrCqs

LEMMA RegInit == SetInit => RegInv
  <1> SUFFICES ASSUME NEW s \in Setups, InitWith(s) PROVE RegInv
    BY DEF SetInit
  <1>1. geo \in Geometries
    BY TagSetAssumption DEF InitWith
  <1>2. /\ pc = "maps" /\ next = 0 /\ live = {}
        /\ groups = [p \in Prios |-> None] /\ enqs = [n \in Nqids |-> None]
    BY DEF InitWith
  <1> QED
    BY <1>1, <1>2 DEF RegInv, RegShape, RegStage, RegBuilt, RegLive

LEMMA RegStep == RegInv /\ [Next]_vars => RegInv'
  <1> SUFFICES ASSUME RegInv, [Next]_vars PROVE RegInv'
    OBVIOUS
  <1> USE DEF RegInv
  <1>0. Layout(MaxNqid, NrCqs) /\ MaxNqid \in Nat \ {0} /\ Prios = {0, 1} /\ PrioLevel = 2
    BY GeoLayout, Prio DEF RegShape, Layout
  <1>1. ASSUME AllocNsqMaps PROVE RegInv'
    BY <1>1 DEF AllocNsqMaps, RegShape, RegStage, RegBuilt, RegLive, Nqids, MaxNqid, NrCqs
  <1>2. ASSUME AllocEnqs PROVE RegInv'
    <2>1. RegShape' /\ RegStage'
      BY <1>0, <1>2 DEF AllocEnqs, RegShape, RegStage, Nqids, MaxNqid
    <2>2. RegBuilt'
      BY <1>0, <1>2 DEF AllocEnqs, RegStage, RegBuilt
    <2>3. RegLive'
      BY <1>0, <1>2 DEF AllocEnqs, RegStage, RegLive
    <2> QED
      BY <2>1, <2>2, <2>3
  <1>3. ASSUME InitGroup PROVE RegInv'
    <2>1. pc = "groups" /\ next \in Prios /\ UNCHANGED <<geo, enqs>>
      BY <1>3 DEF InitGroup, RegStage
    <2>2. GroupMade(next) = [groups EXCEPT ![next] = GroupMade(next)][next]
      BY <2>1 DEF RegShape
    <2>3. CASE /\ live' = live \cup {HeapOf(next)}
               /\ groups' = [groups EXCEPT ![next] = GroupMade(next)]
               /\ next' = (IF next + 1 = PrioLevel THEN 1 ELSE next + 1)
               /\ pc' = (IF next + 1 = PrioLevel THEN "nqs" ELSE "groups")
      <3>1. \A p \in Prios : GroupMade(p)' = GroupMade(p)
        BY <2>1 DEF GroupMade, MaxNqid, NrCqs
      <3>2. \A p \in Prios : p <= next => groups'[p] = GroupMade(p)'
        <4> HIDE DEF GroupMade
        <4> QED
          BY <1>0, <2>1, <2>3, <3>1 DEF RegShape, RegBuilt
      <3>3. RegShape'
        <4> HIDE DEF GroupMade
        <4> QED
          BY <1>0, <2>1, <2>3 DEF RegShape, Nqids, MaxNqid
      <3>4. RegStage'
        BY <1>0, <2>1, <2>3 DEF RegShape, RegStage, Nqids, MaxNqid
      <3>5. RegBuilt'
        <4>1. pc' = "nqs" => next' = 1
          BY <2>3
        <4>2. \A n \in Nqids' : ~(n < 1)
          BY DEF Nqids
        <4> HIDE DEF GroupMade
        <4> QED
          BY <1>0, <2>1, <2>3, <3>2, <4>1, <4>2 DEF RegShape, RegBuilt
      <3>6. RegLive'
        <4>1. live' = {NsqMaps, Enqs} \cup {HeapOf(p) : p \in {q \in Prios : q <= next}}
          BY <1>0, <2>1, <2>3 DEF RegLive
        <4>2. CASE next = 0
          BY <1>0, <2>3, <4>1, <4>2 DEF RegLive
        <4>3. CASE next = 1
          <5>1. EarlierEnqs(1)' = {}
            BY DEF EarlierEnqs
          <5>2. live' = GroupInitErr
            BY <1>0, <4>1, <4>3 DEF GroupInitErr
          <5>3. pc' = "nqs" /\ next' = 1
            BY <1>0, <2>3, <4>3
          <5> QED
            BY <5>1, <5>2, <5>3 DEF RegLive, GroupInitErr
        <4> QED
          BY <1>0, <2>1, <4>2, <4>3
      <3> QED
        BY <3>3, <3>4, <3>5, <3>6
    <2>4. CASE live' = live \ GroupInitErr /\ pc' = "failed" /\ UNCHANGED <<groups, next>>
      <3>1. live' = {}
        BY <2>1, <2>4 DEF RegLive, GroupInitErr
      <3> QED
        BY <2>1, <2>4, <3>1 DEF RegShape, RegStage, RegBuilt, RegLive, Nqids, MaxNqid
    <2> QED
      BY <1>3, <2>3, <2>4 DEF InitGroup, GroupMade
  <1>4. ASSUME InitEnqOk PROVE RegInv'
    <2>1. pc = "nqs" /\ next \in Nqids /\ UNCHANGED <<geo, groups>> /\ pc' \in {"nqs", "ready"}
      BY <1>4 DEF InitEnqOk, RegStage
    <2>2. /\ enqs' = [enqs EXCEPT ![next] = EnqValue(next)] /\ live' = live \cup EnqLive(next)
          /\ next' = next + 1 /\ pc' = IF next = MaxNqid THEN "ready" ELSE "nqs"
      BY <1>4 DEF InitEnqOk
    <2>3. /\ Nqids' = Nqids /\ \A n : EnqValue(n)' = EnqValue(n)
          /\ \A p \in Prios : GroupMade(p)' = GroupMade(p)
          /\ MaxNqid' = MaxNqid /\ \A n : EnqLive(n)' = EnqLive(n)
      BY <2>1 DEF Nqids, MaxNqid, NrCqs, EnqValue, GroupMade, EnqLive, EnqAllocs
    <2>4. \A n \in Nqids : n <= next => enqs'[n] = EnqValue(n)
      <3> HIDE DEF EnqValue
      <3> QED
        BY <1>0, <2>1, <2>2 DEF RegShape, RegBuilt, Nqids
    <2>5. \A n \in Nqids : n \in Nat /\ n <= MaxNqid
      BY <1>0 DEF Nqids
    <2>6. RegShape'
      <3> HIDE DEF EnqValue
      <3> QED
        BY <2>1, <2>2, <2>3 DEF RegShape
    <2>7. RegStage'
      BY <1>0, <2>1, <2>2, <2>3, <2>5 DEF RegStage, Nqids
    <2>8. RegBuilt'
      <3>1. \A p \in Prios : groups'[p] = GroupMade(p)'
        BY <2>1, <2>3 DEF RegBuilt
      <3>2. \A n \in Nqids' : n < next' => enqs'[n] = EnqValue(n)'
        BY <1>0, <2>1, <2>2, <2>3, <2>4, <2>5
      <3>3. pc' = "ready" => \A n \in Nqids' : enqs'[n] = EnqValue(n)'
        BY <1>0, <2>1, <2>2, <2>3, <2>4, <2>5
      <3> QED
        BY <2>1, <3>1, <3>2, <3>3 DEF RegBuilt
    <2>9. RegLive'
      <3>1. live' = GroupInitErr \cup UNION {EnqLive(n) : n \in 1 .. next}
        <4>1. live = GroupInitErr \cup EarlierEnqs(next)
          BY <2>1 DEF RegLive
        <4>2. 1 .. next = (1 .. next - 1) \cup {next}
          BY <1>0, <2>1 DEF Nqids
        <4>3. EarlierEnqs(next) = UNION {EnqLive(n) : n \in 1 .. next - 1}
          BY DEF EarlierEnqs
        <4> QED
          BY <2>2, <4>1, <4>2, <4>3
      <3>2. CASE pc' = "nqs"
        <4>1. next' - 1 = next
          BY <1>0, <2>1, <2>2 DEF Nqids
        <4>2. EarlierEnqs(next)' = UNION {EnqLive(n) : n \in 1 .. next}
          BY <2>3, <4>1 DEF EarlierEnqs
        <4> QED
          BY <3>1, <3>2, <4>2 DEF RegLive, GroupInitErr
      <3>3. CASE pc' = "ready"
        <4>1. Nqids' = 1 .. next
          BY <2>2, <2>3, <3>3 DEF Nqids
        <4>2. AllLive' = GroupInitErr \cup UNION {EnqLive(n) : n \in 1 .. next}
          BY <2>3, <4>1 DEF AllLive, GroupInitErr
        <4> QED
          BY <3>1, <3>3, <4>2 DEF RegLive
      <3> QED
        BY <2>1, <3>2, <3>3
    <2> QED
      BY <2>6, <2>7, <2>8, <2>9
  <1>5. ASSUME InitEnqFail PROVE RegInv'
    <2>1. pc = "nqs" /\ pc' = "failed" /\ UNCHANGED <<geo, next, groups, enqs>>
      BY <1>5 DEF InitEnqFail
    <2>2. live' = {}
      <3>1. live = GroupInitErr \cup EarlierEnqs(next)
        BY <2>1 DEF RegLive
      <3>2. PICK k \in DOMAIN EnqAllocs(next) :
              live' = ((live \cup UndoneEnqAllocs(next, k)) \ UndoneEnqAllocs(next, k))
                        \ (EarlierEnqs(next) \cup GroupInitErr)
        BY <1>5 DEF InitEnqFail, UndoneEnqAllocs
      <3> QED
        BY <3>1, <3>2
    <2> QED
      BY <2>1, <2>2 DEF RegShape, RegStage, RegBuilt, RegLive, Nqids, MaxNqid
  <1>6. ASSUME Free PROVE RegInv'
    <2>1. pc = "ready" /\ pc' = "freed" /\ UNCHANGED <<geo, next, groups, enqs>>
      BY <1>6 DEF Free
    <2>2. live' = {}
      <3>1. 1 .. (MaxNqid + 1) - 1 = Nqids
        BY <1>0 DEF Nqids
      <3>2. live = {NsqMaps, Enqs} \cup {HeapOf(p) : p \in Prios} \cup UNION {EnqLive(n) : n \in Nqids}
        BY <2>1 DEF RegLive, AllLive
      <3>3. EarlierEnqs(MaxNqid + 1) = UNION {EnqLive(n) : n \in Nqids}
        <4>1. EarlierEnqs(MaxNqid + 1) = UNION {EnqLive(n) : n \in 1 .. (MaxNqid + 1) - 1}
          BY Zenon DEF EarlierEnqs
        <4> QED
          BY Zenon, <3>1, <4>1
      <3>4. live' = live \ ({NsqMaps, Enqs} \cup {HeapOf(p) : p \in Prios} \cup EarlierEnqs(MaxNqid + 1))
        BY <1>6 DEF Free
      <3> QED
        BY <3>2, <3>3, <3>4
    <2> QED
      BY <2>1, <2>2 DEF RegShape, RegStage, RegBuilt, RegLive, Nqids, MaxNqid
  <1>7. ASSUME UNCHANGED vars PROVE RegInv'
    <2>1. UNCHANGED <<geo, pc, next, groups, enqs, live>>
      BY <1>7 DEF vars
    <2>2. /\ Nqids' = Nqids /\ \A n : EnqValue(n)' = EnqValue(n)
          /\ \A p \in Prios : GroupMade(p)' = GroupMade(p)
          /\ AllLive' = AllLive /\ EarlierEnqs(next)' = EarlierEnqs(next)
      BY <2>1 DEF Nqids, MaxNqid, NrCqs, EnqValue, GroupMade, EarlierEnqs, EnqLive, EnqAllocs, AllLive
    <2>3. RegShape'
      BY <2>1, <2>2 DEF RegShape
    <2>4. RegStage'
      BY <2>1, <2>2 DEF RegStage
    <2>5. RegBuilt'
      BY <2>1, <2>2 DEF RegBuilt
    <2>6. RegLive'
      BY <2>1, <2>2 DEF RegLive, GroupInitErr
    <2> QED
      BY <2>3, <2>4, <2>5, <2>6
  <1> QED
    BY <1>1, <1>2, <1>3, <1>4, <1>5, <1>6, <1>7 DEF Next

(* Only its own steps change the regulator. *)
LEMMA RegMoves == [SetNext]_allVars => [Next]_vars
  <1> SUFFICES ASSUME [SetNext]_allVars PROVE Next \/ UNCHANGED vars
    OBVIOUS
  <1> USE DEF regVars, vars
  <1>1. UNCHANGED allVars => UNCHANGED vars
    BY DEF allVars
  <1>2. AllocInfo => UNCHANGED vars
    BY DEF AllocInfo
  <1>3. BringUp => Next \/ UNCHANGED vars
    <2> HIDE DEF vars
    <2> QED
      BY DEF BringUp, Next, vars
  <1>4. FreeRegulator => Next \/ UNCHANGED vars
    BY DEF FreeRegulator, Next
  <1>5. AllocTags => FreeRegulator \/ UNCHANGED vars
    BY DEF AllocTags
  <1>6. AllocMaps => FreeRegulator \/ UNCHANGED vars
    BY DEF AllocMaps
  <1>7. FreeTagSet => FreeRegulator
    BY DEF FreeTagSet
  <1>8. StrayTags \/ StrayQueue \/ UpdFreeze \/ Update => UNCHANGED vars
    BY DEF StrayTags, StrayQueue, UpdFreeze, Update, UpdNone, UpdTags, UpdQueue, UpdBack, Rest
  <1>9. ASSUME NEW q \in Qs,
               \/ CreateQueue(q) \/ AddQueue(q) \/ MapQueue(q) \/ InsertHost(q)
               \/ SwitchOn(q) \/ SwitchOff(q) \/ GrowRequests(q)
               \/ Destroy(q) \/ DelQueue(q) \/ Release(q)
        PROVE  UNCHANGED vars
    BY <1>9 DEF CreateQueue, AddQueue, MapQueue, InsertHost, SwitchOn, SwitchOff, GrowRequests, Destroy, DelQueue,
                Release, Rest
  <1>10. ASSUME NEW q \in Qs, NEW h \in HctxIds,
                \/ TagBusy(q, h) \/ BusyCount(q, h) \/ TagIdles(q, h) \/ IdleCount(q, h)
                \/ \E c \in Cpus : UseTag(q, h, c)
         PROVE  UNCHANGED vars
    BY <1>10 DEF TagBusy, BusyCount, TagIdles, IdleCount, UseTag, Rest
  <1> HIDE DEF regVars, vars
  <1> QED
    BY <1>1, <1>2, <1>3, <1>4, <1>5, <1>6, <1>7, <1>8, <1>9, <1>10 DEF SetNext

(* Whatever the driver, the queues and updates of their number do, and     *)
(* whatever fails, the regulator is at a stage of its bring-up or release. *)
THEOREM RegulatorInvariance == SetSpec => []RegInv
  BY RegInit, RegStep, RegMoves, PTL DEF SetSpec

(* Whichever allocation of the bring-up fails, all before it are freed;    *)
(* success leaves all of them, and a release none                          *)
(* (blk_blex_nq_regulator_alloc_and_init(), blk_blex_nq_regulator_free()). *)
THEOREM BringUpIsAllOrNothing == SetSpec => []AllOrNothing
  <1>1. RegInv => AllOrNothing
    BY DEF RegInv, RegLive, AllOrNothing, Built
  <1> QED
    BY <1>1, RegulatorInvariance, PTL

LEMMA GroupMadeFields ==
  ASSUME NEW p
  PROVE  LET g == GroupOf(p, MaxNqid, NrCqs)
             h == InitNcqHeap(g, MaxNqid, NrCqs)
         IN  /\ GroupMade(p).ncq_start = g.ncq_start /\ GroupMade(p).nr_ncqs = g.nr_ncqs
             /\ GroupMade(p).ncqs = g.ncqs /\ GroupMade(p).nr_attach_nsqs = g.nr_attach_nsqs
             /\ GroupMade(p).heap = h /\ GroupMade(p).top = IF g.nr_ncqs = 0 THEN 0 ELSE h[0]
  <1> DEFINE g == GroupOf(p, MaxNqid, NrCqs)
             h == InitNcqHeap(g, MaxNqid, NrCqs)
  <1>1. GroupMade(p) = [ncq_start |-> g.ncq_start, nr_ncqs |-> g.nr_ncqs, ncqs |-> g.ncqs,
                        nr_attach_nsqs |-> g.nr_attach_nsqs, heap |-> h,
                        top |-> IF g.nr_ncqs = 0 THEN 0 ELSE h[0]]
    BY DEF GroupMade
  <1> HIDE DEF g, h
  <1>2. /\ GroupMade(p).ncq_start = g.ncq_start /\ GroupMade(p).nr_ncqs = g.nr_ncqs
        /\ GroupMade(p).ncqs = g.ncqs /\ GroupMade(p).nr_attach_nsqs = g.nr_attach_nsqs
        /\ GroupMade(p).heap = h /\ GroupMade(p).top = IF g.nr_ncqs = 0 THEN 0 ELSE h[0]
    BY <1>1
  <1> QED
    BY <1>2 DEF g, h

LEMMA NqsAreMade ==
  ASSUME RegInv, Built
  PROVE  /\ Layout(MaxNqid, NrCqs)
         /\ \A n \in Nqids : /\ enqs[n].cqid = GetCqid(n, MaxNqid, NrCqs)
                             /\ enqs[n].encq = IF n = GetCqid(n, MaxNqid, NrCqs)
                                               THEN InitNsqHeap(n, MaxNqid, NrCqs) ELSE None
                             /\ enqs[n].encq # None <=> n = GetCqid(n, MaxNqid, NrCqs)
                             /\ enqs[n].prio = CHOOSE p \in Prios : GetCqid(n, MaxNqid, NrCqs) \in GroupOf(p, MaxNqid, NrCqs).ncqs
         /\ \A p \in Prios : groups[p] = GroupMade(p)
  <1>1. Layout(MaxNqid, NrCqs) /\ \A n \in Nqids : InitNsqHeap(n, MaxNqid, NrCqs) # None
    BY GeoLayout DEF RegInv, RegShape, Nqids
  <1>2. \A n \in Nqids : enqs[n] = EnqValue(n)
    BY DEF RegInv, RegBuilt, Built
  <1>3. /\ \A p \in Prios : groups[p] = GroupMade(p)
        /\ \A p \in Prios : groups[p].ncqs = GroupOf(p, MaxNqid, NrCqs).ncqs
    <2>1. \A p \in Prios : groups[p] = GroupMade(p)
      BY DEF RegInv, RegBuilt, Built
    <2> QED
      BY <2>1, GroupMadeFields
  <1>4. ASSUME NEW n \in Nqids
        PROVE  /\ enqs[n].cqid = GetCqid(n, MaxNqid, NrCqs)
               /\ enqs[n].encq = IF n = GetCqid(n, MaxNqid, NrCqs) THEN InitNsqHeap(n, MaxNqid, NrCqs) ELSE None
               /\ enqs[n].prio = CHOOSE p \in Prios : GetCqid(n, MaxNqid, NrCqs) \in groups[p].ncqs
    <2> DEFINE cqid == GetCqid(n, MaxNqid, NrCqs)
               prio == CHOOSE p \in Prios : cqid \in groups[p].ncqs
               encq == IF n = cqid THEN InitNsqHeap(cqid, MaxNqid, NrCqs) ELSE None
    <2>1. enqs[n] = [cqid |-> cqid, prio |-> prio, encq |-> encq]
      BY <1>2, Zenon DEF EnqValue
    <2>2. encq = IF n = cqid THEN InitNsqHeap(n, MaxNqid, NrCqs) ELSE None
      OBVIOUS
    <2> HIDE DEF cqid, prio, encq
    <2>3. enqs[n].cqid = cqid /\ enqs[n].prio = prio /\ enqs[n].encq = encq
      BY <2>1
    <2> QED
      BY <2>2, <2>3 DEF cqid, prio
  <1>5. ASSUME NEW n \in Nqids
        PROVE  (CHOOSE p \in Prios : GetCqid(n, MaxNqid, NrCqs) \in groups[p].ncqs)
                 = CHOOSE p \in Prios : GetCqid(n, MaxNqid, NrCqs) \in GroupOf(p, MaxNqid, NrCqs).ncqs
    BY <1>3
  <1> QED
    BY <1>1, <1>3, <1>4, <1>5

(* On every device, the NQs attached to an NCQ are a block of IDs from its *)
(* own on, share its tag set, and no other NQ does; the k-th NCQ's index   *)
(* is k: a completion is looked up in the tags its command was issued from *)
(* (blk-blex.h: blk_blex_get_cqid(), blk_blex_get_tag_idx()).              *)
THEOREM NcqsPartition == SetSpec => []NcqsPartitionNqs
  <1>1. RegInv => NcqsPartitionNqs
    <2> SUFFICES ASSUME RegInv, Built, NEW k \in 0 .. NrCqs - 1
                 PROVE  LET cqid == GetKthCqid(k, MaxNqid, NrCqs)
                            nsqs == {n \in Nqids : enqs[n].cqid = cqid}
                        IN  /\ CqidToIndex(cqid, MaxNqid, NrCqs) = k
                            /\ enqs[cqid].encq # None
                            /\ nsqs = {enqs[cqid].encq[i] : i \in DOMAIN enqs[cqid].encq}
                            /\ nsqs = {CqidToKthSqid(cqid, i, MaxNqid, NrCqs) : i \in 0 .. NrCpus + MaxNqid}
                            /\ nsqs = {n \in Nqids : GetTagIdx(NqidToHctx(n), MaxNqid, NrCqs) = k}
      BY DEF NcqsPartitionNqs
    <2> DEFINE M == MaxNqid
               C == NrCqs
               q == GetKthCqid(k, M, C)
               block == Between(First(k, M, C), First(k + 1, M, C), M)
               nsqs == {n \in Nqids : enqs[n].cqid = q}
    <2>1. Layout(M, C)
      BY NqsAreMade
    <2>2. NrCpus \in Nat
      BY GeometryAssumption
    <2>3. /\ q \in 1 .. M /\ GetCqid(q, M, C) = q /\ CqidToIndex(q, M, C) = k
          /\ block = {q + i : i \in 0 .. GetCqNrNsqs(q, M, C) - 1}
          /\ block = {CqidToKthSqid(q, i, M, C) : i \in 0 .. NrCpus + M}
          /\ block = {n \in 1 .. M : GetCqid(n, M, C) = q}
          /\ block = {n \in 1 .. M : GetTagIdx(NqidToHctx(n), M, C) = k}
      <3>1. k \in 0 .. C - 1
        OBVIOUS
      <3> HIDE DEF M, C
      <3> QED
        BY <2>1, <2>2, <3>1, NcqFacts
    <2> HIDE DEF q, block
    <2>4. nsqs = block
      BY <2>3, NqsAreMade DEF Nqids
    <2>5. enqs[q].encq = InitNsqHeap(q, M, C) /\ enqs[q].encq # None
      BY <2>3, NqsAreMade DEF Nqids
    <2>6. {enqs[q].encq[i] : i \in DOMAIN enqs[q].encq} = {q + i : i \in 0 .. GetCqNrNsqs(q, M, C) - 1}
      BY <2>5 DEF InitNsqHeap
    <2> QED
      BY <2>3, <2>4, <2>5, <2>6 DEF q, Nqids
  <1> QED
    BY <1>1, RegulatorInvariance, PTL

(* With several NCQs, the groups split the NQs among the priorities;       *)
(* whatever the counters of round-robin selection are at, it stays in its  *)
(* group and comes to each of its NQs, and the heap of each group holds    *)
(* its NCQs, one of them on top.                                           *)
LEMMA GroupsServe == RegInv /\ NrCqs # 1 => RoundRobinCoversGroup /\ TopNqExists
  <1> SUFFICES ASSUME RegInv, NrCqs # 1, Built PROVE RoundRobinCoversGroup /\ TopNqExists
    BY DEF RoundRobinCoversGroup, TopNqExists
  <1> DEFINE M == MaxNqid
             C == NrCqs
  <1>1. Layout(M, C) /\ C # 1 /\ \A p \in Prios : groups[p] = GroupMade(p)
    BY NqsAreMade
  <1>2. ASSUME NEW p \in Prios
        PROVE  LET g == groups[p]
                   members == {n \in Nqids : enqs[n].prio = p}
                   offsets == 0 .. MaxNqid
               IN  /\ {RrNextByNsq(g, o) : o \in offsets} = members
                   /\ {RrNextByNcq(g, o1, o2, MaxNqid, NrCqs) : o1, o2 \in offsets} = members
                   /\ {g.heap[i] : i \in DOMAIN g.heap} = {n \in members : enqs[n].encq # None}
                   /\ g.top \in Nqids
    <2> DEFINE g == groups[p]
               members == {n \in Nqids : enqs[n].prio = p}
               h == InitNcqHeap(GroupOf(p, M, C), M, C)
    <2>1. /\ g.ncq_start = GroupOf(p, M, C).ncq_start /\ g.nr_ncqs = GroupOf(p, M, C).nr_ncqs
          /\ g.nr_attach_nsqs = GroupOf(p, M, C).nr_attach_nsqs /\ g.heap = h
          /\ g.top = IF g.nr_ncqs = 0 THEN 0 ELSE h[0]
      BY <1>1, GroupMadeFields
    <2>2. /\ g.ncq_start = Start(p, M, C) /\ g.nr_ncqs = GroupSize(p, C)
          /\ g.nr_attach_nsqs = End(p, M, C) - Start(p, M, C)
      <3> HIDE DEF M, C, g
      <3> QED
        BY <1>1, <2>1, GroupFacts DEF Start, End
    <2>3. members = Members(p, M, C)
      <3>1. \A n \in 1 .. M : (CHOOSE q \in Prios : GetCqid(n, M, C) \in GroupOf(q, M, C).ncqs) = p
                                <=> n \in Members(p, M, C)
        <4> HIDE DEF M, C
        <4> QED
          BY <1>1, OneGroup
      <3>2. \A n \in Members(p, M, C) : n \in 1 .. M
        BY DEF Members, Between
      <3>3. \A n \in Nqids : enqs[n].prio = CHOOSE q \in Prios : GetCqid(n, M, C) \in GroupOf(q, M, C).ncqs
        BY NqsAreMade
      <3> QED
        BY <3>1, <3>2, <3>3 DEF Nqids
    <2>4. {RrNextByNsq(g, o) : o \in 0 .. M} = Members(p, M, C)
      <3> HIDE DEF M, C, g
      <3> QED
        BY <1>1, <2>2, RrNsq
    <2>5. {RrNextByNcq(g, o1, o2, M, C) : o1, o2 \in 0 .. M} = Members(p, M, C)
      <3> HIDE DEF M, C, g
      <3> QED
        BY <1>1, <2>2, RrNcq
    <2>6. {h[i] : i \in DOMAIN h} = {n \in Members(p, M, C) : n = GetCqid(n, M, C)} /\ h[0] \in 1 .. M
      <3> HIDE DEF M, C
      <3> QED
        BY <1>1, HeapHolds
    <2>7. \A n \in Members(p, M, C) : enqs[n].encq # None <=> n = GetCqid(n, M, C)
      BY NqsAreMade DEF Members, Between, Nqids
    <2>8. GroupSize(p, C) # 0
      BY <1>1, Split DEF Layout
    <2>9. g.top \in Nqids
      BY <2>1, <2>2, <2>6, <2>8 DEF Nqids
    <2> HIDE DEF g, members, h
    <2>10. {g.heap[i] : i \in DOMAIN g.heap} = {n \in members : enqs[n].encq # None}
      BY <2>1, <2>3, <2>6, <2>7
    <2> QED
      BY <2>3, <2>4, <2>5, <2>9, <2>10 DEF g, members
  <1> QED
    BY <1>2 DEF RoundRobinCoversGroup, TopNqExists

(* On every device with several NCQs the layout serves every command: its  *)
(* NCQ is found again, and each priority's group offers all its NQs.  (On  *)
(* a device with one NCQ the group of the T priority is empty.)            *)
THEOREM LayoutServes ==
  ASSUME \A g \in Geometries : g[2] # 1
  PROVE  SetSpec => []LayoutCovers
  <1>1. RegInv => NrCqs # 1
    BY DEF RegInv, RegShape, NrCqs
  <1>2. RegInv => RoundRobinCoversGroup /\ TopNqExists
    BY <1>1, GroupsServe
  <1>3. SetSpec => []RegInv
    BY RegulatorInvariance
  <1>4. SetSpec => []NcqsPartitionNqs
    BY NcqsPartition
  <1>5. NcqsPartitionNqs /\ RoundRobinCoversGroup /\ TopNqExists => LayoutCovers
    BY DEF LayoutCovers
  <1> QED
    BY <1>2, <1>3, <1>4, <1>5, PTL
=============================================================================
