-------------------------- MODULE NvmeData_proofs --------------------------
(***************************************************************************)
(* For any page size, sizes of lists and pools, and any requests: whatever *)
(* step fails, everything acquired for a request's data is released once,  *)
(* and as what it was acquired as.                                         *)
(***************************************************************************)
EXTENDS NvmeData, TLAPS

IsSeq(s) == s \in Seq({s[i] : i \in DOMAIN s})

Requests == Inputs \cup Later

(* The lists are those the nvme_iod tells of: one of the small pool, or a  *)
(* chain whose links are in place, each in the last entry of a full list.  *)
LinkedLists(ls) ==
  /\ IsSeq(ls) /\ Len(ls) > 0
  /\ \A k \in 1 .. Len(ls) : ls[k] = [pool |-> ls[k].pool, entry |-> ls[k].entry]
                             /\ IsSeq(ls[k].entry)
  /\ \A k \in 1 .. Len(ls) - 1 : Len(ls[k].entry) = ListPrps
                                 /\ ls[k].entry[ListPrps] = -(k + 1)

Chained ==
  /\ LinkedLists(lists) /\ live = 1 .. Len(lists) /\ iod.first = -1
  /\ \/ iod.nr = 0 /\ Len(lists) = 1 /\ lists[1].pool = "small"
     \/ iod.nr = Len(lists) /\ \A k \in 1 .. Len(lists) : lists[k].pool = "page"

(* While a small list is filled there is room for what is left. *)
Room == cur.left > 0 /\ (iod.nr = 0 => Page * Len(lists[1].entry) + cur.left <= Page * SmallPrps)

Meta == IF pc = "flight" /\ rq.meta THEN {"meta"} ELSE {}

(* What is held at each place in the code. *)
HeldAt ==
  CASE pc \in {"prep", "returned"} -> held = {} /\ live = {}
    [] pc = "map" -> held = {"cmd"} /\ live = {} /\ rq.sgl # <<>> /\ iod.nr = -1
    [] pc \in {"prps", "sgls"} ->
         /\ held = {"cmd", "sg", "table"} /\ live = {} /\ rq.sgl # <<>>
         /\ iod.nr = -1 /\ iod.dmaLen = 0 /\ iod.nents = Len(rq.sgl)
    [] pc = "fill" ->
         /\ held = {"cmd", "sg", "table"} /\ Chained /\ Room /\ rq.sgl # <<>>
         /\ iod.dmaLen = 0 /\ iod.nents = Len(rq.sgl)
    [] pc \in {"meta", "flight"} ->
         CASE rq.sgl = <<>> -> held = {"cmd"} \cup Meta /\ live = {}
           [] rq.sgl # <<>> /\ iod.dmaLen # 0 -> held = {"cmd", "page"} \cup Meta /\ live = {} /\ iod.nr = -1
           [] OTHER -> /\ held = {"cmd", "sg", "table"} \cup Meta /\ iod.nents = Len(rq.sgl)
                       /\ Chained \/ (iod.nr = -1 /\ live = {})

Iods(F) == [dmaLen : Nat, nr : Int, nents : Nat, useSgl : BOOLEAN, first : F]

(* Every variable the release depends on has its type.                      *)
Shapes ==
  /\ rq \in Requests /\ (pc = "meta" => rq.meta)
  /\ iod \in Iods({iod.first})
  /\ cur \in [sg : {cur.sg}, addr : {cur.addr}, len : {cur.len}, left : Int]
  /\ pc \in {"prep", "map", "prps", "fill", "sgls", "meta", "flight", "returned"}

DInv == Shapes /\ HeldAt /\ ~wrong

-----------------------------------------------------------------------------
(* The fields of nvme_iod are set together with those they belong to. *)
LEMMA IodReset ==
  ASSUME NEW F, NEW i \in Iods({F})
  PROVE  [i EXCEPT !.nr = -1, !.nents = 0] \in Iods({F})
  <1>1. -1 \in Int
    OBVIOUS
  <1> QED
    BY <1>1 DEF Iods

LEMMA IodMapped ==
  ASSUME NEW F, NEW i \in Iods({F}), NEW n \in Nat, NEW u \in BOOLEAN
  PROVE  /\ [i EXCEPT !.dmaLen = 0] \in Iods({F})
         /\ [i EXCEPT !.dmaLen = 0, !.nents = n, !.useSgl = u] \in Iods({F})
  BY DEF Iods

LEMMA IodListed ==
  ASSUME NEW F, NEW i \in Iods({F}), NEW n \in Int, NEW f
  PROVE  /\ [i EXCEPT !.nr = n] \in Iods({F}) /\ [i EXCEPT !.first = f] \in Iods({f})
         /\ [i EXCEPT !.nr = n, !.first = f] \in Iods({f})
  BY DEF Iods

LEMMA IodFirst ==
  ASSUME NEW F, NEW i \in Iods({F})
  PROVE  i \in Iods({i.first})
  BY DEF Iods

LEMMA ElementOfSeq ==
  ASSUME NEW S, NEW s \in Seq(S), NEW k \in 1 .. Len(s)
  PROVE  s[k] \in S
  OBVIOUS

LEMMA Segments ==
  ASSUME Shapes, rq.sgl # <<>>
  PROVE  /\ rq.sgl \in Seq([addr : Nat, len : Nat \ {0}]) /\ Len(rq.sgl) \in Nat \ {0}
         /\ First.len \in Nat \ {0} /\ First.addr \in Nat
         /\ Offset \in 0 .. Page - 1
  <1>1. rq.sgl \in Seq([addr : Nat, len : Nat \ {0}])
    BY DataAssumption DEF Shapes, Requests, WellFormed
  <1>2. Len(rq.sgl) \in Nat \ {0}
    BY <1>1
  <1>3. rq.sgl[1] \in [addr : Nat, len : Nat \ {0}]
    BY <1>1, <1>2, 1 \in 1 .. Len(rq.sgl), ElementOfSeq
  <1>4. rq.sgl[1].addr \in Nat /\ rq.sgl[1].len \in Nat \ {0}
    BY <1>3
  <1>5. rq.sgl[1].addr % Page \in 0 .. Page - 1
    BY <1>4, DataAssumption
  <1> QED
    BY <1>1, <1>2, <1>4, <1>5 DEF First, Offset

LEMMA RequestTypes ==
  ASSUME Shapes
  PROVE  rq.meta \in BOOLEAN /\ Bytes \in Nat
  BY DataAssumption DEF Shapes, Requests, Bytes

LEMMA SeqIsSeq ==
  ASSUME NEW S, NEW s \in Seq(S)
  PROVE  IsSeq(s)
  BY DEF IsSeq

(* What is appended to a sequence leaves the rest of it in place. *)
LEMMA AppendIsSeq ==
  ASSUME NEW s, IsSeq(s), NEW e
  PROVE  /\ IsSeq(Append(s, e)) /\ Len(s) \in Nat /\ Len(Append(s, e)) = Len(s) + 1
         /\ Append(s, e)[Len(s) + 1] = e
         /\ \A k \in 1 .. Len(s) : Append(s, e)[k] = s[k]
  <1> DEFINE S == {s[i] : i \in DOMAIN s} \cup {e}
  <1>1. s \in Seq(S)
    BY DEF IsSeq
  <1>2. Append(s, e) \in Seq(S) /\ Len(s) \in Nat /\ Len(Append(s, e)) = Len(s) + 1
    BY <1>1
  <1>3. IsSeq(Append(s, e))
    BY <1>2, SeqIsSeq
  <1>4. Append(s, e)[Len(s) + 1] = e /\ \A k \in 1 .. Len(s) : Append(s, e)[k] = s[k]
    BY <1>1
  <1> QED
    BY <1>2, <1>3, <1>4

LEMMA ReplaceIsSeq ==
  ASSUME NEW s, IsSeq(s), NEW k \in 1 .. Len(s), NEW e, NEW t, t = [s EXCEPT ![k] = e]
  PROVE  /\ IsSeq(t) /\ Len(t) = Len(s) /\ t[k] = e
         /\ \A i \in 1 .. Len(s) \ {k} : t[i] = s[i]
  <1> DEFINE S == {s[i] : i \in DOMAIN s} \cup {e}
  <1>1. s \in Seq(S) /\ Len(s) \in Nat
    BY DEF IsSeq
  <1>2. t \in Seq(S) /\ Len(t) = Len(s)
    BY <1>1
  <1>3. IsSeq(t)
    BY <1>2, SeqIsSeq
  <1>4. t[k] = e /\ \A i \in 1 .. Len(s) \ {k} : t[i] = s[i]
    BY <1>1
  <1> QED
    BY <1>2, <1>3, <1>4

LEMMA SingleIsSeq ==
  ASSUME NEW e
  PROVE  IsSeq(<<e>>) /\ Len(<<e>>) = 1 /\ <<e>>[1] = e
  BY DEF IsSeq

LEMMA EmptyIsSeq == IsSeq(<<>>) /\ Len(<<>>) = 0
  BY DEF IsSeq

(* Division rounded up, as used for the size of a list. *)
LEMMA CeilDivBound ==
  ASSUME NEW a \in Int, NEW b \in Nat \ {0}, NEW n \in Nat, CeilDiv(a, b) <= n
  PROVE  a <= b * n
  <1> DEFINE q == (a + b - 1) \div b
  <1>1. q \in Int /\ a + b - 1 < b * q + b
    OBVIOUS
  <1>2. b * q <= b * n
    BY <1>1 DEF CeilDiv
  <1> QED
    BY <1>1, <1>2

LEMMA InitHolds == Init => DInv
  <1> SUFFICES ASSUME Init PROVE DInv
    OBVIOUS
  <1>1. Shapes
    <2>1. [dmaLen |-> 0, nr |-> 0, nents |-> 0, useSgl |-> FALSE, first |-> 0] \in Iods({0})
      BY DEF Iods
    <2>2. iod \in Iods({iod.first})
      BY <2>1, IodFirst DEF Init
    <2> QED
      BY <2>2 DEF Init, Shapes, Requests
  <1> QED
    BY <1>1 DEF Init, DInv, HeldAt

LEMMA SetupCmdKeeps ==
  ASSUME DInv, SetupCmd
  PROVE  DInv'
  <1>1. rq.meta \in BOOLEAN
    BY RequestTypes DEF DInv
  <1>2. Shapes'
    <2>1. iod' \in Iods({iod'.first})
      <3>1. iod \in Iods({iod.first}) /\ iod' = [iod EXCEPT !.nr = -1, !.nents = 0]
        BY DEF DInv, Shapes, SetupCmd
      <3>2. iod' \in Iods({iod.first})
        BY <3>1, IodReset
      <3> QED
        BY <3>2, IodFirst
    <2>2. rq' = rq /\ cur' = cur /\ (pc' = "meta" => rq.meta) /\ pc' \in {"map", "meta", "flight", "returned"}
      BY <1>1 DEF SetupCmd, Go, Mapped
    <2> QED
      BY <2>1, <2>2 DEF DInv, Shapes
  <1>3. iod'.nr = -1
    BY DEF DInv, Shapes, SetupCmd, Iods
  <1>4. HeldAt'
    BY <1>1, <1>3 DEF DInv, HeldAt, Shapes, SetupCmd, Go, Mapped, Meta
  <1> QED
    BY <1>2, <1>4 DEF DInv, SetupCmd

LEMMA MapSimpleKeeps ==
  ASSUME DInv, MapSimple
  PROVE  DInv'
  <1>1. rq.meta \in BOOLEAN /\ First.len \in Nat \ {0} /\ rq.sgl # <<>>
    BY RequestTypes, Segments DEF DInv, HeldAt, MapSimple
  <1>2. Shapes'
    BY <1>1 DEF DInv, Shapes, MapSimple, Go, Mapped, Iods
  <1>3. iod'.nr = iod.nr /\ (pc' # "returned" => iod'.dmaLen # 0)
    BY <1>1 DEF DInv, Shapes, MapSimple, Go, Mapped, Iods
  <1>4. held = {"cmd"} /\ live = {} /\ iod.nr = -1 /\ rq' = rq /\ live' = live /\ lists' = lists /\ ~wrong
    BY DEF DInv, HeldAt, MapSimple
  <1>5. HeldAt' /\ ~wrong'
    <2>1. CASE Fails /\ Drop({"cmd"}) /\ Go("returned")
      BY <2>1, <1>4 DEF HeldAt, Drop, Go
    <2>2. CASE held' = held \cup {"page"} /\ Mapped /\ UNCHANGED wrong /\ iod'.dmaLen # 0
      <3>1. held' = {"cmd", "page"} /\ pc' \in {"meta", "flight"} /\ (pc' = "flight" => ~rq.meta)
        BY <2>2, <1>1, <1>4 DEF Mapped, Go
      <3> QED
        BY <3>1, <2>2, <1>1, <1>3, <1>4 DEF HeldAt, Meta
    <2> QED
      BY <2>1, <2>2, <1>3 DEF MapSimple, Mapped, Go
  <1> QED
    BY <1>2, <1>5 DEF DInv

LEMMA MapTableKeeps ==
  ASSUME DInv, MapTable
  PROVE  DInv'
  <1>1. rq.sgl # <<>> /\ Len(rq.sgl) \in Nat
    BY Segments DEF DInv, HeldAt, MapTable
  <1>2. iod' = [iod EXCEPT !.dmaLen = 0]
          \/ \E u \in BOOLEAN : iod' = [iod EXCEPT !.dmaLen = 0, !.nents = Len(rq.sgl), !.useSgl = u]
    BY DataAssumption DEF MapTable, DInv, Shapes, Requests
  <1>3. Shapes'
    <2>1. iod' \in Iods({iod'.first})
      <3>1. iod \in Iods({iod.first})
        BY DEF DInv, Shapes
      <3>2. CASE iod' = [iod EXCEPT !.dmaLen = 0]
        BY <3>1, <3>2, IodMapped, IodFirst
      <3>3. ASSUME NEW u \in BOOLEAN, iod' = [iod EXCEPT !.dmaLen = 0, !.nents = Len(rq.sgl), !.useSgl = u]
            PROVE  iod' \in Iods({iod'.first})
        <4>1. iod' \in Iods({iod.first})
          BY <1>1, <3>1, <3>3, IodMapped
        <4> QED
          BY <4>1, IodFirst
      <3> QED
        BY <1>2, <3>2, <3>3
    <2>2. rq' = rq /\ cur' = cur /\ pc' \in {"returned", "sgls", "prps"}
      BY DEF MapTable, Go
    <2> QED
      BY <2>1, <2>2 DEF DInv, Shapes
  <1>4. iod'.nr = iod.nr /\ iod'.dmaLen = 0 /\ (pc' # "returned" => iod'.nents = Len(rq.sgl))
    BY <1>1 DEF DInv, Shapes, MapTable, Go, Iods
  <1>5. held = {"cmd"} /\ live = {} /\ iod.nr = -1 /\ rq' = rq /\ live' = live /\ ~wrong
    BY DEF DInv, HeldAt, MapTable
  <1>6. \/ held' = {} /\ pc' = "returned" /\ ~wrong'
        \/ held' = {"cmd", "sg", "table"} /\ pc' \in {"prps", "sgls"} /\ ~wrong'
    BY <1>5 DEF MapTable, Drop, Go
  <1>7. HeldAt' /\ ~wrong'
    BY <1>1, <1>4, <1>5, <1>6 DEF HeldAt
  <1> QED
    BY <1>3, <1>7 DEF DInv

LEMMA NextRequestKeeps ==
  ASSUME DInv, NextRequest
  PROVE  DInv'
  <1>1. Shapes'
    BY DEF DInv, Shapes, NextRequest, Go, Requests
  <1> QED
    BY <1>1 DEF DInv, HeldAt, NextRequest, Go

(* Nothing has been described yet, or no list is needed for it. *)
LEMMA StartPrpsKeeps ==
  ASSUME DInv, StartPrps
  PROVE  DInv'
  <1>1. /\ rq.meta \in BOOLEAN /\ Bytes \in Nat /\ rq.sgl # <<>> /\ Len(rq.sgl) \in Nat \ {0}
        /\ First.len \in Nat \ {0} /\ Offset \in 0 .. Page - 1
        /\ Page \in Nat \ {0} /\ SmallPrps \in Nat
    BY RequestTypes, Segments, DataAssumption DEF DInv, HeldAt, StartPrps
  <1>2. /\ held = {"cmd", "sg", "table"} /\ live = {} /\ ~wrong /\ iod \in Iods({iod.first})
        /\ iod.nr = -1 /\ iod.dmaLen = 0 /\ iod.nents = Len(rq.sgl)
        /\ cur \in [sg : {cur.sg}, addr : {cur.addr}, len : {cur.len}, left : Int]
        /\ rq \in Requests /\ rq' = rq
    BY DEF DInv, HeldAt, Shapes, StartPrps
  <1> DEFINE left == Bytes - (Page - Offset)
             pool == IF CeilDiv(left, Page) <= SmallPrps THEN "small" ELSE "page"
  <1>3. left \in Int
    BY <1>1
  <1>4. ASSUME NEW first, PrpsDone(first), iod' = [iod EXCEPT !.first = first],
               UNCHANGED <<held, live, cur, wrong>>
        PROVE  DInv'
    <2>1. iod' \in Iods({first}) /\ iod'.nr = -1 /\ iod'.dmaLen = 0 /\ iod'.nents = Len(rq.sgl)
      BY <1>2, <1>4, IodListed DEF Iods
    <2>2. iod' \in Iods({iod'.first})
      BY <2>1, IodFirst
    <2>3. pc' \in {"meta", "flight"} /\ (pc' = "meta" <=> rq.meta)
      BY <1>1, <1>4 DEF PrpsDone, Mapped, Go
    <2>4. Shapes'
      BY <1>2, <1>4, <2>2, <2>3 DEF Shapes
    <2>5. HeldAt'
      BY <1>1, <1>2, <1>4, <2>1, <2>3 DEF HeldAt, Meta
    <2> QED
      BY <1>2, <1>4, <2>4, <2>5 DEF DInv
  <1>5. ASSUME Fails, Undo, iod' = [iod EXCEPT !.nr = -1], UNCHANGED <<live, cur>>
        PROVE  DInv'
    <2>1. iod' \in Iods({iod'.first})
      <3>1. -1 \in Int
        OBVIOUS
      <3> QED
        BY <1>2, <1>5, <3>1, IodListed, IodFirst
    <2>2. held' = {} /\ pc' = "returned" /\ ~wrong'
      BY <1>2, <1>5 DEF Undo, Drop, Go
    <2> QED
      BY <1>2, <1>5, <2>1, <2>2 DEF DInv, Shapes, HeldAt
  <1>6. ASSUME NEW next, left > Page,
               lists' = <<[pool |-> pool, entry |-> <<>>]>>, live' = {1},
               iod' = [iod EXCEPT !.nr = IF pool = "small" THEN 0 ELSE 1, !.first = -1],
               next \in [sg : {next.sg}, addr : {next.addr}, len : {next.len}, left : {left}],
               cur' = next, Go("fill"), UNCHANGED <<held, wrong>>
        PROVE  DInv'
    <2>1. /\ iod' \in Iods({-1}) /\ iod'.nr = (IF pool = "small" THEN 0 ELSE 1)
          /\ iod'.dmaLen = 0 /\ iod'.nents = Len(rq.sgl) /\ iod'.first = -1
      <3> DEFINE n == IF pool = "small" THEN 0 ELSE 1
      <3>1. n \in Int
        OBVIOUS
      <3>2. iod' = [iod EXCEPT !.nr = n, !.first = -1]
        BY <1>6
      <3> HIDE DEF n, pool
      <3>3. iod' \in Iods({-1})
        BY <1>2, <3>1, <3>2, IodListed
      <3>4. iod'.nr = n /\ iod'.dmaLen = 0 /\ iod'.nents = Len(rq.sgl) /\ iod'.first = -1
        BY <1>2, <3>2 DEF Iods
      <3> QED
        BY <3>3, <3>4 DEF n
    <2>2. iod' \in Iods({iod'.first})
      BY <2>1, IodFirst
    <2>3. cur' \in [sg : {cur'.sg}, addr : {cur'.addr}, len : {cur'.len}, left : Int] /\ cur'.left = left
      BY <1>3, <1>6
    <2>4. Shapes'
      BY <1>2, <1>6, <2>2, <2>3 DEF Shapes, Go
    <2>5. /\ IsSeq(lists') /\ Len(lists') = 1 /\ lists'[1] = [pool |-> pool, entry |-> <<>>]
          /\ IsSeq(lists'[1].entry) /\ Len(lists'[1].entry) = 0 /\ lists'[1].pool = pool
      BY <1>6, SingleIsSeq, EmptyIsSeq
    <2>6. Chained'
      BY <1>6, <2>1, <2>5 DEF Chained, LinkedLists
    <2>7. pool = "small" => left <= Page * SmallPrps
      BY <1>1, <1>3, CeilDivBound
    <2>8. Room'
      <3> HIDE DEF left, pool
      <3>1. cur'.left > 0
        BY <1>1, <1>3, <1>6, <2>3
      <3>2. Page * 0 + left = left
        BY <1>1, <1>3
      <3> QED
        BY <2>1, <2>3, <2>5, <2>7, <3>1, <3>2 DEF Room
    <2> QED
      BY <1>1, <1>2, <1>6, <2>1, <2>4, <2>6, <2>8 DEF DInv, HeldAt, Go
  <1> DEFINE rest == First.len - (Page - Offset)
             next == IF rest # 0
                     THEN [sg |-> 1, addr |-> First.addr + Page - Offset, len |-> rest, left |-> left]
                     ELSE [sg |-> 2, addr |-> rq.sgl[2].addr, len |-> rq.sgl[2].len, left |-> left]
  <1>7. next \in [sg : {next.sg}, addr : {next.addr}, len : {next.len}, left : {left}]
    OBVIOUS
  <1> HIDE DEF DInv
  <1> QED
    <2>1. CASE PrpsDone(0) /\ iod' = [iod EXCEPT !.first = 0] /\ UNCHANGED <<held, live, cur, wrong>>
      BY <2>1, <1>4
    <2>2. CASE PrpsDone(next.addr) /\ iod' = [iod EXCEPT !.first = next.addr]
               /\ UNCHANGED <<held, live, cur, wrong>>
      BY <2>2, <1>4
    <2>3. CASE Fails /\ Undo /\ iod' = [iod EXCEPT !.nr = -1] /\ UNCHANGED <<live, cur>>
      BY <2>3, <1>5
    <2>4. CASE /\ left > Page
               /\ lists' = <<[pool |-> pool, entry |-> <<>>]>> /\ live' = {1}
               /\ iod' = [iod EXCEPT !.nr = IF pool = "small" THEN 0 ELSE 1, !.first = -1]
               /\ cur' = next /\ Go("fill") /\ UNCHANGED <<held, wrong>>
      <3> HIDE DEF next, left, pool
      <3> QED
        BY <2>4, <1>6, <1>7
    <2> QED
      BY <2>1, <2>2, <2>3, <2>4 DEF StartPrps

(* Lists that are chained are freed to their pool by their bus addresses. *)
LEMMA ChainIsFreed ==
  ASSUME Chained
  PROVE  /\ iod.nr = 0 => FreedRight({1}, "small") /\ live \ {1} = {}
         /\ iod.nr # 0 => FreedRight(Chain, "page") /\ live \ Chain = {}
         /\ iod.nr \in Nat
  <1>1. Len(lists) \in Nat \ {0}
    BY DEF Chained, LinkedLists, IsSeq
  <1>2. \A k \in 1 .. Len(lists) : BusAddr(k) = -k
    <2> SUFFICES ASSUME NEW k \in 1 .. Len(lists) PROVE BusAddr(k) = -k
      OBVIOUS
    <2>1. CASE k = 1
      BY <2>1 DEF BusAddr, Chained
    <2>2. CASE k # 1
      <3>1. k - 1 \in 1 .. Len(lists) - 1 /\ (k - 1) + 1 = k
        BY <1>1, <2>2
      <3>2. Len(lists[k - 1].entry) = ListPrps /\ lists[k - 1].entry[ListPrps] = -((k - 1) + 1)
        BY <3>1 DEF Chained, LinkedLists
      <3> QED
        BY <2>2, <3>1, <3>2 DEF BusAddr
    <2> QED
      BY <2>1, <2>2
  <1>3. live = 1 .. Len(lists)
    BY DEF Chained
  <1>4. CASE iod.nr = 0 /\ Len(lists) = 1 /\ lists[1].pool = "small"
    BY <1>2, <1>3, <1>4 DEF FreedRight
  <1>5. CASE iod.nr = Len(lists) /\ \A k \in 1 .. Len(lists) : lists[k].pool = "page"
    <2>1. Chain = 1 .. Len(lists) /\ iod.nr # 0 /\ iod.nr \in Nat
      BY <1>1, <1>5 DEF Chain
    <2>2. FreedRight(Chain, "page")
      BY <1>2, <1>3, <1>5, <2>1 DEF FreedRight
    <2> QED
      BY <1>3, <2>1, <2>2
  <1> QED
    BY <1>4, <1>5 DEF Chained

LEMMA UnmapRight ==
  ASSUME DInv, pc \in {"meta", "flight"}, rq.sgl # <<>>, NEW more, more \subseteq {"cmd"} \cup Meta,
         UnmapData(more)
  PROVE  held' = ({"cmd"} \cup Meta) \ more /\ live' = {} /\ wrong' = FALSE
  <1>0. Meta \subseteq {"meta"} /\ iod.dmaLen \in Nat /\ Len(rq.sgl) # 0 /\ wrong = FALSE
    BY Segments DEF Meta, DInv, Shapes, Iods
  <1>1. CASE iod.dmaLen # 0
    <2>1. held = {"cmd", "page"} \cup Meta /\ live = {} /\ iod.nr = -1
      BY <1>1 DEF DInv, HeldAt
    <2> QED
      BY <1>0, <1>1, <2>1 DEF UnmapData, FreedRight
  <1>2. CASE iod.dmaLen = 0 /\ Chained
    <2>1. held = {"cmd", "sg", "table"} \cup Meta /\ iod.nents = Len(rq.sgl)
      BY <1>2 DEF DInv, HeldAt
    <2>2. CASE iod.nr = 0
      BY <1>0, <1>2, <2>1, <2>2, ChainIsFreed DEF UnmapData
    <2>3. CASE iod.nr # 0
      BY <1>0, <1>2, <2>1, <2>3, ChainIsFreed DEF UnmapData
    <2> QED
      BY <2>2, <2>3
  <1>3. CASE iod.dmaLen = 0 /\ iod.nr = -1 /\ live = {}
    <2>1. held = {"cmd", "sg", "table"} \cup Meta /\ iod.nents = Len(rq.sgl)
      BY <1>3 DEF DInv, HeldAt
    <2>2. Chain = {} /\ iod.nr # 0
      BY <1>3 DEF Chain
    <2>3. FreedRight({}, "page")
      BY DEF FreedRight
    <2> QED
      BY <1>0, <1>3, <2>1, <2>2, <2>3 DEF UnmapData
  <1> QED
    BY <1>1, <1>2, <1>3 DEF DInv, HeldAt

LEMMA CompleteRqKeeps ==
  ASSUME DInv, CompleteRq
  PROVE  DInv'
  <1> DEFINE more == {"cmd"} \cup (IF rq.meta THEN {"meta"} ELSE {})
  <1>1. more = {"cmd"} \cup Meta
    BY DEF CompleteRq, Meta
  <1>2. held' = {} /\ live' = {} /\ wrong' = FALSE
    <2>1. CASE rq.sgl # <<>>
      <3>1. UnmapData(more) /\ pc = "flight"
        BY <2>1 DEF CompleteRq
      <3> HIDE DEF more
      <3> QED
        BY <1>1, <2>1, <3>1, UnmapRight
    <2>2. CASE rq.sgl = <<>>
      <3>1. held = {"cmd"} \cup Meta /\ live = {} /\ wrong = FALSE
        BY <2>2 DEF DInv, HeldAt, CompleteRq, Shapes
      <3>2. Drop(more) /\ live' = live
        BY <2>2 DEF CompleteRq
      <3> HIDE DEF more
      <3> QED
        BY <1>1, <3>1, <3>2 DEF Drop
    <2> QED
      BY <2>1, <2>2
  <1> QED
    BY <1>2 DEF DInv, Shapes, HeldAt, CompleteRq, Go

LEMMA MapMetadataKeeps ==
  ASSUME DInv, MapMetadata
  PROVE  DInv'
  <1>1. pc = "meta" /\ rq.meta /\ Meta = {} /\ wrong = FALSE /\ UNCHANGED <<rq, iod, lists, cur>>
    BY DEF DInv, Shapes, MapMetadata, Meta
  <1>2. CASE pc' = "returned" /\ IF rq.sgl # <<>> THEN UnmapData({"cmd"}) ELSE Drop({"cmd"}) /\ UNCHANGED live
    <2>1. held' = {} /\ live' = {} /\ wrong' = FALSE
      <3>1. CASE rq.sgl # <<>>
        BY <1>1, <1>2, <3>1, UnmapRight
      <3>2. CASE rq.sgl = <<>>
        <4>1. held = {"cmd"} /\ live = {}
          BY <1>1, <3>2 DEF DInv, HeldAt
        <4> QED
          BY <1>1, <1>2, <3>2, <4>1 DEF Drop
      <3> QED
        BY <3>1, <3>2
    <2> QED
      BY <1>1, <1>2, <2>1 DEF DInv, Shapes, HeldAt
  <1>3. CASE held' = held \cup {"meta"} /\ pc' = "flight" /\ UNCHANGED <<live, wrong>>
    <2>1. Meta' = {"meta"} /\ (Chained' <=> Chained)
      BY <1>1, <1>3 DEF Meta, Chained, LinkedLists
    <2>2. Shapes'
      BY <1>1, <1>3 DEF DInv, Shapes
    <2>3. CASE rq.sgl = <<>>
      BY <1>1, <1>3, <2>1, <2>2, <2>3 DEF DInv, HeldAt
    <2>4. CASE rq.sgl # <<>> /\ iod.dmaLen # 0
      BY <1>1, <1>3, <2>1, <2>2, <2>4 DEF DInv, HeldAt
    <2>5. CASE rq.sgl # <<>> /\ iod.dmaLen = 0
      BY <1>1, <1>3, <2>1, <2>2, <2>5 DEF DInv, HeldAt
    <2> QED
      BY <2>3, <2>4, <2>5
  <1> QED
    BY <1>2, <1>3 DEF MapMetadata, Go

LEMMA SetupSglsKeeps ==
  ASSUME DInv, SetupSgls
  PROVE  DInv'
  <1>1. /\ held = {"cmd", "sg", "table"} /\ live = {} /\ wrong = FALSE /\ iod \in Iods({iod.first})
        /\ iod.nr = -1 /\ iod.dmaLen = 0 /\ iod.nents = Len(rq.sgl) /\ rq.sgl # <<>>
        /\ rq \in Requests /\ UNCHANGED <<rq, cur>> /\ rq.meta \in BOOLEAN
        /\ cur \in [sg : {cur.sg}, addr : {cur.addr}, len : {cur.len}, left : Int]
    BY RequestTypes DEF DInv, HeldAt, Shapes, SetupSgls
  <1>2. IsSeq(rq.sgl)
    BY <1>1, Segments, SeqIsSeq DEF DInv
  <1>3. CASE Mapped /\ UNCHANGED <<iod, held, lists, live, wrong>>
    <2>1. pc' \in {"meta", "flight"} /\ (pc' = "meta" <=> rq.meta)
      BY <1>1, <1>3 DEF Mapped, Go
    <2>2. Shapes'
      BY <1>1, <1>3, <2>1 DEF Shapes
    <2>3. HeldAt'
      BY <1>1, <1>3, <2>1 DEF HeldAt, Meta
    <2> QED
      BY <1>1, <1>3, <2>2, <2>3 DEF DInv
  <1>4. CASE Undo /\ iod' = [iod EXCEPT !.nr = -1] /\ UNCHANGED <<lists, live>>
    <2>1. iod' \in Iods({iod'.first})
      <3>1. -1 \in Int
        OBVIOUS
      <3>2. iod' \in Iods({iod.first})
        BY <1>1, <1>4, <3>1, IodListed
      <3> QED
        BY <3>2, IodFirst
    <2>2. held' = {} /\ pc' = "returned" /\ ~wrong'
      BY <1>1, <1>4 DEF Undo, Drop, Go
    <2> QED
      BY <1>1, <1>4, <2>1, <2>2 DEF DInv, Shapes, HeldAt
  <1>5. ASSUME NEW pool \in {"small", "page"},
               lists' = <<[pool |-> pool, entry |-> rq.sgl]>>, live' = {1},
               iod' = [iod EXCEPT !.nr = IF pool = "small" THEN 0 ELSE 1, !.first = -1],
               Mapped, UNCHANGED <<held, wrong>>
        PROVE  DInv'
    <2>1. /\ iod' \in Iods({-1}) /\ iod'.nr = (IF pool = "small" THEN 0 ELSE 1)
          /\ iod'.dmaLen = 0 /\ iod'.nents = Len(rq.sgl) /\ iod'.first = -1
      <3> DEFINE n == IF pool = "small" THEN 0 ELSE 1
      <3>1. n \in Int
        OBVIOUS
      <3>2. iod' = [iod EXCEPT !.nr = n, !.first = -1]
        BY <1>5
      <3> HIDE DEF n
      <3>3. iod' \in Iods({-1})
        BY <1>1, <3>1, <3>2, IodListed
      <3>4. iod'.nr = n /\ iod'.dmaLen = 0 /\ iod'.nents = Len(rq.sgl) /\ iod'.first = -1
        BY <1>1, <3>2 DEF Iods
      <3> QED
        BY <3>3, <3>4 DEF n
    <2>2. iod' \in Iods({iod'.first})
      BY <2>1, IodFirst
    <2>3. pc' \in {"meta", "flight"} /\ (pc' = "meta" <=> rq.meta)
      BY <1>1, <1>5 DEF Mapped, Go
    <2>4. Shapes'
      BY <1>1, <2>2, <2>3 DEF Shapes
    <2>5. /\ IsSeq(lists') /\ Len(lists') = 1 /\ lists'[1] = [pool |-> pool, entry |-> rq.sgl]
          /\ IsSeq(lists'[1].entry) /\ lists'[1].pool = pool
      BY <1>2, <1>5, SingleIsSeq
    <2>6. Chained'
      BY <1>5, <2>1, <2>5 DEF Chained, LinkedLists
    <2>7. HeldAt'
      BY <1>1, <1>5, <2>1, <2>3, <2>6 DEF HeldAt, Meta
    <2> QED
      BY <1>1, <1>5, <2>4, <2>7 DEF DInv
  <1> DEFINE kind == IF iod.nents <= SmallSgls THEN "small" ELSE "page"
  <1>6. kind \in {"small", "page"}
    OBVIOUS
  <1> QED
    <2>1. CASE /\ lists' = <<[pool |-> kind, entry |-> rq.sgl]>> /\ live' = {1}
               /\ iod' = [iod EXCEPT !.nr = IF kind = "small" THEN 0 ELSE 1, !.first = -1]
               /\ Mapped /\ UNCHANGED <<held, wrong>>
      <3> HIDE DEF kind
      <3> QED
        BY <1>5, <1>6, <2>1
    <2> QED
      BY <1>3, <1>4, <2>1 DEF SetupSgls

-----------------------------------------------------------------------------
(* A list with other entries is of the same pool. *)
LEMMA ListWith ==
  ASSUME NEW r, r = [pool |-> r.pool, entry |-> r.entry], NEW x
  PROVE  [r EXCEPT !.entry = x] = [pool |-> r.pool, entry |-> x]
  <1> DEFINE p == r.pool
             q == r.entry
  <1>1. r = [pool |-> p, entry |-> q]
    OBVIOUS
  <1> HIDE DEF p, q
  <1>2. [r EXCEPT !.entry = x] = [pool |-> p, entry |-> x]
    BY <1>1
  <1> QED
    BY <1>2 DEF p

LEMMA NewestList ==
  ASSUME LinkedLists(lists)
  PROVE  /\ Len(lists) \in Nat \ {0} /\ Newest = lists[Len(lists)].entry
         /\ IsSeq(Newest) /\ Len(Newest) \in Nat
  <1>1. Len(lists) \in Nat \ {0}
    BY DEF LinkedLists, IsSeq
  <1>2. Newest = lists[Len(lists)].entry
    BY DEF Newest, Last
  <1>3. IsSeq(Newest)
    <2>1. Len(lists) \in 1 .. Len(lists)
      BY <1>1
    <2> QED
      BY <1>2, <2>1 DEF LinkedLists
  <1> QED
    BY <1>1, <1>2, <1>3, AppendIsSeq

(* A small list does not become full, so it is never chained. *)
LEMMA SmallHasRoom ==
  ASSUME Chained, Room, cur.left \in Int, iod.nr = 0
  PROVE  Len(Newest) # ListPrps
  <1>1. Len(lists) = 1 /\ Len(Newest) \in Nat /\ Newest = lists[1].entry
    BY NewestList DEF Chained, LinkedLists
  <1>2. /\ Page \in Nat \ {0} /\ ListPrps \in Nat /\ SmallPrps \in Nat /\ SmallPrps < ListPrps
    BY DataAssumption
  <1>3. Page * Len(Newest) < Page * SmallPrps
    BY <1>1, <1>2 DEF Room
  <1>4. Len(Newest) < SmallPrps
    BY <1>1, <1>2, <1>3
  <1> QED
    BY <1>1, <1>2, <1>4

(* An address is added to the newest list. *)
LEMMA AppendKeeps ==
  ASSUME NEW ls, LinkedLists(ls), NEW a,
         NEW ms, ms = [ls EXCEPT ![Len(ls)].entry = Append(@, a)]
  PROVE  /\ LinkedLists(ms) /\ Len(ms) = Len(ls)
         /\ \A k \in 1 .. Len(ls) : ms[k].pool = ls[k].pool
         /\ \A k \in 1 .. Len(ls) : k = Len(ls) => Len(ms[k].entry) = Len(ls[k].entry) + 1
  <1> DEFINE n == Len(ls)
             e == [ls[n] EXCEPT !.entry = Append(ls[n].entry, a)]
  <1>1. IsSeq(ls) /\ n \in Nat \ {0} /\ n \in 1 .. n
    BY DEF LinkedLists, IsSeq
  <1>2. ls[n] = [pool |-> ls[n].pool, entry |-> ls[n].entry] /\ IsSeq(ls[n].entry)
    BY <1>1 DEF LinkedLists
  <1>3. e = [pool |-> ls[n].pool, entry |-> Append(ls[n].entry, a)]
    BY <1>2, ListWith
  <1>4. e.pool = ls[n].pool /\ e.entry = Append(ls[n].entry, a)
        /\ e = [pool |-> e.pool, entry |-> e.entry]
    BY <1>3
  <1>5. IsSeq(e.entry) /\ Len(e.entry) = Len(ls[n].entry) + 1
    BY <1>2, <1>4, AppendIsSeq
  <1>6. ms = [ls EXCEPT ![n] = e]
    OBVIOUS
  <1>n. n = Len(ls) /\ n \in 1 .. Len(ls)
    BY <1>1
  <1> HIDE DEF e, n
  <1>7. IsSeq(ms) /\ Len(ms) = n /\ ms[n] = e /\ \A i \in 1 .. n \ {n} : ms[i] = ls[i]
    <2>1. IsSeq(ms)
      BY <1>1, <1>6, <1>n, ReplaceIsSeq
    <2>2. Len(ms) = Len(ls)
      BY <1>1, <1>6, <1>n, ReplaceIsSeq
    <2>3. ms[n] = e
      BY <1>1, <1>6, <1>n, ReplaceIsSeq
    <2>4. \A i \in 1 .. Len(ls) \ {n} : ms[i] = ls[i]
      BY <1>1, <1>6, <1>n, ReplaceIsSeq
    <2> QED
      BY <1>n, <2>1, <2>2, <2>3, <2>4
  <1>8. LinkedLists(ms)
    <2>1. ASSUME NEW k \in 1 .. n
          PROVE  ms[k] = [pool |-> ms[k].pool, entry |-> ms[k].entry] /\ IsSeq(ms[k].entry)
      <3>1. CASE k = n
        BY <1>4, <1>5, <1>7, <3>1
      <3>2. CASE k # n
        <4>1. ms[k] = ls[k]
          BY <1>7, <3>2
        <4> QED
          BY <1>n, <4>1 DEF LinkedLists
      <3> QED
        BY <3>1, <3>2
    <2>2. ASSUME NEW k \in 1 .. n - 1
          PROVE  Len(ms[k].entry) = ListPrps /\ ms[k].entry[ListPrps] = -(k + 1)
      <3>1. ms[k] = ls[k]
        BY <1>1, <1>7
      <3> QED
        BY <1>n, <3>1 DEF LinkedLists
    <2>3. Len(ms) > 0
      BY <1>1, <1>7
    <2>4. /\ \A k \in 1 .. Len(ms) : /\ ms[k] = [pool |-> ms[k].pool, entry |-> ms[k].entry]
                                   /\ IsSeq(ms[k].entry)
          /\ \A k \in 1 .. Len(ms) - 1 : Len(ms[k].entry) = ListPrps /\ ms[k].entry[ListPrps] = -(k + 1)
      BY <1>7, <2>1, <2>2
    <2> QED
      BY <1>7, <2>3, <2>4 DEF LinkedLists
  <1> QED
    BY <1>n, <1>4, <1>5, <1>7, <1>8

(* Another list is chained: the full one ends in a link to it. *)
LEMMA GrowKeeps ==
  ASSUME LinkedLists(lists), Len(Newest) = ListPrps
  PROVE  /\ LinkedLists(Grown) /\ Len(Grown) = Len(lists) + 1
         /\ \A k \in 1 .. Len(lists) : Grown[k].pool = lists[k].pool
         /\ Grown[Len(lists) + 1].pool = lists[Len(lists)].pool
  <1> DEFINE n  == Len(lists)
             l  == [lists[n].entry EXCEPT ![ListPrps] = -(n + 1)]
             e  == [lists[n] EXCEPT !.entry = l]
             ls == [lists EXCEPT ![n] = e]
             g  == [pool |-> lists[n].pool, entry |-> <<Newest[ListPrps]>>]
  <1>1. IsSeq(lists) /\ n \in Nat \ {0} /\ n \in 1 .. n
    BY DEF LinkedLists, IsSeq
  <1>2. /\ lists[n] = [pool |-> lists[n].pool, entry |-> lists[n].entry] /\ IsSeq(lists[n].entry)
        /\ Newest = lists[n].entry
    BY <1>1, NewestList DEF LinkedLists
  <1>3. ListPrps \in 1 .. Len(lists[n].entry)
    BY <1>2, DataAssumption
  <1>4. IsSeq(l) /\ Len(l) = ListPrps /\ l[ListPrps] = -(n + 1)
    <2> DEFINE s == lists[n].entry
               x == -(n + 1)
    <2>1. IsSeq(s) /\ ListPrps \in 1 .. Len(s) /\ Len(s) = ListPrps /\ l = [s EXCEPT ![ListPrps] = x]
      BY <1>2, <1>3
    <2> HIDE DEF s, x, l
    <2>2. IsSeq(l)
      BY <2>1, ReplaceIsSeq
    <2>3. Len(l) = Len(s)
      BY <2>1, ReplaceIsSeq
    <2>4. l[ListPrps] = x
      BY <2>1, ReplaceIsSeq
    <2> QED
      BY <2>1, <2>2, <2>3, <2>4 DEF x
  <1>5. e.pool = lists[n].pool /\ e.entry = l /\ e = [pool |-> e.pool, entry |-> e.entry]
    <2>1. e = [pool |-> lists[n].pool, entry |-> l]
      BY <1>2, ListWith
    <2> QED
      BY <2>1
  <1>6. Grown = Append(ls, g)
    BY DEF Grown
  <1>7. g.pool = lists[n].pool /\ g = [pool |-> g.pool, entry |-> g.entry] /\ IsSeq(g.entry)
    BY SingleIsSeq
  <1>m. ls = [lists EXCEPT ![n] = e] /\ n \in 1 .. Len(lists)
    BY <1>1
  <1> HIDE DEF e, n, l, g, ls
  <1>8. IsSeq(ls) /\ Len(ls) = n /\ ls[n] = e /\ \A i \in 1 .. n \ {n} : ls[i] = lists[i]
    <2>1. Len(lists) = n
      BY DEF n
    <2>2. IsSeq(ls)
      BY <1>1, <1>m, ReplaceIsSeq
    <2>3. Len(ls) = Len(lists)
      BY <1>1, <1>m, ReplaceIsSeq
    <2>4. ls[n] = e
      BY <1>1, <1>m, ReplaceIsSeq
    <2>5. \A i \in 1 .. Len(lists) \ {n} : ls[i] = lists[i]
      BY <1>1, <1>m, ReplaceIsSeq
    <2> QED
      BY <2>1, <2>2, <2>3, <2>4, <2>5
  <1>9. /\ IsSeq(Grown) /\ Len(Grown) = n + 1 /\ Grown[n + 1] = g
        /\ \A k \in 1 .. n : Grown[k] = ls[k]
    BY <1>6, <1>8, AppendIsSeq
  <1>10. LinkedLists(Grown)
    <2>1. \A k \in 1 .. n + 1 : Grown[k] = [pool |-> Grown[k].pool, entry |-> Grown[k].entry]
                               /\ IsSeq(Grown[k].entry)
      <3> SUFFICES ASSUME NEW k \in 1 .. n + 1
                   PROVE  Grown[k] = [pool |-> Grown[k].pool, entry |-> Grown[k].entry]
                          /\ IsSeq(Grown[k].entry)
        OBVIOUS
      <3>1. CASE k = n + 1
        BY <1>7, <1>9, <3>1
      <3>2. CASE k = n
        BY <1>1, <1>4, <1>5, <1>8, <1>9, <3>2
      <3>3. CASE k \in 1 .. n \ {n}
        <4>1. Grown[k] = lists[k]
          BY <1>8, <1>9, <3>3
        <4> QED
          BY <3>3, <4>1 DEF LinkedLists, n
      <3> QED
        BY <1>1, <3>1, <3>2, <3>3
    <2>2. \A k \in 1 .. n : Len(Grown[k].entry) = ListPrps /\ Grown[k].entry[ListPrps] = -(k + 1)
      BY <1>1, <1>4, <1>5, <1>8, <1>9 DEF LinkedLists, n
    <2> QED
      BY <1>1, <1>9, <2>1, <2>2 DEF LinkedLists
  <1> QED
    BY <1>1, <1>5, <1>7, <1>8, <1>9, <1>10 DEF n

(* A list is full: what it ends in makes room for the link to the next, or *)
(* everything is released.                                                 *)
LEMMA FillPrpsKeeps ==
  ASSUME DInv, FillPrps
  PROVE  DInv'
  <1> DEFINE n    == Len(lists)
             full == Len(Newest) = ListPrps
             base == IF full THEN Grown ELSE lists
             left == cur.left - Page
  <1>1. /\ held = {"cmd", "sg", "table"} /\ wrong = FALSE /\ Chained /\ Room /\ rq.sgl # <<>>
        /\ iod.dmaLen = 0 /\ iod.nents = Len(rq.sgl) /\ iod \in Iods({iod.first})
        /\ cur \in [sg : {cur.sg}, addr : {cur.addr}, len : {cur.len}, left : Int]
        /\ rq \in Requests /\ rq' = rq /\ rq.meta \in BOOLEAN /\ pc = "fill"
    BY RequestTypes DEF DInv, HeldAt, Shapes, FillPrps
  <1>2. LinkedLists(lists) /\ n \in Nat \ {0} /\ Len(Newest) \in Nat /\ Newest = lists[n].entry
        /\ cur.left \in Int /\ Page \in Nat \ {0}
    BY <1>1, NewestList, DataAssumption DEF Chained
  <1>3. CASE /\ full
             /\ live' = live \ Chain
             /\ held' = held \ {"table", "sg", "cmd"}
             /\ wrong' = (wrong \/ ~FreedRight(Chain, "page"))
             /\ Go("returned") /\ UNCHANGED <<iod, lists, cur, dptr>>
    <2>1. iod.nr # 0
      BY <1>1, <1>2, <1>3, SmallHasRoom
    <2>2. held' = {} /\ live' = {} /\ wrong' = FALSE /\ pc' = "returned"
      BY <1>1, <1>3, <2>1, ChainIsFreed DEF Go
    <2> QED
      BY <1>1, <1>3, <2>2 DEF DInv, Shapes, HeldAt
  <1>4. CASE /\ lists' = [base EXCEPT ![Len(base)].entry = Append(@, cur.addr)]
             /\ live' = live \cup {Len(base)}
             /\ iod' = IF full THEN [iod EXCEPT !.nr = @ + 1] ELSE iod
             /\ \/ left <= 0 /\ PrpsDone(iod.first) /\ UNCHANGED cur
                \/ /\ left > 0 /\ UNCHANGED <<pc, dptr>>
                   /\ cur' = [sg |-> cur'.sg, addr |-> cur'.addr, len |-> cur'.len, left |-> left]
             /\ UNCHANGED <<held, fails, wrong>>
    <2>1. /\ LinkedLists(base) /\ Len(base) \in {n, n + 1} /\ (Len(base) = n <=> ~full)
          /\ \A k \in 1 .. Len(base) : base[k].pool = lists[IF k = n + 1 THEN n ELSE k].pool
      <3>1. CASE full
        BY <1>2, <3>1, GrowKeeps
      <3>2. CASE ~full
        BY <1>2, <3>2
      <3> QED
        BY <3>1, <3>2
    <2>2. iod'.nr = (IF full THEN iod.nr + 1 ELSE iod.nr) /\ iod' \in Iods({iod'.first})
          /\ iod'.first = iod.first /\ iod'.dmaLen = 0 /\ iod'.nents = Len(rq.sgl)
      BY <1>1, <1>4 DEF Iods
    <2>3. full => iod.nr # 0
      BY <1>1, <1>2, SmallHasRoom
    <2> DEFINE m == Len(base)
    <2>4. lists' = [base EXCEPT ![Len(base)].entry = Append(@, cur.addr)]
      BY <1>4
    <2>5. ~full => base = lists
      OBVIOUS
    <2>6. live' = live \cup {m}
      BY <1>4
    <2> HIDE DEF base, full
    <2>7. LinkedLists(lists') /\ Len(lists') = m
          /\ (\A k \in 1 .. m : lists'[k].pool = base[k].pool)
          /\ Len(lists'[m].entry) = Len(base[m].entry) + 1
      <3>1. LinkedLists(lists')
        BY <2>1, <2>4, AppendKeeps
      <3>2. Len(lists') = Len(base)
        BY <2>1, <2>4, AppendKeeps
      <3>3. \A k \in 1 .. Len(base) : lists'[k].pool = base[k].pool
        BY <2>1, <2>4, AppendKeeps
      <3>4. \A k \in 1 .. Len(base) : k = Len(base) => Len(lists'[k].entry) = Len(base[k].entry) + 1
        BY <2>1, <2>4, AppendKeeps
      <3>5. m \in 1 .. m
        BY <1>2, <2>1
      <3> QED
        BY <3>1, <3>2, <3>3, <3>4, <3>5
    <2>8. Chained'
      <3>1. live' = 1 .. m /\ iod'.first = -1
        BY <1>1, <1>2, <2>1, <2>2, <2>6 DEF Chained
      <3>2. CASE iod.nr = 0 /\ n = 1 /\ lists[1].pool = "small"
        BY <1>2, <2>1, <2>2, <2>3, <2>7, <3>1, <3>2 DEF Chained
      <3>3. CASE iod.nr = n /\ \A k \in 1 .. n : lists[k].pool = "page"
        <4>1. iod'.nr = m
          BY <1>2, <2>1, <2>2, <3>3
        <4>2. \A k \in 1 .. m : lists'[k].pool = "page"
          BY <1>2, <2>1, <2>7, <3>3
        <4> QED
          BY <2>7, <3>1, <4>1, <4>2 DEF Chained
      <3> QED
        BY <1>1, <3>2, <3>3 DEF Chained
    <2>9. CASE left <= 0 /\ PrpsDone(iod.first) /\ UNCHANGED cur
      <3>1. pc' \in {"meta", "flight"} /\ (pc' = "meta" <=> rq.meta)
        BY <1>1, <2>9 DEF PrpsDone, Mapped, Go
      <3>2. Shapes'
        BY <1>1, <2>2, <2>9, <3>1 DEF Shapes
      <3>3. HeldAt'
        BY <1>1, <1>4, <2>2, <2>8, <3>1 DEF HeldAt, Meta
      <3> QED
        BY <1>1, <1>4, <3>2, <3>3 DEF DInv
    <2>10. CASE /\ left > 0 /\ UNCHANGED <<pc, dptr>>
                /\ cur' = [sg |-> cur'.sg, addr |-> cur'.addr, len |-> cur'.len, left |-> left]
      <3>1. cur'.left = left /\ left \in Int
            /\ cur' \in [sg : {cur'.sg}, addr : {cur'.addr}, len : {cur'.len}, left : Int]
        BY <1>2, <2>10
      <3>2. Shapes'
        BY <1>1, <2>2, <2>10, <3>1 DEF Shapes
      <3>3. Room'
        <4>1. CASE iod'.nr = 0
          <5>1. ~full /\ iod.nr = 0
            BY <1>1, <2>2, <2>3, <4>1, ChainIsFreed
          <5>2. n = 1 /\ m = 1 /\ base = lists
            BY <1>1, <1>2, <2>1, <2>5, <5>1 DEF Chained
          <5>3. Len(lists'[1].entry) = Len(Newest) + 1 /\ Newest = lists[1].entry
            BY <1>2, <2>7, <5>2
          <5>4. Page * (Len(Newest) + 1) = Page * Len(Newest) + Page
            BY <1>2
          <5>5. Page * Len(Newest) + cur.left <= Page * SmallPrps
            BY <1>1, <5>1, <5>3 DEF Room
          <5>6. Page * Len(lists'[1].entry) + cur'.left <= Page * SmallPrps
            <6> DEFINE p == Page * Len(Newest)
                       q == Page * SmallPrps
            <6>1. p \in Int /\ q \in Int
              BY <1>2, DataAssumption
            <6>2. Page * Len(lists'[1].entry) = p + Page
              BY <5>3, <5>4
            <6> QED
              BY <1>2, <3>1, <5>5, <6>1, <6>2
          <5> QED
            BY <2>10, <3>1, <4>1, <5>6 DEF Room
        <4>2. CASE iod'.nr # 0
          BY <2>10, <3>1, <4>2 DEF Room
        <4> QED
          BY <4>1, <4>2
      <3>4. HeldAt'
        BY <1>1, <1>4, <2>2, <2>8, <2>10, <3>3 DEF HeldAt
      <3> QED
        BY <1>1, <1>4, <3>2, <3>4 DEF DInv
    <2> QED
      BY <1>4, <2>9, <2>10
  <1> QED
    <2>1. cur' = [cur EXCEPT !.addr = @ + Page, !.len = cur.len - Page, !.left = left] =>
            cur' = [sg |-> cur'.sg, addr |-> cur'.addr, len |-> cur'.len, left |-> left]
      BY <1>1
    <2>2. \A s \in {rq.sgl[cur.sg + 1]} :
            cur' = [sg |-> cur.sg + 1, addr |-> s.addr, len |-> s.len, left |-> left] =>
              cur' = [sg |-> cur'.sg, addr |-> cur'.addr, len |-> cur'.len, left |-> left]
      OBVIOUS
    <2> QED
      BY <1>3, <1>4, <2>1, <2>2 DEF FillPrps

-----------------------------------------------------------------------------
LEMMA StepKeeps == DInv /\ [Next]_vars => DInv'
  <1> SUFFICES ASSUME DInv, [Next]_vars PROVE DInv'
    OBVIOUS
  <1>1. CASE UNCHANGED vars
    BY <1>1 DEF vars, DInv, Shapes, HeldAt, Chained, LinkedLists, Room, Meta
  <1> QED
    BY <1>1, SetupCmdKeeps, MapSimpleKeeps, MapTableKeeps, StartPrpsKeeps, FillPrpsKeeps,
       SetupSglsKeeps, MapMetadataKeeps, CompleteRqKeeps, NextRequestKeeps DEF Next

(* At each place in the code exactly what was acquired on the way there is *)
(* held: nvme_iod tells what that is, and the lists it tells of are linked *)
(* to each other and of one pool.                                          *)
THEOREM DataInvariance == Spec => []DInv
  BY InitHolds, StepKeeps, PTL DEF Spec

(* Whatever step of the preparation fails (nvme_prep_rq(), nvme_map_data() *)
(* and the two that describe the data), and after completion, nothing is   *)
(* left mapped or allocated, and nothing was released twice, to the wrong  *)
(* pool or by a wrong bus address.                                         *)
THEOREM EverythingReleased == Spec => []AllReleased
  <1>1. DInv => AllReleased
    BY DEF DInv, HeldAt, AllReleased
  <1> QED
    BY <1>1, DataInvariance, PTL
=============================================================================
