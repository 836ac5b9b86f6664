----------------------------- MODULE MCNvmeData -----------------------------
(* Pages of four bytes and lists of three entries; up to eight pages. *)
EXTENDS NvmeData

CONSTANTS Offsets, Tails, MaxPages

(* n pages, cut after the pages in cuts: each piece is mapped on its own,  *)
(* with a page between them; offset into the first page, and tail bytes    *)
(* of the last left out.                                                   *)
Segments(n, cuts, offset, tail) ==
  LET all    == cuts \cup {n}
      ends   == [k \in 1 .. Cardinality(all) |->
                   CHOOSE e \in all : Cardinality({d \in all : d < e}) = k - 1]
      begin(k) == IF k = 1 THEN 0 ELSE ends[k - 1]
      base(k) == Page * (begin(k) + k)
  IN [k \in 1 .. Len(ends) |->
        LET from == IF k = 1 THEN offset ELSE 0
            to   == Page * (ends[k] - begin(k)) - (IF ends[k] = n THEN tail ELSE 0)
        IN [addr |-> base(k) + from, len |-> to - from]]

Cut(n, cuts) == {s \in {Segments(n, c, o, t) : c \in cuts, o \in Offsets, t \in Tails} :
                   \A k \in DOMAIN s : s[k].len > 0}

Plain(sgls) == [sgl : sgls, p2p : {FALSE}, sgls : {FALSE}, meta : {FALSE}]

(* Small requests of every kind, and large ones cut in at most three. *)
SomeInputs ==
  [sgl : UNION {Cut(n, SUBSET (1 .. n - 1)) : n \in 1 .. 3} \cup {<<>>},
   p2p : BOOLEAN, sgls : BOOLEAN, meta : BOOLEAN]
  \cup Plain(UNION {Cut(n, {c \in SUBSET (1 .. n - 1) : Cardinality(c) <= 2}) : n \in 4 .. MaxPages})

(* What follows: nothing, one page, and lists from either pool. *)
SomeLater ==
  [sgl : {<<>>, Segments(1, {}, 0, 0)}, p2p : {FALSE}, sgls : {FALSE}, meta : BOOLEAN]
  \cup Plain({Segments(4, {2}, 0, 0), Segments(5, {}, 3, 0)})
=============================================================================
