----------------------------- MODULE MCBlkFlush -----------------------------
(* Three requests, two of them of one virtual NQ and one of another. *)
EXTENDS BlkFlush

CONSTANTS r1, r2, r3, fa, fb, w1, w2

ThreeRqs    == {r1, r2, r3}
TwoFqs      == {fa, fb}
TwoWalkers  == {w1, w2}
MostlyOneFq == [r \in ThreeRqs |-> IF r = r3 THEN fb ELSE fa]

Write   == [data |-> TRUE, pre |-> FALSE, fua |-> FALSE]
Flush   == [data |-> FALSE, pre |-> TRUE, fua |-> FALSE]
Ordered == [data |-> TRUE, pre |-> TRUE, fua |-> FALSE]
Forced  == [data |-> TRUE, pre |-> FALSE, fua |-> TRUE]
Both    == [data |-> TRUE, pre |-> TRUE, fua |-> TRUE]

Of(a, b, c) == [r \in ThreeRqs |-> IF r = r1 THEN a ELSE IF r = r2 THEN b ELSE c]
Plain(kinds) == [kind |-> kinds, cache |-> TRUE, fua |-> TRUE, errs |-> 0, retries |-> 0,
                 walks |-> [w \in TwoWalkers |-> 0]]
OneWalk == [w \in TwoWalkers |-> IF w = w1 THEN 1 ELSE 0]

(* With FUA as NVMe devices have it, without, and without a cache; with    *)
(* failures, retries and a walk.                                           *)
SomeSetups ==
  {Plain(Of(Both, Flush, Write)), Plain(Of(Write, Ordered, Both)),
   [Plain(Of(Both, Forced, Write)) EXCEPT !.cache = FALSE]}
  \cup {[Plain(k) EXCEPT !.fua = FALSE] : k \in {Of(Forced, Both, Both), Of(Forced, Both, Write)}}
  \cup {[Plain(k) EXCEPT !.errs = 1, !.retries = 1, !.walks = OneWalk, !.fua = u] :
          u \in BOOLEAN, k \in {Of(Both, Ordered, Write)}}

(* Two walks meet a flush that fails. *)
TwoWalks == {[Plain(Of(Flush, Write, Write)) EXCEPT !.errs = 1, !.walks = [w \in TwoWalkers |-> 1]]}
=============================================================================
