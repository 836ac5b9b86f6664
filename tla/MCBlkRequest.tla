---------------------------- MODULE MCBlkRequest ----------------------------
(* Three hctxs: an NCQ's, an NSQ's that uses its tags, and another NCQ's. *)
EXTENDS BlkRequest

CONSTANTS t1, t2, t3, f1, f2

ThreeHctxs  == 1 .. 3
ThreeTags   == [h \in 1 .. 3 |-> IF h = 3 THEN 3 ELSE 1]
ThreeTasks  == {t1, t2, t3}
TwoFreezers == {f1, f2}

Plain == [depth |-> 1, hctxs |-> {1}, reqs |-> [t \in ThreeTasks |-> 1], ios |-> 1, nowait |-> FALSE,
          mute |-> {}, mutes |-> 0, retries |-> 0, resets |-> 0, timer |-> FALSE,
          freezers |-> {}, unplugged |-> {}, unplugs |-> 0]

Of(a, b, c) == [t \in ThreeTasks |-> IF t = t1 THEN a ELSE IF t = t2 THEN b ELSE c]

(* One difficulty at a time: waiting for tags, cached requests and freezes, *)
(* timeouts, CPUs that go offline.                                          *)
SomeSetups == {
  [Plain EXCEPT !.hctxs = {1, 3}, !.reqs = Of(1, 1, 1)],
  [Plain EXCEPT !.hctxs = {1, 2}, !.reqs = Of(2, 1, 0), !.nowait = TRUE, !.retries = 1],
  [Plain EXCEPT !.depth = 2, !.reqs = Of(2, 1, 0), !.ios = 2, !.freezers = {f1}],
  [Plain EXCEPT !.reqs = Of(1, 0, 0), !.freezers = {f1, f2}, !.timer = TRUE, !.mute = {1}, !.mutes = 1],
  [Plain EXCEPT !.depth = 2, !.reqs = Of(1, 1, 0), !.timer = TRUE, !.mute = {1}, !.mutes = 1],
  [Plain EXCEPT !.hctxs = {1, 2}, !.reqs = Of(2, 0, 0), !.timer = TRUE, !.mute = {1}, !.mutes = 1,
                !.retries = 1, !.resets = 1],
  [Plain EXCEPT !.hctxs = {1, 3}, !.reqs = Of(1, 1, 0), !.freezers = {f1},
                !.unplugged = {1}, !.unplugs = 1],
  [Plain EXCEPT !.hctxs = {1, 3}, !.reqs = Of(1, 0, 0), !.nowait = TRUE, !.retries = 1,
                !.unplugged = {1}, !.unplugs = 1],
  [Plain EXCEPT !.depth = 2, !.hctxs = {1, 3}, !.reqs = Of(2, 0, 0), !.ios = 2,
                !.unplugged = {1}, !.unplugs = 1]}

(* A request of a hctx without a completion queue of its own times out. *)
NsqSetups == {[Plain EXCEPT !.hctxs = {1, 2}, !.reqs = Of(1, 0, 0), !.timer = TRUE]}
=============================================================================
