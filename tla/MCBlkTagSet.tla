---------------------------- MODULE MCBlkTagSet ----------------------------
(* Bring-up on every small device, and one difficulty at a time for the    *)
(* queues on a tag set.                                                    *)
EXTENDS BlkTagSet

CONSTANTS MaxNqidBound, q1, q2

(* Devices with enough interrupt vectors for one NCQ per group at least. *)
MultiCqGeometries ==
  {g \in (2 .. MaxNqidBound) \X (2 .. MaxNqidBound) : g[2] <= g[1]}

OneOf(layout, device, nrs, queues) ==
  [layout |-> layout, geo |-> device, nrs |-> nrs, fails |-> 1, halves |-> 0, elev |-> {},
   qs |-> queues, short |-> FALSE, sends |-> TRUE, counts |-> FALSE, overlap |-> FALSE]

Both == {q1, q2}
Device == <<3, 2>>

BringUps == {OneOf("blex", g, <<g[1]>>, {}) : g \in MultiCqGeometries}

SomeSetups == {
    [OneOf("blex", Device, <<3>>, {q1}) EXCEPT !.halves = 1],
    [OneOf("blex", Device, <<3>>, Both) EXCEPT !.sends = FALSE],
    [OneOf("plain", Device, <<1>>, Both) EXCEPT !.counts = TRUE, !.fails = 0],
    OneOf("plain", Device, <<2>>, Both),
    OneOf("plain", Device, <<2, 3>>, {q1}),
    [OneOf("plain", Device, <<1, 2>>, Both) EXCEPT !.sends = FALSE, !.short = TRUE],
    [OneOf("plain", Device, <<1, 2>>, Both) EXCEPT !.sends = FALSE, !.counts = TRUE, !.fails = 0],
    [OneOf("plain", Device, <<1, 2>>, {q1}) EXCEPT !.elev = {q1}],
    [OneOf("plain", Device, <<3, 2, 3>>, {q1}) EXCEPT !.fails = 0]
  }

AllSetups == BringUps \cup SomeSetups

MCCpuNode == 0 :> 0 @@ 1 :> 0 @@ 2 :> 1
=============================================================================
