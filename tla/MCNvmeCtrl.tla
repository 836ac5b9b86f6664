----------------------------- MODULE MCNvmeCtrl -----------------------------
(* A controller with up to four I/O queues. *)
EXTENDS NvmeCtrl

CONSTANTS r1

OneReq == {r1}

Plain == [limit |-> 3, cpus |-> 2, msix |-> 4, hmb |-> FALSE, fail |-> {}, fails |-> 0,
          turn |-> {}, faults |-> 0, ops |-> {}, nops |-> 0]

(* One difficulty at a time. *)
SomeSetups == {
  [Plain EXCEPT !.turn = {"mute", "failed"}, !.faults = 2, !.ops = {"suspend", "flr"},
                !.nops = 1],
  [Plain EXCEPT !.ops = {"suspend", "flr", "aer", "remove"}, !.nops = 2],
  [Plain EXCEPT !.ops = {"power", "hmb"}, !.nops = 2, !.hmb = TRUE,
                !.fail = {"power", "hostmem"}, !.fails = 1],
  [Plain EXCEPT !.ops = {"power", "hmb", "remove"}, !.nops = 1, !.hmb = TRUE, !.turn = {"mute"},
                !.faults = 1],
  [Plain EXCEPT !.ops = {"power", "remove"}, !.nops = 2, !.turn = {"absent"}, !.faults = 1],
  [Plain EXCEPT !.fail = Steps \ {"memory", "cq", "sq"}, !.fails = 1],
  [Plain EXCEPT !.limit = 1, !.fail = {"bar"}, !.fails = 1],
  [Plain EXCEPT !.limit = 2, !.cpus = 4, !.fail = {"cq", "sq", "memory"}, !.fails = 1,
                !.turn = {"mute"}, !.faults = 1, !.ops = {"flr"}, !.nops = 1]}
=============================================================================
