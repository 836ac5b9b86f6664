---------------------------- MODULE MCNvmeQueue ----------------------------
(* Two submission queues on one completion queue. *)
EXTENDS NvmeQueue

CONSTANTS ncq, nsq

TwoSqs  == {ncq, nsq}
NcqOnly == {ncq}

Setup(p, s, qs, ts, a, n, m) ==
  [polled |-> p, shadow |-> s, sqs |-> qs, timed |-> ts, limit |-> a, batch |-> n, lost |-> m]

(* One difficulty at a time: shadow doorbells, queues that share their tags *)
(* and completion queue, lost interrupts, and polling.                      *)
SomeSetups == {
  Setup(FALSE, {ncq}, {ncq}, {}, 0, 0, 0),
  Setup(FALSE, {Cq}, {ncq}, {}, 0, 0, 0),
  Setup(FALSE, {}, {ncq, nsq}, {}, 0, 2, 0),
  Setup(FALSE, {}, {ncq}, {ncq}, 0, 0, 1),
  Setup(TRUE, {}, {ncq}, {ncq}, 1, 0, 0)}
=============================================================================
