--------------------------- MODULE MCBlexDispatch ---------------------------
(* Small workloads of one hardware context. *)
EXTENDS BlexDispatch, TLC

CONSTANTS r1, r2, r3, t1, t2, q1, q2

MCCpus == {0, 1}

(* Two threads issue directly from one CPU. *)
Staging == [requests |-> {r1, r2}, threads |-> {t1, t2}, quiescers |-> {},
            cpuOf |-> [r \in Requests |-> 0],
            paths |-> {"direct"}, busy |-> 2, rounds |-> 0]

SomeSetups == {Staging}
=============================================================================
