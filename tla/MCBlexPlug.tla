----------------------------- MODULE MCBlexPlug -----------------------------
(* Small workloads of one hardware context. *)
EXTENDS BlexPlug, TLC

CONSTANTS r1, r2, r3, t1, t2, q1, q2

MCCpus == {0, 1}

(* Plugs with requests of two CPUs are flushed by their thread; the driver *)
(* refuses or fails two.                                                   *)
Flushed == [requests |-> {r1, r2, r3}, threads |-> {t1}, quiescers |-> {},
            cpuOf |-> [r \in Requests |-> IF r = r3 THEN 1 ELSE 0],
            paths |-> {"flush"}, busy |-> 2, rounds |-> 0]

(* Plugs are flushed from schedule(); then with the queue quiesced.        *)
Scheduled == [Flushed EXCEPT !.paths = {"schedule"}, !.busy = 1]

ScheduledQuiesced == [Scheduled EXCEPT !.requests = {r1, r3}, !.quiescers = {q1},
                                       !.rounds = 1]

(* The same against a quiescer. *)
FlushedQuiesced == [ScheduledQuiesced EXCEPT !.paths = {"flush"}]

(* One thread issues directly, against two quiescers. *)
Quiesces == [ScheduledQuiesced EXCEPT !.quiescers = {q1, q2}, !.paths = {"direct"},
                                      !.rounds = 2]

(* Threads flush as both: a run of the queue finds requests put back. *)
Overlapping == [Flushed EXCEPT !.requests = {r1, r3}, !.paths = {"flush", "schedule"}]

SomeSetups == {Flushed, Scheduled, ScheduledQuiesced, FlushedQuiesced, Quiesces, Overlapping}
=============================================================================
