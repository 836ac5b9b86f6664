----------------------------- MODULE MCBlexTenant -----------------------------
(* Small instances of tasks, CPUs and NQs. *)
EXTENDS BlexTenant, TLC

CONSTANTS t1, t2, t3, s1, s2

(* What the setups have in common. *)
Base == [tasks |-> Tasks, setters |-> {s1}, nqs |-> 3, cqs |-> 2, cpus |-> 2,
         opt |-> 2, profile |-> FALSE, preempt |-> FALSE,
         home |-> [t \in Tasks |-> {0}], io |-> [t \in Tasks |-> t],
         classes |-> {"rt"}, bios |-> {"async"}, early |-> FALSE, reuse |-> FALSE,
         batch |-> FALSE, waits |-> FALSE,
         fails |-> 0, moves |-> 0, sets |-> 1, submits |-> 2]

(* t1 moves between two CPUs of its own, t2 has a third; one priority      *)
(* change.                                                                 *)
Cpusets == [Base EXCEPT !.tasks = {t1, t2}, !.nqs = 3, !.cpus = 3, !.moves = 1,
                        !.home = [t \in Tasks |-> IF t = t1 THEN {0, 1} ELSE {2}]]

(* Two tasks share a CPU; allocations and insertions fail, and freed       *)
(* io_contexts are reused.                                                 *)
Failures == [Base EXCEPT !.tasks = {t2, t3}, !.nqs = 2,
                         !.early = TRUE, !.reuse = TRUE, !.fails = 2]

(* The two share an io_context, too. *)
Shared == [Base EXCEPT !.tasks = {t2, t3}, !.io = [t \in Tasks |-> t1], !.submits = 1]

(* One task gets requests in batches and runs out of tags, while its       *)
(* priority changes twice and it moves.                                    *)
Plugged == [Base EXCEPT !.tasks = {t1}, !.nqs = 2, !.moves = 1,
                        !.home = [t \in Tasks |-> {0, 1}],
                        !.classes = {"rt", "be"}, !.bios = {"meta", "async"},
                        !.batch = TRUE, !.waits = TRUE, !.sets = 2, !.submits = 3]

(* Opt level 1 with I/O profiling of one task, which starts without an     *)
(* io_context and is preempted anywhere.                                   *)
Profiled == [Base EXCEPT !.tasks = {t1}, !.setters = {s1, s2},
                         !.opt = 1, !.profile = TRUE, !.preempt = TRUE,
                         !.home = [t \in Tasks |-> IF t = t1 THEN {0, 1} ELSE {0}],
                         !.io = [t \in Tasks |-> None],
                         !.classes = {"rt", "be"}, !.bios = {"sync", "async"},
                         !.sets = 2, !.submits = 6]

(* Tasks that share a CPU are alike. *)
Sharers == Permutations({t2, t3})

SomeSetups == {Cpusets, Failures, Shared, Plugged, Profiled}
=============================================================================
