---------------------------- MODULE NvmeCommand ----------------------------
(***************************************************************************)
(* What a queue pair promises: the commands of its tags go to the device   *)
(* and come back, each on its own way round.                               *)
(***************************************************************************)
CONSTANT Tags

VARIABLE where  \* "idle", "queued", "device" or "posted", for each tag

Init == where = [t \in Tags |-> "idle"]

Move(S, from, to) ==
  /\ \A t \in S : where[t] = from
  /\ where' = [t \in Tags |-> IF t \in S THEN to ELSE where[t]]

(* A batch is announced as a whole; the rest happens one by one. *)
Submit   == \E S \in SUBSET Tags : Move(S, "idle", "queued")
Fetch    == \E t \in Tags : Move({t}, "queued", "device")
Answer   == \E t \in Tags : Move({t}, "device", "posted")
Complete == \E t \in Tags : Move({t}, "posted", "idle")

Next == Submit \/ Fetch \/ Answer \/ Complete
Spec == Init /\ [][Next]_where
=============================================================================
