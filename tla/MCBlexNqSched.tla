--------------------------- MODULE MCBlexNqSched ---------------------------
(* NQ scheduling on the arrays that the regulator builds for a device. *)
EXTENDS BlexNqSched, BlexQueueMap

CONSTANTS
  MaxNqid,   \* I/O queues of the device
  NrCqs      \* completion queues of the device

MCNqs == 1 .. MaxNqid

NrNsqs(q)   == GetCqNrNsqs(q, MaxNqid, NrCqs)
SharedNcqs  == {q \in MCNqs : HasCq(q, MaxNqid, NrCqs) /\ NrNsqs(q) > 1}
MCNcqArray  == [g \in Groups |-> <<"ncqs of group", g>>]
MCNsqArray  == [q \in MCNqs |-> IF q \in SharedNcqs THEN <<"nsqs of ncq", q>> ELSE None]
MCArrays    == {<<"ncqs of group", g>> : g \in Groups}
                 \cup {<<"nsqs of ncq", q>> : q \in SharedNcqs}
MCInitHeap  ==
  [a \in MCArrays |->
     IF a[1] = "ncqs of group"
       THEN InitNcqHeap(GroupOf(a[2], MaxNqid, NrCqs), MaxNqid, NrCqs)
       ELSE InitNsqHeap(a[2], MaxNqid, NrCqs)]
=============================================================================
