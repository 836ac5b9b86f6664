------------------------------ MODULE BlexMru ------------------------------
(***************************************************************************)
(* What the mru counter of a priority array promises, without the heap and *)
(* its lock.  Each recommendation charges the array.  A caller whose       *)
(* charge leaves no credit becomes responsible for rotating the array and  *)
(* refilling the counter; it may leave that to somebody else, but never as *)
(* the last one responsible.  So a spent array always has somebody who     *)
(* will refill it, which is why giving up a failed trylock is safe.        *)
(***************************************************************************)
EXTENDS Integers

CONSTANTS
  Arrays,    \* the priority arrays
  Callers,   \* the CPUs in blk_blex_update_priority_array()
  Mru        \* blex_prio_arr_mru

VARIABLES
  credit,       \* mru of each array
  responsible   \* the callers each array's refill is left to

mvars == <<credit, responsible>>

MInit ==
  /\ credit = [a \in Arrays |-> Mru]
  /\ responsible = [a \in Arrays |-> {}]

MCharge(c, a) ==
  /\ credit' = [credit EXCEPT ![a] = credit'[a]]
  /\ credit'[a] \in Int /\ credit'[a] <= credit[a]
  /\ responsible' = IF credit'[a] <= 0
                      THEN [responsible EXCEPT ![a] = @ \cup {c}]
                      ELSE responsible

MWithdraw(c, a) ==
  /\ c \in responsible[a]
  /\ \E d \in responsible[a] : d # c
  /\ responsible' = [responsible EXCEPT ![a] = @ \ {c}]
  /\ UNCHANGED credit

MRefill(c, a) ==
  /\ c \in responsible[a]
  /\ credit' = [credit EXCEPT ![a] = Mru]
  /\ responsible' = [responsible EXCEPT ![a] = @ \ {c}]

MNext ==
  \E a \in Arrays, c \in Callers :
    \/ MCharge(c, a)
    \/ MWithdraw(c, a)
    \/ MRefill(c, a)

MSpec == MInit /\ [][MNext]_mvars

(* A spent array has somebody responsible for refilling it (the reason why *)
(* spin_trylock() may fail in blk_blex_update_priority_array()).           *)
SpentHasResponsible == \A a \in Arrays : credit[a] <= 0 => responsible[a] # {}

MTypeOK ==
  /\ credit \in [Arrays -> Int]
  /\ responsible \in [Arrays -> SUBSET Callers]
=============================================================================
