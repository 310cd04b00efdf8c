----------------------------- MODULE SaleMoney -----------------------------
(***************************************************************************)
(* What escrow promises about the money of a sale: it is retained, it may  *)
(* be argued over once, and it moves once: to the seller, less the         *)
(* platform's commission, or back to the buyer in full, and back only      *)
(* after an argument.  Escrow.tla implements this when no two requests     *)
(* hold the same payment at the same time, and not otherwise.              *)
(***************************************************************************)
CONSTANT Sales

VARIABLES where,        \* sale -> where its money is
          commission    \* the sales the platform took its cut from

Places == {"unpaid", "retained", "argued", "paid", "returned"}

Init == /\ where = [s \in Sales |-> "unpaid"]
        /\ commission = {}

Move(s, from, to) == /\ where[s] \in from
                     /\ where' = [where EXCEPT ![s] = to]

Retain(s) == Move(s, {"unpaid"}, "retained") /\ UNCHANGED commission

Argue(s) == Move(s, {"retained"}, "argued") /\ UNCHANGED commission

PaySeller(s) == /\ Move(s, {"retained", "argued"}, "paid")
                /\ commission' = commission \cup {s}

PayBack(s) == Move(s, {"argued"}, "returned") /\ UNCHANGED commission

Next == \E s \in Sales : Retain(s) \/ Argue(s) \/ PaySeller(s) \/ PayBack(s)

Spec == Init /\ [][Next]_<<where, commission>>
=============================================================================
