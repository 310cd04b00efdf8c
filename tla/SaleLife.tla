------------------------------ MODULE SaleLife ------------------------------
(***************************************************************************)
(* What BidHaus promises about a lot from its first offer to the last      *)
(* score, with no request, form, mail, restart or rounding in sight:       *)
(* offers only rise and the last one leads; the lot goes to whoever leads  *)
(* and the money is retained; it may be argued over once; it moves once,   *)
(* to the seller less a cut or whole to the buyer, and what the seller got *)
(* stays what it was; and after it reached the seller, and only then, each *)
(* side owes the other one score.                                          *)
(***************************************************************************)
EXTENDS Naturals, Sequences

CONSTANTS Lots, Users, Prices

VARIABLES offers,   \* lot -> the sequence of offers it received
          leading,  \* lot -> the offers shown as the highest
          won,      \* lot -> the offers shown as the winner
          place,    \* lot -> where it, or the money for it, is
          paid,     \* lot -> what its seller received
          owing     \* lot -> who still has to score the other side

life == <<offers, leading, won, place, paid, owing>>

Last(s) == s[Len(s)]

Init == /\ offers = [l \in Lots |-> <<>>]
        /\ leading = [l \in Lots |-> {}]
        /\ won = [l \in Lots |-> {}]
        /\ place = [l \in Lots |-> "offered"]
        /\ paid = [l \in Lots |-> 0]
        /\ owing = [l \in Lots |-> {}]

Raise(l, u, a) ==
    /\ place[l] = "offered"
    /\ \A i \in DOMAIN offers[l] : offers[l][i].amount < a
    /\ offers' = [offers EXCEPT ![l] = Append(@, [bidder |-> u, amount |-> a])]
    /\ leading' = [leading EXCEPT ![l] = {Len(offers[l]) + 1}]
    /\ UNCHANGED <<won, place, paid, owing>>

Move(l, from, to) == /\ place[l] \in from
                     /\ place' = [place EXCEPT ![l] = to]

KnockDown(l) ==
    /\ Move(l, {"offered"}, "retained")
    /\ offers[l] # <<>>
    /\ won' = [won EXCEPT ![l] = leading[l]]
    /\ UNCHANGED <<offers, leading, paid, owing>>

Argue(l) == Move(l, {"retained"}, "argued") /\ UNCHANGED <<offers, leading, won, paid, owing>>

PaySeller(l, v) ==
    /\ Move(l, {"retained", "argued"}, "paid")
    /\ v # Last(offers[l]).bidder
    /\ \E cut \in 0..Last(offers[l]).amount :
           paid' = [paid EXCEPT ![l] = Last(offers[l]).amount - cut]
    /\ owing' = [owing EXCEPT ![l] = {v, Last(offers[l]).bidder}]
    /\ UNCHANGED <<offers, leading, won>>

PayBack(l) == Move(l, {"argued"}, "returned") /\ UNCHANGED <<offers, leading, won, paid, owing>>

Judge(l, u) ==
    /\ u \in owing[l]
    /\ owing' = [owing EXCEPT ![l] = @ \ {u}]
    /\ UNCHANGED <<offers, leading, won, place, paid>>

Next == \E l \in Lots :
    \/ KnockDown(l) \/ Argue(l) \/ PayBack(l)
    \/ \E u \in Users :
        \/ PaySeller(l, u)
        \/ Judge(l, u)
        \/ \E a \in Prices : Raise(l, u, a)

Spec == Init /\ [][Next]_life
=============================================================================
