----------------------------- MODULE Commission -----------------------------
(***************************************************************************)
(* What BidHaus keeps of a sale.  Amounts are cents and percentages are    *)
(* hundredths, so that calculate_commission's exact Decimal product is     *)
(* amount * percentage ten-thousandths of a cent.                          *)
(***************************************************************************)
EXTENDS Integers

\* Mutant: the cents are cut off.
Commission_Truncated(amount, percentage) == (amount * percentage) \div 10000

\* quantize(CENTS, rounding=ROUND_HALF_UP), of what is never negative.
Commission(amount, percentage) == (2 * amount * percentage + 10000) \div 20000

\* c is the nearest whole number of cents, the upper one of two.
Nearest(c, amount, percentage) ==
    /\ 10000 * (2 * c - 1) <= 2 * amount * percentage
    /\ 2 * amount * percentage < 10000 * (2 * c + 1)
=============================================================================
