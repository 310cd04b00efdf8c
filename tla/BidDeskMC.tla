----------------------------- MODULE BidDeskMC -----------------------------
(* A small instance of BidDesk for TLC. *)
EXTENDS BidDesk, TLC
=============================================================================
