--------------------------- MODULE MCCoreBanking ---------------------------
(* Small instances of CoreBanking for TLC: two account numbers, in order.   *)
EXTENDS CoreBanking

CONSTANTS a1, a2, u1, mule

ByNumber(a, b) == a = a1 /\ b = a2

(* In halves of a cent: a cent, and half a cent the other way. *)
MCAmounts == {2, -1}
=============================================================================
