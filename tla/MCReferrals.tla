---------------------------- MODULE MCReferrals ----------------------------
(* Small instances of Referrals: the first user buys, the others only apply. *)
EXTENDS Referrals, TLC

CONSTANTS w1, w2, buyer, other, third, first, second, last

MCBuyerOf == [p \in Payments |-> buyer]

WorkerSymmetry == Permutations(Workers)
Symmetry == WorkerSymmetry \cup Permutations(Users \ {buyer}) \cup Permutations(Payments)
=============================================================================
