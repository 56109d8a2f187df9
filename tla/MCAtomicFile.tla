---------------------------- MODULE MCAtomicFile ----------------------------
(* AtomicFile for TLC: images of different lengths, so that a short one    *)
(* over the remains of a long one shows.                                   *)
EXTENDS AtomicFile, TLC

CONSTANTS w1, w2

Sizes == w1 :> 1 @@ w2 :> 2

=============================================================================
