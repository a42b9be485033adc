--------------------------- MODULE MCAuthAccount ---------------------------
(* AuthAccount on small instances. *)
EXTENDS AuthAccount, TLC

CONSTANTS t1, t2, k1, k2

OneEach == {{k1}, {k2}}
AccountSymmetry == Permutations(Req) \cup Permutations(Token) \cup Permutations(Code)
=============================================================================
