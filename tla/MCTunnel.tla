------------------------------ MODULE MCTunnel ------------------------------
(* Model-checking instance of Tunnel: the constants are model values given *)
(* in the .cfg files; request ids are interchangeable, socket ids are not  *)
(* (Object.keys order decides which idle socket is found first).          *)
EXTENDS Tunnel, TLC

MCRequestSymmetry == Permutations(Requests)
=============================================================================
