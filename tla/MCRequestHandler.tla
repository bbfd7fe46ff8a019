-------------------------- MODULE MCRequestHandler --------------------------
(* Model checking of RequestHandler: connections are interchangeable, which *)
(* the runs that check safety only make use of.                             *)
EXTENDS RequestHandler, TLC

ConnSymmetry == Permutations(Conns)
=============================================================================
