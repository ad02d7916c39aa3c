------------------------------- MODULE MCSetup -------------------------------
(* Setup on a small instance.                                              *)
EXTENDS Setup, TLC

\* The external endpoints are interchangeable.
EndpointSymmetry == Permutations(Endpoints)
=============================================================================
