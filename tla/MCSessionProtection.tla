------------------------ MODULE MCSessionProtection ------------------------
(* Session names are interchangeable.                                      *)
EXTENDS SessionProtection, TLC

Symmetric == Permutations(Name)

=============================================================================
