---------------------------- MODULE MCClientTurn ----------------------------
(* ClientTurn with up to three sockets on two sessions and three clients.         *)
EXTENDS ClientTurn, TLC

CONSTANTS c1, c2, c3, s1, s2

Pairing == [c \in Conn |-> IF c = c3 THEN s2 ELSE s1]

Symmetric == {p @@ q : p \in Permutations(Term), q \in Permutations({c1, c2})}

=============================================================================
