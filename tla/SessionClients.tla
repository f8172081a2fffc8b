--------------------------- MODULE SessionClients ---------------------------
(***************************************************************************)
(* What a session may expect of the panel on Windows: a client of the      *)
(* panel starts on it only when no other client of the panel runs there,   *)
(* so no start ever detaches one (`attach-session -d` with nobody left).   *)
(* Turns, take-overs and the clients' processes are ClientTurn's matter.   *)
(***************************************************************************)
CONSTANTS Client, Session, Nowhere

VARIABLE on     \* Client -> the session it runs on, or Nowhere

Init == on = [t \in Client |-> Nowhere]

Start(t, s) ==
    /\ on[t] = Nowhere
    /\ \A u \in Client : on[u] # s
    /\ on' = [on EXCEPT ![t] = s]

End(t) ==
    /\ on[t] # Nowhere
    /\ on' = [on EXCEPT ![t] = Nowhere]

Next == \E t \in Client : End(t) \/ \E s \in Session : Start(t, s)

Spec == Init /\ [][Next]_on

=============================================================================
