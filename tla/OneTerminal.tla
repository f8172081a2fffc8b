---------------------------- MODULE OneTerminal ----------------------------
(***************************************************************************)
(* What a browser socket that asks for a terminal on another machine may   *)
(* expect: one terminal.  The hub may ask for a session of the socket's    *)
(* own, and may give up at any moment, but it hands the socket to the      *)
(* other machine's own terminal only if nothing of the session runs there  *)
(* or ever will.  A session starts at most once, when it was asked for and *)
(* is not yet written off.  Lines, turns, requests and pairings are the    *)
(* matter of MoshTerminals.                                                *)
(***************************************************************************)
VARIABLES
    session,    \* at the other machine: "new", "runs", "over"
    lease,      \* what the hub holds of it: "free", "asked", "clear"
    client,     \* the hub's end of it: "none", "runs", "gone"
    socket      \* "waits", "bridged" to the session, "relayed", "lost"

terminal == <<session, lease, client, socket>>

Init == session = "new" /\ lease = "free" /\ client = "none" /\ socket = "waits"

Ask ==
    /\ lease = "free" /\ socket = "waits"
    /\ lease' = "asked" /\ UNCHANGED <<session, client, socket>>

(* At the other machine, also long after the socket was lost. *)
Start ==
    /\ session = "new" /\ lease = "asked"
    /\ session' = "runs" /\ UNCHANGED <<lease, client, socket>>

End ==
    /\ session # "over"
    /\ session' = "over" /\ UNCHANGED <<lease, client, socket>>

Connect ==
    /\ client = "none" /\ lease = "asked" /\ socket = "waits"
    /\ client' = "runs" /\ UNCHANGED <<session, lease, socket>>

Disconnect ==
    /\ client = "runs"
    /\ client' = "gone" /\ UNCHANGED <<session, lease, socket>>

(* The hub takes it for confirmed that nothing is left. *)
Clear ==
    /\ lease # "clear" /\ session # "runs" /\ client # "runs" /\ socket \in {"waits", "lost"}
    /\ lease' = "clear" /\ UNCHANGED <<session, client, socket>>

Bridge ==
    /\ socket = "waits" /\ lease = "asked" /\ client = "runs"
    /\ socket' = "bridged" /\ UNCHANGED <<session, lease, client>>

Relay ==
    /\ socket = "waits" /\ lease # "asked"
    /\ socket' = "relayed" /\ UNCHANGED <<session, lease, client>>

Lose ==
    /\ socket \in {"waits", "bridged"}
    /\ socket' = "lost" /\ UNCHANGED <<session, lease, client>>

Next == Ask \/ Start \/ End \/ Connect \/ Disconnect \/ Clear \/ Bridge \/ Relay \/ Lose

Step == Next \/ UNCHANGED terminal

Spec == Init /\ [][Next]_terminal

=============================================================================
