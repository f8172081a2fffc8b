----------------------------- MODULE MCTerminal -----------------------------
(* What must happen in the end to the sockets in line for a client, and to  *)
(* the size and the input of one terminal: a behaviour is of one of both.   *)
EXTENDS ClientTurn, TerminalInput, TLC

CONSTANTS c1, c3, s1, s2

VARIABLE part

Pairing == [c \in Conn |-> IF c = c3 THEN s2 ELSE s1]

(* The part that does not move rests in a state where nothing is due.      *)
LiveInit ==
    /\ Init /\ part \in {"turn", "input"}
    /\ IF part = "input" THEN InputInit
       ELSE /\ live = TRUE /\ typed = 0 /\ sent = <<>> /\ held = NotHeld
            /\ shown = 1 /\ settled = TRUE
            /\ size = CHOOSE s \in Size : TRUE
            /\ want = size /\ goal = size /\ resizing = "no"

LiveSpec ==
    /\ LiveInit
    /\ [][ \/ part = "turn" /\ Next /\ UNCHANGED <<inputVars, part>>
           \/ part = "input" /\ InputNext /\ UNCHANGED <<vars, part>>
         ]_<<vars, inputVars, part>>
    /\ Fairness /\ InputFair

=============================================================================
