---------------------------- MODULE TypedChannel ----------------------------
(***************************************************************************)
(* What somebody who types may expect of a terminal whose client is        *)
(* replaced under them: until the connection ends, what they type is       *)
(* passed on in the order typed, each of it once, and never to a client    *)
(* already told to leave.  When, and how many clients there are, is        *)
(* TerminalInput's matter.                                                 *)
(***************************************************************************)
EXTENDS Naturals, Sequences

CONSTANT Client

VARIABLES
    typed,  \* how much was typed
    sent,   \* what was passed on, in order, each with the client that got it
    over,   \* clients told to leave
    live    \* the connection goes on

channelVars == <<typed, sent, over, live>>

Init == typed = 0 /\ sent = <<>> /\ over = {} /\ live = TRUE

(* The inputs up to n go to c. *)
PassOn(c, n) ==
    sent' = [k \in 1..n |-> IF k <= Len(sent) THEN sent[k] ELSE [what |-> k, to |-> c]]

Type ==
    /\ live /\ typed' = typed + 1
    /\ UNCHANGED sent \/ \E c \in Client \ over : PassOn(c, typed + 1)
    /\ UNCHANGED <<over, live>>

Deliver ==
    /\ live /\ over \subseteq over'
    /\ \E c \in Client \ over' : PassOn(c, typed)
    /\ UNCHANGED <<typed, live>>

Leave == over \subseteq over' /\ UNCHANGED <<typed, sent, live>>

End ==
    /\ live' = FALSE /\ typed' \in {typed, typed + 1}
    /\ over \subseteq over' /\ UNCHANGED sent

Next == Type \/ Deliver \/ Leave \/ End

Spec == Init /\ [][Next]_channelVars

=============================================================================
