--------------------------- MODULE TerminalInput ---------------------------
(***************************************************************************)
(* Size and input of one browser terminal on Windows: _setClientSize,      *)
(* _replaceClient and the held input of lib/terminal.js.                   *)
(*                                                                         *)
(* A running client cannot be resized: another one takes its place.  What  *)
(* is typed from the request on is for the client at the new size, and is  *)
(* held until that one is there.  Sizes may change again at any moment,    *)
(* also back to what they were.                                            *)
(*                                                                         *)
(* The turn in which clients change is ClientTurn's: here it comes, or the *)
(* replacement is given up.  The connection may be taken over or closed at *)
(* any moment.  Abstracted: an input is its number, and the limit on held  *)
(* input counts inputs, not bytes; how long a client is given to read.     *)
(***************************************************************************)
EXTENDS Naturals, Sequences

CONSTANTS
    Size,       \* sizes the page asks for
    MaxHeld,    \* MAX_HELD_INPUT_BYTES
    MaxTyped,   \* bound: inputs
    MaxClient,  \* bound: clients; past it the next one cannot be started
    NotHeld     \* conn.heldInput is null

ASSUME InputAssumption ==
    /\ MaxHeld \in Nat /\ MaxTyped \in Nat /\ MaxClient \in Nat \ {0}
    /\ Size # {} /\ NotHeld \notin Seq(Nat)

VARIABLES
    live,       \* the connection is in connections
    typed,      \* inputs the page sent
    sent,       \* term.write: the inputs written, each with its client
    held,       \* conn.heldInput
    shown,      \* conn.pty, by number
    settled,    \* conn.settled is resolved
    size,       \* conn.size: that of the client shown
    want,       \* conn.wantedSize; the client's own until one is asked for
    goal,       \* the size the replacement under way is for
    resizing    \* "no", or where _setClientSize waits

sizeVars == <<size, want, goal>>
inputVars == <<live, typed, sent, held, shown, settled, sizeVars, resizing>>

-----------------------------------------------------------------------------

SizeChanging == want # size

Held == IF held = NotHeld THEN <<>> ELSE held

(* _writeInput of each of q to client c. *)
Written(q, c) == sent \o [k \in DOMAIN q |-> [what |-> q[k], to |-> c]]

(* _retire, _takeOver, destroy: everything ends in _cleanup, which lets    *)
(* whoever waits for the client to settle go on.                           *)
Retired == live' = FALSE /\ held' = NotHeld /\ settled' = TRUE

InputInit ==
    /\ live = TRUE
    /\ typed = 0 /\ sent = <<>> /\ held = NotHeld
    /\ shown = 1 /\ settled = FALSE
    /\ size \in Size /\ want = size /\ goal = size
    /\ resizing = "no"

-----------------------------------------------------------------------------
(* The page *)

(* 'input': written, or held while the size changes; past the limit the    *)
(* terminal is closed.                                                     *)
Input ==
    /\ live /\ typed < MaxTyped /\ typed' = typed + 1
    /\ \/ /\ held = NotHeld
          /\ sent' = Written(<<typed + 1>>, shown)
          /\ UNCHANGED <<live, held, settled>>
       \/ /\ held # NotHeld /\ Len(held) < MaxHeld
          /\ held' = Append(held, typed + 1)
          /\ UNCHANGED <<live, sent, settled>>
       \/ /\ held # NotHeld /\ Len(held) >= MaxHeld
          /\ Retired /\ UNCHANGED sent
    /\ UNCHANGED <<shown, sizeVars, resizing>>

(* 'resize': one replacement at a time, the latest size wins. *)
Resize(s) ==
    /\ live /\ want' = s
    /\ held' = IF s # size THEN Held ELSE held
    /\ resizing' = IF resizing = "no" THEN "settle" ELSE resizing
    /\ UNCHANGED <<live, typed, sent, shown, settled, size, goal>>

(* The socket closes, the client ends on its own, somebody else takes the  *)
(* session, the panel stops.                                               *)
Closes ==
    /\ live /\ Retired
    /\ UNCHANGED <<typed, sent, shown, sizeVars, resizing>>

-----------------------------------------------------------------------------
(* _setClientSize *)

(* The client drew its screen and had its time to settle. *)
Settles ==
    /\ ~settled /\ settled' = TRUE
    /\ UNCHANGED <<live, typed, sent, held, shown, sizeVars, resizing>>

(* Broken variant: one replacement is enough. *)
LoopsOnce ==
    /\ resizing \in {"settle", "again"} /\ settled
    /\ IF live /\ resizing = "settle" /\ SizeChanging
       THEN resizing' = "turn" /\ goal' = want /\ UNCHANGED <<sent, held>>
       ELSE /\ resizing' = "no"
            /\ sent' = IF live THEN Written(Held, shown) ELSE sent
            /\ held' = NotHeld /\ UNCHANGED goal
    /\ UNCHANGED <<live, typed, shown, settled, size, want>>

(* Broken variant: the client stays, and what was held for it too. *)
LoopsHolding ==
    /\ resizing \in {"settle", "again"} /\ settled
    /\ IF live /\ SizeChanging
       THEN resizing' = "turn" /\ goal' = want
       ELSE resizing' = "no" /\ UNCHANGED goal
    /\ UNCHANGED <<live, typed, sent, held, shown, settled, size, want>>

(* The loop: a replacement for the size wanted by now, or none and what    *)
(* was held is for the client that stays.                                  *)
Loops ==
    /\ resizing \in {"settle", "again"} /\ settled
    /\ IF live /\ SizeChanging
       THEN resizing' = "turn" /\ goal' = want /\ UNCHANGED <<sent, held>>
       ELSE /\ resizing' = "no"
            /\ sent' = IF live THEN Written(Held, shown) ELSE sent
            /\ held' = NotHeld /\ UNCHANGED goal
    /\ UNCHANGED <<live, typed, shown, settled, size, want>>

(* _replaceClient got the turn and found it clear: the client is told to   *)
(* leave.                                                                  *)
EndsPrevious ==
    /\ live /\ resizing = "turn"
    /\ resizing' = "leave" /\ held' = Held
    /\ UNCHANGED <<live, typed, sent, shown, settled, sizeVars>>

(* giveUp: the turn is refused, the client does not go or the next one     *)
(* cannot be started.                                                      *)
GivesUp ==
    /\ live /\ resizing \in {"turn", "leave"}
    /\ Retired
    /\ UNCHANGED <<typed, sent, shown, sizeVars, resizing>>

(* Broken variant: what was held is forgotten. *)
ReplacesEmpty ==
    /\ live /\ resizing = "leave" /\ shown < MaxClient
    /\ shown' = shown + 1 /\ size' = goal /\ settled' = FALSE
    /\ sent' = sent
    /\ held' = IF want # goal THEN <<>> ELSE NotHeld
    /\ resizing' = "again"
    /\ UNCHANGED <<live, typed, want, goal>>

(* The next client starts and gets what was held; more is held at once if  *)
(* yet another size is wanted.                                             *)
Replaces ==
    /\ live /\ resizing = "leave" /\ shown < MaxClient
    /\ shown' = shown + 1 /\ size' = goal /\ settled' = FALSE
    /\ sent' = Written(Held, shown + 1)
    /\ held' = IF want # goal THEN <<>> ELSE NotHeld
    /\ resizing' = "again"
    /\ UNCHANGED <<live, typed, want, goal>>

(* The connection ended while its replacement waited. *)
StopsResizing ==
    /\ ~live /\ resizing \in {"turn", "leave"}
    /\ resizing' = "again"
    /\ UNCHANGED <<live, typed, sent, held, shown, settled, sizeVars>>

Goes == Settles \/ Loops \/ EndsPrevious \/ GivesUp \/ Replaces \/ StopsResizing

InputNext == Input \/ (\E s \in Size : Resize(s)) \/ Closes \/ Goes

InputSpec == InputInit /\ [][InputNext]_inputVars

(* A client settles after a time, the turn comes or is refused (Answered   *)
(* of ClientTurn), and the wait for the previous client has a limit.       *)
InputFair ==
    /\ WF_inputVars(Settles)
    /\ WF_inputVars(Loops)
    /\ WF_inputVars(EndsPrevious \/ GivesUp \/ Replaces \/ StopsResizing)

-----------------------------------------------------------------------------
(* Properties *)

InputTypeOK ==
    /\ live \in BOOLEAN /\ settled \in BOOLEAN
    /\ typed \in 0..MaxTyped /\ shown \in 1..MaxClient
    /\ sent \in Seq([what : Nat, to : 1..MaxClient])
    /\ held \in Seq(Nat) \cup {NotHeld}
    /\ size \in Size /\ want \in Size /\ goal \in Size
    /\ resizing \in {"no", "settle", "turn", "leave", "again"}

(* _endClient was called for them.                                         *)
ToldToLeave == IF live /\ resizing # "leave" THEN 1..(shown - 1) ELSE 1..shown

Channel == INSTANCE TypedChannel WITH Client <- 1..MaxClient, over <- ToldToLeave

(* To whoever types it is one channel: all that was typed arrives in order *)
(* and once, at a client that was not told to leave, however often the     *)
(* size changes, goes back, or the client is replaced meanwhile.           *)
IsOneChannel == Channel!Spec

(* What was typed arrives or the connection ends: nothing held is left     *)
(* with nobody to pass it on, also when the size goes back to what it was. *)
EverythingArrives ==
    \A n \in 1..MaxTyped : typed >= n ~> Len(sent) >= n \/ ~live

(* The client gets the size asked for last, however many were asked for    *)
(* while it was being replaced.                                            *)
SizeReached == \A s \in Size : live /\ want = s ~> size = s \/ want # s \/ ~live

=============================================================================
