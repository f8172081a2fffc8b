----------------------------- MODULE ClientTurn -----------------------------
(***************************************************************************)
(* The tmux clients of the panel's browser terminals on Windows: the       *)
(* TerminalManager of lib/terminal.js with the gateway that feeds it       *)
(* (lib/terminal/gateway.js).                                              *)
(*                                                                         *)
(* A client is a process the panel starts in a pseudo console (a Term).  A *)
(* browser socket (a Conn) shows one client at a time.  The tmux server    *)
(* loses terminal answers of a client that starts while another leaves, so *)
(* the manager lets clients change one at a time: starts queue for a turn, *)
(* a start waits until no client starts or leaves, and a client told to    *)
(* leave while another starts waits for that start to be over.             *)
(*                                                                         *)
(* JavaScript runs one callback at a time, so an action is everything from *)
(* one wait to the next.  Timers and process deaths are separate actions:  *)
(* a wait of n milliseconds is a step that may come at any later moment.   *)
(* Abstracted: the sizes and the input of a terminal (TerminalInput has    *)
(* them), what is drawn, and clients started for mosh sessions.            *)
(***************************************************************************)
EXTENDS Naturals, Sequences

CONSTANTS
    Conn,       \* browser sockets, each used once
    Term,       \* client processes the panel may start, each used once
    Session,    \* tmux sessions
    SessionOf,  \* the session of the pane a socket asks for
    NoTerm,     \* a socket that shows no client yet
    NoConn,     \* the owner of a client not started yet
    Nowhere     \* the session of a client that does not run

ASSUME ClientTurnAssumption ==
    /\ SessionOf \in [Conn -> Session]
    /\ NoTerm \notin Term
    /\ NoConn \notin Conn
    /\ Nowhere \notin Session

VARIABLES
    conn,       \* Conn -> "new", "asking" (in line), "attached", "gone"
    pty,        \* Conn -> the client it shows, conn.pty
    home,       \* Term -> the socket it was started for
    proc,       \* Term -> "unborn", "running", "dead", "reported" (onExit ran)
    pid,        \* clients whose pid node-pty has delivered
    starting,   \* _starting
    waiting,    \* _waitingToEnd
    leaving,    \* _leaving: clients whose _killClient is under way
    told,       \* clients process.kill was called for
    ended,      \* _endedClients
    still,      \* _stillRunning
    turn,       \* _clientTurn: the sockets whose jobs are in line
    step,       \* where the first job in line is
    down        \* _shuttingDown

clients == <<starting, waiting, leaving, ended>>
procs == <<home, proc, pid, told>>
vars == <<conn, pty, clients, procs, still, turn, step, down>>

-----------------------------------------------------------------------------

Exited == {t \in Term : proc[t] = "reported"}

Attached == {c \in Conn : conn[c] = "attached"}

(* Clients ended one after another settle to this: those asked to end go   *)
(* if every start still under way is one of their own (a client ended      *)
(* while it starts stops starting), all of them when shutting down, and    *)
(* otherwise wait.  At most one client is ever starting (OneStarting).     *)
Proceed(want, rest) ==
    LET go == IF down \/ rest \subseteq want THEN want ELSE {} IN
    /\ starting' = rest \ go
    /\ waiting' = want \ go
    /\ leaving' = leaving \cup go
    /\ ended' = ended \cup go

(* _endClient for every client of T, with the starts of R released: when a *)
(* start is over, whoever waited for it is ended.                          *)
EndClients(T, R) ==
    Proceed(waiting \cup (T \ (ended \cup Exited)), starting \ R)

(* _endClient, closing and _cleanup for every connection of D, as _retire, *)
(* _takeOver and destroy do; a socket still in line has only to close.     *)
EndConnections(D, others) ==
    LET shown == {pty[d] : d \in D \cap Attached} IN
    /\ EndClients(shown \cup others, shown)
    /\ conn' = [d \in Conn |-> IF d \in D THEN "gone" ELSE conn[d]]

FirstInLine(c, s) == turn # <<>> /\ Head(turn) = c /\ step = s

(* The job is over: the next one in line is entered. *)
GiveTurnOn == turn' = Tail(turn) /\ step' = "entry"

(* Broken variant: the wait for a client that will not go has no limit.    *)
QuietForever == starting = {} /\ leaving = {} /\ still = {}

Quiet == starting = {} /\ leaving = {}

(* Broken variant: the next client does not wait for the previous one. *)
PreviousTold(c) == FirstInLine(c, "leave")

PreviousLeft(c) == FirstInLine(c, "leave") /\ pty[c] \notin leaving

(* Promise continuations run before any timer or event: nothing else does  *)
(* while the first job in line can go on.                                  *)
Resting ==
    ~ \E c \in Conn : \/ FirstInLine(c, "entry")
                      \/ FirstInLine(c, "clear") /\ Quiet
                      \/ PreviousLeft(c)

Init ==
    /\ conn = [c \in Conn |-> "new"]
    /\ pty = [c \in Conn |-> NoTerm]
    /\ home = [t \in Term |-> NoConn]
    /\ proc = [t \in Term |-> "unborn"]
    /\ pid = {} /\ told = {}
    /\ starting = {} /\ waiting = {} /\ leaving = {} /\ ended = {}
    /\ still = {}
    /\ turn = <<>> /\ step = "entry"
    /\ down = FALSE

-----------------------------------------------------------------------------
(* What the browser and the panel ask for.                                 *)

(* A socket's pane was resolved and the socket is still open: it gets in   *)
(* line.  No route leads here once the plugin is disposed.                 *)
Open(c) ==
    /\ Resting /\ conn[c] = "new" /\ ~down
    /\ conn' = [conn EXCEPT ![c] = "asking"]
    /\ turn' = Append(turn, c)
    /\ UNCHANGED <<pty, clients, procs, still, step, down>>

(* A size other than the client's was asked for and the client has settled:*)
(* a new client at that size gets in line.  One at a time.                 *)
RequestReplace(c) ==
    /\ Resting /\ conn[c] = "attached"
    /\ pty[c] \notin starting
    /\ \A i \in 1..Len(turn) : turn[i] # c
    /\ turn' = Append(turn, c)
    /\ UNCHANGED <<conn, pty, clients, procs, still, step, down>>

(* The socket closes, fails, misses a ping, or is closed for holding too   *)
(* much input.                                                             *)
Close(c) ==
    /\ Resting /\ conn[c] \in {"asking", "attached"}
    /\ EndConnections({c}, {})
    /\ UNCHANGED <<pty, procs, still, turn, step, down>>

(* destroyAll, when the plugin is disposed.  Sockets in line stay open.    *)
Shutdown ==
    /\ Resting /\ ~down
    /\ down' = TRUE
    /\ EndConnections(Attached, {})
    /\ UNCHANGED <<pty, procs, still, turn, step>>

-----------------------------------------------------------------------------
(* The turn.                                                               *)

(* The job's own socket is gone, and it has not begun. *)
SkipTurn(c) ==
    /\ FirstInLine(c, "entry") /\ conn[c] = "gone"
    /\ GiveTurnOn
    /\ UNCHANGED <<conn, pty, clients, procs, still, down>>

(* Broken variant: attach-session -d is left to detach them. *)
OthersDetached(c) == {}

(* Our other connections on the session, which a start takes over. *)
Others(c) == {d \in Attached \ {c} : SessionOf[d] = SessionOf[c]}

(* _clearForStart up to its first wait: clients that did not go are looked *)
(* at again (told now if they never were, forgotten if they are not        *)
(* running), and our other connections on the session are taken over.      *)
ClearForStart(c) ==
    LET untold == still \ ended
        died == {t \in still \cap ended : proc[t] # "running"}
    IN
    /\ FirstInLine(c, "entry") /\ conn[c] # "gone"
    /\ still' = still \ (untold \cup died)
    /\ EndConnections(Others(c), untold)
    /\ step' = "clear"
    /\ UNCHANGED <<pty, procs, turn, down>>

(* _settle with nothing left to wait for, but a client that did not go:    *)
(* TERMINAL_BUSY, and the socket is closed for the page to try again.      *)
Refuse(c) ==
    /\ FirstInLine(c, "clear") /\ conn[c] # "gone"
    /\ Quiet /\ still # {}
    /\ EndConnections({c}, {})
    /\ GiveTurnOn
    /\ UNCHANGED <<pty, procs, still, down>>

(* Broken variant: the exit handler is bound to the client it replaces. *)
SpawnUnbound(c, t) ==
    /\ proc[t] = "unborn"
    /\ proc' = [proc EXCEPT ![t] = "running"]
    /\ home' = [home EXCEPT ![t] = pty[c]]
    /\ pty' = [pty EXCEPT ![c] = t]
    /\ starting' = starting \cup {t}
    /\ UNCHANGED <<pid, told, waiting, leaving, ended>>

(* spawnPty and _bindPty: a client starts for c. *)
Spawn(c, t) ==
    /\ proc[t] = "unborn"
    /\ proc' = [proc EXCEPT ![t] = "running"]
    /\ home' = [home EXCEPT ![t] = c]
    /\ pty' = [pty EXCEPT ![c] = t]
    /\ starting' = starting \cup {t}
    /\ UNCHANGED <<pid, told, waiting, leaving, ended>>

(* create, from the gateway's attach. *)
Attach(c) ==
    /\ FirstInLine(c, "clear") /\ conn[c] = "asking"
    /\ Quiet /\ still = {}
    /\ \E t \in Term : Spawn(c, t)
    /\ conn' = [conn EXCEPT ![c] = "attached"]
    /\ GiveTurnOn
    /\ UNCHANGED <<still, down>>

(* create refuses the pane's quota, or the client cannot be started. *)
AttachFails(c) ==
    /\ FirstInLine(c, "clear") /\ conn[c] = "asking"
    /\ Quiet /\ still = {}
    /\ EndConnections({c}, {})
    /\ GiveTurnOn
    /\ UNCHANGED <<pty, procs, still, down>>

(* _replaceClient: its own client is told to leave, now that it is quiet. *)
EndPrevious(c) ==
    /\ FirstInLine(c, "clear") /\ conn[c] = "attached"
    /\ Quiet /\ still = {}
    /\ EndClients({pty[c]}, {})
    /\ step' = "leave"
    /\ UNCHANGED <<conn, pty, procs, still, turn, down>>

(* Only the previous client is looked at before the next one starts. *)
Replace(c) ==
    /\ PreviousLeft(c) /\ conn[c] = "attached"
    /\ pty[c] \notin still
    /\ \E t \in Term : Spawn(c, t)
    /\ GiveTurnOn
    /\ UNCHANGED <<conn, still, down>>

(* Broken variant: the socket is left open. *)
ReplaceFailsOpen(c) ==
    /\ PreviousLeft(c) /\ conn[c] = "attached"
    /\ GiveTurnOn
    /\ UNCHANGED <<conn, pty, clients, procs, still, down>>

(* giveUp: the previous client did not go, or the next cannot be started. *)
ReplaceFails(c) ==
    /\ PreviousLeft(c) /\ conn[c] = "attached"
    /\ EndConnections({c}, {})
    /\ GiveTurnOn
    /\ UNCHANGED <<pty, procs, still, down>>

(* The socket closed while its job waited. *)
AbandonTurn(c) ==
    /\ FirstInLine(c, "clear") \/ PreviousLeft(c)
    /\ conn[c] = "gone"
    /\ GiveTurnOn
    /\ UNCHANGED <<conn, pty, clients, procs, still, down>>

-----------------------------------------------------------------------------
(* The clients.                                                            *)

(* Broken variant: a start that is over does not end who waited for it. *)
StartOverAlone(t) ==
    /\ Resting /\ t \in starting
    /\ starting' = starting \ {t}
    /\ UNCHANGED <<conn, pty, waiting, leaving, ended, procs, still, turn, step, down>>

(* The client drew its screen, or the wait for that ran out, and it settled.*)
StartOver(t) ==
    /\ Resting /\ t \in starting
    /\ EndClients({}, {t})
    /\ UNCHANGED <<conn, pty, procs, still, turn, step, down>>

(* node-pty delivers the pid, 0 until then. *)
PidArrives(t) ==
    /\ Resting /\ proc[t] = "running" /\ t \notin pid
    /\ pid' = pid \cup {t}
    /\ UNCHANGED <<conn, pty, clients, home, proc, told, still, turn, step, down>>

(* _killClient: the pid is there and the input has been read. *)
Kill(t) ==
    /\ Resting /\ t \in leaving \cap pid /\ t \notin told \cup Exited
    /\ told' = told \cup {t}
    /\ UNCHANGED <<conn, pty, clients, home, proc, pid, still, turn, step, down>>

(* The process ends: told to, detached, or on its own. *)
Die(t) ==
    /\ proc[t] = "running"
    /\ proc' = [proc EXCEPT ![t] = "dead"]
    /\ UNCHANGED <<conn, pty, clients, home, pid, told, still, turn, step, down>>

(* onExit, which can come a second later.  The connection that shows the   *)
(* client ends with it, unless it is being replaced.                       *)
Exit(t) ==
    LET c == home[t] IN
    /\ Resting /\ proc[t] = "dead"
    /\ proc' = [proc EXCEPT ![t] = "reported"]
    /\ still' = still \ {t}
    /\ Proceed(waiting \ {t}, starting \ {t})
    /\ conn' = IF c \in Attached /\ pty[c] = t /\ ~FirstInLine(c, "leave")
                THEN [conn EXCEPT ![c] = "gone"] ELSE conn
    /\ UNCHANGED <<pty, home, pid, told, turn, step, down>>

(* _killClient answers that the client is gone. *)
Gone(t) ==
    /\ Resting /\ t \in leaving
    /\ t \in Exited \/ (t \in told /\ proc[t] = "dead")
    /\ leaving' = leaving \ {t}
    /\ UNCHANGED <<conn, pty, starting, waiting, ended, procs, still, turn, step, down>>

(* Broken variant: a client that did not go is forgotten. *)
NotGoneForgotten(t) ==
    /\ Resting /\ t \in leaving
    /\ t \in told /\ proc[t] = "running"
    /\ leaving' = leaving \ {t}
    /\ UNCHANGED <<conn, pty, starting, waiting, ended, procs, still, turn, step, down>>

(* It answers that it is not: killed and still running after the wait, or  *)
(* its pid never came, in which case it counts as never told.              *)
NotGone(t) ==
    /\ Resting /\ t \in leaving
    /\ \/ t \in told /\ proc[t] = "running" /\ ended' = ended
       \/ t \notin pid \cup Exited /\ ended' = ended \ {t}
    /\ leaving' = leaving \ {t}
    /\ still' = still \cup {t}
    /\ UNCHANGED <<conn, pty, starting, waiting, procs, turn, step, down>>

TurnStep(c) ==
    \/ SkipTurn(c) \/ ClearForStart(c) \/ Refuse(c) \/ Attach(c) \/ AttachFails(c)
    \/ EndPrevious(c) \/ Replace(c) \/ ReplaceFails(c) \/ AbandonTurn(c)

LeaveStep(t) == Kill(t) \/ Gone(t) \/ NotGone(t)

Next ==
    \/ \E c \in Conn : Open(c) \/ RequestReplace(c) \/ Close(c) \/ TurnStep(c)
    \/ \E t \in Term : StartOver(t) \/ PidArrives(t) \/ Die(t) \/ Exit(t) \/ LeaveStep(t)
    \/ Shutdown

(* Promise callbacks and timers run; nothing makes a browser ask or close, *)
(* a process end or a pid arrive.                                          *)
Fairness ==
    /\ \A c \in Conn : WF_vars(TurnStep(c))
    /\ \A t \in Term : WF_vars(StartOver(t)) /\ WF_vars(LeaveStep(t))

Spec == Init /\ [][Next]_vars

FairSpec == Spec /\ Fairness

-----------------------------------------------------------------------------
(* Properties.                                                             *)

TypeOK ==
    /\ conn \in [Conn -> {"new", "asking", "attached", "gone"}]
    /\ pty \in [Conn -> Term \cup {NoTerm}]
    /\ home \in [Term -> Conn \cup {NoConn}]
    /\ proc \in [Term -> {"unborn", "running", "dead", "reported"}]
    /\ pid \subseteq Term /\ told \subseteq Term
    /\ starting \subseteq Term /\ waiting \subseteq Term
    /\ leaving \subseteq Term /\ ended \subseteq Term /\ still \subseteq Term
    /\ turn \in Seq(Conn)
    /\ step \in {"entry", "clear", "leave"}
    /\ down \in BOOLEAN

Running(t) == proc[t] = "running"

SameSession(t, u) == SessionOf[home[t]] = SessionOf[home[u]]

(* At most one client the panel started runs on a session, counting those  *)
(* whose connection is long gone: a client that starts finds nobody of     *)
(* ours for attach-session -d to detach (terminal.js, whenClientCanStart). *)
OneClientPerSession ==
    \A t, u \in Term : t # u /\ Running(t) /\ Running(u) => ~SameSession(t, u)

(* Clients start one at a time, whichever of an attach and a replacement   *)
(* starts them, and however many sockets ask.                              *)
OneStarting == \A t, u \in starting : t = u

(* No client is forgotten: one that runs and that no connection shows is   *)
(* still waiting to be ended, leaving, or known not to have gone.          *)
NoOrphan ==
    \A t \in Term :
        Running(t) => \/ \E c \in Attached : pty[c] = t
                      \/ t \in waiting \cup leaving \cup still

(* A connection never shows a client that was told to leave, except while  *)
(* that client is being replaced, when its input is held.                  *)
ShowsALiveClient ==
    \A c \in Attached :
        pty[c] \in ended \cup waiting \cup leaving => FirstInLine(c, "leave")

(* Who starts finds no other client that starts or is still to be ended,   *)
(* and none on its session that is on its way out or may not have gone,    *)
(* though sockets close and open while a job waits and a replacement looks *)
(* at its own client only.  StartsApart says more, and does not hold.      *)
StartsAlone ==
    [][\A t \in starting' \ starting :
         /\ starting \cup waiting = {}
         /\ \A u \in leaving \cup still : SessionOf[home[u]] # SessionOf[home'[t]]]_vars

(* What the comment at whenClientCanStart says of every start: nothing     *)
(* starts while anything leaves.                                           *)
StartsApart ==
    [][starting' \ starting # {} => leaving = {}]_vars

(* What the comment in destroyAll says: nothing starts after a shutdown.   *)
NoStartAfterShutdown ==
    [][starting' \ starting # {} => ~down]_vars

(* Every socket in line is answered: it attaches or it is closed, whatever *)
(* the clients it waits for do.                                            *)
Answered == \A c \in Conn : conn[c] = "asking" ~> conn[c] # "asking"

(* A client that must wait to be ended gets its end: it does not wait on a *)
(* start that in turn waits for it to leave.                               *)
WaitingIsEnded == \A t \in Term : t \in waiting ~> t \notin waiting

-----------------------------------------------------------------------------
(* What all of this is for: to a session, the manager is one that starts a *)
(* client only where none of its clients runs.                             *)

on == [t \in Term |-> IF Running(t) THEN SessionOf[home[t]] ELSE Nowhere]

Promise == INSTANCE SessionClients WITH Client <- Term

(* The turn, the taking over and the waits implement that promise.         *)
KeepsPromise == Promise!Spec

=============================================================================
