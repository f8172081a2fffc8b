---------------------------- MODULE MoshSessions ----------------------------
(***************************************************************************)
(* The mosh sessions a node starts for a hub: MoshService of               *)
(* lib/mosh/server.js behind lib/api/mosh.js, in the client turn of        *)
(* lib/terminal.js, on Windows.                                            *)
(*                                                                         *)
(* A session is a mosh-server process and its child, the tmux client.  It  *)
(* is started and ended in the turn only, one job after another, and must  *)
(* be known to be gone before another client starts on its tmux session.   *)
(* A session ends by the hub's DELETE, by the hub giving up its POST, by   *)
(* the next client, by the sweep or at shutdown, several at once.          *)
(*                                                                         *)
(* Abstracted: every session here is on one tmux session (others share     *)
(* only the line), how long a wait is, which signal ends a process, the    *)
(* panel's own clients (see ClientTurn), of which panel is the last one.   *)
(* The process table may be unreadable at every look.  External: a child   *)
(* never recorded goes with its mosh-server, whose terminal hangs up.      *)
(***************************************************************************)
EXTENDS Naturals, Sequences, FiniteSetsExt

CONSTANTS
    Id,     \* sessions a hub asks for, each once
    MaxAsk  \* bound: DELETE requests for one of them

ASSUME MoshAssumption == IsFiniteSet(Id) /\ MaxAsk \in Nat

VARIABLES
    phase,      \* Id -> session.state, a starting one with how far it is; or the tombstone
    asking,     \* ids whose start waits for the capability
    post,       \* Id -> the hub's POST and its answer
    cancelled,  \* session.cancelled
    launch,     \* Id -> session.launch
    alive,      \* Id -> its processes that run
    known,      \* sessions whose mosh-server was identified
    noted,      \* sessions whose child was recorded
    finishing,  \* Id -> where _terminate is
    line,       \* the client turn: the jobs in it
    place,      \* where the first job is
    panel,      \* a client of the panel itself is on the tmux session
    shutting,   \* _closing
    settling,   \* DELETEs that wait for the start to be over
    replies     \* answers to DELETEs

lineVars == <<line, place, panel>>
procVars == <<launch, alive, known, noted>>
nodeVars == <<phase, asking, post, cancelled, procVars, finishing, lineVars, shutting, settling, replies>>

StartPhases == {"pane", "line", "spawn", "identify", "attach"}

(* Whose teardown a job runs; result: it was run already by another, and   *)
(* ended so; for: the DELETEs that wait for it, 0 for the node's own       *)
(* callers of stop; settles: the start waits for it.                       *)
TurnJobs == [kind : {"start", "end", "panel"}, id : Id, result : {"none", "clean", "unclean"},
         for : SUBSET (0..MaxAsk), settles : BOOLEAN]

NodeInit ==
    /\ phase = [i \in Id |-> "none"] /\ asking = {} /\ post = [i \in Id |-> "none"]
    /\ cancelled = {}
    /\ launch = [i \in Id |-> "none"] /\ alive = [i \in Id |-> {}] /\ known = {} /\ noted = {}
    /\ finishing = [i \in Id |-> "no"]
    /\ line = <<>> /\ place = "entry" /\ panel = FALSE
    /\ shutting = FALSE /\ settling = {} /\ replies = {}

(* sessions: entered and not ended. *)
Held == {i \in Id : phase[i] \notin {"none", "ended"}}

Owned == {i \in Id : phase[i] \in {"active", "ending"}}

(* Nothing that was recorded of it runs. *)
Unseen(i) == "server" \notin alive[i] /\ (i \in noted => "client" \notin alive[i])

-----------------------------------------------------------------------------
(* The line *)

StartOf(i) == [kind |-> "start", id |-> i, result |-> "none", for |-> {}, settles |-> FALSE]

PanelOf(i) == [StartOf(i) EXCEPT !.kind = "panel"]

EndOf(i, n, settles) ==
    [kind |-> "end", id |-> i, result |-> IF phase[i] = "ended" THEN "clean" ELSE "none",
     for |-> n, settles |-> settles]

(* session.queued: the job that will run the teardown, if there is one.    *)
Queued(q, i) ==
    {k \in DOMAIN q : /\ q[k].kind = "end" /\ q[k].id = i /\ q[k].result = "none"
                      /\ ~(k = 1 /\ place = "run" /\ finishing[i] = "no")}

(* _end outside the turn, for the DELETEs of n: one job for all.           *)
WithEnd(q, i, n) ==
    IF Queued(q, i) = {} THEN Append(q, EndOf(i, n, FALSE))
    ELSE [k \in DOMAIN q |-> IF k \in Queued(q, i) THEN [q[k] EXCEPT !.for = @ \cup n] ELSE q[k]]

First(kind, i, where) ==
    line # <<>> /\ Head(line).kind = kind /\ Head(line).id = i /\ place = where

(* Broken variant: whoever ended it meanwhile is left to see to it. *)
GivenUpAlone(q, i, answer) ==
    /\ line' = q
    /\ post' = [post EXCEPT ![i] = IF @ = "handled" THEN answer ELSE @]

(* The start failed, in the turn or before it: whoever ends it for good is *)
(* in line behind the others, and only then is the start over.             *)
GivenUp(q, i, answer) ==
    /\ line' = Append(q, EndOf(i, {}, TRUE))
    /\ post' = [post EXCEPT ![i] = IF @ = "handled" THEN answer ELSE @]

-----------------------------------------------------------------------------
(* Starting *)

PostArrives(i) ==
    /\ post[i] = "sent"
    /\ post' = [post EXCEPT ![i] = "handled"]
    /\ asking' = asking \cup {i}
    /\ UNCHANGED <<phase, cancelled, procVars, finishing, lineVars, shutting, settling, replies>>

(* Broken variant: the checks are made when the request arrives. *)
CapableUnchecked(i) ==
    /\ i \in asking
    /\ asking' = asking \ {i}
    /\ phase' = [phase EXCEPT ![i] = "pane"]
    /\ UNCHANGED <<post, cancelled, procVars, finishing, lineVars, shutting, settling, replies>>

(* start: the capability is known, and only now is the rest looked at.     *)
Capable(i) ==
    /\ i \in asking
    /\ asking' = asking \ {i}
    /\ \/ /\ ~shutting /\ phase[i] = "none"
          /\ phase' = [phase EXCEPT ![i] = "pane"] /\ UNCHANGED post
       \/ /\ post' = [post EXCEPT ![i] = IF @ = "handled" THEN (IF shutting THEN "error" ELSE "never") ELSE @]
          /\ UNCHANGED phase
    /\ UNCHANGED <<cancelled, procVars, finishing, lineVars, shutting, settling, replies>>

PaneResolved(i) ==
    /\ phase[i] = "pane"
    /\ \/ /\ i \notin cancelled
          /\ phase' = [phase EXCEPT ![i] = "line"]
          /\ line' = Append(line, StartOf(i))
          /\ UNCHANGED post
       \/ /\ \E answer \in {"never", "error"} : GivenUp(line, i, answer)
          /\ phase' = [phase EXCEPT ![i] = "line"]
    /\ UNCHANGED <<asking, cancelled, procVars, finishing, place, panel, shutting, settling, replies>>

(* endClientsOn: the teardown of each runs now. *)
EndsOthers ==
    /\ finishing' = [i \in Id |-> IF i \in Owned THEN "look" ELSE finishing[i]]
    /\ phase' = [i \in Id |-> IF i \in Owned THEN "ending" ELSE phase[i]]
    /\ cancelled' = cancelled \cup Owned

(* A start's turn: _clearForStart, unless nobody wants it any more. *)
StartEnters(i) ==
    /\ First("start", i, "entry")
    /\ IF i \in cancelled
       THEN /\ GivenUp(Tail(line), i, "error")
            /\ UNCHANGED <<phase, cancelled, finishing, place, panel>>
       ELSE /\ EndsOthers
            /\ place' = "clear" /\ panel' = FALSE
            /\ UNCHANGED <<post, line>>
    /\ UNCHANGED <<asking, procVars, shutting, settling, replies>>

(* Broken variant: nobody waits for the answers of the owners. *)
ClearedAnyway == \A j \in Id : finishing[j] = "no"

ClearedNow == Owned = {} /\ \A j \in Id : finishing[j] = "no"

(* The others are gone: _launch begins.  Else the start is refused. *)
StartClear(i) ==
    /\ First("start", i, "clear") /\ \A j \in Id : finishing[j] = "no"
    /\ IF ClearedNow /\ i \notin cancelled
       THEN /\ phase' = [phase EXCEPT ![i] = "spawn"]
            /\ launch' = [launch EXCEPT ![i] = "running"]
            /\ place' = "run"
            /\ UNCHANGED <<post, line>>
       ELSE /\ GivenUp(Tail(line), i, "error") /\ place' = "entry"
            /\ UNCHANGED <<phase, launch>>
    /\ UNCHANGED <<asking, cancelled, alive, known, noted, finishing, panel, shutting, settling, replies>>

(* The way out of _launch without a session: its end, in the turn. *)
Aborts(i) ==
    /\ phase' = [phase EXCEPT ![i] = "ending"]
    /\ finishing' = [finishing EXCEPT ![i] = "look"]

(* mosh-server detached; it failed; it printed CONNECT and left without a  *)
(* pid (forked); or it was given up after CONNECT, waiting for it (late).  *)
Spawned(i) ==
    /\ phase[i] = "spawn"
    /\ \/ /\ launch' = [launch EXCEPT ![i] = "ok"]
          /\ alive' = [alive EXCEPT ![i] = {"server", "client"}]
          /\ phase' = [phase EXCEPT ![i] = "identify"]
          /\ UNCHANGED finishing
       \/ /\ launch' = [launch EXCEPT ![i] = "failed"]
          /\ Aborts(i) /\ UNCHANGED alive
       \/ \E how \in {"forked", "late"} : \E left \in {{}, {"server", "client"}} :
            /\ launch' = [launch EXCEPT ![i] = how]
            /\ alive' = [alive EXCEPT ![i] = left]
            /\ Aborts(i)
    /\ UNCHANGED <<asking, post, cancelled, known, noted, lineVars, shutting, settling, replies>>

(* _identify found it or not; its child is recorded if the table is read.  *)
Identified(i) ==
    /\ phase[i] = "identify"
    /\ \/ /\ "server" \in alive[i]
          /\ known' = known \cup {i}
          /\ \/ noted' = noted \cup ({i} \cap {j \in Id : "client" \in alive[j]})
             \/ UNCHANGED noted
          /\ IF i \in cancelled THEN Aborts(i) /\ UNCHANGED post
             ELSE /\ phase' = [phase EXCEPT ![i] = "attach"]
                  /\ post' = [post EXCEPT ![i] = IF @ = "handled" THEN "ok" ELSE @]
                  /\ UNCHANGED finishing
       \/ Aborts(i) /\ UNCHANGED <<known, noted, post>>
    /\ UNCHANGED <<asking, cancelled, launch, alive, lineVars, shutting, settling, replies>>

(* tmux lists its client, and after the settling time it is active; or     *)
(* nobody came, it was cancelled, or mosh-server went.                     *)
ClientAttached(i) ==
    /\ phase[i] = "attach"
    /\ \/ /\ alive[i] = {"server", "client"} /\ i \notin cancelled
          /\ noted' = noted \cup {i}
          /\ phase' = [phase EXCEPT ![i] = "active"]
          /\ line' = Tail(line) /\ place' = "entry"
          /\ UNCHANGED finishing
       \/ /\ Aborts(i)
          /\ noted' \in {noted, noted \cup ({i} \cap {j \in Id : alive[j] = {"server", "client"}})}
          /\ UNCHANGED <<line, place>>
    /\ UNCHANGED <<asking, post, cancelled, launch, alive, known, panel, shutting, settling, replies>>

(* The aborted start gives the turn on; its POST is answered. *)
StartAborted(i) ==
    /\ First("start", i, "run") /\ phase[i] \in {"ending", "ended"} /\ finishing[i] = "no"
    /\ GivenUp(Tail(line), i, "error") /\ place' = "entry"
    /\ UNCHANGED <<phase, asking, cancelled, procVars, finishing, panel, shutting, settling, replies>>

-----------------------------------------------------------------------------
(* Ending *)

(* What _terminate returned: the session is forgotten, or kept, when its   *)
(* end may be tried again.  Who is in line for this teardown finds it done.*)
Ends(i, clean) ==
    /\ finishing' = [finishing EXCEPT ![i] = "no"]
    /\ phase' = [phase EXCEPT ![i] = IF clean THEN "ended" ELSE "ending"]
    /\ cancelled' = IF clean THEN cancelled \ {i} ELSE cancelled
    /\ known' = IF clean THEN known \ {i} ELSE known
    /\ line' = [k \in DOMAIN line |->
         IF k \in Queued(line, i) /\ ~(k = 1 /\ place = "run")
         THEN [line[k] EXCEPT !.result = IF clean THEN "clean" ELSE "unclean"] ELSE line[k]]

(* _terminate up to its first signal.  Without a launch, or after one that *)
(* left nothing, there is nothing to end; one never identified stays; and  *)
(* so does one while the table cannot be read.                             *)
EndLooks(i) ==
    /\ finishing[i] = "look"
    /\ \/ i \notin known /\ Ends(i, launch[i] \in {"none", "failed", "late"}) /\ UNCHANGED noted
       \/ i \in known /\ Unseen(i) /\ Ends(i, TRUE) /\ UNCHANGED noted
       \/ i \in known /\ Ends(i, FALSE) /\ UNCHANGED noted
       \/ /\ i \in known /\ ~Unseen(i)
          /\ noted' = IF alive[i] = {"server", "client"} THEN noted \cup {i} ELSE noted
          /\ finishing' = [finishing EXCEPT ![i] = "signalled"]
          /\ UNCHANGED <<phase, line, cancelled, known>>
    /\ UNCHANGED <<asking, post, launch, alive, place, panel, shutting, settling, replies>>

(* They were told to go: seen gone, or not, after the last signal.         *)
EndSees(i) ==
    /\ finishing[i] = "signalled"
    /\ (Unseen(i) /\ Ends(i, TRUE)) \/ Ends(i, FALSE)
    /\ UNCHANGED <<asking, post, launch, alive, noted, place, panel, shutting, settling, replies>>

(* Its turn: the teardown runs, unless another ran it. *)
EndEnters(i) ==
    /\ First("end", i, "entry") /\ Head(line).result = "none"
    /\ phase' = [phase EXCEPT ![i] = "ending"]
    /\ finishing' = [finishing EXCEPT ![i] = "look"]
    /\ place' = "run"
    /\ UNCHANGED <<asking, post, cancelled, procVars, line, panel, shutting, settling, replies>>

Answer(i, N, clean) == {[id |-> i, n |-> n, clean |-> clean] : n \in N \ {0}}

(* The end's turn is over: its DELETEs are answered.  When the start is    *)
(* over with it, the DELETEs that waited for that look again.              *)
EndDone(i) ==
    /\ line # <<>> /\ Head(line).kind = "end" /\ Head(line).id = i
    /\ \/ place = "run" /\ finishing[i] = "no"
       \/ place = "entry" /\ Head(line).result # "none"
    /\ LET clean == phase[i] = "ended" /\ Head(line).result # "unclean"
           late == IF Head(line).settles THEN {s.n : s \in {s \in settling : s.id = i}} ELSE {} IN
       /\ replies' = replies \cup Answer(i, Head(line).for, clean)
                             \cup (IF phase[i] = "ended" THEN Answer(i, late, TRUE) ELSE {})
       /\ line' = IF late = {} \/ phase[i] = "ended" THEN Tail(line) ELSE Tail(WithEnd(line, i, late))
       /\ settling' = IF Head(line).settles THEN {s \in settling : s.id # i} ELSE settling
    /\ place' = "entry"
    /\ UNCHANGED <<phase, asking, post, cancelled, procVars, finishing, panel, shutting>>

(* stop, for the caller n. *)
Stops(i, n) ==
    IF phase[i] \in {"none", "ended"}
    THEN /\ phase' = [phase EXCEPT ![i] = "ended"]
         /\ replies' = replies \cup Answer(i, {n}, TRUE)
         /\ UNCHANGED <<cancelled, settling, line>>
    ELSE /\ cancelled' = cancelled \cup {i}
         /\ IF phase[i] \in StartPhases
            THEN settling' = settling \cup {[id |-> i, n |-> n]} /\ UNCHANGED line
            ELSE line' = WithEnd(line, i, {n}) /\ UNCHANGED settling
         /\ UNCHANGED <<phase, replies>>

DeleteArrives(i, n) ==
    /\ Stops(i, n)
    /\ UNCHANGED <<asking, post, procVars, finishing, place, panel, shutting>>

(* The hub no longer waits for the answer to its POST. *)
PostAbandoned(i) ==
    /\ post[i] = "handled"
    /\ Stops(i, 0)
    /\ post' = [post EXCEPT ![i] = "gone"]
    /\ UNCHANGED <<asking, procVars, finishing, place, panel, shutting>>

(* reap: a session whose processes went by themselves, and one whose hub   *)
(* was silent.  Reading the table takes less time than a start.            *)
ReapGone(i) ==
    /\ phase[i] = "active" /\ Queued(line, i) = {} /\ Unseen(i)
    /\ phase' = [phase EXCEPT ![i] = "ended"]
    /\ known' = known \ {i} /\ cancelled' = cancelled \ {i}
    /\ UNCHANGED <<asking, post, launch, alive, noted, finishing, lineVars, shutting, settling, replies>>

ReapSilent(i) ==
    /\ phase[i] = "active" /\ Queued(line, i) = {} /\ ~Unseen(i)
    /\ cancelled' = cancelled \cup {i}
    /\ line' = WithEnd(line, i, {})
    /\ UNCHANGED <<phase, asking, post, procVars, finishing, place, panel, shutting, settling, replies>>

(* A process goes, told to or not: the tmux client, or mosh-server with a  *)
(* client nobody recorded.                                                 *)
ProcessGoes(i) ==
    /\ \E p \in alive[i] :
         alive' = [alive EXCEPT ![i] = IF p = "server" /\ i \notin noted THEN {} ELSE @ \ {p}]
    /\ UNCHANGED <<phase, asking, post, cancelled, launch, known, noted, finishing, lineVars,
                   shutting, settling, replies>>

-----------------------------------------------------------------------------
(* A terminal of the panel itself, such as one the hub relayed *)

PanelEnters(i) ==
    /\ First("panel", i, "entry")
    /\ EndsOthers
    /\ place' = "clear"
    /\ UNCHANGED <<asking, post, procVars, line, panel, shutting, settling, replies>>

PanelClear(i) ==
    /\ First("panel", i, "clear") /\ \A j \in Id : finishing[j] = "no"
    /\ panel' = (panel \/ ClearedNow)
    /\ line' = Tail(line) /\ place' = "entry"
    /\ UNCHANGED <<phase, asking, post, cancelled, procVars, finishing, shutting, settling, replies>>

PanelLeaves ==
    /\ panel /\ panel' = FALSE
    /\ UNCHANGED <<phase, asking, post, cancelled, procVars, finishing, line, place, shutting, settling, replies>>

(* stopAll: no new sessions, and every one is stopped, in some order.      *)
StopAll ==
    /\ ~shutting /\ shutting' = TRUE
    /\ cancelled' = cancelled \cup Held
    /\ settling' = settling \cup {[id |-> i, n |-> 0] : i \in Held \ Owned}
    /\ LET unqueued == {i \in Owned : Queued(line, i) = {}} IN
       \E order \in Bijection(1..Cardinality(unqueued), unqueued) :
         line' = line \o [k \in DOMAIN order |-> EndOf(order[k], {}, FALSE)]
    /\ UNCHANGED <<phase, asking, post, procVars, finishing, place, panel, replies>>

(* What continues at once when what it waited for is there. *)
NodeContinues(i) == StartClear(i) \/ StartAborted(i) \/ EndDone(i) \/ PanelClear(i)

NodeContinuing ==
    /\ line # <<>>
    /\ \/ place # "entry" /\ (\A i \in Id : finishing[i] = "no")
          /\ (Head(line).kind = "start" /\ place = "run" => phase[Head(line).id] \in {"ending", "ended"})
       \/ Head(line).result # "none"

NodeEvent ==
    \/ \E i \in Id : \/ PostArrives(i) \/ Capable(i) \/ PaneResolved(i)
                     \/ StartEnters(i) \/ Spawned(i) \/ Identified(i) \/ ClientAttached(i)
                     \/ EndLooks(i) \/ EndSees(i) \/ EndEnters(i)
                     \/ ReapGone(i) \/ ReapSilent(i) \/ ProcessGoes(i) \/ PanelEnters(i)
    \/ PanelLeaves \/ StopAll

(* What a limit of time or a promise brings on. *)
NodeProgress(i) ==
    \/ Capable(i) \/ PaneResolved(i) \/ StartEnters(i) \/ Spawned(i) \/ Identified(i)
    \/ ClientAttached(i) \/ EndLooks(i) \/ EndSees(i) \/ EndEnters(i) \/ PanelEnters(i)

-----------------------------------------------------------------------------

(* The type of the node's state. *)
NodeTypeOK ==
    /\ phase \in [Id -> StartPhases \cup {"none", "active", "ending", "ended"}]
    /\ asking \subseteq Id /\ cancelled \subseteq Id /\ known \subseteq Id /\ noted \subseteq Id
    /\ post \in [Id -> {"none", "sent", "handled", "ok", "never", "error", "gone"}]
    /\ launch \in [Id -> {"none", "running", "ok", "failed", "forked", "late"}]
    /\ alive \in [Id -> SUBSET {"server", "client"}]
    /\ finishing \in [Id -> {"no", "look", "signalled"}]
    /\ line \in Seq(TurnJobs) /\ place \in {"entry", "clear", "run"}
    /\ panel \in BOOLEAN /\ shutting \in BOOLEAN
    /\ settling \subseteq [id : Id, n : 0..MaxAsk]
    /\ replies \subseteq [id : Id, n : 1..MaxAsk, clean : BOOLEAN]

=============================================================================
