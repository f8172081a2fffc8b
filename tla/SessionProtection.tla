------------------------- MODULE SessionProtection -------------------------
(***************************************************************************)
(* Keeping tmux sessions across restarts of tmux: SessionProtection of     *)
(* lib/session-protection/service.js, in the mode where the panel is in    *)
(* charge.                                                                 *)
(*                                                                         *)
(* Ticks and requests to save run one at a time.  Each is a row of tmux    *)
(* commands, and between any two of them people open and close sessions,   *)
(* tmux ends and starts again, a command is refused, or the panel stops.   *)
(* A server with no sessions is normal: the panel's tmux.conf turns        *)
(* exit-empty off.                                                         *)
(*                                                                         *)
(* Abstracted: what a session holds, options and key bindings (see         *)
(* Prepare), the exact times, and the other name a session gets when its   *)
(* own is taken while it is restored.                                      *)
(***************************************************************************)
EXTENDS Naturals

CONSTANTS
    Name,           \* session names
    MaxServers      \* bound: tmux servers started

ASSUME ProtectionAssumption == MaxServers \in Nat

VARIABLES
    server,     \* the tmux server by number, 0 for none
    servers,    \* how many there have been
    sessions,   \* the sessions of the server
    mark,       \* @twp-protect-seen is set on the server
    fresh,      \* the server is younger than FRESH_SERVER_MS
    last,       \* the sessions in the snapshot `last` points to
    enabled,    \* settings.enabled
    due,        \* SAVE_INTERVAL_MS have passed since _lastSaveAt
    prepared,   \* _preparedFor
    task,       \* the job _serial runs
    owed,       \* history: saved sessions that went down with tmux, not back
    back,       \* history: sessions restored on this server unasked
    twice,      \* history: one of those was restored again
    raced       \* history: tmux ended while a job was running

tmux == <<server, servers, sessions, mark, fresh>>
panel == <<last, enabled, due, prepared>>
history == <<owed, back, twice, raced>>
vars == <<tmux, panel, task, history>>

Steps == {"idle", "check", "prepare", "mark", "look", "restore", "record", "decide", "save"}

(* A job: what _inspect told it about the server, and what it has to       *)
(* restore.                                                                *)
Tasks == [kind : {"tick", "save"}, at : Steps, pid : 0..MaxServers,
          seen : BOOLEAN, young : BOOLEAN, left : SUBSET Name]

At(step) == task.at = step

Go(step) == task' = [task EXCEPT !.at = step]

(* What follows the first sight: a tick may save, saveNow does. *)
Onward == IF task.kind = "tick" THEN "decide" ELSE "save"

Init ==
    /\ server = 0 /\ servers = 0 /\ sessions = {} /\ mark = FALSE /\ fresh = FALSE
    /\ last \in SUBSET Name /\ owed = last
    /\ enabled \in BOOLEAN /\ due = TRUE /\ prepared = 0
    /\ task = [kind |-> "tick", at |-> "idle", pid |-> 0, seen |-> FALSE,
               young |-> FALSE, left |-> {}]
    /\ back = {} /\ twice = FALSE /\ raced = FALSE

-----------------------------------------------------------------------------
(* Around the panel. *)

(* A new server with the sessions s. *)
NewServer(s) ==
    /\ servers < MaxServers
    /\ servers' = servers + 1 /\ server' = servers + 1
    /\ sessions' = s /\ mark' = FALSE /\ fresh' = TRUE

Starts(s) ==
    /\ server = 0
    /\ NewServer(s)
    /\ owed' = owed \ s
    /\ UNCHANGED <<panel, task, back, twice, raced>>

Ends ==
    /\ server # 0
    /\ server' = 0 /\ sessions' = {} /\ mark' = FALSE /\ fresh' = FALSE
    /\ owed' = owed \cup (sessions \cap last)
    /\ raced' = (raced \/ ~At("idle"))
    /\ back' = {}
    /\ UNCHANGED <<servers, panel, task, twice>>

(* Someone opens or closes a session. *)
Opens(n) ==
    /\ server # 0 /\ n \notin sessions
    /\ sessions' = sessions \cup {n}
    /\ owed' = owed \ {n}
    /\ UNCHANGED <<server, servers, mark, fresh, panel, task, back, twice, raced>>

Closes(n) ==
    /\ n \in sessions
    /\ sessions' = sessions \ {n}
    /\ UNCHANGED <<server, servers, mark, fresh, panel, task, history>>

(* FRESH_SERVER_MS have passed: for the server there is, or only for the   *)
(* one a job knows.                                                        *)
GrowsOld ==
    /\ fresh \/ task.young
    /\ task' = [task EXCEPT !.young = FALSE]
    /\ fresh' = FALSE \/ (task.pid # server /\ fresh' = fresh)
    /\ UNCHANGED <<server, servers, sessions, mark, panel, history>>

SaveIsDue ==
    /\ ~due
    /\ due' = TRUE
    /\ UNCHANGED <<tmux, last, enabled, prepared, task, history>>

(* update(): the setting counts at once. *)
Toggle ==
    /\ enabled' = ~enabled
    /\ UNCHANGED <<tmux, last, due, prepared, task, history>>

(* A job that ends half way leaves what it was restoring to the user.      *)
GivenUp == IF task.at \in {"look", "restore"} THEN {} ELSE owed

PanelRestarts ==
    /\ due' = TRUE /\ prepared' = 0
    /\ Go("idle")
    /\ owed' = GivenUp
    /\ UNCHANGED <<tmux, last, enabled, back, twice, raced>>

-----------------------------------------------------------------------------
(* The job. *)

(* _inspect: one round trip. *)
Begin(kind) ==
    /\ At("idle") /\ server # 0
    /\ task' = [kind |-> kind, at |-> IF kind = "tick" THEN "prepare" ELSE "check",
                pid |-> server, seen |-> mark, young |-> fresh, left |-> {}]
    /\ UNCHANGED <<tmux, panel, history>>

(* saveNow refuses when there is nothing to save. *)
Check ==
    /\ At("check")
    /\ Go(IF sessions = {} THEN "idle" ELSE "prepare")
    /\ UNCHANGED <<tmux, panel, history>>

(* Options, once per server and run of the panel. *)
Prepare ==
    /\ At("prepare")
    /\ prepared = task.pid \/ server # 0
    /\ prepared' = task.pid
    /\ Go(IF task.seen THEN Onward ELSE "mark")
    /\ UNCHANGED <<tmux, last, enabled, due, history>>

(* Broken variant: the server is not marked. *)
MarkNothing ==
    /\ At("mark") /\ server # 0
    /\ Go(IF enabled THEN "look" ELSE Onward)
    /\ owed' = IF enabled THEN owed ELSE {}
    /\ UNCHANGED <<tmux, panel, back, twice, raced>>

(* _firstSight marks whichever server runs by now.  With protection off    *)
(* nothing is restored.                                                    *)
Mark ==
    /\ At("mark") /\ server # 0
    /\ mark' = TRUE
    /\ Go(IF enabled THEN "look" ELSE Onward)
    /\ owed' = IF enabled THEN owed ELSE {}
    /\ UNCHANGED <<server, servers, sessions, fresh, panel, back, twice, raced>>

(* Broken variant: any session means that the server was there before.     *)
LookForNone ==
    /\ At("look")
    /\ IF sessions # {} \/ last = {} THEN Go(Onward)
       ELSE task' = [task EXCEPT !.at = "restore", !.left = last]
    /\ UNCHANGED <<tmux, panel, history>>

(* A server that was there before the panel is left alone; on one just     *)
(* started, what is saved and not running comes back.  The step ends with  *)
(* the list of names taken (_restoreAll).                                  *)
Look ==
    /\ At("look")
    /\ \/ /\ sessions # {} /\ ~task.young
          /\ Go(Onward) /\ owed' = {}
       \/ /\ sessions = {} \/ task.young
          /\ IF last \subseteq sessions THEN Go(Onward)
             ELSE task' = [task EXCEPT !.at = "restore", !.left = last \ sessions]
          /\ UNCHANGED owed
    /\ UNCHANGED <<tmux, panel, back, twice, raced>>

Done(n) ==
    task' = [task EXCEPT !.left = @ \ {n},
                         !.at = IF task.left = {n} THEN "record" ELSE "restore"]

(* Broken variant: there is always another one to restore. *)
RestoreForever(n) ==
    /\ At("restore") /\ n \in task.left /\ server # 0
    /\ sessions' = sessions \cup {n}
    /\ task' = [task EXCEPT !.left = @ \ {n}]
    /\ owed' = owed \ {n} /\ back' = back \cup {n} /\ twice' = (twice \/ n \in back)
    /\ UNCHANGED <<server, servers, mark, fresh, panel, raced>>

(* restoreSession: new-session, which starts a server if none runs.  What  *)
(* comes after it may fail and leaves the session there.                   *)
Restore(n) ==
    /\ At("restore") /\ n \in task.left
    /\ \/ /\ server # 0
          /\ sessions' = sessions \cup {n}
          /\ back' = back \cup {n} /\ twice' = (twice \/ n \in back)
          /\ UNCHANGED <<server, servers, mark, fresh>>
       \/ /\ server = 0
          /\ NewServer({n})
          /\ back' = {n} /\ UNCHANGED twice
    /\ Done(n)
    /\ owed' = owed \ {n}
    /\ UNCHANGED <<panel, raced>>

(* No session comes of it: the others are restored all the same. *)
RestoreFails(n) ==
    /\ At("restore") /\ n \in task.left
    /\ Done(n)
    /\ owed' = owed \ {n}
    /\ UNCHANGED <<tmux, panel, back, twice, raced>>

(* The server is told, and no save is due for a while. *)
Record ==
    /\ At("record") /\ server # 0
    /\ due' = FALSE
    /\ Go(Onward)
    /\ UNCHANGED <<tmux, last, enabled, prepared, history>>

(* Is a save due, and is there something to save? *)
Decide ==
    /\ At("decide")
    /\ Go(IF enabled /\ due /\ sessions # {} THEN "save" ELSE "idle")
    /\ UNCHANGED <<tmux, panel, history>>

(* save.sh, run by the server: `last` becomes what there is by then. *)
Save ==
    /\ At("save") /\ server # 0
    /\ last' = sessions /\ due' = FALSE
    /\ Go("idle")
    /\ UNCHANGED <<tmux, enabled, prepared, history>>

(* tmux refuses a command, or no server runs: the job ends.  A save that   *)
(* failed is not tried again before its time.                              *)
Fails ==
    /\ ~At("idle") /\ ~At("restore")
    /\ due' = (due /\ ~At("save"))
    /\ Go("idle")
    /\ owed' = GivenUp
    /\ UNCHANGED <<tmux, last, enabled, prepared, back, twice, raced>>

Next ==
    \/ \E s \in {{}} \cup {{n} : n \in Name} : Starts(s)
    \/ Ends \/ GrowsOld \/ SaveIsDue \/ Toggle \/ PanelRestarts
    \/ \E n \in Name : Opens(n) \/ Closes(n) \/ Restore(n) \/ RestoreFails(n)
    \/ \E kind \in {"tick", "save"} : Begin(kind)
    \/ Check \/ Prepare \/ Mark \/ Look \/ Record \/ Decide \/ Save \/ Fails

Spec == Init /\ [][Next]_vars

-----------------------------------------------------------------------------

TypeOK ==
    /\ server \in 0..MaxServers /\ servers \in 0..MaxServers /\ server <= servers
    /\ sessions \subseteq Name /\ mark \in BOOLEAN /\ fresh \in BOOLEAN
    /\ server = 0 => sessions = {} /\ ~mark
    /\ last \subseteq Name /\ enabled \in BOOLEAN /\ due \in BOOLEAN
    /\ prepared \in 0..MaxServers
    /\ task \in Tasks
    /\ At("restore") => task.left # {}
    /\ owed \subseteq Name /\ back \subseteq Name
    /\ twice \in BOOLEAN /\ raced \in BOOLEAN

(* A saved session that went down with tmux stays in the latest snapshot   *)
(* until it is running again, unless the panel was told or had reason to   *)
(* leave it: protection was off, the server was there before the panel,    *)
(* its restore failed or was cut off (_firstSight, tick).                  *)
NothingForgotten == ~raced => owed \subseteq last

(* No session is brought back twice on one server, whatever was refused,   *)
(* closed in between or cut off: the mark comes first (_firstSight).       *)
RestoresOnce == ~raced => ~twice

(* What the header of service.js says: a snapshot never replaces the       *)
(* latest one while tmux has no sessions.                                  *)
LatestNeverEmptied == [][last' # last => sessions # {}]_vars

=============================================================================
