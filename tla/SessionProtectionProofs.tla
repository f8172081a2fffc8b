---------------------- MODULE SessionProtectionProofs ----------------------
(***************************************************************************)
(* Session protection, proved for any names and any number of servers.     *)
(* While tmux does not end under a job, the job is about the server there  *)
(* is, that server is marked before anything is restored on it, and once   *)
(* it is marked and no restore runs nothing is owed: so what a save        *)
(* replaces is nothing anybody waits for.                                  *)
(***************************************************************************)
EXTENDS SessionProtection, TLAPS

(* The job is about the server there is, and its first look is to come     *)
(* until the server is marked.                                             *)
OnThisServer ==
    /\ ~At("idle") => server # 0 /\ task.pid = server
    /\ At("check") \/ At("prepare") => (task.seen <=> mark)
    /\ At("mark") => ~mark
    /\ At("look") \/ At("restore") \/ At("record") \/ At("decide") \/ At("save") => mark

(* What was restored here was restored after the mark, and once. *)
BackOnce ==
    /\ ~mark \/ At("look") => back = {}
    /\ At("restore") => back \cap task.left = {}
    /\ ~twice

(* What is owed is saved and not running, and waits for the first look or  *)
(* for its turn in the restore.                                            *)
OwedWaits ==
    /\ owed \subseteq last
    /\ owed \cap sessions = {}
    /\ mark /\ ~At("look") /\ ~At("restore") => owed = {}
    /\ At("restore") => owed \subseteq task.left

IInv ==
    /\ TypeOK
    /\ ~raced => OnThisServer /\ BackOnce /\ OwedWaits

LEMMA InitIInv == Init => IInv
  <1> SUFFICES ASSUME Init
               PROVE  IInv
    OBVIOUS
  <1>1. task \in Tasks /\ task.at = "idle"
    BY ProtectionAssumption DEF Init, Tasks, Steps
  <1>2. TypeOK
    <2>1. /\ server \in 0..MaxServers /\ servers \in 0..MaxServers /\ server <= servers
          /\ prepared \in 0..MaxServers
      BY ProtectionAssumption DEF Init
    <2>2. /\ sessions = {} /\ last \subseteq Name /\ owed \subseteq Name /\ back \subseteq Name
          /\ enabled \in BOOLEAN
      BY DEF Init
    <2>3. ~mark /\ ~fresh /\ due /\ ~twice /\ ~raced
      BY DEF Init
    <2>4. mark \in BOOLEAN /\ fresh \in BOOLEAN /\ due \in BOOLEAN /\ twice \in BOOLEAN /\ raced \in BOOLEAN
      BY Zenon DEF Init
    <2> QED BY <1>1, <2>1, <2>2, <2>3, <2>4 DEF TypeOK, At
  <1>3. OnThisServer /\ BackOnce /\ OwedWaits
    BY <1>1 DEF Init, At, OnThisServer, BackOnce, OwedWaits
  <1> QED BY <1>2, <1>3 DEF IInv

(* The steps around the panel. *)
LEMMA AroundKeeps ==
    ASSUME IInv,
           \/ \E s \in {{}} \cup {{n} : n \in Name} : Starts(s)
           \/ Ends \/ GrowsOld \/ SaveIsDue \/ Toggle \/ PanelRestarts
           \/ \E n \in Name : Opens(n) \/ Closes(n)
    PROVE  IInv'
  <1> USE ProtectionAssumption DEF IInv, TypeOK, tmux, panel, history, At, Go
  <1> USE DEF OnThisServer, BackOnce, OwedWaits
  <1>1. ASSUME NEW s \in {{}} \cup {{n} : n \in Name}, Starts(s)
        PROVE  IInv'
    <2>1. s \subseteq Name
      BY <1>1
    <2>2. TypeOK'
      <3>1. mark' = FALSE /\ fresh' = TRUE /\ UNCHANGED <<enabled, due, twice, raced>>
        BY <1>1 DEF Starts, NewServer
      <3>2. mark' \in BOOLEAN /\ fresh' \in BOOLEAN
        BY <3>1, Zenon
      <3> QED BY <1>1, <2>1, <3>1, <3>2 DEF Starts, NewServer
    <2>3. ~raced' => OnThisServer' /\ BackOnce' /\ OwedWaits'
      BY <1>1, <2>1 DEF Starts, NewServer
    <2> QED BY <2>2, <2>3
  <1>2. CASE Ends
    <2>1. TypeOK'
      <3>1. /\ raced' = (raced \/ ~At("idle")) /\ UNCHANGED <<enabled, due, twice>>
            /\ mark' = FALSE /\ fresh' = FALSE
        BY <1>2 DEF Ends
      <3>2. raced' \in BOOLEAN /\ mark' \in BOOLEAN /\ fresh' \in BOOLEAN
        BY <3>1, Zenon
      <3>3. /\ server' = 0 /\ sessions' = {} /\ back' = {} /\ ~mark'
            /\ owed' = owed \cup (sessions \cap last)
            /\ UNCHANGED <<servers, panel, task>>
        BY <1>2 DEF Ends
      <3> QED BY <3>1, <3>2, <3>3
    <2>2. ~raced' => OnThisServer' /\ BackOnce' /\ OwedWaits'
      BY <1>2 DEF Ends
    <2> QED BY <2>1, <2>2
  <1>3. CASE GrowsOld
    BY <1>3 DEF GrowsOld, Tasks
  <1>4. CASE SaveIsDue
    BY <1>4 DEF SaveIsDue
  <1>5. CASE Toggle
    BY <1>5 DEF Toggle
  <1>6. CASE PanelRestarts
    BY <1>6 DEF PanelRestarts, GivenUp, Tasks, Steps
  <1>7. ASSUME NEW n \in Name, Opens(n)
        PROVE  IInv'
    BY <1>7 DEF Opens
  <1>8. ASSUME NEW n \in Name, Closes(n)
        PROVE  IInv'
    BY <1>8 DEF Closes
  <1> QED BY <1>1, <1>2, <1>3, <1>4, <1>5, <1>6, <1>7, <1>8

LEMMA DoneDoes ==
    ASSUME NEW n, task \in Tasks, Done(n)
    PROVE  /\ task' \in Tasks
           /\ task'.left = task.left \ {n} /\ task'.pid = task.pid
           /\ task'.at = IF task.left = {n} THEN "record" ELSE "restore"
  BY DEF Done, Tasks, Steps

(* The steps of a job. *)
LEMMA JobKeeps ==
    ASSUME IInv,
           \/ \E n \in Name : Restore(n) \/ RestoreFails(n)
           \/ \E kind \in {"tick", "save"} : Begin(kind)
           \/ Check \/ Prepare \/ Mark \/ Look \/ Record \/ Decide \/ Save \/ Fails
    PROVE  IInv'
  <1> USE ProtectionAssumption DEF IInv, TypeOK, tmux, panel, history, At, Go
  <1> USE DEF OnThisServer, BackOnce, OwedWaits, Onward, Steps
  <1>1. ASSUME NEW n \in Name, Restore(n)
        PROVE  IInv'
    <2>1. /\ task' \in Tasks
          /\ task'.left = task.left \ {n} /\ task'.pid = task.pid
          /\ task'.at = IF task.left = {n} THEN "record" ELSE "restore"
      BY <1>1, DoneDoes DEF Restore
    <2>2. CASE server # 0
      <3>1. /\ twice' = (twice \/ n \in back) /\ back' = back \cup {n}
            /\ sessions' = sessions \cup {n} /\ owed' = owed \ {n}
            /\ UNCHANGED <<server, servers, mark, fresh, panel, raced>>
        BY <1>1, <2>2 DEF Restore
      <3>2. twice' \in BOOLEAN
        BY <3>1, Zenon
      <3>3. TypeOK'
        BY <1>1, <2>1, <2>2, <3>1, <3>2 DEF Restore
      <3>4. ~raced' => OnThisServer' /\ BackOnce' /\ OwedWaits'
        BY <1>1, <2>1, <2>2, <3>1 DEF Restore
      <3> QED BY <3>3, <3>4
    <2>3. CASE server = 0
      <3>1. raced /\ raced' = raced
        BY <1>1, <2>3 DEF Restore
      <3>2. mark' = FALSE /\ fresh' = TRUE /\ UNCHANGED <<enabled, due, twice>>
        BY <1>1, <2>3 DEF Restore, NewServer
      <3>3. mark' \in BOOLEAN /\ fresh' \in BOOLEAN
        BY <3>2, Zenon
      <3>4. TypeOK'
        BY <1>1, <2>1, <2>3, <3>1, <3>2, <3>3 DEF Restore, NewServer
      <3> QED BY <3>1, <3>4
    <2> QED BY <2>2, <2>3
  <1>2. ASSUME NEW n \in Name, RestoreFails(n)
        PROVE  IInv'
    <2>1. /\ task' \in Tasks
          /\ task'.left = task.left \ {n} /\ task'.pid = task.pid
          /\ task'.at = IF task.left = {n} THEN "record" ELSE "restore"
      BY <1>2, DoneDoes DEF RestoreFails
    <2> QED BY <1>2, <2>1 DEF RestoreFails
  <1>3. ASSUME NEW kind \in {"tick", "save"}, Begin(kind)
        PROVE  IInv'
    BY <1>3 DEF Begin, Tasks
  <1>4. CASE Check
    BY <1>4 DEF Check, Tasks
  <1>5. CASE Prepare
    BY <1>5 DEF Prepare, Tasks
  <1>6. CASE Mark
    BY <1>6 DEF Mark, Tasks
  <1>7. CASE Look
    <2>1. CASE task' = [task EXCEPT !.at = Onward]
      <3>1. Onward \in {"decide", "save"}
        BY DEF Onward
      <3>2. /\ task' \in Tasks /\ task'.at \in {"decide", "save"} /\ task'.pid = task.pid
            /\ task'.kind = task.kind /\ task'.left = task.left
            /\ task'.seen = task.seen /\ task'.young = task.young
        BY <2>1, <3>1 DEF Tasks, Steps
      <3>3. task.at = "look" /\ UNCHANGED <<tmux, panel, back, twice, raced>>
        BY <1>7 DEF Look
      <3>4. owed' = {} \/ (owed' = owed /\ last \subseteq sessions)
        <4>1. [task EXCEPT !.at = "restore", !.left = last \ sessions].at = "restore"
          BY DEF Tasks
        <4> QED BY <1>7, <3>2, <4>1 DEF Look
      <3>5. TypeOK'
        BY <3>2, <3>3, <3>4
      <3>6. ~raced => owed' = {} /\ OnThisServer' /\ BackOnce'
        BY <3>2, <3>3, <3>4
      <3>7. ~raced => OwedWaits'
        BY <3>2, <3>6
      <3> QED BY <3>3, <3>5, <3>6, <3>7
    <2>2. CASE task' = [task EXCEPT !.at = "restore", !.left = last \ sessions]
      <3>1. /\ task' \in Tasks /\ task'.at = "restore" /\ task'.pid = task.pid
            /\ task'.left = last \ sessions
        BY <2>2 DEF Tasks
      <3>2. ~(last \subseteq sessions) /\ (sessions = {} \/ task.young) /\ owed' = owed
        BY <1>7, <3>1 DEF Look, Tasks
      <3> QED BY <1>7, <3>1, <3>2 DEF Look
    <2> QED BY <1>7, <2>1, <2>2 DEF Look
  <1>8. CASE Record
    BY <1>8 DEF Record, Tasks
  <1>9. CASE Decide
    BY <1>9 DEF Decide, Tasks
  <1>10. CASE Save
    BY <1>10 DEF Save, Tasks
  <1>11. CASE Fails
    BY <1>11 DEF Fails, GivenUp, Tasks
  <1> QED BY <1>1, <1>2, <1>3, <1>4, <1>5, <1>6, <1>7, <1>8, <1>9, <1>10, <1>11

LEMMA StutterKeeps ==
    ASSUME IInv, UNCHANGED vars
    PROVE  IInv'
  BY DEF IInv, TypeOK, OnThisServer, BackOnce, OwedWaits, At, vars, tmux, panel, history

LEMMA SpecKeepsIInv == Spec => []IInv
  <1>1. IInv /\ [Next]_vars => IInv'
    BY AroundKeeps, JobKeeps, StutterKeeps DEF Next
  <1> QED BY InitIInv, <1>1, PTL DEF Spec

(* The variables stay in their types, and a restore under way always has   *)
(* a session left to restore.                                              *)
THEOREM TypeCorrect == Spec => []TypeOK
  <1>1. IInv => TypeOK
    BY DEF IInv
  <1> QED BY SpecKeepsIInv, <1>1, PTL

(* A saved session that went down with tmux is in the latest snapshot      *)
(* until it runs again or the panel had reason to leave it.                *)
THEOREM KeepsTheSaved == Spec => []NothingForgotten
  <1>1. IInv => NothingForgotten
    BY DEF IInv, OwedWaits, NothingForgotten
  <1> QED BY SpecKeepsIInv, <1>1, PTL

(* No session is brought back twice on one server. *)
THEOREM OnlyOnce == Spec => []RestoresOnce
  <1>1. IInv => RestoresOnce
    BY DEF IInv, BackOnce, RestoresOnce
  <1> QED BY SpecKeepsIInv, <1>1, PTL

(* Nobody waits any more for what a save replaces.                         *)
NothingOwedIsReplaced == ~raced /\ last' # last => owed = {}

(* Sessions are restored only on the server the job began with, once that  *)
(* is marked, so that no later tick takes them for lost.                   *)
RestoresOnMarked == ~raced /\ back' # back /\ back' # {} => mark /\ server = task.pid

(* Every snapshot comes after the restore: no save, of a tick or a request *)
(* to save, of any run of the panel, takes the place of a snapshot that    *)
(* still holds a session somebody waits for (saveNow, tick).               *)
THEOREM SavesAfterRestoring == Spec => [][NothingOwedIsReplaced]_vars
  <1>1. ASSUME IInv, Next, ~raced, last' # last
        PROVE  owed = {}
    <2>1. Save
      BY <1>1 DEF Next, Starts, NewServer, Ends, GrowsOld, SaveIsDue, Toggle, PanelRestarts, Opens,
                  Closes, Restore, RestoreFails, Begin, Check, Prepare, Mark, Look, Record, Decide,
                  Fails, panel, tmux, history
    <2> QED BY <1>1, <2>1 DEF Save, At, IInv, OnThisServer, OwedWaits
  <1>2. IInv /\ [Next]_vars => [NothingOwedIsReplaced]_vars
    BY <1>1 DEF NothingOwedIsReplaced, vars, panel
  <1> QED BY <1>2, SpecKeepsIInv, PTL DEF Spec

(* A tmux server is marked before the first session comes back on it       *)
(* (_firstSight).                                                          *)
THEOREM MarkComesFirst == Spec => [][RestoresOnMarked]_vars
  <1>1. ASSUME IInv, Next, ~raced, back' # back, back' # {}
        PROVE  mark /\ server = task.pid
    <2>1. \E n \in Name : Restore(n)
      BY <1>1 DEF Next, Starts, NewServer, Ends, GrowsOld, SaveIsDue, Toggle, PanelRestarts, Opens,
                  Closes, RestoreFails, Begin, Check, Prepare, Mark, Look, Record, Decide, Save,
                  Fails, panel, tmux, history
    <2> QED BY <1>1, <2>1 DEF Restore, At, IInv, OnThisServer
  <1>2. IInv /\ [Next]_vars => [RestoresOnMarked]_vars
    BY <1>1 DEF RestoresOnMarked, vars, history
  <1> QED BY <1>2, SpecKeepsIInv, PTL DEF Spec

=============================================================================
