------------------------------ MODULE LinkPool ------------------------------
(***************************************************************************)
(* The hub's way to one remote server: LinkPool of lib/hub/link-pool.js    *)
(* over its NodeLink, the proxy of lib/hub/proxy.js that asks it for each  *)
(* request, the health check, the edits ServerService of                   *)
(* lib/servers/server-service.js makes to the server, and the installer of *)
(* lib/hub/node-installer.js, which works on the machine meanwhile.        *)
(*                                                                         *)
(* The pool makes a link for the connection fields it finds in the         *)
(* registry, and closes it when it next looks and finds other ones.  An    *)
(* edit is in the registry's memory before it is written, and taken back   *)
(* when the write fails.                                                   *)
(*                                                                         *)
(* Abstracted: basic mode behind a host (see HostedShells), what the       *)
(* installer uploads and runs, mosh (see MoshTerminals).                   *)
(***************************************************************************)
EXTENDS NodeLink

CONSTANTS
    MaxFields,  \* bound: sets of connection fields
    NoEntry,    \* the pool has nothing for the server
    NoServer,   \* the server was removed
    NoEdit      \* no edit is being written

VARIABLES
    server,     \* the registry's record in memory: connection fields, enabled
    fields,     \* how many sets of connection fields there have been
    edit,       \* the record as it was before the edit being written
    entry,      \* _entries.get(id)
    made,       \* how many links the pool has made
    job         \* the installer's job and the connection it works on

poolVars == <<server, fields, edit, entry, made, job>>
hubVars == <<linkVars, poolVars>>

Servers == [fields : 1..MaxFields, on : BOOLEAN]

(* missing: notInstalledAt is recent; basic: a BasicHost was made. *)
Entries == [fields : 1..MaxFields, link : Link, missing : BOOLEAN, basic : BOOLEAN]

Jobs == [stage : {"idle", "detect", "pack", "upload", "read", "install", "told"},
         link : Link, fields : 1..MaxFields]

ASSUME PoolAssumption ==
    /\ MaxFields \in Nat \ {0}
    /\ NoEntry \notin Entries /\ NoServer \notin Servers
    /\ NoEdit \notin Servers \cup {NoServer}

NoJob == [stage |-> "idle", link |-> 1, fields |-> 1]

PoolInit ==
    /\ LinkInit
    /\ server = [fields |-> 1, on |-> TRUE] /\ fields = 1 /\ edit = NoEdit
    /\ entry = [fields |-> 1, link |-> 1, missing |-> FALSE, basic |-> FALSE]
    /\ made = 1
    /\ job = NoJob

-----------------------------------------------------------------------------
(* The pool *)

Usable == server # NoServer /\ server.on

Matches == entry # NoEntry /\ entry.fields = server.fields

(* _entry: the cached one for the same connection fields, else a new one.  *)
Found == IF Matches THEN entry
         ELSE [fields |-> server.fields, link |-> made + 1, missing |-> FALSE, basic |-> FALSE]

CanFind == Usable /\ (Matches \/ made < MaxLink)

Put(e) == entry' = e /\ made' = IF e.link > made THEN e.link ELSE made

(* What _entry closes on the way: the link for other fields. *)
Stale == IF entry = NoEntry \/ Matches THEN {} ELSE {entry.link}

(* Broken variant: it is forgotten, not closed. *)
ShutNone(S) == link

ShutAll(S) == [l \in Link |-> IF l \in S THEN Shut(link[l]) ELSE link[l]]

(* Their tunnels and streams go with them. *)
Without(S) ==
    /\ running' = running \ {link[l].tunnel : l \in S}

Ended(S) == [r \in Req |->
    IF req[r].stage = "stream" /\ req[r].link \in S THEN Idle ELSE req[r]]

(* mode(): node at once when the link is ready, basic while it is known    *)
(* that no panel runs there, else the link is asked to connect.            *)
Ask(r, kind) ==
    /\ Quiescent /\ req[r].stage = "idle" /\ CanFind
    /\ (kind = "info") <=> (r = Health)
    /\ LET l == Found.link
           ready == Ready(link[l]) IN
       IF Found.missing /\ ~ready
       THEN /\ Put([Found EXCEPT !.basic = TRUE])
            /\ UNCHANGED <<link, req>>
       ELSE /\ Put(Found)
            /\ link' = IF ready THEN link ELSE [ShutAll(Stale) EXCEPT ![l] = Connecting(@)]
            /\ req' = [Ended(Stale) EXCEPT ![r] =
                 [Idle EXCEPT !.stage = IF ready THEN "routed" ELSE "mode", !.kind = kind, !.link = l]]
    /\ Without(Stale)
    /\ UNCHANGED <<opened, installed, server, fields, edit, job>>

(* What the proxy and the health check do with mode's answer: the server   *)
(* is looked up again, and may have changed or gone.  Past the bound on    *)
(* links the request ends as if it had.  Whoever awaits the link itself    *)
(* resumes first, a promise earlier than those who await mode.             *)
Route(r) ==
    /\ req[r].stage \in {"routed", "basic"}
    /\ ~ \E s \in Req : req[s].stage = "ensure" /\ Ready(link[req[s].link])
    /\ \/ /\ ~CanFind
          /\ req' = [req EXCEPT ![r] = Idle]
          /\ UNCHANGED <<link, running, entry, made>>
       \/ /\ CanFind
          /\ LET l == Found.link IN
             IF req[r].stage = "basic"
             THEN /\ Put([Found EXCEPT !.basic = TRUE])
                  /\ link' = ShutAll(Stale)
                  /\ req' = [Ended(Stale) EXCEPT ![r] = Idle]
             ELSE /\ Put(Found)
                  /\ link' = IF Ready(link[l]) THEN link
                             ELSE [ShutAll(Stale) EXCEPT ![l] = Connecting(@)]
                  /\ req' = [Ended(Stale) EXCEPT ![r] = [@ EXCEPT !.stage = "ensure", !.link = l]]
          /\ Without(Stale)
    /\ UNCHANGED <<opened, installed, server, fields, edit, job>>

(* What mode learns when the attempt it waited for succeeds. *)
Learns ==
    entry' = IF entry # NoEntry /\ \E r \in Req : /\ req[r].stage = "mode" /\ req[r].link = entry.link
                                               /\ req'[r].stage = "routed"
             THEN [entry EXCEPT !.missing = FALSE] ELSE entry

(* No pairing file: mode remembers it and answers basic. *)
NotInstalled(l) ==
    /\ Quiescent /\ link[l].attempt = "absent"
    /\ link' = [link EXCEPT ![l] = NoAttempt(@)]
    /\ req' = [r \in Req |->
         IF r \notin Waiting(l) THEN req[r]
         ELSE IF req[r].stage = "mode" THEN [req[r] EXCEPT !.stage = "basic"] ELSE Idle]
    /\ entry' = IF entry # NoEntry /\ entry.link = l /\ \E r \in Waiting(l) : req[r].stage = "mode"
                THEN [entry EXCEPT !.missing = TRUE] ELSE entry
    /\ UNCHANGED <<running, opened, installed, server, fields, edit, made, job>>

MissingIsOld ==
    /\ Quiescent /\ entry # NoEntry /\ entry.missing
    /\ entry' = [entry EXCEPT !.missing = FALSE]
    /\ UNCHANGED <<linkVars, server, fields, edit, made, job>>

-----------------------------------------------------------------------------
(* Edits: memory first, then the file *)

BeginEdit ==
    /\ Quiescent /\ edit = NoEdit
    /\ \/ /\ fields < MaxFields
          /\ \E on \in BOOLEAN : server' = [fields |-> fields + 1, on |-> on]
          /\ fields' = fields + 1
       \/ /\ server # NoServer
          /\ server' \in {[server EXCEPT !.on = ~@], NoServer}
          /\ UNCHANGED fields
    /\ edit' = server
    /\ UNCHANGED <<linkVars, entry, made, job>>

(* Written: invalidate. *)
CommitEdit ==
    /\ Quiescent /\ edit # NoEdit
    /\ edit' = NoEdit /\ entry' = NoEntry
    /\ LET gone == IF entry = NoEntry THEN {} ELSE {entry.link} IN
       /\ link' = ShutAll(gone)
       /\ req' = Ended(gone)
       /\ Without(gone)
    /\ UNCHANGED <<opened, installed, server, fields, made, job>>

RefuseEdit ==
    /\ Quiescent /\ edit # NoEdit
    /\ server' = edit /\ edit' = NoEdit
    /\ UNCHANGED <<linkVars, fields, entry, made, job>>

-----------------------------------------------------------------------------
(* The installer *)

StartJob ==
    /\ Quiescent /\ job.stage = "idle" /\ CanFind
    /\ Put([Found EXCEPT !.basic = TRUE])
    /\ job' = [stage |-> "detect", link |-> Found.link, fields |-> server.fields]
    /\ link' = ShutAll(Stale) /\ req' = Ended(Stale) /\ Without(Stale)
    /\ UNCHANGED <<opened, installed, server, fields, edit>>

(* Broken variant: the connection is compared with the one in the cache    *)
(* as it is, whatever the registry says by now.                            *)
NextStepCached(stage, e) ==
    /\ job' = IF entry # NoEntry /\ entry.link = job.link THEN [job EXCEPT !.stage = stage] ELSE NoJob
    /\ UNCHANGED <<link, req, running, entry, made>>

(* _assertCurrent: the job goes on only if the pool still has its          *)
(* connection for the server; e is the entry then.                         *)
NextStep(stage, e) ==
    IF ~Usable
    THEN job' = NoJob /\ UNCHANGED <<link, req, running, entry, made>>
    ELSE /\ CanFind
         /\ job' = IF Found.link = job.link THEN [job EXCEPT !.stage = stage] ELSE NoJob
         /\ Put(IF Found.link = job.link THEN e ELSE Found)
         /\ link' = ShutAll(Stale) /\ req' = Ended(Stale) /\ Without(Stale)

Following == [detect |-> "pack", pack |-> "upload", read |-> "install"]

(* The platform is known, the archive is packed or the script read; the    *)
(* next step begins, on the machine after the last two.                    *)
StepDone ==
    /\ Quiescent /\ job.stage \in DOMAIN Following
    /\ NextStep(Following[job.stage], Found)
    /\ UNCHANGED <<opened, installed, server, fields, edit>>

Uploaded ==
    /\ Quiescent /\ job.stage = "upload"
    /\ job' = [job EXCEPT !.stage = "read"]
    /\ UNCHANGED <<linkVars, server, fields, edit, entry, made>>

JobFails ==
    /\ Quiescent /\ job.stage \notin {"idle", "told"}
    /\ job' = NoJob
    /\ UNCHANGED <<linkVars, server, fields, edit, entry, made>>

(* The script ran: the machine has a new installation.  recheck. *)
InstallDone ==
    /\ Quiescent /\ job.stage = "install" /\ installed < MaxInstall
    /\ installed' = installed + 1
    /\ NextStep("told", [Found EXCEPT !.missing = FALSE])
    /\ UNCHANGED <<opened, server, fields, edit>>

(* onComponentInstalled is done; onInstalled asks for a probe (Ask). *)
JobOver ==
    /\ Quiescent /\ job.stage = "told"
    /\ job' = NoJob
    /\ UNCHANGED <<linkVars, server, fields, edit, entry, made>>

(* Someone else installs the panel there anew. *)
Reinstalled ==
    /\ Quiescent /\ installed < MaxInstall
    /\ installed' = installed + 1
    /\ UNCHANGED <<link, req, running, opened, poolVars>>

-----------------------------------------------------------------------------

PoolStep ==
    \/ \E r \in Req, kind \in {"read", "write", "upgrade", "info"} : Ask(r, kind)
    \/ \E r \in Req : Route(r)
    \/ \E l \in Link : NotInstalled(l)
    \/ MissingIsOld \/ BeginEdit \/ CommitEdit \/ RefuseEdit
    \/ StartJob \/ StepDone \/ Uploaded \/ JobFails \/ InstallDone \/ JobOver
    \/ Reinstalled

Meanwhile == Learns /\ UNCHANGED <<server, fields, edit, made, job>>

Relays == LinkStep /\ Meanwhile

PoolNext == PoolStep \/ Relays

PoolSpec == PoolInit /\ [][PoolNext]_hubVars

(* What runs on: attempts and requests have time limits, the monitor asks  *)
(* each server again and again, a write to disk ends.  Every step is in    *)
(* turn disabled while continuations run: hence strong fairness.           *)
PoolFair ==
    /\ \A l \in Link : SF_hubVars(Connects(l) /\ Meanwhile) /\ SF_hubVars(NotInstalled(l))
    /\ \A r \in Req : SF_hubVars(Advances(r) /\ Meanwhile) /\ WF_hubVars(Route(r))
    /\ SF_hubVars(Ask(Health, "info"))
    /\ SF_hubVars(CommitEdit \/ RefuseEdit)

-----------------------------------------------------------------------------
(* Properties *)

(* The type of the state; a link has no tunnel without its pairing, and a  *)
(* forward of its own only while it waits for that to come up.             *)
PoolTypeOK ==
    /\ link \in [Link -> Links] /\ req \in [Req -> Reqs]
    /\ \A l \in Link : /\ link[l].tunnel # 0 => link[l].pairing # 0
                       /\ link[l].forward # 0 <=> link[l].attempt = "listen"
    /\ opened \in 0..MaxForward /\ running \subseteq 1..opened
    /\ installed \in 0..MaxInstall
    /\ server \in Servers \cup {NoServer} /\ edit \in Servers \cup {NoServer, NoEdit}
    /\ fields \in 1..MaxFields
    /\ entry \in Entries \cup {NoEntry} /\ made \in Link
    /\ job \in Jobs

(* No ssh child is left behind: one that runs is the tunnel of its link or *)
(* the forward its attempt still waits for, whichever attempts, edits,     *)
(* resets and exits came in between.                                       *)
NoStrayForward ==
    \A f \in running : \E l \in Link :
      \/ link[l].tunnel = f /\ ~link[l].closed
      \/ link[l].attempt = "listen" /\ link[l].forward = f

(* The pool never loses a link it does not close, and closes none it still *)
(* hands out: the open one, if any, is its entry's.                        *)
PoolOwnsLinks ==
    \A l \in 1..made : ~link[l].closed <=> (entry # NoEntry /\ entry.link = l)

(* A terminal or status stream lives in the generation of the pairing it   *)
(* was opened with: what ends the pairing ends every stream, also one      *)
(* accepted while the reset was on its way, and a later reset finds it.    *)
StreamsOfGeneration ==
    \A r \in Req : req[r].stage = "stream" =>
      /\ req[r].gen = link[req[r].link].generation
      /\ req[r].by = link[req[r].link].pairing
      /\ ~link[req[r].link].closed

(* The node gets a write or an upgrade once and a read twice at most,      *)
(* whichever failures met it on whichever way.                             *)
AskedOnce ==
    \A r \in Req : req[r].stage # "idle" =>
      req[r].times <= IF req[r].kind \in {"read", "info"} THEN 2 ELSE 1

(* The installer touches the machine, and applies its result, only for the *)
(* server as it was when it began.                                         *)
InstallsOnOneTarget ==
    [][ job'.stage # job.stage /\ job'.stage \in {"upload", "install", "told"}
        => Usable /\ server.fields = job.fields ]_hubVars

(* Whoever waits for a link or an answer is told in the end, also when the *)
(* attempt it shares fails or its link is closed under it.                 *)
EveryRequestEnds ==
    \A r \in Req : req[r].stage \notin {"idle", "stream"} ~> req[r].stage \in {"idle", "stream"}

Dead(l) == link[l].tunnel # 0 /\ link[l].tunnel \notin running

(* A tunnel whose child exited before anyone listened for it is given up   *)
(* by the health check, or with its link (past the bound on links there is *)
(* no other to take its place).                                            *)
DeadTunnelReplaced == \A l \in Link : Dead(l) ~> ~Dead(l) \/ (Usable /\ ~CanFind)

=============================================================================
