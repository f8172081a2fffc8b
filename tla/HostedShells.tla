---------------------------- MODULE HostedShells ----------------------------
(***************************************************************************)
(* Shells the hub hosts on a machine without a panel and without tmux:     *)
(* BasicHost of lib/hub/basic/basic-host.js, its SshProvider               *)
(* (ssh-provider.js) with one PaneRuntime (pane-runtime.js) per pane, and  *)
(* the sockets that subscribe to them (basic-terminal.js).                 *)
(*                                                                         *)
(* A pane's shell is an ssh process that starts with its first subscriber  *)
(* and outlives them all for a time.  A call or a socket first asks which  *)
(* provider the host uses, which may take a round trip to the machine;     *)
(* meanwhile shells exit, sockets close, panes expire and the host itself  *)
(* is thrown away, because its server was edited or removed.               *)
(*                                                                         *)
(* A session is named by its first pane and so is a window: names grow in  *)
(* the order of the maps.  Abstracted: names, labels and layout; output    *)
(* and its replay; sizes, but for who decides them.  A machine that turns  *)
(* out to have tmux is served elsewhere (its panes are not here).          *)
(***************************************************************************)
EXTENDS FiniteSetsExt, Naturals

CONSTANTS
    MaxPane,    \* bound: panes ever made
    MaxHosted,  \* MAX_PANES_PER_SERVER
    Call,       \* requests to the workspace API at once; an id is used again
    Sock,       \* browser sockets, each used once
    NoSock      \* nobody decides the size

ASSUME HostedAssumption ==
    /\ MaxPane \in Nat \ {0} /\ MaxHosted \in Nat \ {0} /\ NoSock \notin Sock

Pane == 1..MaxPane

VARIABLES
    panes,      \* the panes of the tree
    home,       \* Pane -> its session and window
    chosen,     \* what is active: sessions, windows, panes
    shell,      \* Pane -> its PaneRuntime
    hosted,     \* _runtimes: panes whose runtime the provider has
    born,       \* how many panes were made
    call,       \* Call -> what waits for the provider
    sock,       \* Sock -> the socket, and its pane
    facts,      \* _facts: "none" when there are none or they are old
    gone        \* the host was destroyed

treeVars == <<panes, home, chosen, hosted, born>>
shellVars == <<treeVars, shell, call, sock, facts, gone>>

(* pty: the ssh process, of which one that exited leaves nothing.  ending: *)
(* destroy() began (hup), and its timer went off (kill).  detached: since  *)
(* it has no subscriber, and for all the TTL.                              *)
Shells == [pty : {"none", "runs"}, ending : {"no", "hup", "kill"},
           subs : SUBSET Sock, owner : Sock \cup {NoSock},
           detached : {"no", "since", "expired"}]

Ops == {"session", "window", "split", "closePane", "closeWindow", "closeSession", "activate"}

Alone(p) == [session |-> p, window |-> p]

NotStarted == [pty |-> "none", ending |-> "no", subs |-> {}, owner |-> NoSock, detached |-> "no"]

NoCall == [stage |-> "idle", op |-> "session", at |-> 1]

SockIn(stage) == [stage |-> stage, pane |-> 1]

ShellInit ==
    /\ panes = {} /\ hosted = {} /\ born = 0
    /\ home = [p \in Pane |-> Alone(p)]
    /\ chosen = [sessions |-> {}, windows |-> {}, panes |-> {}]
    /\ shell = [p \in Pane |-> NotStarted]
    /\ call = [c \in Call |-> NoCall]
    /\ sock = [s \in Sock |-> SockIn("new")]
    /\ facts = "none" /\ gone = FALSE

Live(p) == shell[p].pty = "runs" /\ shell[p].ending = "no"

SessionsOf(T) == {home[p].session : p \in T}

WindowsOf(T, s) == {home[p].window : p \in {q \in T : home[q].session = s}}

PanesOf(T, w) == {p \in T : home[p].window = w}

-----------------------------------------------------------------------------
(* Taking panes away *)

(* Broken variant: whoever was active, nobody takes its place. *)
HandedNobody(active, rest) == active \cap rest

(* Of those left the first takes the place of one that was active.         *)
Handed(active, rest) ==
    IF active \subseteq rest \/ rest = {} THEN active \cap rest
    ELSE (active \cap rest) \cup {Min(rest)}

(* The tree without the panes of S: windows and sessions go when empty.    *)
TakenFromTree(S) ==
    LET T == panes \ S IN
    /\ panes' = T
    /\ home' = [p \in Pane |-> IF p \in T THEN home[p] ELSE Alone(p)]
    /\ chosen' =
         [sessions |-> Handed(chosen.sessions, SessionsOf(T)),
          windows |-> UNION {Handed(chosen.windows \cap WindowsOf(panes, s), WindowsOf(T, s)) :
                               s \in SessionsOf(T)},
          panes |-> UNION {Handed(chosen.panes \cap PanesOf(panes, w), PanesOf(T, w)) :
                               w \in {home[p].window : p \in T}}]

(* Broken variant: the subscribers are forgotten before they are told. *)
ReleasedSilently(S) == sock

(* Subscribers of the panes in S are told that it is over, and closed.     *)
Released(S) == [s \in Sock |->
    IF \E p \in S : s \in shell[p].subs THEN SockIn("closing") ELSE sock[s]]

(* Broken variant: the runtime is thrown away as it is. *)
DestroyedOnly(S) == [p \in Pane |-> IF p \in S THEN [shell[p] EXCEPT !.subs = {}] ELSE shell[p]]

(* PaneRuntime.destroy: a shell that runs is hung up, and later killed.    *)
(* Of a runtime in nobody's hands only its process is kept here.           *)
Destroyed(S) == [p \in Pane |->
    IF p \notin S THEN shell[p]
    ELSE IF shell[p].pty = "runs" THEN [NotStarted EXCEPT !.pty = "runs", !.ending = "hup"]
    ELSE NotStarted]

(* _prunePane, closeWindow, closeSession: the panes of S are destroyed.    *)
Prune(S) ==
    /\ TakenFromTree(S)
    /\ shell' = Destroyed(S) /\ sock' = Released(S)
    /\ hosted' = hosted \ S
    /\ UNCHANGED born

-----------------------------------------------------------------------------
(* Calls *)

(* _addPane, into a window of a session; nothing comes of it past the      *)
(* limit.                                                                  *)
AddPane(s, w, more) ==
    LET p == born + 1 IN
    IF Cardinality(hosted) >= MaxHosted THEN UNCHANGED <<treeVars, shell, sock>>
    ELSE /\ born < MaxPane /\ born' = p
         /\ panes' = panes \cup {p} /\ hosted' = hosted \cup {p}
         /\ home' = [home EXCEPT ![p] = [session |-> s, window |-> w]]
         /\ chosen' = more
         /\ UNCHANGED <<shell, sock>>

(* What a call does with the ssh provider: pane k names what it is about.  *)
Does(op, k) ==
    LET p == born + 1
        s == home[k].session
        w == home[k].window IN
    \/ op = "session"
       /\ AddPane(p, p, [sessions |-> IF panes = {} THEN {p} ELSE chosen.sessions,
                         windows |-> chosen.windows \cup {p}, panes |-> chosen.panes \cup {p}])
    \/ op = "window" /\ k \in panes
       /\ AddPane(s, p, [chosen EXCEPT !.panes = @ \cup {p}])
    \/ op = "split" /\ k \in panes /\ AddPane(s, w, chosen)
    \/ op = "closePane" /\ k \in panes /\ Prune({k})
    \/ op = "closeWindow" /\ k \in panes /\ Prune(PanesOf(panes, w))
    \/ op = "closeSession" /\ k \in panes /\ Prune({q \in panes : home[q].session = s})
    \/ op = "activate" /\ k \in panes
       /\ chosen' = [chosen EXCEPT !.panes = (@ \ PanesOf(panes, w)) \cup {k}]
       /\ UNCHANGED <<panes, home, hosted, born, shell, sock>>
    \/ op # "session" /\ k \notin panes /\ UNCHANGED <<treeVars, shell, sock>>

HasActivePanes == \E p \in hosted : Live(p)

(* provider(): hosted shells that live keep it; else the facts, which may  *)
(* have to be asked for first.                                             *)
UsesSsh == HasActivePanes \/ facts = "ssh"

MustDetect == ~HasActivePanes /\ facts = "none"

CallArrives(c) ==
    /\ ~gone /\ call[c].stage = "idle"
    /\ \E op \in Ops, k \in 1..born \cup {1} :
         IF MustDetect
         THEN /\ call' = [call EXCEPT ![c] = [stage |-> "waiting", op |-> op, at |-> k]]
              /\ UNCHANGED <<treeVars, shell, sock>>
         ELSE /\ call' = [call EXCEPT ![c].stage = IF UsesSsh THEN "idle" ELSE "elsewhere"]
              /\ IF UsesSsh THEN Does(op, k) ELSE UNCHANGED <<treeVars, shell, sock>>
    /\ UNCHANGED <<facts, gone>>

CallResumes(c) ==
    /\ call[c].stage = "waiting" /\ facts # "none"
    /\ call' = [call EXCEPT ![c] = IF facts = "ssh" THEN NoCall ELSE [NoCall EXCEPT !.stage = "elsewhere"]]
    /\ IF facts = "ssh" THEN Does(call[c].op, call[c].at) ELSE UNCHANGED <<treeVars, shell, sock>>
    /\ UNCHANGED <<facts, gone>>

CallLeaves(c) ==
    /\ call[c].stage = "elsewhere"
    /\ call' = [call EXCEPT ![c].stage = "idle"]
    /\ UNCHANGED <<treeVars, shell, sock, facts, gone>>

-----------------------------------------------------------------------------
(* Sockets *)

(* attachHostedShell: the newest one decides the size; the first starts    *)
(* the shell, which may fail.                                              *)
Attach(s, p) ==
    \/ /\ p \in hosted
       /\ shell' = [shell EXCEPT ![p].subs = @ \cup {s}, ![p].owner = s, ![p].pty = "runs",
                                 ![p].detached = "no"]
       /\ sock' = [sock EXCEPT ![s] = [stage |-> "on", pane |-> p]]
    \/ /\ p \in hosted /\ shell[p].pty = "none"
       /\ shell' = [shell EXCEPT ![p].owner = s]
       /\ sock' = [sock EXCEPT ![s] = SockIn("closed")]
    \/ /\ p \notin hosted
       /\ sock' = [sock EXCEPT ![s] = SockIn("closed")]
       /\ UNCHANGED shell

SocketArrives(s) ==
    /\ ~gone /\ sock[s].stage = "new"
    /\ \E p \in 1..born :
         IF MustDetect
         THEN /\ sock' = [sock EXCEPT ![s] = [stage |-> "waiting", pane |-> p]]
              /\ UNCHANGED shell
         ELSE IF UsesSsh THEN Attach(s, p)
         ELSE sock' = [sock EXCEPT ![s] = SockIn("elsewhere")] /\ UNCHANGED shell
    /\ UNCHANGED <<treeVars, call, facts, gone>>

SocketResumes(s) ==
    /\ sock[s].stage = "waiting" /\ facts # "none"
    /\ IF facts = "ssh" THEN Attach(s, sock[s].pane)
       ELSE sock' = [sock EXCEPT ![s] = SockIn("elsewhere")] /\ UNCHANGED shell
    /\ UNCHANGED <<treeVars, call, facts, gone>>

(* PaneRuntime.unsubscribe. *)
Unsubscribed(s) ==
    LET p == sock[s].pane IN
    [shell EXCEPT ![p] = [shell[p] EXCEPT
       !.subs = @ \ {s}, !.owner = IF @ = s THEN NoSock ELSE @,
       !.detached = IF shell[p].subs \subseteq {s} THEN "since" ELSE @]]

SocketCloses(s) ==
    /\ sock[s].stage \in {"waiting", "elsewhere", "on", "closing"}
    /\ sock' = [sock EXCEPT ![s] = SockIn("closed")]
    /\ shell' = IF sock[s].stage = "on" THEN Unsubscribed(s) ELSE shell
    /\ UNCHANGED <<treeVars, call, facts, gone>>

(* A resize or a focus message, unless a newer one was seen.               *)
Focus(s) ==
    /\ sock[s].stage = "on"
    /\ shell' = [shell EXCEPT ![sock[s].pane].owner = s]
    /\ UNCHANGED <<treeVars, call, sock, facts, gone>>

-----------------------------------------------------------------------------
(* Shells, time and the machine *)

(* onExit: subscribers are told, and the pane leaves the tree.             *)
ShellExits(p) ==
    /\ shell[p].pty = "runs"
    /\ IF p \in panes THEN TakenFromTree({p}) ELSE UNCHANGED <<panes, home, chosen>>
    /\ shell' = [shell EXCEPT ![p] = NotStarted]
    /\ sock' = Released({p})
    /\ hosted' = hosted \ {p}
    /\ UNCHANGED <<born, call, facts, gone>>

KillTimer(p) ==
    /\ shell[p].pty = "runs" /\ shell[p].ending = "hup"
    /\ shell' = [shell EXCEPT ![p].ending = "kill"]
    /\ UNCHANGED <<treeVars, call, sock, facts, gone>>

(* It had no subscriber and no output for the whole TTL; then some again.  *)
Expires(p) ==
    /\ p \in hosted /\ shell[p].detached = "since" /\ shell[p].subs = {}
    /\ shell' = [shell EXCEPT ![p].detached = "expired"]
    /\ UNCHANGED <<treeVars, call, sock, facts, gone>>

Output(p) ==
    /\ shell[p].pty = "runs" /\ shell[p].detached = "expired"
    /\ shell' = [shell EXCEPT ![p].detached = "since"]
    /\ UNCHANGED <<treeVars, call, sock, facts, gone>>

Reap ==
    /\ ~gone
    /\ LET S == {p \in hosted : /\ shell[p].subs = {}
                                /\ shell[p].detached = "expired"} IN
       S # {} /\ Prune(S)
    /\ UNCHANGED <<call, facts, gone>>

(* The machine answered: with tmux, without, or ssh failed.                *)
Detected ==
    /\ facts = "none"
    /\ \/ \E c \in Call : call[c].stage = "waiting"
       \/ \E s \in Sock : sock[s].stage = "waiting"
    /\ \/ /\ facts' \in {"ssh", "tmux"} /\ UNCHANGED <<call, sock>>
       \/ /\ call' = [c \in Call |-> IF call[c].stage = "waiting" THEN NoCall ELSE call[c]]
          /\ sock' = [s \in Sock |-> IF sock[s].stage = "waiting" THEN SockIn("closed") ELSE sock[s]]
          /\ UNCHANGED facts
    /\ UNCHANGED <<treeVars, shell, gone>>

FactsAreOld ==
    /\ facts # "none" /\ facts' = "none"
    /\ UNCHANGED <<treeVars, shell, call, sock, gone>>

(* destroy: the pool no longer has this host, but calls that wait go on,   *)
(* with a provider of their own.                                           *)
HostDestroyed ==
    /\ ~gone /\ gone' = TRUE
    /\ shell' = Destroyed(hosted) /\ sock' = Released(hosted)
    /\ panes' = {} /\ hosted' = {}
    /\ chosen' = [sessions |-> {}, windows |-> {}, panes |-> {}]
    /\ home' = [p \in Pane |-> Alone(p)]
    /\ UNCHANGED <<born, call, facts>>

(* Promise continuations run before any timer or event. *)
Resuming == facts # "none" /\ \/ \E c \in Call : call[c].stage = "waiting"
                              \/ \E s \in Sock : sock[s].stage = "waiting"

ShellNext ==
    \/ \E c \in Call : CallResumes(c) \/ CallLeaves(c)
    \/ \E s \in Sock : SocketResumes(s)
    \/ /\ ~Resuming
       /\ \/ \E c \in Call : CallArrives(c)
          \/ \E s \in Sock : SocketArrives(s) \/ SocketCloses(s) \/ Focus(s)
          \/ \E p \in Pane : ShellExits(p) \/ KillTimer(p) \/ Expires(p) \/ Output(p)
          \/ Reap \/ Detected \/ FactsAreOld \/ HostDestroyed

ShellSpec == ShellInit /\ [][ShellNext]_shellVars

-----------------------------------------------------------------------------
(* Properties *)

(* The type of the state; the tree has exactly the panes with a runtime.   *)
ShellTypeOK ==
    /\ panes \subseteq 1..born /\ hosted = panes /\ born \in 0..MaxPane
    /\ home \in [Pane -> [session : Pane, window : Pane]]
    /\ shell \in [Pane -> Shells]
    /\ call \in [Call -> [stage : {"idle", "waiting", "elsewhere"}, op : Ops, at : Pane]]
    /\ sock \in [Sock -> [stage : {"new", "waiting", "elsewhere", "on", "closing", "closed"}, pane : Pane]]
    /\ facts \in {"none", "ssh", "tmux"} /\ gone \in BOOLEAN

(* At every level exactly one is active, if there is any, whichever order  *)
(* panes, windows and sessions are closed, exit and expire in.             *)
OneIsActive ==
    /\ chosen.sessions \subseteq SessionsOf(panes)
    /\ panes # {} => Cardinality(chosen.sessions) = 1
    /\ \A s \in SessionsOf(panes) : Cardinality(chosen.windows \cap WindowsOf(panes, s)) = 1
    /\ \A p \in panes : Cardinality(chosen.panes \cap PanesOf(panes, home[p].window)) = 1

(* A socket that is open shows a shell that runs and that will tell it     *)
(* when it ends: none is left open on a pane that is gone.                 *)
NobodyHangs ==
    \A s \in Sock : sock[s].stage = "on" =>
      s \in shell[sock[s].pane].subs /\ Live(sock[s].pane) /\ sock[s].pane \in panes

(* A shell that runs is in the tree, where it can be reached and expires,  *)
(* or it was told to end; also once the host is thrown away while sockets  *)
(* and calls still wait for its provider.                                  *)
NoStrayShell ==
    \A p \in Pane : shell[p].pty = "runs" => shell[p].ending # "no" \/ (p \in panes /\ p \in hosted)

(* Whoever decides the size of a shell that is watched watches it: who     *)
(* left has no say.                                                        *)
OwnerWatches ==
    \A p \in hosted : shell[p].subs # {} => shell[p].owner \in shell[p].subs \cup {NoSock}

=============================================================================
