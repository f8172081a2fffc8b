------------------------- MODULE HostedShellsProofs -------------------------
(***************************************************************************)
(* The hosted shells, proved for any number of panes, calls and sockets.   *)
(* A pane's runtime counts its subscribers and each of them is open on it; *)
(* only a shell that runs has any; and one that was told to end is in      *)
(* nobody's hands.                                                         *)
(***************************************************************************)
EXTENDS HostedShells, FiniteSetTheorems, WellFoundedInduction, TLAPS

SockStages == {"new", "waiting", "elsewhere", "on", "closing", "closed"}

Socks == [stage : SockStages, pane : Pane]

Subscribed ==
    \A p \in Pane :
      /\ shell[p].subs # {} => p \in hosted /\ shell[p].pty = "runs"
      /\ \A s \in shell[p].subs : sock[s].stage = "on" /\ sock[s].pane = p

Ending ==
    \A p \in Pane :
      /\ shell[p].ending # "no" => shell[p].pty = "runs" /\ p \notin hosted
      /\ shell[p].pty = "runs" => p \in 1..born

(* What the panes, the shells and the sockets keep. *)
Kept ==
    /\ panes \subseteq 1..born /\ hosted = panes /\ born \in 0..MaxPane
    /\ home \in [Pane -> [session : Pane, window : Pane]]
    /\ shell \in [Pane -> Shells] /\ sock \in [Sock -> Socks]
    /\ Subscribed /\ Ending /\ NobodyHangs /\ NoStrayShell /\ OwnerWatches

Asked ==
    /\ call \in [Call -> [stage : {"idle", "waiting", "elsewhere"}, op : Ops, at : Pane]]
    /\ facts \in {"none", "ssh", "tmux"} /\ gone \in BOOLEAN

ShellInv == Kept /\ Asked

LEMMA InitInv ==
    ASSUME ShellInit
    PROVE  ShellInv
  <1>1. /\ born = 0 /\ 1 \in Pane /\ MaxPane \in Nat
        /\ panes = {} /\ hosted = {}
    BY HostedAssumption DEF ShellInit, Pane
  <1>2. home \in [Pane -> [session : Pane, window : Pane]]
    BY DEF ShellInit, Alone
  <1>3. /\ shell \in [Pane -> Shells]
        /\ \A p \in Pane : shell[p].subs = {} /\ shell[p].pty = "none" /\ shell[p].ending = "no"
    BY DEF ShellInit, NotStarted, Shells
  <1>4. /\ sock \in [Sock -> Socks]
        /\ \A s \in Sock : sock[s].stage = "new"
    BY <1>1 DEF ShellInit, SockIn, Socks, SockStages
  <1>5. Asked
    BY <1>1 DEF ShellInit, Asked, NoCall, Ops
  <1> QED
    BY <1>1, <1>2, <1>3, <1>4, <1>5
    DEF ShellInv, Kept, Subscribed, Ending, NobodyHangs, NoStrayShell, OwnerWatches

LEMMA HostedInPane ==
    ASSUME Kept
    PROVE  hosted \subseteq Pane /\ panes \subseteq Pane /\ 1 \in Pane
  <1>1. MaxPane \in Nat \ {0} /\ born \in 0..MaxPane
    BY HostedAssumption DEF Kept
  <1>2. 1..born \subseteq 1..MaxPane /\ 1 \in 1..MaxPane
    BY <1>1
  <1> QED BY <1>2 DEF Kept, Pane

-----------------------------------------------------------------------------
(* Panes taken away *)

LEMMA TreeTaken ==
    ASSUME Kept, NEW S, TakenFromTree(S)
    PROVE  /\ panes' = panes \ S
           /\ home' \in [Pane -> [session : Pane, window : Pane]]
  BY DEF Kept, TakenFromTree, Alone, Pane

LEMMA PruneKeeps ==
    ASSUME Kept, NEW S, S \subseteq panes, Prune(S)
    PROVE  Kept'
  <1>1. /\ panes' = panes \ S /\ hosted' = hosted \ S /\ born' = born
        /\ home' \in [Pane -> [session : Pane, window : Pane]]
    BY TreeTaken DEF Prune
  <1>2. /\ shell' \in [Pane -> Shells]
        /\ \A p \in Pane \ S : shell'[p] = shell[p]
        /\ \A p \in S : /\ shell'[p].pty = shell[p].pty /\ shell'[p].subs = {}
                        /\ shell'[p].pty = "runs" => shell'[p].ending = "hup"
                        /\ shell'[p].pty # "runs" => shell'[p].ending = "no"
    <2>1. shell' = Destroyed(S) /\ S \subseteq Pane
      BY HostedInPane DEF Prune
    <2>2. ASSUME NEW p \in S
          PROVE  /\ shell'[p] \in Shells /\ shell'[p].pty = shell[p].pty /\ shell'[p].subs = {}
                 /\ shell'[p].pty = "runs" => shell'[p].ending = "hup"
                 /\ shell'[p].pty # "runs" => shell'[p].ending = "no"
      <3>1. CASE shell[p].pty = "runs"
        <4>1. shell'[p] = [NotStarted EXCEPT !.pty = "runs", !.ending = "hup"]
          BY <2>1, <2>2, <3>1 DEF Destroyed
        <4> QED BY <3>1, <4>1 DEF NotStarted, Shells
      <3>2. CASE shell[p].pty = "none"
        <4>1. shell'[p] = NotStarted
          BY <2>1, <2>2, <3>2 DEF Destroyed
        <4> QED BY <3>2, <4>1 DEF NotStarted, Shells
      <3> QED BY <2>1, <2>2, <3>1, <3>2 DEF Kept, Shells
    <2>3. /\ \A p \in Pane \ S : shell'[p] = shell[p]
          /\ shell' = [p \in Pane |-> shell'[p]]
      BY <2>1 DEF Destroyed
    <2> QED BY <2>2, <2>3 DEF Kept
  <1>3. /\ sock' \in [Sock -> Socks]
        /\ \A s \in Sock : \/ sock'[s].stage = "closing" /\ \E p \in S : s \in shell[p].subs
                           \/ sock'[s] = sock[s] /\ \A p \in S : s \notin shell[p].subs
    <2>1. SockIn("closing") \in Socks /\ SockIn("closing").stage = "closing"
      BY HostedInPane DEF SockIn, Socks, SockStages
    <2>2. sock' = [s \in Sock |->
            IF \E p \in S : s \in shell[p].subs THEN SockIn("closing") ELSE sock[s]]
      BY DEF Prune, Released
    <2>3. sock \in [Sock -> Socks]
      BY DEF Kept
    <2> HIDE DEF Socks
    <2> QED BY <2>1, <2>2, <2>3
  <1>4. S \subseteq Pane
    BY HostedAssumption DEF Kept, Pane
  <1>5. Subscribed'
    <2> SUFFICES ASSUME NEW p \in Pane
                 PROVE  /\ shell'[p].subs # {} => p \in hosted' /\ shell'[p].pty = "runs"
                        /\ \A s \in shell'[p].subs : sock'[s].stage = "on" /\ sock'[s].pane = p
      BY DEF Subscribed
    <2>1. CASE p \in S
      BY <1>2, <2>1
    <2>2. CASE p \notin S
      <3>1. ASSUME NEW s \in shell[p].subs
            PROVE  sock'[s] = sock[s]
        <4>1. s \in Sock /\ sock[s].pane = p
          BY DEF Kept, Subscribed, Shells
        <4>2. \A q \in S : s \notin shell[q].subs
          BY <1>4, <2>2, <4>1 DEF Kept, Subscribed
        <4> QED BY <1>3, <4>1, <4>2
      <3> QED BY <1>1, <1>2, <2>2, <3>1 DEF Kept, Subscribed
    <2> QED BY <2>1, <2>2
  <1>6. Ending'
    BY <1>1, <1>2, <1>4 DEF Kept, Ending
  <1>7. NobodyHangs'
    <2> SUFFICES ASSUME NEW s \in Sock, sock'[s].stage = "on"
                 PROVE  s \in shell'[sock'[s].pane].subs /\ Live(sock[s].pane)' /\ sock'[s].pane \in panes'
      BY DEF NobodyHangs
    <2>1. sock'[s] = sock[s] /\ \A p \in S : s \notin shell[p].subs
      BY <1>3
    <2>2. sock[s].pane \in Pane \ S
      BY <2>1 DEF Kept, NobodyHangs, Socks
    <2> QED BY <1>1, <1>2, <2>1, <2>2 DEF Kept, NobodyHangs, Live
  <1>8. NoStrayShell' /\ OwnerWatches'
    BY <1>1, <1>2, <1>4, HostedInPane DEF Kept, NoStrayShell, OwnerWatches
  <1> QED BY <1>1, <1>2, <1>3, <1>5, <1>6, <1>7, <1>8 DEF Kept

LEMMA ExitKeeps ==
    ASSUME Kept, NEW p \in Pane, ShellExits(p)
    PROVE  Kept'
  <1>1. /\ panes' = panes \ {p} /\ hosted' = panes' /\ born' = born
        /\ home' \in [Pane -> [session : Pane, window : Pane]]
    BY TreeTaken DEF ShellExits, Kept
  <1>2. /\ shell' \in [Pane -> Shells]
        /\ \A q \in Pane \ {p} : shell'[q] = shell[q]
        /\ shell'[p].pty = "none" /\ shell'[p].subs = {} /\ shell'[p].ending = "no"
    BY HostedAssumption DEF Kept, ShellExits, NotStarted, Shells, Pane
  <1>3. /\ sock' \in [Sock -> Socks]
        /\ \A s \in Sock : \/ sock'[s].stage = "closing" /\ s \in shell[p].subs
                           \/ sock'[s] = sock[s] /\ s \notin shell[p].subs
    <2>1. sock' = [s \in Sock |-> IF s \in shell[p].subs THEN SockIn("closing") ELSE sock[s]]
      BY DEF ShellExits, Released
    <2>2. SockIn("closing") \in Socks /\ SockIn("closing").stage = "closing"
      BY HostedInPane DEF SockIn, Socks, SockStages
    <2> QED BY <2>1, <2>2 DEF Kept
  <1>4. Subscribed'
    <2> SUFFICES ASSUME NEW q \in Pane
                 PROVE  /\ shell'[q].subs # {} => q \in hosted' /\ shell'[q].pty = "runs"
                        /\ \A s \in shell'[q].subs : sock'[s].stage = "on" /\ sock'[s].pane = q
      BY DEF Subscribed
    <2>1. CASE q = p
      BY <1>2, <2>1
    <2>2. CASE q # p
      <3>1. \A s \in shell[q].subs : s \in Sock /\ s \notin shell[p].subs
        BY <2>2 DEF Kept, Subscribed, Shells
      <3> QED BY <1>1, <1>2, <1>3, <2>2, <3>1 DEF Kept, Subscribed
    <2> QED BY <2>1, <2>2
  <1>5. Ending'
    BY <1>1, <1>2 DEF Kept, Ending
  <1>6. NobodyHangs'
    <2> SUFFICES ASSUME NEW s \in Sock, sock'[s].stage = "on"
                 PROVE  s \in shell'[sock'[s].pane].subs /\ Live(sock[s].pane)' /\ sock'[s].pane \in panes'
      BY DEF NobodyHangs
    <2>1. sock'[s] = sock[s] /\ s \notin shell[p].subs
      BY <1>3
    <2>2. sock[s].pane \in Pane \ {p}
      BY <2>1 DEF Kept, NobodyHangs, Socks
    <2> QED BY <1>1, <1>2, <2>1, <2>2 DEF Kept, NobodyHangs, Live
  <1>7. NoStrayShell' /\ OwnerWatches'
    BY <1>1, <1>2, HostedInPane DEF Kept, NoStrayShell, OwnerWatches
  <1> QED BY <1>1, <1>2, <1>3, <1>4, <1>5, <1>6, <1>7 DEF Kept

-----------------------------------------------------------------------------
(* Panes made, sockets attached and closed *)

LEMMA AddPaneKeeps ==
    ASSUME Kept, NEW s \in Pane, NEW w \in Pane, NEW more,
           AddPane(s, w, more)
    PROVE  Kept'
  <1>1. CASE UNCHANGED <<treeVars, shell, sock>>
    BY <1>1 DEF Kept, treeVars, Subscribed, Ending, NobodyHangs, NoStrayShell, OwnerWatches, Live
  <1>2. CASE /\ born < MaxPane /\ born' = born + 1
             /\ panes' = panes \cup {born + 1} /\ hosted' = hosted \cup {born + 1}
             /\ home' = [home EXCEPT ![born + 1] = [session |-> s, window |-> w]]
             /\ UNCHANGED <<shell, sock>>
    <2>1. /\ born \in Nat /\ MaxPane \in Nat /\ born + 1 \in Pane /\ born + 1 \notin 1..born
          /\ 1..born \subseteq 1..(born + 1)
      BY <1>2, HostedAssumption DEF Kept, Pane
    <2>2. /\ shell[born + 1].pty # "runs" /\ shell[born + 1].ending = "no"
          /\ shell[born + 1].subs = {}
      BY <2>1 DEF Kept, Ending, Subscribed
    <2>3. /\ panes' \subseteq 1..born' /\ hosted' = panes' /\ born' \in 0..MaxPane
          /\ home' \in [Pane -> [session : Pane, window : Pane]]
      <3>1. 1..born' = 1..(born + 1) /\ born' \in 0..MaxPane /\ born + 1 \in 1..(born + 1)
        BY <1>2, <2>1
      <3> QED BY <1>2, <2>1, <3>1 DEF Kept
    <2>4. Subscribed' /\ NobodyHangs'
      BY <1>2 DEF Kept, Subscribed, NobodyHangs, Live
    <2>5. Ending' /\ NoStrayShell' /\ OwnerWatches'
      BY <1>2, <2>1, <2>2 DEF Kept, Ending, NoStrayShell, OwnerWatches
    <2> QED BY <1>2, <2>3, <2>4, <2>5 DEF Kept
  <1> QED BY <1>1, <1>2 DEF AddPane

LEMMA DoesKeeps ==
    ASSUME Kept, NEW op, NEW k \in Pane, Does(op, k)
    PROVE  Kept'
  <1> DEFINE p == born + 1
             s == home[k].session
             w == home[k].window
  <1>1. s \in Pane /\ w \in Pane
    BY DEF Kept
  <1>2. ASSUME NEW a, NEW b, NEW more, a \in Pane \/ a = p, b \in Pane \/ b = p, AddPane(a, b, more)
        PROVE  Kept'
    <2>1. CASE UNCHANGED <<treeVars, shell, sock>>
      BY <2>1 DEF Kept, treeVars, Subscribed, Ending, NobodyHangs, NoStrayShell, OwnerWatches, Live
    <2>2. CASE born < MaxPane
      <3>1. p \in Pane
        BY <2>2, HostedAssumption DEF Kept, Pane
      <3> QED BY <1>2, <3>1, AddPaneKeeps
    <2> QED BY <1>2, <2>1, <2>2 DEF AddPane
  <1>3. CASE \E more : AddPane(p, p, more)
    BY <1>2, <1>3
  <1>4. CASE AddPane(s, p, [chosen EXCEPT !.panes = @ \cup {p}])
    BY <1>1, <1>2, <1>4
  <1>5. CASE AddPane(s, w, chosen)
    BY <1>1, <1>2, <1>5
  <1>6. CASE \E S : S \subseteq panes /\ Prune(S)
    BY <1>6, PruneKeeps
  <1>7. CASE UNCHANGED <<panes, home, hosted, born, shell, sock>>
    BY <1>7 DEF Kept, Subscribed, Ending, NobodyHangs, NoStrayShell, OwnerWatches, Live
  <1>8. /\ k \in panes => {k} \subseteq panes
        /\ PanesOf(panes, w) \subseteq panes
        /\ {q \in panes : home[q].session = s} \subseteq panes
    BY DEF PanesOf
  <1> QED
    BY <1>3, <1>4, <1>5, <1>6, <1>7, <1>8 DEF Does, treeVars

LEMMA AttachKeeps ==
    ASSUME Kept, NEW s \in Sock, NEW p \in Pane, Attach(s, p), sock[s].stage # "on",
           UNCHANGED treeVars
    PROVE  Kept'
  <1>1. /\ panes' = panes /\ hosted' = hosted /\ born' = born /\ home' = home /\ p \in Pane
        /\ 1 \in Pane
    BY HostedAssumption DEF treeVars, Pane
  <1>2. \A q \in Pane : s \notin shell[q].subs
    BY DEF Kept, Subscribed
  <1>3. CASE /\ p \in hosted
             /\ shell' = [shell EXCEPT ![p].subs = @ \cup {s}, ![p].owner = s, ![p].pty = "runs",
                                       ![p].detached = "no"]
             /\ sock' = [sock EXCEPT ![s] = [stage |-> "on", pane |-> p]]
    <2>1. /\ shell'[p] \in Shells /\ shell'[p].subs = shell[p].subs \cup {s}
          /\ shell'[p].owner = s /\ shell'[p].pty = "runs" /\ shell'[p].ending = shell[p].ending
          /\ \A q \in Pane \ {p} : shell'[q] = shell[q]
          /\ DOMAIN shell' = Pane
      BY <1>3 DEF Kept, Shells
    <2>2. shell' \in [Pane -> Shells]
      BY <1>3, <2>1 DEF Kept
    <2>3. /\ sock' \in [Sock -> Socks] /\ sock'[s].stage = "on" /\ sock'[s].pane = p
          /\ \A t \in Sock \ {s} : sock'[t] = sock[t]
      BY <1>3 DEF Kept, Socks, SockStages
    <2>4. Subscribed'
      BY <1>1, <1>2, <1>3, <2>1, <2>3 DEF Kept, Subscribed, Shells
    <2>5. Ending'
      BY <1>1, <1>3, <2>1 DEF Kept, Ending
    <2>6. NobodyHangs'
      BY <1>1, <1>3, <2>1, <2>3 DEF Kept, NobodyHangs, Live, Ending, Socks
    <2>7. NoStrayShell' /\ OwnerWatches'
      BY <1>1, <1>3, <2>1, HostedInPane DEF Kept, NoStrayShell, OwnerWatches
    <2> QED BY <1>1, <2>2, <2>3, <2>4, <2>5, <2>6, <2>7 DEF Kept
  <1>4. CASE /\ p \in hosted /\ shell[p].pty = "none"
             /\ shell' = [shell EXCEPT ![p].owner = s]
             /\ sock' = [sock EXCEPT ![s] = SockIn("closed")]
    <2>1. /\ shell'[p] \in Shells /\ shell'[p].subs = {} /\ shell[p].subs = {}
          /\ shell'[p].pty = "none" /\ shell'[p].ending = shell[p].ending
          /\ \A q \in Pane \ {p} : shell'[q] = shell[q]
      <3>1. /\ shell[p] \in Shells /\ shell[p].subs = {} /\ shell[p].pty = "none"
            /\ p \in Pane /\ shell \in [Pane -> Shells]
        BY <1>4, HostedInPane DEF Kept, Subscribed
      <3>2. shell'[p] = [shell[p] EXCEPT !.owner = s]
        BY <1>4, <3>1
      <3>3. \A q \in Pane \ {p} : shell'[q] = shell[q]
        BY <1>4, <3>1
      <3> QED BY <3>1, <3>2, <3>3 DEF Shells
    <2>2. shell' \in [Pane -> Shells]
      BY <1>4, <2>1 DEF Kept
    <2>3. /\ sock' \in [Sock -> Socks] /\ sock'[s].stage = "closed"
          /\ \A t \in Sock \ {s} : sock'[t] = sock[t]
      BY <1>1, <1>4 DEF Kept, Socks, SockStages, SockIn
    <2>4. Subscribed'
      <3>1. \A q \in Pane \ {p} : \A t \in shell'[q].subs : sock'[t].stage = "on" /\ sock'[t].pane = q
        <4> SUFFICES ASSUME NEW q \in Pane \ {p}, NEW t \in shell'[q].subs
                     PROVE  sock'[t].stage = "on" /\ sock'[t].pane = q
          OBVIOUS
        <4>1. t \in shell[q].subs /\ t \in Sock /\ t # s
          BY <1>2, <2>1 DEF Kept, Shells
        <4> QED BY <2>3, <4>1 DEF Kept, Subscribed
      <3>2. \A q \in Pane \ {p} : shell'[q].subs # {} => q \in hosted' /\ shell'[q].pty = "runs"
        BY <1>1, <2>1 DEF Kept, Subscribed
      <3> QED BY <2>1, <3>1, <3>2 DEF Subscribed
    <2>5. Ending'
      BY <1>1, <1>4, <2>1 DEF Kept, Ending
    <2>6. NobodyHangs'
      BY <1>1, <1>4, <2>1, <2>3 DEF Kept, NobodyHangs, Live, Socks
    <2>7. NoStrayShell' /\ OwnerWatches'
      BY <1>1, <1>4, <2>1, HostedInPane DEF Kept, NoStrayShell, OwnerWatches
    <2> QED BY <1>1, <2>2, <2>3, <2>4, <2>5, <2>6, <2>7 DEF Kept
  <1>5. CASE sock' = [sock EXCEPT ![s] = SockIn("closed")] /\ UNCHANGED shell
    <2>1. /\ sock' \in [Sock -> Socks] /\ sock'[s].stage = "closed"
          /\ \A t \in Sock \ {s} : sock'[t] = sock[t]
      BY <1>1, <1>5 DEF Kept, Socks, SockStages, SockIn
    <2>2. Subscribed'
      BY <1>1, <1>2, <1>5, <2>1 DEF Kept, Subscribed, Shells
    <2> QED BY <1>1, <1>5, <2>1, <2>2 DEF Kept, Ending, NobodyHangs, NoStrayShell, OwnerWatches, Live
  <1> QED BY <1>3, <1>4, <1>5 DEF Attach

(* A socket goes on to wait, to be served elsewhere or to be closed, and   *)
(* nobody counts it.                                                       *)
LEMMA SocketMoves ==
    ASSUME Kept, NEW S \in SUBSET Sock, \A s \in S : sock[s].stage # "on",
           sock' \in [Sock -> Socks], \A s \in S : sock'[s].stage # "on",
           \A s \in Sock \ S : sock'[s] = sock[s],
           UNCHANGED <<panes, home, hosted, born, shell>>
    PROVE  Kept'
  <1>1. Subscribed'
    BY DEF Kept, Subscribed, Shells
  <1> QED BY <1>1 DEF Kept, Ending, NobodyHangs, NoStrayShell, OwnerWatches, Live

LEMMA CloseKeeps ==
    ASSUME Kept, NEW s \in Sock, SocketCloses(s)
    PROVE  Kept'
  <1>1. /\ panes' = panes /\ hosted' = hosted /\ born' = born /\ home' = home
        /\ 1 \in Pane
    BY HostedAssumption DEF SocketCloses, treeVars, Pane
  <1>2. /\ sock' \in [Sock -> Socks] /\ sock'[s].stage = "closed"
        /\ \A t \in Sock \ {s} : sock'[t] = sock[t]
    BY <1>1 DEF SocketCloses, Kept, Socks, SockStages, SockIn
  <1>3. CASE sock[s].stage # "on"
    <2>1. {s} \in SUBSET Sock /\ \A t \in {s} : sock[t].stage # "on" /\ sock'[t].stage # "on"
      BY <1>2, <1>3
    <2>2. shell' = shell
      BY <1>3 DEF SocketCloses
    <2> QED BY <1>1, <1>2, <2>1, <2>2, SocketMoves
  <1>4. CASE sock[s].stage = "on"
    <2> DEFINE p == sock[s].pane
    <2>1. p \in Pane /\ shell[p] \in Shells
      BY DEF Kept, Socks
    <2>2. shell' = Unsubscribed(s)
      BY <1>4 DEF SocketCloses
    <2>3. /\ shell'[p] \in Shells /\ shell'[p].subs = shell[p].subs \ {s}
          /\ shell'[p].owner = IF shell[p].owner = s THEN NoSock ELSE shell[p].owner
          /\ shell'[p].pty = shell[p].pty /\ shell'[p].ending = shell[p].ending
          /\ \A q \in Pane \ {p} : shell'[q] = shell[q]
      <3> DEFINE d == IF shell[p].subs \subseteq {s} THEN "since" ELSE shell[p].detached
      <3>1. d \in {"no", "since", "expired"}
        BY <2>1 DEF Shells
      <3> DEFINE e == [shell[p] EXCEPT !.subs = @ \ {s}, !.owner = IF @ = s THEN NoSock ELSE @,
                                       !.detached = d]
      <3>2. shell' = [shell EXCEPT ![p] = e]
        BY <2>2 DEF Unsubscribed
      <3>3. e \in Shells
        <4> HIDE DEF d
        <4> QED BY <2>1, <3>1 DEF Shells
      <3>4. /\ e.subs = shell[p].subs \ {s} /\ e.pty = shell[p].pty /\ e.ending = shell[p].ending
            /\ e.owner = IF shell[p].owner = s THEN NoSock ELSE shell[p].owner
        BY <2>1 DEF Shells
      <3> HIDE DEF e
      <3>5. shell'[p] = e /\ \A q \in Pane \ {p} : shell'[q] = shell[q]
        BY <2>1, <3>2 DEF Kept
      <3> QED BY <3>3, <3>4, <3>5
    <2>4. shell' \in [Pane -> Shells]
      BY <2>1, <2>2, <2>3 DEF Kept, Unsubscribed
    <2> HIDE DEF p
    <2>5. \A q \in Pane : s \notin shell'[q].subs
      BY <2>1, <2>3 DEF Kept, Subscribed, p
    <2>6. Subscribed'
      <3>1. \A q \in Pane : /\ shell'[q].subs \subseteq shell[q].subs
                             /\ shell'[q].pty = shell[q].pty
        BY <2>1, <2>3
      <3>2. ASSUME NEW q \in Pane, NEW t \in shell'[q].subs
            PROVE  sock'[t].stage = "on" /\ sock'[t].pane = q
        <4>1. t \in shell[q].subs /\ t # s
          BY <2>5, <3>1, <3>2
        <4>2. t \in Sock /\ sock[t].stage = "on" /\ sock[t].pane = q
          BY <4>1 DEF Kept, Subscribed, Shells
        <4> QED BY <1>1, <1>2, <4>1, <4>2
      <3> QED BY <1>1, <3>1, <3>2 DEF Kept, Subscribed
    <2>7. Ending' /\ NoStrayShell'
      BY <1>1, <2>1, <2>3 DEF Kept, Ending, NoStrayShell
    <2>8. NobodyHangs'
      BY <1>1, <1>2, <2>1, <2>3 DEF Kept, NobodyHangs, Live, Socks
    <2>9. OwnerWatches'
      BY <1>1, <2>1, <2>3, HostedInPane DEF Kept, OwnerWatches
    <2> QED BY <1>1, <1>2, <2>4, <2>6, <2>7, <2>8, <2>9 DEF Kept
  <1> QED BY <1>3, <1>4

(* One field of a runtime changes that decides neither who watches it nor  *)
(* whether it runs.                                                        *)
LEMMA ShellTurns ==
    ASSUME Kept, NEW p \in Pane, shell' \in [Pane -> Shells],
           \A q \in Pane \ {p} : shell'[q] = shell[q],
           shell'[p].subs = shell[p].subs, shell'[p].pty = shell[p].pty,
           \/ shell'[p].ending = shell[p].ending
           \/ shell'[p].ending # "no" /\ shell[p].ending # "no",
           shell'[p].owner \in shell[p].subs \cup {shell[p].owner},
           UNCHANGED <<panes, home, hosted, born, sock>>
    PROVE  Kept'
  <1>1. Subscribed' /\ Ending'
    BY DEF Kept, Subscribed, Ending
  <1>2. NobodyHangs' /\ NoStrayShell'
    BY DEF Kept, NobodyHangs, Live, NoStrayShell, Socks
  <1>3. OwnerWatches'
    BY HostedInPane DEF Kept, OwnerWatches
  <1> QED BY <1>1, <1>2, <1>3 DEF Kept

-----------------------------------------------------------------------------
(* The steps *)

LEMMA CallKeeps ==
    ASSUME ShellInv, NEW c \in Call, CallArrives(c) \/ CallResumes(c) \/ CallLeaves(c)
    PROVE  ShellInv'
  <1>1. UNCHANGED <<treeVars, shell, sock>> => Kept'
    BY DEF ShellInv, Kept, treeVars, Subscribed, Ending, NobodyHangs, NoStrayShell, OwnerWatches, Live
  <1>2. \A k \in 1..born \cup {1} : k \in Pane
    <2>1. born \in 0..MaxPane /\ MaxPane \in Nat \ {0}
      BY HostedAssumption DEF ShellInv, Kept
    <2> QED BY <2>1 DEF Pane
  <1>3. call[c] \in [stage : {"idle", "waiting", "elsewhere"}, op : Ops, at : Pane]
    BY DEF ShellInv, Asked
  <1>4. Kept
    BY DEF ShellInv
  <1>5. CASE CallArrives(c)
    <2>1. PICK op \in Ops, k \in 1..born \cup {1} :
             \/ /\ call' = [call EXCEPT ![c] = [stage |-> "waiting", op |-> op, at |-> k]]
                /\ UNCHANGED <<treeVars, shell, sock>>
             \/ /\ \E st \in {"idle", "elsewhere"} : call' = [call EXCEPT ![c].stage = st]
                /\ Does(op, k) \/ UNCHANGED <<treeVars, shell, sock>>
      BY <1>5 DEF CallArrives
    <2>2. k \in Pane
      BY <1>2
    <2>3. Kept'
      BY <1>1, <1>4, <2>1, <2>2, DoesKeeps
    <2>4. Asked'
      BY <1>3, <1>5, <2>1, <2>2 DEF ShellInv, Asked, CallArrives
    <2> QED BY <2>3, <2>4 DEF ShellInv
  <1>6. CASE CallResumes(c)
    <2>1. Kept'
      BY <1>1, <1>3, <1>4, <1>6, DoesKeeps DEF CallResumes
    <2>2. NoCall \in [stage : {"idle", "waiting", "elsewhere"}, op : Ops, at : Pane]
      BY HostedInPane, <1>4 DEF NoCall, Ops
    <2>3. [NoCall EXCEPT !.stage = "elsewhere"] \in [stage : {"idle", "waiting", "elsewhere"}, op : Ops, at : Pane]
      BY <2>2
    <2>4. Asked'
      BY <1>6, <2>2, <2>3 DEF ShellInv, Asked, CallResumes
    <2> QED BY <2>1, <2>4 DEF ShellInv
  <1>7. CASE CallLeaves(c)
    BY <1>1, <1>3, <1>7 DEF ShellInv, Asked, CallLeaves
  <1> QED BY <1>5, <1>6, <1>7

LEMMA SocketKeeps ==
    ASSUME Kept, NEW s \in Sock,
           SocketArrives(s) \/ SocketResumes(s) \/ SocketCloses(s) \/ Focus(s)
    PROVE  Kept'
  <1>1. sock[s] \in Socks
    BY DEF Kept
  <1>2. ASSUME NEW st \in SockStages \ {"on"}, NEW p \in Pane, sock[s].stage # "on",
               sock' = [sock EXCEPT ![s] = [stage |-> st, pane |-> p]],
               UNCHANGED <<treeVars, shell>>
        PROVE  Kept'
    <2>1. /\ sock' \in [Sock -> Socks] /\ sock'[s].stage = st
          /\ \A t \in Sock \ {s} : sock'[t] = sock[t]
      BY <1>2 DEF Kept, Socks
    <2>2. {s} \in SUBSET Sock /\ \A t \in {s} : sock[t].stage # "on" /\ sock'[t].stage # "on"
      BY <1>2, <2>1
    <2> QED BY <1>2, <2>1, <2>2, SocketMoves DEF treeVars
  <1>3. CASE SocketArrives(s)
    <2>1. PICK p \in 1..born :
             \/ /\ \/ sock' = [sock EXCEPT ![s] = [stage |-> "waiting", pane |-> p]]
                   \/ sock' = [sock EXCEPT ![s] = [stage |-> "elsewhere", pane |-> 1]]
                /\ UNCHANGED shell
             \/ Attach(s, p)
      BY <1>3 DEF SocketArrives, SockIn
    <2>2. p \in Pane /\ 1 \in Pane
      <3>1. born \in 0..MaxPane /\ MaxPane \in Nat \ {0}
        BY HostedAssumption DEF Kept
      <3> QED BY <3>1 DEF Pane
    <2>3. /\ "waiting" \in SockStages \ {"on"} /\ "elsewhere" \in SockStages \ {"on"}
          /\ sock[s].stage # "on" /\ UNCHANGED treeVars
      BY <1>3 DEF SockStages, SocketArrives
    <2> QED BY <1>2, <2>1, <2>2, <2>3, AttachKeeps
  <1>4. CASE SocketResumes(s)
    <2>1. /\ "elsewhere" \in SockStages \ {"on"} /\ 1 \in Pane /\ sock[s].pane \in Pane
          /\ sock[s].stage # "on" /\ UNCHANGED treeVars
      BY <1>1, <1>4, HostedInPane DEF SockStages, SocketResumes, Socks
    <2> QED BY <1>2, <1>4, <2>1, AttachKeeps DEF SocketResumes, SockIn
  <1>5. CASE SocketCloses(s)
    BY <1>5, CloseKeeps
  <1>6. CASE Focus(s)
    <2> DEFINE p == sock[s].pane
    <2>1. p \in Pane /\ s \in shell[p].subs
      BY <1>1, <1>6 DEF Focus, Kept, NobodyHangs, Socks
    <2>2. shell' = [shell EXCEPT ![p].owner = s]
      BY <1>6 DEF Focus
    <2> HIDE DEF p
    <2>3. /\ shell' \in [Pane -> Shells] /\ \A q \in Pane \ {p} : shell'[q] = shell[q]
          /\ shell'[p].subs = shell[p].subs /\ shell'[p].pty = shell[p].pty
          /\ shell'[p].ending = shell[p].ending /\ shell'[p].owner = s
      BY <2>1, <2>2 DEF Kept, Shells
    <2> QED BY <1>6, <2>1, <2>3, ShellTurns DEF Focus, treeVars
  <1> QED BY <1>3, <1>4, <1>5, <1>6

LEMMA TimeKeeps ==
    ASSUME Kept, NEW p \in Pane, KillTimer(p) \/ Expires(p) \/ Output(p)
    PROVE  Kept'
  <1>1. shell[p] \in Shells
    BY DEF Kept
  <1>2. CASE KillTimer(p)
    <2>1. /\ shell' \in [Pane -> Shells] /\ \A q \in Pane \ {p} : shell'[q] = shell[q]
          /\ shell'[p].subs = shell[p].subs /\ shell'[p].pty = shell[p].pty
          /\ shell'[p].ending = "kill" /\ shell[p].ending = "hup" /\ shell'[p].owner = shell[p].owner
      BY <1>1, <1>2 DEF Kept, KillTimer, Shells
    <2> QED BY <1>2, <2>1, ShellTurns DEF KillTimer, treeVars
  <1>3. CASE Expires(p) \/ Output(p)
    <2>1. /\ shell' \in [Pane -> Shells] /\ \A q \in Pane \ {p} : shell'[q] = shell[q]
          /\ shell'[p].subs = shell[p].subs /\ shell'[p].pty = shell[p].pty
          /\ shell'[p].ending = shell[p].ending /\ shell'[p].owner = shell[p].owner
      BY <1>1, <1>3 DEF Kept, Expires, Output, Shells
    <2> QED BY <1>3, <2>1, ShellTurns DEF Expires, Output, treeVars
  <1> QED BY <1>2, <1>3

LEMMA HostKeeps ==
    ASSUME Kept, Reap \/ HostDestroyed
    PROVE  Kept'
  <1>1. CASE Reap
    <2>1. PICK S : S \subseteq hosted /\ Prune(S)
      BY <1>1 DEF Reap
    <2> QED BY <2>1, PruneKeeps DEF Kept
  <1>2. CASE HostDestroyed
    <2>1. /\ panes' = {} /\ hosted' = {} /\ born' = born
          /\ home' \in [Pane -> [session : Pane, window : Pane]]
      BY <1>2 DEF HostDestroyed, Alone
    <2>2. /\ shell' \in [Pane -> Shells]
          /\ \A p \in Pane : /\ shell'[p].subs = {} /\ shell'[p].pty = shell[p].pty
                             /\ shell'[p].pty = "runs" => shell'[p].ending # "no"
                             /\ shell'[p].pty # "runs" => shell'[p].ending = "no"
      <3>1. shell' = Destroyed(hosted)
        BY <1>2 DEF HostDestroyed
      <3>2. ASSUME NEW p \in Pane
            PROVE  /\ shell'[p] \in Shells /\ shell'[p].subs = {} /\ shell'[p].pty = shell[p].pty
                   /\ shell'[p].pty = "runs" => shell'[p].ending # "no"
                   /\ shell'[p].pty # "runs" => shell'[p].ending = "no"
        <4>1. CASE p \notin hosted
          <5>1. shell'[p] = shell[p]
            BY <3>1, <4>1 DEF Destroyed
          <5> QED BY <4>1, <5>1 DEF Kept, Subscribed, Ending, NoStrayShell
        <4>2. CASE p \in hosted /\ shell[p].pty = "runs"
          <5>1. shell'[p] = [NotStarted EXCEPT !.pty = "runs", !.ending = "hup"]
            BY <3>1, <4>2 DEF Destroyed
          <5> QED BY <4>2, <5>1 DEF NotStarted, Shells
        <4>3. CASE p \in hosted /\ shell[p].pty = "none"
          <5>1. shell'[p] = NotStarted
            BY <3>1, <4>3 DEF Destroyed
          <5> QED BY <4>3, <5>1 DEF NotStarted, Shells
        <4> QED BY <4>1, <4>2, <4>3 DEF Kept, Shells
      <3>3. shell' = [p \in Pane |-> shell'[p]]
        BY <3>1 DEF Destroyed
      <3> QED BY <3>2, <3>3
    <2>3. /\ sock' \in [Sock -> Socks]
          /\ \A s \in Sock : sock'[s].stage # "on"
      <3>1. sock' = Released(hosted)
        BY <1>2 DEF HostDestroyed
      <3>2. SockIn("closing") \in Socks /\ SockIn("closing").stage = "closing"
        BY HostedInPane DEF SockIn, Socks, SockStages
      <3>3. \A s \in Sock : sock[s].stage = "on" => \E p \in hosted : s \in shell[p].subs
        BY DEF Kept, NobodyHangs
      <3> QED BY <3>1, <3>2, <3>3 DEF Released, Kept
    <2>4. Subscribed' /\ Ending' /\ NobodyHangs' /\ NoStrayShell' /\ OwnerWatches'
      BY <2>1, <2>2, <2>3 DEF Kept, Subscribed, Ending, NobodyHangs, NoStrayShell, OwnerWatches
    <2> QED BY <2>1, <2>2, <2>3, <2>4 DEF Kept
  <1> QED BY <1>1, <1>2

LEMMA DetectKeeps ==
    ASSUME ShellInv, Detected
    PROVE  ShellInv'
  <1>1. 1 \in Pane
    BY HostedInPane DEF ShellInv
  <1>2. Asked'
    <2>1. NoCall \in [stage : {"idle", "waiting", "elsewhere"}, op : Ops, at : Pane]
      BY <1>1 DEF NoCall, Ops
    <2> QED BY <2>1 DEF ShellInv, Asked, Detected
  <1>3. Kept'
    <2>1. CASE UNCHANGED sock
      BY <2>1 DEF Detected, ShellInv, Kept, treeVars, Subscribed, Ending, NobodyHangs, NoStrayShell,
                  OwnerWatches, Live
    <2>2. CASE sock' = [s \in Sock |-> IF sock[s].stage = "waiting" THEN SockIn("closed") ELSE sock[s]]
      <3> DEFINE S == {s \in Sock : sock[s].stage = "waiting"}
      <3>1. SockIn("closed") \in Socks /\ SockIn("closed").stage = "closed"
        BY <1>1 DEF SockIn, Socks, SockStages
      <3>2. /\ sock' \in [Sock -> Socks] /\ \A s \in S : sock[s].stage # "on" /\ sock'[s].stage # "on"
            /\ \A s \in Sock \ S : sock'[s] = sock[s]
        BY <2>2, <3>1 DEF ShellInv, Kept
      <3>3. UNCHANGED <<panes, home, hosted, born, shell>> /\ S \in SUBSET Sock
        BY DEF Detected, treeVars
      <3> HIDE DEF S
      <3> QED BY <3>2, <3>3, SocketMoves DEF ShellInv
    <2> QED BY <2>1, <2>2 DEF Detected
  <1> QED BY <1>2, <1>3 DEF ShellInv

LEMMA StepInv ==
    ASSUME ShellInv, [ShellNext]_shellVars
    PROVE  ShellInv'
  <1>1. UNCHANGED <<call, facts, gone>> => Asked'
    BY DEF ShellInv, Asked
  <1>2. CASE UNCHANGED shellVars
    BY <1>2 DEF shellVars, treeVars, ShellInv, Asked, Kept, Subscribed, Ending, NobodyHangs,
                NoStrayShell, OwnerWatches, Live
  <1>3. CASE \E c \in Call : CallArrives(c) \/ CallResumes(c) \/ CallLeaves(c)
    BY <1>3, CallKeeps
  <1>4. CASE \E s \in Sock : SocketArrives(s) \/ SocketResumes(s) \/ SocketCloses(s) \/ Focus(s)
    <2>1. UNCHANGED <<call, facts, gone>>
      BY <1>4 DEF SocketArrives, SocketResumes, SocketCloses, Focus
    <2> QED BY <1>1, <1>4, <2>1, SocketKeeps DEF ShellInv
  <1>5. CASE \E p \in Pane : KillTimer(p) \/ Expires(p) \/ Output(p)
    <2>1. UNCHANGED <<call, facts, gone>>
      BY <1>5 DEF KillTimer, Expires, Output
    <2> QED BY <1>1, <1>5, <2>1, TimeKeeps DEF ShellInv
  <1>6. CASE \E p \in Pane : ShellExits(p)
    <2>1. UNCHANGED <<call, facts, gone>>
      BY <1>6 DEF ShellExits
    <2> QED BY <1>1, <1>6, <2>1, ExitKeeps DEF ShellInv
  <1>7. CASE Reap \/ HostDestroyed
    <2>1. Asked'
      BY <1>7 DEF ShellInv, Asked, Reap, HostDestroyed
    <2> QED BY <1>7, <2>1, HostKeeps DEF ShellInv
  <1>8. CASE Detected
    BY <1>8, DetectKeeps
  <1>9. CASE FactsAreOld
    BY <1>9 DEF FactsAreOld, treeVars, ShellInv, Asked, Kept, Subscribed, Ending, NobodyHangs,
                NoStrayShell, OwnerWatches, Live
  <1> QED
    BY <1>2, <1>3, <1>4, <1>5, <1>6, <1>7, <1>8, <1>9 DEF ShellNext

THEOREM HostedInvariant == ShellSpec => []ShellInv
  BY InitInv, StepInv, PTL DEF ShellSpec

(* The types are kept, and the tree has a pane for each runtime the        *)
(* provider holds (basic-host.js, ssh-provider.js, pane-runtime.js).       *)
THEOREM ShellTypeCorrect == ShellSpec => []ShellTypeOK
  <1>1. ShellInv => ShellTypeOK
    BY DEF ShellInv, Kept, Asked, ShellTypeOK, Socks, SockStages
  <1> QED BY <1>1, HostedInvariant, PTL

(* No socket stays open on a pane that is gone.                            *)
THEOREM EverySocketIsTold == ShellSpec => []NobodyHangs
  <1>1. ShellInv => NobodyHangs
    BY DEF ShellInv, Kept
  <1> QED BY <1>1, HostedInvariant, PTL

(* A shell that runs is in the tree or was told to end.                    *)
THEOREM EveryShellIsReachable == ShellSpec => []NoStrayShell
  <1>1. ShellInv => NoStrayShell
    BY DEF ShellInv, Kept
  <1> QED BY <1>1, HostedInvariant, PTL

(* Whoever decides the size of a shell that is watched watches it.         *)
THEOREM SizeIsTheWatchers == ShellSpec => []OwnerWatches
  <1>1. ShellInv => OwnerWatches
    BY DEF ShellInv, Kept
  <1> QED BY <1>1, HostedInvariant, PTL

-----------------------------------------------------------------------------
(* The tree: a window is in one session, names are not used again, and of  *)
(* each family one is active.                                              *)

One(S) == \E x : S = {x}

Tree ==
    /\ \A p \in panes : home[p].session \in 1..born /\ home[p].window \in 1..born
    /\ \A p, q \in panes : home[p].window = home[q].window => home[p].session = home[q].session

Active ==
    /\ chosen \in [sessions : SUBSET Nat, windows : SUBSET Nat, panes : SUBSET Nat]
    /\ chosen.sessions \subseteq SessionsOf(panes)
    /\ chosen.windows \subseteq {home[p].window : p \in panes}
    /\ chosen.panes \subseteq panes
    /\ panes # {} => One(chosen.sessions)
    /\ \A s \in SessionsOf(panes) : One(chosen.windows \cap WindowsOf(panes, s))
    /\ \A p \in panes : One(chosen.panes \cap PanesOf(panes, home[p].window))

TreeInv == Tree /\ Active

LEMMA MinOfNat ==
    ASSUME NEW R \in SUBSET Nat, R # {}
    PROVE  Min(R) \in R
  <1> DEFINE less == OpToRel(<, Nat)
  <1>1. \A x, y \in Nat : y < x => <<y, x>> \in less
    BY DEF OpToRel
  <1>2. IsWellFoundedOn(less, Nat)
    BY NatLessThanWellFounded
  <1> HIDE DEF less
  <1>3. \E x \in R : \A y \in R : ~ (<<y, x>> \in less)
    BY <1>2, WFMin
  <1>4. \E x \in R : \A y \in R : x =< y
    <2>1. PICK x \in R : \A y \in R : ~ (<<y, x>> \in less)
      BY <1>3
    <2>2. \A y \in R : ~ (y < x)
      <3>1. \A y \in R : y \in Nat /\ x \in Nat
        OBVIOUS
      <3> QED BY <1>1, <2>1, <3>1, Zenon
    <2>3. \A m, n \in Nat : ~ (m < n) => n =< m
      OBVIOUS
    <2> QED BY <2>1, <2>2, <2>3, Zenon
  <1> QED BY <1>4 DEF Min

LEMMA HandedOne ==
    ASSUME NEW A, NEW R \in SUBSET Nat
    PROVE  /\ Handed(A, R) \subseteq R
           /\ One(A) /\ R # {} => One(Handed(A, R))
  <1>1. CASE A \subseteq R \/ R = {}
    BY <1>1 DEF Handed, One
  <1>2. CASE ~(A \subseteq R \/ R = {})
    <2>1. Min(R) \in R
      BY <1>2, MinOfNat
    <2>2. Handed(A, R) = (A \cap R) \cup {Min(R)}
      BY <1>2 DEF Handed
    <2>3. ASSUME One(A)
          PROVE  A \cap R = {}
      BY <1>2, <2>3 DEF One
    <2>4. One({Min(R)})
      BY DEF One
    <2> QED BY <2>1, <2>2, <2>3, <2>4
  <1> QED BY <1>1, <1>2

(* Parts that are apart are found in their union.                          *)
LEMMA Apart ==
    ASSUME NEW I, NEW P, NEW h, \A i \in I : h[i] \subseteq P[i],
           \A i, j \in I : i # j => P[i] \cap P[j] = {}
    PROVE  \A i \in I : (UNION {h[j] : j \in I}) \cap P[i] = h[i]
  OBVIOUS

LEMMA NamesAreNumbers ==
    ASSUME Kept, Tree
    PROVE  /\ \A p \in panes : home[p].session \in Nat /\ home[p].window \in Nat /\ p \in Nat
           /\ born \in Nat
           /\ \A p \in panes : p # born + 1 /\ home[p].session # born + 1 /\ home[p].window # born + 1
  <1>1. born \in Nat
    BY HostedAssumption DEF Kept
  <1>2. \A n \in 1..born : n \in Nat /\ n # born + 1
    BY <1>1
  <1> QED BY <1>1, <1>2 DEF Kept, Tree

LEMMA TakenKeepsTree ==
    ASSUME Kept, TreeInv, NEW S, TakenFromTree(S), born' = born
    PROVE  TreeInv'
  <1> DEFINE T == panes \ S
             Windows == {home[p].window : p \in T}
             P == [s \in SessionsOf(T) |-> WindowsOf(T, s)]
             h == [s \in SessionsOf(T) |->
                     Handed(chosen.windows \cap WindowsOf(panes, s), WindowsOf(T, s))]
             Q == [w \in Windows |-> PanesOf(T, w)]
             k == [w \in Windows |-> Handed(chosen.panes \cap PanesOf(panes, w), PanesOf(T, w))]
  <1>1. /\ panes' = T /\ \A p \in T : home'[p] = home[p] /\ p \in Pane /\ p \in panes
        /\ chosen' = [sessions |-> Handed(chosen.sessions, SessionsOf(T)),
                      windows |-> UNION {h[s] : s \in SessionsOf(T)},
                      panes |-> UNION {k[w] : w \in Windows}]
    BY HostedInPane DEF TakenFromTree
  <1>2. Tree'
    BY <1>1 DEF TreeInv, Tree
  <1>3. /\ SessionsOf(T) \subseteq Nat /\ Windows \subseteq Nat /\ T \subseteq Nat
        /\ \A s : WindowsOf(T, s) \subseteq Nat
        /\ \A w : PanesOf(T, w) \subseteq Nat
    BY NamesAreNumbers DEF TreeInv, SessionsOf, WindowsOf, PanesOf
  <1>4. /\ SessionsOf(panes)' = SessionsOf(T)
        /\ {home[p].window : p \in panes}' = Windows
        /\ \A s : WindowsOf(panes, s)' = WindowsOf(T, s)
        /\ \A w : PanesOf(panes, w)' = PanesOf(T, w)
    BY <1>1 DEF SessionsOf, WindowsOf, PanesOf
  <1>5. /\ Handed(chosen.sessions, SessionsOf(T)) \subseteq SessionsOf(T)
        /\ T # {} => One(Handed(chosen.sessions, SessionsOf(T)))
    BY <1>1, <1>3, HandedOne DEF TreeInv, Active, SessionsOf
  <1>6. /\ \A s \in SessionsOf(T) : h[s] \subseteq P[s] /\ One(h[s])
        /\ \A s, t \in SessionsOf(T) : s # t => P[s] \cap P[t] = {}
    <2>1. ASSUME NEW s \in SessionsOf(T)
          PROVE  h[s] \subseteq P[s] /\ One(h[s])
      <3>1. s \in SessionsOf(panes) /\ WindowsOf(T, s) # {}
        BY <1>1 DEF SessionsOf, WindowsOf
      <3> QED BY <1>3, <3>1, HandedOne DEF TreeInv, Active
    <2>2. \A s, t \in SessionsOf(T) : s # t => P[s] \cap P[t] = {}
      BY <1>1 DEF TreeInv, Tree, WindowsOf
    <2> QED BY <2>1, <2>2
  <1>7. /\ \A w \in Windows : k[w] \subseteq Q[w] /\ One(k[w])
        /\ \A v, w \in Windows : v # w => Q[v] \cap Q[w] = {}
    <2>1. ASSUME NEW w \in Windows
          PROVE  k[w] \subseteq Q[w] /\ One(k[w])
      <3>1. /\ \E p \in panes : w = home[p].window
            /\ PanesOf(T, w) # {}
        BY <1>1 DEF PanesOf
      <3> QED BY <1>3, <3>1, HandedOne DEF TreeInv, Active
    <2>2. \A v, w \in Windows : v # w => Q[v] \cap Q[w] = {}
      BY DEF PanesOf
    <2> QED BY <2>1, <2>2
  <1>8. /\ \A s \in SessionsOf(T) : P[s] = WindowsOf(T, s)
        /\ \A w \in Windows : Q[w] = PanesOf(T, w)
        /\ \A s \in SessionsOf(T) : P[s] \subseteq Windows
        /\ \A w \in Windows : Q[w] \subseteq T
    BY DEF WindowsOf, PanesOf
  <1> HIDE DEF T, P, Q, h, k, Windows
  <1>9. /\ chosen'.windows = UNION {h[s] : s \in SessionsOf(T)}
        /\ chosen'.panes = UNION {k[w] : w \in Windows}
        /\ chosen'.sessions = Handed(chosen.sessions, SessionsOf(T))
    BY <1>1
  <1>10. \A s \in SessionsOf(T) : chosen'.windows \cap P[s] = h[s]
    BY <1>6, <1>9, Apart
  <1>11. \A w \in Windows : chosen'.panes \cap Q[w] = k[w]
    BY <1>7, <1>9, Apart
  <1>12. /\ chosen'.windows \subseteq Windows /\ chosen'.panes \subseteq T
    BY <1>6, <1>7, <1>8, <1>9
  <1>13. chosen' \in [sessions : SUBSET Nat, windows : SUBSET Nat, panes : SUBSET Nat]
    BY <1>1, <1>3, <1>5, <1>9, <1>12
  <1>14. (\A s \in SessionsOf(panes) : One(chosen.windows \cap WindowsOf(panes, s)))'
    <2>1. \A s \in SessionsOf(T) : One(chosen'.windows \cap WindowsOf(T, s))
      BY <1>6, <1>8, <1>10
    <2>2. ASSUME NEW s \in SessionsOf(panes)'
          PROVE  One(chosen'.windows \cap WindowsOf(panes, s)')
      <3>1. s \in SessionsOf(T) /\ WindowsOf(panes, s)' = WindowsOf(T, s)
        BY <1>4, <2>2
      <3> QED BY <2>1, <3>1, Zenon
    <2> QED BY <2>2
  <1>15. (\A p \in panes : One(chosen.panes \cap PanesOf(panes, home[p].window)))'
    <2>1. ASSUME NEW p \in T
          PROVE  One(chosen'.panes \cap Q[home[p].window])
      <3>1. home[p].window \in Windows
        BY DEF Windows
      <3>2. /\ One(k[home[p].window])
            /\ chosen'.panes \cap Q[home[p].window] = k[home[p].window]
        BY <1>7, <1>11, <3>1
      <3> QED BY <3>2, Zenon
    <2>2. ASSUME NEW p \in T
          PROVE  PanesOf(panes, home[p].window)' = Q[home[p].window]
      <3>1. PanesOf(panes, home[p].window)' = PanesOf(T, home[p].window)
        BY <1>1 DEF PanesOf
      <3>2. home[p].window \in Windows
        BY DEF Windows
      <3> QED BY <1>8, <3>1, <3>2
    <2> QED BY <1>1, <2>1, <2>2
  <1>16. Active'
    BY <1>1, <1>4, <1>5, <1>9, <1>12, <1>13, <1>14, <1>15 DEF Active
  <1> QED BY <1>2, <1>16 DEF TreeInv

(* A pane is added, with a name of its own: alone, as a new window of a    *)
(* session, or to a window.                                                *)
LEMMA AddedKeepsTree ==
    ASSUME Kept, TreeInv, NEW p, p = born + 1, NEW s, NEW w, NEW more,
           born < MaxPane, born' = p, panes' = panes \cup {p},
           home' = [home EXCEPT ![p] = [session |-> s, window |-> w]], chosen' = more,
           \/ s = p /\ w = p
              /\ more = [sessions |-> IF panes = {} THEN {p} ELSE chosen.sessions,
                         windows |-> chosen.windows \cup {p}, panes |-> chosen.panes \cup {p}]
           \/ w = p /\ more = [chosen EXCEPT !.panes = @ \cup {p}]
              /\ \E k \in panes : s = home[k].session
           \/ more = chosen /\ \E k \in panes : s = home[k].session /\ w = home[k].window
    PROVE  TreeInv'
  <1>1. /\ p \in Nat /\ p \in Pane /\ p \notin panes
        /\ \A q \in panes : /\ home[q].session \in Nat /\ home[q].window \in Nat /\ q \in Nat
                            /\ q # p /\ home[q].session # p /\ home[q].window # p
    BY NamesAreNumbers, HostedAssumption DEF TreeInv, Pane
  <1>2. /\ \A q \in panes : home'[q] = home[q]
        /\ home'[p].session = s /\ home'[p].window = w
    BY <1>1 DEF Kept
  <1>3. 1..born \subseteq 1..p /\ p \in 1..p
    BY <1>1, NamesAreNumbers DEF TreeInv
  <1>4. s \in 1..p /\ w \in 1..p
    BY <1>3 DEF TreeInv, Tree
  <1>5. Tree'
    <2>1. \A q \in panes' : home'[q].session \in 1..born' /\ home'[q].window \in 1..born'
      BY <1>2, <1>3, <1>4 DEF TreeInv, Tree
    <2>2. \A q \in panes : home[q].window = w => home[q].session = s
      BY <1>1 DEF TreeInv, Tree
    <2>3. \A q, r \in panes' : home'[q].window = home'[r].window => home'[q].session = home'[r].session
      BY <1>2, <2>2 DEF TreeInv, Tree
    <2> QED BY <2>1, <2>3 DEF Tree
  <1>6. /\ chosen' \in [sessions : SUBSET Nat, windows : SUBSET Nat, panes : SUBSET Nat]
        /\ chosen'.sessions = IF s = p /\ w = p /\ panes = {} THEN {p} ELSE chosen.sessions
        /\ chosen'.windows = IF s = p /\ w = p THEN chosen.windows \cup {p} ELSE chosen.windows
        /\ chosen'.panes = IF w = p THEN chosen.panes \cup {p} ELSE chosen.panes
    <2>1. chosen \in [sessions : SUBSET Nat, windows : SUBSET Nat, panes : SUBSET Nat]
      BY DEF TreeInv, Active
    <2>2. {p} \in SUBSET Nat
      BY <1>1
    <2>3. CASE s = p /\ w = p
      <3>1. chosen' = [sessions |-> IF panes = {} THEN {p} ELSE chosen.sessions,
                       windows |-> chosen.windows \cup {p}, panes |-> chosen.panes \cup {p}]
        BY <1>1, <2>3
      <3> QED BY <2>1, <2>2, <2>3, <3>1
    <2>4. CASE s # p /\ w = p
      <3>1. chosen' = [chosen EXCEPT !.panes = @ \cup {p}]
        BY <1>1, <2>4
      <3> QED BY <2>1, <2>2, <2>4, <3>1
    <2>5. CASE w # p
      <3>1. chosen' = chosen
        BY <2>5
      <3> QED BY <2>1, <2>5, <3>1
    <2> QED BY <2>3, <2>4, <2>5
  <1>7. /\ SessionsOf(panes)' = SessionsOf(panes) \cup {s}
        /\ {home[q].window : q \in panes}' = {home[q].window : q \in panes} \cup {w}
        /\ \A t : WindowsOf(panes, t)' = IF t = s THEN WindowsOf(panes, t) \cup {w} ELSE WindowsOf(panes, t)
        /\ \A v : PanesOf(panes, v)' = IF v = w THEN PanesOf(panes, v) \cup {p} ELSE PanesOf(panes, v)
    <2>1. SessionsOf(panes)' = SessionsOf(panes) \cup {s}
      BY <1>1, <1>2 DEF SessionsOf
    <2>2. {home[q].window : q \in panes}' = {home[q].window : q \in panes} \cup {w}
      BY <1>1, <1>2
    <2>3. ASSUME NEW t
          PROVE  WindowsOf(panes, t)' = IF t = s THEN WindowsOf(panes, t) \cup {w} ELSE WindowsOf(panes, t)
      BY <1>1, <1>2 DEF WindowsOf
    <2>4. ASSUME NEW v
          PROVE  PanesOf(panes, v)' = IF v = w THEN PanesOf(panes, v) \cup {p} ELSE PanesOf(panes, v)
      BY <1>1, <1>2 DEF PanesOf
    <2> QED BY <2>1, <2>2, <2>3, <2>4
  <1>8. /\ p \notin chosen.windows /\ p \notin chosen.panes
        /\ \A t : p \notin WindowsOf(panes, t)
        /\ \A v : p \notin PanesOf(panes, v)
        /\ WindowsOf(panes, p) = {} /\ PanesOf(panes, p) = {}
    BY <1>1 DEF TreeInv, Active, WindowsOf, PanesOf
  <1>9. /\ (chosen.sessions \subseteq SessionsOf(panes))'
        /\ (chosen.windows \subseteq {home[q].window : q \in panes})'
        /\ (chosen.panes \subseteq panes)'
        /\ (panes # {} => One(chosen.sessions))'
    <2>1. One({p})
      BY DEF One
    <2>2. (s = p /\ w = p) \/ panes # {}
      OBVIOUS
    <2>3. /\ chosen.sessions \subseteq SessionsOf(panes)
          /\ panes # {} => One(chosen.sessions)
          /\ chosen.windows \subseteq {home[q].window : q \in panes} /\ chosen.panes \subseteq panes
      BY DEF TreeInv, Active
    <2>4. chosen'.sessions \subseteq SessionsOf(panes)' /\ One(chosen'.sessions)
      <3>1. CASE s = p /\ w = p /\ panes = {}
        <4>1. chosen'.sessions = {p} /\ p \in SessionsOf(panes)'
          BY <1>6, <1>7, <3>1
        <4> QED BY <2>1, <4>1
      <3>2. CASE ~(s = p /\ w = p /\ panes = {})
        <4>1. chosen'.sessions = chosen.sessions /\ panes # {}
          BY <1>6, <2>2, <3>2
        <4>2. chosen.sessions \subseteq SessionsOf(panes) /\ One(chosen.sessions)
          BY <2>3, <4>1
        <4>3. SessionsOf(panes) \subseteq SessionsOf(panes)'
          BY <1>7
        <4> QED BY <4>1, <4>2, <4>3
      <3> QED BY <3>1, <3>2
    <2>5. /\ chosen'.windows \subseteq {home[q].window : q \in panes} \cup {w}
          /\ chosen'.panes \subseteq panes'
      BY <1>6, <2>3
    <2> QED BY <1>7, <2>4, <2>5
  <1>10. (\A t \in SessionsOf(panes) : One(chosen.windows \cap WindowsOf(panes, t)))'
    <2>1. ASSUME NEW t \in SessionsOf(panes)'
          PROVE  One(chosen'.windows \cap WindowsOf(panes, t)')
      <3>1. CASE s = p /\ w = p /\ t = p
        <4>1. WindowsOf(panes, t)' = {p} /\ chosen'.windows = chosen.windows \cup {p}
          BY <1>6, <1>7, <1>8, <3>1
        <4>2. chosen'.windows \cap WindowsOf(panes, t)' = {p}
          BY <4>1
        <4> QED BY <4>2 DEF One
      <3>2. CASE ~(s = p /\ w = p /\ t = p)
        <4>1. t \in SessionsOf(panes)
          <5>1. s # p => s \in SessionsOf(panes)
            BY DEF SessionsOf
          <5>2. s = p => w = p
            BY <1>1
          <5> QED BY <1>7, <2>1, <3>2, <5>1, <5>2
        <4>2. One(chosen.windows \cap WindowsOf(panes, t))
          BY <4>1 DEF TreeInv, Active
        <4>3. t = s => w = p \/ w \in WindowsOf(panes, t)
          BY <1>1, <3>2 DEF WindowsOf
        <4>4. s # p \/ t # s
          BY <1>1, <3>2
        <4>5. chosen'.windows \cap WindowsOf(panes, t)' = chosen.windows \cap WindowsOf(panes, t)
          <5>1. CASE t = s
            <6>1. chosen'.windows = chosen.windows
              BY <1>6, <4>4, <5>1
            <6>2. WindowsOf(panes, t)' = WindowsOf(panes, t) \cup {w}
              BY <1>7, <5>1
            <6> QED BY <1>8, <4>3, <5>1, <6>1, <6>2
          <5>2. CASE t # s
            <6>1. WindowsOf(panes, t)' = WindowsOf(panes, t)
              BY <1>7, <5>2
            <6>2. chosen'.windows \in {chosen.windows, chosen.windows \cup {p}} /\ p \notin WindowsOf(panes, t)
              BY <1>6, <1>8
            <6> QED BY <6>1, <6>2
          <5> QED BY <5>1, <5>2
        <4> QED BY <4>2, <4>5
      <3> QED BY <3>1, <3>2
    <2> QED BY <2>1
  <1>11. (\A q \in panes : One(chosen.panes \cap PanesOf(panes, home[q].window)))'
    <2>1. ASSUME NEW v, v = w \/ \E q \in panes : v = home[q].window
          PROVE  One(chosen'.panes \cap PanesOf(panes, v)')
      <3>1. CASE v = w /\ w = p
        <4>1. PanesOf(panes, v)' = {p} /\ chosen'.panes = chosen.panes \cup {p}
          BY <1>6, <1>7, <1>8, <3>1
        <4>2. chosen'.panes \cap PanesOf(panes, v)' = {p}
          BY <4>1
        <4> QED BY <4>2 DEF One
      <3>2. CASE ~(v = w /\ w = p)
        <4>1. PICK q \in panes : v = home[q].window
          BY <2>1, <3>2
        <4>2. One(chosen.panes \cap PanesOf(panes, v))
          BY <4>1 DEF TreeInv, Active
        <4>3. chosen'.panes \cap PanesOf(panes, v)' = chosen.panes \cap PanesOf(panes, v)
          <5>1. CASE v = w
            <6>1. chosen'.panes = chosen.panes /\ PanesOf(panes, v)' = PanesOf(panes, v) \cup {p}
              BY <1>6, <1>7, <3>2, <5>1
            <6> QED BY <1>8, <6>1
          <5>2. CASE v # w
            <6>1. PanesOf(panes, v)' = PanesOf(panes, v)
              BY <1>7, <5>2
            <6>2. chosen'.panes \in {chosen.panes, chosen.panes \cup {p}} /\ p \notin PanesOf(panes, v)
              BY <1>6, <1>8
            <6> QED BY <6>1, <6>2
          <5> QED BY <5>1, <5>2
        <4> QED BY <4>2, <4>3
      <3> QED BY <3>1, <3>2
    <2>2. ASSUME NEW q \in panes'
          PROVE  One(chosen'.panes \cap PanesOf(panes, home[q].window)')
      <3> DEFINE v == home'[q].window
      <3>1. v = w \/ \E r \in panes : v = home[r].window
        BY <1>2
      <3>2. PanesOf(panes, home[q].window)' = {r \in panes' : home'[r].window = v}
        BY DEF PanesOf
      <3> HIDE DEF v
      <3>3. PICK u : u = v
        OBVIOUS
      <3>4. One(chosen'.panes \cap PanesOf(panes, u)')
        BY <2>1, <3>1, <3>3
      <3>5. PanesOf(panes, u)' = {r \in panes' : home'[r].window = u}
        BY DEF PanesOf
      <3> QED BY <3>2, <3>3, <3>4, <3>5
    <2> QED BY <2>2
  <1> QED BY <1>5, <1>6, <1>9, <1>10, <1>11 DEF TreeInv, Active

LEMMA ChosenKeepsTree ==
    ASSUME Kept, TreeInv, NEW k \in panes,
           chosen' = [chosen EXCEPT !.panes = (@ \ PanesOf(panes, home[k].window)) \cup {k}],
           UNCHANGED <<panes, home, born>>
    PROVE  TreeInv'
  <1> DEFINE w == home[k].window
  <1>1. k \in Nat /\ k \in PanesOf(panes, w) /\ PanesOf(panes, w) \subseteq panes
    BY NamesAreNumbers DEF TreeInv, PanesOf
  <1>2. /\ chosen' \in [sessions : SUBSET Nat, windows : SUBSET Nat, panes : SUBSET Nat]
        /\ chosen'.sessions = chosen.sessions /\ chosen'.windows = chosen.windows
        /\ chosen'.panes = (chosen.panes \ PanesOf(panes, w)) \cup {k}
    <2>1. chosen \in [sessions : SUBSET Nat, windows : SUBSET Nat, panes : SUBSET Nat]
      BY DEF TreeInv, Active
    <2>2. (chosen.panes \ PanesOf(panes, w)) \cup {k} \in SUBSET Nat
      BY <1>1, <2>1
    <2> QED BY <2>1, <2>2
  <1>3. Tree'
    BY DEF TreeInv, Tree
  <1>4. (\A q \in panes : One(chosen.panes \cap PanesOf(panes, home[q].window)))'
    <2>1. ASSUME NEW q \in panes
          PROVE  One(chosen'.panes \cap PanesOf(panes, home[q].window))
      <3>1. CASE home[q].window = w
        <4>1. chosen'.panes \cap PanesOf(panes, home[q].window) = {k}
          BY <1>1, <1>2, <3>1
        <4> QED BY <4>1 DEF One
      <3>2. CASE home[q].window # w
        <4>1. PanesOf(panes, home[q].window) \cap PanesOf(panes, w) = {}
          BY <3>2 DEF PanesOf
        <4>2. chosen'.panes \cap PanesOf(panes, home[q].window) = chosen.panes \cap PanesOf(panes, home[q].window)
          BY <1>1, <1>2, <4>1
        <4> QED BY <4>2 DEF TreeInv, Active
      <3> QED BY <3>1, <3>2
    <2> QED BY <2>1 DEF PanesOf
  <1>5. /\ (chosen.sessions \subseteq SessionsOf(panes))'
        /\ (\A s \in SessionsOf(panes) : One(chosen.windows \cap WindowsOf(panes, s)))'
    <2>1. /\ SessionsOf(panes)' = SessionsOf(panes)
          /\ \A s : WindowsOf(panes, s)' = WindowsOf(panes, s)
      BY DEF SessionsOf, WindowsOf
    <2> QED BY <1>2, <2>1 DEF TreeInv, Active
  <1>6. /\ (chosen.windows \subseteq {home[q].window : q \in panes})'
        /\ (chosen.panes \subseteq panes)'
        /\ (panes # {} => One(chosen.sessions))'
    BY <1>2 DEF TreeInv, Active
  <1> QED BY <1>2, <1>3, <1>4, <1>5, <1>6 DEF TreeInv, Active

LEMMA SameTree ==
    ASSUME TreeInv, UNCHANGED <<panes, home, born, chosen>>
    PROVE  TreeInv'
  BY DEF TreeInv, Tree, Active, SessionsOf, WindowsOf, PanesOf

LEMMA DoesKeepsTree ==
    ASSUME Kept, TreeInv, NEW op, NEW k \in Pane, Does(op, k)
    PROVE  TreeInv'
  <1> DEFINE p == born + 1
             s == home[k].session
             w == home[k].window
  <1>1. ASSUME NEW a, NEW b, NEW more, AddPane(a, b, more)
        PROVE  \/ UNCHANGED <<treeVars, shell, sock>>
               \/ /\ born < MaxPane /\ born' = p /\ panes' = panes \cup {p} /\ chosen' = more
                  /\ home' = [home EXCEPT ![p] = [session |-> a, window |-> b]]
    BY <1>1 DEF AddPane
  <1>2. CASE UNCHANGED <<treeVars, shell, sock>>
    BY <1>2, SameTree DEF treeVars
  <1> HIDE DEF p, s, w
  <1>3. p = born + 1
    BY DEF p
  <1>4. CASE op = "session" /\ AddPane(p, p, [sessions |-> IF panes = {} THEN {p} ELSE chosen.sessions,
                 windows |-> chosen.windows \cup {p}, panes |-> chosen.panes \cup {p}])
    <2>1. PICK more :
            /\ more = [sessions |-> IF panes = {} THEN {p} ELSE chosen.sessions,
                       windows |-> chosen.windows \cup {p}, panes |-> chosen.panes \cup {p}]
            /\ AddPane(p, p, more)
      BY <1>4
    <2>2. \/ UNCHANGED <<treeVars, shell, sock>>
          \/ /\ born < MaxPane /\ born' = p /\ panes' = panes \cup {p} /\ chosen' = more
             /\ home' = [home EXCEPT ![p] = [session |-> p, window |-> p]]
      BY <1>1, <2>1
    <2> QED BY <1>2, <1>3, <2>1, <2>2, AddedKeepsTree
  <1>5. CASE k \in panes /\ AddPane(s, p, [chosen EXCEPT !.panes = @ \cup {p}])
    <2> DEFINE more == [chosen EXCEPT !.panes = @ \cup {p}]
    <2> HIDE DEF more
    <2>1. more = [chosen EXCEPT !.panes = @ \cup {p}] /\ s = home[k].session
      BY DEF more, s
    <2>2. \/ UNCHANGED <<treeVars, shell, sock>>
          \/ /\ born < MaxPane /\ born' = p /\ panes' = panes \cup {p} /\ chosen' = more
             /\ home' = [home EXCEPT ![p] = [session |-> s, window |-> p]]
      BY <1>1, <1>5 DEF more
    <2> QED BY <1>2, <1>5, <1>3, <2>1, <2>2, AddedKeepsTree
  <1>6. CASE k \in panes /\ AddPane(s, w, chosen)
    <2>1. s = home[k].session /\ w = home[k].window
      BY DEF s, w
    <2>2. \/ UNCHANGED <<treeVars, shell, sock>>
          \/ /\ born < MaxPane /\ born' = p /\ panes' = panes \cup {p} /\ chosen' = chosen
             /\ home' = [home EXCEPT ![p] = [session |-> s, window |-> w]]
      BY <1>1, <1>6
    <2> QED BY <1>2, <1>6, <1>3, <2>1, <2>2, AddedKeepsTree
  <1>7. CASE \E S : Prune(S)
    BY <1>7, TakenKeepsTree DEF Prune
  <1>8. CASE /\ k \in panes
             /\ chosen' = [chosen EXCEPT !.panes = (@ \ PanesOf(panes, w)) \cup {k}]
             /\ UNCHANGED <<panes, home, born>>
    BY <1>8, ChosenKeepsTree DEF w
  <1> QED BY <1>2, <1>4, <1>5, <1>6, <1>7, <1>8 DEF Does, p, s, w

LEMMA TreeInit ==
    ASSUME ShellInit
    PROVE  TreeInv
  BY DEF ShellInit, TreeInv, Tree, Active, SessionsOf

LEMMA TreeStep ==
    ASSUME ShellInv, TreeInv, [ShellNext]_shellVars
    PROVE  TreeInv'
  <1>1. Kept
    BY DEF ShellInv
  <1>2. CASE UNCHANGED treeVars
    BY <1>2, SameTree DEF treeVars
  <1>3. \A k \in 1..born \cup {1} : k \in Pane
    <2>1. born \in 0..MaxPane /\ MaxPane \in Nat \ {0}
      BY HostedAssumption, <1>1 DEF Kept
    <2> QED BY <2>1 DEF Pane
  <1>4. CASE \E c \in Call : CallArrives(c) \/ CallResumes(c)
    <2>1. \A c \in Call : call[c].at \in Pane
      BY DEF ShellInv, Asked
    <2> QED BY <1>1, <1>2, <1>3, <1>4, <2>1, DoesKeepsTree DEF CallArrives, CallResumes
  <1>5. CASE \E p \in Pane : ShellExits(p)
    BY <1>1, <1>5, SameTree, TakenKeepsTree DEF ShellExits
  <1>6. CASE Reap
    BY <1>1, <1>6, TakenKeepsTree DEF Reap, Prune
  <1>7. CASE HostDestroyed
    BY <1>7 DEF HostDestroyed, TreeInv, Tree, Active, SessionsOf
  <1>8. CASE UNCHANGED shellVars
    BY <1>2, <1>8 DEF shellVars
  <1>9. CASE ShellNext
    <2>1. CASE \E c \in Call : CallLeaves(c)
      BY <1>2, <2>1 DEF CallLeaves
    <2>2. CASE \E s \in Sock : SocketArrives(s) \/ SocketResumes(s) \/ SocketCloses(s) \/ Focus(s)
      BY <1>2, <2>2 DEF SocketArrives, SocketResumes, SocketCloses, Focus
    <2>3. CASE \E p \in Pane : KillTimer(p) \/ Expires(p) \/ Output(p)
      BY <1>2, <2>3 DEF KillTimer, Expires, Output
    <2>4. CASE Detected \/ FactsAreOld
      BY <1>2, <2>4 DEF Detected, FactsAreOld
    <2> QED BY <1>4, <1>5, <1>6, <1>7, <1>9, <2>1, <2>2, <2>3, <2>4 DEF ShellNext
  <1> QED BY <1>8, <1>9

(* At every level exactly one is active, whichever order panes, windows    *)
(* and sessions are closed, exit and expire in (ssh-provider.js).          *)
THEOREM ExactlyOneIsActive == ShellSpec => []OneIsActive
  <1>1. ShellSpec => []TreeInv
    <2>1. ShellInit => TreeInv
      BY TreeInit
    <2>2. ShellInv /\ TreeInv /\ [ShellNext]_shellVars => TreeInv'
      BY TreeStep
    <2> QED BY <2>1, <2>2, HostedInvariant, PTL DEF ShellSpec
  <1>2. TreeInv => OneIsActive
    <2>1. \A S : One(S) => Cardinality(S) = 1
      BY FS_Singleton DEF One
    <2> QED BY <2>1 DEF TreeInv, Active, OneIsActive
  <1> QED BY <1>1, <1>2, PTL

=============================================================================
