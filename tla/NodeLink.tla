------------------------------ MODULE NodeLink ------------------------------
(***************************************************************************)
(* The link from the hub to a node: NodeLink of lib/hub/node-link.js.  It  *)
(* reads the node's pairing file over ssh, keeps one ssh port forward (the *)
(* tunnel) and sends requests through it, or straight to the node's own    *)
(* listener (direct) once a check found that way.                          *)
(*                                                                         *)
(* A request keeps the tunnel it was sent over, and its answer, error or   *)
(* stall may come when that one is long replaced.  The ssh child may exit  *)
(* at any time, also between answering on its port and becoming the        *)
(* tunnel, when nobody listens for its exit.                               *)
(*                                                                         *)
(* Abstracted: headers, TLS and its sessions, pools and the lengths of     *)
(* time limits; what runs elsewhere for a link (adopt) ends with it like a *)
(* stream and is modelled in MoshTerminals.                                *)
(***************************************************************************)
EXTENDS Naturals, FiniteSets

CONSTANTS
    MaxLink,    \* bound: links the pool makes, each used once
    Req,        \* requests in flight at once; an id is used again
    Health,     \* the one of them the health check sends: info()
    MaxForward, \* bound: ssh forwards
    MaxInstall  \* bound: installations of the panel on the machine

ASSUME LinkAssumption ==
    /\ Health \in Req
    /\ MaxLink \in Nat \ {0} /\ MaxForward \in Nat /\ MaxInstall \in Nat

Link == 1..MaxLink

VARIABLES
    link,       \* Link -> what the object holds
    req,        \* Req -> the request and how far it is
    running,    \* ssh children that run and were not told to end
    opened,     \* how many forwards were started
    installed   \* the machine's installation, whose pairing file is there; 0 for none

linkVars == <<link, req, running, opened, installed>>

(* attempt: where _connect is (absent: no pairing file was found); with is *)
(* the pairing it goes on with and forward its ssh child.                  *)
Links == [closed : BOOLEAN, pairing : 0..MaxInstall, tunnel : 0..MaxForward,
          attempt : {"none", "pairing", "read", "absent", "listen"}, with : 0..MaxInstall,
          forward : 0..MaxForward, direct : {"none", "checking", "up", "down"},
          generation : Nat]

(* mode: waits for LinkPool.mode; routed, basic: what mode said; ensure:   *)
(* waits for the tunnel; sent: on its way; asked: the node has it; stream: *)
(* an accepted upgrade.  over, by and gen: the tunnel, the pairing and the *)
(* link's generation it was sent with; times: how often the node got it.   *)
Reqs == [stage : {"idle", "mode", "routed", "basic", "ensure", "sent", "asked", "stream"},
         kind : {"read", "write", "upgrade", "info"}, link : Link,
         over : 0..MaxForward, by : 0..MaxInstall, gen : Nat,
         direct : BOOLEAN, again : BOOLEAN, times : Nat]

Fresh == [closed |-> FALSE, pairing |-> 0, tunnel |-> 0, attempt |-> "none",
          with |-> 0, forward |-> 0, direct |-> "none", generation |-> 0]

Ready(k) == k.tunnel # 0 /\ k.pairing # 0

(* _dropTunnel. *)
Dropped(k) == [k EXCEPT !.tunnel = 0]

(* Broken variant: the tunnel stays. *)
ForgottenHalf(k) == [k EXCEPT !.pairing = 0, !.direct = "none", !.generation = @ + 1]

(* reset. *)
Forgotten(k) ==
    [k EXCEPT !.tunnel = 0, !.pairing = 0, !.direct = "none", !.generation = @ + 1]

Shut(k) == [Forgotten(k) EXCEPT !.closed = TRUE]

Idle == [stage |-> "idle", kind |-> "read", link |-> 1, over |-> 0,
         by |-> 0, gen |-> 0, direct |-> FALSE, again |-> FALSE, times |-> 0]


(* Whether the link still has the tunnel the request went over. *)
OnCurrent(r) == link[req[r].link].tunnel = req[r].over

(* Broken variant: no answer resets the link. *)
ResetNever(r) == req' = [req EXCEPT ![r] = Idle] /\ UNCHANGED <<link, running>>

(* _resetIfCurrent, for a request that ends with it: the streams of the    *)
(* link end too, and the ssh child is told to go.                          *)
ResetIfCurrent(r) ==
    LET l == req[r].link IN
    IF OnCurrent(r)
    THEN /\ link' = [link EXCEPT ![l] = Forgotten(@)]
         /\ running' = running \ {link[l].tunnel}
         /\ req' = [s \in Req |->
              IF s = r \/ (req[s].stage = "stream" /\ req[s].link = l) THEN Idle ELSE req[s]]
    ELSE req' = [req EXCEPT ![r] = Idle] /\ UNCHANGED <<link, running>>

LinkInit ==
    /\ link = [l \in Link |-> Fresh]
    /\ req = [r \in Req |-> Idle]
    /\ running = {} /\ opened = 0
    /\ installed \in 0..MaxInstall

-----------------------------------------------------------------------------
(* Connecting *)

(* ensure() with no attempt under way: _connect reads the pairing file     *)
(* unless it still has what it read before.                                *)
Connecting(k) ==
    IF k.attempt # "none" THEN k
    ELSE [k EXCEPT !.attempt = IF k.pairing = 0 THEN "pairing" ELSE "read", !.with = k.pairing]

Waiting(l) == {r \in Req : req[r].link = l /\ req[r].stage \in {"mode", "ensure"}}

NoAttempt(k) == [k EXCEPT !.attempt = "none", !.with = 0, !.forward = 0]

(* Broken variant: who asked first does not learn that the attempt failed. *)
FailsQuietly(l) == link' = [link EXCEPT ![l] = NoAttempt(@)] /\ UNCHANGED req

(* The attempt failed: everyone who shared it is told. *)
Fails(l) ==
    /\ link' = [link EXCEPT ![l] = NoAttempt(@)]
    /\ req' = [r \in Req |-> IF r \in Waiting(l) THEN Idle ELSE req[r]]

ReadPairing(l) ==
    /\ link[l].attempt = "pairing"
    /\ link' = [link EXCEPT ![l] =
         [@ EXCEPT !.attempt = IF installed = 0 THEN "absent" ELSE "read", !.with = installed]]
    /\ UNCHANGED <<req, running, opened, installed>>

(* ssh failed, or the file speaks another protocol. *)
PairingFails(l) ==
    /\ link[l].attempt \in {"pairing", "read"}
    /\ Fails(l)
    /\ UNCHANGED <<running, opened, installed>>

OpenForward(l) ==
    /\ link[l].attempt = "read"
    /\ opened < MaxForward
    /\ link' = [link EXCEPT ![l] = [@ EXCEPT !.attempt = "listen", !.forward = opened + 1]]
    /\ opened' = opened + 1
    /\ running' = running \cup {opened + 1}
    /\ UNCHANGED <<req, installed>>

Connected(k) == [NoAttempt(k) EXCEPT !.pairing = k.with, !.tunnel = k.forward]

(* Broken variant: nobody looks whether the link was closed meanwhile. *)
ListenerUpAnyway(l) ==
    /\ link[l].attempt = "listen"
    /\ link' = [link EXCEPT ![l] = Connected(@)]
    /\ req' = [r \in Req |-> IF req[r].link = l /\ req[r].stage = "mode"
                            THEN [req[r] EXCEPT !.stage = "routed"] ELSE req[r]]
    /\ UNCHANGED <<running, opened, installed>>

(* The port answered.  A child that exited just before is not noticed: its *)
(* exit came before anyone listened for it.                                *)
ListenerUp(l) ==
    /\ link[l].attempt = "listen" /\ ~link[l].closed
    /\ link' = [link EXCEPT ![l] = Connected(@)]
    /\ req' = [r \in Req |-> IF req[r].link = l /\ req[r].stage = "mode"
                            THEN [req[r] EXCEPT !.stage = "routed"] ELSE req[r]]
    /\ UNCHANGED <<running, opened, installed>>

(* It did not come up in time, the child exited first, or the link was     *)
(* closed meanwhile: the child is told to go.                              *)
ListenerFails(l) ==
    /\ link[l].attempt = "listen"
    /\ running' = running \ {link[l].forward}
    /\ Fails(l)
    /\ UNCHANGED <<opened, installed>>

(* An ssh child exits.  Only a tunnel's exit is listened for. *)
ChildExits(f) ==
    /\ f \in running
    /\ running' = running \ {f}
    /\ link' = [l \in Link |-> IF link[l].tunnel = f THEN Dropped(link[l]) ELSE link[l]]
    /\ UNCHANGED <<req, opened, installed>>

-----------------------------------------------------------------------------
(* Requests *)

(* _route: the forward, or the direct way when the server asks for it and  *)
(* the check confirmed it; else a check may start in the background.  The  *)
(* hub's own requests take the forward.                                    *)
Send(r, l) ==
    LET routed == req[r].kind # "info" IN
    \E d \in IF routed /\ link[l].direct = "up" THEN BOOLEAN ELSE {FALSE} :
    \E check \in IF routed /\ link[l].direct \in {"none", "down"} THEN BOOLEAN ELSE {FALSE} :
      /\ req' = [req EXCEPT ![r] =
           [@ EXCEPT !.stage = "sent", !.link = l, !.over = link[l].tunnel, !.by = link[l].pairing,
                     !.gen = link[l].generation, !.direct = d, !.again = FALSE]]
      /\ link' = IF check THEN [link EXCEPT ![l] = [@ EXCEPT !.direct = "checking"]] ELSE link

(* proxy, proxyUpgrade and info once their ensure() resolved. *)
EnsureResolved(r) ==
    /\ req[r].stage = "ensure"
    /\ Ready(link[req[r].link])
    /\ Send(r, req[r].link)
    /\ UNCHANGED <<running, opened, installed>>

(* The check of the direct way, which needs the node's certificate. *)
DirectChecked(l) ==
    /\ link[l].direct = "checking"
    /\ \E up \in BOOLEAN :
         /\ up => link[l].pairing = installed
         /\ link' = [link EXCEPT ![l] = [@ EXCEPT !.direct = IF up THEN "up" ELSE "down"]]
    /\ UNCHANGED <<req, running, opened, installed>>

(* _directFailed for the way the request took, which may have been put     *)
(* aside for a newer one meanwhile.                                        *)
DirectFailed(l) ==
    \E d \in {link[l].direct} \cup (IF link[l].direct = "up" THEN {"down"} ELSE {}) :
      link' = [link EXCEPT ![l] = [@ EXCEPT !.direct = d]]

(* The way the request took still leads to the node: the forward while its *)
(* child runs, the direct way while the certificate is the one pinned.     *)
Carries(r) == IF req[r].direct THEN req[r].by = installed
              ELSE req[r].over \in running /\ OnCurrent(r)

Reaches(r) ==
    /\ req[r].stage = "sent" /\ Carries(r)
    /\ req' = [req EXCEPT ![r] = [req[r] EXCEPT !.stage = "asked", !.times = @ + 1]]
    /\ UNCHANGED <<link, running, opened, installed>>

(* Broken variant: an upgrade is bridged wherever the link is by then. *)
AnswersAnyTime(r) ==
    /\ req[r].stage = "asked" /\ req[r].by = installed
    /\ req' = [req EXCEPT ![r].stage = IF req[r].kind = "upgrade" THEN "stream" ELSE "idle"]
    /\ UNCHANGED <<link, running, opened, installed>>

(* The answer to a request whose token still holds.  An upgrade becomes a  *)
(* stream, unless the link moved on since it was sent.                     *)
Answers(r) ==
    /\ req[r].stage = "asked" /\ req[r].by = installed
    /\ IF req[r].kind = "upgrade" /\ ~link[req[r].link].closed /\ OnCurrent(r)
       THEN req' = [req EXCEPT ![r].stage = "stream"]
       ELSE req' = [req EXCEPT ![r] = Idle]
    /\ UNCHANGED <<link, running, opened, installed>>

(* The node was installed anew: the token is refused (401), or before      *)
(* anything is sent the certificate.                                       *)
Rejected(r) ==
    /\ \/ req[r].stage = "asked"
       \/ req[r].stage = "sent" /\ Carries(r) /\ ~req[r].direct
    /\ req[r].by # installed
    /\ ResetIfCurrent(r)
    /\ UNCHANGED <<opened, installed>>

(* Broken variant: whatever failed is sent once more. *)
RepeatsAll(r) == OnCurrent(r) /\ ~req[r].again

(* Sent once more: a read or the health check on a new connection of the   *)
(* forward, and on the direct way only what never reached the node or may  *)
(* be repeated.                                                            *)
Repeats(r) ==
    /\ OnCurrent(r) /\ ~req[r].again
    /\ \/ req[r].kind \in {"read", "info"}
       \/ req[r].kind = "upgrade" /\ req[r].direct /\ req[r].stage = "sent"

Resent(r) == [req EXCEPT ![r] = [@ EXCEPT !.stage = "sent", !.direct = FALSE, !.again = TRUE]]

(* The connection is refused, reset or closed. *)
Breaks(r) ==
    /\ req[r].stage \in {"sent", "asked"}
    /\ IF Repeats(r)
       THEN /\ req' = Resent(r)
            /\ IF req[r].direct THEN DirectFailed(req[r].link) ELSE UNCHANGED link
            /\ UNCHANGED running
       ELSE IF req[r].kind = "info"
       THEN ResetIfCurrent(r)
       ELSE /\ req' = [req EXCEPT ![r] = Idle]
            /\ IF req[r].direct THEN DirectFailed(req[r].link) ELSE UNCHANGED link
            /\ UNCHANGED running
    /\ UNCHANGED <<opened, installed>>

(* No connection in time.  On the forward it is taken for dead, unless     *)
(* this was the second try; the direct way leaves the forward to be asked. *)
ConnectStalls(r) ==
    /\ req[r].stage = "sent" /\ req[r].kind # "info" /\ Carries(r)
    /\ IF req[r].direct
       THEN /\ req' = IF Repeats(r) THEN Resent(r) ELSE [req EXCEPT ![r] = Idle]
            /\ DirectFailed(req[r].link)
            /\ UNCHANGED running
       ELSE /\ req' = [req EXCEPT ![r] = Idle]
            /\ IF ~req[r].again \/ req[r].kind = "upgrade"
               THEN /\ link' = [link EXCEPT ![req[r].link] = Dropped(@)]
                    /\ running' = running \ {req[r].over}
               ELSE UNCHANGED <<link, running>>
    /\ UNCHANGED <<opened, installed>>

(* The answer does not come in time, or the browser leaves.  The hub waits *)
(* for its own question until it is sent.                                  *)
Abandoned(r) ==
    /\ \/ req[r].stage = "asked"
       \/ req[r].stage = "sent" /\ (Carries(r) \/ req[r].kind # "info")
       \/ req[r].stage \in {"mode", "ensure"} /\ req[r].kind # "info"
    /\ req' = [req EXCEPT ![r] = Idle]
    /\ UNCHANGED <<link, running, opened, installed>>

StreamEnds(r) ==
    /\ req[r].stage = "stream"
    /\ req' = [req EXCEPT ![r] = Idle]
    /\ UNCHANGED <<link, running, opened, installed>>

(* Promise continuations run before any timer or event. *)
Resumes(r) == req[r].stage \in {"routed", "basic"} \/ (req[r].stage = "ensure" /\ Ready(link[req[r].link]))

Quiescent == ~ \E r \in Req : Resumes(r)

(* _connect moves on; LinkPool has what follows when nothing is installed. *)
Connects(l) ==
    Quiescent /\ (ReadPairing(l) \/ PairingFails(l) \/ OpenForward(l)
                  \/ ListenerUp(l) \/ ListenerFails(l))

Advances(r) ==
    \/ EnsureResolved(r)
    \/ Quiescent /\ (Reaches(r) \/ Answers(r) \/ Rejected(r) \/ Breaks(r)
                     \/ ConnectStalls(r) \/ Abandoned(r))

LinkStep ==
    \/ \E l \in Link : Connects(l) \/ (Quiescent /\ DirectChecked(l))
    \/ \E f \in running : Quiescent /\ ChildExits(f)
    \/ \E r \in Req : Advances(r) \/ (Quiescent /\ StreamEnds(r))

=============================================================================
