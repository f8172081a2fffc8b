--------------------------- MODULE LinkPoolProofs ---------------------------
(***************************************************************************)
(* The link pool and its links, proved for any number of links, requests,  *)
(* forwards, installations and edits.                                      *)
(*                                                                         *)
(* What a step makes of a link (Becomes): it may lose its tunnel, take the *)
(* forward it waited for as its tunnel, and never comes back to a tunnel   *)
(* it had.  So a request whose tunnel is still its link's was sent in the  *)
(* link's generation, with its pairing.                                    *)
(***************************************************************************)
EXTENDS LinkPool, TLAPS

(* The link k when n forwards were started. *)
Sane(k, n) ==
    /\ k \in Links
    /\ k.tunnel # 0 => k.pairing # 0 /\ ~k.closed
    /\ k.forward # 0 <=> k.attempt = "listen"
    /\ k.attempt # "none" => k.tunnel = 0 /\ k.pairing \in {0, k.with}
    /\ k.attempt = "pairing" => k.pairing = 0
    /\ k.attempt \in {"read", "listen"} => k.with # 0
    /\ k.tunnel <= n /\ k.forward <= n

Backs(k, f) == \/ k.tunnel = f /\ ~k.closed
               \/ k.attempt = "listen" /\ k.forward = f

LinksOK ==
    /\ opened \in 0..MaxForward /\ running \subseteq 1..opened
    /\ installed \in 0..MaxInstall
    /\ link \in [Link -> Links]
    /\ \A l \in Link : Sane(link[l], opened)
    /\ \A l, m \in Link : link[l].forward # 0 =>
         link[l].forward # link[m].tunnel /\ (l # m => link[l].forward # link[m].forward)
    /\ NoStrayForward

Repeatable(q) == q.kind \in {"read", "info"}

(* How often the node may have got the request. *)
Times(q) ==
    /\ q.stage \in {"idle", "mode", "routed", "basic", "ensure"} => q.times = 0
    /\ q.stage = "sent" => q.times <= IF q.again /\ Repeatable(q) THEN 1 ELSE 0
    /\ q.stage \in {"asked", "stream"} => q.times <= IF q.again /\ Repeatable(q) THEN 2 ELSE 1

(* The request q over the links L, when n forwards were started and m      *)
(* links made.                                                             *)
ReqOK(q, L, n, m) ==
    /\ q \in Reqs /\ q.link <= m /\ q.over <= n /\ Times(q)
    /\ q.stage \in {"sent", "asked"} =>
         /\ q.over # 0 /\ q.by # 0 /\ \A l \in Link : q.over # L[l].forward
         /\ L[q.link].tunnel = q.over => q.gen = L[q.link].generation /\ q.by = L[q.link].pairing
    /\ q.stage = "stream" =>
         /\ q.gen = L[q.link].generation /\ q.by = L[q.link].pairing /\ q.by # 0
         /\ ~L[q.link].closed

ReqsOK == req \in [Req -> Reqs] /\ \A r \in Req : ReqOK(req[r], link, opened, made)

PoolOK ==
    /\ server \in Servers \cup {NoServer} /\ edit \in Servers \cup {NoServer, NoEdit}
    /\ fields \in 1..MaxFields
    /\ entry \in Entries \cup {NoEntry} /\ made \in Link /\ job \in Jobs
    /\ entry # NoEntry => entry.link <= made
    /\ \A l \in Link : l > made => link[l] = Fresh
    /\ PoolOwnsLinks

JobOK ==
    /\ job.link <= made
    /\ job.stage # "idle" /\ entry # NoEntry /\ entry.link = job.link => entry.fields = job.fields

PoolInv == LinksOK /\ ReqsOK /\ PoolOK /\ JobOK

-----------------------------------------------------------------------------
(* What becomes of a link *)

(* The link k becomes m, while the children of R go on.                    *)
Becomes(k, m, R) ==
    /\ Sane(m, opened)
    /\ m.tunnel \in {0, k.tunnel, k.forward} /\ m.forward \in {0, k.forward}
    /\ m.tunnel # 0 /\ m.tunnel = k.tunnel => m.generation = k.generation /\ m.pairing = k.pairing
    /\ \A f \in R : Backs(k, f) => Backs(m, f)

(* The streams over k need not end.                                        *)
Quiet(k, m) ==
    /\ m.generation = k.generation /\ m.closed = k.closed
    /\ k.pairing # 0 => m.pairing = k.pairing

LEMMA Numbers ==
    ASSUME LinksOK
    PROVE  /\ opened \in Nat /\ MaxForward \in Nat /\ 0 \notin running
           /\ \A f \in running : f \in Nat /\ f # 0 /\ f <= opened
           /\ MaxLink \in Nat \ {0} /\ MaxInstall \in Nat /\ 1 \in Link
           /\ \A l \in Link : l \in Nat
  BY LinkAssumption DEF LinksOK, Link

LEMMA FieldsOf ==
    ASSUME NEW k \in Links
    PROVE  /\ k.closed \in BOOLEAN /\ k.pairing \in 0..MaxInstall /\ k.tunnel \in 0..MaxForward
           /\ k.attempt \in {"none", "pairing", "read", "absent", "listen"}
           /\ k.with \in 0..MaxInstall /\ k.forward \in 0..MaxForward /\ k.generation \in Nat
           /\ k.direct \in {"none", "checking", "up", "down"}
  BY DEF Links

LEMMA Same ==
    ASSUME LinksOK, NEW l \in Link, NEW R
    PROVE  Becomes(link[l], link[l], R) /\ Quiet(link[l], link[l])
  BY DEF Becomes, Quiet, LinksOK

(* The link loses its tunnel, whose child is told to go.                   *)
LEMMA Lost ==
    ASSUME LinksOK, NEW l \in Link, NEW R, link[l].tunnel \notin R
    PROVE  /\ Becomes(link[l], Dropped(link[l]), R) /\ Quiet(link[l], Dropped(link[l]))
           /\ Becomes(link[l], Forgotten(link[l]), R) /\ Forgotten(link[l]).closed = link[l].closed
           /\ Becomes(link[l], Shut(link[l]), R) /\ Shut(link[l]).closed
  <1> DEFINE k == link[l]
  <1>1. Sane(k, opened) /\ k \in Links
    BY DEF LinksOK
  <1>2. 0 \in 0..MaxInstall /\ 0 \in 0..MaxForward /\ opened \in Nat
    BY Numbers
  <1> HIDE DEF k
  <1>3. /\ Dropped(k) \in Links /\ Dropped(k).tunnel = 0 /\ Dropped(k).pairing = k.pairing
        /\ Dropped(k).forward = k.forward /\ Dropped(k).attempt = k.attempt /\ Dropped(k).with = k.with
        /\ Dropped(k).generation = k.generation /\ Dropped(k).closed = k.closed
    BY <1>1, <1>2 DEF Dropped, Links
  <1>4. /\ Forgotten(k) \in Links /\ Forgotten(k).tunnel = 0 /\ Forgotten(k).pairing = 0
        /\ Forgotten(k).forward = k.forward /\ Forgotten(k).attempt = k.attempt
        /\ Forgotten(k).with = k.with /\ Forgotten(k).closed = k.closed
    <2>1. k.generation \in Nat /\ k.generation + 1 \in Nat
      BY <1>1 DEF Links
    <2> QED BY <1>1, <1>2, <2>1 DEF Forgotten, Links
  <1>5. /\ Shut(k) \in Links /\ Shut(k).tunnel = 0 /\ Shut(k).pairing = 0
        /\ Shut(k).forward = k.forward /\ Shut(k).attempt = k.attempt
        /\ Shut(k).with = k.with /\ Shut(k).closed
    BY <1>4 DEF Shut, Links
  <1>6. /\ Becomes(k, Dropped(k), R) /\ Becomes(k, Forgotten(k), R) /\ Becomes(k, Shut(k), R)
    <2>1. ASSUME NEW m \in Links, m.tunnel = 0, m.pairing \in {0, k.pairing}, m.forward = k.forward,
                 m.attempt = k.attempt, m.with = k.with, k.tunnel \notin R
          PROVE  Becomes(k, m, R)
      BY <1>1, <1>2, <2>1 DEF Becomes, Sane, Backs
    <2> QED BY <1>3, <1>4, <1>5, <2>1 DEF k
  <1>7. Quiet(k, Dropped(k))
    BY <1>3 DEF Quiet
  <1> QED BY <1>4, <1>5, <1>6, <1>7 DEF k

(* The direct way is checked, found or given up.                           *)
LEMMA Redirected ==
    ASSUME LinksOK, NEW l \in Link, NEW R, NEW d \in {"none", "checking", "up", "down"}
    PROVE  /\ Becomes(link[l], [link[l] EXCEPT !.direct = d], R)
           /\ Quiet(link[l], [link[l] EXCEPT !.direct = d])
  <1> DEFINE k == link[l]
             m == [k EXCEPT !.direct = d]
  <1>1. Sane(k, opened) /\ k \in Links
    BY DEF LinksOK
  <1>2. /\ m \in Links /\ m.tunnel = k.tunnel /\ m.pairing = k.pairing /\ m.forward = k.forward
        /\ m.attempt = k.attempt /\ m.with = k.with /\ m.generation = k.generation /\ m.closed = k.closed
    BY <1>1 DEF Links
  <1> HIDE DEF k, m
  <1>3. Becomes(k, m, R) /\ Quiet(k, m)
    BY <1>1, <1>2 DEF Becomes, Quiet, Sane, Backs
  <1> QED BY <1>3 DEF k, m

(* The attempt goes on, or is over without a tunnel; its forward, if it    *)
(* had one, is told to go.                                                 *)
LEMMA Attempted ==
    ASSUME LinksOK, NEW l \in Link, NEW R
    PROVE  /\ link[l].attempt # "listen" \/ link[l].forward \notin R =>
                 /\ Becomes(link[l], NoAttempt(link[l]), R)
                 /\ Quiet(link[l], NoAttempt(link[l]))
           /\ ~Ready(link[l]) =>
                 /\ Becomes(link[l], Connecting(link[l]), R)
                 /\ Quiet(link[l], Connecting(link[l]))
  <1> DEFINE k == link[l]
  <1>1. Sane(k, opened) /\ k \in Links
    BY DEF LinksOK
  <1>2. 0 \in 0..MaxInstall /\ 0 \in 0..MaxForward /\ opened \in Nat
    BY Numbers
  <1> HIDE DEF k
  <1>3. /\ NoAttempt(k) \in Links /\ NoAttempt(k).attempt = "none" /\ NoAttempt(k).with = 0
        /\ NoAttempt(k).forward = 0 /\ NoAttempt(k).tunnel = k.tunnel
        /\ NoAttempt(k).pairing = k.pairing /\ NoAttempt(k).generation = k.generation
        /\ NoAttempt(k).closed = k.closed
    BY <1>1, <1>2 DEF NoAttempt, Links
  <1>4. k.attempt # "listen" \/ k.forward \notin R => Becomes(k, NoAttempt(k), R) /\ Quiet(k, NoAttempt(k))
    BY <1>1, <1>2, <1>3 DEF Becomes, Quiet, Sane, Backs
  <1>5. ASSUME ~Ready(k)
        PROVE  Becomes(k, Connecting(k), R) /\ Quiet(k, Connecting(k))
    <2>1. k.tunnel = 0
      BY <1>1, <1>5 DEF Ready, Sane
    <2>2. CASE k.attempt # "none"
      <3>1. Connecting(k) = k
        BY <2>2 DEF Connecting
      <3> QED BY <1>1, <1>2, <3>1 DEF Becomes, Quiet
    <2>3. CASE k.attempt = "none"
      <3> DEFINE a == IF k.pairing = 0 THEN "pairing" ELSE "read"
                 m == [k EXCEPT !.attempt = a, !.with = k.pairing]
      <3>1. Connecting(k) = m
        BY <2>3 DEF Connecting
      <3>2. a \in {"pairing", "read"} /\ (a = "pairing" <=> k.pairing = 0)
        OBVIOUS
      <3> HIDE DEF a
      <3>3. /\ m \in Links /\ m.tunnel = k.tunnel /\ m.pairing = k.pairing /\ m.forward = k.forward
            /\ m.attempt = a /\ m.with = k.pairing /\ m.generation = k.generation /\ m.closed = k.closed
        BY <1>1, <3>2 DEF Links
      <3> HIDE DEF m
      <3>4. Becomes(k, m, R) /\ Quiet(k, m)
        BY <1>1, <1>2, <2>1, <2>3, <3>2, <3>3 DEF Becomes, Quiet, Sane, Backs
      <3> QED BY <3>1, <3>4
    <2> QED BY <2>2, <2>3
  <1> QED BY <1>4, <1>5 DEF k

(* The forward is up.                                                      *)
LEMMA GotUp ==
    ASSUME LinksOK, NEW l \in Link, NEW R, 0 \notin R, link[l].attempt = "listen", ~link[l].closed
    PROVE  Becomes(link[l], Connected(link[l]), R) /\ Quiet(link[l], Connected(link[l]))
  <1> DEFINE k == link[l]
  <1>1. Sane(k, opened) /\ k \in Links /\ k.attempt = "listen" /\ ~k.closed
    BY DEF LinksOK
  <1>2. 0 \in 0..MaxInstall /\ 0 \in 0..MaxForward /\ opened \in Nat
    BY Numbers
  <1> HIDE DEF k
  <1>3. /\ NoAttempt(k) \in Links /\ NoAttempt(k).attempt = "none" /\ NoAttempt(k).with = 0
        /\ NoAttempt(k).forward = 0 /\ NoAttempt(k).generation = k.generation
        /\ NoAttempt(k).closed = k.closed
    BY <1>1, <1>2 DEF NoAttempt, Links
  <1>4. k.with \in 0..MaxInstall /\ k.forward \in 0..MaxForward
    BY <1>1 DEF Links
  <1>5. /\ Connected(k) \in Links /\ Connected(k).attempt = "none" /\ Connected(k).with = 0
        /\ Connected(k).forward = 0 /\ Connected(k).tunnel = k.forward
        /\ Connected(k).pairing = k.with /\ Connected(k).generation = k.generation
        /\ Connected(k).closed = k.closed
    BY <1>3, <1>4 DEF Connected, Links
  <1>6. Becomes(k, Connected(k), R) /\ Quiet(k, Connected(k))
    BY <1>1, <1>2, <1>5 DEF Becomes, Quiet, Sane, Backs
  <1> QED BY <1>6 DEF k

-----------------------------------------------------------------------------
(* What that makes of all the links, and of a request over them *)

LEMMA LinksKeep ==
    ASSUME LinksOK, link' \in [Link -> Links], opened' = opened, installed' \in 0..MaxInstall,
           running' \subseteq running, \A l \in Link : Becomes(link[l], link'[l], running')
    PROVE  LinksOK'
  <1>1. /\ opened' \in 0..MaxForward /\ running' \subseteq 1..opened'
        /\ \A l \in Link : Sane(link'[l], opened')
    BY DEF LinksOK, Becomes
  <1>2. ASSUME NEW l \in Link, NEW m \in Link, link'[l].forward # 0
        PROVE  /\ link'[l].forward # link'[m].tunnel
               /\ l # m => link'[l].forward # link'[m].forward
    <2>1. link'[l].forward = link[l].forward /\ link[l].forward # 0
      BY <1>2 DEF Becomes
    <2>2. /\ link[l].forward # link[m].tunnel
          /\ l # m => link[l].forward # link[m].forward
      BY <2>1 DEF LinksOK
    <2>3. link'[l].tunnel = 0
      BY <1>1, <1>2 DEF Sane
    <2>4. CASE l = m
      BY <1>2, <2>3, <2>4
    <2>5. CASE l # m
      BY <1>2, <2>1, <2>2, <2>5 DEF Becomes
    <2> QED BY <2>4, <2>5
  <1>3. NoStrayForward'
    <2> SUFFICES ASSUME NEW f \in running'
                 PROVE  \E l \in Link : Backs(link'[l], f)
      BY DEF NoStrayForward, Backs
    <2>1. PICK l \in Link : Backs(link[l], f)
      BY DEF LinksOK, NoStrayForward, Backs
    <2> QED BY <2>1 DEF Becomes
  <1> QED BY <1>1, <1>2, <1>3 DEF LinksOK

LEMMA ReqKeeps ==
    ASSUME LinksOK, NEW L \in [Link -> Links], NEW R, NEW m,
           \A l \in Link : Becomes(link[l], L[l], R),
           NEW q, ReqOK(q, link, opened, m),
           q.stage = "stream" => Quiet(link[q.link], L[q.link])
    PROVE  ReqOK(q, L, opened, m)
  <1>1. q \in Reqs /\ q.link \in Link
    BY DEF ReqOK, Reqs
  <1>2. CASE q.stage \in {"sent", "asked"}
    <2>1. \A l \in Link : q.over # L[l].forward /\ L[l].tunnel \in {0, link[l].tunnel, link[l].forward}
      BY <1>2 DEF ReqOK, Becomes
    <2>2. L[q.link].tunnel = q.over => q.gen = L[q.link].generation /\ q.by = L[q.link].pairing
      BY <1>1, <1>2, <2>1 DEF ReqOK, Becomes
    <2> QED BY <1>2, <2>1, <2>2 DEF ReqOK
  <1>3. CASE q.stage = "stream"
    BY <1>1, <1>3 DEF ReqOK, Quiet
  <1>4. CASE q.stage \notin {"sent", "asked", "stream"}
    BY <1>4 DEF ReqOK
  <1> QED BY <1>2, <1>3, <1>4

LEMMA IdleOK ==
    ASSUME LinksOK, made \in Link, NEW m \in Link
    PROVE  /\ Idle \in Reqs /\ Idle.stage = "idle"
           /\ \A L : ReqOK(Idle, L, opened, m)
  <1>1. 0 \in 0..MaxForward /\ 0 \in 0..MaxInstall /\ 1 \in Link /\ 1 <= m /\ 0 <= opened
    BY Numbers DEF Link
  <1> QED BY <1>1 DEF Idle, Reqs, ReqOK, Times

(* What every step but OpenForward shows of the links and the requests,    *)
(* when m links were made after it; the requests are judged over the links *)
(* as they were.                                                           *)
Follows(m) ==
    /\ link' \in [Link -> Links] /\ opened' = opened /\ installed' \in 0..MaxInstall
    /\ running' \subseteq running
    /\ \A l \in Link : Becomes(link[l], link'[l], running')
    /\ req' \in [Req -> Reqs]
    /\ \A r \in Req : /\ ReqOK(req'[r], link, opened, m)
                      /\ req'[r].stage = "stream" => Quiet(link[req'[r].link], link'[req'[r].link])

LEMMA Carried ==
    ASSUME LinksOK, Follows(made')
    PROVE  LinksOK' /\ ReqsOK'
  <1>1. LinksOK'
    BY LinksKeep DEF Follows
  <1>2. ASSUME NEW r \in Req
        PROVE  ReqOK(req'[r], link', opened', made')
    BY ReqKeeps DEF Follows
  <1> QED BY <1>1, <1>2 DEF ReqsOK, Follows

(* One link changes.                                                       *)
LEMMA OneLink ==
    ASSUME LinksOK, NEW l \in Link, NEW k, Becomes(link[l], k, running'),
           link' = [link EXCEPT ![l] = k]
    PROVE  /\ link' \in [Link -> Links] /\ link'[l] = k
           /\ \A m \in Link : Becomes(link[m], link'[m], running')
           /\ \A m \in Link : m # l => link'[m] = link[m] /\ Quiet(link[m], link'[m])
  <1>1. k \in Links
    BY DEF Becomes, Sane
  <1>2. link \in [Link -> Links]
    BY DEF LinksOK
  <1>3. link' \in [Link -> Links] /\ \A m \in Link : link'[m] = IF m = l THEN k ELSE link[m]
    BY <1>1, <1>2
  <1> QED BY <1>3, Same

(* The requests and what one link quietly becomes: each is as it was, over *)
(* or one that is not a stream.                                            *)
LEMMA QuietStep ==
    ASSUME LinksOK, ReqsOK, made \in Link, NEW l \in Link, NEW k,
           link' = [link EXCEPT ![l] = k],
           Becomes(link[l], k, running'), Quiet(link[l], k),
           running' \subseteq running, opened' = opened, installed' \in 0..MaxInstall,
           req' \in [Req -> Reqs], \A r \in Req : ReqOK(req'[r], link, opened, made)
    PROVE  Follows(made)
  <1>1. /\ link' \in [Link -> Links] /\ link'[l] = k
        /\ \A m \in Link : Becomes(link[m], link'[m], running')
        /\ \A m \in Link : m # l => link'[m] = link[m] /\ Quiet(link[m], link'[m])
    BY OneLink
  <1>2. \A r \in Req : req'[r].link \in Link
    BY DEF Reqs
  <1> QED BY <1>1, <1>2 DEF Follows

(* Nothing changes but the requests.                                       *)
LEMMA SameLinks ==
    ASSUME LinksOK, link' = link, running' \subseteq running, running' = running, opened' = opened,
           installed' \in 0..MaxInstall, req' \in [Req -> Reqs], NEW m,
           \A r \in Req : ReqOK(req'[r], link, opened, m)
    PROVE  Follows(m)
  <1>1. \A r \in Req : req'[r].link \in Link
    BY DEF Reqs
  <1>2. \A l \in Link : Becomes(link[l], link'[l], running') /\ Quiet(link[l], link'[l])
    BY Same
  <1> QED BY <1>1, <1>2 DEF Follows, LinksOK

-----------------------------------------------------------------------------
(* The steps of a link *)

(* What they leave alone of the pool's part.                               *)
Calm == \A l \in Link : /\ link'[l].closed = link[l].closed
                        /\ l > made => link'[l] = link[l]

(* A step that turns one link into k, quietly, and some requests into ones *)
(* that wait, are routed or end.                                           *)
LEMMA OldReqs ==
    ASSUME LinksOK, ReqsOK, made \in Link,
           req' \in [Req -> Reqs],
           \A r \in Req : \/ req'[r] = req[r] \/ req'[r] = Idle
                          \/ /\ req[r].stage = "mode"
                             /\ \E s \in {"routed", "basic"} : req'[r] = [req[r] EXCEPT !.stage = s]
    PROVE  \A r \in Req : ReqOK(req'[r], link, opened, made)
  <1> SUFFICES ASSUME NEW r \in Req
               PROVE  ReqOK(req'[r], link, opened, made)
    OBVIOUS
  <1>1. ReqOK(req[r], link, opened, made) /\ ReqOK(Idle, link, opened, made)
    BY IdleOK DEF ReqsOK
  <1>2. ASSUME NEW s \in {"routed", "basic"}, req[r].stage = "mode",
               req'[r] = [req[r] EXCEPT !.stage = s]
        PROVE  ReqOK(req'[r], link, opened, made)
    <2> DEFINE q == req[r]
               p == req'[r]
    <2>1. q \in Reqs /\ p \in Reqs /\ p.stage = s /\ p.link = q.link /\ p.over = q.over /\ p.times = q.times
      BY <1>2 DEF ReqsOK, Reqs
    <2>2. q.link <= made /\ q.over <= opened /\ q.times = 0
      BY <1>1, <1>2 DEF ReqOK, Times
    <2> HIDE DEF q, p
    <2>3. ReqOK(p, link, opened, made)
      BY <2>1, <2>2 DEF ReqOK, Times
    <2> QED BY <2>3 DEF p
  <1> QED BY <1>1, <1>2

LEMMA OldLink ==
    ASSUME LinksOK, PoolOK, NEW l \in Link, link[l] # Fresh
    PROVE  l <= made
  BY Numbers DEF PoolOK, Link

LEMMA ReadPairingStep ==
    ASSUME LinksOK, ReqsOK, PoolOK, NEW l \in Link, ReadPairing(l)
    PROVE  Follows(made) /\ Calm
  <1> DEFINE k == link[l]
             a == IF installed = 0 THEN "absent" ELSE "read"
             m == [k EXCEPT !.attempt = a, !.with = installed]
  <1>1. Sane(k, opened) /\ k \in Links /\ k.attempt = "pairing"
    BY DEF LinksOK, ReadPairing
  <1>2. 0 \in 0..MaxInstall /\ installed \in 0..MaxInstall /\ opened \in Nat
    BY Numbers DEF LinksOK
  <1>3. link' = [link EXCEPT ![l] = m] /\ l <= made
    BY <1>1, OldLink DEF ReadPairing, Fresh
  <1>4. a \in {"absent", "read"} /\ (a = "read" => installed # 0)
    OBVIOUS
  <1> HIDE DEF a
  <1>5. /\ m \in Links /\ m.tunnel = k.tunnel /\ m.pairing = k.pairing /\ m.forward = k.forward
        /\ m.attempt = a /\ m.with = installed /\ m.generation = k.generation /\ m.closed = k.closed
    BY <1>1, <1>2, <1>4 DEF Links
  <1> HIDE DEF k, m
  <1>6. Becomes(k, m, running') /\ Quiet(k, m)
    BY <1>1, <1>2, <1>4, <1>5 DEF Becomes, Quiet, Sane, Backs
  <1>7. req' = req /\ running' = running /\ opened' = opened /\ installed' = installed
    BY DEF ReadPairing
  <1>8. Follows(made)
    <2>1. Becomes(link[l], m, running') /\ Quiet(link[l], m)
      BY <1>6 DEF k
    <2>2. req' \in [Req -> Reqs] /\ \A r \in Req : ReqOK(req'[r], link, opened, made)
      BY <1>7 DEF ReqsOK
    <2> QED BY <1>2, <1>3, <1>7, <2>1, <2>2, QuietStep DEF PoolOK
  <1>9. Calm
    BY <1>3, <1>5, Numbers DEF Calm, PoolOK, LinksOK, k, Link
  <1> QED BY <1>8, <1>9

LEMMA FailsStep ==
    ASSUME LinksOK, ReqsOK, PoolOK, NEW l \in Link, link[l].attempt # "none", Fails(l),
           link[l].attempt # "listen" \/ link[l].forward \notin running',
           running' \subseteq running, opened' = opened, installed' = installed
    PROVE  Follows(made) /\ Calm
  <1> DEFINE m == NoAttempt(link[l])
  <1>1. link' = [link EXCEPT ![l] = m] /\ l <= made
    BY OldLink DEF Fails, Fresh
  <1>2. Becomes(link[l], m, running') /\ Quiet(link[l], m)
    BY Attempted
  <1>3. made \in Link /\ installed' \in 0..MaxInstall
    BY DEF PoolOK, LinksOK
  <1>4. /\ req' \in [Req -> Reqs]
        /\ \A r \in Req : req'[r] = req[r] \/ req'[r] = Idle
    <2>1. Idle \in Reqs /\ req \in [Req -> Reqs]
      BY <1>3, IdleOK DEF ReqsOK
    <2> QED BY <2>1 DEF Fails
  <1>5. \A r \in Req : ReqOK(req'[r], link, opened, made)
    BY <1>3, <1>4, OldReqs
  <1> HIDE DEF m
  <1>6. Follows(made)
    BY <1>1, <1>2, <1>3, <1>4, <1>5, QuietStep
  <1>7. Calm
    BY <1>1, <1>2, Numbers DEF Calm, Quiet, PoolOK, LinksOK, Link
  <1> QED BY <1>6, <1>7

LEMMA ListenerUpStep ==
    ASSUME LinksOK, ReqsOK, PoolOK, NEW l \in Link, ListenerUp(l)
    PROVE  Follows(made) /\ Calm
  <1> DEFINE m == Connected(link[l])
  <1>1. link' = [link EXCEPT ![l] = m] /\ l <= made
    BY OldLink DEF ListenerUp, Fresh
  <1>2. running' = running /\ opened' = opened /\ installed' = installed /\ 0 \notin running
    BY Numbers DEF ListenerUp
  <1>3. Becomes(link[l], m, running') /\ Quiet(link[l], m)
    BY <1>2, GotUp DEF ListenerUp
  <1>4. made \in Link /\ installed' \in 0..MaxInstall
    BY <1>2 DEF PoolOK, LinksOK
  <1>5. req \in [Req -> Reqs]
    BY DEF ReqsOK
  <1>6. \A r \in Req : [req[r] EXCEPT !.stage = "routed"] \in Reqs
    BY <1>5 DEF Reqs
  <1>7. /\ req' \in [Req -> Reqs]
        /\ \A r \in Req : \/ req'[r] = req[r]
                          \/ req[r].stage = "mode" /\ req'[r] = [req[r] EXCEPT !.stage = "routed"]
    BY <1>5, <1>6 DEF ListenerUp
  <1>8. \A r \in Req : ReqOK(req'[r], link, opened, made)
    BY <1>4, <1>7, OldReqs
  <1> HIDE DEF m
  <1>9. Follows(made)
    BY <1>1, <1>2, <1>3, <1>4, <1>7, <1>8, QuietStep
  <1>10. Calm
    BY <1>1, <1>3, Numbers DEF Calm, Quiet, PoolOK, LinksOK, Link
  <1> QED BY <1>9, <1>10

(* The direct way of a link is d from now on.                              *)
LEMMA DirectStep ==
    ASSUME LinksOK, ReqsOK, PoolOK, NEW l \in Link, l <= made,
           NEW d \in {"none", "checking", "up", "down"},
           link' = [link EXCEPT ![l] = [@ EXCEPT !.direct = d]],
           running' = running, opened' = opened, installed' = installed,
           req' \in [Req -> Reqs], \A r \in Req : ReqOK(req'[r], link, opened, made)
    PROVE  Follows(made) /\ Calm
  <1> DEFINE m == [link[l] EXCEPT !.direct = d]
  <1>1. link' = [link EXCEPT ![l] = m]
    OBVIOUS
  <1>2. Becomes(link[l], m, running') /\ Quiet(link[l], m)
    BY Redirected
  <1>3. made \in Link /\ installed' \in 0..MaxInstall
    BY DEF PoolOK, LinksOK
  <1> HIDE DEF m
  <1>4. Follows(made)
    BY <1>1, <1>2, <1>3, QuietStep
  <1>5. Calm
    BY <1>1, <1>2, Numbers DEF Calm, Quiet, PoolOK, LinksOK, Link
  <1> QED BY <1>4, <1>5

LEMMA DirectCheckedStep ==
    ASSUME LinksOK, ReqsOK, PoolOK, NEW l \in Link, DirectChecked(l)
    PROVE  Follows(made) /\ Calm
  <1>1. PICK up \in BOOLEAN :
          link' = [link EXCEPT ![l] = [@ EXCEPT !.direct = IF up THEN "up" ELSE "down"]]
    BY DEF DirectChecked
  <1> DEFINE d == IF up THEN "up" ELSE "down"
  <1>2. d \in {"none", "checking", "up", "down"} /\ link' = [link EXCEPT ![l] = [@ EXCEPT !.direct = d]]
    BY <1>1
  <1>3. l <= made
    BY OldLink DEF DirectChecked, Fresh
  <1>4. req' = req /\ running' = running /\ opened' = opened /\ installed' = installed
    BY DEF DirectChecked
  <1>5. req' \in [Req -> Reqs] /\ \A r \in Req : ReqOK(req'[r], link, opened, made)
    BY <1>4 DEF ReqsOK
  <1> HIDE DEF d
  <1> QED BY <1>2, <1>3, <1>4, <1>5, DirectStep

LEMMA ChildExitsStep ==
    ASSUME LinksOK, ReqsOK, PoolOK, NEW f \in running, ChildExits(f)
    PROVE  Follows(made) /\ Calm
  <1>1. /\ running' = running \ {f} /\ opened' = opened /\ installed' = installed /\ req' = req
        /\ link' = [l \in Link |-> IF link[l].tunnel = f THEN Dropped(link[l]) ELSE link[l]]
    BY DEF ChildExits
  <1>2. f \in Nat /\ f # 0 /\ 0 \notin running
    BY Numbers
  <1>3. ASSUME NEW l \in Link
        PROVE  Becomes(link[l], link'[l], running') /\ Quiet(link[l], link'[l])
    <2>1. CASE link[l].tunnel = f
      <3>1. link'[l] = Dropped(link[l]) /\ link[l].tunnel \notin running'
        BY <1>1, <2>1
      <3> QED BY <3>1, Lost
    <2>2. CASE link[l].tunnel # f
      <3>1. link'[l] = link[l]
        BY <1>1, <2>2
      <3> QED BY <3>1, Same
    <2> QED BY <2>1, <2>2
  <1>4. \A r \in Req : req'[r] \in Reqs /\ req'[r].link \in Link /\ ReqOK(req'[r], link, opened, made)
    BY <1>1 DEF ReqsOK, Reqs
  <1>5. link' \in [Link -> Links]
    <2>1. \A l \in Link : link'[l] \in Links
      BY <1>3 DEF Becomes, Sane
    <2> QED BY <1>1, <2>1
  <1>6. req' \in [Req -> Reqs] /\ installed' \in 0..MaxInstall
    BY <1>1 DEF ReqsOK, LinksOK
  <1>7. Follows(made)
    BY <1>1, <1>3, <1>4, <1>5, <1>6 DEF Follows
  <1>8. ASSUME NEW l \in Link, l > made
        PROVE  link'[l] = link[l]
    <2>1. link[l].tunnel = 0
      BY <1>8 DEF PoolOK, Fresh
    <2> QED BY <1>1, <1>2, <2>1
  <1> QED BY <1>3, <1>7, <1>8 DEF Calm, Quiet

-----------------------------------------------------------------------------
(* The steps of a request *)

(* The request r is p from now on; the others are as they were.            *)
LEMMA OneReq ==
    ASSUME ReqsOK, NEW r \in Req, NEW p, req' = [req EXCEPT ![r] = p],
           ReqOK(p, link, opened, made)
    PROVE  req' \in [Req -> Reqs] /\ \A s \in Req : ReqOK(req'[s], link, opened, made)
  <1>1. p \in Reqs
    BY DEF ReqOK
  <1>2. req \in [Req -> Reqs] /\ \A s \in Req : ReqOK(req[s], link, opened, made)
    BY DEF ReqsOK
  <1>3. req' \in [Req -> Reqs] /\ \A s \in Req : req'[s] = IF s = r THEN p ELSE req[s]
    BY <1>1, <1>2
  <1> QED BY <1>2, <1>3

(* A request that is known was sent to a link that is known.               *)
LEMMA Asks ==
    ASSUME LinksOK, ReqsOK, PoolOK, NEW r \in Req
    PROVE  /\ req[r] \in Reqs /\ ReqOK(req[r], link, opened, made)
           /\ req[r].link \in Link /\ req[r].link <= made
           /\ ReqOK(Idle, link, opened, made)
           /\ made \in Link /\ installed \in 0..MaxInstall
  <1>1. made \in Link
    BY DEF PoolOK
  <1>2. req[r] \in Reqs /\ ReqOK(req[r], link, opened, made)
    BY DEF ReqsOK
  <1> QED BY <1>1, <1>2, IdleOK DEF ReqOK, Reqs, LinksOK

LEMMA EnsureResolvedStep ==
    ASSUME LinksOK, ReqsOK, PoolOK, NEW r \in Req, EnsureResolved(r)
    PROVE  Follows(made) /\ Calm
  <1> DEFINE l == req[r].link
             q == req[r]
  <1>1. /\ q.stage = "ensure" /\ Ready(link[l]) /\ Send(r, l)
        /\ running' = running /\ opened' = opened /\ installed' = installed
    BY DEF EnsureResolved
  <1>2. /\ q \in Reqs /\ ReqOK(q, link, opened, made) /\ l \in Link /\ l <= made
        /\ made \in Link /\ installed \in 0..MaxInstall
    BY Asks
  <1>3. PICK d \in BOOLEAN, check \in BOOLEAN :
          /\ req' = [req EXCEPT ![r] =
               [@ EXCEPT !.stage = "sent", !.link = l, !.over = link[l].tunnel, !.by = link[l].pairing,
                     !.gen = link[l].generation, !.direct = d, !.again = FALSE]]
          /\ link' = IF check THEN [link EXCEPT ![l] = [@ EXCEPT !.direct = "checking"]] ELSE link
    BY <1>1 DEF Send
  <1> DEFINE p == [q EXCEPT !.stage = "sent", !.link = l, !.over = link[l].tunnel,
                     !.by = link[l].pairing, !.gen = link[l].generation,
                     !.direct = d, !.again = FALSE]
  <1>4. req' = [req EXCEPT ![r] = p]
    BY <1>3
  <1>5. /\ link[l] \in Links /\ Sane(link[l], opened) /\ link[l].tunnel # 0 /\ link[l].pairing # 0
        /\ link[l].tunnel \in 0..MaxForward /\ link[l].pairing \in 0..MaxInstall
        /\ link[l].generation \in Nat
    BY <1>1, <1>2, FieldsOf DEF LinksOK, Ready
  <1>6. \A k \in Link : link[l].tunnel # link[k].forward
    BY <1>2, <1>5 DEF LinksOK
  <1>7. ReqOK(p, link, opened, made)
    <2> HIDE DEF l
    <2>1. q.times = 0
      BY <1>1, <1>2 DEF ReqOK, Times
    <2> HIDE DEF q
    <2>2. /\ p \in Reqs /\ p.stage = "sent" /\ p.link = l /\ p.over = link[l].tunnel
          /\ p.by = link[l].pairing /\ p.gen = link[l].generation /\ p.times = q.times
          /\ p.again = FALSE /\ p.kind = q.kind
      BY <1>2, <1>5 DEF Reqs
    <2> HIDE DEF p
    <2> QED BY <1>2, <1>5, <1>6, <2>1, <2>2 DEF ReqOK, Times, Sane
  <1> HIDE DEF p
  <1>8. req' \in [Req -> Reqs] /\ \A s \in Req : ReqOK(req'[s], link, opened, made)
    BY <1>4, <1>7, OneReq
  <1>9. CASE check
    <2>1. link' = [link EXCEPT ![l] = [@ EXCEPT !.direct = "checking"]]
      BY <1>3, <1>9
    <2> QED BY <1>1, <1>2, <1>8, <2>1, DirectStep
  <1>10. CASE ~check
    <2>1. link' = link /\ installed' \in 0..MaxInstall
      BY <1>1, <1>2, <1>3, <1>10
    <2> QED BY <1>1, <1>8, <2>1, SameLinks DEF Calm
  <1> QED BY <1>9, <1>10

(* The request r is p from now on and the links are as they were, but for  *)
(* the direct way the request may have taken.                              *)
LEMMA NextStage ==
    ASSUME LinksOK, ReqsOK, PoolOK, NEW r \in Req, NEW p,
           req' = [req EXCEPT ![r] = p], ReqOK(p, link, opened, made),
           link' = link \/ DirectFailed(req[r].link),
           running' = running, opened' = opened, installed' = installed
    PROVE  Follows(made) /\ Calm
  <1> DEFINE l == req[r].link
  <1>1. req' \in [Req -> Reqs] /\ \A s \in Req : ReqOK(req'[s], link, opened, made)
    BY OneReq
  <1>2. l \in Link /\ l <= made /\ installed \in 0..MaxInstall
    BY Asks
  <1>3. CASE link' = link
    BY <1>1, <1>2, <1>3, SameLinks DEF Calm
  <1>4. CASE DirectFailed(l)
    <2>1. PICK d \in {link[l].direct} \cup (IF link[l].direct = "up" THEN {"down"} ELSE {}) :
            link' = [link EXCEPT ![l] = [@ EXCEPT !.direct = d]]
      BY <1>4 DEF DirectFailed
    <2>2. link[l] \in Links
      BY <1>2 DEF LinksOK
    <2>3. d \in {"none", "checking", "up", "down"}
      BY <2>1, <2>2, FieldsOf
    <2> HIDE DEF l
    <2> QED BY <1>1, <1>2, <2>1, <2>3, DirectStep
  <1> QED BY <1>3, <1>4

LEMMA EndsStep ==
    ASSUME LinksOK, ReqsOK, PoolOK, NEW r \in Req, req' = [req EXCEPT ![r] = Idle],
           link' = link \/ DirectFailed(req[r].link),
           running' = running, opened' = opened, installed' = installed
    PROVE  Follows(made) /\ Calm
  <1>1. ReqOK(Idle, link, opened, made)
    BY Asks
  <1> QED BY <1>1, NextStage

(* The node got a request once more.                                       *)
LEMMA ReachesStep ==
    ASSUME LinksOK, ReqsOK, PoolOK, NEW r \in Req, Reaches(r)
    PROVE  Follows(made) /\ Calm
  <1> DEFINE q == req[r]
             p == [q EXCEPT !.stage = "asked", !.times = q.times + 1]
  <1>1. q \in Reqs /\ ReqOK(q, link, opened, made) /\ q.stage = "sent"
    BY Asks DEF Reaches
  <1>2. /\ req' = [req EXCEPT ![r] = p] /\ link' = link
        /\ running' = running /\ opened' = opened /\ installed' = installed
    BY DEF Reaches
  <1>3. ReqOK(p, link, opened, made)
    <2> HIDE DEF q
    <2>1. q.times \in Nat /\ q.times + 1 \in Nat
      BY <1>1 DEF Reqs
    <2>2. /\ p \in Reqs /\ p.stage = "asked" /\ p.link = q.link /\ p.over = q.over /\ p.by = q.by
          /\ p.gen = q.gen /\ p.times = q.times + 1 /\ p.again = q.again /\ p.kind = q.kind
      BY <1>1, <2>1 DEF Reqs
    <2> HIDE DEF p
    <2> QED BY <1>1, <2>1, <2>2 DEF ReqOK, Times, Repeatable
  <1> HIDE DEF p
  <1> QED BY <1>2, <1>3, NextStage

LEMMA AnswersStep ==
    ASSUME LinksOK, ReqsOK, PoolOK, NEW r \in Req, Answers(r)
    PROVE  Follows(made) /\ Calm
  <1> DEFINE q == req[r]
  <1>1. /\ q \in Reqs /\ ReqOK(q, link, opened, made) /\ q.stage = "asked"
        /\ link' = link /\ running' = running /\ opened' = opened /\ installed' = installed
    BY Asks DEF Answers
  <1>2. CASE q.kind = "upgrade" /\ ~link[q.link].closed /\ OnCurrent(r)
    <2> DEFINE p == [q EXCEPT !.stage = "stream"]
    <2>1. req' = [req EXCEPT ![r] = p] /\ link[q.link].tunnel = q.over
      BY <1>2 DEF Answers, OnCurrent
    <2>2. ReqOK(p, link, opened, made)
      <3> HIDE DEF q
      <3>1. /\ p \in Reqs /\ p.stage = "stream" /\ p.link = q.link /\ p.over = q.over /\ p.by = q.by
            /\ p.gen = q.gen /\ p.times = q.times /\ p.again = q.again /\ p.kind = q.kind
        BY <1>1 DEF Reqs
      <3> HIDE DEF p
      <3> QED BY <1>1, <1>2, <2>1, <3>1 DEF ReqOK, Times, Repeatable
    <2> HIDE DEF p
    <2> QED BY <1>1, <2>1, <2>2, NextStage
  <1>3. CASE ~(q.kind = "upgrade" /\ ~link[q.link].closed /\ OnCurrent(r))
    <2>1. req' = [req EXCEPT ![r] = Idle]
      BY <1>3 DEF Answers
    <2> QED BY <1>1, <2>1, EndsStep
  <1> QED BY <1>2, <1>3

(* The link is reset, and with it the streams over it end.                 *)
LEMMA ResetStep ==
    ASSUME LinksOK, ReqsOK, PoolOK, NEW r \in Req, req[r].stage \in {"sent", "asked"},
           ResetIfCurrent(r), opened' = opened, installed' = installed
    PROVE  Follows(made) /\ Calm
  <1> DEFINE l == req[r].link
  <1>1. /\ l \in Link /\ l <= made /\ made \in Link /\ installed' \in 0..MaxInstall
        /\ req[r] \in Reqs /\ req \in [Req -> Reqs]
    BY Asks DEF ReqsOK
  <1>2. CASE OnCurrent(r)
    <2>1. /\ link' = [link EXCEPT ![l] = Forgotten(@)]
          /\ running' = running \ {link[l].tunnel}
          /\ req' = [s \in Req |->
               IF s = r \/ (req[s].stage = "stream" /\ req[s].link = l) THEN Idle ELSE req[s]]
      BY <1>2 DEF ResetIfCurrent
    <2>2. \A s \in Req : req'[s] = req[s] \/ req'[s] = Idle
      BY <2>1
    <2>3. Idle \in Reqs /\ Idle.stage = "idle"
      BY <1>1, IdleOK
    <2>4. req' \in [Req -> Reqs]
      BY <1>1, <2>1, <2>3
    <2>5. \A s \in Req : ReqOK(req'[s], link, opened, made)
      BY <1>1, <2>2, <2>4, OldReqs
    <2>6. \A s \in Req : req'[s].stage = "stream" => req'[s].link # l
      BY <2>1, <2>3
    <2> DEFINE k == Forgotten(link[l])
    <2>7. Becomes(link[l], k, running') /\ k.closed = link[l].closed
      <3>1. link[l].tunnel \notin running'
        BY <2>1
      <3> QED BY <1>1, <3>1, Lost
    <2>8. link' = [link EXCEPT ![l] = k]
      BY <2>1
    <2> HIDE DEF k, l
    <2>9. /\ link' \in [Link -> Links] /\ link'[l] = k
          /\ \A m \in Link : Becomes(link[m], link'[m], running')
          /\ \A m \in Link : m # l => link'[m] = link[m] /\ Quiet(link[m], link'[m])
      BY <1>1, <2>7, <2>8, OneLink
    <2>10. \A s \in Req : req'[s].link \in Link
      BY <2>4 DEF Reqs
    <2>11. running' \subseteq running
      BY <2>1
    <2>12. Follows(made)
      BY <1>1, <2>4, <2>5, <2>6, <2>9, <2>10, <2>11 DEF Follows
    <2>13. Calm
      BY <1>1, <2>7, <2>9, Numbers DEF Calm, Link
    <2> QED BY <2>12, <2>13
  <1>3. CASE ~OnCurrent(r)
    <2>1. req' = [req EXCEPT ![r] = Idle] /\ link' = link /\ running' = running
      BY <1>3 DEF ResetIfCurrent
    <2> QED BY <2>1, EndsStep
  <1> QED BY <1>2, <1>3

LEMMA ResentOK ==
    ASSUME LinksOK, ReqsOK, PoolOK, NEW r \in Req, req[r].stage \in {"sent", "asked"}, Repeats(r)
    PROVE  ReqOK([req[r] EXCEPT !.stage = "sent", !.direct = FALSE, !.again = TRUE],
                 link, opened, made)
  <1> DEFINE q == req[r]
             p == [q EXCEPT !.stage = "sent", !.direct = FALSE, !.again = TRUE]
  <1>1. /\ q \in Reqs /\ ReqOK(q, link, opened, made) /\ q.stage \in {"sent", "asked"}
        /\ ~q.again /\ (Repeatable(q) \/ q.stage = "sent")
    BY Asks DEF Repeats, Repeatable
  <1> HIDE DEF q
  <1>2. /\ p \in Reqs /\ p.stage = "sent" /\ p.link = q.link /\ p.over = q.over /\ p.by = q.by
        /\ p.gen = q.gen /\ p.times = q.times /\ p.again = TRUE /\ p.kind = q.kind
    BY <1>1 DEF Reqs
  <1> HIDE DEF p
  <1>3. ReqOK(p, link, opened, made)
    <2>1. q.times \in Nat
      BY <1>1 DEF Reqs
    <2> QED BY <1>1, <1>2, <2>1 DEF ReqOK, Times, Repeatable
  <1> QED BY <1>3 DEF p, q

LEMMA BreaksStep ==
    ASSUME LinksOK, ReqsOK, PoolOK, NEW r \in Req, Breaks(r)
    PROVE  Follows(made) /\ Calm
  <1>1. req[r].stage \in {"sent", "asked"} /\ opened' = opened /\ installed' = installed
    BY DEF Breaks
  <1>2. CASE Repeats(r)
    <2> DEFINE p == [req[r] EXCEPT !.stage = "sent", !.direct = FALSE, !.again = TRUE]
    <2>1. ReqOK(p, link, opened, made)
      BY <1>1, <1>2, ResentOK
    <2>2. /\ req' = [req EXCEPT ![r] = p] /\ running' = running
          /\ link' = link \/ DirectFailed(req[r].link)
      BY <1>2 DEF Breaks, Resent
    <2> HIDE DEF p
    <2> QED BY <1>1, <2>1, <2>2, NextStage
  <1>3. CASE ~Repeats(r) /\ req[r].kind = "info"
    <2>1. ResetIfCurrent(r)
      BY <1>3 DEF Breaks
    <2> QED BY <1>1, <2>1, ResetStep
  <1>4. CASE ~Repeats(r) /\ req[r].kind # "info"
    <2>1. /\ req' = [req EXCEPT ![r] = Idle] /\ running' = running
          /\ link' = link \/ DirectFailed(req[r].link)
      BY <1>4 DEF Breaks
    <2> QED BY <1>1, <2>1, EndsStep
  <1> QED BY <1>2, <1>3, <1>4

LEMMA ConnectStallsStep ==
    ASSUME LinksOK, ReqsOK, PoolOK, NEW r \in Req, ConnectStalls(r)
    PROVE  Follows(made) /\ Calm
  <1>1. /\ req[r].stage = "sent" /\ Carries(r) /\ opened' = opened /\ installed' = installed
    BY DEF ConnectStalls
  <1>2. CASE req[r].direct /\ Repeats(r)
    <2> DEFINE p == [req[r] EXCEPT !.stage = "sent", !.direct = FALSE, !.again = TRUE]
    <2>1. ReqOK(p, link, opened, made)
      BY <1>1, <1>2, ResentOK
    <2>2. req' = [req EXCEPT ![r] = p] /\ running' = running /\ DirectFailed(req[r].link)
      BY <1>2 DEF ConnectStalls, Resent
    <2> HIDE DEF p
    <2> QED BY <1>1, <2>1, <2>2, NextStage
  <1>3. CASE req[r].direct /\ ~Repeats(r)
    <2>1. req' = [req EXCEPT ![r] = Idle] /\ running' = running /\ DirectFailed(req[r].link)
      BY <1>3 DEF ConnectStalls
    <2> QED BY <1>1, <2>1, EndsStep
  <1>4. CASE ~req[r].direct
    <2> DEFINE l == req[r].link
    <2>1. req' = [req EXCEPT ![r] = Idle] /\ link[l].tunnel = req[r].over
      BY <1>1, <1>4 DEF ConnectStalls, Carries, OnCurrent
    <2>2. \/ link' = [link EXCEPT ![l] = Dropped(@)] /\ running' = running \ {req[r].over}
          \/ link' = link /\ running' = running
      BY <1>4 DEF ConnectStalls
    <2>3. /\ l \in Link /\ l <= made /\ made \in Link /\ installed' \in 0..MaxInstall
          /\ ReqOK(Idle, link, opened, made)
      BY <1>1, Asks
    <2>4. CASE link' = [link EXCEPT ![l] = Dropped(@)] /\ running' = running \ {req[r].over}
      <3> DEFINE k == Dropped(link[l])
      <3>1. link' = [link EXCEPT ![l] = k] /\ running' \subseteq running /\ link[l].tunnel \notin running'
        BY <2>1, <2>4
      <3>2. Becomes(link[l], k, running') /\ Quiet(link[l], k)
        BY <2>3, <3>1, Lost
      <3>3. req' \in [Req -> Reqs] /\ \A s \in Req : ReqOK(req'[s], link, opened, made)
        BY <2>1, <2>3, OneReq
      <3> HIDE DEF k, l
      <3>4. Follows(made)
        BY <1>1, <2>3, <3>1, <3>2, <3>3, QuietStep
      <3>5. Calm
        BY <2>3, <3>1, <3>2, Numbers DEF Calm, Quiet, LinksOK, Link
      <3> QED BY <3>4, <3>5
    <2>5. CASE link' = link /\ running' = running
      BY <1>1, <2>1, <2>5, EndsStep
    <2> QED BY <2>2, <2>4, <2>5
  <1> QED BY <1>2, <1>3, <1>4

-----------------------------------------------------------------------------
(* All the steps of the links, and the pool meanwhile *)

LEMMA OpenForwardStep ==
    ASSUME LinksOK, ReqsOK, PoolOK, made' = made, NEW l \in Link, OpenForward(l)
    PROVE  LinksOK' /\ ReqsOK' /\ Calm
  <1> DEFINE k == link[l]
             n == opened + 1
             m == [k EXCEPT !.attempt = "listen", !.forward = n]
  <1>1. Sane(k, opened) /\ k \in Links /\ k.attempt = "read" /\ k.tunnel = 0 /\ k.forward = 0
    BY DEF LinksOK, OpenForward, Sane
  <1>2. /\ opened \in Nat /\ n \in 1..MaxForward /\ 0 \in 0..MaxForward /\ 0 \notin running
        /\ \A f \in running : f \in Nat /\ f <= opened
    BY Numbers DEF LinksOK, OpenForward
  <1>3. /\ link' = [link EXCEPT ![l] = m] /\ opened' = n /\ running' = running \cup {n}
        /\ req' = req /\ installed' = installed
    BY DEF OpenForward
  <1>4. /\ m \in Links /\ m.tunnel = 0 /\ m.pairing = k.pairing /\ m.forward = n /\ m.with = k.with
        /\ m.attempt = "listen" /\ m.generation = k.generation /\ m.closed = k.closed
    <2>1. n \in 0..MaxForward
      BY <1>2
    <2> HIDE DEF k, n
    <2> QED BY <1>1, <2>1 DEF Links
  <1>5. /\ link' \in [Link -> Links] /\ link'[l] = m
        /\ \A j \in Link : j # l => link'[j] = link[j]
    BY <1>3, <1>4 DEF LinksOK
  <1>6. \A j \in Link : /\ link[j] \in Links /\ Sane(link[j], opened)
                        /\ link[j].tunnel \in Nat /\ link[j].forward \in Nat
                        /\ link[j].tunnel < n /\ link[j].forward < n
    <2>1. \A j \in Link : link[j] \in Links /\ Sane(link[j], opened)
      BY DEF LinksOK
    <2>2. \A j \in Link : link[j].tunnel \in Nat /\ link[j].forward \in Nat
      BY <2>1, FieldsOf, Numbers
    <2> QED BY <1>2, <2>1, <2>2 DEF Sane
  <1> HIDE DEF k, m
  <1>7. LinksOK'
    <2>1. \A j \in Link : Sane(link'[j], n)
      <3>1. Sane(m, n)
        BY <1>1, <1>2, <1>4 DEF Sane
      <3>2. \A j \in Link : Sane(link[j], n)
        BY <1>2, <1>6 DEF Sane
      <3> QED BY <1>5, <3>1, <3>2
    <2>2. ASSUME NEW i \in Link, NEW j \in Link, link'[i].forward # 0
          PROVE  /\ link'[i].forward # link'[j].tunnel
                 /\ i # j => link'[i].forward # link'[j].forward
      <3>1. CASE i = l
        BY <1>1, <1>2, <1>4, <1>5, <1>6, <3>1
      <3>2. CASE i # l /\ j = l
        BY <1>2, <1>4, <1>5, <1>6, <2>2, <3>2
      <3>3. CASE i # l /\ j # l
        BY <1>5, <2>2, <3>3 DEF LinksOK
      <3> QED BY <3>1, <3>2, <3>3
    <2>3. NoStrayForward'
      <3> SUFFICES ASSUME NEW f \in running'
                   PROVE  \E j \in Link : Backs(link'[j], f)
        BY DEF NoStrayForward, Backs
      <3>1. CASE f = n
        BY <1>4, <1>5, <3>1 DEF Backs
      <3>2. CASE f # n
        <4>1. f \in running
          BY <1>3, <3>2
        <4>2. PICK j \in Link : Backs(link[j], f)
          BY <4>1 DEF LinksOK, NoStrayForward, Backs
        <4>3. f # 0
          BY <1>2, <4>1
        <4>4. j # l
          BY <1>1, <4>2, <4>3 DEF Backs, k
        <4> QED BY <1>5, <4>2, <4>4
      <3> QED BY <3>1, <3>2
    <2>4. opened' \in 0..MaxForward /\ running' \subseteq 1..opened' /\ installed' \in 0..MaxInstall
      <3>1. \A f \in running : f \in 1..n
        BY <1>2 DEF LinksOK
      <3> QED BY <1>2, <1>3, <3>1 DEF LinksOK
    <2> QED BY <1>3, <1>5, <2>1, <2>2, <2>3, <2>4 DEF LinksOK
  <1>8. ReqsOK'
    <2> SUFFICES ASSUME NEW r \in Req
                 PROVE  ReqOK(req[r], link', n, made)
      BY <1>3 DEF ReqsOK
    <2> DEFINE q == req[r]
    <2>1. q \in Reqs /\ ReqOK(q, link, opened, made)
      BY DEF ReqsOK
    <2> HIDE DEF q
    <2>2. q.link \in Link /\ q.over \in Nat /\ q.over <= n /\ q.over # n
      <3>1. q.link \in Link /\ q.over \in 0..MaxForward /\ q.over <= opened
        BY <2>1 DEF ReqOK, Reqs
      <3> QED BY <1>2, <3>1, Numbers
    <2>3. /\ link'[q.link].generation = link[q.link].generation
          /\ link'[q.link].pairing = link[q.link].pairing
          /\ link'[q.link].closed = link[q.link].closed
          /\ link'[q.link].tunnel = link[q.link].tunnel
      <3>1. CASE q.link = l
        BY <1>1, <1>4, <1>5, <3>1 DEF k
      <3>2. CASE q.link # l
        BY <1>5, <2>2, <3>2
      <3> QED BY <3>1, <3>2
    <2>4. q.stage \in {"sent", "asked"} => \A j \in Link : q.over # link'[j].forward
      BY <1>4, <1>5, <2>1, <2>2 DEF ReqOK
    <2>5. ReqOK(q, link', n, made)
      BY <2>1, <2>2, <2>3, <2>4 DEF ReqOK
    <2> QED BY <2>5 DEF q
  <1>9. Calm
    <2>1. l <= made
      BY <1>1, OldLink DEF Fresh, k
    <2> QED BY <1>4, <1>5, <2>1, Numbers DEF Calm, k, Link, PoolOK
  <1> QED BY <1>7, <1>8, <1>9

(* Nothing happens to the pool but what it knows of the panel there.       *)
LEMMA CalmKeeps ==
    ASSUME PoolOK, JobOK, Calm, UNCHANGED <<server, fields, edit, made, job>>,
           \/ entry' = entry
           \/ entry # NoEntry /\ \E b \in BOOLEAN : entry' = [entry EXCEPT !.missing = b]
    PROVE  PoolOK' /\ JobOK'
  <1>1. /\ entry' \in Entries \cup {NoEntry} /\ (entry' = NoEntry <=> entry = NoEntry)
        /\ entry # NoEntry => entry'.link = entry.link /\ entry'.fields = entry.fields
    <2>1. CASE entry' = entry
      BY <2>1 DEF PoolOK
    <2>2. CASE entry # NoEntry /\ \E b \in BOOLEAN : entry' = [entry EXCEPT !.missing = b]
      <3>1. entry \in Entries /\ NoEntry \notin Entries
        BY <2>2, PoolAssumption DEF PoolOK
      <3> QED BY <2>2, <3>1 DEF Entries
    <2> QED BY <2>1, <2>2
  <1>2. PoolOwnsLinks'
    <2>1. \A l \in 1..made : l \in Link
      BY LinkAssumption DEF PoolOK, Link
    <2> QED BY <1>1, <2>1 DEF PoolOK, PoolOwnsLinks, Calm
  <1>3. \A l \in Link : l > made => link'[l] = Fresh
    BY DEF PoolOK, Calm
  <1>4. PoolOK'
    BY <1>1, <1>2, <1>3 DEF PoolOK
  <1>5. JobOK'
    BY <1>1 DEF JobOK
  <1> QED BY <1>4, <1>5

LEMMA LinkStepKeeps ==
    ASSUME PoolInv, LinkStep, Meanwhile
    PROVE  PoolInv'
  <1> USE DEF PoolInv
  <1>1. /\ UNCHANGED <<server, fields, edit, made, job>>
        /\ \/ entry' = entry
           \/ entry # NoEntry /\ \E b \in BOOLEAN : entry' = [entry EXCEPT !.missing = b]
    BY DEF Meanwhile, Learns
  <1>2. ASSUME LinksOK', ReqsOK', Calm
        PROVE  PoolInv'
    BY <1>1, <1>2, CalmKeeps
  <1>3. ASSUME Follows(made), Calm
        PROVE  PoolInv'
    BY <1>1, <1>2, <1>3, Carried
  <1>4. ASSUME NEW l \in Link, Connects(l)
        PROVE  PoolInv'
    <2>1. CASE ReadPairing(l)
      BY <1>3, <2>1, ReadPairingStep
    <2>2. CASE PairingFails(l)
      <3>1. /\ link[l].attempt # "none" /\ link[l].attempt # "listen" /\ Fails(l)
            /\ running' = running /\ opened' = opened /\ installed' = installed
        BY <2>2 DEF PairingFails
      <3> QED BY <1>3, <3>1, FailsStep
    <2>3. CASE OpenForward(l)
      BY <1>1, <1>2, <2>3, OpenForwardStep
    <2>4. CASE ListenerUp(l)
      BY <1>3, <2>4, ListenerUpStep
    <2>5. CASE ListenerFails(l)
      <3>1. /\ link[l].attempt # "none" /\ link[l].forward \notin running' /\ Fails(l)
            /\ running' \subseteq running /\ opened' = opened /\ installed' = installed
        BY <2>5 DEF ListenerFails
      <3> QED BY <1>3, <3>1, FailsStep
    <2> QED BY <1>4, <2>1, <2>2, <2>3, <2>4, <2>5 DEF Connects
  <1>5. ASSUME NEW r \in Req, Advances(r)
        PROVE  PoolInv'
    <2>1. CASE EnsureResolved(r)
      BY <1>3, <2>1, EnsureResolvedStep
    <2>2. CASE Reaches(r)
      BY <1>3, <2>2, ReachesStep
    <2>3. CASE Answers(r)
      BY <1>3, <2>3, AnswersStep
    <2>4. CASE Rejected(r)
      BY <1>3, <2>4, ResetStep DEF Rejected
    <2>5. CASE Breaks(r)
      BY <1>3, <2>5, BreaksStep
    <2>6. CASE ConnectStalls(r)
      BY <1>3, <2>6, ConnectStallsStep
    <2>7. CASE Abandoned(r)
      BY <1>3, <2>7, EndsStep DEF Abandoned
    <2> QED BY <1>5, <2>1, <2>2, <2>3, <2>4, <2>5, <2>6, <2>7 DEF Advances
  <1>6. ASSUME NEW l \in Link, DirectChecked(l)
        PROVE  PoolInv'
    BY <1>3, <1>6, DirectCheckedStep
  <1>7. ASSUME NEW f \in running, ChildExits(f)
        PROVE  PoolInv'
    BY <1>3, <1>7, ChildExitsStep
  <1>8. ASSUME NEW r \in Req, StreamEnds(r)
        PROVE  PoolInv'
    BY <1>3, <1>8, EndsStep DEF StreamEnds
  <1> QED BY <1>4, <1>5, <1>6, <1>7, <1>8 DEF LinkStep

-----------------------------------------------------------------------------
(* The pool looks for its entry *)

LEMMA FoundOK ==
    ASSUME PoolInv, CanFind
    PROVE  /\ server \in Servers /\ Found \in Entries /\ Found.fields = server.fields
           /\ Found.link \in Link /\ Found.link \notin Stale /\ Stale \subseteq Link
           /\ \A l \in Stale : l <= made
           /\ Matches => Stale = {} /\ Found = entry /\ Found.link <= made
           /\ ~Matches => Found.link = made + 1 /\ ~Found.missing
  <1>1. /\ server \in Servers /\ server.fields \in 1..MaxFields /\ made \in Link
        /\ entry \in Entries \cup {NoEntry} /\ NoEntry \notin Entries
        /\ entry # NoEntry => entry.link \in Link /\ entry.link <= made
    BY PoolAssumption DEF PoolInv, PoolOK, CanFind, Usable, Servers, Entries
  <1>2. made \in Nat /\ MaxLink \in Nat
    BY <1>1, Numbers DEF PoolInv
  <1>3. CASE Matches
    <2>1. Found = entry /\ Stale = {} /\ entry \in Entries /\ entry.fields = server.fields
      BY <1>1, <1>3 DEF Found, Stale, Matches
    <2> QED BY <1>1, <1>3, <2>1 DEF Matches
  <1>4. CASE ~Matches
    <2>1. made + 1 \in Link
      BY <1>1, <1>2, <1>4 DEF CanFind, Link
    <2> DEFINE e == [fields |-> server.fields, link |-> made + 1, missing |-> FALSE, basic |-> FALSE]
    <2>2. Found = e
      BY <1>4 DEF Found
    <2>3. e \in Entries /\ e.fields = server.fields /\ e.link = made + 1 /\ e.missing = FALSE
      BY <1>1, <2>1 DEF Entries
    <2> HIDE DEF e
    <2>4. Stale \subseteq Link /\ \A l \in Stale : l <= made
      BY <1>1 DEF Stale
    <2>5. made + 1 \notin Stale
      BY <1>2, <2>4
    <2> QED BY <1>1, <1>4, <2>1, <2>2, <2>3, <2>4, <2>5
  <1> QED BY <1>3, <1>4

LEMMA PutOK ==
    ASSUME PoolInv, CanFind, NEW e, e.link = Found.link, Put(e)
    PROVE  made' \in Link /\ made <= made' /\ Found.link <= made' /\ (Matches => made' = made)
           /\ (~Matches => made' = made + 1)
  BY FoundOK, Numbers DEF Put, PoolInv, PoolOK, Link

(* Links are closed, and their tunnels told to go.                         *)
LEMMA ShutAllOK ==
    ASSUME LinksOK, NEW S, S \subseteq Link, Without(S)
    PROVE  /\ ShutAll(S) \in [Link -> Links] /\ running' \subseteq running
           /\ \A l \in Link : /\ Becomes(link[l], ShutAll(S)[l], running')
                              /\ l \in S => ShutAll(S)[l].closed
                              /\ l \notin S => ShutAll(S)[l] = link[l]
  <1>1. running' \subseteq running /\ \A l \in S : link[l].tunnel \notin running'
    BY DEF Without
  <1>2. ASSUME NEW l \in Link
        PROVE  /\ Becomes(link[l], ShutAll(S)[l], running')
               /\ l \in S => ShutAll(S)[l].closed
               /\ l \notin S => ShutAll(S)[l] = link[l]
    <2>1. CASE l \in S
      <3>1. ShutAll(S)[l] = Shut(link[l])
        BY <2>1 DEF ShutAll
      <3> QED BY <1>1, <2>1, <3>1, Lost
    <2>2. CASE l \notin S
      <3>1. ShutAll(S)[l] = link[l]
        BY <2>2 DEF ShutAll
      <3> QED BY <2>2, <3>1, Same
    <2> QED BY <2>1, <2>2
  <1>3. \A l \in Link : ShutAll(S)[l] \in Links
    BY <1>2 DEF Becomes, Sane
  <1>4. ShutAll(S) \in [Link -> Links]
    BY <1>3 DEF ShutAll
  <1> QED BY <1>1, <1>2, <1>4

LEMMA EndedOK ==
    ASSUME LinksOK, ReqsOK, made \in Link, NEW S, NEW m \in Link, made <= m
    PROVE  /\ Ended(S) \in [Req -> Reqs]
           /\ \A r \in Req : /\ ReqOK(Ended(S)[r], link, opened, m)
                             /\ Ended(S)[r].stage = "stream" => Ended(S)[r].link \notin S
                             /\ Ended(S)[r] = req[r] \/ Ended(S)[r] = Idle
                             /\ req[r].stage # "stream" => Ended(S)[r] = req[r]
  <1>1. /\ Idle \in Reqs /\ Idle.stage = "idle" /\ ReqOK(Idle, link, opened, m)
        /\ req \in [Req -> Reqs]
    BY IdleOK DEF ReqsOK
  <1>2. ASSUME NEW r \in Req
        PROVE  ReqOK(req[r], link, opened, m)
    <2> DEFINE q == req[r]
    <2>1. q \in Reqs /\ ReqOK(q, link, opened, made) /\ q.link \in Link
      BY DEF ReqsOK, Reqs
    <2> HIDE DEF q
    <2>2. q.link <= m
      <3>1. q.link <= made
        BY <2>1 DEF ReqOK
      <3> QED BY <2>1, <3>1, Numbers DEF Link
    <2>3. ReqOK(q, link, opened, m)
      BY <2>1, <2>2 DEF ReqOK
    <2> QED BY <2>3 DEF q
  <1>3. ASSUME NEW r \in Req
        PROVE  /\ Ended(S)[r] = req[r] \/ Ended(S)[r] = Idle
               /\ req[r].stage # "stream" => Ended(S)[r] = req[r]
               /\ Ended(S)[r].stage = "stream" => Ended(S)[r].link \notin S
    BY <1>1 DEF Ended
  <1>4. Ended(S) \in [Req -> Reqs]
    BY <1>1 DEF Ended
  <1> QED BY <1>1, <1>2, <1>3, <1>4

(* The pool found its entry, made a link if there was none for the         *)
(* server's fields, closed the other one, and may have asked its own to    *)
(* connect.                                                                *)
LEMMA LookKeeps ==
    ASSUME PoolInv, CanFind, NEW e \in Entries, e.link = Found.link, e.fields = server.fields, Put(e),
           UNCHANGED <<opened, server, fields, edit>>, installed' \in 0..MaxInstall, Without(Stale),
           \/ link' = ShutAll(Stale)
           \/ /\ ~Ready(link[Found.link])
              /\ link' = [ShutAll(Stale) EXCEPT ![Found.link] = Connecting(@)],
           req' \in [Req -> Reqs],
           \A r \in Req : /\ ReqOK(req'[r], link, opened, made')
                          /\ req'[r].stage = "stream" => req'[r].link \notin Stale,
           job' \in Jobs, job'.link <= made',
           job'.stage # "idle" /\ job'.link = e.link => job'.fields = e.fields
    PROVE  PoolInv'
  <1> DEFINE f == Found.link
             L == ShutAll(Stale)
  <1>1. /\ f \in Link /\ f \notin Stale /\ Stale \subseteq Link /\ \A l \in Stale : l <= made
        /\ e.link = f
    BY FoundOK
  <1>2. /\ made' \in Link /\ made <= made' /\ f <= made' /\ made \in Link
        /\ (Matches => made' = made) /\ (~Matches => made' = made + 1 /\ f = made + 1)
    BY PutOK, FoundOK DEF PoolInv, PoolOK
  <1>3. /\ L \in [Link -> Links] /\ running' \subseteq running
        /\ \A l \in Link : /\ Becomes(link[l], L[l], running')
                           /\ l \in Stale => L[l].closed
                           /\ l \notin Stale => L[l] = link[l]
    BY <1>1, ShutAllOK DEF PoolInv
  <1> HIDE DEF L, f
  <1>4. /\ link' \in [Link -> Links]
        /\ \A l \in Link : /\ Becomes(link[l], link'[l], running')
                           /\ l \notin Stale => Quiet(link[l], link'[l])
                           /\ l \in Stale => link'[l].closed
                           /\ l # f /\ l \notin Stale => link'[l] = link[l]
    <2>1. CASE link' = L
      <3>1. \A l \in Link : Quiet(link[l], link[l])
        BY Same DEF PoolInv
      <3> QED BY <1>3, <2>1, <3>1
    <2>2. CASE ~Ready(link[f]) /\ link' = [L EXCEPT ![f] = Connecting(@)]
      <3> DEFINE k == Connecting(link[f])
      <3>1. Becomes(link[f], k, running') /\ Quiet(link[f], k)
        BY <1>1, <2>2, Attempted DEF PoolInv
      <3>2. k \in Links
        BY <3>1 DEF Becomes, Sane
      <3>3. link' = [L EXCEPT ![f] = k]
        BY <1>1, <1>3, <2>2
      <3> HIDE DEF k
      <3>4. link' \in [Link -> Links] /\ link'[f] = k /\ \A l \in Link : l # f => link'[l] = L[l]
        BY <1>1, <1>3, <3>2, <3>3
      <3>5. \A l \in Link : Quiet(link[l], link[l])
        BY Same DEF PoolInv
      <3> QED BY <1>1, <1>3, <3>1, <3>4, <3>5
    <2> QED BY <2>1, <2>2 DEF L, f
  <1>5. Follows(made')
    <2>1. \A r \in Req : req'[r].link \in Link
      BY DEF Reqs
    <2>2. \A r \in Req : /\ ReqOK(req'[r], link, opened, made')
                         /\ req'[r].stage = "stream" => Quiet(link[req'[r].link], link'[req'[r].link])
      BY <1>4, <2>1
    <2> QED BY <1>3, <1>4, <2>2 DEF Follows
  <1>6. LinksOK' /\ ReqsOK'
    BY <1>5, Carried DEF PoolInv
  <1>7. entry' = e /\ e # NoEntry /\ e.link = f
    BY <1>1, PoolAssumption DEF Put
  <1>8. PoolOwnsLinks'
    <2> SUFFICES ASSUME NEW l \in Link, l <= made'
                 PROVE  ~link'[l].closed <=> l = f
      BY <1>2, <1>7, Numbers DEF PoolOwnsLinks, Link, PoolInv
    <2>1. /\ made \in Nat /\ l \in Nat
          /\ l <= made => (~link[l].closed <=> entry # NoEntry /\ entry.link = l)
          /\ l > made => ~link[l].closed
      BY <1>2, Numbers DEF PoolInv, PoolOK, PoolOwnsLinks, Fresh, Link
    <2>2. link'[l].closed <=> link[l].closed \/ l \in Stale
      BY <1>4 DEF Quiet
    <2>3. CASE Matches
      <3>1. Stale = {} /\ f = entry.link /\ entry # NoEntry /\ l <= made
        BY <1>2, <2>3, FoundOK DEF f, Matches
      <3> QED BY <2>1, <2>2, <3>1
    <2>4. CASE ~Matches
      <3>1. Stale = IF entry = NoEntry THEN {} ELSE {entry.link}
        BY <2>4 DEF Stale
      <3>2. f = made + 1
        BY <1>2, <2>4
      <3>3. CASE l = f
        BY <1>1, <2>1, <2>2, <3>2, <3>3
      <3>4. CASE l # f
        <4>1. l <= made
          BY <1>2, <2>1, <2>4, <3>2, <3>4
        <4> QED BY <2>1, <2>2, <3>1, <3>4, <4>1
      <3> QED BY <3>3, <3>4
    <2> QED BY <2>3, <2>4
  <1>9. \A l \in Link : l > made' => link'[l] = Fresh
    <2> SUFFICES ASSUME NEW l \in Link, l > made'
                 PROVE  link'[l] = Fresh
      OBVIOUS
    <2>1. l > made /\ l # f /\ l \notin Stale
      BY <1>1, <1>2, Numbers DEF Link, PoolInv
    <2> QED BY <1>4, <2>1 DEF PoolInv, PoolOK
  <1>10. PoolOK'
    BY <1>2, <1>7, <1>8, <1>9 DEF PoolInv, PoolOK
  <1>11. JobOK'
    BY <1>7 DEF JobOK
  <1> QED BY <1>6, <1>10, <1>11 DEF PoolInv

(* The job may go on while the pool looks, or end.                         *)
LEMMA JobKeeps ==
    ASSUME PoolInv, CanFind, NEW e \in Entries, e.link = Found.link, e.fields = server.fields, Put(e)
    PROVE  /\ job \in Jobs /\ job.link <= made'
           /\ job.stage # "idle" /\ job.link = e.link => job.fields = e.fields
           /\ NoJob \in Jobs /\ NoJob.link <= made' /\ NoJob.stage = "idle"
  <1>1. made' \in Link /\ made <= made' /\ made \in Link /\ 1 \in 1..MaxFields
    BY PutOK, PoolAssumption DEF PoolInv, PoolOK
  <1>2. job \in Jobs /\ job.link \in Link /\ job.link <= made
    BY DEF PoolInv, PoolOK, JobOK, Jobs
  <1>3. job.stage # "idle" /\ job.link = e.link => job.fields = e.fields
    <2>1. CASE Matches
      BY <2>1, FoundOK DEF PoolInv, JobOK, Matches
    <2>2. CASE ~Matches
      <3>1. job.link # e.link
        BY <1>1, <1>2, <2>2, FoundOK, Numbers DEF PoolInv, Link
      <3> QED BY <3>1
    <2> QED BY <2>1, <2>2
  <1>4. NoJob \in Jobs /\ NoJob.link <= made' /\ NoJob.stage = "idle"
    BY <1>1, Numbers DEF NoJob, Jobs, PoolInv, Link
  <1>5. job.link <= made'
    BY <1>1, <1>2, Numbers DEF PoolInv, Link
  <1> QED BY <1>2, <1>3, <1>4, <1>5

(* A link that is ready is not a new one.                                  *)
LEMMA ReadyFound ==
    ASSUME PoolInv, CanFind, Ready(link[Found.link])
    PROVE  ShutAll(Stale) = link
  <1>1. Matches
    <2> SUFFICES ASSUME ~Matches
                 PROVE  FALSE
      OBVIOUS
    <2>1. Found.link \in Link /\ Found.link > made
      BY FoundOK, Numbers DEF PoolInv, PoolOK, Link
    <2> QED BY <2>1 DEF PoolInv, PoolOK, Ready, Fresh
  <1>2. Stale = {}
    BY <1>1, FoundOK
  <1> QED BY <1>2 DEF ShutAll, PoolInv, LinksOK

LEMMA AskStep ==
    ASSUME PoolInv, NEW r \in Req, NEW kind \in {"read", "write", "upgrade", "info"}, Ask(r, kind)
    PROVE  PoolInv'
  <1> DEFINE f == Found.link
             ready == Ready(link[f])
  <1>1. /\ CanFind /\ req[r].stage = "idle" /\ Without(Stale)
        /\ UNCHANGED <<opened, installed, server, fields, edit, job>>
    BY DEF Ask
  <1>2. /\ server \in Servers /\ Found \in Entries /\ Found.fields = server.fields
        /\ f \in Link /\ f \notin Stale /\ Stale \subseteq Link
        /\ installed' \in 0..MaxInstall
    BY <1>1, FoundOK DEF PoolInv, LinksOK
  <1>3. CASE Found.missing /\ ~ready
    <2> DEFINE e == [Found EXCEPT !.basic = TRUE]
    <2>1. Put(e) /\ link' = link /\ req' = req
      BY <1>3 DEF Ask
    <2>2. e \in Entries /\ e.link = f /\ e.fields = server.fields
      BY <1>2 DEF Entries
    <2> HIDE DEF e
    <2>3. Stale = {}
      BY <1>1, <1>3, FoundOK
    <2>4. link' = ShutAll(Stale)
      BY <2>1, <2>3 DEF ShutAll, PoolInv, LinksOK
    <2>5. made' \in Link /\ made <= made'
      BY <1>1, <2>1, <2>2, PutOK DEF f
    <2>6. Ended(Stale) = req
      BY <2>3 DEF Ended, PoolInv, ReqsOK
    <2>7. /\ req' \in [Req -> Reqs]
          /\ \A s \in Req : /\ ReqOK(req'[s], link, opened, made')
                            /\ req'[s].stage = "stream" => req'[s].link \notin Stale
      BY <2>1, <2>5, <2>6, EndedOK DEF PoolInv, PoolOK
    <2> QED BY <1>1, <1>2, <2>1, <2>2, <2>4, <2>7, LookKeeps, JobKeeps DEF f
  <1>4. CASE ~(Found.missing /\ ~ready)
    <2> DEFINE stage == IF ready THEN "routed" ELSE "mode"
               p == [Idle EXCEPT !.stage = stage, !.kind = kind, !.link = f]
    <2>1. /\ Put(Found)
          /\ link' = IF ready THEN link ELSE [ShutAll(Stale) EXCEPT ![f] = Connecting(@)]
          /\ req' = [Ended(Stale) EXCEPT ![r] = p]
      BY <1>4 DEF Ask
    <2>2. made' \in Link /\ made <= made' /\ f <= made' /\ made \in Link
      BY <1>1, <2>1, PutOK DEF PoolInv, PoolOK
    <2>3. link' = ShutAll(Stale) \/ (~ready /\ link' = [ShutAll(Stale) EXCEPT ![f] = Connecting(@)])
      <3>1. CASE ready
        BY <1>1, <2>1, <3>1, ReadyFound
      <3>2. CASE ~ready
        BY <2>1, <3>2
      <3> QED BY <3>1, <3>2
    <2>4. ReqOK(p, link, opened, made')
      <3>1. /\ Idle \in Reqs /\ Idle.over = 0 /\ Idle.times = 0 /\ stage \in {"routed", "mode"}
        BY <2>2, IdleOK DEF PoolInv, Idle
      <3> HIDE DEF stage, f
      <3>2. p \in Reqs /\ p.stage = stage /\ p.link = f /\ p.over = 0 /\ p.times = 0
        BY <1>2, <3>1 DEF Reqs
      <3> HIDE DEF p
      <3> QED BY <2>2, <3>1, <3>2, Numbers DEF ReqOK, Times, PoolInv
    <2>5. /\ p \in Reqs /\ p.stage # "stream"
      <3>1. stage \in {"routed", "mode"}
        OBVIOUS
      <3>2. p \in Reqs
        BY <2>4 DEF ReqOK
      <3>3. p.stage = stage
        BY DEF Idle
      <3> QED BY <3>1, <3>2, <3>3
    <2> HIDE DEF p
    <2>6. /\ Ended(Stale) \in [Req -> Reqs]
          /\ \A s \in Req : /\ ReqOK(Ended(Stale)[s], link, opened, made')
                            /\ Ended(Stale)[s].stage = "stream" => Ended(Stale)[s].link \notin Stale
      BY <2>2, EndedOK DEF PoolInv
    <2>7. /\ req' \in [Req -> Reqs]
          /\ \A s \in Req : /\ ReqOK(req'[s], link, opened, made')
                            /\ req'[s].stage = "stream" => req'[s].link \notin Stale
      BY <2>1, <2>4, <2>5, <2>6
    <2> QED BY <1>1, <1>2, <2>1, <2>3, <2>7, LookKeeps, JobKeeps DEF f
  <1> QED BY <1>3, <1>4

(* The requests while the pool looks, but for what becomes of r.           *)
LEMMA LookReqs ==
    ASSUME PoolInv, made' \in Link, made <= made', NEW r \in Req, NEW p,
           ReqOK(p, link, opened, made'), p.stage # "stream",
           req' = [Ended(Stale) EXCEPT ![r] = p] \/ req' = Ended(Stale)
    PROVE  /\ req' \in [Req -> Reqs]
           /\ \A s \in Req : /\ ReqOK(req'[s], link, opened, made')
                             /\ req'[s].stage = "stream" => req'[s].link \notin Stale
  <1>1. p \in Reqs
    BY DEF ReqOK
  <1>2. /\ Ended(Stale) \in [Req -> Reqs]
        /\ \A s \in Req : /\ ReqOK(Ended(Stale)[s], link, opened, made')
                          /\ Ended(Stale)[s].stage = "stream" => Ended(Stale)[s].link \notin Stale
    BY EndedOK DEF PoolInv, PoolOK
  <1> QED BY <1>1, <1>2

LEMMA RouteStep ==
    ASSUME PoolInv, NEW r \in Req, Route(r)
    PROVE  PoolInv'
  <1> DEFINE f == Found.link
  <1>1. /\ req[r].stage \in {"routed", "basic"}
        /\ UNCHANGED <<opened, installed, server, fields, edit, job>>
    BY DEF Route
  <1>2. installed' \in 0..MaxInstall /\ made \in Link
    BY <1>1 DEF PoolInv, PoolOK, LinksOK
  <1>3. CASE ~CanFind
    <2>1. req' = [req EXCEPT ![r] = Idle] /\ UNCHANGED <<link, running, entry, made>>
      BY <1>3 DEF Route
    <2>2. Follows(made) /\ Calm
      BY <1>1, <2>1, EndsStep DEF PoolInv
    <2>3. LinksOK' /\ ReqsOK'
      BY <2>1, <2>2, Carried DEF PoolInv
    <2>4. PoolOK' /\ JobOK'
      BY <1>1, <2>1, <2>2, CalmKeeps DEF PoolInv
    <2> QED BY <2>3, <2>4 DEF PoolInv
  <1>4. CASE CanFind
    <2>1. /\ Found \in Entries /\ Found.fields = server.fields
          /\ f \in Link /\ f \notin Stale /\ Stale \subseteq Link
      BY <1>4, FoundOK
    <2>2. CASE req[r].stage = "basic"
      <3> DEFINE e == [Found EXCEPT !.basic = TRUE]
      <3>1. /\ Put(e) /\ link' = ShutAll(Stale) /\ req' = [Ended(Stale) EXCEPT ![r] = Idle]
            /\ Without(Stale)
        BY <1>4, <2>2 DEF Route
      <3>2. e \in Entries /\ e.link = f /\ e.fields = server.fields
        BY <2>1 DEF Entries
      <3> HIDE DEF e
      <3>3. made' \in Link /\ made <= made'
        BY <1>4, <3>1, <3>2, PutOK
      <3>4. ReqOK(Idle, link, opened, made') /\ Idle.stage # "stream"
        BY <1>2, <3>3, IdleOK DEF PoolInv
      <3>5. /\ req' \in [Req -> Reqs]
            /\ \A s \in Req : /\ ReqOK(req'[s], link, opened, made')
                              /\ req'[s].stage = "stream" => req'[s].link \notin Stale
        BY <3>1, <3>3, <3>4, LookReqs
      <3> QED BY <1>1, <1>2, <1>4, <3>1, <3>2, <3>5, LookKeeps, JobKeeps DEF f
    <2>3. CASE req[r].stage = "routed"
      <3> DEFINE q == req[r]
                 p == [q EXCEPT !.stage = "ensure", !.link = f]
      <3>1. /\ Put(Found) /\ Without(Stale)
            /\ link' = IF Ready(link[f]) THEN link ELSE [ShutAll(Stale) EXCEPT ![f] = Connecting(@)]
            /\ req' = [Ended(Stale) EXCEPT ![r] = [@ EXCEPT !.stage = "ensure", !.link = f]]
        BY <1>4, <2>3 DEF Route
      <3>2. made' \in Link /\ made <= made' /\ f <= made'
        BY <1>4, <3>1, PutOK
      <3>3. link' = ShutAll(Stale) \/ (~Ready(link[f]) /\ link' = [ShutAll(Stale) EXCEPT ![f] = Connecting(@)])
        <4>1. CASE Ready(link[f])
          BY <1>4, <3>1, <4>1, ReadyFound
        <4>2. CASE ~Ready(link[f])
          BY <3>1, <4>2
        <4> QED BY <4>1, <4>2
      <3>4. req' = [Ended(Stale) EXCEPT ![r] = p]
        <4>1. Ended(Stale)[r] = q /\ Ended(Stale) \in [Req -> Reqs]
          BY <1>2, <2>3, <3>2, EndedOK DEF PoolInv
        <4> QED BY <3>1, <4>1
      <3>5. ReqOK(p, link, opened, made') /\ p.stage # "stream"
        <4>1. q \in Reqs /\ ReqOK(q, link, opened, made) /\ q.stage = "routed"
          BY <2>3 DEF PoolInv, ReqsOK
        <4> HIDE DEF q, f
        <4>2. /\ p \in Reqs /\ p.stage = "ensure" /\ p.link = f /\ p.over = q.over /\ p.times = q.times
          BY <2>1, <4>1 DEF Reqs
        <4> HIDE DEF p
        <4> QED BY <3>2, <4>1, <4>2 DEF ReqOK, Times
      <3> HIDE DEF p
      <3>6. /\ req' \in [Req -> Reqs]
            /\ \A s \in Req : /\ ReqOK(req'[s], link, opened, made')
                              /\ req'[s].stage = "stream" => req'[s].link \notin Stale
        BY <3>2, <3>4, <3>5, LookReqs
      <3> QED BY <1>1, <1>2, <1>4, <2>1, <3>1, <3>3, <3>6, LookKeeps, JobKeeps DEF f
    <2> QED BY <1>1, <2>2, <2>3
  <1> QED BY <1>3, <1>4

(* A step of the job for which the pool looks first; the machine may have  *)
(* a new installation.                                                     *)
LEMMA NextStepKeeps ==
    ASSUME PoolInv, NEW stage \in {"pack", "upload", "install", "told"}, NEW e,
           e = Found \/ e = [Found EXCEPT !.missing = FALSE],
           job.stage # "idle", NextStep(stage, e),
           UNCHANGED <<opened, server, fields, edit>>, installed' \in 0..MaxInstall
    PROVE  PoolInv'
  <1>1. CASE ~Usable
    <2>1. job' = NoJob /\ UNCHANGED <<link, req, running, entry, made>>
      BY <1>1 DEF NextStep
    <2>2. NoJob \in Jobs /\ NoJob.link <= made /\ NoJob.stage = "idle"
      BY PoolAssumption, Numbers DEF NoJob, Jobs, PoolInv, PoolOK, Link
    <2> HIDE DEF NoJob
    <2>3. \A l \in Link : Becomes(link[l], link'[l], running') /\ Quiet(link[l], link'[l])
      BY <2>1, Same DEF PoolInv
    <2>4. LinksOK'
      BY <2>1, <2>3, LinksKeep DEF PoolInv, LinksOK
    <2>5. ReqsOK'
      BY <2>1 DEF PoolInv, ReqsOK
    <2>6. PoolOK'
      BY <2>1, <2>2 DEF PoolInv, PoolOK, PoolOwnsLinks
    <2>7. JobOK'
      BY <2>1, <2>2 DEF JobOK
    <2> QED BY <2>4, <2>5, <2>6, <2>7 DEF PoolInv
  <1>2. CASE Usable
    <2> DEFINE put == IF Found.link = job.link THEN e ELSE Found
    <2>1. /\ CanFind /\ Put(put) /\ link' = ShutAll(Stale) /\ req' = Ended(Stale) /\ Without(Stale)
          /\ job' = IF Found.link = job.link THEN [job EXCEPT !.stage = stage] ELSE NoJob
      BY <1>2 DEF NextStep
    <2>2. Found \in Entries /\ Found.fields = server.fields
      BY <2>1, FoundOK
    <2>3. e \in Entries /\ e.link = Found.link /\ e.fields = server.fields
      BY <2>2 DEF Entries
    <2>4. put \in Entries /\ put.link = Found.link /\ put.fields = server.fields
      BY <2>2, <2>3
    <2> HIDE DEF put
    <2>5. /\ job \in Jobs /\ job.link <= made'
          /\ job.stage # "idle" /\ job.link = put.link => job.fields = put.fields
          /\ NoJob \in Jobs /\ NoJob.link <= made' /\ NoJob.stage = "idle"
      BY <2>1, <2>4, JobKeeps
    <2>6. made' \in Link /\ made <= made' /\ made \in Link
      BY <2>1, <2>4, PutOK DEF PoolInv, PoolOK
    <2>7. /\ req' \in [Req -> Reqs]
          /\ \A s \in Req : /\ ReqOK(req'[s], link, opened, made')
                            /\ req'[s].stage = "stream" => req'[s].link \notin Stale
      BY <2>1, <2>6, EndedOK DEF PoolInv
    <2>8. /\ job' \in Jobs /\ job'.link <= made'
          /\ job'.stage # "idle" /\ job'.link = put.link => job'.fields = put.fields
      <3>1. CASE Found.link = job.link
        <4>1. /\ job' \in Jobs /\ job'.link = job.link /\ job'.fields = job.fields /\ job'.stage = stage
          BY <2>1, <2>5, <3>1 DEF Jobs
        <4> HIDE DEF NoJob
        <4> QED BY <2>5, <3>1, <4>1
      <3>2. CASE Found.link # job.link
        BY <2>1, <2>5, <3>2
      <3> QED BY <3>1, <3>2
    <2> QED BY <2>1, <2>4, <2>7, <2>8, LookKeeps
  <1> QED BY <1>1, <1>2

LEMMA StartJobStep ==
    ASSUME PoolInv, StartJob
    PROVE  PoolInv'
  <1> DEFINE e == [Found EXCEPT !.basic = TRUE]
  <1>1. /\ CanFind /\ Put(e) /\ link' = ShutAll(Stale) /\ req' = Ended(Stale) /\ Without(Stale)
        /\ UNCHANGED <<opened, installed, server, fields, edit>>
        /\ job' = [stage |-> "detect", link |-> Found.link, fields |-> server.fields]
    BY DEF StartJob
  <1>2. e \in Entries /\ e.link = Found.link /\ e.fields = server.fields
    BY <1>1, FoundOK DEF Entries
  <1> HIDE DEF e
  <1>3. made' \in Link /\ made <= made' /\ made \in Link /\ Found.link <= made'
    BY <1>1, <1>2, PutOK DEF PoolInv, PoolOK
  <1>4. /\ req' \in [Req -> Reqs]
        /\ \A s \in Req : /\ ReqOK(req'[s], link, opened, made')
                          /\ req'[s].stage = "stream" => req'[s].link \notin Stale
    BY <1>1, <1>3, EndedOK DEF PoolInv
  <1>5. /\ job' \in Jobs /\ job'.link <= made'
        /\ job'.stage # "idle" /\ job'.link = e.link => job'.fields = e.fields
    <2>1. Found.link \in Link /\ server.fields \in 1..MaxFields
      BY <1>1, FoundOK DEF Servers
    <2> QED BY <1>1, <1>2, <1>3, <2>1 DEF Jobs
  <1>6. installed' \in 0..MaxInstall
    BY <1>1 DEF PoolInv, LinksOK
  <1> QED BY <1>1, <1>2, <1>4, <1>5, <1>6, LookKeeps

(* The pool's record of the server alone changes.                          *)
LEMMA LinksAlone ==
    ASSUME PoolInv, UNCHANGED <<link, req, running, opened, made>>, installed' \in 0..MaxInstall
    PROVE  LinksOK' /\ ReqsOK' /\ Calm
  <1>1. \A l \in Link : Becomes(link[l], link'[l], running') /\ Quiet(link[l], link'[l])
    BY Same DEF PoolInv
  <1>2. LinksOK'
    BY <1>1, LinksKeep DEF PoolInv, LinksOK
  <1> QED BY <1>2 DEF PoolInv, ReqsOK, Calm

LEMMA EditStep ==
    ASSUME PoolInv, BeginEdit \/ RefuseEdit
    PROVE  PoolInv'
  <1>1. /\ UNCHANGED <<link, req, running, opened, installed, made, entry, job>>
        /\ server' \in Servers \cup {NoServer} /\ edit' \in Servers \cup {NoServer, NoEdit}
        /\ fields' \in 1..MaxFields
    <2>1. CASE BeginEdit
      <3>1. UNCHANGED <<link, req, running, opened, installed, made, entry, job>> /\ edit' = server
        BY <2>1 DEF BeginEdit, linkVars
      <3>2. /\ fields \in 1..MaxFields /\ server \in Servers \cup {NoServer}
            /\ NoServer \notin Servers
        BY PoolAssumption DEF PoolInv, PoolOK
      <3>3. \/ fields < MaxFields /\ fields' = fields + 1
               /\ \E on \in BOOLEAN : server' = [fields |-> fields + 1, on |-> on]
            \/ server # NoServer /\ server' \in {[server EXCEPT !.on = ~@], NoServer} /\ fields' = fields
        BY <2>1 DEF BeginEdit
      <3>4. CASE fields < MaxFields /\ fields' = fields + 1
                 /\ \E on \in BOOLEAN : server' = [fields |-> fields + 1, on |-> on]
        <4>1. fields' \in 1..MaxFields
          BY <3>2, <3>4, PoolAssumption
        <4> QED BY <3>1, <3>2, <3>4, <4>1 DEF Servers
      <3>5. CASE server # NoServer /\ server' \in {[server EXCEPT !.on = ~@], NoServer} /\ fields' = fields
        <4>1. [server EXCEPT !.on = ~@] \in Servers
          BY <3>2, <3>5 DEF Servers
        <4> QED BY <3>1, <3>2, <3>5, <4>1
      <3> QED BY <3>3, <3>4, <3>5
    <2>2. CASE RefuseEdit
      BY <2>2 DEF RefuseEdit, linkVars, PoolInv, PoolOK
    <2> QED BY <2>1, <2>2
  <1>2. LinksOK' /\ ReqsOK'
    BY <1>1, LinksAlone DEF PoolInv, LinksOK
  <1>3. PoolOK'
    BY <1>1 DEF PoolInv, PoolOK, PoolOwnsLinks
  <1>4. JobOK'
    BY <1>1 DEF PoolInv, JobOK
  <1> QED BY <1>2, <1>3, <1>4 DEF PoolInv

LEMMA CommitEditStep ==
    ASSUME PoolInv, CommitEdit
    PROVE  PoolInv'
  <1> DEFINE gone == IF entry = NoEntry THEN {} ELSE {entry.link}
  <1>1. /\ edit' = NoEdit /\ entry' = NoEntry /\ link' = ShutAll(gone) /\ req' = Ended(gone)
        /\ Without(gone) /\ UNCHANGED <<opened, installed, server, fields, made, job>>
    BY DEF CommitEdit
  <1>2. /\ gone \subseteq Link /\ made \in Link /\ \A l \in gone : l <= made
        /\ installed' \in 0..MaxInstall
    BY <1>1 DEF PoolInv, PoolOK, Entries, LinksOK
  <1>3. \A l \in Link : l <= made => (~link[l].closed <=> l \in gone)
    BY Numbers DEF PoolInv, PoolOK, PoolOwnsLinks, Link
  <1> HIDE DEF gone
  <1>4. /\ ShutAll(gone) \in [Link -> Links] /\ running' \subseteq running
        /\ \A l \in Link : /\ Becomes(link[l], link'[l], running')
                           /\ l \in gone => link'[l].closed
                           /\ l \notin gone => link'[l] = link[l]
    BY <1>1, <1>2, ShutAllOK DEF PoolInv
  <1>5. /\ req' \in [Req -> Reqs]
        /\ \A s \in Req : /\ ReqOK(req'[s], link, opened, made)
                          /\ req'[s].stage = "stream" => req'[s].link \notin gone
    <2>1. made <= made
      BY <1>2, Numbers DEF PoolInv, Link
    <2> QED BY <1>1, <1>2, <2>1, EndedOK DEF PoolInv
  <1>6. Follows(made)
    <2>1. \A r \in Req : req'[r].link \in Link
      BY <1>5 DEF Reqs
    <2>2. \A l \in Link : Quiet(link[l], link[l])
      BY Same DEF PoolInv
    <2> QED BY <1>1, <1>2, <1>4, <1>5, <2>1, <2>2 DEF Follows
  <1>7. LinksOK' /\ ReqsOK'
    BY <1>1, <1>6, Carried DEF PoolInv
  <1>8. PoolOK'
    <2>1. \A l \in Link : l > made => link'[l] = Fresh
      BY <1>2, <1>4, Numbers DEF PoolInv, PoolOK, Link
    <2>2. PoolOwnsLinks'
      <3>1. \A l \in 1..made : l \in Link /\ l <= made
        BY <1>2, Numbers DEF PoolInv, Link
      <3> QED BY <1>1, <1>3, <1>4, <3>1 DEF PoolOwnsLinks
    <2> QED BY <1>1, <2>1, <2>2 DEF PoolInv, PoolOK
  <1>9. JobOK'
    BY <1>1 DEF PoolInv, JobOK
  <1> QED BY <1>7, <1>8, <1>9 DEF PoolInv

LEMMA NotInstalledStep ==
    ASSUME PoolInv, NEW l \in Link, NotInstalled(l)
    PROVE  PoolInv'
  <1> DEFINE m == NoAttempt(link[l])
  <1>1. /\ link[l].attempt = "absent" /\ link' = [link EXCEPT ![l] = m]
        /\ UNCHANGED <<running, opened, installed, server, fields, edit, made, job>>
    BY DEF NotInstalled
  <1>2. l <= made /\ made \in Link /\ installed' \in 0..MaxInstall
    BY <1>1, OldLink DEF PoolInv, PoolOK, LinksOK, Fresh
  <1>3. Becomes(link[l], m, running') /\ Quiet(link[l], m)
    BY <1>1, Attempted DEF PoolInv
  <1> HIDE DEF m
  <1>4. \A r \in Req : \/ req'[r] = req[r] \/ req'[r] = Idle
                       \/ req[r].stage = "mode" /\ req'[r] = [req[r] EXCEPT !.stage = "basic"]
    BY DEF NotInstalled
  <1>5. req' \in [Req -> Reqs]
    <2>1. /\ req \in [Req -> Reqs] /\ Idle \in Reqs
          /\ \A r \in Req : [req[r] EXCEPT !.stage = "basic"] \in Reqs
      BY <1>2, IdleOK DEF PoolInv, ReqsOK, Reqs
    <2>2. \A r \in Req : req'[r] \in Reqs
      BY <1>4, <2>1
    <2> QED BY <2>2 DEF NotInstalled
  <1>6. \A r \in Req : ReqOK(req'[r], link, opened, made)
    BY <1>2, <1>4, <1>5, OldReqs DEF PoolInv
  <1>7. Follows(made)
    BY <1>1, <1>2, <1>3, <1>5, <1>6, QuietStep DEF PoolInv
  <1>8. Calm
    BY <1>1, <1>2, <1>3, Numbers DEF Calm, Quiet, PoolInv, PoolOK, LinksOK, Link
  <1>9. LinksOK' /\ ReqsOK'
    BY <1>1, <1>7, Carried DEF PoolInv
  <1>10. \/ entry' = entry
         \/ entry # NoEntry /\ \E b \in BOOLEAN : entry' = [entry EXCEPT !.missing = b]
    BY DEF NotInstalled
  <1>11. PoolOK' /\ JobOK'
    BY <1>1, <1>8, <1>10, CalmKeeps DEF PoolInv
  <1> QED BY <1>9, <1>11 DEF PoolInv

LEMMA PoolStepKeeps ==
    ASSUME PoolInv, PoolStep
    PROVE  PoolInv'
  <1>1. CASE \E r \in Req, kind \in {"read", "write", "upgrade", "info"} : Ask(r, kind)
    BY <1>1, AskStep
  <1>2. CASE \E r \in Req : Route(r)
    BY <1>2, RouteStep
  <1>3. CASE \E l \in Link : NotInstalled(l)
    BY <1>3, NotInstalledStep
  <1>4. CASE MissingIsOld
    <2>1. /\ entry # NoEntry /\ \E b \in BOOLEAN : entry' = [entry EXCEPT !.missing = b]
          /\ UNCHANGED <<link, req, running, opened, installed, server, fields, edit, made, job>>
      BY <1>4 DEF MissingIsOld, linkVars
    <2>2. LinksOK' /\ ReqsOK' /\ Calm
      BY <2>1, LinksAlone DEF PoolInv, LinksOK
    <2>3. PoolOK' /\ JobOK'
      BY <2>1, <2>2, CalmKeeps DEF PoolInv
    <2> QED BY <2>2, <2>3 DEF PoolInv
  <1>5. CASE BeginEdit \/ RefuseEdit
    BY <1>5, EditStep
  <1>6. CASE CommitEdit
    BY <1>6, CommitEditStep
  <1>7. CASE StartJob
    BY <1>7, StartJobStep
  <1>8. CASE StepDone
    <2>1. /\ job.stage \in {"detect", "pack", "read"} /\ NextStep(Following[job.stage], Found)
          /\ UNCHANGED <<opened, installed, server, fields, edit>>
      BY <1>8 DEF StepDone, Following
    <2>2. Following[job.stage] \in {"pack", "upload", "install", "told"}
      BY <2>1 DEF Following
    <2>3. installed' \in 0..MaxInstall /\ job.stage # "idle"
      BY <2>1 DEF PoolInv, LinksOK
    <2> QED BY <2>1, <2>2, <2>3, NextStepKeeps
  <1>9. CASE InstallDone
    <2>1. /\ job.stage = "install" /\ installed < MaxInstall /\ installed' = installed + 1
          /\ NextStep("told", [Found EXCEPT !.missing = FALSE])
          /\ UNCHANGED <<opened, server, fields, edit>>
      BY <1>9 DEF InstallDone
    <2>2. installed' \in 0..MaxInstall
      BY <2>1, Numbers DEF PoolInv, LinksOK
    <2> QED BY <2>1, <2>2, NextStepKeeps
  <1>10. CASE Uploaded \/ JobFails \/ JobOver
    <2>1. UNCHANGED <<link, req, running, opened, installed, server, fields, edit, entry, made>>
      BY <1>10 DEF Uploaded, JobFails, JobOver, linkVars
    <2>2. LinksOK' /\ ReqsOK'
      BY <2>1, LinksAlone DEF PoolInv, LinksOK
    <2>3. \/ job.stage = "upload" /\ job' = [job EXCEPT !.stage = "read"]
          \/ job' = NoJob
      BY <1>10 DEF Uploaded, JobFails, JobOver
    <2>4. /\ job \in Jobs /\ job.link <= made
          /\ NoJob \in Jobs /\ NoJob.link <= made /\ NoJob.stage = "idle"
      BY PoolAssumption, Numbers DEF NoJob, Jobs, PoolInv, PoolOK, JobOK, Link
    <2>5. job' \in Jobs
      BY <2>3, <2>4 DEF Jobs
    <2>6. PoolOK'
      BY <2>1, <2>5 DEF PoolInv, PoolOK, PoolOwnsLinks
    <2>7. JobOK'
      <3>1. CASE job.stage = "upload" /\ job' = [job EXCEPT !.stage = "read"]
        <4>1. job'.link = job.link /\ job'.fields = job.fields
          BY <2>4, <3>1 DEF Jobs
        <4> QED BY <2>1, <2>4, <3>1, <4>1 DEF PoolInv, JobOK
      <3>2. CASE job' = NoJob
        BY <2>1, <2>4, <3>2 DEF JobOK
      <3> QED BY <2>3, <3>1, <3>2
    <2> QED BY <2>2, <2>6, <2>7 DEF PoolInv
  <1>11. CASE Reinstalled
    <2>1. /\ installed < MaxInstall /\ installed' = installed + 1
          /\ UNCHANGED <<link, req, running, opened, server, fields, edit, entry, made, job>>
      BY <1>11 DEF Reinstalled, poolVars
    <2>2. installed' \in 0..MaxInstall
      BY <2>1, Numbers DEF PoolInv, LinksOK
    <2>3. LinksOK' /\ ReqsOK' /\ Calm
      BY <2>1, <2>2, LinksAlone
    <2>4. PoolOK' /\ JobOK'
      BY <2>1, <2>3, CalmKeeps DEF PoolInv
    <2> QED BY <2>3, <2>4 DEF PoolInv
  <1> QED BY <1>1, <1>2, <1>3, <1>4, <1>5, <1>6, <1>7, <1>8, <1>9, <1>10, <1>11 DEF PoolStep

-----------------------------------------------------------------------------
(* Whoever waits is heard *)

(* The request q waits for its link to connect, which is under way over    *)
(* the links L, or it is the first to go on now that it is connected.      *)
Heard(q, L) ==
    /\ q.stage = "mode" => L[q.link].attempt # "none"
    /\ q.stage = "ensure" => L[q.link].attempt # "none" \/ Ready(L[q.link])

EveryoneIsHeard == \A r \in Req : Heard(req[r], link)

(* Nobody goes on over a link this moment.                                 *)
NobodyGoesOn == ~ \E r \in Req : req[r].stage = "ensure" /\ Ready(link[req[r].link])

(* A step while nobody goes on: who still waits does for an attempt that   *)
(* goes on or just succeeded.                                              *)
LEMMA StillHeard ==
    ASSUME EveryoneIsHeard, NobodyGoesOn,
           \A r \in Req :
             \/ req'[r].stage \notin {"mode", "ensure"}
             \/ Heard(req'[r], link')
             \/ /\ req'[r] = req[r]
                /\ link[req[r].link].attempt # "none" => link'[req[r].link].attempt # "none"
    PROVE  EveryoneIsHeard'
  <1> SUFFICES ASSUME NEW r \in Req
               PROVE  Heard(req'[r], link')
    BY DEF EveryoneIsHeard
  <1>1. CASE req'[r].stage \notin {"mode", "ensure"}
    BY <1>1 DEF Heard
  <1>2. CASE /\ req'[r] = req[r]
             /\ link[req[r].link].attempt # "none" => link'[req[r].link].attempt # "none"
    <2>1. Heard(req[r], link)
      BY DEF EveryoneIsHeard
    <2> QED BY <1>2, <2>1 DEF Heard, NobodyGoesOn
  <1> QED BY <1>1, <1>2

(* A step that ends or forwards requests, while no attempt ends.           *)
LEMMA AttemptsGoOn ==
    ASSUME EveryoneIsHeard, NobodyGoesOn, req \in [Req -> Reqs],
           \A l \in Link : link'[l].attempt = link[l].attempt,
           \A r \in Req : req'[r] = req[r] \/ req'[r].stage \notin {"mode", "ensure"}
    PROVE  EveryoneIsHeard'
  <1>1. \A r \in Req : req[r].link \in Link
    BY DEF Reqs
  <1> QED BY <1>1, StillHeard

LEMMA IdleWaitsForNothing == Idle.stage = "idle"
  BY DEF Idle

LEMMA ResetGoesOn ==
    ASSUME LinksOK, ReqsOK, NEW r \in Req, ResetIfCurrent(r)
    PROVE  /\ \A l \in Link : link'[l].attempt = link[l].attempt
           /\ \A s \in Req : req'[s] = req[s] \/ req'[s].stage \notin {"mode", "ensure"}
  <1>1. /\ \A l \in Link : Forgotten(link[l]).attempt = link[l].attempt
        /\ link \in [Link -> Links] /\ req \in [Req -> Reqs] /\ req[r].link \in Link
    BY DEF Forgotten, LinksOK, Links, ReqsOK, Reqs
  <1> QED BY <1>1, IdleWaitsForNothing DEF ResetIfCurrent

LEMMA DirectGoesOn ==
    ASSUME LinksOK, NEW m \in Link, DirectFailed(m) \/ link' = link
    PROVE  \A l \in Link : link'[l].attempt = link[l].attempt
  <1>1. link \in [Link -> Links]
    BY DEF LinksOK
  <1> QED BY <1>1 DEF DirectFailed, Links

LEMMA AdvancesHears ==
    ASSUME PoolInv, EveryoneIsHeard, NobodyGoesOn, NEW r \in Req,
           \/ Reaches(r) \/ Answers(r) \/ Rejected(r) \/ Breaks(r) \/ ConnectStalls(r)
           \/ Abandoned(r) \/ StreamEnds(r)
    PROVE  EveryoneIsHeard'
  <1>1. /\ link \in [Link -> Links] /\ req \in [Req -> Reqs] /\ req[r] \in Reqs /\ req[r].link \in Link
    BY DEF PoolInv, LinksOK, ReqsOK, Reqs
  <1>2. SUFFICES /\ \A l \in Link : link'[l].attempt = link[l].attempt
                 /\ \A s \in Req : req'[s] = req[s] \/ req'[s].stage \notin {"mode", "ensure"}
    BY <1>1, AttemptsGoOn
  <1>3. CASE Reaches(r)
    <2>1. [req[r] EXCEPT !.stage = "asked", !.times = @ + 1].stage = "asked"
      BY <1>1 DEF Reqs
    <2> QED BY <1>1, <1>3, <2>1 DEF Reaches
  <1>4. CASE Answers(r) \/ Abandoned(r) \/ StreamEnds(r)
    <2>1. [req[r] EXCEPT !.stage = "stream"].stage = "stream"
      BY <1>1 DEF Reqs
    <2> QED BY <1>1, <1>4, <2>1, IdleWaitsForNothing DEF Answers, Abandoned, StreamEnds
  <1>5. CASE Rejected(r)
    BY <1>5, ResetGoesOn DEF Rejected, PoolInv
  <1>6. ASSUME req' = Resent(r) \/ req' = [req EXCEPT ![r] = Idle]
        PROVE  \A s \in Req : req'[s] = req[s] \/ req'[s].stage \notin {"mode", "ensure"}
    <2>1. [req[r] EXCEPT !.stage = "sent", !.direct = FALSE, !.again = TRUE].stage = "sent"
      BY <1>1 DEF Reqs
    <2> QED BY <1>1, <1>6, <2>1, IdleWaitsForNothing DEF Resent
  <1>7. CASE Breaks(r)
    <2>1. \/ ResetIfCurrent(r)
          \/ /\ req' = Resent(r) \/ req' = [req EXCEPT ![r] = Idle]
             /\ DirectFailed(req[r].link) \/ link' = link
      BY <1>7 DEF Breaks
    <2> QED BY <1>1, <1>6, <2>1, ResetGoesOn, DirectGoesOn DEF PoolInv
  <1>8. CASE ConnectStalls(r)
    <2>1. /\ req' = Resent(r) \/ req' = [req EXCEPT ![r] = Idle]
          /\ \/ DirectFailed(req[r].link) \/ link' = link
             \/ link' = [link EXCEPT ![req[r].link] = Dropped(@)]
      BY <1>8 DEF ConnectStalls
    <2>2. \A l \in Link : Dropped(link[l]).attempt = link[l].attempt
      BY <1>1 DEF Dropped, Links
    <2> QED BY <1>1, <1>6, <2>1, <2>2, DirectGoesOn DEF PoolInv
  <1> QED BY <1>3, <1>4, <1>5, <1>7, <1>8

(* The tunnel a link waited for is up: who awaits the link itself goes on, *)
(* who awaits mode is told.                                                *)
LEMMA ListenerUpHears ==
    ASSUME PoolInv, EveryoneIsHeard, NobodyGoesOn, NEW l \in Link, ListenerUp(l)
    PROVE  EveryoneIsHeard'
  <1>1. /\ link' = [link EXCEPT ![l] = Connected(@)] /\ link \in [Link -> Links]
        /\ req' = [r \in Req |-> IF req[r].link = l /\ req[r].stage = "mode"
                                THEN [req[r] EXCEPT !.stage = "routed"] ELSE req[r]]
        /\ Sane(link[l], opened) /\ link[l].attempt = "listen"
    BY DEF ListenerUp, PoolInv, LinksOK
  <1>2. Ready(link'[l])
    <2>1. link'[l].tunnel = link[l].forward /\ link'[l].pairing = link[l].with
      BY <1>1 DEF Connected, NoAttempt, Links
    <2> QED BY <1>1, <2>1 DEF Ready, Sane
  <1>3. \A m \in Link : m # l => link'[m] = link[m]
    BY <1>1
  <1>4. ASSUME NEW r \in Req
        PROVE  \/ req'[r].stage \notin {"mode", "ensure"}
               \/ Heard(req'[r], link')
               \/ /\ req'[r] = req[r]
                  /\ link[req[r].link].attempt # "none" => link'[req[r].link].attempt # "none"
    <2>1. req[r] \in Reqs /\ req[r].link \in Link
      BY DEF PoolInv, ReqsOK, Reqs
    <2>2. CASE req[r].link = l /\ req[r].stage = "mode"
      <3>1. [req[r] EXCEPT !.stage = "routed"].stage = "routed"
        BY <2>1 DEF Reqs
      <3> QED BY <1>1, <2>2, <3>1
    <2>3. CASE req[r].link = l /\ req[r].stage # "mode"
      BY <1>1, <1>2, <2>3 DEF Heard
    <2>4. CASE req[r].link # l
      BY <1>1, <1>3, <2>1, <2>4
    <2> QED BY <2>2, <2>3, <2>4
  <1> QED BY <1>4, StillHeard

(* An attempt ended and everyone who waited for it was told.               *)
LEMMA FailsHears ==
    ASSUME PoolInv, EveryoneIsHeard, NobodyGoesOn, NEW l \in Link,
           link' = [link EXCEPT ![l] = NoAttempt(@)],
           \A r \in Req : IF r \in Waiting(l) THEN req'[r].stage \notin {"mode", "ensure"}
                                             ELSE req'[r] = req[r]
    PROVE  EveryoneIsHeard'
  <1>1. ASSUME NEW r \in Req
        PROVE  \/ req'[r].stage \notin {"mode", "ensure"}
               \/ /\ req'[r] = req[r]
                  /\ link[req[r].link].attempt # "none" => link'[req[r].link].attempt # "none"
    <2>1. req[r].link \in Link /\ link \in [Link -> Links]
      BY DEF PoolInv, LinksOK, ReqsOK, Reqs
    <2> QED BY <2>1 DEF Waiting
  <1> QED BY <1>1, StillHeard

LEMMA ConnectsHears ==
    ASSUME PoolInv, EveryoneIsHeard, NobodyGoesOn, NEW l \in Link,
           \/ ReadPairing(l) \/ PairingFails(l) \/ OpenForward(l) \/ ListenerUp(l) \/ ListenerFails(l)
    PROVE  EveryoneIsHeard'
  <1>1. link \in [Link -> Links] /\ \A r \in Req : req[r].link \in Link
    BY DEF PoolInv, LinksOK, ReqsOK, Reqs
  <1>2. CASE ReadPairing(l) \/ OpenForward(l)
    <2>1. req' = req /\ \A m \in Link : m # l => link'[m] = link[m]
      BY <1>1, <1>2 DEF ReadPairing, OpenForward
    <2>2. CASE ReadPairing(l)
      <3>1. link'[l].attempt # "none"
        BY <1>1, <2>2 DEF ReadPairing, Links
      <3> QED BY <1>1, <2>1, <3>1, StillHeard
    <2>3. CASE OpenForward(l)
      <3>1. link'[l].attempt # "none"
        BY <1>1, <2>3 DEF OpenForward, Links
      <3> QED BY <1>1, <2>1, <3>1, StillHeard
    <2> QED BY <1>2, <2>2, <2>3
  <1>3. CASE PairingFails(l) \/ ListenerFails(l)
    BY <1>3, FailsHears, IdleWaitsForNothing DEF PairingFails, ListenerFails, Fails
  <1> QED BY <1>2, <1>3, ListenerUpHears

LEMMA LinkStepHears ==
    ASSUME PoolInv, EveryoneIsHeard, LinkStep
    PROVE  EveryoneIsHeard'
  <1>1. Quiescent => NobodyGoesOn
    BY DEF Quiescent, Resumes, NobodyGoesOn
  <1>2. link \in [Link -> Links] /\ req \in [Req -> Reqs] /\ \A r \in Req : req[r].link \in Link
    BY DEF PoolInv, LinksOK, ReqsOK, Reqs
  <1>3. CASE \E l \in Link : Connects(l)
    BY <1>1, <1>3, ConnectsHears DEF Connects
  <1>4. CASE \E l \in Link : Quiescent /\ DirectChecked(l)
    <2>1. req' = req /\ \A l \in Link : link'[l].attempt = link[l].attempt
      BY <1>2, <1>4 DEF DirectChecked, Links
    <2> QED BY <1>1, <1>2, <1>4, <2>1, AttemptsGoOn
  <1>5. CASE \E f \in running : Quiescent /\ ChildExits(f)
    <2>1. req' = req /\ \A l \in Link : link'[l].attempt = link[l].attempt
      BY <1>2, <1>5 DEF ChildExits, Dropped, Links
    <2> QED BY <1>1, <1>2, <1>5, <2>1, AttemptsGoOn
  <1>6. ASSUME NEW r \in Req, EnsureResolved(r)
        PROVE  EveryoneIsHeard'
    <2>1. /\ link' = link \/ link' = [link EXCEPT ![req[r].link] = [@ EXCEPT !.direct = "checking"]]
          /\ \E d : req' = [req EXCEPT ![r] =
               [@ EXCEPT !.stage = "sent", !.link = req[r].link, !.over = link[req[r].link].tunnel,
                         !.by = link[req[r].link].pairing, !.gen = link[req[r].link].generation,
                         !.direct = d, !.again = FALSE]]
      BY <1>6 DEF EnsureResolved, Send
    <2>2. req'[r].stage = "sent" /\ \A s \in Req : s # r => req'[s] = req[s]
      BY <1>2, <2>1 DEF Reqs
    <2>3. \A l \in Link : /\ link'[l].attempt = link[l].attempt /\ link'[l].tunnel = link[l].tunnel
                          /\ link'[l].pairing = link[l].pairing
      BY <1>2, <2>1 DEF Links
    <2> QED BY <1>2, <2>2, <2>3 DEF EveryoneIsHeard, Heard, Ready
  <1>7. ASSUME NEW r \in Req, Advances(r)
        PROVE  EveryoneIsHeard'
    BY <1>1, <1>6, <1>7, AdvancesHears DEF Advances
  <1>8. CASE \E r \in Req : Quiescent /\ StreamEnds(r)
    BY <1>1, <1>8, AdvancesHears
  <1> QED BY <1>3, <1>4, <1>5, <1>7, <1>8 DEF LinkStep

(* What the pool's look does to attempts and to who waits: nothing.        *)
LEMMA LookHears ==
    ASSUME PoolInv, NEW S, S \subseteq Link, Without(S)
    PROVE  /\ ShutAll(S) \in [Link -> Links]
           /\ \A l \in Link : ShutAll(S)[l].attempt = link[l].attempt
           /\ \A r \in Req : Ended(S)[r] = req[r] \/ Ended(S)[r].stage = "idle"
           /\ Ended(S) \in [Req -> Reqs]
  <1>1. link \in [Link -> Links] /\ req \in [Req -> Reqs] /\ Idle \in Reqs
    BY IdleOK DEF PoolInv, LinksOK, ReqsOK, PoolOK
  <1>2. \A l \in Link : Shut(link[l]).attempt = link[l].attempt
    BY <1>1 DEF Shut, Forgotten, Links
  <1>3. ShutAll(S) \in [Link -> Links]
    BY ShutAllOK DEF PoolInv
  <1>4. Ended(S) \in [Req -> Reqs]
    BY <1>1 DEF Ended
  <1> QED BY <1>1, <1>2, <1>3, <1>4, IdleWaitsForNothing DEF ShutAll, Ended

LEMMA ShutHears ==
    ASSUME PoolInv, EveryoneIsHeard, NobodyGoesOn, NEW S, S \subseteq Link, Without(S),
           link' = ShutAll(S), req' = Ended(S)
    PROVE  EveryoneIsHeard'
  <1>1. req \in [Req -> Reqs]
    BY DEF PoolInv, ReqsOK
  <1> QED BY <1>1, LookHears, AttemptsGoOn

(* One request is answered by mode or turns to its link, which is ready or *)
(* was asked to connect.                                                   *)
LEMMA TurnsHears ==
    ASSUME PoolInv, EveryoneIsHeard, NobodyGoesOn, CanFind, Without(Stale), NEW r \in Req,
           req'[r].link = Found.link, \A s \in Req : s # r => req'[s] = Ended(Stale)[s],
           \/ /\ Ready(link[Found.link]) /\ link' = link /\ req'[r].stage \in {"routed", "ensure"}
           \/ link' = [ShutAll(Stale) EXCEPT ![Found.link] = Connecting(@)]
    PROVE  EveryoneIsHeard'
  <1>1. Found.link \in Link /\ Stale \subseteq Link
    BY FoundOK
  <1>2. /\ ShutAll(Stale) \in [Link -> Links]
        /\ \A l \in Link : ShutAll(Stale)[l].attempt = link[l].attempt
        /\ \A s \in Req : Ended(Stale)[s] = req[s] \/ Ended(Stale)[s].stage = "idle"
    BY <1>1, LookHears
  <1>3. \A s \in Req : req[s].link \in Link
    BY DEF PoolInv, ReqsOK, Reqs
  <1>4. CASE Ready(link[Found.link]) /\ link' = link /\ req'[r].stage \in {"routed", "ensure"}
    <2>1. Heard(req'[r], link')
      BY <1>4 DEF Heard
    <2> QED BY <1>2, <1>4, <2>1, StillHeard
  <1>5. CASE link' = [ShutAll(Stale) EXCEPT ![Found.link] = Connecting(@)]
    <2>1. link'[Found.link].attempt # "none" /\ \A l \in Link : l # Found.link => link'[l] = ShutAll(Stale)[l]
      BY <1>1, <1>2, <1>5 DEF Connecting, Links
    <2>2. Heard(req'[r], link')
      BY <2>1 DEF Heard
    <2>3. \A s \in Req : link[req[s].link].attempt # "none" => link'[req[s].link].attempt # "none"
      BY <1>2, <1>3, <2>1
    <2> QED BY <1>2, <2>2, <2>3, StillHeard
  <1> QED BY <1>4, <1>5

LEMMA AskHears ==
    ASSUME PoolInv, EveryoneIsHeard, NobodyGoesOn, NEW r \in Req, NEW kind, Ask(r, kind)
    PROVE  EveryoneIsHeard'
  <1> DEFINE ready == Ready(link[Found.link])
             p == [Idle EXCEPT !.stage = IF ready THEN "routed" ELSE "mode", !.kind = kind,
                               !.link = Found.link]
  <1>1. CanFind /\ Without(Stale)
    BY DEF Ask
  <1>2. CASE Found.missing /\ ~ready
    <2>1. link' = link /\ req' = req
      BY <1>2 DEF Ask
    <2> QED BY <2>1 DEF EveryoneIsHeard
  <1>3. CASE ~(Found.missing /\ ~ready)
    <2>1. /\ link' = IF ready THEN link ELSE [ShutAll(Stale) EXCEPT ![Found.link] = Connecting(@)]
          /\ req' = [Ended(Stale) EXCEPT ![r] = p]
      BY <1>3 DEF Ask
    <2>2. p.link = Found.link /\ (ready => p.stage = "routed")
      BY DEF Idle
    <2> HIDE DEF p
    <2>3. Ended(Stale) \in [Req -> Reqs]
      BY <1>1, FoundOK, LookHears
    <2>4. req'[r] = p /\ \A s \in Req : s # r => req'[s] = Ended(Stale)[s]
      BY <2>1, <2>3
    <2> QED BY <1>1, <2>1, <2>2, <2>4, TurnsHears
  <1> QED BY <1>2, <1>3

LEMMA RouteHears ==
    ASSUME PoolInv, EveryoneIsHeard, NEW r \in Req, Route(r)
    PROVE  EveryoneIsHeard'
  <1>1. NobodyGoesOn /\ req \in [Req -> Reqs] /\ req[r] \in Reqs
    BY DEF Route, NobodyGoesOn, PoolInv, ReqsOK
  <1>2. CASE ~CanFind
    <2>1. req' = [req EXCEPT ![r] = Idle] /\ link' = link
      BY <1>2 DEF Route
    <2> QED BY <1>1, <2>1, IdleWaitsForNothing, AttemptsGoOn
  <1>3. CASE CanFind
    <2>1. Without(Stale) /\ Stale \subseteq Link
      BY <1>3, FoundOK DEF Route
    <2>2. /\ Ended(Stale) \in [Req -> Reqs]
          /\ \A s \in Req : Ended(Stale)[s] = req[s] \/ Ended(Stale)[s].stage = "idle"
          /\ \A l \in Link : ShutAll(Stale)[l].attempt = link[l].attempt
      BY <2>1, LookHears
    <2>3. CASE req[r].stage = "basic"
      <3>1. link' = ShutAll(Stale) /\ req' = [Ended(Stale) EXCEPT ![r] = Idle]
        BY <1>3, <2>3 DEF Route
      <3> QED BY <1>1, <2>2, <3>1, IdleWaitsForNothing, AttemptsGoOn
    <2>4. CASE req[r].stage # "basic"
      <3> DEFINE p == [Ended(Stale)[r] EXCEPT !.stage = "ensure", !.link = Found.link]
      <3>1. /\ link' = IF Ready(link[Found.link]) THEN link
                       ELSE [ShutAll(Stale) EXCEPT ![Found.link] = Connecting(@)]
            /\ req' = [Ended(Stale) EXCEPT ![r] = p]
        BY <1>3, <2>4 DEF Route
      <3>2. p.stage = "ensure" /\ p.link = Found.link
        BY <2>2 DEF Reqs
      <3> HIDE DEF p
      <3>3. req'[r] = p /\ \A s \in Req : s # r => req'[s] = Ended(Stale)[s]
        BY <2>2, <3>1
      <3> QED BY <1>1, <1>3, <2>1, <3>1, <3>2, <3>3, TurnsHears
    <2> QED BY <2>3, <2>4
  <1> QED BY <1>2, <1>3

LEMMA PoolStepHears ==
    ASSUME PoolInv, EveryoneIsHeard, PoolStep
    PROVE  EveryoneIsHeard'
  <1>1. Quiescent => NobodyGoesOn
    BY DEF Quiescent, Resumes, NobodyGoesOn
  <1>2. ASSUME link' = link, req' = req
        PROVE  EveryoneIsHeard'
    BY <1>2 DEF EveryoneIsHeard
  <1>3. CASE \E r \in Req, kind \in {"read", "write", "upgrade", "info"} : Ask(r, kind)
    BY <1>1, <1>3, AskHears DEF Ask
  <1>4. CASE \E r \in Req : Route(r)
    BY <1>4, RouteHears
  <1>5. ASSUME NEW l \in Link, NotInstalled(l)
        PROVE  EveryoneIsHeard'
    <2>1. \A r \in Req : [req[r] EXCEPT !.stage = "basic"].stage = "basic"
      BY DEF PoolInv, ReqsOK, Reqs
    <2>2. NobodyGoesOn /\ link' = [link EXCEPT ![l] = NoAttempt(@)]
      BY <1>1, <1>5 DEF NotInstalled
    <2>3. \A r \in Req : IF r \in Waiting(l) THEN req'[r].stage \notin {"mode", "ensure"}
                                            ELSE req'[r] = req[r]
      BY <1>5, <2>1, IdleWaitsForNothing DEF NotInstalled
    <2> QED BY <2>2, <2>3, FailsHears
  <1>6. CASE MissingIsOld \/ BeginEdit \/ RefuseEdit \/ Uploaded \/ JobFails \/ JobOver \/ Reinstalled
    BY <1>2, <1>6 DEF MissingIsOld, BeginEdit, RefuseEdit, Uploaded, JobFails, JobOver, Reinstalled,
                      linkVars
  <1>7. CASE CommitEdit
    <2> DEFINE gone == IF entry = NoEntry THEN {} ELSE {entry.link}
    <2>1. NobodyGoesOn /\ link' = ShutAll(gone) /\ req' = Ended(gone) /\ Without(gone)
      BY <1>1, <1>7 DEF CommitEdit
    <2>2. gone \subseteq Link
      BY DEF PoolInv, PoolOK, Entries
    <2> HIDE DEF gone
    <2> QED BY <2>1, <2>2, ShutHears
  <1>8. CASE StartJob
    BY <1>1, <1>8, FoundOK, ShutHears DEF StartJob
  <1>9. ASSUME NEW stage, NEW e, Quiescent, NextStep(stage, e)
        PROVE  EveryoneIsHeard'
    <2>1. CASE Usable
      BY <1>1, <1>9, <2>1, FoundOK, ShutHears DEF NextStep
    <2>2. CASE ~Usable
      BY <1>2, <1>9, <2>2 DEF NextStep
    <2> QED BY <2>1, <2>2
  <1>10. CASE StepDone \/ InstallDone
    BY <1>9, <1>10 DEF StepDone, InstallDone
  <1> QED BY <1>3, <1>4, <1>5, <1>6, <1>7, <1>8, <1>10 DEF PoolStep

-----------------------------------------------------------------------------
(* The theorems *)

LEMMA InitHolds ==
    ASSUME PoolInit
    PROVE  PoolInv
  <1>1. /\ link = [l \in Link |-> Fresh] /\ req = [r \in Req |-> Idle] /\ running = {} /\ opened = 0
        /\ installed \in 0..MaxInstall /\ made = 1 /\ edit = NoEdit /\ fields = 1
        /\ server = [fields |-> 1, on |-> TRUE] /\ job = NoJob
        /\ entry = [fields |-> 1, link |-> 1, missing |-> FALSE, basic |-> FALSE]
    BY DEF PoolInit, LinkInit
  <1>2. /\ MaxForward \in Nat /\ MaxInstall \in Nat /\ MaxLink \in Nat \ {0} /\ 1 \in 1..MaxFields
        /\ 1 \in Link /\ Link \subseteq Nat \ {0}
    BY LinkAssumption, PoolAssumption DEF Link
  <1>3. /\ Fresh \in Links /\ Fresh.tunnel = 0 /\ Fresh.pairing = 0 /\ Fresh.forward = 0
        /\ Fresh.attempt = "none" /\ Fresh.closed = FALSE
    BY <1>2 DEF Fresh, Links
  <1>4. LinksOK
    <2>1. Sane(Fresh, 0)
      BY <1>2, <1>3 DEF Sane
    <2>2. \A l \in Link : link[l] = Fresh
      BY <1>1
    <2>3. link \in [Link -> Links]
      BY <1>1, <1>3
    <2> HIDE DEF Fresh
    <2>4. NoStrayForward
      BY <1>1 DEF NoStrayForward
    <2>5. opened \in 0..MaxForward /\ running \subseteq 1..opened /\ installed \in 0..MaxInstall
      BY <1>1, <1>2
    <2> QED BY <1>1, <1>3, <2>1, <2>2, <2>3, <2>4, <2>5 DEF LinksOK
  <1>5. ReqsOK
    <2>1. Idle \in Reqs /\ ReqOK(Idle, link, opened, made)
      BY <1>1, <1>2, <1>4, IdleOK
    <2> HIDE DEF Idle
    <2> QED BY <1>1, <2>1 DEF ReqsOK
  <1>6. PoolOK
    <2>1. /\ server \in Servers /\ entry \in Entries /\ entry # NoEntry /\ entry.link = 1
          /\ job \in Jobs
      <3>1. server \in Servers /\ job \in Jobs
        BY <1>1, <1>2 DEF Servers, Jobs, NoJob
      <3>2. entry \in Entries /\ entry.link = 1
        BY <1>1, <1>2 DEF Entries
      <3> QED BY <3>1, <3>2, PoolAssumption
    <2>2. PoolOwnsLinks
      BY <1>1, <1>2, <1>3, <2>1 DEF PoolOwnsLinks
    <2>3. \A l \in Link : link[l] = Fresh
      BY <1>1
    <2> QED BY <1>1, <1>2, <2>1, <2>2, <2>3 DEF PoolOK
  <1>7. JobOK
    BY <1>1 DEF JobOK, NoJob
  <1> QED BY <1>4, <1>5, <1>6, <1>7 DEF PoolInv

LEMMA StepKeeps ==
    ASSUME PoolInv, [PoolNext]_hubVars
    PROVE  PoolInv'
  <1>1. CASE PoolStep
    BY <1>1, PoolStepKeeps
  <1>2. CASE Relays
    BY <1>2, LinkStepKeeps DEF Relays
  <1>3. CASE UNCHANGED hubVars
    <2>1. UNCHANGED <<link, req, running, opened, installed, server, fields, edit, entry, made, job>>
      BY <1>3 DEF hubVars, linkVars, poolVars
    <2>2. LinksOK' /\ ReqsOK'
      BY <2>1, LinksAlone DEF PoolInv, LinksOK
    <2>3. PoolOK' /\ JobOK'
      BY <2>1 DEF PoolInv, PoolOK, PoolOwnsLinks, JobOK
    <2> QED BY <2>2, <2>3 DEF PoolInv
  <1> QED BY <1>1, <1>2, <1>3 DEF PoolNext

(* What the links, the requests, the pool's entry and the installer's job  *)
(* hold together holds in every state (node-link.js, link-pool.js,         *)
(* node-installer.js).                                                     *)
THEOREM PoolInvariant == PoolSpec => []PoolInv
  BY InitHolds, StepKeeps, PTL DEF PoolSpec

(* The state is well formed: a link never has a tunnel without the pairing *)
(* it came from, nor a forward of its own but while it waits for it        *)
(* (NodeLink._connect, _dropTunnel, reset).                                *)
THEOREM PoolTypeCorrect == PoolSpec => []PoolTypeOK
  <1>1. PoolInv => PoolTypeOK
    BY DEF PoolInv, LinksOK, ReqsOK, PoolOK, PoolTypeOK, Sane
  <1> QED BY <1>1, PoolInvariant, PTL

(* Every ssh child that runs is the tunnel of an open link or the forward  *)
(* an attempt waits for: none is left behind by resets, edits, closed      *)
(* links, late attempts and exits, however they interleave (_connect,      *)
(* _dropTunnel, close).                                                    *)
THEOREM NoForwardIsLeft == PoolSpec => []NoStrayForward
  <1>1. PoolInv => NoStrayForward
    BY DEF PoolInv, LinksOK
  <1> QED BY <1>1, PoolInvariant, PTL

(* The pool closes each link it no longer hands out and none it does       *)
(* (LinkPool._entry, invalidate).                                          *)
THEOREM PoolClosesItsLinks == PoolSpec => []PoolOwnsLinks
  <1>1. PoolInv => PoolOwnsLinks
    BY DEF PoolInv, PoolOK
  <1> QED BY <1>1, PoolInvariant, PTL

(* A stream is of the link's generation and pairing, and its link is open  *)
(* (NodeLink.proxyUpgrade, reset).                                         *)
THEOREM StreamsEndWithTheirPairing == PoolSpec => []StreamsOfGeneration
  <1>1. PoolInv => StreamsOfGeneration
    BY DEF PoolInv, ReqsOK, ReqOK, StreamsOfGeneration
  <1> QED BY <1>1, PoolInvariant, PTL

(* The node gets no write or upgrade twice, and no read more than twice    *)
(* (NodeLink.proxy and its retry).                                         *)
THEOREM NothingIsAskedTooOften == PoolSpec => []AskedOnce
  <1>1. ASSUME PoolInv
        PROVE  AskedOnce
    <2> SUFFICES ASSUME NEW r \in Req, req[r].stage # "idle"
                 PROVE  req[r].times <= IF req[r].kind \in {"read", "info"} THEN 2 ELSE 1
      BY DEF AskedOnce
    <2> DEFINE q == req[r]
    <2>1. q \in Reqs /\ Times(q) /\ q.stage # "idle"
      BY <1>1 DEF PoolInv, ReqsOK, ReqOK
    <2> HIDE DEF q
    <2>2. q.times \in Nat
          /\ q.stage \in {"mode", "routed", "basic", "ensure", "sent", "asked", "stream"}
      BY <2>1 DEF Reqs
    <2>3. q.times <= IF q.kind \in {"read", "info"} THEN 2 ELSE 1
      BY <2>1, <2>2 DEF Times, Repeatable
    <2> QED BY <2>3 DEF q
  <1> QED BY <1>1, PoolInvariant, PTL

(* The installer goes on to the machine, and its result is applied, only   *)
(* while the registry has the connection fields the job began with, for    *)
(* all edits, refused writes and new links meanwhile (_assertCurrent).     *)
THEOREM InstallerKeepsItsTarget == PoolSpec => InstallsOnOneTarget
  <1> DEFINE Onward == job'.stage # job.stage /\ job'.stage \in {"upload", "install", "told"}
  <1>1. ASSUME PoolInv, [PoolNext]_hubVars, Onward
        PROVE  Usable /\ server.fields = job.fields
    <2>1. job' # job
      BY <1>1
    <2>2. ~Relays /\ hubVars' # hubVars
      BY <2>1 DEF Relays, Meanwhile, hubVars, poolVars
    <2>3. \E stage, e : NextStep(stage, e) /\ job.stage # "idle"
      <3>1. CASE StepDone
        BY <3>1 DEF StepDone, Following
      <3>2. CASE InstallDone
        BY <3>2 DEF InstallDone
      <3>3. CASE StartJob \/ Uploaded \/ JobFails \/ JobOver
        BY <1>1, <3>3 DEF StartJob, Uploaded, JobFails, JobOver, NoJob, PoolInv, PoolOK, Jobs
      <3>4. CASE ~(StepDone \/ InstallDone \/ StartJob \/ Uploaded \/ JobFails \/ JobOver)
        <4>1. \/ \E r \in Req, kind \in {"read", "write", "upgrade", "info"} : Ask(r, kind)
              \/ \E r \in Req : Route(r)
              \/ \E l \in Link : NotInstalled(l)
              \/ MissingIsOld \/ BeginEdit \/ CommitEdit \/ RefuseEdit \/ Reinstalled
          BY <1>1, <2>2, <3>4 DEF PoolNext, PoolStep
        <4> QED BY <2>1, <4>1 DEF Ask, Route, NotInstalled, MissingIsOld, BeginEdit, CommitEdit,
                                  RefuseEdit, Reinstalled, poolVars
      <3> QED BY <3>1, <3>2, <3>3, <3>4
    <2>4. PICK stage, e : NextStep(stage, e) /\ job.stage # "idle"
      BY <2>3
    <2>5. NoJob.stage = "idle"
      BY DEF NoJob
    <2>6. /\ Usable /\ CanFind /\ Found.link = job.link
      BY <1>1, <2>4, <2>5 DEF NextStep
    <2>7. Matches
      <3> SUFFICES ASSUME ~Matches
                   PROVE  FALSE
        OBVIOUS
      <3>1. job.link <= made /\ Found.link = made + 1 /\ made \in Nat /\ job.link \in Nat
        BY <1>1, <2>6, FoundOK, Numbers DEF PoolInv, PoolOK, JobOK, Link, Jobs
      <3> QED BY <2>6, <3>1
    <2>8. entry # NoEntry /\ entry.link = job.link /\ entry.fields = server.fields
      BY <1>1, <2>6, <2>7, FoundOK DEF Matches
    <2> QED BY <1>1, <2>4, <2>6, <2>8 DEF PoolInv, JobOK
  <1>2. PoolInv /\ [PoolNext]_hubVars => [Onward => Usable /\ server.fields = job.fields]_hubVars
    BY <1>1
  <1>3. PoolSpec => [][Onward => Usable /\ server.fields = job.fields]_hubVars
    BY <1>2, PoolInvariant, PTL DEF PoolSpec
  <1> QED BY <1>3 DEF InstallsOnOneTarget

(* Nobody waits for an attempt that is over or for a link that was given   *)
(* up: whoever awaits mode or the link shares one under way, or the link   *)
(* is ready and it is the next to go on, whichever edits, resets, exits    *)
(* and closed links come in between (NodeLink.ensure, LinkPool.mode, with  *)
(* the proxy of proxy.js).  (EveryRequestEnds, without the time.)          *)
THEOREM EveryRequestGoesOn == PoolSpec => []EveryoneIsHeard
  <1>1. ASSUME PoolInit
        PROVE  EveryoneIsHeard
    <2>1. \A r \in Req : req[r] = Idle
      BY <1>1 DEF PoolInit, LinkInit
    <2> QED BY <2>1, IdleWaitsForNothing DEF EveryoneIsHeard, Heard
  <1>2. ASSUME PoolInv, EveryoneIsHeard, [PoolNext]_hubVars
        PROVE  EveryoneIsHeard'
    <2>1. CASE PoolStep
      BY <1>2, <2>1, PoolStepHears
    <2>2. CASE Relays
      BY <1>2, <2>2, LinkStepHears DEF Relays
    <2>3. CASE UNCHANGED hubVars
      BY <1>2, <2>3 DEF hubVars, linkVars, EveryoneIsHeard
    <2> QED BY <1>2, <2>1, <2>2, <2>3 DEF PoolNext
  <1> QED BY <1>1, <1>2, PoolInvariant, PTL DEF PoolSpec

(* A tunnel whose child is gone is the one the pool hands out, and no      *)
(* attempt is under way on its link: the next health check is sent over it *)
(* and notices (NodeLink._connect, LinkPool._entry, invalidate).           *)
(* (DeadTunnelReplaced, without the time.)                                 *)
DeadTunnelIsNext ==
    \A l \in Link : Dead(l) =>
        /\ entry # NoEntry /\ entry.link = l
        /\ Ready(link[l]) /\ ~link[l].closed /\ link[l].attempt = "none"

(* No dead tunnel hides in a link the pool has put aside or is renewing.   *)
THEOREM DeadTunnelsAreFound == PoolSpec => []DeadTunnelIsNext
  <1>1. ASSUME PoolInv
        PROVE  DeadTunnelIsNext
    <2> SUFFICES ASSUME NEW l \in Link, Dead(l)
                 PROVE  /\ entry # NoEntry /\ entry.link = l
                        /\ Ready(link[l]) /\ ~link[l].closed /\ link[l].attempt = "none"
      BY DEF DeadTunnelIsNext
    <2>1. link[l].tunnel # 0 /\ Sane(link[l], opened)
      BY <1>1 DEF Dead, PoolInv, LinksOK
    <2>2. Ready(link[l]) /\ ~link[l].closed /\ link[l].attempt = "none"
      BY <2>1 DEF Sane, Ready
    <2>3. l \in 1..made
      <3>1. made \in Nat /\ l \in Nat /\ l # 0
        BY <1>1, LinkAssumption DEF PoolInv, PoolOK, Link
      <3>2. ~(l > made)
        BY <1>1, <2>1 DEF PoolInv, PoolOK, Fresh
      <3> QED BY <3>1, <3>2
    <2>4. entry # NoEntry /\ entry.link = l
      BY <1>1, <2>2, <2>3 DEF PoolInv, PoolOK, PoolOwnsLinks
    <2> QED BY <2>2, <2>4
  <1> QED BY <1>1, PoolInvariant, PTL

-----------------------------------------------------------------------------
(* What a step does to a link *)

(* The request r went out over the tunnel the link l has, with its pairing *)
(* and in its generation, and is over with this step.                      *)
Spent(r, l) ==
    /\ req[r].stage \in {"sent", "asked"} /\ req[r].link = l
    /\ req[r].over = link[l].tunnel /\ link[l].tunnel # 0
    /\ req[r].by = link[l].pairing /\ req[r].gen = link[l].generation
    /\ req'[r].stage = "idle"

HandedOut(l) == entry # NoEntry /\ entry.link = l

(* The link goes on, is closed as the one the pool handed out, or forgets  *)
(* its pairing over a request of its own.                                  *)
Alters(l) ==
    \/ Quiet(link[l], link'[l]) /\ link'[l].tunnel \in {0, link[l].tunnel, link[l].forward}
    \/ link'[l] = Shut(link[l]) /\ ~link[l].closed /\ HandedOut(l)
    \/ link'[l] = Forgotten(link[l]) /\ \E r \in Req : Spent(r, l)

LEMMA LinksRest ==
    ASSUME PoolInv, link' = link
    PROVE  \A l \in Link : Alters(l)
  BY DEF Alters, Quiet

(* One link goes on.                                                       *)
LEMMA OneAlters ==
    ASSUME PoolInv, NEW l \in Link, NEW m, NEW R, link' = [link EXCEPT ![l] = m],
           Becomes(link[l], m, R), Quiet(link[l], m)
    PROVE  \A n \in Link : Alters(n)
  <1> SUFFICES ASSUME NEW n \in Link
               PROVE  Alters(n)
    OBVIOUS
  <1>1. link \in [Link -> Links] /\ m.tunnel \in {0, link[l].tunnel, link[l].forward}
    BY DEF PoolInv, LinksOK, Becomes
  <1>2. CASE n = l
    <2>1. link'[n] = m
      BY <1>1, <1>2
    <2> QED BY <1>1, <1>2, <2>1 DEF Alters
  <1>3. CASE n # l
    <2>1. link'[n] = link[n]
      BY <1>1, <1>3
    <2> QED BY <2>1 DEF Alters, Quiet
  <1> QED BY <1>2, <1>3

(* A request out over the tunnel its link has is of its generation.        *)
LEMMA ResetAlters ==
    ASSUME PoolInv, NEW r \in Req, req[r].stage \in {"sent", "asked"}, ResetIfCurrent(r)
    PROVE  \A n \in Link : Alters(n)
  <1> DEFINE l == req[r].link
             m == Forgotten(link[l])
  <1>1. /\ req \in [Req -> Reqs] /\ l \in Link /\ ReqOK(req[r], link, opened, made)
        /\ link \in [Link -> Links]
    BY DEF PoolInv, ReqsOK, LinksOK, Reqs
  <1>2. CASE OnCurrent(r)
    <2>1. link' = [link EXCEPT ![l] = m] /\ req'[r] = Idle
      BY <1>1, <1>2 DEF ResetIfCurrent
    <2>2. Spent(r, l)
      BY <1>1, <1>2, <2>1 DEF Spent, ReqOK, OnCurrent, Idle
    <2>3. \A n \in Link : link'[n] = IF n = l THEN m ELSE link[n]
      BY <1>1, <2>1
    <2> QED BY <2>2, <2>3 DEF Alters, Quiet
  <1>3. CASE ~OnCurrent(r)
    BY <1>3, LinksRest DEF ResetIfCurrent
  <1> QED BY <1>2, <1>3

(* The direct way is no part of it.                                        *)
LEMMA DirectAlters ==
    ASSUME PoolInv, NEW l \in Link, NEW d \in {"none", "checking", "up", "down"},
           link' = [link EXCEPT ![l] = [@ EXCEPT !.direct = d]]
    PROVE  \A n \in Link : Alters(n)
  <1> DEFINE m == [link[l] EXCEPT !.direct = d]
  <1>1. link' = [link EXCEPT ![l] = m]
    OBVIOUS
  <1>2. Becomes(link[l], m, {}) /\ Quiet(link[l], m)
    BY Redirected DEF PoolInv
  <1> HIDE DEF m
  <1> QED BY <1>1, <1>2, OneAlters

LEMMA DirectFailedAlters ==
    ASSUME PoolInv, NEW l \in Link, DirectFailed(l)
    PROVE  \A n \in Link : Alters(n)
  <1>1. PICK d \in {link[l].direct} \cup (IF link[l].direct = "up" THEN {"down"} ELSE {}) :
          link' = [link EXCEPT ![l] = [@ EXCEPT !.direct = d]]
    BY DEF DirectFailed
  <1>2. d \in {"none", "checking", "up", "down"}
    BY FieldsOf DEF PoolInv, LinksOK
  <1> QED BY <1>1, <1>2, DirectAlters

(* An attempt goes on or ends.                                             *)
LEMMA ConnectsAlters ==
    ASSUME PoolInv, NEW l \in Link, Connects(l)
    PROVE  \A n \in Link : Alters(n)
  <1> DEFINE k == link[l]
  <1>1. k \in Links /\ link \in [Link -> Links]
    BY DEF PoolInv, LinksOK
  <1>2. ASSUME NEW m, link' = [link EXCEPT ![l] = m],
               m.generation = k.generation, m.closed = k.closed, m.pairing = k.pairing,
               m.tunnel = k.tunnel
        PROVE  \A n \in Link : Alters(n)
    <2>1. \A n \in Link : link'[n] = IF n = l THEN m ELSE link[n]
      BY <1>1, <1>2
    <2> QED BY <1>2, <2>1 DEF Alters, Quiet
  <1>3. CASE ReadPairing(l)
    <2> DEFINE a == IF installed = 0 THEN "absent" ELSE "read"
               m == [k EXCEPT !.attempt = a, !.with = installed]
    <2>1. link' = [link EXCEPT ![l] = m]
      BY <1>3 DEF ReadPairing
    <2> HIDE DEF a
    <2>2. /\ m.generation = k.generation /\ m.closed = k.closed
          /\ m.pairing = k.pairing /\ m.tunnel = k.tunnel
      BY <1>1 DEF Links
    <2> HIDE DEF m
    <2> QED BY <1>2, <2>1, <2>2
  <1>4. CASE OpenForward(l)
    <2> DEFINE m == [k EXCEPT !.attempt = "listen", !.forward = opened + 1]
    <2>1. link' = [link EXCEPT ![l] = m]
      BY <1>4 DEF OpenForward
    <2>2. /\ m.generation = k.generation /\ m.closed = k.closed
          /\ m.pairing = k.pairing /\ m.tunnel = k.tunnel
      BY <1>1 DEF Links
    <2> HIDE DEF m
    <2> QED BY <1>2, <2>1, <2>2
  <1>5. CASE PairingFails(l) \/ ListenerFails(l)
    <2>1. link' = [link EXCEPT ![l] = NoAttempt(link[l])]
      BY <1>5 DEF PairingFails, ListenerFails, Fails
    <2>2. Becomes(link[l], NoAttempt(link[l]), {}) /\ Quiet(link[l], NoAttempt(link[l]))
      BY Attempted DEF PoolInv
    <2> QED BY <2>1, <2>2, OneAlters
  <1>6. CASE ListenerUp(l)
    <2>1. /\ link' = [link EXCEPT ![l] = Connected(link[l])]
          /\ link[l].attempt = "listen" /\ ~link[l].closed
      BY <1>6 DEF ListenerUp
    <2>2. Becomes(link[l], Connected(link[l]), {}) /\ Quiet(link[l], Connected(link[l]))
      BY <2>1, GotUp DEF PoolInv
    <2> QED BY <2>1, <2>2, OneAlters
  <1> QED BY <1>3, <1>4, <1>5, <1>6 DEF Connects

LEMMA SendAlters ==
    ASSUME PoolInv, NEW r \in Req, NEW l \in Link, Send(r, l)
    PROVE  \A n \in Link : Alters(n)
  <1>1. link' = link \/ link' = [link EXCEPT ![l] = [@ EXCEPT !.direct = "checking"]]
    BY DEF Send
  <1> QED BY <1>1, LinksRest, DirectAlters

(* A tunnel is lost.                                                       *)
LEMMA DropAlters ==
    ASSUME PoolInv, NEW S, S \subseteq Link,
           link' \in [Link -> Links],
           \A l \in Link : link'[l] = IF l \in S THEN Dropped(link[l]) ELSE link[l]
    PROVE  \A n \in Link : Alters(n)
  <1> SUFFICES ASSUME NEW n \in Link
               PROVE  Alters(n)
    OBVIOUS
  <1>1. Becomes(link[n], Dropped(link[n]), {}) /\ Quiet(link[n], Dropped(link[n]))
    BY Lost DEF PoolInv
  <1> QED BY <1>1 DEF Alters, Quiet, Becomes

LEMMA AdvancesAlters ==
    ASSUME PoolInv, NEW r \in Req, Advances(r)
    PROVE  \A n \in Link : Alters(n)
  <1> DEFINE l == req[r].link
  <1>1. l \in Link /\ link \in [Link -> Links] /\ \A n \in Link : Dropped(link[n]) \in Links
    <2>1. \A n \in Link : Becomes(link[n], Dropped(link[n]), {})
      BY Lost DEF PoolInv
    <2> QED BY <2>1 DEF PoolInv, ReqsOK, Reqs, LinksOK, Becomes, Sane
  <1>2. CASE EnsureResolved(r)
    BY <1>1, <1>2, SendAlters DEF EnsureResolved
  <1>3. CASE Reaches(r) \/ Answers(r) \/ Abandoned(r)
    BY <1>3, LinksRest DEF Reaches, Answers, Abandoned
  <1>4. CASE Rejected(r)
    BY <1>4, ResetAlters DEF Rejected
  <1>5. CASE Breaks(r)
    <2>1. \/ link' = link \/ DirectFailed(l)
          \/ req[r].stage \in {"sent", "asked"} /\ ResetIfCurrent(r)
      BY <1>5 DEF Breaks
    <2> QED BY <1>1, <2>1, LinksRest, DirectFailedAlters, ResetAlters
  <1>6. CASE ConnectStalls(r)
    <2>1. \/ link' = link \/ DirectFailed(l)
          \/ link' = [link EXCEPT ![l] = Dropped(link[l])]
      BY <1>6 DEF ConnectStalls
    <2>2. CASE link' = [link EXCEPT ![l] = Dropped(link[l])]
      <3>1. /\ link' \in [Link -> Links]
            /\ \A n \in Link : link'[n] = IF n \in {l} THEN Dropped(link[n]) ELSE link[n]
        BY <1>1, <2>2
      <3> QED BY <1>1, <3>1, DropAlters
    <2> QED BY <1>1, <2>1, <2>2, LinksRest, DirectFailedAlters
  <1> QED BY <1>2, <1>3, <1>4, <1>5, <1>6 DEF Advances

LEMMA LinkStepAlters ==
    ASSUME PoolInv, LinkStep
    PROVE  \A n \in Link : Alters(n)
  <1>1. ASSUME NEW l \in Link, DirectChecked(l)
        PROVE  \A n \in Link : Alters(n)
    <2>1. PICK up \in BOOLEAN :
            link' = [link EXCEPT ![l] = [@ EXCEPT !.direct = IF up THEN "up" ELSE "down"]]
      BY <1>1 DEF DirectChecked
    <2> DEFINE d == IF up THEN "up" ELSE "down"
    <2>2. d \in {"none", "checking", "up", "down"} /\ link' = [link EXCEPT ![l] = [@ EXCEPT !.direct = d]]
      BY <2>1
    <2> HIDE DEF d
    <2> QED BY <2>2, DirectAlters
  <1>2. ASSUME NEW f \in running, ChildExits(f)
        PROVE  \A n \in Link : Alters(n)
    <2> DEFINE S == {l \in Link : link[l].tunnel = f}
    <2>1. \A n \in Link : Becomes(link[n], Dropped(link[n]), {}) /\ link[n] \in Links
      BY Lost DEF PoolInv, LinksOK
    <2>2. link' = [l \in Link |-> IF link[l].tunnel = f THEN Dropped(link[l]) ELSE link[l]]
      BY <1>2 DEF ChildExits
    <2>3. /\ link' \in [Link -> Links]
          /\ \A n \in Link : link'[n] = IF n \in S THEN Dropped(link[n]) ELSE link[n]
      BY <2>1, <2>2 DEF Becomes, Sane
    <2> HIDE DEF S
    <2>4. S \subseteq Link
      BY DEF S
    <2> QED BY <2>3, <2>4, DropAlters
  <1>3. ASSUME NEW r \in Req, StreamEnds(r)
        PROVE  \A n \in Link : Alters(n)
    BY <1>3, LinksRest DEF StreamEnds
  <1> QED BY <1>1, <1>2, <1>3, ConnectsAlters, AdvancesAlters DEF LinkStep

(* The pool closes only the link of its entry, which is open.              *)
LEMMA ShutAlters ==
    ASSUME PoolInv, NEW S, S = {} \/ (entry # NoEntry /\ S = {entry.link}), NEW n \in Link
    PROVE  \/ n \notin S /\ ShutAll(S)[n] = link[n]
           \/ ShutAll(S)[n] = Shut(link[n]) /\ ~link[n].closed /\ HandedOut(n)
  <1>1. CASE n \notin S
    BY <1>1 DEF ShutAll
  <1>2. CASE n \in S
    <2>1. ShutAll(S)[n] = Shut(link[n]) /\ entry # NoEntry /\ entry.link = n
      BY <1>2 DEF ShutAll
    <2>2. n \in 1..made
      BY <2>1, Numbers DEF PoolInv, PoolOK, Link
    <2>3. ~link[n].closed
      BY <2>1, <2>2 DEF PoolInv, PoolOK, PoolOwnsLinks
    <2> QED BY <2>1, <2>3 DEF HandedOut
  <1> QED BY <1>1, <1>2

(* It looked for its entry and may have asked the link to connect.         *)
LEMMA LookAlters ==
    ASSUME PoolInv, NEW S, S = {} \/ (entry # NoEntry /\ S = {entry.link}),
           \/ link' = ShutAll(S)
           \/ \E l \in Link \ S : /\ ~Ready(link[l])
                                  /\ link' = [ShutAll(S) EXCEPT ![l] = Connecting(@)]
    PROVE  \A n \in Link : Alters(n)
  <1> SUFFICES ASSUME NEW n \in Link
               PROVE  Alters(n)
    OBVIOUS
  <1>1. CASE link'[n] = ShutAll(S)[n]
    <2>1. link'[n] = link[n] => Alters(n)
      BY DEF Alters, Quiet
    <2> QED BY <1>1, <2>1, ShutAlters DEF Alters
  <1>2. CASE link'[n] # ShutAll(S)[n]
    <2>1. /\ n \notin S /\ ~Ready(link[n]) /\ link'[n] = Connecting(ShutAll(S)[n])
      BY <1>2 DEF ShutAll
    <2>2. ShutAll(S)[n] = link[n]
      BY <2>1 DEF ShutAll
    <2>3. Becomes(link[n], Connecting(link[n]), {}) /\ Quiet(link[n], Connecting(link[n]))
      BY <2>1, Attempted DEF PoolInv
    <2> QED BY <2>1, <2>2, <2>3 DEF Alters, Becomes
  <1> QED BY <1>1, <1>2

LEMMA PoolStepAlters ==
    ASSUME PoolInv, PoolStep
    PROVE  \A n \in Link : Alters(n)
  <1>1. Stale = {} \/ (entry # NoEntry /\ Stale = {entry.link})
    BY DEF Stale
  <1>2. CanFind => Found.link \in Link \ Stale
    BY FoundOK
  <1>3. ASSUME NEW r \in Req, NEW kind, Ask(r, kind)
        PROVE  \A n \in Link : Alters(n)
    <2>1. \/ link' = link
          \/ \E l \in Link \ Stale : /\ ~Ready(link[l])
                                     /\ link' = [ShutAll(Stale) EXCEPT ![l] = Connecting(@)]
      BY <1>2, <1>3 DEF Ask
    <2> QED BY <1>1, <2>1, LinksRest, LookAlters
  <1>4. ASSUME NEW r \in Req, Route(r)
        PROVE  \A n \in Link : Alters(n)
    <2>1. \/ link' = link \/ link' = ShutAll(Stale)
          \/ \E l \in Link \ Stale : /\ ~Ready(link[l])
                                     /\ link' = [ShutAll(Stale) EXCEPT ![l] = Connecting(@)]
      BY <1>2, <1>4 DEF Route
    <2> QED BY <1>1, <2>1, LinksRest, LookAlters
  <1>5. ASSUME NEW l \in Link, NotInstalled(l)
        PROVE  \A n \in Link : Alters(n)
    <2>1. link' = [link EXCEPT ![l] = NoAttempt(link[l])]
      BY <1>5 DEF NotInstalled
    <2>2. Becomes(link[l], NoAttempt(link[l]), {}) /\ Quiet(link[l], NoAttempt(link[l]))
      BY Attempted DEF PoolInv
    <2> QED BY <2>1, <2>2, OneAlters
  <1>6. CASE CommitEdit
    <2> DEFINE gone == IF entry = NoEntry THEN {} ELSE {entry.link}
    <2>1. link' = ShutAll(gone) /\ (gone = {} \/ (entry # NoEntry /\ gone = {entry.link}))
      BY <1>6 DEF CommitEdit
    <2> HIDE DEF gone
    <2> QED BY <2>1, LookAlters
  <1>7. ASSUME NEW stage, NEW e, NextStep(stage, e)
        PROVE  \A n \in Link : Alters(n)
    BY <1>1, <1>7, LinksRest, LookAlters DEF NextStep
  <1>8. CASE StartJob \/ StepDone \/ InstallDone
    BY <1>1, <1>7, <1>8, LookAlters DEF StartJob, StepDone, InstallDone
  <1>9. CASE MissingIsOld \/ BeginEdit \/ RefuseEdit \/ Uploaded \/ JobFails \/ JobOver \/ Reinstalled
    <2>1. link' = link
      BY <1>9 DEF MissingIsOld, BeginEdit, RefuseEdit, Uploaded, JobFails, JobOver, Reinstalled, linkVars
    <2> QED BY <2>1, LinksRest
  <1> QED BY <1>3, <1>4, <1>5, <1>6, <1>8, <1>9 DEF PoolStep

LEMMA StepAlters ==
    ASSUME PoolInv, [PoolNext]_hubVars
    PROVE  \A n \in Link : Alters(n)
  <1>1. CASE PoolStep
    BY <1>1, PoolStepAlters
  <1>2. CASE Relays
    BY <1>2, LinkStepAlters DEF Relays
  <1>3. CASE UNCHANGED hubVars
    BY <1>3, LinksRest DEF hubVars, linkVars
  <1> QED BY <1>1, <1>2, <1>3 DEF PoolNext

(* A late failure never takes down what came after it: a link forgets its  *)
(* pairing and moves to another generation (its streams end with that)     *)
(* only when the pool closes it, as the one it handed out, or over a       *)
(* request that went out over the very tunnel it has, with its pairing and *)
(* in its generation; what is closed stays closed (_resetIfCurrent,        *)
(* close).                                                                 *)
ForgottenByItsOwn ==
    [][ \A l \in Link :
          \/ Quiet(link[l], link'[l])
          \/ ~link[l].closed /\ link'[l].closed /\ HandedOut(l)
          \/ ~link'[l].closed /\ \E r \in Req : Spent(r, l) ]_hubVars

(* However late an answer, an error or a stall comes, and whatever was     *)
(* connected, installed or edited since it was asked for: it resets the    *)
(* link only as it was asked of it (NodeLink.proxy, proxyUpgrade, info).   *)
THEOREM LateFailuresSpareOthers == PoolSpec => ForgottenByItsOwn
  <1> DEFINE Own == \A l \in Link :
               \/ Quiet(link[l], link'[l])
               \/ ~link[l].closed /\ link'[l].closed /\ HandedOut(l)
               \/ ~link'[l].closed /\ \E r \in Req : Spent(r, l)
  <1>1. ASSUME PoolInv, [PoolNext]_hubVars
        PROVE  Own
    <2> SUFFICES ASSUME NEW l \in Link
                 PROVE  \/ Quiet(link[l], link'[l])
                        \/ ~link[l].closed /\ link'[l].closed /\ HandedOut(l)
                        \/ ~link'[l].closed /\ \E r \in Req : Spent(r, l)
      OBVIOUS
    <2>1. Alters(l) /\ Sane(link[l], opened)
      BY <1>1, StepAlters DEF PoolInv, LinksOK
    <2>2. Forgotten(link[l]).closed = link[l].closed /\ Shut(link[l]).closed
      <3>1. /\ Becomes(link[l], Forgotten(link[l]), {}) /\ Forgotten(link[l]).closed = link[l].closed
            /\ Becomes(link[l], Shut(link[l]), {}) /\ Shut(link[l]).closed
        BY <1>1, Lost DEF PoolInv
      <3> QED BY <3>1
    <2>3. (\E r \in Req : Spent(r, l)) => ~link[l].closed
      BY <2>1 DEF Spent, Sane
    <2> QED BY <2>1, <2>2, <2>3 DEF Alters
  <1>2. PoolInv /\ [PoolNext]_hubVars => [Own]_hubVars
    BY <1>1
  <1> HIDE DEF Own
  <1>3. PoolSpec => [][Own]_hubVars
    BY <1>2, PoolInvariant, PTL DEF PoolSpec
  <1> QED BY <1>3 DEF ForgottenByItsOwn, Own

(* A tunnel that was lost never comes back, and none is shared: the one a  *)
(* link gets is of a forward that no link had and no request went over, so *)
(* that comparing tunnels is enough to tell a late answer from a current   *)
(* one (_connect, _resetIfCurrent, _dropDeadTunnel).                       *)
TunnelsAreNew ==
    [][ \A l \in Link : link'[l].tunnel \notin {0, link[l].tunnel} =>
          /\ link[l].tunnel = 0 /\ ~link'[l].closed
          /\ \A m \in Link : link[m].tunnel # link'[l].tunnel
          /\ \A r \in Req : req[r].stage \in {"sent", "asked"} => req[r].over # link'[l].tunnel ]_hubVars

(* For any number of links, forwards and requests still out.               *)
THEOREM NoTunnelComesBack == PoolSpec => TunnelsAreNew
  <1> DEFINE Newest(l) ==
               /\ link[l].tunnel = 0 /\ ~link'[l].closed
               /\ \A m \in Link : link[m].tunnel # link'[l].tunnel
               /\ \A r \in Req : req[r].stage \in {"sent", "asked"} => req[r].over # link'[l].tunnel
             AllNew == \A l \in Link : link'[l].tunnel \notin {0, link[l].tunnel} => Newest(l)
  <1>1. ASSUME PoolInv, [PoolNext]_hubVars
        PROVE  AllNew
    <2> SUFFICES ASSUME NEW l \in Link, link'[l].tunnel \notin {0, link[l].tunnel}
                 PROVE  Newest(l)
      OBVIOUS
    <2>1. PoolInv'
      BY <1>1, StepKeeps
    <2>2. Alters(l) /\ Sane(link[l], opened) /\ Sane(link'[l], opened')
      BY <1>1, <2>1, StepAlters DEF PoolInv, LinksOK
    <2>3. Shut(link[l]).tunnel = 0 /\ Forgotten(link[l]).tunnel = 0
      <3>1. link[l] \in Links
        BY <2>2 DEF Sane
      <3> QED BY <3>1 DEF Shut, Forgotten, Links
    <2>4. link'[l].tunnel = link[l].forward /\ link[l].forward # 0
      BY <2>2, <2>3 DEF Alters
    <2>5. link[l].tunnel = 0 /\ ~link'[l].closed
      BY <2>2, <2>4 DEF Sane
    <2>6. \A m \in Link : link[m].tunnel # link'[l].tunnel
      BY <1>1, <2>4 DEF PoolInv, LinksOK
    <2>7. \A r \in Req : req[r].stage \in {"sent", "asked"} => req[r].over # link'[l].tunnel
      BY <1>1, <2>4 DEF PoolInv, ReqsOK, ReqOK
    <2> QED BY <2>5, <2>6, <2>7
  <1>2. PoolInv /\ [PoolNext]_hubVars => [AllNew]_hubVars
    BY <1>1
  <1> HIDE DEF AllNew
  <1>3. PoolSpec => [][AllNew]_hubVars
    BY <1>2, PoolInvariant, PTL DEF PoolSpec
  <1> QED BY <1>3 DEF TunnelsAreNew, AllNew

=============================================================================
