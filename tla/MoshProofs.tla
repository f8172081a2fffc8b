----------------------------- MODULE MoshProofs -----------------------------
(***************************************************************************)
(* A terminal over mosh, proved for any number of sessions, DELETEs and    *)
(* pairings: what the node's turn keeps (a session's end is confirmed      *)
(* before another client starts, and a job in line finds its session where *)
(* it expects it), and from it what the hub may conclude from an answer.   *)
(***************************************************************************)
EXTENDS MoshTerminals, FiniteSetTheorems, SequenceTheorems, TLAPS

Launching == {"spawn", "identify", "attach"}

(* The job at k has still something to start or to end. *)
Acts(k) ==
    /\ ~(k = 1 /\ place = "run")
    /\ line[k].kind = "start" \/ (line[k].kind = "end" /\ line[k].result = "none")

(* Where a session is while such a job waits. *)
Fits(kind, where) == where \in (IF kind = "start" THEN {"line"} ELSE {"line", "active", "ending"})

(* A job's session is where the job expects it, an end that was run or     *)
(* begun left its mark, and a start's session has no other job.            *)
LineOK ==
    /\ place # "entry" => line # <<>>
    /\ \A k \in 1..Len(line) :
         IF Acts(k) THEN Fits(line[k].kind, phase[line[k].id])
                    ELSE line[k].kind = "end" => phase[line[k].id] \in {"ending", "ended"}
    /\ \A k, m \in 1..Len(line) :
         Acts(k) /\ Acts(m) /\ line[k].kind = "start" /\ line[m].id = line[k].id => m = k

(* The session whose start has the turn and found it clear. *)
Starts(i) == place = "run" /\ line[1].kind = "start" /\ line[1].id = i

TurnOK ==
    /\ \A i \in Id : phase[i] \in Launching => Starts(i)
    /\ \A i, j \in Id : Starts(i) /\ j # i => phase[j] \notin {"active", "ending"}
    /\ \A i \in Id : finishing[i] # "no" => phase[i] = "ending"
    /\ place # "entry" /\ line[1].kind = "start" => ~panel

(* A session that runs is in sessions, but for a late one; and a client    *)
(* left by its mosh-server was recorded.                                   *)
ProcsOK ==
    \A i \in Id :
      /\ alive[i] # {} /\ launch[i] # "late" => phase[i] \in {"identify", "attach", "active", "ending"}
      /\ launch[i] \in {"none", "running", "failed"} => alive[i] = {}
      /\ "client" \in alive[i] /\ "server" \notin alive[i] => i \in noted
      /\ phase[i] \in {"none", "pane", "line"} => launch[i] = "none"
      /\ phase[i] = "spawn" => launch[i] = "running"

OnPane(i) == "client" \in alive[i] /\ launch[i] # "late"

PaneOK ==
    \A i, j \in Id : OnPane(i) => (~panel /\ (OnPane(j) => j = i))

(* A session not asked for, or never reserved, was never launched. *)
PostOK ==
    \A i \in Id :
      /\ post[i] \in {"none", "sent"} => i \notin asking
      /\ post[i] \in {"none", "sent"} \/ i \in asking => (phase[i] \in {"none", "ended"} /\ launch[i] = "none")
      /\ post[i] = "never" =>
           /\ i \notin asking /\ launch[i] = "none" /\ phase[i] \in {"none", "line", "ending", "ended"}
           /\ \A k \in 1..Len(line) : Acts(k) /\ line[k].kind = "start" => line[k].id # i

(* The node says clean only of what it ended. *)
RepliesOK == \A r \in replies : r.clean => phase[r.id] = "ended"

NodeInv == NodeTypeOK /\ LineOK /\ TurnOK /\ ProcsOK /\ PaneOK /\ PostOK /\ RepliesOK

(* Nothing of it is at the node, nor ever will be. *)
Over(i) == phase[i] = "ended" \/ post[i] \in {"none", "never"}

(* What the hub holds of an attempt: what it may have at the node is its  *)
(* own to end, and what it takes for clean is over there.                  *)
HubOf(i) ==
    LET a == attempt[i] IN
    /\ a.stage \in {"none", "waiting", "prepare", "reclean"} => post[i] = "none" /\ ~a.posted
    /\ ~a.posted => a.local = "none" /\ post[i] \in {"none", "never"}
    /\ a.stage = "posting" => a.local = "none"
    /\ cleaning[i] = "asked" => a.local # "runs"
    /\ cleaning[i] # "no" => i \in owned
    /\ (i \in owned \/ a.cleaned) => a.stage \in {"cleaning", "relayed", "attached", "refused"}
    /\ a.cleaned => a.local # "runs" /\ Over(i)
    /\ a.stage \in {"relayed", "attached"} => a.local # "runs" /\ Over(i)
    /\ a.stage \in {"cleaning", "refused"} /\ a.posted /\ ~a.cleaned => i \in owned
    /\ \A g \in Gen : i \in scope[g].unclean => i \in owned /\ a.gen = g

HubInv == \A i \in Id : HubOf(i)

HubTypeOK ==
    /\ attempt \in [Id -> Attempts] /\ scope \in [Gen -> Scopes]
    /\ gen \in Gen /\ cut \in 0..MaxGen /\ owned \subseteq Id /\ hubDown \in BOOLEAN
    /\ cleaning \in [Id -> {"no", "local", "asked"}] /\ asks \in [Id -> 0..MaxAsk]
    /\ wire \subseteq [id : Id, n : 1..MaxAsk]

MoshInv == NodeInv /\ HubTypeOK /\ HubInv
-----------------------------------------------------------------------------
(* The line *)

(* q is p without its first d jobs; what is new is behind and among N.     *)
LineFollows(q, p, d, N) ==
    /\ q \in Seq(TurnJobs) /\ Len(q) >= Len(p) - d
    /\ \A k \in 1..Len(q) :
         \/ /\ k + d <= Len(p) /\ q[k].kind = p[k + d].kind /\ q[k].id = p[k + d].id
            /\ q[k].result = p[k + d].result /\ q[k].settles = p[k + d].settles
         \/ k + d > Len(p) /\ q[k] \in N

LEMMA AsksAreNumbers == MaxAsk \in Nat /\ IsFiniteSet(Id) /\ MaxGen \in Nat \ {0} /\ NoTrial \notin Id
  BY MoshAssumption, TerminalAssumption

LEMMA JobsAreJobs ==
    ASSUME NEW i \in Id, NEW n \in SUBSET (0..MaxAsk), NEW b \in BOOLEAN
    PROVE  /\ StartOf(i) \in TurnJobs /\ StartOf(i).kind = "start" /\ StartOf(i).id = i
           /\ PanelOf(i) \in TurnJobs /\ PanelOf(i).kind = "panel" /\ PanelOf(i).id = i
           /\ EndOf(i, n, b) \in TurnJobs /\ EndOf(i, n, b).kind = "end" /\ EndOf(i, n, b).id = i
           /\ EndOf(i, n, b).result = "none" => phase[i] # "ended"
  BY DEF StartOf, PanelOf, EndOf, TurnJobs

LEMMA FollowsItself ==
    ASSUME NEW p \in Seq(TurnJobs)
    PROVE  LineFollows(p, p, 0, {})
  BY DEF LineFollows

LEMMA FollowsAppended ==
    ASSUME NEW p \in Seq(TurnJobs), NEW q, NEW d \in {0, 1}, LineFollows(q, p, d, {}), NEW j \in TurnJobs
    PROVE  LineFollows(Append(q, j), p, d, {j}) /\ Len(Append(q, j)) = Len(q) + 1
  <1>1. q \in Seq(TurnJobs) /\ Len(q) \in Nat /\ Len(p) \in Nat
    BY DEF LineFollows
  <1>2. /\ Append(q, j) \in Seq(TurnJobs) /\ Len(Append(q, j)) = Len(q) + 1
        /\ \A k \in 1..Len(q) : Append(q, j)[k] = q[k]
        /\ Append(q, j)[Len(q) + 1] = j
    BY <1>1, AppendProperties
  <1>3. \A k \in 1..(Len(q) + 1) : k \in 1..Len(q) \/ k = Len(q) + 1
    BY <1>1
  <1>4. Len(q) >= Len(p) - d
    BY DEF LineFollows
  <1>5. Len(q) + 1 + d > Len(p)
    BY <1>1, <1>4
  <1> QED BY <1>1, <1>2, <1>3, <1>4, <1>5 DEF LineFollows

LEMMA FollowsDropped ==
    ASSUME NEW p \in Seq(TurnJobs), p # <<>>, NEW q, NEW N, LineFollows(q, p, 0, N)
    PROVE  LineFollows(Tail(q), p, 1, N) /\ Len(Tail(q)) = Len(q) - 1
  <1>1. q \in Seq(TurnJobs) /\ Len(q) \in Nat /\ Len(p) \in Nat /\ Len(p) # 0 /\ Len(q) >= Len(p)
    BY DEF LineFollows
  <1>2. q # <<>>
    BY <1>1
  <1>3. /\ Tail(q) \in Seq(TurnJobs) /\ Len(Tail(q)) = Len(q) - 1
        /\ \A k \in 1..Len(Tail(q)) : Tail(q)[k] = q[k + 1]
    BY <1>1, <1>2, HeadTailProperties
  <1>4. \A k \in 1..Len(Tail(q)) : k + 1 \in 1..Len(q) /\ k + 1 + 0 = k + 1 /\ k \in Int
    BY <1>1, <1>3
  <1> QED BY <1>1, <1>3, <1>4 DEF LineFollows

LEMMA HeadIsFirst ==
    ASSUME NodeTypeOK, line # <<>>
    PROVE  Head(line) = line[1] /\ Len(line) \in Nat \ {0} /\ line[1] \in TurnJobs
  BY DEF NodeTypeOK

(* Jobs of the same kind and session, in the same places. *)
LEMMA FollowsRelabelled ==
    ASSUME NEW p \in Seq(TurnJobs), NEW q, DOMAIN q = DOMAIN p, q = [k \in DOMAIN p |-> q[k]],
           \A k \in DOMAIN p : /\ q[k] \in TurnJobs /\ q[k].kind = p[k].kind /\ q[k].id = p[k].id
                               /\ q[k].result = p[k].result /\ q[k].settles = p[k].settles
    PROVE  LineFollows(q, p, 0, {}) /\ Len(q) = Len(p)
  <1>1. Len(p) \in Nat /\ DOMAIN p = 1..Len(p)
    OBVIOUS
  <1>2. q \in [1..Len(p) -> TurnJobs]
    BY <1>1
  <1>3. q \in Seq(TurnJobs) /\ Len(q) = Len(p)
    BY <1>1, <1>2
  <1> QED BY <1>1, <1>3 DEF LineFollows

LEMMA QueuedIsIn ==
    ASSUME NodeTypeOK, NEW i
    PROVE  Queued(line, i) \subseteq 1..Len(line)
  BY DEF Queued, NodeTypeOK

(* Somebody joins the end that is in line, or a new one goes behind. *)
LEMMA FollowsWithEnd ==
    ASSUME NodeTypeOK, NEW i \in Id, NEW n \in SUBSET (0..MaxAsk)
    PROVE  LineFollows(WithEnd(line, i, n), line, 0, {EndOf(i, n, FALSE)})
  <1>1. line \in Seq(TurnJobs) /\ DOMAIN line = 1..Len(line) /\ EndOf(i, n, FALSE) \in TurnJobs
    <2>1. FALSE \in BOOLEAN
      OBVIOUS
    <2>2. EndOf(i, n, FALSE) \in TurnJobs
      BY <2>1, JobsAreJobs
    <2>3. line \in Seq(TurnJobs)
      BY DEF NodeTypeOK
    <2>4. DOMAIN line = 1..Len(line)
      BY <2>3
    <2> QED BY <2>2, <2>3, <2>4
  <1>2. CASE Queued(line, i) = {}
    <2>1. WithEnd(line, i, n) = Append(line, EndOf(i, n, FALSE))
      BY <1>2 DEF WithEnd
    <2>2. LineFollows(line, line, 0, {})
      BY <1>1, FollowsItself
    <2> QED BY <1>1, <2>1, <2>2, FollowsAppended
  <1>3. CASE Queued(line, i) # {}
    <2> DEFINE q == [k \in DOMAIN line |-> IF k \in Queued(line, i) THEN [line[k] EXCEPT !.for = @ \cup n] ELSE line[k]]
    <2>1. WithEnd(line, i, n) = q
      BY <1>3 DEF WithEnd
    <2>2. ASSUME NEW k \in DOMAIN line
          PROVE  /\ q[k] \in TurnJobs /\ q[k].kind = line[k].kind /\ q[k].id = line[k].id
                 /\ q[k].result = line[k].result /\ q[k].settles = line[k].settles
      <3>1. line[k] \in TurnJobs
        BY <1>1
      <3>2. [line[k] EXCEPT !.for = @ \cup n] \in TurnJobs
        BY <3>1 DEF TurnJobs
      <3>3. /\ [line[k] EXCEPT !.for = @ \cup n].kind = line[k].kind
            /\ [line[k] EXCEPT !.for = @ \cup n].id = line[k].id
            /\ [line[k] EXCEPT !.for = @ \cup n].result = line[k].result
            /\ [line[k] EXCEPT !.for = @ \cup n].settles = line[k].settles
        BY <3>1 DEF TurnJobs
      <3> QED BY <3>1, <3>2, <3>3
    <2>3. DOMAIN q = DOMAIN line /\ q = [k \in DOMAIN line |-> q[k]]
      OBVIOUS
    <2> HIDE DEF q
    <2>4. LineFollows(q, line, 0, {})
      BY <1>1, <2>2, <2>3, FollowsRelabelled
    <2>5. LineFollows(q, line, 0, {EndOf(i, n, FALSE)})
      BY <2>4 DEF LineFollows
    <2> QED BY <2>1, <2>5
  <1> QED BY <1>2, <1>3

(* The jobs that waited for an end find it done. *)
LEMMA LineAfterEnds ==
    ASSUME NodeTypeOK, LineOK, NEW i \in Id, NEW clean \in BOOLEAN, Ends(i, clean), place' = place,
           finishing[i] # "no", phase[i] = "ending"
    PROVE  /\ line' \in Seq(TurnJobs) /\ Len(line') = Len(line)
           /\ \A k \in 1..Len(line) : /\ line'[k].kind = line[k].kind /\ line'[k].id = line[k].id
                                     /\ line'[k].settles = line[k].settles
                                     /\ \/ line'[k].result = line[k].result
                                        \/ line[k].kind = "end" /\ ~(k = 1 /\ place = "run")
           /\ \A k \in 1..Len(line) : Acts(k)' => Acts(k)
           /\ LineOK'
  <1>1. line \in Seq(TurnJobs) /\ DOMAIN line = 1..Len(line) /\ Len(line) \in Nat
    BY DEF NodeTypeOK
  <1> DEFINE r == IF clean THEN "clean" ELSE "unclean"
             hit(k) == k \in Queued(line, i) /\ ~(k = 1 /\ place = "run")
  <1>2. line' = [k \in DOMAIN line |-> IF hit(k) THEN [line[k] EXCEPT !.result = r] ELSE line[k]]
    BY DEF Ends
  <1>3. ASSUME NEW k \in DOMAIN line
        PROVE  /\ line'[k] \in TurnJobs /\ line'[k].kind = line[k].kind /\ line'[k].id = line[k].id
               /\ line'[k].result = (IF hit(k) THEN r ELSE line[k].result)
               /\ line'[k].settles = line[k].settles
    <2>1. line[k] \in TurnJobs /\ r \in {"clean", "unclean"}
      BY <1>1
    <2>2. /\ [line[k] EXCEPT !.result = r] \in TurnJobs
          /\ [line[k] EXCEPT !.result = r].kind = line[k].kind
          /\ [line[k] EXCEPT !.result = r].id = line[k].id
          /\ [line[k] EXCEPT !.result = r].result = r
          /\ [line[k] EXCEPT !.result = r].settles = line[k].settles
      BY <2>1 DEF TurnJobs
    <2>3. line'[k] = IF hit(k) THEN [line[k] EXCEPT !.result = r] ELSE line[k]
      BY <1>2
    <2> HIDE DEF r, hit
    <2> QED BY <2>1, <2>2, <2>3
  <1>4. r # "none"
    OBVIOUS
  <1>5. \A k \in 1..Len(line) : hit(k) <=> Acts(k) /\ line[k].kind = "end" /\ line[k].id = i
    BY <1>1 DEF Queued, Acts
  <1> HIDE DEF r, hit
  <1>6. line' \in Seq(TurnJobs) /\ Len(line') = Len(line)
    <2>1. DOMAIN line' = 1..Len(line) /\ line' = [k \in 1..Len(line) |-> line'[k]]
      BY <1>1, <1>2
    <2>2. line' \in [1..Len(line) -> TurnJobs]
      BY <1>1, <1>3, <2>1
    <2> QED BY <1>1, <2>2
  <1>7. \A k \in 1..Len(line) : Acts(k)' <=> Acts(k) /\ ~hit(k)
    BY <1>1, <1>3, <1>4, <1>5 DEF Acts
  <1>8. phase'[i] \in {"ending", "ended"} /\ \A j \in Id : j # i => phase'[j] = phase[j]
    BY DEF Ends, NodeTypeOK
  <1>9. \A k \in 1..Len(line) : line[k].id \in Id
    <2>1. \A k \in 1..Len(line) : line[k] \in TurnJobs
      BY <1>1
    <2> QED BY <2>1 DEF TurnJobs
  <1>10. ASSUME NEW k \in 1..Len(line')
         PROVE  IF Acts(k)' THEN Fits(line'[k].kind, phase'[line'[k].id])
                            ELSE line'[k].kind = "end" => phase'[line'[k].id] \in {"ending", "ended"}
    <2>1. k \in 1..Len(line) /\ line'[k].kind = line[k].kind /\ line'[k].id = line[k].id
      BY <1>1, <1>3, <1>6
    <2>2. CASE Acts(k)'
      <3>1. Acts(k) /\ ~hit(k) /\ Fits(line[k].kind, phase[line[k].id])
        BY <1>7, <2>1, <2>2 DEF LineOK
      <3>2. line[k].id # i
        BY <1>5, <2>1, <3>1 DEF Fits, Acts
      <3> QED BY <1>8, <1>9, <2>1, <2>2, <3>1, <3>2
    <2>3. CASE ~Acts(k)' /\ line[k].id # i
      BY <1>5, <1>7, <1>8, <1>9, <2>1, <2>3 DEF LineOK
    <2>4. CASE ~Acts(k)' /\ line[k].id = i
      BY <1>8, <2>1, <2>4
    <2> QED BY <2>2, <2>3, <2>4
  <1>11. \A k, m \in 1..Len(line') :
           Acts(k)' /\ Acts(m)' /\ line'[k].kind = "start" /\ line'[m].id = line'[k].id => m = k
    BY <1>1, <1>3, <1>6, <1>7 DEF LineOK
  <1>12. place' # "entry" => line' # <<>>
    BY <1>1, <1>6 DEF LineOK
  <1>13. \A k \in 1..Len(line) : line'[k].result = line[k].result \/ (line[k].kind = "end" /\ ~(k = 1 /\ place = "run"))
    BY <1>1, <1>3, <1>5 DEF Acts
  <1> QED BY <1>1, <1>3, <1>6, <1>7, <1>10, <1>11, <1>12, <1>13 DEF LineOK

(* What is left of the line finds its sessions where it expects them, if   *)
(* what is new does, and no start is new.                                  *)
LEMMA LineKeeps ==
    ASSUME NodeTypeOK, LineOK, NEW d \in {0, 1}, NEW N, LineFollows(line', line, d, N),
           d = 0 => (place = "run" => place' = "run") /\ (place' # "entry" => line # <<>>),
           d = 1 => line # <<>> /\ place' = "entry",
           \A k \in 1..Len(line) : k > d =>
             IF Acts(k - d)' THEN Acts(k) => Fits(line[k].kind, phase'[line[k].id])
                             ELSE line[k].kind = "end" => phase'[line[k].id] \in {"ending", "ended"},
           \A j \in N : /\ j.kind # "start"
                        /\ j.kind = "end" /\ j.result # "none" => phase'[j.id] \in {"ending", "ended"}
                        /\ j.kind = "end" /\ j.result = "none" =>
                             /\ phase'[j.id] \in {"line", "active", "ending"}
                             /\ \A k \in 1..Len(line) : k > d /\ Acts(k) /\ line[k].kind = "start" => line[k].id # j.id
    PROVE  LineOK'
  <1>1. Len(line) \in Nat /\ line' \in Seq(TurnJobs) /\ Len(line') \in Nat /\ Len(line') >= Len(line) - d
    BY DEF NodeTypeOK, LineFollows
  <1> DEFINE Kept(k) == /\ k + d \in 1..Len(line) /\ k + d > d /\ Acts(k + d)
                        /\ line'[k].kind = line[k + d].kind /\ line'[k].id = line[k + d].id
             Came(k) == /\ k + d > Len(line) /\ line'[k] \in N
                        /\ line'[k].kind = "end" /\ line'[k].result = "none"
  <1>2. ASSUME NEW k \in 1..Len(line'), Acts(k)'
        PROVE  Kept(k) \/ Came(k)
    <2>1. \/ /\ k + d <= Len(line) /\ line'[k].kind = line[k + d].kind /\ line'[k].id = line[k + d].id
             /\ line'[k].result = line[k + d].result
          \/ k + d > Len(line) /\ line'[k] \in N
      BY DEF LineFollows
    <2>2. /\ ~(k = 1 /\ place' = "run")
          /\ line'[k].kind = "start" \/ (line'[k].kind = "end" /\ line'[k].result = "none")
      BY <1>2 DEF Acts
    <2>3. ~(k + d = 1 /\ place = "run")
      BY <2>2, <1>1
    <2> QED BY <1>1, <2>1, <2>2, <2>3 DEF Acts
  <1>3. ASSUME NEW k \in 1..Len(line')
        PROVE  IF Acts(k)' THEN Fits(line'[k].kind, phase'[line'[k].id])
                           ELSE line'[k].kind = "end" => phase'[line'[k].id] \in {"ending", "ended"}
    <2>1. k + d - d = k
      BY <1>1
    <2>2. CASE Acts(k)' /\ Kept(k)
      BY <2>1, <2>2
    <2>3. CASE Acts(k)' /\ Came(k)
      BY <2>3 DEF Fits
    <2>4. CASE ~Acts(k)' /\ k + d <= Len(line)
      <3>1. line'[k].kind = line[k + d].kind /\ line'[k].id = line[k + d].id
        BY <2>4 DEF LineFollows
      <3>2. k + d \in 1..Len(line) /\ k + d > d
        BY <1>1, <2>4
      <3> QED BY <2>1, <2>4, <3>1, <3>2
    <2>5. CASE ~Acts(k)' /\ k + d > Len(line)
      <3>1. line'[k] \in N
        BY <1>1, <2>5 DEF LineFollows
      <3>2. line'[k].kind = "end" => line'[k].result # "none"
        <4>1. ~(k = 1 /\ place' = "run")
          BY <1>1, <2>5
        <4> QED BY <2>5, <4>1 DEF Acts
      <3> QED BY <2>5, <3>1, <3>2
    <2> QED BY <1>1, <1>2, <2>2, <2>3, <2>4, <2>5
  <1>4. ASSUME NEW k \in 1..Len(line'), NEW m \in 1..Len(line'), Acts(k)', Acts(m)',
               line'[k].kind = "start", line'[m].id = line'[k].id
        PROVE  m = k
    <2>1. Kept(k)
      BY <1>2, <1>4
    <2>2. Kept(m)
      BY <1>2, <1>4, <2>1
    <2>3. m + d = k + d
      BY <1>4, <2>1, <2>2 DEF LineOK
    <2> QED BY <1>1, <2>3
  <1>5. place' # "entry" => line' # <<>>
    BY <1>1
  <1> QED BY <1>3, <1>4, <1>5 DEF LineOK

(* A start gets in line: its session has no job there yet. *)
LEMMA LineWithStart ==
    ASSUME NodeTypeOK, LineOK, NEW i \in Id, line' = Append(line, StartOf(i)), place' = place,
           phase[i] = "pane", phase' = [phase EXCEPT ![i] = "line"]
    PROVE  LineOK' /\ LineFollows(line', line, 0, {StartOf(i)})
  <1>1. /\ line \in Seq(TurnJobs) /\ Len(line) \in Nat /\ StartOf(i) \in TurnJobs
        /\ StartOf(i).kind = "start" /\ StartOf(i).id = i
    BY DEF NodeTypeOK, StartOf, TurnJobs
  <1>2. /\ Len(line') = Len(line) + 1 /\ line' # <<>>
        /\ \A k \in 1..Len(line) : line'[k] = line[k]
        /\ line'[Len(line) + 1] = StartOf(i)
    BY <1>1, AppendProperties
  <1>3. \A k \in 1..Len(line) : Acts(k) => line[k].id # i
    BY DEF LineOK, Fits
  <1>4. \A k \in 1..Len(line) : Acts(k)' <=> Acts(k)
    BY <1>2 DEF Acts
  <1>5. \A k \in 1..Len(line') : k \in 1..Len(line) \/ k = Len(line) + 1
    BY <1>1, <1>2
  <1>6. \A k \in 1..Len(line) : line[k].id \in Id
    <2>1. \A k \in 1..Len(line) : line[k] \in TurnJobs
      BY <1>1
    <2> QED BY <2>1 DEF TurnJobs
  <1>7. ASSUME NEW k \in 1..Len(line')
        PROVE  IF Acts(k)' THEN Fits(line'[k].kind, phase'[line'[k].id])
                           ELSE line'[k].kind = "end" => phase'[line'[k].id] \in {"ending", "ended"}
    <2>1. CASE k \in 1..Len(line)
      <3>1. line'[k] = line[k] /\ (Acts(k)' <=> Acts(k)) /\ line[k].id \in Id
        BY <1>2, <1>4, <1>6, <2>1
      <3>2. IF Acts(k) THEN Fits(line[k].kind, phase[line[k].id])
                       ELSE line[k].kind = "end" => phase[line[k].id] \in {"ending", "ended"}
        BY <2>1 DEF LineOK
      <3>3. Acts(k) \/ line[k].kind = "end" => phase'[line[k].id] = phase[line[k].id]
        BY <1>3, <2>1, <3>1, <3>2 DEF NodeTypeOK
      <3> QED BY <3>1, <3>2, <3>3
    <2>2. CASE k = Len(line) + 1
      BY <1>1, <1>2, <2>2 DEF Fits, NodeTypeOK
    <2> QED BY <1>5, <2>1, <2>2
  <1>8. ASSUME NEW k \in 1..Len(line'), NEW m \in 1..Len(line'), Acts(k)', Acts(m)',
               line'[k].kind = "start", line'[m].id = line'[k].id
        PROVE  m = k
    <2>1. CASE k \in 1..Len(line) /\ m \in 1..Len(line)
      BY <1>2, <1>4, <1>8, <2>1 DEF LineOK
    <2>2. CASE k \in 1..Len(line) /\ m = Len(line) + 1
      BY <1>1, <1>2, <1>3, <1>4, <1>8, <2>2
    <2>3. CASE k = Len(line) + 1 /\ m \in 1..Len(line)
      BY <1>1, <1>2, <1>3, <1>4, <1>8, <2>3
    <2> QED BY <1>5, <2>1, <2>2, <2>3
  <1>9. LineFollows(line', line, 0, {StartOf(i)})
    BY <1>1, FollowsItself, FollowsAppended
  <1> QED BY <1>2, <1>7, <1>8, <1>9 DEF LineOK

-----------------------------------------------------------------------------
(* Steps at the node *)

(* Whoever joins a line that d jobs leave is no start, and an end with     *)
(* something to do finds a session to end.                                 *)
Welcome(N, d) ==
    \A j \in N :
      /\ j.kind # "start"
      /\ j.kind = "end" /\ j.result # "none" => phase[j.id] \in {"ending", "ended"}
      /\ j.kind = "end" /\ j.result = "none" =>
           /\ phase[j.id] \in {"line", "active", "ending"}
           /\ \A k \in 1..Len(line) : k > d /\ Acts(k) /\ line[k].kind = "start" => line[k].id # j.id

(* Replies to a POST that the node is handling, but for "never".           *)
Replied == \A i \in Id : post'[i] = post[i] \/ (post[i] \notin {"none", "sent"} /\ post'[i] \in {"ok", "error", "gone"})

(* Jobs join the line or its first one leaves, and no session changes.     *)
LEMMA JobsMove ==
    ASSUME NodeInv, NodeTypeOK', NEW d \in {0, 1}, NEW N, LineFollows(line', line, d, N),
           UNCHANGED <<phase, launch, alive, noted, finishing, asking>>,
           d = 0 => place' = place /\ (panel' => panel),
           d = 1 => /\ line # <<>> /\ place' = "entry" /\ \A i \in Id : phase[i] \notin Launching
                    /\ panel' => panel \/ \A i \in Id : ~OnPane(i),
           Welcome(N, d), Replied,
           \A r \in replies' : r \in replies \/ (r.clean => phase[r.id] = "ended")
    PROVE  NodeInv'
  <1>1. Len(line) \in Nat /\ Len(line') \in Nat /\ line' \in Seq(TurnJobs) /\ line \in Seq(TurnJobs)
    BY DEF NodeInv, NodeTypeOK, LineFollows
  <1>2. LineOK'
    <2>1. place # "entry" => line # <<>>
      BY DEF NodeInv, LineOK
    <2>2. \A k \in 1..Len(line) : k > d =>
            IF Acts(k - d)' THEN Acts(k) => Fits(line[k].kind, phase'[line[k].id])
                            ELSE line[k].kind = "end" => phase'[line[k].id] \in {"ending", "ended"}
      <3> SUFFICES ASSUME NEW k \in 1..Len(line), k > d, ~Acts(k - d)', line[k].kind = "end"
                   PROVE  ~Acts(k)
        BY DEF NodeInv, LineOK
      <3>1. line'[k - d].kind = line[k].kind /\ line'[k - d].result = line[k].result
        <4>1. k - d \in 1..Len(line') /\ k - d + d = k
          BY <1>1 DEF LineFollows
        <4> QED BY <4>1 DEF LineFollows
      <3>2. place' = "run" /\ k - d = 1 => d = 0 /\ place = "run" /\ k = 1
        BY <1>1
      <3> QED BY <3>1, <3>2 DEF Acts
    <2>3. \A j \in N : /\ j.kind # "start"
                       /\ j.kind = "end" /\ j.result # "none" => phase'[j.id] \in {"ending", "ended"}
                       /\ j.kind = "end" /\ j.result = "none" =>
                            /\ phase'[j.id] \in {"line", "active", "ending"}
                            /\ \A k \in 1..Len(line) : k > d /\ Acts(k) /\ line[k].kind = "start" => line[k].id # j.id
      BY DEF Welcome
    <2>4. NodeTypeOK /\ LineOK
      BY DEF NodeInv
    <2> QED BY <2>1, <2>2, <2>3, <2>4, LineKeeps
  <1>3. d = 0 /\ line # <<>> => line'[1].kind = line[1].kind /\ line'[1].id = line[1].id
    BY <1>1 DEF LineFollows
  <1>4. TurnOK'
    <2>1. CASE d = 0
      <3>1. \A i \in Id : Starts(i)' <=> Starts(i)
        BY <1>3, <2>1 DEF Starts, NodeInv, LineOK
      <3>2. place' # "entry" /\ line'[1].kind = "start" => ~panel'
        BY <1>3, <2>1 DEF NodeInv, LineOK, TurnOK
      <3> QED BY <3>1, <3>2 DEF NodeInv, TurnOK
    <2>2. CASE d = 1
      BY <2>2 DEF NodeInv, TurnOK, Starts
    <2> QED BY <2>1, <2>2
  <1>5. ProcsOK'
    BY DEF NodeInv, ProcsOK
  <1>6. PaneOK'
    <2>1. \A i \in Id : OnPane(i)' <=> OnPane(i)
      BY DEF OnPane
    <2>2. panel' => panel \/ \A i \in Id : ~OnPane(i)
      OBVIOUS
    <2> QED BY <2>1, <2>2 DEF NodeInv, PaneOK
  <1>7. PostOK'
    <2>1. ASSUME NEW i \in Id, post'[i] = "never"
          PROVE  \A k \in 1..Len(line') : Acts(k)' /\ line'[k].kind = "start" => line'[k].id # i
      <3>1. post[i] = "never"
        BY <2>1 DEF Replied
      <3>2. \A k \in 1..Len(line) : Acts(k) /\ line[k].kind = "start" => line[k].id # i
        BY <3>1 DEF NodeInv, PostOK
      <3>. \A j \in N : j.kind # "start"
        BY DEF Welcome
      <3>3. ASSUME NEW k \in 1..Len(line'), Acts(k)', line'[k].kind = "start"
            PROVE  /\ k + d \in 1..Len(line) /\ Acts(k + d)
                   /\ line[k + d].kind = "start" /\ line[k + d].id = line'[k].id
        <4>1. k + d <= Len(line) /\ line'[k].kind = line[k + d].kind /\ line'[k].id = line[k + d].id
          BY <3>3 DEF LineFollows
        <4>2. ~(k + d = 1 /\ place = "run")
          BY <1>1, <3>3 DEF Acts
        <4> QED BY <1>1, <3>3, <4>1, <4>2 DEF Acts
      <3> QED BY <3>2, <3>3
    <2>2. \A i \in Id : post'[i] \in {"none", "sent", "never"} => post'[i] = post[i]
      BY DEF Replied
    <2> QED BY <2>1, <2>2 DEF NodeInv, PostOK
  <1>8. RepliesOK'
    BY DEF NodeInv, RepliesOK
  <1> QED BY <1>2, <1>4, <1>5, <1>6, <1>7, <1>8 DEF NodeInv

(* A start that is given up: behind the others, its end.                   *)
LEMMA EndBehind ==
    ASSUME NodeInv, NEW i \in Id, line # <<>>, line' = Append(Tail(line), EndOf(i, {}, TRUE))
    PROVE  LineFollows(line', line, 1, {EndOf(i, {}, TRUE)})
  <1>1. line \in Seq(TurnJobs) /\ {} \in SUBSET (0..MaxAsk) /\ TRUE \in BOOLEAN
    BY DEF NodeInv, NodeTypeOK
  <1>2. LineFollows(line, line, 0, {})
    BY <1>1, FollowsItself
  <1>3. LineFollows(Tail(line), line, 1, {})
    BY <1>1, <1>2, FollowsDropped
  <1>4. EndOf(i, {}, TRUE) \in TurnJobs
    BY <1>1, JobsAreJobs
  <1> QED BY <1>1, <1>3, <1>4, FollowsAppended

LEMMA FirstGoes ==
    ASSUME NodeInv, line # <<>>, line' = Tail(line)
    PROVE  LineFollows(line', line, 1, {})
  <1>1. line \in Seq(TurnJobs)
    BY DEF NodeInv, NodeTypeOK
  <1>2. LineFollows(line, line, 0, {})
    BY <1>1, FollowsItself
  <1> QED BY <1>1, <1>2, FollowsDropped

LEMMA LineStays ==
    ASSUME NodeInv, line' = line
    PROVE  LineFollows(line', line, 0, {}) /\ line' \in Seq(TurnJobs)
  <1>1. line \in Seq(TurnJobs)
    BY DEF NodeInv, NodeTypeOK
  <1> QED BY <1>1, FollowsItself

(* A start that had not begun leaves the line for its end: whether it was  *)
(* cancelled, or the others did not go.                                    *)
LEMMA StartRefused ==
    ASSUME NodeInv, NEW i \in Id, First("start", i, "entry") \/ First("start", i, "clear"),
           GivenUp(Tail(line), i, "error"), place' = "entry",
           UNCHANGED <<phase, asking, cancelled, launch, alive, known, noted, finishing, panel, shutting, settling, replies>>
    PROVE  NodeInv'
  <1>1. line # <<>> /\ line[1].kind = "start" /\ line[1].id = i /\ place \in {"entry", "clear"}
    BY HeadIsFirst DEF NodeInv, First
  <1>2. Len(line) \in Nat /\ 1 \in 1..Len(line)
    BY <1>1 DEF NodeInv, NodeTypeOK
  <1>3. LineFollows(line', line, 1, {EndOf(i, {}, TRUE)})
    BY <1>1, EndBehind DEF GivenUp
  <1>4. phase[i] = "line" /\ \A k \in 1..Len(line) : k > 1 /\ Acts(k) /\ line[k].kind = "start" => line[k].id # i
    <2>1. Acts(1)
      BY <1>1, <1>2 DEF Acts
    <2> QED BY <1>1, <1>2, <2>1 DEF NodeInv, LineOK, Fits
  <1>5. \A j \in Id : phase[j] \notin Launching
    BY <1>1 DEF NodeInv, TurnOK, Starts
  <1>6. /\ Replied
        /\ post' \in [Id -> {"none", "sent", "handled", "ok", "never", "error", "gone"}]
    BY DEF GivenUp, NodeInv, NodeTypeOK, Replied
  <1>7. NodeTypeOK'
    BY <1>3, <1>6 DEF NodeInv, NodeTypeOK, LineFollows
  <1>8. Welcome({EndOf(i, {}, TRUE)}, 1)
    BY <1>4 DEF EndOf, Welcome
  <1> QED BY <1>1, <1>3, <1>5, <1>6, <1>7, <1>8, JobsMove

LEMMA AbortedKeeps ==
    ASSUME NodeInv, NEW i \in Id, StartAborted(i)
    PROVE  NodeInv'
  <1>1. line # <<>> /\ line[1].kind = "start" /\ line[1].id = i /\ place = "run" /\ place' = "entry"
    BY HeadIsFirst DEF NodeInv, First, StartAborted
  <1>2. /\ phase[i] \in {"ending", "ended"} /\ GivenUp(Tail(line), i, "error")
        /\ UNCHANGED <<phase, asking, cancelled, launch, alive, known, noted, finishing, panel, shutting, settling, replies>>
    BY DEF StartAborted, procVars
  <1>3. LineFollows(line', line, 1, {EndOf(i, {}, TRUE)})
    BY <1>1, <1>2, EndBehind DEF GivenUp
  <1>4. \A j \in Id : phase[j] \notin Launching
    BY <1>1, <1>2 DEF NodeInv, TurnOK, Starts, Launching
  <1>5. Replied /\ post' \in [Id -> {"none", "sent", "handled", "ok", "never", "error", "gone"}]
    BY <1>2 DEF GivenUp, NodeInv, NodeTypeOK, Replied
  <1>6. NodeTypeOK'
    BY <1>1, <1>2, <1>3, <1>5 DEF NodeInv, NodeTypeOK, LineFollows
  <1>7. \A k \in 1..Len(line) : Acts(k) /\ line[k].kind = "start" => line[k].id # i
    BY <1>2 DEF NodeInv, LineOK, Fits
  <1>8. Welcome({EndOf(i, {}, TRUE)}, 1)
    BY <1>2, <1>7 DEF EndOf, Welcome
  <1> QED BY <1>1, <1>2, <1>3, <1>4, <1>5, <1>6, <1>8, JobsMove

LEMMA NobodyJoins == \A d : Welcome({}, d)
  BY DEF Welcome

LEMMA NoReply == ASSUME post' = post PROVE Replied
  BY DEF Replied

(* A client on the pane is of a session whose start has the turn, or of    *)
(* one in sessions.                                                        *)
LEMMA ClearIsAlone ==
    ASSUME NodeInv, ClearedNow, \A i \in Id : phase[i] \notin Launching
    PROVE  \A i \in Id : ~OnPane(i)
  BY DEF NodeInv, ProcsOK, OnPane, ClearedNow, Owned, Launching

LEMMA PanelClearKeeps ==
    ASSUME NodeInv, NEW i \in Id, PanelClear(i)
    PROVE  NodeInv'
  <1>1. line # <<>> /\ line[1].kind = "panel" /\ place = "clear" /\ place' = "entry" /\ line' = Tail(line)
    BY HeadIsFirst DEF NodeInv, First, PanelClear
  <1>2. /\ UNCHANGED <<phase, asking, post, cancelled, launch, alive, known, noted, finishing, shutting, settling, replies>>
        /\ panel' = (panel \/ ClearedNow)
    BY DEF PanelClear, procVars
  <1>3. LineFollows(line', line, 1, {})
    BY <1>1, FirstGoes
  <1>4. \A j \in Id : phase[j] \notin Launching
    BY <1>1 DEF NodeInv, TurnOK, Starts
  <1>5. panel' => panel \/ \A j \in Id : ~OnPane(j)
    BY <1>2, <1>4, ClearIsAlone
  <1>6. panel' \in BOOLEAN
    BY <1>2 DEF NodeInv, NodeTypeOK, ClearedNow
  <1>7. NodeTypeOK'
    BY <1>1, <1>2, <1>3, <1>6 DEF NodeInv, NodeTypeOK, LineFollows
  <1> QED BY <1>1, <1>2, <1>3, <1>4, <1>5, <1>7, NobodyJoins, NoReply, JobsMove

LEMMA PanelLeavesKeeps ==
    ASSUME NodeInv, PanelLeaves
    PROVE  NodeInv'
  <1>1. /\ UNCHANGED <<phase, asking, post, cancelled, launch, alive, known, noted, finishing, line, place, shutting, settling, replies>>
        /\ panel' = FALSE
    BY DEF PanelLeaves, procVars
  <1>2. LineFollows(line', line, 0, {})
    BY <1>1, LineStays
  <1>3. NodeTypeOK'
    BY <1>1 DEF NodeInv, NodeTypeOK
  <1> QED BY <1>1, <1>2, <1>3, NobodyJoins, NoReply, JobsMove

(* An end gets in line, for a session with something to end.               *)
LEMMA EndJoins ==
    ASSUME NodeInv, NEW i \in Id, NEW n \in SUBSET (0..MaxAsk), phase[i] \in {"active", "ending"},
           line' = WithEnd(line, i, n)
    PROVE  /\ LineFollows(line', line, 0, {EndOf(i, n, FALSE)})
           /\ Welcome({EndOf(i, n, FALSE)}, 0)
  <1>1. LineFollows(line', line, 0, {EndOf(i, n, FALSE)})
    BY FollowsWithEnd DEF NodeInv
  <1>2. \A k \in 1..Len(line) : Acts(k) /\ line[k].kind = "start" => line[k].id # i
    BY DEF NodeInv, LineOK, Fits
  <1> QED BY <1>1, <1>2 DEF Welcome, EndOf

LEMMA ReapSilentKeeps ==
    ASSUME NodeInv, NEW i \in Id, ReapSilent(i)
    PROVE  NodeInv'
  <1>1. /\ UNCHANGED <<phase, asking, post, launch, alive, known, noted, finishing, place, panel, shutting, settling, replies>>
        /\ cancelled' = cancelled \cup {i} /\ line' = WithEnd(line, i, {})
        /\ phase[i] \in {"active", "ending"} /\ {} \in SUBSET (0..MaxAsk)
    BY DEF ReapSilent, procVars
  <1>2. LineFollows(line', line, 0, {EndOf(i, {}, FALSE)}) /\ Welcome({EndOf(i, {}, FALSE)}, 0)
    BY <1>1, EndJoins
  <1>3. NodeTypeOK'
    BY <1>1, <1>2 DEF NodeInv, NodeTypeOK, LineFollows
  <1> QED BY <1>1, <1>2, <1>3, NoReply, JobsMove

(* At shutdown the ends that are not in line yet come behind, in some order. *)
LEMMA EndsBehind ==
    ASSUME NodeInv, StopAll
    PROVE  LineFollows(line', line, 0, {EndOf(i, {}, FALSE) : i \in Owned})
  <1> DEFINE unqueued == {i \in Owned : Queued(line, i) = {}}
  <1>1. PICK order \in Bijection(1..Cardinality(unqueued), unqueued) :
          line' = line \o [k \in DOMAIN order |-> EndOf(order[k], {}, FALSE)]
    BY DEF StopAll
  <1> DEFINE n == Cardinality(unqueued)
             more == [k \in 1..n |-> EndOf(order[k], {}, FALSE)]
             N == {EndOf(i, {}, FALSE) : i \in Owned}
  <1>2. Owned \subseteq Id /\ unqueued \subseteq Owned
    BY DEF Owned
  <1>3. n \in Nat
    <2>1. IsFiniteSet(unqueued)
      BY <1>2, AsksAreNumbers, FS_Subset
    <2> HIDE DEF unqueued
    <2> QED BY <2>1, FS_CardinalityType
  <1>4. order \in [1..n -> unqueued]
    BY DEF Bijection, Injection
  <1>5. N \subseteq TurnJobs
    <2>1. {} \in SUBSET (0..MaxAsk) /\ FALSE \in BOOLEAN
      OBVIOUS
    <2>2. \A i \in Id : EndOf(i, {}, FALSE) \in TurnJobs
      BY <2>1, JobsAreJobs
    <2> QED BY <1>2, <2>2
  <1> HIDE DEF n, unqueued
  <1>6. \A k \in 1..n : EndOf(order[k], {}, FALSE) \in N
    BY <1>2, <1>4
  <1> HIDE DEF N
  <1>7. more \in Seq(N) /\ more \in Seq(TurnJobs) /\ Len(more) = n /\ \A k \in 1..n : more[k] \in N
    <2>1. more \in [1..n -> N] /\ more \in [1..n -> TurnJobs]
      BY <1>5, <1>6
    <2> HIDE DEF more
    <2> QED BY <1>3, <2>1
  <1>8. line' = line \o more
    BY <1>1, <1>4
  <1>9. line \in Seq(TurnJobs) /\ Len(line) \in Nat
    BY DEF NodeInv, NodeTypeOK
  <1> HIDE DEF more
  <1>10. /\ line' \in Seq(TurnJobs) /\ Len(line') = Len(line) + n
         /\ \A k \in 1..(Len(line) + n) : line'[k] = IF k <= Len(line) THEN line[k] ELSE more[k - Len(line)]
    BY <1>7, <1>8, <1>9, ConcatProperties
  <1>11. LineFollows(line', line, 0, N)
    <2>1. ASSUME NEW k \in 1..Len(line'), k > Len(line)
          PROVE  line'[k] \in N
      <3>1. k - Len(line) \in 1..n
        BY <1>3, <1>9, <1>10, <2>1
      <3> QED BY <1>7, <1>10, <2>1, <3>1
    <2>2. ASSUME NEW k \in 1..Len(line'), k <= Len(line)
          PROVE  line'[k] = line[k]
      BY <1>10, <2>2
    <2> QED BY <1>3, <1>9, <1>10, <2>1, <2>2 DEF LineFollows
  <1> QED BY <1>11 DEF N

LEMMA StopAllKeeps ==
    ASSUME NodeInv, StopAll
    PROVE  NodeInv'
  <1> DEFINE N == {EndOf(i, {}, FALSE) : i \in Owned}
  <1>1. LineFollows(line', line, 0, N) /\ line' \in Seq(TurnJobs) /\ Owned \subseteq Id
    BY EndsBehind DEF LineFollows, Owned
  <1> HIDE DEF N
  <1>2. Welcome(N, 0)
    <2>1. ASSUME NEW i \in Owned
          PROVE  /\ EndOf(i, {}, FALSE).kind = "end" /\ EndOf(i, {}, FALSE).id = i
                 /\ EndOf(i, {}, FALSE).result = "none" /\ phase[i] \in {"active", "ending"}
                 /\ \A k \in 1..Len(line) : Acts(k) /\ line[k].kind = "start" => line[k].id # i
      BY <2>1 DEF EndOf, Owned, NodeInv, LineOK, Fits
    <2>2. \A j \in N : \E i \in Owned : j = EndOf(i, {}, FALSE)
      BY DEF N
    <2>3. ASSUME NEW j \in N
          PROVE  /\ j.kind = "end" /\ j.result = "none" /\ phase[j.id] \in {"line", "active", "ending"}
                 /\ \A k \in 1..Len(line) : k > 0 /\ Acts(k) /\ line[k].kind = "start" => line[k].id # j.id
      <3>1. PICK i \in Owned : j = EndOf(i, {}, FALSE)
        BY <2>2
      <3>2. j.kind = "end" /\ j.id = i /\ j.result = "none" /\ phase[i] \in {"active", "ending"}
        BY <2>1, <3>1
      <3>3. \A k \in 1..Len(line) : Acts(k) /\ line[k].kind = "start" => line[k].id # i
        BY <2>1
      <3> QED BY <3>2, <3>3
    <2> QED BY <2>3 DEF Welcome
  <1>3. /\ UNCHANGED <<phase, asking, post, launch, alive, known, noted, finishing, place, panel, replies>>
         /\ shutting' = TRUE /\ cancelled' \subseteq Id /\ settling' \subseteq [id : Id, n : 0..MaxAsk]
    <2>1. 0 \in 0..MaxAsk
      BY AsksAreNumbers
    <2> QED BY <1>1, <2>1 DEF StopAll, procVars, Held, NodeInv, NodeTypeOK
  <1>4. NodeTypeOK'
    BY <1>1, <1>3 DEF NodeInv, NodeTypeOK
  <1> QED BY <1>1, <1>2, <1>3, <1>4, NoReply, JobsMove

LEMMA AnswerType ==
    ASSUME NEW i \in Id, NEW N \in SUBSET (0..MaxAsk), NEW clean \in BOOLEAN
    PROVE  /\ Answer(i, N, clean) \subseteq [id : Id, n : 1..MaxAsk, clean : BOOLEAN]
           /\ \A r \in Answer(i, N, clean) : r.id = i /\ r.clean = clean
  <1>1. \A n \in N \ {0} : n \in 1..MaxAsk
    BY AsksAreNumbers
  <1>2. ASSUME NEW r \in Answer(i, N, clean)
        PROVE  \E n \in N \ {0} : r = [id |-> i, n |-> n, clean |-> clean]
    BY <1>2, Zenon DEF Answer
  <1>3. ASSUME NEW r \in Answer(i, N, clean)
        PROVE  /\ r \in [id : Id, n : 1..MaxAsk, clean : BOOLEAN]
               /\ r.id = i /\ r.clean = clean
    <2>1. PICK n \in N \ {0} : r = [id |-> i, n |-> n, clean |-> clean]
      BY <1>2, <1>3
    <2> QED BY <1>1, <2>1
  <1> QED BY <1>3

(* The end that has the turn is over: its session is ended or kept.        *)
LEMMA FirstEnded ==
    ASSUME NodeInv, NEW i \in Id, line # <<>>, Head(line).kind = "end", Head(line).id = i,
           place = "run" \/ Head(line).result # "none"
    PROVE  /\ phase[i] \in {"ending", "ended"} /\ line[1].kind = "end" /\ Head(line) = line[1]
           /\ \A j \in Id : phase[j] \notin Launching
  <1>1. Head(line) = line[1] /\ Len(line) \in Nat /\ 1 \in 1..Len(line)
    BY HeadIsFirst DEF NodeInv
  <1>2. ~Acts(1)
    BY <1>1 DEF Acts
  <1>3. phase[i] \in {"ending", "ended"}
    BY <1>1, <1>2 DEF NodeInv, LineOK
  <1> QED BY <1>1, <1>3 DEF NodeInv, TurnOK, Starts

LEMMA EndDoneKeeps ==
    ASSUME NodeInv, NEW i \in Id, EndDone(i)
    PROVE  NodeInv'
  <1> DEFINE clean == phase[i] = "ended" /\ Head(line).result # "unclean"
             late == IF Head(line).settles THEN {s.n : s \in {s \in settling : s.id = i}} ELSE {}
  <1>1. /\ line # <<>> /\ Head(line).kind = "end" /\ Head(line).id = i
        /\ place = "run" \/ Head(line).result # "none"
        /\ place' = "entry"
        /\ UNCHANGED <<phase, asking, post, cancelled, launch, alive, known, noted, finishing, panel, shutting>>
    BY DEF EndDone, procVars
  <1>2. /\ replies' = replies \cup Answer(i, Head(line).for, clean)
                              \cup (IF phase[i] = "ended" THEN Answer(i, late, TRUE) ELSE {})
        /\ line' = IF late = {} \/ phase[i] = "ended" THEN Tail(line) ELSE Tail(WithEnd(line, i, late))
        /\ settling' = IF Head(line).settles THEN {s \in settling : s.id # i} ELSE settling
    BY DEF EndDone
  <1>3. /\ phase[i] \in {"ending", "ended"} /\ line[1].kind = "end" /\ Head(line) = line[1]
        /\ \A j \in Id : phase[j] \notin Launching
    BY <1>1, FirstEnded
  <1>4. line \in Seq(TurnJobs) /\ Head(line) \in TurnJobs
    BY <1>1, HeadIsFirst DEF NodeInv, NodeTypeOK
  <1>5. Head(line).for \in SUBSET (0..MaxAsk) /\ clean \in BOOLEAN
    BY <1>4 DEF TurnJobs
  <1>6. late \in SUBSET (0..MaxAsk)
    BY DEF NodeInv, NodeTypeOK
  <1>7. clean => phase[i] = "ended"
    OBVIOUS
  <1> HIDE DEF clean, late
  <1>8. /\ replies' \subseteq [id : Id, n : 1..MaxAsk, clean : BOOLEAN]
        /\ \A r \in replies' : r \in replies \/ (r.clean => phase[r.id] = "ended")
    <2>1. replies \subseteq [id : Id, n : 1..MaxAsk, clean : BOOLEAN]
      BY DEF NodeInv, NodeTypeOK
    <2>2. /\ Answer(i, Head(line).for, clean) \subseteq [id : Id, n : 1..MaxAsk, clean : BOOLEAN]
          /\ \A r \in Answer(i, Head(line).for, clean) : r.id = i /\ r.clean = clean
      BY <1>5, AnswerType
    <2>3. /\ Answer(i, late, TRUE) \subseteq [id : Id, n : 1..MaxAsk, clean : BOOLEAN]
          /\ \A r \in Answer(i, late, TRUE) : r.id = i
      BY <1>6, AnswerType
    <2> QED BY <1>2, <1>7, <2>1, <2>2, <2>3
  <1>9. settling' \subseteq [id : Id, n : 0..MaxAsk]
    BY <1>2 DEF NodeInv, NodeTypeOK
  <1>10. CASE late = {} \/ phase[i] = "ended"
    <2>1. LineFollows(line', line, 1, {})
      BY <1>1, <1>2, <1>10, FirstGoes
    <2>2. NodeTypeOK'
      BY <1>1, <1>8, <1>9, <2>1 DEF NodeInv, NodeTypeOK, LineFollows
    <2> QED BY <1>1, <1>3, <1>8, <2>1, <2>2, NobodyJoins, NoReply, JobsMove
  <1>11. CASE ~(late = {} \/ phase[i] = "ended")
    <2> DEFINE q == WithEnd(line, i, late)
               N == {EndOf(i, late, FALSE)}
    <2>1. LineFollows(q, line, 0, N)
      BY <1>6, FollowsWithEnd DEF NodeInv
    <2>2. line' = Tail(q)
      BY <1>2, <1>11
    <2>3. Welcome(N, 1)
      BY <1>3, <1>11 DEF Welcome, EndOf, NodeInv, LineOK, Fits
    <2> HIDE DEF q, N
    <2>4. LineFollows(line', line, 1, N)
      BY <1>1, <1>4, <2>1, <2>2, FollowsDropped
    <2>5. NodeTypeOK'
      BY <1>1, <1>8, <1>9, <2>4 DEF NodeInv, NodeTypeOK, LineFollows
    <2> QED BY <1>1, <1>3, <1>8, <2>3, <2>4, <2>5, NoReply, JobsMove
  <1> QED BY <1>10, <1>11

(* A session nobody knows any more, or not yet, is ended: no job expects   *)
(* it elsewhere.                                                           *)
LEMMA TombstoneKeeps ==
    ASSUME NodeInv, NodeTypeOK', NEW i \in Id, phase[i] \in {"none", "ended"},
           phase' = [phase EXCEPT ![i] = "ended"], Replied,
           \A r \in replies' : r \in replies \/ (r.clean => r.id = i),
           UNCHANGED <<launch, alive, noted, finishing, asking, line, place, panel>>
    PROVE  NodeInv'
  <1>1. phase'[i] = "ended" /\ \A j \in Id : j # i => phase'[j] = phase[j]
    BY DEF NodeInv, NodeTypeOK
  <1>2. \A k \in 1..Len(line) : line[k].id \in Id
    <2>1. \A k \in 1..Len(line) : line[k] \in TurnJobs
      BY DEF NodeInv, NodeTypeOK
    <2> QED BY <2>1 DEF TurnJobs
  <1>3. \A k \in 1..Len(line) : Acts(k)' <=> Acts(k)
    BY DEF Acts
  <1>4. LineOK'
    BY <1>1, <1>2, <1>3 DEF NodeInv, LineOK, Fits
  <1>5. TurnOK'
    BY <1>1 DEF NodeInv, TurnOK, Launching, Starts
  <1>6. ProcsOK'
    BY <1>1 DEF NodeInv, ProcsOK
  <1>7. PaneOK'
    BY DEF NodeInv, PaneOK, OnPane
  <1>8. PostOK'
    <2>1. \A j \in Id : post'[j] \in {"none", "sent", "never"} => post'[j] = post[j]
      BY DEF Replied
    <2> QED BY <1>1, <1>3, <2>1 DEF NodeInv, PostOK
  <1>9. RepliesOK'
    <2>1. \A r \in replies : r.id \in Id
      BY DEF NodeInv, NodeTypeOK
    <2> QED BY <1>1, <2>1 DEF NodeInv, RepliesOK
  <1> QED BY <1>4, <1>5, <1>6, <1>7, <1>8, <1>9 DEF NodeInv

(* stop, for a DELETE or for a POST that was given up.                     *)
LEMMA StopsKeeps ==
    ASSUME NodeInv, NEW i \in Id, NEW n \in 0..MaxAsk, Stops(i, n), Replied,
           post' \in [Id -> {"none", "sent", "handled", "ok", "never", "error", "gone"}],
           UNCHANGED <<asking, launch, alive, known, noted, finishing, place, panel, shutting>>
    PROVE  NodeInv'
  <1>1. CASE phase[i] \in {"none", "ended"}
    <2>1. /\ phase' = [phase EXCEPT ![i] = "ended"] /\ replies' = replies \cup Answer(i, {n}, TRUE)
          /\ UNCHANGED <<cancelled, settling, line>>
      BY <1>1 DEF Stops
    <2>2. /\ Answer(i, {n}, TRUE) \subseteq [id : Id, n : 1..MaxAsk, clean : BOOLEAN]
          /\ \A r \in Answer(i, {n}, TRUE) : r.id = i
      <3>1. {n} \in SUBSET (0..MaxAsk) /\ TRUE \in BOOLEAN
        OBVIOUS
      <3> QED BY <3>1, AnswerType
    <2>3. NodeTypeOK'
      BY <2>1, <2>2 DEF NodeInv, NodeTypeOK
    <2>4. \A r \in replies' : r \in replies \/ (r.clean => r.id = i)
      BY <2>1, <2>2
    <2> QED BY <1>1, <2>1, <2>3, <2>4, TombstoneKeeps
  <1>2. CASE phase[i] \in StartPhases
    <2>1. /\ UNCHANGED <<phase, replies, line>> /\ cancelled' = cancelled \cup {i}
          /\ settling' = settling \cup {[id |-> i, n |-> n]}
      BY <1>2 DEF Stops, StartPhases
    <2>2. NodeTypeOK'
      BY <2>1 DEF NodeInv, NodeTypeOK
    <2>3. LineFollows(line', line, 0, {})
      BY <2>1, LineStays
    <2> QED BY <2>1, <2>2, <2>3, NobodyJoins, JobsMove
  <1>3. CASE phase[i] \in {"active", "ending"}
    <2>1. /\ UNCHANGED <<phase, replies, settling>> /\ cancelled' = cancelled \cup {i}
          /\ line' = WithEnd(line, i, {n})
      BY <1>3 DEF Stops, StartPhases
    <2>2. {n} \in SUBSET (0..MaxAsk)
      OBVIOUS
    <2> DEFINE N == {EndOf(i, {n}, FALSE)}
    <2>3. LineFollows(line', line, 0, N) /\ Welcome(N, 0)
      BY <1>3, <2>1, <2>2, EndJoins
    <2> HIDE DEF N
    <2>4. NodeTypeOK'
      BY <2>1, <2>3 DEF NodeInv, NodeTypeOK, LineFollows
    <2>5. UNCHANGED <<phase, launch, alive, noted, finishing, asking, place, panel, replies>>
      BY <2>1
    <2> QED BY <2>3, <2>4, <2>5, JobsMove
  <1>4. phase[i] \in StartPhases \cup {"none", "active", "ending", "ended"}
    BY DEF NodeInv, NodeTypeOK
  <1> QED BY <1>1, <1>2, <1>3, <1>4

LEMMA PostAbandonedKeeps ==
    ASSUME NodeInv, NEW i \in Id, PostAbandoned(i)
    PROVE  NodeInv'
  <1>1. /\ Stops(i, 0) /\ post[i] = "handled" /\ post' = [post EXCEPT ![i] = "gone"]
        /\ UNCHANGED <<asking, launch, alive, known, noted, finishing, place, panel, shutting>>
    BY DEF PostAbandoned, procVars
  <1>2. Replied /\ post' \in [Id -> {"none", "sent", "handled", "ok", "never", "error", "gone"}]
    BY <1>1 DEF Replied, NodeInv, NodeTypeOK
  <1>3. 0 \in 0..MaxAsk
    BY AsksAreNumbers
  <1> QED BY <1>1, <1>2, <1>3, StopsKeeps

LEMMA DeleteKeeps ==
    ASSUME NodeInv, NEW i \in Id, NEW n \in 1..MaxAsk, DeleteArrives(i, n)
    PROVE  NodeInv'
  <1>1. /\ Stops(i, n) /\ n \in 0..MaxAsk
        /\ UNCHANGED <<asking, post, launch, alive, known, noted, finishing, place, panel, shutting>>
    BY DEF DeleteArrives, procVars
  <1>2. post' \in [Id -> {"none", "sent", "handled", "ok", "never", "error", "gone"}]
    BY <1>1 DEF NodeInv, NodeTypeOK
  <1> QED BY <1>1, <1>2, NoReply, StopsKeeps

(* One session moves on while the line stays. *)
LEMMA LinePhase ==
    ASSUME NodeTypeOK, LineOK, NEW i \in Id, NEW p, line' = line, place' = place,
           phase' = [phase EXCEPT ![i] = p],
           \A k \in 1..Len(line) : line[k].id = i =>
             IF Acts(k) THEN Fits(line[k].kind, p) ELSE line[k].kind = "end" => p \in {"ending", "ended"}
    PROVE  LineOK'
  <1>1. phase'[i] = p /\ \A j \in Id : j # i => phase'[j] = phase[j]
    BY DEF NodeTypeOK
  <1>2. \A k \in 1..Len(line) : line[k].id \in Id
    <2>1. \A k \in 1..Len(line) : line[k] \in TurnJobs
      BY DEF NodeTypeOK
    <2> QED BY <2>1 DEF TurnJobs
  <1>3. \A k \in 1..Len(line) : Acts(k)' <=> Acts(k)
    BY DEF Acts
  <1> QED BY <1>1, <1>2, <1>3 DEF LineOK

(* The session i moves on, and what it has at the node with it.            *)
LEMMA OneMoves ==
    ASSUME NodeInv, NEW i \in Id, Replied, noted \subseteq noted', asking' = asking, replies' = replies, panel' = panel,
           \A j \in Id : j # i => /\ phase'[j] = phase[j] /\ launch'[j] = launch[j] /\ alive'[j] = alive[j],
           phase'[i] = phase[i] \/ phase[i] \notin {"none", "ended"},
           phase[i] \in {"none", "ended"} => launch'[i] = launch[i],
           /\ alive'[i] # {} /\ launch'[i] # "late" => phase'[i] \in {"identify", "attach", "active", "ending"}
           /\ launch'[i] \in {"none", "running", "failed"} => alive'[i] = {}
           /\ "client" \in alive'[i] /\ "server" \notin alive'[i] => i \in noted'
           /\ phase'[i] \in {"none", "pane", "line"} => launch'[i] = "none"
           /\ phase'[i] = "spawn" => launch'[i] = "running",
           OnPane(i)' => OnPane(i) \/ (~panel /\ \A j \in Id : j # i => ~OnPane(j)),
           post[i] = "never" => launch'[i] = "none" /\ phase'[i] \in {"none", "line", "ending", "ended"},
           \A k \in 1..Len(line') : Acts(k)' /\ line'[k].kind = "start" =>
             \/ \E m \in 1..Len(line) : Acts(m) /\ line[m].kind = "start" /\ line[m].id = line'[k].id
             \/ line'[k].id = i /\ post[i] # "never"
    PROVE  ProcsOK' /\ PaneOK' /\ PostOK' /\ RepliesOK'
  <1>1. ProcsOK'
    BY DEF NodeInv, ProcsOK
  <1>2. PaneOK'
    <2>1. \A j \in Id : j # i => (OnPane(j)' <=> OnPane(j))
      BY DEF OnPane
    <2>2. \A j \in Id : OnPane(j)' => ~panel'
      BY <2>1 DEF NodeInv, PaneOK
    <2>3. \A j, m \in Id : OnPane(j)' /\ OnPane(m)' => m = j
      BY <2>1 DEF NodeInv, PaneOK
    <2> QED BY <2>2, <2>3 DEF PaneOK
  <1>3. PostOK'
    <2>1. \A j \in Id : post'[j] \in {"none", "sent", "never"} => post'[j] = post[j]
      BY DEF Replied
    <2>2. ASSUME NEW j \in Id, post'[j] = "never", NEW k \in 1..Len(line'), Acts(k)', line'[k].kind = "start"
          PROVE  line'[k].id # j
      BY <2>1, <2>2 DEF NodeInv, PostOK
    <2>3. ASSUME NEW j \in Id
          PROVE  /\ post[j] \in {"none", "sent"} => j \notin asking
                 /\ post[j] \in {"none", "sent"} \/ j \in asking => (phase[j] \in {"none", "ended"} /\ launch[j] = "none")
                 /\ post[j] = "never" => j \notin asking /\ launch[j] = "none" /\ phase[j] \in {"none", "line", "ending", "ended"}
      BY DEF NodeInv, PostOK
    <2>4. ASSUME NEW j \in Id
          PROVE  /\ post'[j] \in {"none", "sent"} => j \notin asking'
                 /\ post'[j] \in {"none", "sent"} \/ j \in asking' => (phase'[j] \in {"none", "ended"} /\ launch'[j] = "none")
                 /\ post'[j] = "never" => j \notin asking' /\ launch'[j] = "none" /\ phase'[j] \in {"none", "line", "ending", "ended"}
      BY <2>1, <2>3
    <2> QED BY <2>2, <2>4 DEF PostOK
  <1>4. RepliesOK'
    <2>1. \A r \in replies : r.id \in Id
      BY DEF NodeInv, NodeTypeOK
    <2>2. phase[i] = "ended" => phase'[i] = "ended"
      OBVIOUS
    <2> QED BY <2>1, <2>2 DEF NodeInv, RepliesOK
  <1> QED BY <1>1, <1>2, <1>3, <1>4

LEMMA SameStarts ==
    ASSUME line' = line, place' = place
    PROVE  \A k \in 1..Len(line') : Acts(k)' /\ line'[k].kind = "start" =>
             \E m \in 1..Len(line) : Acts(m) /\ line[m].kind = "start" /\ line[m].id = line'[k].id
  BY DEF Acts

LEMMA PostArrivesKeeps ==
    ASSUME NodeInv, NEW i \in Id, PostArrives(i)
    PROVE  NodeInv'
  <1>1. /\ post[i] = "sent" /\ post' = [post EXCEPT ![i] = "handled"] /\ asking' = asking \cup {i}
        /\ UNCHANGED <<phase, cancelled, launch, alive, known, noted, finishing, line, place, panel, shutting, settling, replies>>
    BY DEF PostArrives, procVars, lineVars
  <1>2. post'[i] = "handled" /\ \A j \in Id : j # i => post'[j] = post[j]
    BY <1>1 DEF NodeInv, NodeTypeOK
  <1>3. NodeTypeOK'
    BY <1>1 DEF NodeInv, NodeTypeOK
  <1>4. LineOK' /\ TurnOK' /\ ProcsOK' /\ PaneOK' /\ RepliesOK'
    BY <1>1 DEF NodeInv, LineOK, TurnOK, ProcsOK, PaneOK, RepliesOK, Acts, Starts, OnPane
  <1>5. PostOK'
    BY <1>1, <1>2 DEF NodeInv, PostOK, Acts
  <1> QED BY <1>3, <1>4, <1>5 DEF NodeInv

(* A POST that is sent, for a session nobody has heard of.                 *)
LEMMA PostSentKeeps ==
    ASSUME NodeInv, NEW i \in Id, post[i] = "none", post' = [post EXCEPT ![i] = "sent"],
           UNCHANGED <<phase, asking, cancelled, launch, alive, known, noted, finishing, line, place, panel,
                       shutting, settling, replies>>
    PROVE  NodeInv'
  <1>1. post'[i] = "sent" /\ \A j \in Id : j # i => post'[j] = post[j]
    BY DEF NodeInv, NodeTypeOK
  <1>2. NodeTypeOK'
    BY DEF NodeInv, NodeTypeOK
  <1>3. LineOK' /\ TurnOK' /\ ProcsOK' /\ PaneOK' /\ RepliesOK'
    BY DEF NodeInv, LineOK, TurnOK, ProcsOK, PaneOK, RepliesOK, Acts, Starts, OnPane
  <1>4. PostOK'
    BY <1>1 DEF NodeInv, PostOK, Acts
  <1> QED BY <1>2, <1>3, <1>4 DEF NodeInv

LEMMA CapableKeeps ==
    ASSUME NodeInv, NEW i \in Id, Capable(i)
    PROVE  NodeInv'
  <1>1. /\ i \in asking /\ asking' = asking \ {i}
        /\ UNCHANGED <<cancelled, launch, alive, known, noted, finishing, line, place, panel, shutting, settling, replies>>
        /\ post[i] \notin {"none", "sent"} /\ phase[i] \in {"none", "ended"} /\ launch[i] = "none"
    BY DEF Capable, procVars, lineVars, NodeInv, PostOK
  <1>2. \A k \in 1..Len(line) : Acts(k)' <=> Acts(k)
    BY <1>1 DEF Acts
  <1>3. PaneOK'
    BY <1>1 DEF NodeInv, PaneOK, OnPane
  <1>4. CASE phase[i] = "none" /\ phase' = [phase EXCEPT ![i] = "pane"] /\ UNCHANGED post
    <2>1. phase'[i] = "pane" /\ \A j \in Id : j # i => phase'[j] = phase[j]
      BY <1>4 DEF NodeInv, NodeTypeOK
    <2>2. NodeTypeOK'
      BY <1>1, <1>4 DEF NodeInv, NodeTypeOK, StartPhases
    <2>3. LineOK'
      <3>1. \A k \in 1..Len(line) : line[k].id = i =>
              IF Acts(k) THEN Fits(line[k].kind, "pane") ELSE line[k].kind = "end" => "pane" \in {"ending", "ended"}
        BY <1>4 DEF NodeInv, LineOK, Fits
      <3> QED BY <1>1, <1>4, <3>1, LinePhase DEF NodeInv
    <2>4. TurnOK' /\ ProcsOK'
      BY <1>1, <1>4, <2>1 DEF NodeInv, TurnOK, Launching, Starts, ProcsOK
    <2>5. RepliesOK'
      <3>1. \A r \in replies : r.id \in Id
        BY DEF NodeInv, NodeTypeOK
      <3> QED BY <1>1, <1>4, <2>1, <3>1 DEF NodeInv, RepliesOK
    <2>6. PostOK'
      <3>1. post[i] # "never"
        BY <1>1 DEF NodeInv, PostOK
      <3> QED BY <1>1, <1>2, <1>4, <2>1, <3>1 DEF NodeInv, PostOK
    <2> QED BY <1>3, <2>2, <2>3, <2>4, <2>5, <2>6 DEF NodeInv
  <1>5. CASE /\ post' = [post EXCEPT ![i] = IF @ = "handled" THEN (IF shutting THEN "error" ELSE "never") ELSE @]
             /\ UNCHANGED phase
    <2>1. /\ post'[i] \notin {"none", "sent"}
          /\ \A j \in Id : j # i => post'[j] = post[j]
      BY <1>1, <1>5 DEF NodeInv, NodeTypeOK
    <2>2. NodeTypeOK'
      BY <1>1, <1>5 DEF NodeInv, NodeTypeOK
    <2>3. LineOK' /\ TurnOK' /\ ProcsOK' /\ RepliesOK'
      BY <1>1, <1>2, <1>5 DEF NodeInv, LineOK, TurnOK, Starts, ProcsOK, RepliesOK
    <2>4. \A k \in 1..Len(line) : Acts(k) /\ line[k].kind = "start" => line[k].id # i
      BY <1>1 DEF NodeInv, LineOK, Fits
    <2>5. PostOK'
      BY <1>1, <1>2, <1>5, <2>1, <2>4 DEF NodeInv, PostOK
    <2> QED BY <1>3, <2>2, <2>3, <2>5 DEF NodeInv
  <1> QED BY <1>4, <1>5 DEF Capable

LEMMA PaneResolvedKeeps ==
    ASSUME NodeInv, NEW i \in Id, PaneResolved(i)
    PROVE  NodeInv'
  <1>1. /\ phase[i] = "pane" /\ phase' = [phase EXCEPT ![i] = "line"]
        /\ UNCHANGED <<asking, cancelled, launch, alive, known, noted, finishing, place, panel, shutting, settling, replies>>
    BY DEF PaneResolved, procVars
  <1>2. /\ phase'[i] = "line" /\ \A j \in Id : j # i => phase'[j] = phase[j]
        /\ launch[i] = "none" /\ alive[i] = {} /\ line \in Seq(TurnJobs) /\ Len(line) \in Nat
        /\ post[i] \notin {"none", "sent", "never"} /\ i \notin asking
    BY <1>1 DEF NodeInv, NodeTypeOK, ProcsOK, PostOK
  <1>3. \A k \in 1..Len(line) : line[k].id = i => ~Acts(k) /\ line[k].kind # "end"
    BY <1>1 DEF NodeInv, LineOK, Fits
  <1>5. ProcsOK' /\ PaneOK' /\ RepliesOK'
    <2>1. ProcsOK' /\ PaneOK'
      BY <1>1, <1>2 DEF NodeInv, ProcsOK, PaneOK, OnPane
    <2>2. \A r \in replies : r.id \in Id
      BY DEF NodeInv, NodeTypeOK
    <2> QED BY <1>1, <1>2, <2>1, <2>2 DEF NodeInv, RepliesOK
  <1>6. ASSUME NEW N, LineFollows(line', line, 0, N)
        PROVE  TurnOK' /\ (post' \in [Id -> {"none", "sent", "handled", "ok", "never", "error", "gone"}] => NodeTypeOK')
    <2>1. line # <<>> => line'[1].kind = line[1].kind /\ line'[1].id = line[1].id
      BY <1>2, <1>6 DEF LineFollows
    <2>2. TurnOK'
      <3>1. \A m \in Id : Starts(m)' <=> Starts(m)
        BY <1>1, <2>1 DEF Starts, NodeInv, LineOK
      <3>2. place' # "entry" /\ line'[1].kind = "start" => ~panel'
        BY <1>1, <2>1 DEF NodeInv, LineOK, TurnOK
      <3> QED BY <1>1, <1>2, <3>1, <3>2 DEF NodeInv, TurnOK, Launching
    <2>3. post' \in [Id -> {"none", "sent", "handled", "ok", "never", "error", "gone"}] => NodeTypeOK'
      BY <1>1, <1>6 DEF NodeInv, NodeTypeOK, LineFollows, StartPhases
    <2> QED BY <2>2, <2>3
  <1>7. CASE line' = Append(line, StartOf(i)) /\ UNCHANGED post
    <2>1. LineOK' /\ LineFollows(line', line, 0, {StartOf(i)})
      BY <1>1, <1>7, LineWithStart DEF NodeInv
    <2>2. TurnOK' /\ NodeTypeOK'
      <3>1. post' \in [Id -> {"none", "sent", "handled", "ok", "never", "error", "gone"}]
        BY <1>7 DEF NodeInv, NodeTypeOK
      <3> QED BY <1>6, <2>1, <3>1
    <2>3. PostOK'
      <3>1. ASSUME NEW k \in 1..Len(line'), Acts(k)', line'[k].kind = "start", line'[k].id # i
            PROVE  k \in 1..Len(line) /\ Acts(k) /\ line[k].kind = "start" /\ line[k].id = line'[k].id
        <4>1. StartOf(i).id = i
          BY DEF StartOf
        <4>2. /\ k <= Len(line) /\ line'[k].kind = line[k].kind /\ line'[k].id = line[k].id
              /\ line'[k].result = line[k].result
          BY <1>2, <2>1, <3>1, <4>1 DEF LineFollows
        <4> QED BY <1>1, <1>2, <3>1, <4>2 DEF Acts
      <3> QED BY <1>1, <1>2, <1>7, <3>1 DEF NodeInv, PostOK
    <2> QED BY <1>5, <2>1, <2>2, <2>3 DEF NodeInv
  <1>8. ASSUME NEW answer \in {"never", "error"}, GivenUp(line, i, answer)
        PROVE  NodeInv'
    <2> DEFINE N == {EndOf(i, {}, TRUE)}
    <2>1. /\ line' = Append(line, EndOf(i, {}, TRUE)) /\ EndOf(i, {}, TRUE) \in TurnJobs
          /\ LineFollows(line', line, 0, N)
      <3>1. {} \in SUBSET (0..MaxAsk) /\ TRUE \in BOOLEAN
        OBVIOUS
      <3>2. EndOf(i, {}, TRUE) \in TurnJobs
        BY <3>1, JobsAreJobs
      <3>3. LineFollows(line, line, 0, {})
        BY <1>2, FollowsItself
      <3> QED BY <1>2, <1>8, <3>2, <3>3, FollowsAppended DEF GivenUp
    <2>2. /\ post' \in [Id -> {"none", "sent", "handled", "ok", "never", "error", "gone"}]
          /\ post'[i] \notin {"none", "sent"} /\ \A j \in Id : j # i => post'[j] = post[j]
      BY <1>2, <1>8 DEF GivenUp, NodeInv, NodeTypeOK
    <2>3. TurnOK' /\ NodeTypeOK'
      BY <1>6, <2>1, <2>2
    <2>4. LineOK'
      <3>1. \A k \in 1..Len(line) : k > 0 =>
              IF Acts(k - 0)' THEN Acts(k) => Fits(line[k].kind, phase'[line[k].id])
                              ELSE line[k].kind = "end" => phase'[line[k].id] \in {"ending", "ended"}
        <4> SUFFICES ASSUME NEW k \in 1..Len(line)
                     PROVE  IF Acts(k)' THEN Acts(k) => Fits(line[k].kind, phase'[line[k].id])
                                        ELSE line[k].kind = "end" => phase'[line[k].id] \in {"ending", "ended"}
          BY <1>2
        <4>1. Acts(k)' <=> Acts(k)
          <5>1. line'[k].kind = line[k].kind /\ line'[k].result = line[k].result
            BY <1>2, <2>1 DEF LineFollows
          <5> QED BY <1>1, <5>1 DEF Acts
        <4>2. line[k].id \in Id
          <5>1. line[k] \in TurnJobs
            BY <1>2
          <5> QED BY <5>1 DEF TurnJobs
        <4> QED BY <1>2, <1>3, <4>1, <4>2 DEF NodeInv, LineOK
      <3>2. \A j \in N : /\ j.kind # "start"
                         /\ j.kind = "end" /\ j.result # "none" => phase'[j.id] \in {"ending", "ended"}
                         /\ j.kind = "end" /\ j.result = "none" =>
                              /\ phase'[j.id] \in {"line", "active", "ending"}
                              /\ \A k \in 1..Len(line) : k > 0 /\ Acts(k) /\ line[k].kind = "start" => line[k].id # j.id
        BY <1>1, <1>2, <1>3 DEF EndOf
      <3>3. /\ 0 = 0 => (place = "run" => place' = "run") /\ (place' # "entry" => line # <<>>)
            /\ 0 = 1 => line # <<>> /\ place' = "entry"
            /\ 0 \in {0, 1} /\ NodeTypeOK /\ LineOK
        BY <1>1 DEF NodeInv, LineOK
      <3> HIDE DEF N
      <3> QED BY <2>1, <3>1, <3>2, <3>3, LineKeeps
    <2>5. PostOK'
      <3>1. ASSUME NEW k \in 1..Len(line'), Acts(k)', line'[k].kind = "start"
            PROVE  k \in 1..Len(line) /\ Acts(k) /\ line[k].kind = "start" /\ line[k].id = line'[k].id
        <4>1. \A j \in N : j.kind # "start"
          BY DEF EndOf
        <4> HIDE DEF N
        <4>2. /\ k <= Len(line) /\ line'[k].kind = line[k].kind /\ line'[k].id = line[k].id
              /\ line'[k].result = line[k].result
          <5>1. \/ /\ k + 0 <= Len(line) /\ line'[k].kind = line[k + 0].kind /\ line'[k].id = line[k + 0].id
                   /\ line'[k].result = line[k + 0].result
                \/ k + 0 > Len(line) /\ line'[k] \in N
            BY <2>1, <3>1 DEF LineFollows
          <5>2. k + 0 = k
            BY <3>1
          <5> QED BY <3>1, <4>1, <5>1, <5>2
        <4>3. k \in 1..Len(line)
          BY <1>2, <4>2
        <4>4. Acts(k)
          BY <1>1, <3>1, <4>2 DEF Acts
        <4> QED BY <3>1, <4>2, <4>3, <4>4
      <3> QED BY <1>1, <1>2, <1>3, <2>2, <3>1 DEF NodeInv, PostOK
    <2> QED BY <1>5, <2>3, <2>4, <2>5 DEF NodeInv
  <1> QED BY <1>7, <1>8 DEF PaneResolved


(* Before a start or a client of the panel goes on, every session on the   *)
(* pane is being ended.                                                    *)
LEMMA OthersEnd ==
    ASSUME NodeInv, line # <<>>, place = "entry", place' = "clear", EndsOthers,
           panel' \in BOOLEAN, panel' => panel, line[1].kind = "start" => ~panel',
           UNCHANGED <<asking, post, launch, alive, known, noted, line, shutting, settling, replies>>
    PROVE  NodeInv'
  <1>1. \A j \in Id : /\ phase'[j] = IF phase[j] = "active" THEN "ending" ELSE phase[j]
                      /\ finishing'[j] # "no" => phase'[j] = "ending"
    <2>1. \A j \in Id : finishing[j] # "no" => phase[j] = "ending"
      BY DEF NodeInv, TurnOK
    <2> QED BY <2>1 DEF EndsOthers, Owned
  <1>2. NodeTypeOK'
    BY DEF NodeInv, NodeTypeOK, EndsOthers, Owned
  <1>3. LineOK'
    <2>1. \A k \in 1..Len(line) : line[k].id \in Id /\ (Acts(k)' <=> Acts(k))
      <3>1. \A k \in 1..Len(line) : line[k] \in TurnJobs
        BY DEF NodeInv, NodeTypeOK
      <3> QED BY <3>1 DEF TurnJobs, Acts
    <2> QED BY <1>1, <2>1 DEF NodeInv, LineOK, Fits
  <1>4. TurnOK'
    BY <1>1 DEF NodeInv, TurnOK, Starts, Launching
  <1>5. ProcsOK'
    BY <1>1 DEF NodeInv, ProcsOK
  <1>6. PaneOK'
    BY DEF NodeInv, PaneOK, OnPane
  <1>7. PostOK'
    BY <1>1 DEF NodeInv, PostOK, Acts
  <1>8. RepliesOK'
    <2>1. \A r \in replies : r.id \in Id
      BY DEF NodeInv, NodeTypeOK
    <2> QED BY <1>1, <2>1 DEF NodeInv, RepliesOK
  <1> QED BY <1>2, <1>3, <1>4, <1>5, <1>6, <1>7, <1>8 DEF NodeInv

LEMMA StartEntersKeeps ==
    ASSUME NodeInv, NEW i \in Id, StartEnters(i)
    PROVE  NodeInv'
  <1>1. /\ First("start", i, "entry") /\ line # <<>> /\ line[1].kind = "start" /\ place = "entry"
        /\ UNCHANGED <<asking, launch, alive, known, noted, shutting, settling, replies>>
    BY HeadIsFirst DEF NodeInv, First, StartEnters, procVars
  <1>2. CASE i \in cancelled
    <2>1. GivenUp(Tail(line), i, "error") /\ UNCHANGED <<phase, cancelled, finishing, place, panel>>
      BY <1>2 DEF StartEnters
    <2> QED BY <1>1, <2>1, StartRefused
  <1>3. CASE i \notin cancelled
    <2>1. EndsOthers /\ place' = "clear" /\ panel' = FALSE /\ UNCHANGED <<post, line>>
      BY <1>3 DEF StartEnters
    <2>2. panel' \in BOOLEAN /\ ~panel'
      BY <2>1
    <2> QED BY <1>1, <2>1, <2>2, OthersEnd
  <1> QED BY <1>2, <1>3

LEMMA PanelEntersKeeps ==
    ASSUME NodeInv, NEW i \in Id, PanelEnters(i)
    PROVE  NodeInv'
  <1>1. /\ line # <<>> /\ line[1].kind = "panel" /\ place = "entry" /\ place' = "clear" /\ EndsOthers
        /\ UNCHANGED <<asking, post, launch, alive, known, noted, line, panel, shutting, settling, replies>>
    BY HeadIsFirst DEF NodeInv, First, PanelEnters, procVars
  <1>2. panel' \in BOOLEAN
    BY <1>1 DEF NodeInv, NodeTypeOK
  <1> QED BY <1>1, <1>2, OthersEnd

(* The others are gone: the session that starts is alone on the pane.      *)
LEMMA StartClearKeeps ==
    ASSUME NodeInv, NEW i \in Id, StartClear(i)
    PROVE  NodeInv'
  <1>1. /\ First("start", i, "clear") /\ line # <<>> /\ place = "clear" /\ line[1].kind = "start" /\ line[1].id = i
        /\ Len(line) \in Nat /\ 1 \in 1..Len(line)
        /\ \A j \in Id : finishing[j] = "no"
        /\ UNCHANGED <<asking, cancelled, alive, known, noted, finishing, panel, shutting, settling, replies>>
    BY HeadIsFirst DEF NodeInv, First, StartClear
  <1>2. CASE ~(ClearedNow /\ i \notin cancelled)
    <2>1. GivenUp(Tail(line), i, "error") /\ place' = "entry" /\ UNCHANGED <<phase, launch>>
      BY <1>2 DEF StartClear
    <2> QED BY <1>1, <2>1, StartRefused
  <1>3. CASE ClearedNow /\ i \notin cancelled
    <2>1. /\ phase' = [phase EXCEPT ![i] = "spawn"] /\ launch' = [launch EXCEPT ![i] = "running"]
          /\ place' = "run" /\ UNCHANGED <<post, line>>
      BY <1>3 DEF StartClear
    <2>2. /\ phase'[i] = "spawn" /\ launch'[i] = "running"
          /\ \A j \in Id : j # i => phase'[j] = phase[j] /\ launch'[j] = launch[j]
      BY <2>1 DEF NodeInv, NodeTypeOK
    <2>3. NodeTypeOK'
      BY <1>1, <2>1 DEF NodeInv, NodeTypeOK, StartPhases
    <2>4. Acts(1) /\ phase[i] = "line" /\ \A j \in Id : phase[j] \notin Launching
      <3>1. Acts(1)
        BY <1>1 DEF Acts
      <3> QED BY <1>1, <3>1 DEF NodeInv, LineOK, Fits, TurnOK, Starts
    <2>5. launch[i] = "none" /\ alive[i] = {} /\ post[i] \notin {"none", "sent", "never"}
      <3>1. launch[i] = "none" /\ alive[i] = {} /\ post[i] \notin {"none", "sent"}
        BY <2>4 DEF NodeInv, ProcsOK, PostOK
      <3>2. post[i] # "never"
        BY <1>1, <2>4 DEF NodeInv, PostOK
      <3> QED BY <3>1, <3>2
    <2>6. \A k \in 1..Len(line) : /\ Acts(k)' <=> Acts(k) /\ k # 1
                                  /\ Acts(k) /\ k # 1 => line[k].id # i
                                  /\ k # 1 /\ line[k].id = i => line[k].kind # "end"
      <3>1. \A k \in 1..Len(line) : Acts(k)' <=> Acts(k) /\ k # 1
        BY <1>1, <2>1 DEF Acts
      <3>2. \A k \in 1..Len(line) : Acts(k) /\ k # 1 => line[k].id # i
        BY <1>1, <2>4 DEF NodeInv, LineOK
      <3>3. \A k \in 1..Len(line) : ~Acts(k) /\ line[k].id = i => line[k].kind # "end"
        BY <2>4 DEF NodeInv, LineOK
      <3> QED BY <3>1, <3>2, <3>3
    <2>7. LineOK'
      <3>1. \A k \in 1..Len(line) : line[k].id \in Id
        <4>1. \A k \in 1..Len(line) : line[k] \in TurnJobs
          BY DEF NodeInv, NodeTypeOK
        <4> QED BY <4>1 DEF TurnJobs
      <3>2. ASSUME NEW k \in 1..Len(line)
            PROVE  IF Acts(k)' THEN Fits(line[k].kind, phase'[line[k].id])
                               ELSE line[k].kind = "end" => phase'[line[k].id] \in {"ending", "ended"}
        <4>1. CASE line[k].id # i
          BY <1>1, <2>2, <2>6, <3>1, <4>1 DEF NodeInv, LineOK
        <4>2. CASE line[k].id = i
          BY <1>1, <2>6, <4>2
        <4> QED BY <4>1, <4>2
      <3> QED BY <1>1, <2>1, <2>6, <3>2 DEF NodeInv, LineOK
    <2>8. TurnOK'
      <3>1. \A j \in Id : phase[j] \notin {"active", "ending"}
        BY <1>3 DEF ClearedNow, Owned
      <3>2. \A j \in Id : Starts(j)' <=> j = i
        BY <1>1, <2>1 DEF Starts
      <3>3. \A j \in Id : j # i => phase'[j] \notin Launching /\ phase'[j] \notin {"active", "ending"}
        BY <2>2, <2>4, <3>1
      <3>4. line'[1].kind = "start" => ~panel'
        BY <1>1, <2>1 DEF NodeInv, TurnOK
      <3> QED BY <1>1, <3>2, <3>3, <3>4 DEF TurnOK
    <2>9. ~OnPane(i)' /\ alive'[i] = {}
      BY <1>1, <2>5 DEF OnPane
    <2>10. ProcsOK' /\ PaneOK' /\ PostOK' /\ RepliesOK'
      <3>1. Replied
        BY <2>1, NoReply
      <3>2. \A k \in 1..Len(line') : Acts(k)' /\ line'[k].kind = "start" =>
              \/ \E m \in 1..Len(line) : Acts(m) /\ line[m].kind = "start" /\ line[m].id = line'[k].id
              \/ line'[k].id = i /\ post[i] # "never"
        BY <2>1, <2>6
      <3>3. \A j \in Id : j # i => phase'[j] = phase[j] /\ launch'[j] = launch[j] /\ alive'[j] = alive[j]
        BY <1>1, <2>2
      <3>4. phase[i] \notin {"none", "ended"}
        BY <2>4
      <3>5. /\ alive'[i] # {} /\ launch'[i] # "late" => phase'[i] \in {"identify", "attach", "active", "ending"}
            /\ launch'[i] \in {"none", "running", "failed"} => alive'[i] = {}
            /\ "client" \in alive'[i] /\ "server" \notin alive'[i] => i \in noted'
            /\ phase'[i] \in {"none", "pane", "line"} => launch'[i] = "none"
            /\ phase'[i] = "spawn" => launch'[i] = "running"
        BY <2>2, <2>9
      <3>6. noted \subseteq noted' /\ asking' = asking /\ replies' = replies /\ panel' = panel
        BY <1>1
      <3> QED BY <2>5, <2>9, <3>1, <3>2, <3>3, <3>4, <3>5, <3>6, OneMoves
    <2> QED BY <2>3, <2>7, <2>8, <2>10 DEF NodeInv
  <1> QED BY <1>2, <1>3

(* While a start runs, nobody else has a client on the pane.               *)
LEMMA StartIsAlone ==
    ASSUME NodeInv, NEW i \in Id, phase[i] \in Launching
    PROVE  /\ Starts(i) /\ ~panel
           /\ \A j \in Id : j # i => ~OnPane(j) /\ phase[j] \notin Launching \cup {"active", "ending"}
           /\ \A k \in 1..Len(line) : line[k].id = i => ~Acts(k) /\ line[k].kind # "end"
           /\ post[i] \notin {"none", "sent", "never"} /\ i \notin asking
           /\ finishing[i] = "no"
  <1>1. Starts(i) /\ ~panel
    BY DEF NodeInv, TurnOK, Starts
  <1>2. \A j \in Id : j # i => phase[j] \notin Launching \cup {"active", "ending"}
    BY <1>1 DEF NodeInv, TurnOK, Starts
  <1>3. \A j \in Id : j # i => ~OnPane(j)
    BY <1>2 DEF NodeInv, ProcsOK, OnPane, Launching
  <1>4. \A k \in 1..Len(line) : line[k].id = i => ~Acts(k) /\ line[k].kind # "end"
    BY DEF NodeInv, LineOK, Fits, Launching
  <1>5. post[i] \notin {"none", "sent", "never"} /\ i \notin asking
    BY DEF NodeInv, PostOK, Launching
  <1>6. finishing[i] = "no"
    <2>1. finishing[i] # "no" => phase[i] = "ending"
      BY DEF NodeInv, TurnOK
    <2> QED BY <2>1 DEF Launching
  <1> QED BY <1>1, <1>2, <1>3, <1>4, <1>5, <1>6

(* A start goes on in its turn, or its end begins there.                   *)
LEMMA StartGoesOn ==
    ASSUME NodeInv, NEW i \in Id, phase[i] \in Launching, NEW p,
           phase' = [phase EXCEPT ![i] = p],
           \/ p \in {"identify", "attach"} /\ UNCHANGED finishing
           \/ p = "ending" /\ finishing' = [finishing EXCEPT ![i] = "look"],
           UNCHANGED <<line, place, panel, asking, replies>>, Replied, noted \subseteq noted',
           \A j \in Id : j # i => launch'[j] = launch[j] /\ alive'[j] = alive[j],
           alive'[i] # {} => launch'[i] \notin {"none", "running", "failed"},
           "client" \in alive'[i] => "server" \in alive'[i] \/ i \in noted'
    PROVE  /\ LineOK' /\ TurnOK' /\ ProcsOK' /\ PaneOK' /\ PostOK' /\ RepliesOK'
           /\ phase' \in [Id -> StartPhases \cup {"none", "active", "ending", "ended"}]
           /\ finishing' \in [Id -> {"no", "look", "signalled"}]
  <1>1. /\ Starts(i) /\ ~panel
        /\ \A j \in Id : j # i => ~OnPane(j) /\ phase[j] \notin Launching \cup {"active", "ending"}
        /\ \A k \in 1..Len(line) : line[k].id = i => ~Acts(k) /\ line[k].kind # "end"
        /\ post[i] \notin {"none", "sent", "never"} /\ finishing[i] = "no"
    BY StartIsAlone
  <1>2. /\ phase'[i] = p /\ p \in {"identify", "attach", "ending"}
        /\ \A j \in Id : j # i => phase'[j] = phase[j]
        /\ phase[i] \notin {"none", "ended"}
    BY DEF NodeInv, NodeTypeOK, Launching
  <1>3. /\ phase' \in [Id -> StartPhases \cup {"none", "active", "ending", "ended"}]
        /\ finishing' \in [Id -> {"no", "look", "signalled"}]
    BY <1>2 DEF NodeInv, NodeTypeOK, StartPhases
  <1>4. LineOK'
    BY <1>1, LinePhase DEF NodeInv
  <1>5. \A j \in Id : (Starts(j)' <=> Starts(j)) /\ (finishing'[j] # "no" => phase'[j] = "ending")
    <2>1. \A j \in Id : Starts(j)' <=> Starts(j)
      BY DEF Starts
    <2>2. \A j \in Id : finishing[j] # "no" => phase[j] = "ending"
      BY DEF NodeInv, TurnOK
    <2>3. \A j \in Id : j # i => finishing'[j] = finishing[j]
      BY DEF NodeInv, NodeTypeOK
    <2>4. finishing'[i] # "no" => p = "ending"
      BY <1>1
    <2> QED BY <1>2, <2>1, <2>2, <2>3, <2>4
  <1>6. TurnOK'
    <2>1. \A j \in Id : Starts(j) => j = i
      BY <1>1 DEF Starts
    <2>2. \A j \in Id : j # i => phase'[j] \notin Launching \cup {"active", "ending"}
      BY <1>1, <1>2
    <2> QED BY <1>1, <1>5, <2>1, <2>2 DEF TurnOK
  <1>7. ProcsOK' /\ PaneOK' /\ PostOK' /\ RepliesOK'
    <2>1. /\ asking' = asking /\ replies' = replies /\ panel' = panel
          /\ \A j \in Id : j # i => phase'[j] = phase[j] /\ launch'[j] = launch[j] /\ alive'[j] = alive[j]
          /\ phase'[i] = phase[i] \/ phase[i] \notin {"none", "ended"}
          /\ phase[i] \in {"none", "ended"} => launch'[i] = launch[i]
      BY <1>2
    <2>2. /\ alive'[i] # {} /\ launch'[i] # "late" => phase'[i] \in {"identify", "attach", "active", "ending"}
          /\ launch'[i] \in {"none", "running", "failed"} => alive'[i] = {}
          /\ "client" \in alive'[i] /\ "server" \notin alive'[i] => i \in noted'
          /\ phase'[i] \in {"none", "pane", "line"} => launch'[i] = "none"
          /\ phase'[i] = "spawn" => launch'[i] = "running"
      BY <1>2
    <2>3. OnPane(i)' => OnPane(i) \/ (~panel /\ \A j \in Id : j # i => ~OnPane(j))
      BY <1>1
    <2>4. post[i] = "never" => launch'[i] = "none" /\ phase'[i] \in {"none", "line", "ending", "ended"}
      BY <1>1
    <2>5. \A k \in 1..Len(line') : Acts(k)' /\ line'[k].kind = "start" =>
            \/ \E m \in 1..Len(line) : Acts(m) /\ line[m].kind = "start" /\ line[m].id = line'[k].id
            \/ line'[k].id = i /\ post[i] # "never"
      BY SameStarts
    <2> QED BY <2>1, <2>2, <2>3, <2>4, <2>5, OneMoves
  <1> QED BY <1>3, <1>4, <1>6, <1>7

LEMMA SpawnedKeeps ==
    ASSUME NodeInv, NEW i \in Id, Spawned(i)
    PROVE  NodeInv'
  <1>1. /\ phase[i] = "spawn" /\ phase[i] \in Launching
        /\ UNCHANGED <<asking, post, cancelled, known, noted, line, place, panel, shutting, settling, replies>>
        /\ launch[i] = "running" /\ alive[i] = {}
    BY DEF Spawned, lineVars, Launching, NodeInv, ProcsOK
  <1>2. /\ \/ launch'[i] \in {"ok", "forked", "late"} /\ alive'[i] \in {{}, {"server", "client"}}
           \/ launch'[i] = "failed" /\ alive'[i] = {}
        /\ launch' \in [Id -> {"none", "running", "ok", "failed", "forked", "late"}]
        /\ alive' \in [Id -> SUBSET {"server", "client"}]
        /\ \A j \in Id : j # i => launch'[j] = launch[j] /\ alive'[j] = alive[j]
    BY <1>1 DEF Spawned, NodeInv, NodeTypeOK
  <1>3. PICK p : /\ phase' = [phase EXCEPT ![i] = p]
                 /\ \/ p \in {"identify", "attach"} /\ UNCHANGED finishing
                    \/ p = "ending" /\ finishing' = [finishing EXCEPT ![i] = "look"]
    BY DEF Spawned, Aborts
  <1>4. /\ alive'[i] # {} => launch'[i] \notin {"none", "running", "failed"}
        /\ "client" \in alive'[i] => "server" \in alive'[i] \/ i \in noted'
    BY <1>2
  <1>5. /\ LineOK' /\ TurnOK' /\ ProcsOK' /\ PaneOK' /\ PostOK' /\ RepliesOK'
        /\ phase' \in [Id -> StartPhases \cup {"none", "active", "ending", "ended"}]
        /\ finishing' \in [Id -> {"no", "look", "signalled"}]
    BY <1>1, <1>2, <1>3, <1>4, NoReply, StartGoesOn
  <1>6. NodeTypeOK'
    BY <1>1, <1>2, <1>5 DEF NodeInv, NodeTypeOK
  <1> QED BY <1>5, <1>6 DEF NodeInv

LEMMA IdentifiedKeeps ==
    ASSUME NodeInv, NEW i \in Id, Identified(i)
    PROVE  NodeInv'
  <1>1. /\ phase[i] \in Launching /\ phase[i] = "identify"
        /\ UNCHANGED <<asking, cancelled, launch, alive, line, place, panel, shutting, settling, replies>>
    BY DEF Identified, lineVars, Launching
  <1>2. /\ noted \subseteq noted' /\ noted' \subseteq Id /\ known' \subseteq Id
        /\ Replied /\ post' \in [Id -> {"none", "sent", "handled", "ok", "never", "error", "gone"}]
    BY DEF Identified, NodeInv, NodeTypeOK, Replied
  <1>3. PICK p : /\ phase' = [phase EXCEPT ![i] = p]
                 /\ \/ p \in {"identify", "attach"} /\ UNCHANGED finishing
                    \/ p = "ending" /\ finishing' = [finishing EXCEPT ![i] = "look"]
    BY DEF Identified, Aborts
  <1>4. /\ alive'[i] # {} => launch'[i] \notin {"none", "running", "failed"}
        /\ "client" \in alive'[i] => "server" \in alive'[i] \/ i \in noted'
    BY <1>1, <1>2 DEF NodeInv, ProcsOK
  <1>5. /\ LineOK' /\ TurnOK' /\ ProcsOK' /\ PaneOK' /\ PostOK' /\ RepliesOK'
        /\ phase' \in [Id -> StartPhases \cup {"none", "active", "ending", "ended"}]
        /\ finishing' \in [Id -> {"no", "look", "signalled"}]
    BY <1>1, <1>2, <1>3, <1>4, StartGoesOn
  <1>6. NodeTypeOK'
    BY <1>1, <1>2, <1>5 DEF NodeInv, NodeTypeOK
  <1> QED BY <1>5, <1>6 DEF NodeInv

(* The session is active, and the turn goes on.                            *)
LEMMA AttachedKeeps ==
    ASSUME NodeInv, NEW i \in Id, ClientAttached(i)
    PROVE  NodeInv'
  <1>1. /\ phase[i] \in Launching /\ phase[i] = "attach"
        /\ UNCHANGED <<asking, post, cancelled, launch, alive, known, panel, shutting, settling, replies>>
        /\ noted \subseteq noted' /\ noted' \subseteq Id
    BY DEF ClientAttached, Launching, NodeInv, NodeTypeOK
  <1>2. /\ Starts(i) /\ ~panel
        /\ \A j \in Id : j # i => ~OnPane(j) /\ phase[j] \notin Launching \cup {"active", "ending"}
        /\ \A k \in 1..Len(line) : line[k].id = i => ~Acts(k) /\ line[k].kind # "end"
        /\ post[i] \notin {"none", "sent", "never"} /\ finishing[i] = "no"
    BY <1>1, StartIsAlone
  <1>3. /\ alive'[i] # {} => launch'[i] \notin {"none", "running", "failed"}
        /\ "client" \in alive'[i] => "server" \in alive'[i] \/ i \in noted'
    BY <1>1 DEF NodeInv, ProcsOK
  <1>4. CASE Aborts(i) /\ UNCHANGED <<line, place>>
    <2>1. /\ phase' = [phase EXCEPT ![i] = "ending"] /\ finishing' = [finishing EXCEPT ![i] = "look"]
      BY <1>4 DEF Aborts
    <2>2. /\ LineOK' /\ TurnOK' /\ ProcsOK' /\ PaneOK' /\ PostOK' /\ RepliesOK'
          /\ phase' \in [Id -> StartPhases \cup {"none", "active", "ending", "ended"}]
          /\ finishing' \in [Id -> {"no", "look", "signalled"}]
      BY <1>1, <1>3, <1>4, <2>1, NoReply, StartGoesOn
    <2>3. NodeTypeOK'
      BY <1>1, <1>4, <2>2 DEF NodeInv, NodeTypeOK
    <2> QED BY <2>2, <2>3 DEF NodeInv
  <1>5. CASE /\ phase' = [phase EXCEPT ![i] = "active"] /\ line' = Tail(line) /\ place' = "entry"
             /\ UNCHANGED finishing
    <2>1. /\ phase'[i] = "active" /\ \A j \in Id : j # i => phase'[j] = phase[j]
          /\ place = "run" /\ line # <<>> /\ line \in Seq(TurnJobs) /\ Len(line) \in Nat
      BY <1>2, <1>5 DEF NodeInv, NodeTypeOK, LineOK, Starts
    <2>2. LineFollows(line', line, 1, {})
      BY <1>5, <2>1, FirstGoes
    <2>3. NodeTypeOK'
      BY <1>1, <1>5, <2>2 DEF NodeInv, NodeTypeOK, LineFollows
    <2>4. \A k \in 1..Len(line) : k > 1 => (Acts(k - 1)' <=> Acts(k))
      <3> SUFFICES ASSUME NEW k \in 1..Len(line), k > 1
                   PROVE  Acts(k - 1)' <=> Acts(k)
        OBVIOUS
      <3>1. k - 1 \in 1..Len(line') /\ k - 1 + 1 = k
        BY <2>1, <2>2 DEF LineFollows
      <3>2. line'[k - 1].kind = line[k].kind /\ line'[k - 1].result = line[k].result
        BY <3>1, <2>2 DEF LineFollows
      <3> QED BY <1>5, <3>2 DEF Acts
    <2>5. \A k \in 1..Len(line) : line[k].id \in Id
      <3>1. \A k \in 1..Len(line) : line[k] \in TurnJobs
        BY <2>1
      <3> QED BY <3>1 DEF TurnJobs
    <2>6. LineOK'
      <3>1. \A k \in 1..Len(line) : k > 1 =>
              IF Acts(k - 1)' THEN Acts(k) => Fits(line[k].kind, phase'[line[k].id])
                              ELSE line[k].kind = "end" => phase'[line[k].id] \in {"ending", "ended"}
        BY <1>2, <2>1, <2>4, <2>5 DEF NodeInv, LineOK
      <3>2. /\ 1 = 0 => (place = "run" => place' = "run") /\ (place' # "entry" => line # <<>>)
            /\ 1 = 1 => line # <<>> /\ place' = "entry"
            /\ 1 \in {0, 1} /\ NodeTypeOK /\ LineOK
        BY <1>5, <2>1 DEF NodeInv
      <3>3. \A j \in {} : /\ j.kind # "start"
                          /\ j.kind = "end" /\ j.result # "none" => phase'[j.id] \in {"ending", "ended"}
                          /\ j.kind = "end" /\ j.result = "none" =>
                               /\ phase'[j.id] \in {"line", "active", "ending"}
                               /\ \A k \in 1..Len(line) : k > 1 /\ Acts(k) /\ line[k].kind = "start" => line[k].id # j.id
        OBVIOUS
      <3> QED BY <2>2, <3>1, <3>2, <3>3, LineKeeps
    <2>7. TurnOK'
      <3>1. \A j \in Id : phase'[j] \notin Launching
        BY <1>2, <2>1 DEF Launching
      <3>2. \A j \in Id : finishing'[j] # "no" => phase'[j] = "ending"
        BY <1>2, <1>5, <2>1 DEF NodeInv, TurnOK
      <3> QED BY <1>5, <3>1, <3>2 DEF TurnOK, Starts
    <2>8. ProcsOK' /\ PaneOK' /\ PostOK' /\ RepliesOK'
      <3>1. \A k \in 1..Len(line') : Acts(k)' /\ line'[k].kind = "start" =>
              \/ \E m \in 1..Len(line) : Acts(m) /\ line[m].kind = "start" /\ line[m].id = line'[k].id
              \/ line'[k].id = i /\ post[i] # "never"
        <4> SUFFICES ASSUME NEW k \in 1..Len(line'), Acts(k)', line'[k].kind = "start"
                     PROVE  k + 1 \in 1..Len(line) /\ Acts(k + 1) /\ line[k + 1].kind = "start" /\ line[k + 1].id = line'[k].id
          OBVIOUS
        <4>1. /\ k + 1 <= Len(line) /\ line'[k].kind = line[k + 1].kind /\ line'[k].id = line[k + 1].id
          BY <2>2 DEF LineFollows
        <4>2. k + 1 \in 1..Len(line) /\ k + 1 > 1 /\ k + 1 - 1 = k
          BY <2>1, <4>1
        <4> QED BY <2>4, <4>1, <4>2
      <3>2. /\ \A j \in Id : j # i => phase'[j] = phase[j] /\ launch'[j] = launch[j] /\ alive'[j] = alive[j]
            /\ phase[i] \notin {"none", "ended"}
        BY <1>1, <2>1
      <3>3. /\ alive'[i] # {} /\ launch'[i] # "late" => phase'[i] \in {"identify", "attach", "active", "ending"}
            /\ launch'[i] \in {"none", "running", "failed"} => alive'[i] = {}
            /\ "client" \in alive'[i] /\ "server" \notin alive'[i] => i \in noted'
            /\ phase'[i] \in {"none", "pane", "line"} => launch'[i] = "none"
            /\ phase'[i] = "spawn" => launch'[i] = "running"
        BY <1>3, <2>1
      <3>4. /\ OnPane(i)' => OnPane(i) \/ (~panel /\ \A j \in Id : j # i => ~OnPane(j))
            /\ post[i] = "never" => launch'[i] = "none" /\ phase'[i] \in {"none", "line", "ending", "ended"}
        BY <1>2
      <3> QED BY <1>1, <3>1, <3>2, <3>3, <3>4, NoReply, OneMoves
    <2> QED BY <2>3, <2>6, <2>7, <2>8 DEF NodeInv
  <1> QED BY <1>4, <1>5 DEF ClientAttached

(* What a teardown says: a session is ended when nothing of it runs, but   *)
(* for a late one.                                                         *)
LEMMA EndsKeep ==
    ASSUME NodeInv, NEW i \in Id, NEW clean \in BOOLEAN, Ends(i, clean), finishing[i] # "no",
           clean => alive[i] = {} \/ launch[i] = "late",
           UNCHANGED <<asking, post, launch, alive, noted, place, panel, shutting, settling, replies>>
    PROVE  NodeInv'
  <1>1. phase[i] = "ending"
    BY DEF NodeInv, TurnOK
  <1>2. /\ line' \in Seq(TurnJobs) /\ Len(line') = Len(line)
        /\ \A k \in 1..Len(line) : line'[k].kind = line[k].kind /\ line'[k].id = line[k].id
        /\ \A k \in 1..Len(line) : Acts(k)' => Acts(k)
        /\ LineOK'
    <2>1. NodeTypeOK /\ LineOK /\ place' = place
      BY DEF NodeInv
    <2> QED BY <1>1, <2>1, LineAfterEnds
  <1>3. /\ finishing' = [finishing EXCEPT ![i] = "no"]
        /\ phase' = [phase EXCEPT ![i] = IF clean THEN "ended" ELSE "ending"]
        /\ cancelled' \subseteq Id /\ known' \subseteq Id
    BY DEF Ends, NodeInv, NodeTypeOK
  <1>4. /\ phase'[i] = (IF clean THEN "ended" ELSE "ending") /\ finishing'[i] = "no"
        /\ \A j \in Id : j # i => phase'[j] = phase[j] /\ finishing'[j] = finishing[j]
    BY <1>3 DEF NodeInv, NodeTypeOK
  <1>5. NodeTypeOK'
    BY <1>2, <1>3 DEF NodeInv, NodeTypeOK
  <1>6. TurnOK'
    <2>1. Len(line) \in Nat /\ (place # "entry" => 1 \in 1..Len(line))
      BY DEF NodeInv, NodeTypeOK, LineOK
    <2>2. place # "entry" => line'[1].kind = line[1].kind /\ line'[1].id = line[1].id
      BY <1>2, <2>1
    <2>3. \A j \in Id : Starts(j)' <=> Starts(j)
      BY <2>2 DEF Starts
    <2>4. \A j \in Id : phase'[j] \in Launching => phase[j] \in Launching
      BY <1>4 DEF Launching
    <2>5. \A j \in Id : phase'[j] \in {"active", "ending"} => phase[j] \in {"active", "ending"}
      BY <1>1, <1>4
    <2>6. \A j \in Id : finishing'[j] # "no" => phase'[j] = "ending"
      BY <1>4 DEF NodeInv, TurnOK
    <2> QED BY <2>2, <2>3, <2>4, <2>5, <2>6 DEF NodeInv, TurnOK
  <1>7. ProcsOK' /\ PaneOK' /\ PostOK' /\ RepliesOK'
    <2>1. \A k \in 1..Len(line') : Acts(k)' /\ line'[k].kind = "start" =>
            \/ \E m \in 1..Len(line) : Acts(m) /\ line[m].kind = "start" /\ line[m].id = line'[k].id
            \/ line'[k].id = i /\ post[i] # "never"
      BY <1>2
    <2>2. /\ \A j \in Id : j # i => phase'[j] = phase[j] /\ launch'[j] = launch[j] /\ alive'[j] = alive[j]
          /\ phase[i] \notin {"none", "ended"} /\ noted \subseteq noted'
      BY <1>1, <1>4
    <2>3. /\ alive'[i] # {} /\ launch'[i] # "late" => phase'[i] \in {"identify", "attach", "active", "ending"}
          /\ launch'[i] \in {"none", "running", "failed"} => alive'[i] = {}
          /\ "client" \in alive'[i] /\ "server" \notin alive'[i] => i \in noted'
          /\ phase'[i] \in {"none", "pane", "line"} => launch'[i] = "none"
          /\ phase'[i] = "spawn" => launch'[i] = "running"
      BY <1>4 DEF NodeInv, ProcsOK
    <2>4. OnPane(i)' => OnPane(i)
      BY DEF OnPane
    <2>5. post[i] = "never" => launch'[i] = "none" /\ phase'[i] \in {"none", "line", "ending", "ended"}
      BY <1>4 DEF NodeInv, PostOK
    <2> QED BY <2>1, <2>2, <2>3, <2>4, <2>5, NoReply, OneMoves
  <1> QED BY <1>2, <1>5, <1>6, <1>7 DEF NodeInv

LEMMA UnseenIsGone ==
    ASSUME NodeInv, NEW i \in Id, Unseen(i)
    PROVE  alive[i] = {}
  <1>1. alive[i] \subseteq {"server", "client"}
    BY DEF NodeInv, NodeTypeOK
  <1> QED BY <1>1 DEF Unseen, NodeInv, ProcsOK

(* Only what is known of a session changes, or what of it runs.            *)
LEMMA KnownMore ==
    ASSUME NodeInv, NodeTypeOK', NEW i \in Id, noted \subseteq noted',
           UNCHANGED <<phase, asking, post, launch, line, place, panel, replies>>,
           \A j \in Id : finishing'[j] # "no" => finishing[j] # "no",
           alive'[i] \subseteq alive[i], \A j \in Id : j # i => alive'[j] = alive[j],
           "client" \in alive'[i] /\ "server" \notin alive'[i] => i \in noted'
    PROVE  NodeInv'
  <1>1. LineOK' /\ TurnOK'
    BY DEF NodeInv, LineOK, TurnOK, Acts, Starts
  <1>2. ProcsOK' /\ PaneOK' /\ PostOK' /\ RepliesOK'
    <2>1. /\ alive'[i] # {} /\ launch'[i] # "late" => phase'[i] \in {"identify", "attach", "active", "ending"}
          /\ launch'[i] \in {"none", "running", "failed"} => alive'[i] = {}
          /\ phase'[i] \in {"none", "pane", "line"} => launch'[i] = "none"
          /\ phase'[i] = "spawn" => launch'[i] = "running"
      BY DEF NodeInv, ProcsOK
    <2>2. OnPane(i)' => OnPane(i)
      BY DEF OnPane
    <2>3. post[i] = "never" => launch'[i] = "none" /\ phase'[i] \in {"none", "line", "ending", "ended"}
      BY DEF NodeInv, PostOK
    <2>4. \A k \in 1..Len(line') : Acts(k)' /\ line'[k].kind = "start" =>
            \/ \E m \in 1..Len(line) : Acts(m) /\ line[m].kind = "start" /\ line[m].id = line'[k].id
            \/ line'[k].id = i /\ post[i] # "never"
      BY SameStarts
    <2>5. /\ \A j \in Id : j # i => phase'[j] = phase[j] /\ launch'[j] = launch[j] /\ alive'[j] = alive[j]
          /\ phase'[i] = phase[i] /\ launch'[i] = launch[i]
      OBVIOUS
    <2> QED BY <2>1, <2>2, <2>3, <2>4, <2>5, NoReply, OneMoves
  <1> QED BY <1>1, <1>2 DEF NodeInv

LEMMA EndLooksKeeps ==
    ASSUME NodeInv, NEW i \in Id, EndLooks(i)
    PROVE  NodeInv'
  <1>1. /\ finishing[i] # "no"
        /\ UNCHANGED <<asking, post, launch, alive, place, panel, shutting, settling, replies>>
    BY DEF EndLooks
  <1>2. CASE i \notin known /\ Ends(i, launch[i] \in {"none", "failed", "late"}) /\ UNCHANGED noted
    <2> DEFINE clean == launch[i] \in {"none", "failed", "late"}
    <2>1. clean \in BOOLEAN /\ (clean => alive[i] = {} \/ launch[i] = "late")
      BY DEF NodeInv, ProcsOK
    <2>2. Ends(i, clean) /\ noted' = noted
      BY <1>2
    <2> HIDE DEF clean
    <2> QED BY <1>1, <2>1, <2>2, EndsKeep
  <1>3. CASE i \in known /\ Unseen(i) /\ Ends(i, TRUE) /\ UNCHANGED noted
    <2>1. alive[i] = {} /\ TRUE \in BOOLEAN
      BY <1>3, UnseenIsGone
    <2> QED BY <1>1, <1>3, <2>1, EndsKeep
  <1>4. CASE i \in known /\ Ends(i, FALSE) /\ UNCHANGED noted
    <2>1. FALSE \in BOOLEAN
      OBVIOUS
    <2> QED BY <1>1, <1>4, <2>1, EndsKeep
  <1>5. CASE /\ noted' = IF alive[i] = {"server", "client"} THEN noted \cup {i} ELSE noted
             /\ finishing' = [finishing EXCEPT ![i] = "signalled"]
             /\ UNCHANGED <<phase, line, cancelled, known>>
    <2>1. NodeTypeOK' /\ noted \subseteq noted'
      BY <1>1, <1>5 DEF NodeInv, NodeTypeOK
    <2>2. \A j \in Id : finishing'[j] # "no" => finishing[j] # "no"
      BY <1>1, <1>5 DEF NodeInv, NodeTypeOK
    <2>3. "client" \in alive'[i] /\ "server" \notin alive'[i] => i \in noted'
      BY <1>1, <2>1 DEF NodeInv, ProcsOK
    <2> QED BY <1>1, <1>5, <2>1, <2>2, <2>3, KnownMore
  <1> QED BY <1>2, <1>3, <1>4, <1>5 DEF EndLooks

LEMMA EndSeesKeeps ==
    ASSUME NodeInv, NEW i \in Id, EndSees(i)
    PROVE  NodeInv'
  <1>1. /\ finishing[i] # "no"
        /\ UNCHANGED <<asking, post, launch, alive, noted, place, panel, shutting, settling, replies>>
        /\ (Unseen(i) /\ Ends(i, TRUE)) \/ Ends(i, FALSE)
    BY DEF EndSees
  <1>2. Unseen(i) => alive[i] = {}
    BY UnseenIsGone
  <1>3. TRUE \in BOOLEAN /\ FALSE \in BOOLEAN
    OBVIOUS
  <1>4. CASE Unseen(i) /\ Ends(i, TRUE)
    BY <1>1, <1>2, <1>3, <1>4, EndsKeep
  <1>5. CASE Ends(i, FALSE)
    BY <1>1, <1>3, <1>5, EndsKeep
  <1> QED BY <1>1, <1>4, <1>5

LEMMA ProcessGoesKeeps ==
    ASSUME NodeInv, NEW i \in Id, ProcessGoes(i)
    PROVE  NodeInv'
  <1>1. /\ UNCHANGED <<phase, asking, post, cancelled, launch, known, noted, finishing, line, place, panel,
                       shutting, settling, replies>>
        /\ \E p \in alive[i] : alive' = [alive EXCEPT ![i] = IF p = "server" /\ i \notin noted THEN {} ELSE @ \ {p}]
    BY DEF ProcessGoes, lineVars
  <1>2. /\ alive'[i] \subseteq alive[i] /\ \A j \in Id : j # i => alive'[j] = alive[j]
        /\ NodeTypeOK'
    BY <1>1 DEF NodeInv, NodeTypeOK
  <1>3. "client" \in alive'[i] /\ "server" \notin alive'[i] => i \in noted'
    BY <1>1 DEF NodeInv, NodeTypeOK, ProcsOK
  <1> QED BY <1>1, <1>2, <1>3, KnownMore

(* An end has the turn: its session waits for it, or is in sessions.       *)
LEMMA EndEntersKeeps ==
    ASSUME NodeInv, NEW i \in Id, EndEnters(i)
    PROVE  NodeInv'
  <1>1. /\ line # <<>> /\ line[1].kind = "end" /\ line[1].id = i /\ line[1].result = "none" /\ place = "entry"
        /\ Len(line) \in Nat /\ 1 \in 1..Len(line)
        /\ phase' = [phase EXCEPT ![i] = "ending"] /\ finishing' = [finishing EXCEPT ![i] = "look"]
        /\ place' = "run"
        /\ UNCHANGED <<asking, post, cancelled, launch, alive, known, noted, line, panel, shutting, settling, replies>>
    BY HeadIsFirst DEF NodeInv, First, EndEnters, procVars
  <1>2. Acts(1) /\ phase[i] \in {"line", "active", "ending"}
    <2>1. Acts(1)
      BY <1>1 DEF Acts
    <2> QED BY <1>1, <2>1 DEF NodeInv, LineOK, Fits
  <1>3. /\ phase'[i] = "ending" /\ finishing'[i] = "look"
        /\ \A j \in Id : j # i => phase'[j] = phase[j] /\ finishing'[j] = finishing[j]
    BY <1>1 DEF NodeInv, NodeTypeOK
  <1>4. NodeTypeOK'
    BY <1>1 DEF NodeInv, NodeTypeOK
  <1>5. \A k \in 1..Len(line) : /\ Acts(k)' <=> Acts(k) /\ k # 1
                                /\ Acts(k) /\ line[k].id = i => line[k].kind = "end"
    <2>1. \A k \in 1..Len(line) : Acts(k)' <=> Acts(k) /\ k # 1
      BY <1>1 DEF Acts
    <2>2. \A k \in 1..Len(line) : Acts(k) /\ line[k].id = i => line[k].kind # "start"
      BY <1>1, <1>2 DEF NodeInv, LineOK
    <2> QED BY <2>1, <2>2 DEF Acts
  <1>6. LineOK'
    <2>1. \A k \in 1..Len(line) : line[k].id \in Id
      <3>1. \A k \in 1..Len(line) : line[k] \in TurnJobs
        BY DEF NodeInv, NodeTypeOK
      <3> QED BY <3>1 DEF TurnJobs
    <2>2. ASSUME NEW k \in 1..Len(line)
          PROVE  IF Acts(k)' THEN Fits(line[k].kind, phase'[line[k].id])
                             ELSE line[k].kind = "end" => phase'[line[k].id] \in {"ending", "ended"}
      <3>1. CASE line[k].id # i
        BY <1>1, <1>3, <1>5, <2>1, <3>1 DEF NodeInv, LineOK
      <3>2. CASE line[k].id = i
        BY <1>3, <1>5, <3>2 DEF Fits
      <3> QED BY <3>1, <3>2
    <2> QED BY <1>1, <1>5, <2>2 DEF NodeInv, LineOK
  <1>7. TurnOK'
    <2>1. \A j \in Id : phase'[j] \notin Launching
      BY <1>1, <1>3 DEF NodeInv, TurnOK, Starts, Launching
    <2>2. \A j \in Id : finishing'[j] # "no" => phase'[j] = "ending"
      BY <1>3 DEF NodeInv, TurnOK
    <2> QED BY <1>1, <2>1, <2>2 DEF TurnOK, Starts
  <1>8. ProcsOK' /\ PaneOK' /\ PostOK' /\ RepliesOK'
    <2>1. \A k \in 1..Len(line') : Acts(k)' /\ line'[k].kind = "start" =>
            \/ \E m \in 1..Len(line) : Acts(m) /\ line[m].kind = "start" /\ line[m].id = line'[k].id
            \/ line'[k].id = i /\ post[i] # "never"
      BY <1>1, <1>5
    <2>2. /\ \A j \in Id : j # i => phase'[j] = phase[j] /\ launch'[j] = launch[j] /\ alive'[j] = alive[j]
          /\ phase[i] \notin {"none", "ended"} /\ noted \subseteq noted'
      BY <1>1, <1>2, <1>3
    <2>3. /\ alive'[i] # {} /\ launch'[i] # "late" => phase'[i] \in {"identify", "attach", "active", "ending"}
          /\ launch'[i] \in {"none", "running", "failed"} => alive'[i] = {}
          /\ "client" \in alive'[i] /\ "server" \notin alive'[i] => i \in noted'
          /\ phase'[i] \in {"none", "pane", "line"} => launch'[i] = "none"
          /\ phase'[i] = "spawn" => launch'[i] = "running"
      BY <1>1, <1>3 DEF NodeInv, ProcsOK
    <2>4. OnPane(i)' => OnPane(i)
      BY <1>1 DEF OnPane
    <2>5. post[i] = "never" => launch'[i] = "none" /\ phase'[i] \in {"none", "line", "ending", "ended"}
      BY <1>1, <1>3 DEF NodeInv, PostOK
    <2> QED BY <1>1, <2>1, <2>2, <2>3, <2>4, <2>5, NoReply, OneMoves
  <1> QED BY <1>4, <1>6, <1>7, <1>8 DEF NodeInv

LEMMA ReapGoneKeeps ==
    ASSUME NodeInv, NEW i \in Id, ReapGone(i)
    PROVE  NodeInv'
  <1>1. /\ phase[i] = "active" /\ Queued(line, i) = {} /\ alive[i] = {}
        /\ phase' = [phase EXCEPT ![i] = "ended"] /\ known' \subseteq Id /\ cancelled' \subseteq Id
        /\ UNCHANGED <<asking, post, launch, alive, noted, finishing, line, place, panel, shutting, settling, replies>>
    BY UnseenIsGone DEF ReapGone, lineVars, NodeInv, NodeTypeOK
  <1>2. phase'[i] = "ended" /\ \A j \in Id : j # i => phase'[j] = phase[j]
    BY <1>1 DEF NodeInv, NodeTypeOK
  <1>3. NodeTypeOK'
    BY <1>1 DEF NodeInv, NodeTypeOK
  <1>4. \A k \in 1..Len(line) : line[k].id = i => ~Acts(k)
    <2>1. DOMAIN line = 1..Len(line)
      <3>1. line \in Seq(TurnJobs)
        BY DEF NodeInv, NodeTypeOK
      <3> QED BY <3>1
    <2>2. \A k \in 1..Len(line) : line[k].id = i /\ Acts(k) => line[k].kind = "end"
      BY <1>1 DEF NodeInv, LineOK, Fits, Acts
    <2> QED BY <1>1, <2>1, <2>2 DEF Queued, Acts
  <1>5. LineOK'
    <2>1. \A k \in 1..Len(line) : line[k].id = i =>
            IF Acts(k) THEN Fits(line[k].kind, "ended") ELSE line[k].kind = "end" => "ended" \in {"ending", "ended"}
      BY <1>4
    <2> QED BY <1>1, <2>1, LinePhase DEF NodeInv
  <1>6. TurnOK'
    BY <1>1, <1>2 DEF NodeInv, TurnOK, Starts, Launching
  <1>7. ProcsOK' /\ PaneOK' /\ PostOK' /\ RepliesOK'
    <2>1. \A k \in 1..Len(line') : Acts(k)' /\ line'[k].kind = "start" =>
            \/ \E m \in 1..Len(line) : Acts(m) /\ line[m].kind = "start" /\ line[m].id = line'[k].id
            \/ line'[k].id = i /\ post[i] # "never"
      BY <1>1, SameStarts
    <2>2. /\ \A j \in Id : j # i => phase'[j] = phase[j] /\ launch'[j] = launch[j] /\ alive'[j] = alive[j]
          /\ phase[i] \notin {"none", "ended"} /\ noted \subseteq noted'
      BY <1>1, <1>2
    <2>3. /\ alive'[i] # {} /\ launch'[i] # "late" => phase'[i] \in {"identify", "attach", "active", "ending"}
          /\ launch'[i] \in {"none", "running", "failed"} => alive'[i] = {}
          /\ "client" \in alive'[i] /\ "server" \notin alive'[i] => i \in noted'
          /\ phase'[i] \in {"none", "pane", "line"} => launch'[i] = "none"
          /\ phase'[i] = "spawn" => launch'[i] = "running"
      BY <1>1, <1>2
    <2>4. OnPane(i)' => OnPane(i)
      BY <1>1 DEF OnPane
    <2>5. post[i] = "never" => launch'[i] = "none" /\ phase'[i] \in {"none", "line", "ending", "ended"}
      BY <1>1 DEF NodeInv, PostOK
    <2> QED BY <1>1, <2>1, <2>2, <2>3, <2>4, <2>5, NoReply, OneMoves
  <1> QED BY <1>3, <1>5, <1>6, <1>7 DEF NodeInv

-----------------------------------------------------------------------------
(* What the hub may rely on, whatever the node does *)

(* An ended session stays so; a POST neither comes up by itself nor is     *)
(* more than refused once it was.                                          *)
Stays ==
    \A i \in Id : /\ phase[i] = "ended" => phase'[i] = "ended"
                  /\ post[i] \in {"none", "never"} => post'[i] = post[i]

LEMMA EndsStays ==
    ASSUME NodeInv, NEW i \in Id, NEW clean, Ends(i, clean), finishing[i] # "no", post' = post
    PROVE  Stays
  <1>1. phase[i] = "ending"
    BY DEF NodeInv, TurnOK
  <1> QED BY <1>1 DEF Ends, Stays, NodeInv, NodeTypeOK

LEMMA StopsStays ==
    ASSUME NodeInv, NEW i \in Id, NEW n, Stops(i, n),
           post' = post \/ (post[i] = "handled" /\ post' = [post EXCEPT ![i] = "gone"])
    PROVE  Stays
  <1>1. phase' = phase \/ phase' = [phase EXCEPT ![i] = "ended"]
    BY DEF Stops
  <1> QED BY <1>1 DEF Stays, NodeInv, NodeTypeOK

LEMMA GivenUpStays ==
    ASSUME NodeInv, NEW i \in Id, NEW q, NEW answer, GivenUp(q, i, answer), phase' = phase
    PROVE  Stays
  BY DEF GivenUp, Stays, NodeInv, NodeTypeOK

LEMMA OthersStay ==
    ASSUME NodeInv, EndsOthers, post' = post
    PROVE  Stays
  BY DEF EndsOthers, Owned, Stays, NodeInv, NodeTypeOK

LEMMA NodeContinuesKeeps ==
    ASSUME NodeInv, NEW i \in Id, NodeContinues(i)
    PROVE  NodeInv' /\ Stays
  <1>1. CASE StartClear(i)
    <2>1. \/ GivenUp(Tail(line), i, "error") /\ UNCHANGED phase
          \/ phase[i] = "line" /\ phase' = [phase EXCEPT ![i] = "spawn"] /\ UNCHANGED post
      <3>1. line # <<>> /\ line[1].kind = "start" /\ line[1].id = i /\ place = "clear" /\ Len(line) \in Nat /\ 1 \in 1..Len(line)
        BY <1>1, HeadIsFirst DEF NodeInv, First, StartClear
      <3>2. Acts(1)
        BY <3>1 DEF Acts
      <3>3. phase[i] = "line"
        BY <3>1, <3>2 DEF NodeInv, LineOK, Fits
      <3> QED BY <1>1, <3>3 DEF StartClear
    <2>2. Stays
      <3>1. CASE GivenUp(Tail(line), i, "error") /\ UNCHANGED phase
        BY <3>1, GivenUpStays
      <3>2. CASE phase[i] = "line" /\ phase' = [phase EXCEPT ![i] = "spawn"] /\ UNCHANGED post
        BY <3>2 DEF Stays, NodeInv, NodeTypeOK
      <3> QED BY <2>1, <3>1, <3>2
    <2> QED BY <1>1, <2>2, StartClearKeeps
  <1>2. CASE StartAborted(i)
    <2>1. GivenUp(Tail(line), i, "error") /\ UNCHANGED phase
      BY <1>2 DEF StartAborted
    <2> QED BY <1>2, <2>1, GivenUpStays, AbortedKeeps
  <1>3. CASE EndDone(i)
    BY <1>3, EndDoneKeeps DEF EndDone, Stays
  <1>4. CASE PanelClear(i)
    BY <1>4, PanelClearKeeps DEF PanelClear, Stays
  <1> QED BY <1>1, <1>2, <1>3, <1>4 DEF NodeContinues

LEMMA NodeEventKeeps ==
    ASSUME NodeInv, NodeEvent
    PROVE  NodeInv' /\ Stays
  <1>1. ASSUME NEW i \in Id, PostArrives(i) PROVE NodeInv' /\ Stays
    BY <1>1, PostArrivesKeeps DEF PostArrives, Stays, NodeInv, NodeTypeOK
  <1>2. ASSUME NEW i \in Id, Capable(i) PROVE NodeInv' /\ Stays
    <2>1. phase' = phase \/ (phase[i] = "none" /\ phase' = [phase EXCEPT ![i] = "pane"])
      BY <1>2 DEF Capable
    <2>2. post' = post \/ \E answer : post' = [post EXCEPT ![i] = IF @ = "handled" THEN answer ELSE @]
      BY <1>2 DEF Capable
    <2>3. Stays
      BY <2>1, <2>2 DEF Stays, NodeInv, NodeTypeOK
    <2> QED BY <1>2, <2>3, CapableKeeps
  <1>3. ASSUME NEW i \in Id, PaneResolved(i) PROVE NodeInv' /\ Stays
    <2>1. phase[i] = "pane" /\ phase' = [phase EXCEPT ![i] = "line"]
      BY <1>3 DEF PaneResolved
    <2>2. post' = post \/ \E answer : post' = [post EXCEPT ![i] = IF @ = "handled" THEN answer ELSE @]
      BY <1>3 DEF PaneResolved, GivenUp
    <2>3. Stays
      BY <2>1, <2>2 DEF Stays, NodeInv, NodeTypeOK
    <2> QED BY <1>3, <2>3, PaneResolvedKeeps
  <1>4. ASSUME NEW i \in Id, StartEnters(i) PROVE NodeInv' /\ Stays
    <2>1. CASE i \in cancelled
      <3>1. GivenUp(Tail(line), i, "error") /\ UNCHANGED phase
        BY <1>4, <2>1 DEF StartEnters
      <3> QED BY <1>4, <3>1, StartEntersKeeps, GivenUpStays
    <2>2. CASE i \notin cancelled
      <3>1. EndsOthers /\ post' = post
        BY <1>4, <2>2 DEF StartEnters
      <3> QED BY <1>4, <3>1, StartEntersKeeps, OthersStay
    <2> QED BY <2>1, <2>2
  <1>5. ASSUME NEW i \in Id, Spawned(i) PROVE NodeInv' /\ Stays
    BY <1>5, SpawnedKeeps DEF Spawned, Aborts, Stays, NodeInv, NodeTypeOK
  <1>6. ASSUME NEW i \in Id, Identified(i) PROVE NodeInv' /\ Stays
    <2>1. phase[i] = "identify" /\ \E p : phase' = [phase EXCEPT ![i] = p]
      BY <1>6 DEF Identified, Aborts
    <2>2. post' = post \/ post' = [post EXCEPT ![i] = IF @ = "handled" THEN "ok" ELSE @]
      BY <1>6 DEF Identified
    <2>3. Stays
      BY <2>1, <2>2 DEF Stays, NodeInv, NodeTypeOK
    <2> QED BY <1>6, <2>3, IdentifiedKeeps
  <1>7. ASSUME NEW i \in Id, ClientAttached(i) PROVE NodeInv' /\ Stays
    <2>1. phase[i] = "attach" /\ post' = post /\ \E p : phase' = [phase EXCEPT ![i] = p]
      BY <1>7 DEF ClientAttached, Aborts
    <2>2. Stays
      BY <2>1 DEF Stays, NodeInv, NodeTypeOK
    <2> QED BY <1>7, <2>2, AttachedKeeps
  <1>8. ASSUME NEW i \in Id, EndLooks(i) PROVE NodeInv' /\ Stays
    <2>1. finishing[i] # "no" /\ post' = post
      BY <1>8 DEF EndLooks
    <2>2. ASSUME phase' = phase PROVE Stays
      BY <2>1, <2>2 DEF Stays
    <2>3. ASSUME Ends(i, launch[i] \in {"none", "failed", "late"}) PROVE Stays
      BY <2>1, <2>3, EndsStays
    <2>4. ASSUME Ends(i, TRUE) PROVE Stays
      BY <2>1, <2>4, EndsStays
    <2>5. ASSUME Ends(i, FALSE) PROVE Stays
      BY <2>1, <2>5, EndsStays
    <2>6. phase' = phase \/ Ends(i, launch[i] \in {"none", "failed", "late"}) \/ Ends(i, TRUE) \/ Ends(i, FALSE)
      BY <1>8 DEF EndLooks
    <2> QED BY <1>8, <2>2, <2>3, <2>4, <2>5, <2>6, EndLooksKeeps
  <1>9. ASSUME NEW i \in Id, EndSees(i) PROVE NodeInv' /\ Stays
    <2>1. finishing[i] # "no" /\ post' = post /\ (Ends(i, TRUE) \/ Ends(i, FALSE))
      BY <1>9 DEF EndSees
    <2> QED BY <1>9, <2>1, EndsStays, EndSeesKeeps
  <1>10. ASSUME NEW i \in Id, EndEnters(i) PROVE NodeInv' /\ Stays
    <2>1. line # <<>> /\ line[1].kind = "end" /\ line[1].id = i /\ line[1].result = "none" /\ place = "entry" /\ Len(line) \in Nat /\ 1 \in 1..Len(line)
      BY <1>10, HeadIsFirst DEF NodeInv, First, EndEnters
    <2>2. Acts(1)
      BY <2>1 DEF Acts
    <2>3. phase[i] # "ended"
      BY <2>1, <2>2 DEF NodeInv, LineOK, Fits
    <2> QED BY <1>10, <2>3, EndEntersKeeps DEF EndEnters, Stays, NodeInv, NodeTypeOK
  <1>11. ASSUME NEW i \in Id, ReapGone(i) PROVE NodeInv' /\ Stays
    BY <1>11, ReapGoneKeeps DEF ReapGone, Stays, NodeInv, NodeTypeOK
  <1>12. ASSUME NEW i \in Id, ReapSilent(i) PROVE NodeInv' /\ Stays
    BY <1>12, ReapSilentKeeps DEF ReapSilent, Stays
  <1>13. ASSUME NEW i \in Id, ProcessGoes(i) PROVE NodeInv' /\ Stays
    BY <1>13, ProcessGoesKeeps DEF ProcessGoes, Stays
  <1>14. ASSUME NEW i \in Id, PanelEnters(i) PROVE NodeInv' /\ Stays
    <2>1. EndsOthers /\ UNCHANGED post
      BY <1>14 DEF PanelEnters
    <2> QED BY <1>14, <2>1, PanelEntersKeeps, OthersStay
  <1>15. CASE PanelLeaves
    BY <1>15, PanelLeavesKeeps DEF PanelLeaves, Stays
  <1>16. CASE StopAll
    BY <1>16, StopAllKeeps DEF StopAll, Stays
  <1> QED BY <1>1, <1>2, <1>3, <1>4, <1>5, <1>6, <1>7, <1>8, <1>9, <1>10, <1>11, <1>12, <1>13, <1>14, <1>15, <1>16
          DEF NodeEvent

LEMMA NodeSame ==
    ASSUME NodeInv, UNCHANGED nodeVars
    PROVE  NodeInv' /\ Stays
  <1>1. /\ UNCHANGED <<phase, asking, post, cancelled, launch, alive, known, noted, finishing, line, place, panel>>
        /\ UNCHANGED <<shutting, settling, replies>>
    BY DEF nodeVars, procVars, lineVars
  <1>2. NodeTypeOK'
    BY <1>1 DEF NodeInv, NodeTypeOK
  <1>3. LineOK' /\ TurnOK' /\ ProcsOK' /\ PaneOK' /\ PostOK' /\ RepliesOK' /\ Stays
    BY <1>1 DEF NodeInv, LineOK, TurnOK, ProcsOK, PaneOK, PostOK, RepliesOK, Acts, Starts, OnPane, Stays
  <1> QED BY <1>2, <1>3 DEF NodeInv

LEMMA NodeStarts == NodeInit => NodeInv
  <1> SUFFICES ASSUME NodeInit PROVE NodeInv
    OBVIOUS
  <1>1. /\ line = <<>> /\ Len(line) = 0 /\ line \in Seq(TurnJobs)
    BY DEF NodeInit
  <1>2. NodeTypeOK
    BY <1>1 DEF NodeInit, NodeTypeOK
  <1>3. LineOK /\ TurnOK
    BY <1>1 DEF NodeInit, LineOK, TurnOK, Starts, Launching
  <1>4. ProcsOK /\ PaneOK /\ RepliesOK
    BY DEF NodeInit, ProcsOK, PaneOK, OnPane, RepliesOK
  <1>5. PostOK
    BY <1>1 DEF NodeInit, PostOK
  <1> QED BY <1>2, <1>3, <1>4, <1>5 DEF NodeInv

-----------------------------------------------------------------------------
(* Steps of the hub *)

(* An attempt that another's step leaves alone, but for a refusal with the *)
(* trial it waited for, or one more try to end what it left.               *)
LEMMA OtherKeeps ==
    ASSUME HubTypeOK, NEW j \in Id, HubOf(j), Stays,
           \/ attempt'[j] = attempt[j]
           \/ attempt[j].stage = "waiting" /\ attempt'[j] = [attempt[j] EXCEPT !.stage = "refused"],
           cleaning'[j] = cleaning[j] \/ (cleaning'[j] = "local" /\ j \in owned),
           j \in owned' <=> j \in owned,
           \A g \in Gen : j \in scope'[g].unclean => j \in scope[g].unclean
    PROVE  HubOf(j)'
  <1>1. attempt[j] \in Attempts
    BY DEF HubTypeOK
  <1>2. Over(j) => Over(j)'
    BY DEF Over, Stays
  <1>3. post[j] \in {"none", "never"} => post'[j] = post[j]
    BY DEF Stays
  <1>4. CASE attempt'[j] = attempt[j]
    BY <1>2, <1>3, <1>4 DEF HubOf
  <1>5. CASE attempt[j].stage = "waiting" /\ attempt'[j] = [attempt[j] EXCEPT !.stage = "refused"]
    <2>1. /\ attempt'[j].stage = "refused" /\ attempt'[j].posted = attempt[j].posted
          /\ attempt'[j].local = attempt[j].local /\ attempt'[j].cleaned = attempt[j].cleaned
          /\ attempt'[j].gen = attempt[j].gen
      BY <1>1, <1>5 DEF Attempts
    <2> QED BY <1>2, <1>3, <1>5, <2>1 DEF HubOf
  <1> QED BY <1>4, <1>5

LEMMA NodeStepsKeepHub ==
    ASSUME HubTypeOK, HubInv, Stays, UNCHANGED hubSide
    PROVE  HubTypeOK' /\ HubInv'
  <1>1. UNCHANGED <<attempt, scope, gen, cut, owned, cleaning, asks, wire, hubDown>>
    BY DEF hubSide
  <1>2. HubTypeOK'
    BY <1>1 DEF HubTypeOK
  <1>3. HubInv'
    BY <1>1, OtherKeeps DEF HubInv
  <1> QED BY <1>2, <1>3

(* An attempt's own step, and those it may touch.                          *)
LEMMA OneAttempt ==
    ASSUME HubTypeOK, HubInv, NEW i \in Id, Stays, HubOf(i)',
           \A j \in Id : j # i =>
             /\ \/ attempt'[j] = attempt[j]
                \/ attempt[j].stage = "waiting" /\ attempt'[j] = [attempt[j] EXCEPT !.stage = "refused"]
             /\ cleaning'[j] = cleaning[j] \/ (cleaning'[j] = "local" /\ j \in owned)
             /\ j \in owned' <=> j \in owned
             /\ \A g \in Gen : j \in scope'[g].unclean => j \in scope[g].unclean
    PROVE  HubInv'
  BY OtherKeeps DEF HubInv

(* _cleanOwned is over: clean only of what the node ended or never had.    *)
LEMMA CleanedKeeps ==
    ASSUME HubTypeOK, HubInv, NEW i \in Id, NEW clean \in BOOLEAN, Cleaned(i, clean), Stays, cleaning[i] # "no",
           clean => attempt[i].local # "runs" /\ Over(i)
    PROVE  /\ HubInv'
           /\ attempt' \in [Id -> Attempts] /\ scope' \in [Gen -> Scopes] /\ owned' \subseteq Id
           /\ cleaning' \in [Id -> {"no", "local", "asked"}]
  <1> DEFINE g == attempt[i].gen
  <1>1. attempt[i] \in Attempts /\ g \in Gen /\ scope[g] \in Scopes
    <2>1. attempt[i] \in Attempts
      BY DEF HubTypeOK
    <2>2. g \in Gen
      BY <2>1 DEF Attempts
    <2> QED BY <2>1, <2>2 DEF HubTypeOK
  <1>2. /\ cleaning' = [cleaning EXCEPT ![i] = "no"]
        /\ owned' = (IF clean THEN owned \ {i} ELSE owned)
        /\ attempt' = [attempt EXCEPT ![i].cleaned = clean]
        /\ scope' = [scope EXCEPT ![g].unclean = IF clean THEN @ \ {i} ELSE @ \cup {i}]
    BY DEF Cleaned
  <1> HIDE DEF g
  <1>3. /\ attempt'[i] = [attempt[i] EXCEPT !.cleaned = clean] /\ attempt'[i] \in Attempts
        /\ \A j \in Id : j # i => attempt'[j] = attempt[j]
        /\ attempt' \in [Id -> Attempts]
    BY <1>1, <1>2 DEF HubTypeOK, Attempts
  <1>4. /\ scope' \in [Gen -> Scopes]
        /\ scope'[g].unclean = (IF clean THEN scope[g].unclean \ {i} ELSE scope[g].unclean \cup {i})
        /\ \A h \in Gen : h # g => scope'[h] = scope[h]
    BY <1>1, <1>2 DEF HubTypeOK, Scopes
  <1>5. /\ owned' \subseteq Id /\ cleaning' \in [Id -> {"no", "local", "asked"}]
        /\ cleaning'[i] = "no" /\ \A j \in Id : j # i => cleaning'[j] = cleaning[j]
    BY <1>2 DEF HubTypeOK
  <1>6. HubOf(i) /\ i \in owned
    BY DEF HubInv, HubOf
  <1>7. /\ attempt'[i].cleaned = clean
        /\ attempt'[i].stage = attempt[i].stage /\ attempt'[i].posted = attempt[i].posted
        /\ attempt'[i].local = attempt[i].local /\ attempt'[i].gen = attempt[i].gen
    BY <1>1, <1>3 DEF Attempts
  <1>8. \A h \in Gen : i \in scope'[h].unclean => ~clean /\ attempt[i].gen = h
    <2>1. \A h \in Gen : i \in scope[h].unclean => attempt[i].gen = h
      BY <1>6 DEF HubOf
    <2> QED BY <1>4, <2>1 DEF g
  <1>9. HubOf(i)'
    <2>1. Over(i) => Over(i)'
      BY DEF Over, Stays
    <2>2. post[i] \in {"none", "never"} => post'[i] = post[i]
      BY DEF Stays
    <2>3. ~clean => i \in owned'
      BY <1>2, <1>6
    <2> QED BY <1>5, <1>6, <1>7, <1>8, <2>1, <2>2, <2>3 DEF HubOf
  <1>10. \A j \in Id : j # i => /\ j \in owned' <=> j \in owned
                                /\ \A h \in Gen : j \in scope'[h].unclean => j \in scope[h].unclean
    BY <1>2, <1>4
  <1>11. HubInv'
    BY <1>3, <1>5, <1>9, <1>10, OneAttempt
  <1> QED BY <1>3, <1>4, <1>5, <1>11

LEMMA AttemptFields ==
    ASSUME HubTypeOK, NEW i \in Id
    PROVE  /\ attempt[i] \in Attempts /\ attempt[i].gen \in Gen /\ scope[attempt[i].gen] \in Scopes
           /\ attempt[i].posted \in BOOLEAN /\ attempt[i].cleaned \in BOOLEAN /\ attempt[i].gone \in BOOLEAN
  <1>1. attempt[i] \in Attempts
    BY DEF HubTypeOK
  <1>2. attempt[i].gen \in Gen /\ attempt[i].posted \in BOOLEAN /\ attempt[i].cleaned \in BOOLEAN /\ attempt[i].gone \in BOOLEAN
    BY <1>1 DEF Attempts
  <1> QED BY <1>1, <1>2 DEF HubTypeOK

LEMMA LocalStopsKeeps ==
    ASSUME MoshInv, NEW i \in Id, LocalStops(i)
    PROVE  MoshInv'
  <1>1. /\ cleaning[i] = "local" /\ UNCHANGED <<gen, cut, hubDown>> /\ NodeInv' /\ Stays /\ HubTypeOK /\ HubInv /\ HubOf(i)
    BY NodeSame DEF MoshInv, HubInv, LocalStops
  <1>2. TRUE \in BOOLEAN /\ FALSE \in BOOLEAN /\ cleaning[i] # "no"
    BY <1>1
  <1>3. CASE Cleaned(i, FALSE) /\ UNCHANGED <<asks, wire>>
    <2>1. /\ HubInv'
          /\ attempt' \in [Id -> Attempts] /\ scope' \in [Gen -> Scopes] /\ owned' \subseteq Id
          /\ cleaning' \in [Id -> {"no", "local", "asked"}]
      BY <1>1, <1>2, <1>3, CleanedKeeps
    <2> QED BY <1>1, <1>3, <2>1 DEF MoshInv, HubTypeOK
  <1>4. CASE ~attempt[i].posted /\ Cleaned(i, TRUE) /\ UNCHANGED <<asks, wire>>
    <2>1. attempt[i].local # "runs" /\ Over(i)
      BY <1>1, <1>4 DEF HubOf, Over
    <2>2. /\ HubInv'
          /\ attempt' \in [Id -> Attempts] /\ scope' \in [Gen -> Scopes] /\ owned' \subseteq Id
          /\ cleaning' \in [Id -> {"no", "local", "asked"}]
      BY <1>1, <1>2, <1>4, <2>1, CleanedKeeps
    <2> QED BY <1>1, <1>4, <2>2 DEF MoshInv, HubTypeOK
  <1>5. CASE /\ asks[i] < MaxAsk
             /\ cleaning' = [cleaning EXCEPT ![i] = "asked"]
             /\ attempt' = [attempt EXCEPT ![i].local = IF @ = "runs" THEN "gone" ELSE @]
             /\ asks' = [asks EXCEPT ![i] = @ + 1]
             /\ wire' = wire \cup {[id |-> i, n |-> asks[i] + 1]}
             /\ UNCHANGED <<owned, scope>>
    <2>1. attempt[i] \in Attempts
      BY <1>1, AttemptFields
    <2>2. /\ attempt' \in [Id -> Attempts]
          /\ attempt'[i].local = (IF attempt[i].local = "runs" THEN "gone" ELSE attempt[i].local)
          /\ attempt'[i].stage = attempt[i].stage /\ attempt'[i].posted = attempt[i].posted
          /\ attempt'[i].cleaned = attempt[i].cleaned /\ attempt'[i].gen = attempt[i].gen
          /\ \A j \in Id : j # i => attempt'[j] = attempt[j]
      BY <1>1, <1>5, <2>1 DEF HubTypeOK, Attempts
    <2>3. /\ cleaning' \in [Id -> {"no", "local", "asked"}] /\ cleaning'[i] = "asked"
          /\ \A j \in Id : j # i => cleaning'[j] = cleaning[j]
      BY <1>1, <1>5 DEF HubTypeOK
    <2>4. asks' \in [Id -> 0..MaxAsk] /\ wire' \subseteq [id : Id, n : 1..MaxAsk]
      <3>1. asks[i] + 1 \in 1..MaxAsk /\ asks[i] + 1 \in 0..MaxAsk
        BY <1>1, <1>5, AsksAreNumbers DEF HubTypeOK
      <3> QED BY <1>1, <1>5, <3>1 DEF HubTypeOK
    <2>5. HubOf(i)'
      <3>1. Over(i) => Over(i)'
        BY <1>1 DEF Over, Stays
      <3>2. post[i] \in {"none", "never"} => post'[i] = post[i]
        BY <1>1 DEF Stays
      <3> QED BY <1>1, <1>5, <2>2, <2>3, <3>1, <3>2 DEF HubOf
    <2>6. HubInv'
      BY <1>1, <1>5, <2>2, <2>3, <2>5, OneAttempt
    <2> QED BY <1>1, <1>5, <2>2, <2>3, <2>4, <2>6 DEF MoshInv, HubTypeOK
  <1> QED BY <1>3, <1>4, <1>5 DEF LocalStops

(* Fewer answers wait to be read.                                          *)
LEMMA FewerReplies ==
    ASSUME NodeInv, UNCHANGED nodeButReplies, replies' \subseteq replies
    PROVE  NodeInv' /\ Stays
  <1>1. UNCHANGED <<phase, asking, post, cancelled, launch, alive, known, noted, finishing, line, place, panel, shutting, settling>>
    BY DEF nodeButReplies, procVars, lineVars
  <1>2. NodeTypeOK'
    BY <1>1 DEF NodeInv, NodeTypeOK
  <1>3. LineFollows(line', line, 0, {})
    BY <1>1, LineStays
  <1>4. Stays
    BY <1>1 DEF Stays
  <1> QED BY <1>1, <1>2, <1>3, <1>4, NobodyJoins, NoReply, JobsMove

LEMMA DeleteAnsweredKeeps ==
    ASSUME MoshInv, NEW i \in Id, DeleteAnswered(i)
    PROVE  MoshInv'
  <1>1. cleaning[i] = "asked" /\ UNCHANGED <<gen, cut, asks, wire, hubDown>> /\ HubTypeOK /\ HubInv /\ HubOf(i) /\ NodeInv
    BY DEF DeleteAnswered, MoshInv, HubInv
  <1>2. NodeInv' /\ Stays
    BY <1>1, FewerReplies DEF DeleteAnswered
  <1>3. PICK clean \in BOOLEAN : Cleaned(i, clean) /\ (clean => \E r \in replies : r.id = i /\ r.clean)
    <2>1. \A r \in replies : r.clean \in BOOLEAN
      BY <1>1 DEF NodeInv, NodeTypeOK
    <2>2. CASE \E r \in replies : r.id = i /\ r.n = asks[i] /\ Cleaned(i, r.clean)
      BY <2>1, <2>2
    <2>3. CASE Cleaned(i, FALSE)
      BY <2>3
    <2> QED BY <2>2, <2>3 DEF DeleteAnswered
  <1>4. clean => attempt[i].local # "runs" /\ Over(i)
    BY <1>1, <1>3 DEF HubOf, NodeInv, RepliesOK, Over
  <1>5. /\ HubInv'
        /\ attempt' \in [Id -> Attempts] /\ scope' \in [Gen -> Scopes] /\ owned' \subseteq Id
        /\ cleaning' \in [Id -> {"no", "local", "asked"}]
    BY <1>1, <1>2, <1>3, <1>4, CleanedKeeps
  <1> QED BY <1>1, <1>2, <1>5 DEF MoshInv, HubTypeOK

(* With the trial over, those who waited for it go on or are refused.      *)
LEMMA TrialOverKeeps ==
    ASSUME HubTypeOK, NEW i \in Id, NEW clean, NEW own \in [Id -> Attempts],
           \A j \in Id : j # i => own[j] = attempt[j],
           own[i].stage # "waiting", TrialOver(i, clean, own)
    PROVE  /\ attempt' \in [Id -> Attempts] /\ attempt'[i] = own[i]
           /\ \A j \in Id : j # i =>
                \/ attempt'[j] = attempt[j]
                \/ attempt[j].stage = "waiting" /\ attempt'[j] = [attempt[j] EXCEPT !.stage = "refused"]
  <1>1. \A j \in Id : own[j] \in Attempts /\ [own[j] EXCEPT !.stage = "refused"] \in Attempts
    BY DEF Attempts
  <1>2. CASE attempt' = own
    BY <1>2
  <1>3. CASE attempt' = [j \in Id |->
               IF own[j].stage = "waiting" /\ own[j].gen = own[i].gen /\ ~clean
               THEN [own[j] EXCEPT !.stage = "refused"] ELSE own[j]]
    BY <1>1, <1>3
  <1> QED BY <1>2, <1>3 DEF TrialOver

(* The trial of a scope, and whether mosh came up, is nobody's clean-up.   *)
LEMMA ScopeKeeps ==
    ASSUME HubTypeOK, NEW g \in Gen, NEW t \in Id \cup {NoTrial}, NEW v \in BOOLEAN,
           scope' = [scope EXCEPT ![g].trial = t, ![g].verified = v]
    PROVE  scope' \in [Gen -> Scopes] /\ \A h \in Gen : scope'[h].unclean = scope[h].unclean
  <1>1. \A h \in Gen : scope[h] \in Scopes
    BY DEF HubTypeOK
  <1>2. scope' = [scope EXCEPT ![g] = [scope[g] EXCEPT !.trial = t, !.verified = v]]
    BY <1>1 DEF HubTypeOK, Scopes
  <1>3. [scope[g] EXCEPT !.trial = t, !.verified = v] \in Scopes
        /\ [scope[g] EXCEPT !.trial = t, !.verified = v].unclean = scope[g].unclean
    BY <1>1 DEF Scopes
  <1> QED BY <1>2, <1>3 DEF HubTypeOK

LEMMA TrialKeeps ==
    ASSUME HubTypeOK, NEW g \in Gen, NEW t \in Id \cup {NoTrial}, scope' = [scope EXCEPT ![g].trial = t]
    PROVE  scope' \in [Gen -> Scopes] /\ \A h \in Gen : scope'[h].unclean = scope[h].unclean
  <1>1. \A h \in Gen : scope[h] \in Scopes
    BY DEF HubTypeOK
  <1>2. [scope[g] EXCEPT !.trial = t] \in Scopes /\ [scope[g] EXCEPT !.trial = t].unclean = scope[g].unclean
    BY <1>1 DEF Scopes
  <1> QED BY <1>2 DEF HubTypeOK

LEMMA WithoutTrialType ==
    ASSUME HubTypeOK, NEW i \in Id
    PROVE  WithoutTrial(i) \in Id \cup {NoTrial}
  <1>1. Of(i) \in Scopes
    BY AttemptFields DEF Of
  <1> QED BY <1>1 DEF WithoutTrial, Scopes

(* An attempt is in a new stage, with no more and no less to end.          *)
LEMMA StageKeeps ==
    ASSUME HubTypeOK, NEW i \in Id, HubOf(i), Stays, NEW stage,
           attempt'[i] = [attempt[i] EXCEPT !.stage = stage],
           UNCHANGED <<owned, cleaning>>, \A h \in Gen : scope'[h].unclean = scope[h].unclean,
           \/ attempt[i].stage \in {"waiting", "reclean"} /\ stage \in {"prepare", "reclean", "relayed", "refused"}
           \/ /\ attempt[i].stage = "cleaning" /\ stage \in {"relayed", "refused"}
              /\ stage = "relayed" => attempt[i].cleaned
           \/ attempt[i].stage = "contact" /\ stage = "bridged"
           \/ attempt[i].stage = "relayed" /\ stage = "attached"
    PROVE  HubOf(i)'
  <1>1. attempt[i] \in Attempts
    BY DEF HubTypeOK
  <1>2. /\ attempt'[i].stage = stage /\ attempt'[i].posted = attempt[i].posted
        /\ attempt'[i].local = attempt[i].local /\ attempt'[i].cleaned = attempt[i].cleaned
        /\ attempt'[i].gen = attempt[i].gen
    BY <1>1 DEF Attempts
  <1>3. Over(i) => Over(i)'
    BY DEF Over, Stays
  <1>4. post[i] \in {"none", "never"} => post'[i] = post[i]
    BY DEF Stays
  <1>5. attempt[i].posted \in BOOLEAN /\ attempt[i].cleaned \in BOOLEAN
    BY <1>1 DEF Attempts
  <1>6. CASE attempt[i].stage \in {"waiting", "reclean"} /\ stage \in {"prepare", "reclean", "relayed", "refused"}
    <2>1. post[i] = "none" /\ ~attempt[i].posted /\ attempt[i].local = "none" /\ ~attempt[i].cleaned /\ i \notin owned
      BY <1>6 DEF HubOf
    <2> QED BY <1>2, <1>3, <1>4, <1>6, <2>1 DEF HubOf, Over
  <1>7. CASE /\ attempt[i].stage = "cleaning" /\ stage \in {"relayed", "refused"}
             /\ stage = "relayed" => attempt[i].cleaned
    BY <1>2, <1>3, <1>4, <1>5, <1>7 DEF HubOf
  <1>8. CASE attempt[i].stage = "contact" /\ stage = "bridged"
    BY <1>2, <1>3, <1>4, <1>5, <1>8 DEF HubOf
  <1>9. CASE attempt[i].stage = "relayed" /\ stage = "attached"
    BY <1>2, <1>3, <1>4, <1>5, <1>9 DEF HubOf
  <1> QED BY <1>6, <1>7, <1>8, <1>9

LEMMA FallsBackKeeps ==
    ASSUME MoshInv, NEW i \in Id, FallsBack(i)
    PROVE  MoshInv'
  <1> DEFINE wanted == ~attempt[i].gone /\ attempt[i].gen = gen /\ ~hubDown
             stage == IF wanted /\ attempt[i].cleaned THEN "relayed" ELSE "refused"
             own == [attempt EXCEPT ![i].stage = stage]
             verified == scope[attempt[i].gen].verified /\ ~wanted
  <1>1. /\ attempt[i].stage = "cleaning" /\ HubTypeOK /\ HubInv /\ HubOf(i)
        /\ UNCHANGED <<gen, cut, owned, cleaning, asks, wire, hubDown>> /\ NodeInv' /\ Stays
    BY NodeSame DEF FallsBack, MoshInv, HubInv
  <1>2. /\ attempt[i] \in Attempts /\ attempt[i].gen \in Gen /\ scope[attempt[i].gen] \in Scopes
        /\ attempt[i].cleaned \in BOOLEAN
    BY <1>1, AttemptFields
  <1>3. verified \in BOOLEAN
    BY <1>2 DEF Scopes
  <1>4. TrialOver(i, attempt[i].cleaned, own)
    BY DEF FallsBack
  <1>5. scope' = [scope EXCEPT ![attempt[i].gen].trial = WithoutTrial(i), ![attempt[i].gen].verified = verified]
    BY <1>2 DEF FallsBack, HubTypeOK, Scopes, MoshInv
  <1>6. stage \in {"relayed", "refused"} /\ (stage = "relayed" => attempt[i].cleaned)
    OBVIOUS
  <1> HIDE DEF wanted, stage, verified
  <1>7. /\ own \in [Id -> Attempts] /\ own[i] = [attempt[i] EXCEPT !.stage = stage] /\ own[i].stage = stage
        /\ \A j \in Id : j # i => own[j] = attempt[j]
    BY <1>1, <1>2, <1>6 DEF HubTypeOK, Attempts
  <1> HIDE DEF own
  <1>8. /\ attempt' \in [Id -> Attempts] /\ attempt'[i] = own[i]
        /\ \A j \in Id : j # i =>
             \/ attempt'[j] = attempt[j]
             \/ attempt[j].stage = "waiting" /\ attempt'[j] = [attempt[j] EXCEPT !.stage = "refused"]
    <2>1. own[i].stage # "waiting"
      BY <1>6, <1>7
    <2> QED BY <1>1, <1>4, <1>7, <2>1, TrialOverKeeps
  <1>9. scope' \in [Gen -> Scopes] /\ \A h \in Gen : scope'[h].unclean = scope[h].unclean
    BY <1>1, <1>2, <1>3, <1>5, WithoutTrialType, ScopeKeeps
  <1>10. HubOf(i)'
    BY <1>1, <1>6, <1>7, <1>8, <1>9, StageKeeps
  <1>11. HubInv'
    BY <1>1, <1>8, <1>9, <1>10, OneAttempt
  <1> QED BY <1>1, <1>8, <1>9, <1>11 DEF MoshInv, HubTypeOK

LEMMA RecleanedKeeps ==
    ASSUME MoshInv, NEW i \in Id, Recleaned(i)
    PROVE  MoshInv'
  <1> DEFINE clean == Of(i).unclean = {}
             wanted == ~attempt[i].gone /\ attempt[i].gen = gen /\ ~hubDown
             stage == IF clean /\ wanted THEN "relayed" ELSE "refused"
             own == [attempt EXCEPT ![i].stage = stage]
  <1>1. /\ attempt[i].stage = "reclean" /\ HubTypeOK /\ HubInv /\ HubOf(i)
        /\ UNCHANGED <<gen, cut, owned, cleaning, asks, wire, hubDown>> /\ NodeInv' /\ Stays
    BY NodeSame DEF Recleaned, MoshInv, HubInv
  <1>2. attempt[i] \in Attempts /\ attempt[i].gen \in Gen
    BY <1>1, AttemptFields
  <1>3. TrialOver(i, clean, own)
    BY DEF Recleaned
  <1>4. scope' = [scope EXCEPT ![attempt[i].gen].trial = WithoutTrial(i)]
    BY DEF Recleaned
  <1>5. stage \in {"relayed", "refused"}
    OBVIOUS
  <1> HIDE DEF wanted, stage, clean
  <1>6. /\ own \in [Id -> Attempts] /\ own[i] = [attempt[i] EXCEPT !.stage = stage] /\ own[i].stage = stage
        /\ \A j \in Id : j # i => own[j] = attempt[j]
    BY <1>1, <1>2, <1>5 DEF HubTypeOK, Attempts
  <1> HIDE DEF own
  <1>7. /\ attempt' \in [Id -> Attempts] /\ attempt'[i] = own[i]
        /\ \A j \in Id : j # i =>
             \/ attempt'[j] = attempt[j]
             \/ attempt[j].stage = "waiting" /\ attempt'[j] = [attempt[j] EXCEPT !.stage = "refused"]
    <2>1. own[i].stage # "waiting"
      BY <1>5, <1>6
    <2> QED BY <1>1, <1>3, <1>6, <2>1, TrialOverKeeps
  <1>8. scope' \in [Gen -> Scopes] /\ \A h \in Gen : scope'[h].unclean = scope[h].unclean
    BY <1>1, <1>2, <1>4, WithoutTrialType, TrialKeeps
  <1>9. HubOf(i)'
    <2>1. attempt[i].stage \in {"waiting", "reclean"} /\ stage \in {"prepare", "reclean", "relayed", "refused"}
      BY <1>1, <1>5
    <2>2. attempt'[i] = [attempt[i] EXCEPT !.stage = stage] /\ UNCHANGED <<owned, cleaning>>
      BY <1>1, <1>6, <1>7
    <2> QED BY <1>1, <1>8, <2>1, <2>2, StageKeeps
  <1>10. HubInv'
    BY <1>1, <1>7, <1>8, <1>9, OneAttempt
  <1> QED BY <1>1, <1>7, <1>8, <1>10 DEF MoshInv, HubTypeOK

LEMMA BridgedKeeps ==
    ASSUME MoshInv, NEW i \in Id, Bridged(i)
    PROVE  MoshInv'
  <1> DEFINE own == [attempt EXCEPT ![i].stage = "bridged"]
             verified == scope[attempt[i].gen].verified \/ attempt[i].gen = gen
  <1>1. /\ attempt[i].stage = "contact" /\ HubTypeOK /\ HubInv /\ HubOf(i)
        /\ UNCHANGED <<gen, cut, owned, cleaning, asks, wire, hubDown>> /\ NodeInv' /\ Stays
    BY NodeSame DEF Bridged, MoshInv, HubInv
  <1>2. attempt[i] \in Attempts /\ attempt[i].gen \in Gen /\ scope[attempt[i].gen] \in Scopes
    BY <1>1, AttemptFields
  <1>3. verified \in BOOLEAN
    BY <1>2 DEF Scopes
  <1>4. TrialOver(i, TRUE, own)
    BY DEF Bridged
  <1>5. scope' = [scope EXCEPT ![attempt[i].gen].trial = WithoutTrial(i), ![attempt[i].gen].verified = verified]
    BY <1>2 DEF Bridged, HubTypeOK, Scopes, MoshInv
  <1> HIDE DEF verified
  <1>6. /\ own \in [Id -> Attempts] /\ own[i] = [attempt[i] EXCEPT !.stage = "bridged"] /\ own[i].stage = "bridged"
        /\ \A j \in Id : j # i => own[j] = attempt[j]
    BY <1>1, <1>2 DEF HubTypeOK, Attempts
  <1> HIDE DEF own
  <1>7. /\ attempt' \in [Id -> Attempts] /\ attempt'[i] = own[i]
        /\ \A j \in Id : j # i =>
             \/ attempt'[j] = attempt[j]
             \/ attempt[j].stage = "waiting" /\ attempt'[j] = [attempt[j] EXCEPT !.stage = "refused"]
    BY <1>1, <1>4, <1>6, TrialOverKeeps
  <1>8. scope' \in [Gen -> Scopes] /\ \A h \in Gen : scope'[h].unclean = scope[h].unclean
    BY <1>1, <1>2, <1>3, <1>5, WithoutTrialType, ScopeKeeps
  <1>9. HubOf(i)'
    <2>1. attempt'[i] = [attempt[i] EXCEPT !.stage = "bridged"] /\ UNCHANGED <<owned, cleaning>>
      BY <1>1, <1>6, <1>7
    <2> QED BY <1>1, <1>8, <2>1, StageKeeps
  <1>10. HubInv'
    BY <1>1, <1>7, <1>8, <1>9, OneAttempt
  <1> QED BY <1>1, <1>7, <1>8, <1>10 DEF MoshInv, HubTypeOK

LEMMA ProceedsKeeps ==
    ASSUME MoshInv, NEW i \in Id, Proceeds(i)
    PROVE  MoshInv'
  <1>1. /\ attempt[i].stage = "waiting" /\ HubTypeOK /\ HubInv /\ HubOf(i) /\ gen \in Gen
        /\ UNCHANGED <<gen, cut, owned, asks, wire, hubDown>> /\ NodeInv' /\ Stays
    BY NodeSame DEF Proceeds, MoshInv, HubInv, HubTypeOK
  <1>2. attempt[i] \in Attempts /\ attempt[i].gen \in Gen
    BY <1>1, AttemptFields
  <1>3. PICK stage \in {"reclean", "relayed", "prepare"} : attempt' = [attempt EXCEPT ![i].stage = stage]
    BY DEF Proceeds
  <1>4. /\ attempt' \in [Id -> Attempts] /\ attempt'[i] = [attempt[i] EXCEPT !.stage = stage]
        /\ \A j \in Id : j # i => attempt'[j] = attempt[j]
    BY <1>1, <1>2, <1>3 DEF HubTypeOK, Attempts
  <1>5. scope' \in [Gen -> Scopes] /\ \A h \in Gen : scope'[h].unclean = scope[h].unclean
    <2>1. CASE scope' = scope
      BY <1>1, <2>1 DEF HubTypeOK
    <2>2. CASE scope' = [scope EXCEPT ![gen].trial = i]
      BY <1>1, <2>2, TrialKeeps
    <2> QED BY <2>1, <2>2 DEF Proceeds
  <1>6. /\ cleaning' \in [Id -> {"no", "local", "asked"}]
        /\ \A j \in Id : cleaning'[j] = cleaning[j] \/ (cleaning'[j] = "local" /\ j \in owned)
    <2>1. CASE cleaning' = cleaning
      BY <1>1, <2>1 DEF HubTypeOK
    <2>2. CASE cleaning' = [j \in Id |-> IF j \in Of(i).unclean /\ cleaning[j] = "no" THEN "local" ELSE cleaning[j]]
      <3>1. \A j \in Id : j \in Of(i).unclean => j \in owned
        BY <1>1, <1>2 DEF HubInv, HubOf, Of
      <3> QED BY <1>1, <2>2, <3>1 DEF HubTypeOK
    <2> QED BY <2>1, <2>2 DEF Proceeds
  <1>7. HubOf(i)'
    <2>1. i \notin owned
      BY <1>1 DEF HubOf
    <2>2. UNCHANGED owned /\ cleaning'[i] = cleaning[i]
      BY <1>1, <1>6, <2>1
    <2>3. /\ attempt'[i].stage = stage /\ attempt'[i].posted = attempt[i].posted
          /\ attempt'[i].local = attempt[i].local /\ attempt'[i].cleaned = attempt[i].cleaned
          /\ attempt'[i].gen = attempt[i].gen
      BY <1>2, <1>4 DEF Attempts
    <2>4. post[i] = "none" /\ post'[i] = post[i] /\ ~attempt[i].posted /\ attempt[i].local = "none" /\ ~attempt[i].cleaned
      BY <1>1 DEF HubOf, Stays
    <2> QED BY <1>1, <1>3, <1>5, <2>1, <2>2, <2>3, <2>4 DEF HubOf, Over
  <1>8. HubInv'
    BY <1>1, <1>4, <1>5, <1>6, <1>7, OneAttempt
  <1> QED BY <1>1, <1>4, <1>5, <1>6, <1>8 DEF MoshInv, HubTypeOK

(* Only the attempt i changes, of all that the hub keeps.                  *)
LEMMA OnlyAttempt ==
    ASSUME MoshInv, NEW i \in Id, NEW a \in Attempts, attempt' = [attempt EXCEPT ![i] = a], HubOf(i)',
           NodeInv', Stays, UNCHANGED <<scope, gen, cut, owned, cleaning, asks, wire, hubDown>>
    PROVE  MoshInv'
  <1>1. HubTypeOK /\ HubInv
    BY DEF MoshInv
  <1>2. attempt' \in [Id -> Attempts] /\ \A j \in Id : j # i => attempt'[j] = attempt[j]
    BY <1>1 DEF HubTypeOK
  <1>3. HubInv'
    BY <1>1, <1>2, OneAttempt
  <1> QED BY <1>1, <1>2, <1>3 DEF MoshInv, HubTypeOK

LEMMA OpensKeeps ==
    ASSUME MoshInv, NEW i \in Id, Opens(i)
    PROVE  MoshInv'
  <1> DEFINE a == [attempt[i] EXCEPT !.stage = "waiting", !.gen = gen]
  <1>1. /\ attempt[i].stage = "none" /\ HubOf(i) /\ gen \in Gen /\ NodeInv' /\ Stays /\ attempt[i] \in Attempts
        /\ UNCHANGED <<scope, gen, cut, owned, cleaning, asks, wire, hubDown>>
    BY NodeSame, AttemptFields DEF Opens, MoshInv, HubInv, HubTypeOK
  <1>2. attempt' = [attempt EXCEPT ![i] = a]
    BY <1>1 DEF Opens, MoshInv, HubTypeOK, Attempts
  <1>3. /\ a \in Attempts /\ a.stage = "waiting" /\ a.posted = attempt[i].posted /\ a.local = attempt[i].local
        /\ a.cleaned = attempt[i].cleaned
    BY <1>1 DEF Attempts
  <1>4. attempt'[i] = a
    BY <1>2 DEF MoshInv, HubTypeOK
  <1> HIDE DEF a
  <1>5. HubOf(i)'
    <2>1. post'[i] = "none"
      BY <1>1 DEF HubOf, Stays
    <2>2. /\ ~attempt[i].posted /\ attempt[i].local = "none" /\ ~attempt[i].cleaned
          /\ i \notin owned /\ cleaning[i] = "no" /\ \A g \in Gen : i \notin scope[g].unclean
      BY <1>1 DEF HubOf
    <2>3. ~a.posted /\ a.local = "none" /\ ~a.cleaned
      BY <1>3, <2>2
    <2> QED BY <1>1, <1>3, <1>4, <2>1, <2>2, <2>3 DEF HubOf
  <1> QED BY <1>1, <1>2, <1>3, <1>5, OnlyAttempt

LEMMA PreparedKeeps ==
    ASSUME MoshInv, NEW i \in Id, Prepared(i)
    PROVE  MoshInv'
  <1> DEFINE a == [attempt[i] EXCEPT !.stage = "posting", !.posted = TRUE]
  <1>1. /\ attempt[i].stage = "prepare" /\ HubOf(i) /\ attempt[i] \in Attempts /\ HubTypeOK /\ HubInv
        /\ UNCHANGED <<scope, gen, cut, owned, cleaning, asks, wire, hubDown>>
        /\ post' = [post EXCEPT ![i] = "sent"]
        /\ UNCHANGED <<phase, asking, cancelled, launch, alive, known, noted, finishing, line, place, panel,
                       shutting, settling, replies>>
    BY AttemptFields DEF Prepared, MoshInv, HubInv, procVars, lineVars
  <1>2. /\ post[i] = "none" /\ ~attempt[i].posted /\ attempt[i].local = "none" /\ ~attempt[i].cleaned
        /\ i \notin owned /\ cleaning[i] = "no"
    BY <1>1 DEF HubOf
  <1>3. NodeInv' /\ \A j \in Id : phase'[j] = phase[j] /\ (j # i => post'[j] = post[j])
    <2>1. NodeInv'
      BY <1>1, <1>2, PostSentKeeps DEF MoshInv
    <2>2. \A j \in Id : j # i => post'[j] = post[j]
      BY <1>1 DEF MoshInv, NodeInv, NodeTypeOK
    <2> QED BY <1>1, <2>1, <2>2
  <1>4. attempt' = [attempt EXCEPT ![i] = a]
    BY <1>1 DEF Prepared, HubTypeOK, Attempts
  <1>5. /\ a \in Attempts /\ a.stage = "posting" /\ a.posted = TRUE /\ a.local = attempt[i].local
        /\ a.cleaned = attempt[i].cleaned /\ a.gen = attempt[i].gen
    BY <1>1 DEF Attempts
  <1> HIDE DEF a
  <1>6. /\ attempt'[i] = a /\ attempt' \in [Id -> Attempts]
        /\ \A j \in Id : j # i => attempt'[j] = attempt[j]
    BY <1>1, <1>4, <1>5 DEF HubTypeOK
  <1>7. HubOf(i)'
    BY <1>1, <1>2, <1>5, <1>6 DEF HubOf
  <1>8. \A j \in Id : j # i => HubOf(j)'
    BY <1>1, <1>3, <1>6 DEF HubInv, HubOf, Over
  <1>9. HubInv'
    BY <1>7, <1>8 DEF HubInv
  <1> QED BY <1>1, <1>3, <1>6, <1>9 DEF MoshInv, HubTypeOK

LEMMA StartedKeeps ==
    ASSUME MoshInv, NEW i \in Id, Started(i)
    PROVE  MoshInv'
  <1> DEFINE a == [attempt[i] EXCEPT !.stage = "contact", !.local = "runs"]
  <1>1. /\ attempt[i].stage = "posting" /\ post[i] = "ok" /\ HubOf(i) /\ NodeInv' /\ Stays /\ attempt[i] \in Attempts
        /\ UNCHANGED <<scope, gen, cut, owned, cleaning, asks, wire, hubDown>>
    BY NodeSame, AttemptFields DEF Started, MoshInv, HubInv, HubTypeOK
  <1>2. attempt' = [attempt EXCEPT ![i] = a]
    BY <1>1 DEF Started, MoshInv, HubTypeOK, Attempts
  <1>3. /\ a \in Attempts /\ a.stage = "contact" /\ a.posted = attempt[i].posted /\ a.local = "runs"
        /\ a.cleaned = attempt[i].cleaned /\ a.gen = attempt[i].gen
    BY <1>1 DEF Attempts
  <1>4. attempt'[i] = a
    BY <1>2 DEF MoshInv, HubTypeOK
  <1> HIDE DEF a
  <1>5. HubOf(i)'
    <2>1. attempt[i].posted /\ ~attempt[i].cleaned /\ i \notin owned /\ cleaning[i] = "no"
      BY <1>1 DEF HubOf
    <2> QED BY <1>1, <1>3, <1>4, <2>1 DEF HubOf
  <1> QED BY <1>1, <1>2, <1>3, <1>5, OnlyAttempt

LEMMA LocalExitsKeeps ==
    ASSUME MoshInv, NEW i \in Id, LocalExits(i)
    PROVE  MoshInv'
  <1> DEFINE a == [attempt[i] EXCEPT !.local = "gone"]
  <1>1. /\ attempt[i].local = "runs" /\ HubOf(i) /\ NodeInv' /\ Stays /\ attempt[i] \in Attempts
        /\ UNCHANGED <<scope, gen, cut, owned, cleaning, asks, wire, hubDown>>
    BY NodeSame, AttemptFields DEF LocalExits, MoshInv, HubInv, HubTypeOK
  <1>2. attempt' = [attempt EXCEPT ![i] = a]
    BY <1>1 DEF LocalExits, MoshInv, HubTypeOK, Attempts
  <1>3. /\ a \in Attempts /\ a.stage = attempt[i].stage /\ a.posted = attempt[i].posted /\ a.local = "gone"
        /\ a.cleaned = attempt[i].cleaned /\ a.gen = attempt[i].gen
    BY <1>1 DEF Attempts
  <1>4. attempt'[i] = a
    BY <1>2 DEF MoshInv, HubTypeOK
  <1> HIDE DEF a
  <1>5. HubOf(i)'
    <2>1. attempt[i].posted /\ ~attempt[i].cleaned /\ attempt[i].stage \notin {"posting", "relayed", "attached"}
      BY <1>1 DEF HubOf
    <2>2. attempt[i].stage \notin {"none", "waiting", "prepare", "reclean"}
      BY <1>1 DEF HubOf
    <2> QED BY <1>1, <1>3, <1>4, <2>1, <2>2 DEF HubOf
  <1> QED BY <1>1, <1>2, <1>3, <1>5, OnlyAttempt

LEMMA LeavesRecleanKeeps ==
    ASSUME MoshInv, NEW i \in Id, LeavesReclean(i)
    PROVE  MoshInv'
  <1> DEFINE a == [attempt[i] EXCEPT !.gone = TRUE]
  <1>1. /\ HubOf(i) /\ NodeInv' /\ Stays /\ attempt[i] \in Attempts
        /\ UNCHANGED <<scope, gen, cut, owned, cleaning, asks, wire, hubDown>>
    BY NodeSame, AttemptFields DEF LeavesReclean, MoshInv, HubInv, HubTypeOK
  <1>2. attempt' = [attempt EXCEPT ![i] = a]
    BY <1>1 DEF LeavesReclean, MoshInv, HubTypeOK, Attempts
  <1>3. /\ a \in Attempts /\ a.stage = attempt[i].stage /\ a.posted = attempt[i].posted
        /\ a.local = attempt[i].local /\ a.cleaned = attempt[i].cleaned /\ a.gen = attempt[i].gen
    BY <1>1 DEF Attempts
  <1>4. attempt'[i] = a
    BY <1>2 DEF MoshInv, HubTypeOK
  <1> HIDE DEF a
  <1>5. HubOf(i)'
    <2>1. /\ Over(i) => Over(i)'
          /\ post[i] \in {"none", "never"} => post'[i] = post[i]
      BY <1>1 DEF Over, Stays
    <2> QED BY <1>1, <1>3, <1>4, <2>1 DEF HubOf
  <1> QED BY <1>1, <1>2, <1>3, <1>5, OnlyAttempt

(* Attempts that come up or are bridged are ended: from now on they are    *)
(* owned until that is confirmed.                                          *)
LEMMA FailKeeps ==
    ASSUME MoshInv, NEW S \in SUBSET Id, NEW gone \in BOOLEAN, Fail(S, gone),
           \A i \in S : attempt[i].stage \in ComingUp \cup {"bridged"},
           UNCHANGED nodeVars, UNCHANGED <<scope, asks, wire>>
    PROVE  /\ NodeInv' /\ HubInv' /\ scope' \in [Gen -> Scopes] /\ owned' \subseteq Id
           /\ attempt' \in [Id -> Attempts] /\ cleaning' \in [Id -> {"no", "local", "asked"}]
  <1>1. HubTypeOK /\ HubInv /\ NodeInv' /\ Stays
    BY NodeSame DEF MoshInv
  <1>2. \A i \in Id : attempt[i] \in Attempts
    BY <1>1 DEF HubTypeOK
  <1>3. ASSUME NEW i \in S
        PROVE  /\ [attempt[i] EXCEPT !.stage = "cleaning", !.gone = gone] \in Attempts
               /\ [attempt[i] EXCEPT !.stage = "cleaning", !.gone = gone].stage = "cleaning"
               /\ [attempt[i] EXCEPT !.stage = "cleaning", !.gone = gone].posted = attempt[i].posted
               /\ [attempt[i] EXCEPT !.stage = "cleaning", !.gone = gone].local = attempt[i].local
               /\ [attempt[i] EXCEPT !.stage = "cleaning", !.gone = gone].cleaned = attempt[i].cleaned
               /\ [attempt[i] EXCEPT !.stage = "cleaning", !.gone = gone].gen = attempt[i].gen
    BY <1>2 DEF Attempts
  <1>4. /\ attempt' \in [Id -> Attempts]
        /\ \A i \in Id : i \notin S => attempt'[i] = attempt[i]
        /\ \A i \in S : attempt'[i] = [attempt[i] EXCEPT !.stage = "cleaning", !.gone = gone]
    BY <1>2, <1>3 DEF Fail
  <1>5. /\ owned' = owned \cup S /\ owned' \subseteq Id
        /\ cleaning' \in [Id -> {"no", "local", "asked"}]
        /\ \A i \in Id : cleaning'[i] = IF i \in S THEN "local" ELSE cleaning[i]
    BY <1>1 DEF Fail, HubTypeOK
  <1>6. ASSUME NEW i \in S
        PROVE  HubOf(i)'
    <2>1. i \in Id /\ HubOf(i) /\ i \in owned' /\ cleaning'[i] = "local"
      BY <1>1, <1>5 DEF HubInv
    <2>2. ~attempt[i].cleaned /\ i \notin owned
      BY <2>1 DEF HubOf, ComingUp
    <2>3. post[i] \in {"none", "never"} => post'[i] = post[i]
      BY <1>1, <2>1 DEF Stays
    <2>4. /\ attempt'[i].stage = "cleaning" /\ attempt'[i].posted = attempt[i].posted
          /\ attempt'[i].local = attempt[i].local /\ attempt'[i].cleaned = attempt[i].cleaned
          /\ attempt'[i].gen = attempt[i].gen
      BY <1>3, <1>4
    <2> QED BY <2>1, <2>2, <2>3, <2>4 DEF HubOf
  <1>7. ASSUME NEW i \in Id, i \notin S
        PROVE  HubOf(i)'
    BY <1>1, <1>4, <1>5, <1>7, OtherKeeps DEF HubInv
  <1>8. HubInv'
    BY <1>6, <1>7 DEF HubInv
  <1> QED BY <1>1, <1>4, <1>5, <1>8 DEF HubTypeOK

LEMMA AttemptEnds ==
    ASSUME MoshInv, NEW i \in Id, AttemptFails(i) \/ Leaves(i)
    PROVE  MoshInv'
  <1>1. PICK gone \in BOOLEAN : Fail({i}, gone)
    BY DEF AttemptFails, Leaves
  <1>2. /\ {i} \in SUBSET Id /\ UNCHANGED nodeVars /\ UNCHANGED <<scope, gen, cut, asks, wire, hubDown>>
        /\ \A j \in {i} : attempt[j].stage \in ComingUp \cup {"bridged"}
    BY DEF AttemptFails, Leaves, ComingUp
  <1>3. /\ NodeInv' /\ HubInv' /\ scope' \in [Gen -> Scopes] /\ owned' \subseteq Id
        /\ attempt' \in [Id -> Attempts] /\ cleaning' \in [Id -> {"no", "local", "asked"}]
    BY <1>1, <1>2, FailKeeps
  <1> QED BY <1>2, <1>3 DEF MoshInv, HubTypeOK

LEMMA LinkEnds ==
    ASSUME MoshInv, LinkResets \/ HubCloses
    PROVE  MoshInv'
  <1>1. /\ Fail(Adopted, TRUE) /\ TRUE \in BOOLEAN /\ UNCHANGED nodeVars /\ UNCHANGED <<scope, asks, wire>>
        /\ Adopted \in SUBSET Id /\ \A j \in Adopted : attempt[j].stage \in ComingUp \cup {"bridged"}
    BY DEF LinkResets, HubCloses, Adopted
  <1>2. /\ NodeInv' /\ HubInv' /\ scope' \in [Gen -> Scopes] /\ owned' \subseteq Id
        /\ attempt' \in [Id -> Attempts] /\ cleaning' \in [Id -> {"no", "local", "asked"}]
    BY <1>1, FailKeeps
  <1>3. gen' \in Gen /\ cut' \in 0..MaxGen /\ hubDown' \in BOOLEAN
    <2>1. gen \in 1..MaxGen /\ cut \in 0..MaxGen /\ hubDown \in BOOLEAN /\ MaxGen \in Nat
      BY AsksAreNumbers DEF MoshInv, HubTypeOK, Gen
    <2>2. CASE LinkResets
      BY <2>1, <2>2 DEF LinkResets, Gen
    <2>3. CASE HubCloses
      BY <2>1, <2>3 DEF HubCloses, Gen
    <2> QED BY <2>2, <2>3
  <1> QED BY <1>1, <1>2, <1>3 DEF MoshInv, HubTypeOK

LEMMA NeverStartedKeeps ==
    ASSUME MoshInv, NEW i \in Id, NeverStarted(i)
    PROVE  MoshInv'
  <1> DEFINE a == [attempt[i] EXCEPT !.stage = "cleaning", !.posted = FALSE]
  <1>1. /\ attempt[i].stage = "posting" /\ post[i] = "never" /\ HubOf(i) /\ NodeInv' /\ Stays /\ attempt[i] \in Attempts
        /\ HubTypeOK /\ HubInv
        /\ cleaning' = [cleaning EXCEPT ![i] = "local"] /\ owned' = owned \cup {i}
        /\ UNCHANGED <<scope, gen, cut, asks, wire, hubDown>>
    BY NodeSame, AttemptFields DEF NeverStarted, MoshInv, HubInv, HubTypeOK
  <1>2. attempt' = [attempt EXCEPT ![i] = a]
    BY <1>1 DEF NeverStarted, HubTypeOK, Attempts
  <1>3. /\ a \in Attempts /\ a.stage = "cleaning" /\ a.posted = FALSE /\ a.local = attempt[i].local
        /\ a.cleaned = attempt[i].cleaned /\ a.gen = attempt[i].gen
    BY <1>1 DEF Attempts
  <1> HIDE DEF a
  <1>4. /\ attempt'[i] = a /\ attempt' \in [Id -> Attempts] /\ \A j \in Id : j # i => attempt'[j] = attempt[j]
        /\ cleaning'[i] = "local" /\ cleaning' \in [Id -> {"no", "local", "asked"}]
        /\ \A j \in Id : j # i => cleaning'[j] = cleaning[j] /\ (j \in owned' <=> j \in owned)
        /\ owned' \subseteq Id /\ i \in owned'
    BY <1>1, <1>2, <1>3 DEF HubTypeOK
  <1>5. HubOf(i)'
    <2>1. ~attempt[i].cleaned /\ i \notin owned /\ attempt[i].local = "none" /\ post'[i] = "never"
      BY <1>1 DEF HubOf, Stays
    <2> QED BY <1>1, <1>3, <1>4, <2>1 DEF HubOf
  <1>6. HubInv'
    BY <1>1, <1>4, <1>5, OneAttempt
  <1> QED BY <1>1, <1>4, <1>6 DEF MoshInv, HubTypeOK

LEMMA HubRetriesKeeps ==
    ASSUME MoshInv, NEW i \in Id, HubRetries(i)
    PROVE  MoshInv'
  <1>1. /\ i \in owned /\ HubTypeOK /\ HubInv /\ NodeInv' /\ Stays
        /\ cleaning' = [cleaning EXCEPT ![i] = "local"]
        /\ UNCHANGED <<attempt, scope, gen, cut, owned, asks, wire, hubDown>>
    BY NodeSame DEF HubRetries, MoshInv
  <1>2. /\ cleaning' \in [Id -> {"no", "local", "asked"}]
        /\ \A j \in Id : cleaning'[j] = cleaning[j] \/ (cleaning'[j] = "local" /\ j \in owned)
    BY <1>1 DEF HubTypeOK
  <1>3. HubInv'
    BY <1>1, <1>2, OtherKeeps DEF HubInv
  <1> QED BY <1>1, <1>2, <1>3 DEF MoshInv, HubTypeOK

LEMMA DeleteReachesKeeps ==
    ASSUME MoshInv, NEW m \in wire, DeleteReaches(m)
    PROVE  MoshInv'
  <1>1. /\ m.id \in Id /\ m.n \in 1..MaxAsk /\ HubTypeOK /\ HubInv /\ NodeInv
        /\ DeleteArrives(m.id, m.n) /\ wire' = wire \ {m}
        /\ UNCHANGED <<attempt, scope, gen, cut, owned, cleaning, asks, hubDown>>
    BY DEF DeleteReaches, MoshInv, HubTypeOK
  <1>2. NodeInv' /\ Stays
    <2>1. NodeInv'
      BY <1>1, DeleteKeeps
    <2>2. Stops(m.id, m.n) /\ post' = post
      BY <1>1 DEF DeleteArrives
    <2>3. Stays
      BY <1>1, <2>2, StopsStays
    <2> QED BY <2>1, <2>3
  <1>3. HubInv'
    BY <1>1, <1>2, OtherKeeps DEF HubInv
  <1> QED BY <1>1, <1>2, <1>3 DEF MoshInv, HubTypeOK

LEMMA PostClosesKeeps ==
    ASSUME MoshInv, NEW i \in Id, PostCloses(i)
    PROVE  MoshInv'
  <1>1. PostAbandoned(i) /\ UNCHANGED hubSide /\ NodeInv /\ HubTypeOK /\ HubInv
    BY DEF PostCloses, MoshInv
  <1>2. NodeInv' /\ Stays
    <2>1. Stops(i, 0) /\ post[i] = "handled" /\ post' = [post EXCEPT ![i] = "gone"]
      BY <1>1 DEF PostAbandoned
    <2> QED BY <1>1, <2>1, StopsStays, PostAbandonedKeeps
  <1> QED BY <1>1, <1>2, NodeStepsKeepHub DEF MoshInv

LEMMA RelayReachesKeeps ==
    ASSUME MoshInv, NEW i \in Id, RelayReaches(i)
    PROVE  MoshInv'
  <1> DEFINE a == [attempt[i] EXCEPT !.stage = "attached"]
             N == {PanelOf(i)}
  <1>1. /\ attempt[i].stage = "relayed" /\ HubOf(i) /\ NodeInv /\ HubTypeOK /\ HubInv /\ attempt[i] \in Attempts
        /\ line' = Append(line, PanelOf(i))
        /\ UNCHANGED <<phase, asking, post, cancelled, launch, alive, known, noted, finishing, place, panel,
                       shutting, settling, replies>>
        /\ UNCHANGED <<scope, gen, cut, owned, cleaning, asks, wire, hubDown>>
    BY AttemptFields DEF RelayReaches, MoshInv, HubInv, procVars
  <1>2. Stays
    BY <1>1 DEF Stays
  <1>3. NodeInv'
    <2>1. PanelOf(i) \in TurnJobs /\ PanelOf(i).kind = "panel" /\ line \in Seq(TurnJobs)
      <3>1. {} \in SUBSET (0..MaxAsk) /\ TRUE \in BOOLEAN
        OBVIOUS
      <3> QED BY <1>1, <3>1, JobsAreJobs DEF NodeInv, NodeTypeOK
    <2>2. LineFollows(line, line, 0, {})
      BY <2>1, FollowsItself
    <2>3. LineFollows(line', line, 0, N)
      BY <1>1, <2>1, <2>2, FollowsAppended
    <2>4. Welcome(N, 0)
      BY <2>1 DEF Welcome
    <2> HIDE DEF N
    <2>5. NodeTypeOK'
      BY <1>1, <2>3 DEF NodeInv, NodeTypeOK, LineFollows
    <2> QED BY <1>1, <2>3, <2>4, <2>5, NoReply, JobsMove
  <1>4. attempt' = [attempt EXCEPT ![i] = a]
    BY <1>1 DEF RelayReaches, HubTypeOK, Attempts
  <1>5. a \in Attempts
    BY <1>1 DEF Attempts
  <1>6. attempt'[i] = [attempt[i] EXCEPT !.stage = "attached"]
    BY <1>1, <1>4 DEF HubTypeOK
  <1> HIDE DEF a
  <1>7. HubOf(i)'
    <2>1. UNCHANGED <<owned, cleaning>> /\ \A h \in Gen : scope'[h].unclean = scope[h].unclean
      BY <1>1
    <2> QED BY <1>1, <1>2, <1>6, <2>1, StageKeeps
  <1> QED BY <1>1, <1>2, <1>3, <1>4, <1>5, <1>7, OnlyAttempt

LEMMA MoshStarts == MoshInit => MoshInv
  <1> SUFFICES ASSUME MoshInit PROVE MoshInv
    OBVIOUS
  <1>1. NodeInv
    BY NodeStarts DEF MoshInit
  <1>2. HubTypeOK
    <2>1. 1 \in Gen /\ 0 \in 0..MaxGen /\ 0 \in 0..MaxAsk
      BY AsksAreNumbers DEF Gen
    <2> QED BY <2>1 DEF MoshInit, HubTypeOK, Attempts, Scopes
  <1>3. HubInv
    BY DEF MoshInit, NodeInit, HubInv, HubOf
  <1> QED BY <1>1, <1>2, <1>3 DEF MoshInv

LEMMA MoshSteps == MoshInv /\ [MoshNext]_moshVars => MoshInv'
  <1> SUFFICES ASSUME MoshInv, [MoshNext]_moshVars PROVE MoshInv'
    OBVIOUS
  <1>1. NodeInv /\ HubTypeOK /\ HubInv
    BY DEF MoshInv
  <1>2. ASSUME NEW i \in Id, NodeContinues(i), UNCHANGED hubSide PROVE MoshInv'
    BY <1>1, <1>2, NodeContinuesKeeps, NodeStepsKeepHub DEF MoshInv
  <1>3. ASSUME NEW i \in Id, HubContinues(i) PROVE MoshInv'
    BY <1>3, ProceedsKeeps, RecleanedKeeps, FallsBackKeeps DEF HubContinues
  <1>4. ASSUME NodeEvent, UNCHANGED hubSide PROVE MoshInv'
    BY <1>1, <1>4, NodeEventKeeps, NodeStepsKeepHub DEF MoshInv
  <1>5. ASSUME NEW i \in Id,
               \/ Opens(i) \/ Prepared(i) \/ Started(i) \/ NeverStarted(i)
               \/ AttemptFails(i) \/ Bridged(i) \/ LocalExits(i) \/ Leaves(i) \/ LeavesReclean(i)
               \/ LocalStops(i) \/ DeleteAnswered(i) \/ HubRetries(i)
               \/ PostCloses(i) \/ RelayReaches(i)
        PROVE  MoshInv'
    BY <1>5, OpensKeeps, PreparedKeeps, StartedKeeps, NeverStartedKeeps, AttemptEnds, BridgedKeeps, LocalExitsKeeps,
       LeavesRecleanKeeps, LocalStopsKeeps, DeleteAnsweredKeeps, HubRetriesKeeps, PostClosesKeeps, RelayReachesKeeps
  <1>6. ASSUME NEW m \in wire, DeleteReaches(m) PROVE MoshInv'
    BY <1>6, DeleteReachesKeeps
  <1>7. ASSUME LinkResets \/ HubCloses PROVE MoshInv'
    BY <1>7, LinkEnds
  <1>8. CASE UNCHANGED moshVars
    <2>1. UNCHANGED nodeVars /\ UNCHANGED hubSide
      BY <1>8 DEF moshVars
    <2> QED BY <1>1, <2>1, NodeSame, NodeStepsKeepHub DEF MoshInv
  <1> QED BY <1>2, <1>3, <1>4, <1>5, <1>6, <1>7, <1>8 DEF MoshNext

-----------------------------------------------------------------------------
(* Theorems *)

(* At the node the turn, its line and the processes, and at the hub what   *)
(* is owned and what was confirmed, agree in every state.                  *)
THEOREM MoshInvariant == MoshSpec => []MoshInv
  <1> QED BY MoshStarts, MoshSteps, PTL DEF MoshSpec

(* Both ends keep their state in its type, however many sessions, DELETEs  *)
(* and pairings there are.                                                 *)
THEOREM MoshTypeCorrect == MoshSpec => []MoshTypeOK
  <1>1. MoshInv => MoshTypeOK
    BY DEF MoshInv, NodeInv, HubTypeOK, MoshTypeOK
  <1> QED BY <1>1, MoshInvariant, PTL

LEMMA OverIsGone ==
    ASSUME NodeInv, NEW i \in Id, Over(i), launch[i] # "late"
    PROVE  alive[i] = {}
  BY DEF NodeInv, Over, ProcsOK, PostOK

(* "clean" is never said too early: once the hub holds a session's end for *)
(* confirmed, none of its processes runs at the node, then or later, but   *)
(* for a mosh-server given up after its CONNECT.                           *)
THEOREM CleanIsGone == MoshSpec => []CleanIsGoneKnown
  <1>1. MoshInv => CleanIsGoneKnown
    BY OverIsGone DEF MoshInv, HubInv, HubOf, CleanIsGoneKnown
  <1> QED BY <1>1, MoshInvariant, PTL

(* The tmux session has at most one client: the turn ends every owner and  *)
(* waits for its answer before a start or the panel's own client goes on.  *)
THEOREM OneClientAPane == MoshSpec => []OneClientOnPane
  <1>1. ASSUME MoshInv
        PROVE  OneClientOnPane
    <2> DEFINE on == {i \in Id : "client" \in alive[i] /\ launch[i] # "late"}
    <2>1. \A i, j \in on : i = j
      BY <1>1 DEF MoshInv, NodeInv, PaneOK, OnPane
    <2>2. panel => on = {}
      BY <1>1 DEF MoshInv, NodeInv, PaneOK, OnPane
    <2>3. Cardinality(on) <= 1
      <3>1. CASE on = {}
        BY <3>1, FS_EmptySet
      <3>2. CASE on # {}
        <4>1. PICK i : i \in on
          BY <3>2
        <4> HIDE DEF on
        <4>2. on = {i}
          BY <2>1, <4>1
        <4>3. Cardinality(on) = 1
          BY <4>2, FS_Singleton
        <4> QED BY <4>3
      <3> QED BY <3>1, <3>2
    <2> QED BY <2>2, <2>3 DEF OneClientOnPane
  <1> QED BY <1>1, MoshInvariant, PTL

RelayedAlone ==
    \A i \in Id : attempt[i].stage \in {"relayed", "attached"} =>
      /\ attempt[i].local # "runs"
      /\ launch[i] # "late" => alive[i] = {}

(* A socket is relayed to the node's own terminal only when the session it *)
(* asked for, and its mosh-client, are gone.                               *)
THEOREM RelayedIsAlone == MoshSpec => []RelayedAlone
  <1>1. MoshInv => RelayedAlone
    BY OverIsGone DEF MoshInv, HubInv, HubOf, RelayedAlone
  <1> QED BY <1>1, MoshInvariant, PTL

(* Nothing the hub asked the node for is forgotten before it is confirmed  *)
(* to be gone, whatever ends, fails or is refused meanwhile.               *)
THEOREM OwnershipIsKept == MoshSpec => []OwnershipKept
  <1>1. MoshInv => OwnershipKept
    BY DEF MoshInv, HubInv, HubOf, OwnershipKept
  <1> QED BY <1>1, MoshInvariant, PTL
-----------------------------------------------------------------------------
(* Whoever waits at the node *)

HasStart(i) == \E k \in 1..Len(line) : line[k].kind = "start" /\ line[k].id = i

(* The end with which a start that failed is over. *)
HasEnd(i) == \E k \in 1..Len(line) : line[k].kind = "end" /\ line[k].id = i /\ line[k].settles

Settling(i) == \E s \in settling : s.id = i

(* A session that waits for the turn has its start or its end in line, and *)
(* a DELETE that waits for a start to be over has one that goes on and was *)
(* cancelled, or the end with which it will be over.                       *)
WaitOK ==
    /\ place = "clear" => line[1].kind # "end"
    /\ place = "run" => line[1].kind # "panel"
    /\ \A i \in Id : Starts(i) => phase[i] \in Launching \cup {"ending", "ended"}
    /\ \A i \in Id : phase[i] = "line" => HasStart(i) \/ HasEnd(i)
    /\ \A i \in Id : Settling(i) =>
         /\ phase[i] # "none"
         /\ phase[i] \in StartPhases => i \in cancelled
         /\ phase[i] \in StartPhases \/ Starts(i) \/ HasEnd(i)

(* The jobs behind the first d are there still, d places further on. *)
JobsLast(d) ==
    \A k \in 1..Len(line) : k > d =>
      /\ k - d \in 1..Len(line') /\ line'[k - d].kind = line[k].kind
      /\ line'[k - d].id = line[k].id /\ line'[k - d].settles = line[k].settles

LEMMA AllLast ==
    ASSUME NodeTypeOK, JobsLast(0), NEW i
    PROVE  (HasStart(i) => HasStart(i)') /\ (HasEnd(i) => HasEnd(i)')
  <1>1. \A k \in 1..Len(line) : k > 0 /\ k - 0 = k
    BY DEF NodeTypeOK
  <1> QED BY <1>1 DEF JobsLast, HasStart, HasEnd

(* All but the first, which the caller knows. *)
LEMMA OthersLast ==
    ASSUME NodeTypeOK, JobsLast(1), NEW i
    PROVE  /\ HasStart(i) => HasStart(i)' \/ (line # <<>> /\ line[1].kind = "start" /\ line[1].id = i)
           /\ HasEnd(i) => HasEnd(i)' \/ (line # <<>> /\ line[1].kind = "end" /\ line[1].id = i /\ line[1].settles)
  <1>1. \A k \in 1..Len(line) : (k > 1 \/ k = 1) /\ line # <<>>
    BY DEF NodeTypeOK
  <1>2. ASSUME HasStart(i), ~(line # <<>> /\ line[1].kind = "start" /\ line[1].id = i) PROVE HasStart(i)'
    BY <1>1, <1>2 DEF JobsLast, HasStart
  <1>3. ASSUME HasEnd(i), ~(line # <<>> /\ line[1].kind = "end" /\ line[1].id = i /\ line[1].settles) PROVE HasEnd(i)'
    BY <1>1, <1>3 DEF JobsLast, HasEnd
  <1> QED BY <1>2, <1>3

LEMMA SameLast == ASSUME NodeTypeOK, line' = line PROVE JobsLast(0)
  BY DEF JobsLast, NodeTypeOK

LEMMA FollowsLast ==
    ASSUME NodeTypeOK, NEW d \in {0, 1}, NEW N, LineFollows(line', line, d, N)
    PROVE  JobsLast(d)
  <1>1. Len(line) \in Nat /\ Len(line') \in Nat /\ Len(line') >= Len(line) - d
    BY DEF NodeTypeOK, LineFollows
  <1>2. \A k \in 1..Len(line) : k > d => k - d \in 1..Len(line') /\ (k - d) + d = k /\ k <= Len(line)
    BY <1>1
  <1>3. \A k \in 1..Len(line) : k > d =>
          /\ line'[k - d].kind = line[k].kind /\ line'[k - d].id = line[k].id
          /\ line'[k - d].settles = line[k].settles
    <2> TAKE k \in 1..Len(line)
    <2> HAVE k > d
    <2> DEFINE m == k - d
    <2>1. m \in 1..Len(line') /\ m + d = k /\ ~(m + d > Len(line))
      BY <1>1, <1>2
    <2> HIDE DEF m
    <2>2. line'[m].kind = line[k].kind /\ line'[m].id = line[k].id /\ line'[m].settles = line[k].settles
      BY <2>1 DEF LineFollows
    <2> QED BY <2>2 DEF m
  <1> QED BY <1>2, <1>3 DEF JobsLast

(* The first job goes, and the end of i, with which its start is over,     *)
(* comes behind.                                                           *)
LEMMA EndComes ==
    ASSUME NodeTypeOK, NEW q \in Seq(TurnJobs), NEW i \in Id, line' = Append(q, EndOf(i, {}, TRUE))
    PROVE  HasEnd(i)'
  <1> DEFINE j == EndOf(i, {}, TRUE)
  <1>1. j \in TurnJobs /\ j.kind = "end" /\ j.id = i /\ j.settles
    <2>1. {} \in SUBSET (0..MaxAsk) /\ TRUE \in BOOLEAN
      OBVIOUS
    <2> QED BY <2>1, JobsAreJobs DEF EndOf
  <1> HIDE DEF j
  <1>2. line' = Append(q, j) /\ Len(q) \in Nat
    BY DEF j
  <1>3. Len(line') = Len(q) + 1 /\ line'[Len(q) + 1] = j
    <2>1. j \in TurnJobs
      BY <1>1
    <2>2. Len(Append(q, j)) = Len(q) + 1 /\ Append(q, j)[Len(q) + 1] = j
      BY <2>1, AppendProperties
    <2> QED BY <1>2, <2>2
  <1>4. Len(q) + 1 \in 1..Len(line')
    BY <1>2, <1>3
  <1> QED BY <1>1, <1>3, <1>4 DEF HasEnd

LEMMA StopAllLast ==
    ASSUME NodeInv, StopAll
    PROVE  JobsLast(0) /\ (line # <<>> => line'[1].kind = line[1].kind /\ line'[1].id = line[1].id)
  <1>1. JobsLast(0)
    BY EndsBehind, FollowsLast DEF NodeInv
  <1>2. line # <<>> => 1 \in 1..Len(line) /\ 1 > 0 /\ 1 - 0 = 1
    BY DEF NodeInv, NodeTypeOK
  <1> QED BY <1>1, <1>2 DEF JobsLast

(* The first job stays where it is. *)
LEMMA WaitsOn ==
    ASSUME NodeInv, WaitOK, JobsLast(0), place' = place,
           line # <<>> => line'[1].kind = line[1].kind /\ line'[1].id = line[1].id,
           \A i \in Id :
             /\ phase'[i] = "line" => phase[i] = "line" \/ HasStart(i)' \/ HasEnd(i)'
             /\ phase[i] # "none" => phase'[i] # "none"
             /\ phase'[i] \in StartPhases => phase[i] \in StartPhases \cup {"none"}
             /\ phase[i] \in StartPhases /\ phase'[i] \notin StartPhases /\ Settling(i) => Starts(i)
             /\ Starts(i) => phase'[i] \in Launching \cup {"ending", "ended"}
             /\ i \in cancelled /\ phase'[i] \in StartPhases => i \in cancelled'
             /\ Settling(i)' => Settling(i) \/ (phase'[i] \in StartPhases /\ i \in cancelled')
    PROVE  WaitOK'
  <1>1. NodeTypeOK /\ (place # "entry" => line # <<>>)
    BY DEF NodeInv, LineOK
  <1>2. \A i \in Id : (HasStart(i) => HasStart(i)') /\ (HasEnd(i) => HasEnd(i)')
    BY <1>1, AllLast
  <1>3. \A i \in Id : Starts(i)' <=> Starts(i)
    BY <1>1 DEF Starts
  <1>4. (place' = "clear" => line'[1].kind # "end") /\ (place' = "run" => line'[1].kind # "panel")
    BY <1>1 DEF WaitOK
  <1>5. \A i \in Id : phase'[i] = "line" => HasStart(i)' \/ HasEnd(i)'
    BY <1>2 DEF WaitOK
  <1>6. ASSUME NEW i \in Id, Settling(i)'
        PROVE  /\ phase'[i] # "none"
               /\ phase'[i] \in StartPhases => i \in cancelled'
               /\ phase'[i] \in StartPhases \/ Starts(i)' \/ HasEnd(i)'
    <2>1. CASE Settling(i)
      BY <1>2, <1>3, <2>1 DEF WaitOK
    <2>2. CASE phase'[i] \in StartPhases /\ i \in cancelled'
      BY <2>2 DEF StartPhases
    <2> QED BY <1>6, <2>1, <2>2
  <1>7. \A i \in Id : Starts(i)' => phase'[i] \in Launching \cup {"ending", "ended"}
    BY <1>3
  <1> QED BY <1>4, <1>5, <1>6, <1>7 DEF WaitOK

(* The first job is over. *)
LEMMA WaitsBehind ==
    ASSUME NodeInv, WaitOK, JobsLast(1), line # <<>>, place' = "entry", cancelled' = cancelled,
           \A i \in Id :
             /\ phase'[i] # phase[i] => ~Settling(i)' /\ phase'[i] # "line"
             /\ Settling(i)' => Settling(i)
             /\ phase'[i] = "line" /\ line[1].id = i => line[1].kind = "panel" \/ HasEnd(i)'
             /\ Settling(i)' /\ line[1].id = i => line[1].kind = "panel" \/ HasEnd(i)'
                                                  \/ (line[1].kind = "end" /\ ~line[1].settles)
    PROVE  WaitOK'
  <1>1. NodeTypeOK
    BY DEF NodeInv
  <1>2. ASSUME NEW i \in Id, phase'[i] = "line" PROVE HasStart(i)' \/ HasEnd(i)'
    <2>1. HasStart(i) \/ HasEnd(i)
      BY <1>2 DEF WaitOK
    <2> QED BY <1>1, <1>2, <2>1, OthersLast
  <1>3. ASSUME NEW i \in Id, Settling(i)'
        PROVE  /\ phase'[i] # "none"
               /\ phase'[i] \in StartPhases => i \in cancelled'
               /\ phase'[i] \in StartPhases \/ HasEnd(i)'
    <2>1. Settling(i) /\ phase'[i] = phase[i]
      BY <1>3
    <2>2. HasEnd(i) => HasEnd(i)'
      <3>1. HasEnd(i) => HasEnd(i)' \/ (line[1].kind = "end" /\ line[1].id = i /\ line[1].settles)
        BY <1>1, OthersLast
      <3> QED BY <1>3, <3>1
    <2>3. Starts(i) => HasEnd(i)'
      BY <1>3 DEF Starts
    <2> QED BY <2>1, <2>2, <2>3 DEF WaitOK
  <1>4. \A i \in Id : ~Starts(i)'
    BY DEF Starts
  <1> QED BY <1>2, <1>3, <1>4 DEF WaitOK

(* A start that failed: the end with which it is over comes behind. *)
LEMMA RefusedWaits ==
    ASSUME NodeInv, WaitOK, NEW i \in Id, line # <<>>, line[1].kind = "start", line[1].id = i,
           GivenUp(Tail(line), i, "error"), place' = "entry", UNCHANGED <<phase, cancelled, settling>>
    PROVE  WaitOK'
  <1>1. NodeTypeOK /\ Tail(line) \in Seq(TurnJobs)
    BY HeadTailProperties DEF NodeInv, NodeTypeOK
  <1>2. line' = Append(Tail(line), EndOf(i, {}, TRUE)) /\ HasEnd(i)'
    BY <1>1, EndComes DEF GivenUp
  <1>3. JobsLast(1)
    <2>1. LineFollows(line', line, 1, {EndOf(i, {}, TRUE)})
      BY <1>2, EndBehind DEF NodeInv
    <2> QED BY <1>1, <2>1, FollowsLast
  <1>4. \A j \in Id : Settling(j)' <=> Settling(j)
    BY DEF Settling
  <1> QED BY <1>2, <1>3, <1>4, WaitsBehind

LEMMA ClearWaits ==
    ASSUME NodeInv, WaitOK, NEW i \in Id, StartClear(i)
    PROVE  WaitOK'
  <1>1. /\ line # <<>> /\ place = "clear" /\ line[1].kind = "start" /\ line[1].id = i
        /\ NodeTypeOK /\ 1 \in 1..Len(line) /\ UNCHANGED <<cancelled, settling>>
    BY HeadIsFirst DEF NodeInv, First, StartClear
  <1>2. CASE ~(ClearedNow /\ i \notin cancelled)
    BY <1>1, <1>2, RefusedWaits DEF StartClear
  <1>3. CASE ClearedNow /\ i \notin cancelled
    <2>1. phase' = [phase EXCEPT ![i] = "spawn"] /\ place' = "run" /\ line' = line
      BY <1>3 DEF StartClear
    <2>2. phase'[i] = "spawn" /\ \A j \in Id : j # i => phase'[j] = phase[j]
      BY <1>1, <2>1 DEF NodeTypeOK
    <2>3. JobsLast(0) /\ \A j \in Id : (HasStart(j) => HasStart(j)') /\ (HasEnd(j) => HasEnd(j)')
      BY <1>1, <2>1, SameLast, AllLast
    <2>4. phase[i] = "line"
      BY <1>1 DEF NodeInv, LineOK, Acts, Fits
    <2>5. \A j \in Id : /\ Starts(j)' <=> j = i
                        /\ ~Starts(j) /\ (Settling(j)' <=> Settling(j))
      BY <1>1, <2>1 DEF Starts, Settling
    <2> QED BY <1>1, <1>3, <2>1, <2>2, <2>3, <2>4, <2>5 DEF WaitOK, Launching, StartPhases
  <1> QED BY <1>2, <1>3

LEMMA EntersWaits ==
    ASSUME NodeInv, WaitOK, NEW i \in Id, StartEnters(i) \/ PanelEnters(i)
    PROVE  WaitOK'
  <1>1. /\ line # <<>> /\ place = "entry" /\ line[1].kind \in {"start", "panel"} /\ line[1].id = i
        /\ NodeTypeOK /\ settling' = settling
    BY HeadIsFirst DEF NodeInv, First, StartEnters, PanelEnters
  <1>2. CASE StartEnters(i) /\ i \in cancelled
    <2>1. line[1].kind = "start"
      BY <1>1, <1>2, HeadIsFirst DEF StartEnters, First
    <2> QED BY <1>1, <1>2, <2>1, RefusedWaits DEF StartEnters
  <1>3. CASE ~(StartEnters(i) /\ i \in cancelled)
    <2>1. EndsOthers /\ place' = "clear" /\ line' = line
      BY <1>3 DEF StartEnters, PanelEnters
    <2>2. \A j \in Id : phase'[j] = (IF phase[j] = "active" THEN "ending" ELSE phase[j]) /\ cancelled \subseteq cancelled'
      BY <1>1, <2>1 DEF EndsOthers, Owned, NodeTypeOK
    <2>3. \A j \in Id : (HasStart(j) => HasStart(j)') /\ (HasEnd(j) => HasEnd(j)')
      BY <1>1, <2>1, SameLast, AllLast
    <2>4. \A j \in Id : ~Starts(j)' /\ ~Starts(j) /\ (Settling(j)' <=> Settling(j))
      BY <1>1, <2>1 DEF Starts, Settling
    <2> QED BY <1>1, <2>1, <2>2, <2>3, <2>4 DEF WaitOK, StartPhases
  <1> QED BY <1>2, <1>3

LEMMA EndEntersWaits ==
    ASSUME NodeInv, WaitOK, NEW i \in Id, EndEnters(i)
    PROVE  WaitOK'
  <1>1. /\ line # <<>> /\ place = "entry" /\ line[1].kind = "end" /\ line[1].id = i /\ line[1].result = "none"
        /\ NodeTypeOK /\ 1 \in 1..Len(line) /\ UNCHANGED <<cancelled, settling, line>> /\ place' = "run"
    BY HeadIsFirst DEF NodeInv, First, EndEnters
  <1>2. phase'[i] = "ending" /\ \A j \in Id : j # i => phase'[j] = phase[j]
    BY <1>1 DEF EndEnters, NodeTypeOK
  <1>3. \A j \in Id : (HasStart(j) => HasStart(j)') /\ (HasEnd(j) => HasEnd(j)')
    BY <1>1, SameLast, AllLast
  <1>4. \A j \in Id : ~Starts(j)' /\ ~Starts(j) /\ (Settling(j)' <=> Settling(j))
    BY <1>1 DEF Starts, Settling
  <1>5. Acts(1) /\ phase[i] \in {"line", "active", "ending"}
    BY <1>1 DEF NodeInv, LineOK, Acts, Fits
  <1>6. phase[i] = "line" => HasEnd(i)
    <2>1. ~HasStart(i)
      <3> SUFFICES ASSUME NEW k \in 1..Len(line), line[k].kind = "start", line[k].id = i PROVE FALSE
        BY DEF HasStart
      <3>1. Acts(k)
        BY <1>1 DEF Acts
      <3> QED BY <1>1, <1>5, <3>1 DEF NodeInv, LineOK
    <2> QED BY <2>1 DEF WaitOK
  <1>7. Settling(i) => HasEnd(i)
    BY <1>4, <1>5, <1>6 DEF WaitOK, StartPhases
  <1> QED BY <1>1, <1>2, <1>3, <1>4, <1>7 DEF WaitOK, StartPhases

LEMMA AbortedWaits ==
    ASSUME NodeInv, WaitOK, NEW i \in Id, StartAborted(i)
    PROVE  WaitOK'
  <1>1. line # <<>> /\ line[1].kind = "start" /\ line[1].id = i
    BY HeadIsFirst DEF NodeInv, First, StartAborted
  <1> QED BY <1>1, RefusedWaits DEF StartAborted

LEMMA PanelClearWaits ==
    ASSUME NodeInv, WaitOK, NEW i \in Id, PanelClear(i)
    PROVE  WaitOK'
  <1>1. /\ line # <<>> /\ line[1].kind = "panel" /\ line' = Tail(line) /\ place' = "entry" /\ NodeTypeOK
        /\ UNCHANGED <<phase, cancelled, settling>>
    BY HeadIsFirst DEF NodeInv, First, PanelClear
  <1>2. JobsLast(1)
    <2>1. LineFollows(line', line, 1, {})
      BY <1>1, FirstGoes DEF NodeInv
    <2> QED BY <1>1, <2>1, FollowsLast
  <1>3. \A j \in Id : Settling(j)' <=> Settling(j)
    BY <1>1 DEF Settling
  <1> QED BY <1>1, <1>2, <1>3, WaitsBehind

LEMMA AttachedWaits ==
    ASSUME NodeInv, WaitOK, NEW i \in Id, ClientAttached(i)
    PROVE  WaitOK'
  <1>1. /\ NodeTypeOK /\ Starts(i) /\ phase[i] = "attach" /\ line # <<>> /\ UNCHANGED <<cancelled, settling>>
    BY DEF ClientAttached, NodeInv, TurnOK, LineOK, Launching, Starts
  <1>2. \A j \in Id : Settling(j)' <=> Settling(j)
    BY <1>1 DEF Settling
  <1>3. CASE i \notin cancelled /\ phase' = [phase EXCEPT ![i] = "active"] /\ line' = Tail(line) /\ place' = "entry"
    <2>1. phase'[i] = "active" /\ \A j \in Id : j # i => phase'[j] = phase[j]
      BY <1>1, <1>3 DEF NodeTypeOK
    <2>2. JobsLast(1)
      <3>1. LineFollows(line', line, 1, {})
        BY <1>1, <1>3, FirstGoes DEF NodeInv
      <3> QED BY <1>1, <3>1, FollowsLast
    <2>3. ~Settling(i)
      BY <1>1, <1>3 DEF WaitOK, StartPhases
    <2> QED BY <1>1, <1>2, <1>3, <2>1, <2>2, <2>3, WaitsBehind DEF Starts
  <1>4. CASE Aborts(i) /\ UNCHANGED <<line, place>>
    <2>1. phase'[i] = "ending" /\ \A j \in Id : j # i => phase'[j] = phase[j]
      BY <1>1, <1>4 DEF NodeTypeOK, Aborts
    <2>2. JobsLast(0)
      BY <1>1, <1>4, SameLast
    <2> QED BY <1>1, <1>2, <1>4, <2>1, <2>2, WaitsOn DEF StartPhases, WaitOK
  <1> QED BY <1>3, <1>4 DEF ClientAttached

(* Spawned and identified: the start goes on, or its session ends in the   *)
(* turn that its start has.                                                *)
LEMMA LaunchWaits ==
    ASSUME NodeInv, WaitOK, NEW i \in Id, Spawned(i) \/ Identified(i)
    PROVE  WaitOK'
  <1>1. /\ NodeTypeOK /\ Starts(i) /\ phase[i] \in {"spawn", "identify"} /\ line # <<>>
        /\ UNCHANGED <<cancelled, settling, line, place>>
    BY DEF Spawned, Identified, NodeInv, TurnOK, LineOK, Launching, Starts, lineVars
  <1>2. phase'[i] \in {"identify", "attach", "ending"} /\ \A j \in Id : j # i => phase'[j] = phase[j]
    BY <1>1 DEF NodeTypeOK, Spawned, Identified, Aborts
  <1>3. JobsLast(0) /\ \A j \in Id : Settling(j)' <=> Settling(j)
    BY <1>1, SameLast DEF Settling
  <1> QED BY <1>1, <1>2, <1>3, WaitsOn DEF StartPhases, WaitOK, Launching

LEMMA EndDoneWaits ==
    ASSUME NodeInv, WaitOK, NEW i \in Id, EndDone(i)
    PROVE  WaitOK'
  <1> DEFINE late == IF Head(line).settles THEN {s.n : s \in {s \in settling : s.id = i}} ELSE {}
  <1>1. /\ line # <<>> /\ line[1].kind = "end" /\ line[1].id = i /\ Head(line) = line[1] /\ NodeTypeOK
        /\ place = "run" \/ line[1].result # "none"
        /\ place' = "entry" /\ UNCHANGED <<phase, cancelled>>
        /\ settling' = IF line[1].settles THEN {s \in settling : s.id # i} ELSE settling
    BY HeadIsFirst DEF EndDone, NodeInv
  <1>2. line' = IF late = {} \/ phase[i] = "ended" THEN Tail(line) ELSE Tail(WithEnd(line, i, late))
    BY DEF EndDone
  <1>3. JobsLast(1)
    <2>1. late \in SUBSET (0..MaxAsk)
      BY <1>1 DEF NodeTypeOK
    <2> HIDE DEF late
    <2>2. CASE line' = Tail(line)
      BY <1>1, <2>2, FirstGoes, FollowsLast DEF NodeInv
    <2>3. CASE line' = Tail(WithEnd(line, i, late))
      <3>1. LineFollows(WithEnd(line, i, late), line, 0, {EndOf(i, late, FALSE)})
        BY <1>1, <2>1, FollowsWithEnd
      <3>2. line \in Seq(TurnJobs)
        BY <1>1 DEF NodeTypeOK
      <3>3. LineFollows(line', line, 1, {EndOf(i, late, FALSE)})
        BY <1>1, <2>3, <3>1, <3>2, FollowsDropped
      <3> QED BY <1>1, <3>3, FollowsLast
    <2> QED BY <1>2, <2>2, <2>3
  <1>4. \A j \in Id : Settling(j)' => Settling(j) /\ (j = i => ~line[1].settles)
    BY <1>1 DEF Settling
  <1>5. phase[i] # "line"
    <2>1. ~Acts(1) /\ 1 \in 1..Len(line)
      BY <1>1, HeadIsFirst DEF Acts
    <2> QED BY <1>1, <2>1 DEF NodeInv, LineOK
  <1> QED BY <1>1, <1>3, <1>4, <1>5, WaitsBehind

LEMMA EndsWaits ==
    ASSUME NodeInv, WaitOK, NEW i \in Id, NEW clean \in BOOLEAN, Ends(i, clean), finishing[i] # "no",
           UNCHANGED <<place, settling>>
    PROVE  WaitOK'
  <1>1. phase[i] = "ending" /\ NodeTypeOK /\ LineOK /\ Len(line) \in Nat /\ (line # <<>> => 1 \in 1..Len(line))
    BY DEF NodeInv, TurnOK, NodeTypeOK
  <1>2. /\ Len(line') = Len(line)
        /\ \A k \in 1..Len(line) : /\ line'[k].kind = line[k].kind /\ line'[k].id = line[k].id
                                  /\ line'[k].settles = line[k].settles
    BY <1>1, LineAfterEnds
  <1>3. \A k \in 1..Len(line) : k - 0 = k
    BY <1>1
  <1>4. JobsLast(0)
    BY <1>2, <1>3 DEF JobsLast
  <1>5. /\ phase'[i] \in {"ending", "ended"} /\ \A j \in Id : j # i => phase'[j] = phase[j]
        /\ \A j \in Id : j # i /\ j \in cancelled => j \in cancelled'
    BY <1>1 DEF Ends, NodeTypeOK
  <1>6. \A j \in Id : Settling(j)' <=> Settling(j)
    BY DEF Settling
  <1> QED BY <1>1, <1>2, <1>4, <1>5, <1>6, WaitsOn DEF StartPhases, WaitOK

LEMMA TerminateWaits ==
    ASSUME NodeInv, WaitOK, NEW i \in Id, EndLooks(i) \/ EndSees(i)
    PROVE  WaitOK'
  <1>1. finishing[i] # "no" /\ UNCHANGED <<place, settling>> /\ NodeTypeOK
    BY DEF EndLooks, EndSees, NodeInv
  <1>2. ASSUME NEW clean \in BOOLEAN, Ends(i, clean) PROVE WaitOK'
    BY <1>1, <1>2, EndsWaits
  <1>3. CASE UNCHANGED <<phase, line, cancelled>>
    <2>1. JobsLast(0) /\ \A j \in Id : Settling(j)' <=> Settling(j)
      BY <1>1, <1>3, SameLast DEF Settling
    <2> QED BY <1>1, <1>3, <2>1, WaitsOn DEF WaitOK
  <1>4. CASE EndLooks(i)
    <2>1. CASE Ends(i, launch[i] \in {"none", "failed", "late"})
      <3>1. launch[i] \in {"none", "failed", "late"} \/ launch[i] \notin {"none", "failed", "late"}
        OBVIOUS
      <3>2. (launch[i] \in {"none", "failed", "late"}) \in BOOLEAN
        OBVIOUS
      <3> QED BY <1>2, <2>1, <3>2
    <2>2. CASE Ends(i, TRUE) \/ Ends(i, FALSE)
      BY <1>2, <2>2
    <2> QED BY <1>3, <1>4, <2>1, <2>2 DEF EndLooks
  <1>5. CASE EndSees(i)
    BY <1>2, <1>5 DEF EndSees
  <1> QED BY <1>4, <1>5

(* Somebody joins an end in line, or a new one comes behind. *)
LEMMA JoinLast ==
    ASSUME NodeTypeOK, NEW i \in Id, NEW n \in SUBSET (0..MaxAsk), line' = WithEnd(line, i, n)
    PROVE  JobsLast(0) /\ (line # <<>> => line'[1].kind = line[1].kind /\ line'[1].id = line[1].id)
  <1>1. JobsLast(0)
    BY FollowsWithEnd, FollowsLast
  <1>2. line # <<>> => 1 \in 1..Len(line) /\ 1 > 0 /\ 1 - 0 = 1
    BY DEF NodeTypeOK
  <1> QED BY <1>1, <1>2 DEF JobsLast

LEMMA StopsWaits ==
    ASSUME NodeInv, WaitOK, NEW i \in Id, NEW n \in 0..MaxAsk, Stops(i, n), place' = place
    PROVE  WaitOK'
  <1>1. NodeTypeOK
    BY DEF NodeInv
  <1>2. CASE phase[i] \in {"none", "ended"}
    <2>1. phase' = [phase EXCEPT ![i] = "ended"] /\ UNCHANGED <<cancelled, settling, line>>
      BY <1>2 DEF Stops
    <2>2. phase'[i] = "ended" /\ \A j \in Id : j # i => phase'[j] = phase[j]
      BY <1>1, <2>1 DEF NodeTypeOK
    <2>3. JobsLast(0) /\ \A j \in Id : Settling(j)' <=> Settling(j)
      BY <1>1, <2>1, SameLast DEF Settling
    <2> QED BY <1>2, <2>1, <2>2, <2>3, WaitsOn DEF WaitOK, StartPhases
  <1>3. CASE phase[i] \in StartPhases
    <2>1. /\ cancelled' = cancelled \cup {i} /\ UNCHANGED <<phase, line>>
          /\ settling' = settling \cup {[id |-> i, n |-> n]}
      BY <1>3 DEF Stops, StartPhases
    <2>2. JobsLast(0)
      BY <1>1, <2>1, SameLast
    <2>3. \A j \in Id : Settling(j)' => Settling(j) \/ j = i
      BY <2>1 DEF Settling
    <2> QED BY <1>3, <2>1, <2>2, <2>3, WaitsOn DEF WaitOK
  <1>4. CASE phase[i] \notin StartPhases \cup {"none", "ended"}
    <2>1. /\ cancelled' = cancelled \cup {i} /\ UNCHANGED <<phase, settling>> /\ line' = WithEnd(line, i, {n})
      BY <1>4 DEF Stops
    <2>2. JobsLast(0) /\ (line # <<>> => line'[1].kind = line[1].kind /\ line'[1].id = line[1].id)
      BY <1>1, <2>1, JoinLast
    <2>3. \A j \in Id : Settling(j)' <=> Settling(j)
      BY <2>1 DEF Settling
    <2> QED BY <2>1, <2>2, <2>3, WaitsOn DEF WaitOK
  <1> QED BY <1>2, <1>3, <1>4

LEMMA ReapWaits ==
    ASSUME NodeInv, WaitOK, NEW i \in Id, ReapGone(i) \/ ReapSilent(i)
    PROVE  WaitOK'
  <1>1. NodeTypeOK /\ phase[i] = "active" /\ place' = place /\ \A j \in Id : Settling(j)' <=> Settling(j)
    BY DEF NodeInv, ReapGone, ReapSilent, lineVars, Settling
  <1>2. CASE ReapGone(i)
    <2>1. /\ phase'[i] = "ended" /\ \A j \in Id : j # i => phase'[j] = phase[j]
          /\ \A j \in Id : j # i /\ j \in cancelled => j \in cancelled'
          /\ line' = line
      BY <1>1, <1>2 DEF ReapGone, NodeTypeOK, lineVars
    <2>2. JobsLast(0)
      BY <1>1, <2>1, SameLast
    <2> QED BY <1>1, <2>1, <2>2, WaitsOn DEF WaitOK, StartPhases
  <1>3. CASE ReapSilent(i)
    <2>1. {} \in SUBSET (0..MaxAsk) /\ line' = WithEnd(line, i, {}) /\ phase' = phase /\ cancelled \subseteq cancelled'
      BY <1>3 DEF ReapSilent
    <2>2. JobsLast(0) /\ (line # <<>> => line'[1].kind = line[1].kind /\ line'[1].id = line[1].id)
      BY <1>1, <2>1, JoinLast
    <2> QED BY <1>1, <2>1, <2>2, WaitsOn DEF WaitOK
  <1> QED BY <1>2, <1>3

LEMMA BeginsWaits ==
    ASSUME NodeInv, WaitOK, NEW i \in Id, Capable(i) \/ PaneResolved(i)
    PROVE  WaitOK'
  <1>1. /\ NodeTypeOK
        /\ UNCHANGED <<cancelled, settling, place>>
        /\ \A j \in Id : Settling(j)' <=> Settling(j)
    BY DEF NodeInv, Capable, PaneResolved, lineVars, Settling
  <1>2. CASE Capable(i)
    <2>1. line' = line /\ (phase' = phase \/ (phase[i] = "none" /\ phase' = [phase EXCEPT ![i] = "pane"]))
      BY <1>2 DEF Capable, lineVars
    <2>2. JobsLast(0)
      BY <1>1, <2>1, SameLast
    <2>3. CASE phase' = phase
      BY <1>1, <2>1, <2>2, <2>3, WaitsOn DEF WaitOK
    <2>4. CASE phase[i] = "none" /\ phase' = [phase EXCEPT ![i] = "pane"]
      <3>1. phase'[i] = "pane" /\ \A j \in Id : j # i => phase'[j] = phase[j]
        BY <1>1, <2>4 DEF NodeTypeOK
      <3>2. ~Starts(i)
        BY <2>4 DEF WaitOK, Launching
      <3>3. \A j \in Id : Starts(j) => phase'[j] \in Launching \cup {"ending", "ended"}
        BY <3>1, <3>2 DEF WaitOK
      <3>4. \A j \in Id : phase'[j] \in StartPhases => phase[j] \in StartPhases \cup {"none"}
        BY <2>4, <3>1
      <3>5. \A j \in Id : phase[j] \in StartPhases /\ phase'[j] \notin StartPhases /\ Settling(j) => Starts(j)
        BY <3>1 DEF StartPhases
      <3> QED BY <1>1, <2>1, <2>2, <2>4, <3>1, <3>3, <3>4, <3>5, WaitsOn DEF WaitOK
    <2> QED BY <2>1, <2>3, <2>4
  <1>3. CASE PaneResolved(i)
    <2>1. /\ phase[i] = "pane" /\ phase'[i] = "line" /\ \A j \in Id : j # i => phase'[j] = phase[j]
          /\ line' = Append(line, StartOf(i)) \/ line' = Append(line, EndOf(i, {}, TRUE))
      <3>1. phase[i] = "pane" /\ phase' = [phase EXCEPT ![i] = "line"]
        BY <1>3 DEF PaneResolved
      <3>2. line' = Append(line, StartOf(i)) \/ line' = Append(line, EndOf(i, {}, TRUE))
        BY <1>3 DEF PaneResolved, GivenUp
      <3> QED BY <1>1, <3>1, <3>2 DEF NodeTypeOK
    <2>2. PICK j \in TurnJobs : /\ line' = Append(line, j) /\ j.id = i
                                /\ j.kind = "start" \/ (j.kind = "end" /\ j.settles)
      <3>1. {} \in SUBSET (0..MaxAsk) /\ TRUE \in BOOLEAN
        OBVIOUS
      <3>2. /\ StartOf(i) \in TurnJobs /\ StartOf(i).kind = "start" /\ StartOf(i).id = i
        BY JobsAreJobs
      <3>3. EndOf(i, {}, TRUE) \in TurnJobs
        BY <3>1, JobsAreJobs
      <3>4. /\ EndOf(i, {}, TRUE).kind = "end" /\ EndOf(i, {}, TRUE).id = i
            /\ EndOf(i, {}, TRUE).settles
        BY DEF EndOf
      <3> QED BY <2>1, <3>2, <3>3, <3>4
    <2>3. /\ line \in Seq(TurnJobs) /\ Len(line) \in Nat
          /\ Len(line') = Len(line) + 1 /\ line'[Len(line) + 1] = j /\ line' \in Seq(TurnJobs)
          /\ \A k \in 1..Len(line) : line'[k] = line[k]
      <3>1. line \in Seq(TurnJobs) /\ j \in TurnJobs
        BY <1>1 DEF NodeTypeOK
      <3>2. /\ Append(line, j) \in Seq(TurnJobs) /\ Len(Append(line, j)) = Len(line) + 1
            /\ Append(line, j)[Len(line) + 1] = j /\ \A k \in 1..Len(line) : Append(line, j)[k] = line[k]
        BY <3>1, AppendProperties
      <3> QED BY <2>2, <3>1, <3>2
    <2>4. Len(line) + 1 \in 1..Len(line') /\ (line # <<>> => 1 \in 1..Len(line))
          /\ \A k \in 1..Len(line) : k - 0 = k /\ k \in 1..Len(line')
      BY <2>3
    <2>5. JobsLast(0) /\ (HasStart(i)' \/ HasEnd(i)')
      BY <2>2, <2>3, <2>4 DEF JobsLast, HasStart, HasEnd
    <2> QED BY <1>1, <2>1, <2>3, <2>4, <2>5, WaitsOn DEF WaitOK, StartPhases, Launching
  <1> QED BY <1>2, <1>3

LEMMA StopAllWaits ==
    ASSUME NodeInv, WaitOK, StopAll
    PROVE  WaitOK'
  <1>1. /\ JobsLast(0) /\ (line # <<>> => line'[1].kind = line[1].kind /\ line'[1].id = line[1].id)
        /\ UNCHANGED <<phase, place>>
        /\ cancelled' = cancelled \cup Held
        /\ settling' = settling \cup {[id |-> i, n |-> 0] : i \in Held \ Owned}
    BY StopAllLast DEF StopAll
  <1>2. \A i \in Id : Settling(i)' => Settling(i) \/ (phase[i] \in StartPhases /\ i \in cancelled')
    <2>1. \A i \in Held \ Owned : phase[i] \in StartPhases
      BY DEF NodeInv, NodeTypeOK, Held, Owned
    <2> QED BY <1>1, <2>1 DEF Settling
  <1> QED BY <1>1, <1>2, WaitsOn DEF WaitOK

LEMMA NothingMoves ==
    ASSUME NodeInv, WaitOK, UNCHANGED <<phase, place, line, cancelled, settling>>
    PROVE  WaitOK'
  <1>1. JobsLast(0) /\ \A j \in Id : Settling(j)' <=> Settling(j)
    BY SameLast DEF Settling, NodeInv
  <1> QED BY <1>1, WaitsOn DEF WaitOK

LEMMA RelayWaits ==
    ASSUME NodeInv, WaitOK, NEW i \in Id, RelayReaches(i)
    PROVE  WaitOK'
  <1>1. PanelOf(i) \in TurnJobs /\ line' = Append(line, PanelOf(i)) /\ UNCHANGED <<phase, place, cancelled, settling>>
    <2>1. {} \in SUBSET (0..MaxAsk) /\ TRUE \in BOOLEAN
      OBVIOUS
    <2> QED BY <2>1, JobsAreJobs DEF RelayReaches
  <1>2. line \in Seq(TurnJobs)
    BY DEF NodeInv, NodeTypeOK
  <1>3. /\ Len(line') = Len(line) + 1 /\ \A k \in 1..Len(line) : line'[k] = line[k]
    BY <1>1, <1>2, AppendProperties
  <1>4. /\ \A k \in 1..Len(line) : k - 0 = k /\ k \in 1..Len(line')
        /\ line # <<>> => 1 \in 1..Len(line)
    BY <1>2, <1>3
  <1>5. JobsLast(0) /\ \A j \in Id : Settling(j)' <=> Settling(j)
    BY <1>1, <1>3, <1>4 DEF JobsLast, Settling
  <1> QED BY <1>1, <1>3, <1>4, <1>5, WaitsOn DEF WaitOK

LEMMA NodeContinuesWaits ==
    ASSUME NodeInv, WaitOK, NEW i \in Id, NodeContinues(i)
    PROVE  WaitOK'
  BY ClearWaits, AbortedWaits, EndDoneWaits, PanelClearWaits DEF NodeContinues

LEMMA NodeEventWaits ==
    ASSUME NodeInv, WaitOK, NodeEvent
    PROVE  WaitOK'
  <1>1. ASSUME NEW i \in Id, PostArrives(i) \/ ProcessGoes(i) PROVE WaitOK'
    BY <1>1, NothingMoves DEF PostArrives, ProcessGoes, lineVars
  <1>2. CASE PanelLeaves
    BY <1>2, NothingMoves DEF PanelLeaves
  <1> QED BY <1>1, <1>2, BeginsWaits, EntersWaits, LaunchWaits, AttachedWaits, TerminateWaits, EndEntersWaits,
             ReapWaits, StopAllWaits DEF NodeEvent

LEMMA WaitSteps == MoshInv /\ WaitOK /\ [MoshNext]_moshVars => WaitOK'
  <1> SUFFICES ASSUME MoshInv, WaitOK, [MoshNext]_moshVars PROVE WaitOK'
    OBVIOUS
  <1>1. NodeInv /\ HubTypeOK
    BY DEF MoshInv
  <1>2. ASSUME UNCHANGED nodeVars \/ UNCHANGED nodeButReplies PROVE WaitOK'
    BY <1>1, <1>2, NothingMoves DEF nodeVars, nodeButReplies, lineVars
  <1>3. ASSUME NEW i \in Id, HubContinues(i) PROVE WaitOK'
    BY <1>2, <1>3 DEF HubContinues, Proceeds, Recleaned, FallsBack
  <1>4. ASSUME NEW i \in Id,
               \/ Opens(i) \/ Started(i) \/ NeverStarted(i)
               \/ AttemptFails(i) \/ Bridged(i) \/ LocalExits(i) \/ Leaves(i) \/ LeavesReclean(i)
               \/ LocalStops(i) \/ DeleteAnswered(i) \/ HubRetries(i)
        PROVE  WaitOK'
    BY <1>2, <1>4 DEF Opens, Started, NeverStarted, AttemptFails, Bridged, LocalExits, Leaves, LeavesReclean,
                      LocalStops, DeleteAnswered, HubRetries
  <1>5. ASSUME NEW i \in Id, Prepared(i) PROVE WaitOK'
    BY <1>1, <1>5, NothingMoves DEF Prepared, lineVars
  <1>6. ASSUME NEW i \in Id, PostCloses(i) PROVE WaitOK'
    <2>1. Stops(i, 0) /\ place' = place
      BY <1>6 DEF PostCloses, PostAbandoned
    <2>2. 0 \in 0..MaxAsk
      BY AsksAreNumbers
    <2> QED BY <1>1, <2>1, <2>2, StopsWaits
  <1>7. ASSUME NEW m \in wire, DeleteReaches(m) PROVE WaitOK'
    <2>1. Stops(m.id, m.n) /\ place' = place /\ m.id \in Id /\ m.n \in 0..MaxAsk
      BY <1>1, <1>7, AsksAreNumbers DEF DeleteReaches, DeleteArrives, HubTypeOK
    <2> QED BY <1>1, <2>1, StopsWaits
  <1>8. ASSUME LinkResets \/ HubCloses PROVE WaitOK'
    BY <1>2, <1>8 DEF LinkResets, HubCloses
  <1>9. CASE UNCHANGED moshVars
    BY <1>2, <1>9 DEF moshVars
  <1> QED BY <1>1, <1>3, <1>4, <1>5, <1>6, <1>7, <1>8, <1>9, NodeContinuesWaits, NodeEventWaits, RelayWaits
          DEF MoshNext

LEMMA WaitInvariant == MoshSpec => []WaitOK
  <1>1. MoshInit => WaitOK
    BY DEF MoshInit, NodeInit, WaitOK, Starts, Settling
  <1> QED BY <1>1, WaitSteps, MoshInvariant, PTL DEF MoshSpec

LEMMA LineIsDue ==
    ASSUME NodeInv, WaitOK, line # <<>>
    PROVE  \E i \in Id : ContinueDue(i) \/ ProgressDue(i)
  <1>1. /\ line[1] \in TurnJobs /\ line[1].id \in Id /\ line[1].kind \in {"start", "end", "panel"}
        /\ place \in {"entry", "clear", "run"}
    <2>1. line \in Seq(TurnJobs) /\ place \in {"entry", "clear", "run"}
      BY DEF NodeInv, NodeTypeOK
    <2>2. line[1] \in TurnJobs
      BY <2>1
    <2> QED BY <2>1, <2>2 DEF TurnJobs
  <1>2. CASE \E i \in Id : finishing[i] # "no"
    BY <1>2 DEF ProgressDue
  <1>3. CASE \A i \in Id : finishing[i] = "no"
    <2>1. CASE place = "entry"
      BY <1>1, <2>1 DEF ProgressDue, ContinueDue
    <2>2. CASE place = "clear"
      BY <1>1, <1>3, <2>2 DEF ContinueDue, WaitOK
    <2>3. CASE place = "run"
      <3>1. CASE line[1].kind = "start"
        <4>1. phase[line[1].id] \in Launching \cup {"ending", "ended"}
          BY <1>1, <2>3, <3>1 DEF WaitOK, Starts
        <4> QED BY <1>1, <1>3, <2>3, <3>1, <4>1 DEF ContinueDue, ProgressDue, Launching
      <3>2. CASE line[1].kind = "end"
        BY <1>1, <1>3, <2>3, <3>2 DEF ContinueDue
      <3> QED BY <1>1, <2>3, <3>1, <3>2 DEF WaitOK
    <2> QED BY <1>1, <2>1, <2>2, <2>3
  <1> QED BY <1>2, <1>3

(* The turn goes on in every state, whatever starts, ends and is given up: *)
(* what TurnNeverStuck says.                                               *)
THEOREM TurnIsNeverStuck == MoshSpec => []TurnNeverStuck
  <1>1. ASSUME MoshInv, WaitOK, NEW i \in Id, Busy(i)
        PROVE  \E j \in Id : ContinueDue(j) \/ ProgressDue(j)
    <2>1. NodeInv
      BY <1>1 DEF MoshInv
    <2>2. CASE line # <<>>
      BY <1>1, <2>1, <2>2, LineIsDue
    <2>3. CASE line = <<>>
      <3>1. ~HasStart(i) /\ ~HasEnd(i)
        BY <2>3 DEF HasStart, HasEnd
      <3>2. ~Starts(i)
        BY <2>1, <2>3 DEF Starts, NodeInv, LineOK
      <3>3. phase[i] \in StartPhases \/ finishing[i] # "no"
        BY <1>1, <2>3, <3>1, <3>2 DEF Busy, WaitOK, Settling
      <3>4. phase[i] \notin {"line", "spawn", "identify", "attach"}
        BY <1>1, <2>1, <3>1, <3>2 DEF WaitOK, NodeInv, TurnOK, Launching
      <3> QED BY <3>3, <3>4 DEF ProgressDue, StartPhases
    <2> QED BY <2>2, <2>3
  <1>2. MoshInv /\ WaitOK => TurnNeverStuck
    BY <1>1 DEF TurnNeverStuck
  <1> QED BY <1>2, WaitInvariant, MoshInvariant, PTL

(* Only an end has a result, and none that has the turn had one before.    *)
ResultsOK ==
    /\ \A k \in 1..Len(line) : line[k].result # "none" => line[k].kind = "end"
    /\ place # "entry" => line[1].result = "none"

LEMMA ResultsFollow ==
    ASSUME NodeInv, ResultsOK, NEW d \in {0, 1}, NEW N, LineFollows(line', line, d, N),
           \A j \in N : j.result # "none" => j.kind = "end",
           place' # "entry" => /\ line # <<>> /\ d = 0
                               /\ place # "entry" \/ line[1].kind # "end" \/ line[1].result = "none"
    PROVE  ResultsOK'
  <1>1. Len(line) \in Nat /\ line \in Seq(TurnJobs) /\ line' \in Seq(TurnJobs) /\ Len(line') \in Nat /\ Len(line') >= Len(line) - d
    BY DEF NodeInv, NodeTypeOK, LineFollows
  <1>2. ASSUME NEW k \in 1..Len(line') PROVE line'[k].result # "none" => line'[k].kind = "end"
    <2>1. CASE k + d <= Len(line)
      <3> DEFINE m == k + d
      <3>1. m \in 1..Len(line)
        BY <1>1, <2>1
      <3>2. line'[k].kind = line[m].kind /\ line'[k].result = line[m].result
        BY <1>1, <2>1 DEF LineFollows
      <3> HIDE DEF m
      <3> QED BY <3>1, <3>2 DEF ResultsOK
    <2>2. CASE ~(k + d <= Len(line))
      BY <2>2 DEF LineFollows
    <2> QED BY <2>1, <2>2
  <1>3. CASE place' # "entry"
    <2>1. 1 \in 1..Len(line') /\ 1 \in 1..Len(line) /\ 1 + d = 1 /\ ~(1 + d > Len(line))
      BY <1>1, <1>3
    <2>2. line'[1].result = line[1].result
      BY <2>1 DEF LineFollows
    <2> QED BY <1>2, <1>3, <2>1, <2>2 DEF ResultsOK
  <1> QED BY <1>2, <1>3 DEF ResultsOK

LEMMA ResultsStay ==
    ASSUME NodeInv, ResultsOK, line' = line,
           place' # "entry" => place # "entry" \/ (line # <<>> /\ (line[1].kind # "end" \/ line[1].result = "none"))
    PROVE  ResultsOK'
  <1>1. LineFollows(line', line, 0, {}) /\ (place # "entry" => line # <<>>)
    BY LineStays DEF NodeInv, LineOK
  <1> QED BY <1>1, ResultsFollow

LEMMA EndHasResult ==
    ASSUME NEW i \in Id, NEW n \in SUBSET (0..MaxAsk), NEW b \in BOOLEAN
    PROVE  EndOf(i, n, b).kind = "end" /\ StartOf(i).result = "none" /\ PanelOf(i).result = "none"
  BY DEF EndOf, StartOf, PanelOf

LEMMA GivenUpResults ==
    ASSUME NodeInv, ResultsOK, NEW i \in Id, line # <<>>, GivenUp(Tail(line), i, "error"), place' = "entry"
    PROVE  ResultsOK'
  <1>1. LineFollows(line', line, 1, {EndOf(i, {}, TRUE)})
    BY EndBehind DEF GivenUp
  <1> QED BY <1>1, ResultsFollow DEF EndOf

LEMMA ContinuesResults ==
    ASSUME NodeInv, ResultsOK, NEW i \in Id, NodeContinues(i)
    PROVE  ResultsOK'
  <1>1. line # <<>> /\ Head(line) = line[1]
    BY HeadIsFirst DEF NodeInv, NodeContinues, StartClear, StartAborted, EndDone, PanelClear, First
  <1>2. CASE StartClear(i)
    <2>1. place = "clear" /\ (line' = line \/ (GivenUp(Tail(line), i, "error") /\ place' = "entry"))
      BY <1>2 DEF StartClear, First
    <2> QED BY <1>1, <2>1, ResultsStay, GivenUpResults
  <1>3. CASE StartAborted(i)
    BY <1>1, <1>3, GivenUpResults DEF StartAborted
  <1>4. CASE PanelClear(i)
    <2>1. line' = Tail(line) /\ place' = "entry"
      BY <1>4 DEF PanelClear
    <2>2. LineFollows(line', line, 1, {})
      BY <1>1, <2>1, FirstGoes
    <2> QED BY <2>1, <2>2, ResultsFollow
  <1>5. CASE EndDone(i)
    <2> DEFINE late == IF Head(line).settles THEN {s.n : s \in {s \in settling : s.id = i}} ELSE {}
    <2>1. /\ place' = "entry"
          /\ line' = Tail(line) \/ line' = Tail(WithEnd(line, i, late))
      BY <1>5 DEF EndDone
    <2>2. late \in SUBSET (0..MaxAsk) /\ line \in Seq(TurnJobs)
      BY DEF NodeInv, NodeTypeOK
    <2> HIDE DEF late
    <2>3. CASE line' = Tail(line)
      BY <1>1, <2>1, <2>3, FirstGoes, ResultsFollow
    <2>4. CASE line' = Tail(WithEnd(line, i, late))
      <3>1. LineFollows(WithEnd(line, i, late), line, 0, {EndOf(i, late, FALSE)})
        BY <2>2, FollowsWithEnd DEF NodeInv
      <3>2. LineFollows(line', line, 1, {EndOf(i, late, FALSE)})
        BY <1>1, <2>2, <2>4, <3>1, FollowsDropped
      <3> QED BY <2>1, <3>2, ResultsFollow DEF EndOf
    <2> QED BY <2>1, <2>3, <2>4
  <1> QED BY <1>2, <1>3, <1>4, <1>5 DEF NodeContinues

LEMMA EndsResults ==
    ASSUME NodeInv, WaitOK, ResultsOK, NEW i \in Id, NEW clean \in BOOLEAN, Ends(i, clean), finishing[i] # "no",
           place' = place
    PROVE  ResultsOK'
  <1>1. phase[i] = "ending" /\ NodeTypeOK /\ LineOK /\ Len(line) \in Nat
    BY DEF NodeInv, TurnOK, NodeTypeOK
  <1>2. /\ Len(line') = Len(line)
        /\ \A k \in 1..Len(line) :
             /\ line'[k].kind = line[k].kind
             /\ line'[k].result = line[k].result \/ (line[k].kind = "end" /\ ~(k = 1 /\ place = "run"))
    BY <1>1, LineAfterEnds
  <1>3. place # "entry" => 1 \in 1..Len(line) /\ (place = "run" \/ line[1].kind # "end")
    BY <1>1 DEF LineOK, WaitOK, NodeTypeOK
  <1>4. ASSUME NEW k \in 1..Len(line') PROVE line'[k].result # "none" => line'[k].kind = "end"
    <2>1. k \in 1..Len(line)
      BY <1>2
    <2>2. line[k].result # "none" => line[k].kind = "end"
      BY <2>1 DEF ResultsOK
    <2>3. line'[k].kind = line[k].kind /\ (line'[k].result = line[k].result \/ line[k].kind = "end")
      BY <1>2, <2>1
    <2> QED BY <2>2, <2>3
  <1>5. place' # "entry" => line'[1].result = "none"
    BY <1>2, <1>3 DEF ResultsOK
  <1> QED BY <1>4, <1>5 DEF ResultsOK

(* A job comes behind. *)
LEMMA ComesResults ==
    ASSUME NodeInv, ResultsOK, place' = place, NEW i \in Id, NEW n \in SUBSET (0..MaxAsk),
           \/ line' = WithEnd(line, i, n) \/ line' = Append(line, StartOf(i))
           \/ line' = Append(line, PanelOf(i)) \/ line' = Append(line, EndOf(i, {}, TRUE))
    PROVE  ResultsOK'
  <1>1. line \in Seq(TurnJobs) /\ (place' # "entry" => line # <<>>)
    BY DEF NodeInv, NodeTypeOK, LineOK
  <1>2. /\ \A m \in SUBSET (0..MaxAsk), b \in BOOLEAN : EndOf(i, m, b) \in TurnJobs
        /\ StartOf(i) \in TurnJobs /\ PanelOf(i) \in TurnJobs
        /\ {} \in SUBSET (0..MaxAsk) /\ TRUE \in BOOLEAN
    <2>1. {} \in SUBSET (0..MaxAsk) /\ TRUE \in BOOLEAN
      OBVIOUS
    <2> QED BY <2>1, JobsAreJobs
  <1>3. ASSUME NEW j \in TurnJobs, line' = Append(line, j), j.result # "none" => j.kind = "end" PROVE ResultsOK'
    <2>1. LineFollows(line', line, 0, {j})
      <3>1. LineFollows(line, line, 0, {})
        BY <1>1, FollowsItself
      <3> QED BY <1>1, <1>3, <3>1, FollowsAppended
    <2> QED BY <1>1, <1>3, <2>1, ResultsFollow
  <1>4. CASE line' = WithEnd(line, i, n)
    <2>1. LineFollows(line', line, 0, {EndOf(i, n, FALSE)})
      BY <1>4, FollowsWithEnd DEF NodeInv
    <2> QED BY <1>1, <2>1, ResultsFollow DEF EndOf
  <1>5. StartOf(i).result = "none" /\ PanelOf(i).result = "none" /\ EndOf(i, {}, TRUE).kind = "end"
    BY DEF StartOf, PanelOf, EndOf
  <1>6. CASE line' = Append(line, StartOf(i))
    BY <1>2, <1>3, <1>5, <1>6
  <1>7. CASE line' = Append(line, PanelOf(i))
    BY <1>2, <1>3, <1>5, <1>7
  <1>8. CASE line' = Append(line, EndOf(i, {}, TRUE))
    BY <1>2, <1>3, <1>5, <1>8
  <1> QED BY <1>4, <1>6, <1>7, <1>8

LEMMA EventResults ==
    ASSUME NodeInv, WaitOK, ResultsOK, NodeEvent
    PROVE  ResultsOK'
  <1>1. ASSUME NEW i \in Id, PostArrives(i) \/ Capable(i) \/ Spawned(i) \/ Identified(i) \/ ReapGone(i) \/ ProcessGoes(i)
        PROVE  ResultsOK'
    <2>1. line' = line /\ place' = place
      BY <1>1 DEF PostArrives, Capable, Spawned, Identified, ReapGone, ProcessGoes, lineVars
    <2> QED BY <2>1, ResultsStay
  <1>2. ASSUME NEW i \in Id, PaneResolved(i) PROVE ResultsOK'
    <2>1. place' = place /\ (line' = Append(line, StartOf(i)) \/ line' = Append(line, EndOf(i, {}, TRUE)))
      BY <1>2 DEF PaneResolved, GivenUp
    <2>2. {} \in SUBSET (0..MaxAsk)
      OBVIOUS
    <2> QED BY <2>1, <2>2, ComesResults
  <1>3. ASSUME NEW i \in Id, StartEnters(i) \/ PanelEnters(i) PROVE ResultsOK'
    <2>1. line # <<>> /\ line[1].kind \in {"start", "panel"}
      BY <1>3, HeadIsFirst DEF NodeInv, StartEnters, PanelEnters, First
    <2>2. line' = line \/ (GivenUp(Tail(line), i, "error") /\ place' = "entry")
      BY <1>3 DEF StartEnters, PanelEnters, First
    <2> QED BY <2>1, <2>2, ResultsStay, GivenUpResults
  <1>4. ASSUME NEW i \in Id, ClientAttached(i) PROVE ResultsOK'
    <2>1. line # <<>>
      BY <1>4 DEF ClientAttached, NodeInv, TurnOK, LineOK, Launching, Starts
    <2>2. (line' = line /\ place' = place) \/ (line' = Tail(line) /\ place' = "entry")
      BY <1>4 DEF ClientAttached
    <2>3. CASE line' = Tail(line) /\ place' = "entry"
      <3>1. LineFollows(line', line, 1, {})
        BY <2>1, <2>3, FirstGoes
      <3> QED BY <2>3, <3>1, ResultsFollow
    <2> QED BY <2>2, <2>3, ResultsStay
  <1>5. ASSUME NEW i \in Id, EndLooks(i) \/ EndSees(i) PROVE ResultsOK'
    <2>1. finishing[i] # "no" /\ place' = place
      BY <1>5 DEF EndLooks, EndSees
    <2>2. ASSUME NEW clean \in BOOLEAN, Ends(i, clean) PROVE ResultsOK'
      BY <2>1, <2>2, EndsResults
    <2>3. (launch[i] \in {"none", "failed", "late"}) \in BOOLEAN /\ TRUE \in BOOLEAN /\ FALSE \in BOOLEAN
      OBVIOUS
    <2>4. CASE Ends(i, launch[i] \in {"none", "failed", "late"})
      BY <2>2, <2>3, <2>4
    <2>5. CASE Ends(i, TRUE) \/ Ends(i, FALSE)
      BY <2>2, <2>5
    <2>6. CASE line' = line
      BY <2>1, <2>6, ResultsStay
    <2> QED BY <1>5, <2>4, <2>5, <2>6 DEF EndLooks, EndSees
  <1>6. ASSUME NEW i \in Id, EndEnters(i) PROVE ResultsOK'
    <2>1. line # <<>> /\ line[1].result = "none" /\ line' = line
      BY <1>6, HeadIsFirst DEF NodeInv, EndEnters, First
    <2> QED BY <2>1, ResultsStay
  <1>7. ASSUME NEW i \in Id, ReapSilent(i) PROVE ResultsOK'
    <2>1. line' = WithEnd(line, i, {}) /\ place' = place /\ {} \in SUBSET (0..MaxAsk)
      BY <1>7 DEF ReapSilent
    <2> QED BY <2>1, ComesResults
  <1>8. CASE PanelLeaves
    BY <1>8, ResultsStay DEF PanelLeaves
  <1>9. CASE StopAll
    <2>1. LineFollows(line', line, 0, {EndOf(i, {}, FALSE) : i \in Owned}) /\ place' = place
      BY <1>9, EndsBehind DEF StopAll
    <2>2. \A j \in {EndOf(i, {}, FALSE) : i \in Owned} : j.kind = "end"
      BY DEF EndOf
    <2> QED BY <2>1, <2>2, ResultsFollow DEF NodeInv, LineOK
  <1> QED BY <1>1, <1>2, <1>3, <1>4, <1>5, <1>6, <1>7, <1>8, <1>9 DEF NodeEvent

LEMMA ResultSteps == MoshInv /\ WaitOK /\ ResultsOK /\ [MoshNext]_moshVars => ResultsOK'
  <1> SUFFICES ASSUME MoshInv, WaitOK, ResultsOK, [MoshNext]_moshVars PROVE ResultsOK'
    OBVIOUS
  <1>1. NodeInv /\ HubTypeOK
    BY DEF MoshInv
  <1>2. ASSUME line' = line /\ place' = place PROVE ResultsOK'
    BY <1>1, <1>2, ResultsStay
  <1>3. ASSUME UNCHANGED nodeVars \/ UNCHANGED nodeButReplies PROVE ResultsOK'
    BY <1>2, <1>3 DEF nodeVars, nodeButReplies, lineVars
  <1>4. ASSUME NEW i \in Id, HubContinues(i) PROVE ResultsOK'
    BY <1>3, <1>4 DEF HubContinues, Proceeds, Recleaned, FallsBack
  <1>5. ASSUME NEW i \in Id,
               \/ Opens(i) \/ Started(i) \/ NeverStarted(i)
               \/ AttemptFails(i) \/ Bridged(i) \/ LocalExits(i) \/ Leaves(i) \/ LeavesReclean(i)
               \/ LocalStops(i) \/ DeleteAnswered(i) \/ HubRetries(i)
        PROVE  ResultsOK'
    BY <1>3, <1>5 DEF Opens, Started, NeverStarted, AttemptFails, Bridged, LocalExits, Leaves, LeavesReclean,
                      LocalStops, DeleteAnswered, HubRetries
  <1>6. ASSUME NEW i \in Id, Prepared(i) PROVE ResultsOK'
    BY <1>2, <1>6 DEF Prepared, lineVars
  <1>7. ASSUME NEW i \in Id, NEW n \in 0..MaxAsk, Stops(i, n), place' = place PROVE ResultsOK'
    <2>1. {n} \in SUBSET (0..MaxAsk) /\ (line' = line \/ line' = WithEnd(line, i, {n}))
      BY <1>7 DEF Stops
    <2> QED BY <1>1, <1>2, <1>7, <2>1, ComesResults
  <1>8. ASSUME NEW i \in Id, PostCloses(i) PROVE ResultsOK'
    <2>1. Stops(i, 0) /\ place' = place
      BY <1>8 DEF PostCloses, PostAbandoned
    <2>2. 0 \in 0..MaxAsk
      BY AsksAreNumbers
    <2> QED BY <1>7, <2>1, <2>2
  <1>9. ASSUME NEW m \in wire, DeleteReaches(m) PROVE ResultsOK'
    <2>1. Stops(m.id, m.n) /\ place' = place /\ m.id \in Id /\ m.n \in 0..MaxAsk
      BY <1>1, <1>9, AsksAreNumbers DEF DeleteReaches, DeleteArrives, HubTypeOK
    <2> QED BY <1>7, <2>1
  <1>10. ASSUME NEW i \in Id, RelayReaches(i) PROVE ResultsOK'
    <2>1. line' = Append(line, PanelOf(i)) /\ place' = place /\ {} \in SUBSET (0..MaxAsk)
      BY <1>10 DEF RelayReaches
    <2> QED BY <1>1, <2>1, ComesResults
  <1>11. ASSUME LinkResets \/ HubCloses PROVE ResultsOK'
    BY <1>3, <1>11 DEF LinkResets, HubCloses
  <1>12. CASE UNCHANGED moshVars
    BY <1>3, <1>12 DEF moshVars
  <1> QED BY <1>1, <1>4, <1>5, <1>6, <1>8, <1>9, <1>10, <1>11, <1>12, ContinuesResults, EventResults DEF MoshNext

LEMMA ResultInvariant == MoshSpec => []ResultsOK
  <1>1. MoshInit => ResultsOK
    BY DEF MoshInit, NodeInit, ResultsOK
  <1> QED BY <1>1, ResultSteps, WaitInvariant, MoshInvariant, PTL DEF MoshSpec

(* Every other step waits while NodeContinuing holds, promise              *)
(* continuations before timers and events: it holds only while the job     *)
(* that has the turn does go on, so nothing waits for it in vain.          *)
THEOREM ContinuationsRun == MoshSpec => [](NodeContinuing => \E i \in Id : ContinueDue(i))
  <1>1. ASSUME MoshInv, WaitOK, ResultsOK, NodeContinuing
        PROVE  \E i \in Id : ContinueDue(i)
    <2>1. NodeInv /\ line # <<>> /\ Head(line) = line[1] /\ 1 \in 1..Len(line) /\ line \in Seq(TurnJobs)
      BY <1>1, HeadIsFirst DEF MoshInv, NodeInv, NodeTypeOK, NodeContinuing
    <2>2. /\ line[1].id \in Id /\ line[1].kind \in {"start", "end", "panel"} /\ place \in {"entry", "clear", "run"}
      <3>1. line[1] \in TurnJobs
        BY <2>1
      <3> QED BY <2>1, <3>1 DEF TurnJobs, NodeInv, NodeTypeOK
    <2>3. CASE line[1].result # "none"
      BY <1>1, <2>1, <2>2, <2>3 DEF ResultsOK, ContinueDue
    <2>4. CASE /\ place # "entry" /\ \A i \in Id : finishing[i] = "no"
               /\ line[1].kind = "start" /\ place = "run" => phase[line[1].id] \in {"ending", "ended"}
      BY <1>1, <2>1, <2>2, <2>4 DEF WaitOK, ContinueDue
    <2> QED BY <1>1, <2>1, <2>3, <2>4 DEF NodeContinuing
  <1> QED BY <1>1, ResultInvariant, WaitInvariant, MoshInvariant, PTL

-----------------------------------------------------------------------------
(* Whoever waits at the hub *)

TrialStages == {"prepare", "posting", "contact", "cleaning", "reclean"}

(* A scope's trial is an attempt on its own pairing that is not over, and  *)
(* only attempts on the current pairing come up.                           *)
TrialOK ==
    /\ \A g \in Gen, i \in Id : scope[g].trial = i => attempt[i].gen = g /\ attempt[i].stage \in TrialStages
    /\ \A i \in Id : attempt[i].stage \in ComingUp \cup {"bridged"} => attempt[i].gen = gen

(* No trial is new, and one that stays goes on. *)
LEMMA TrialsStay ==
    ASSUME TrialOK,
           \A g \in Gen, i \in Id : scope'[g].trial = i =>
             /\ scope[g].trial = i /\ attempt'[i].gen = attempt[i].gen
             /\ attempt'[i].stage = attempt[i].stage \/ attempt'[i].stage \in TrialStages,
           \A i \in Id : attempt'[i].stage \in ComingUp \cup {"bridged"} =>
             \/ attempt[i].stage \in ComingUp \cup {"bridged"} /\ attempt'[i].gen = attempt[i].gen /\ gen' = gen
             \/ attempt'[i].gen = gen'
    PROVE  TrialOK'
  BY DEF TrialOK, Gen

(* One attempt goes on, and no scope changes its trial. *)
LEMMA TrialGoesOn ==
    ASSUME TrialOK, NEW i \in Id, gen' = gen, \A g \in Gen : scope'[g].trial = scope[g].trial,
           \A j \in Id : j # i => attempt'[j] = attempt[j],
           attempt'[i].gen = attempt[i].gen,
           attempt'[i].stage # attempt[i].stage =>
             /\ attempt'[i].stage \in TrialStages \/ attempt[i].stage \notin TrialStages
             /\ attempt'[i].stage \in ComingUp \cup {"bridged"} => attempt[i].stage \in ComingUp
    PROVE  TrialOK'
  <1>1. \A g \in Gen : scope[g].trial = i => attempt[i].stage \in TrialStages
    BY DEF TrialOK
  <1> QED BY <1>1, TrialsStay

(* Attempts end, on the pairing that is over, too. *)
LEMMA TrialFails ==
    ASSUME HubTypeOK, TrialOK, NEW S \in SUBSET Id, NEW gone, Fail(S, gone), scope' = scope,
           gen' = gen \/ S = Adopted
    PROVE  TrialOK'
  <1>1. \A j \in Id : /\ attempt[j] \in Attempts
                      /\ j \in S => attempt'[j] = [attempt[j] EXCEPT !.stage = "cleaning", !.gone = gone]
                      /\ j \notin S => attempt'[j] = attempt[j]
    BY DEF HubTypeOK, Fail
  <1>2. \A j \in Id : /\ attempt'[j].gen = attempt[j].gen
                      /\ j \in S => attempt'[j].stage = "cleaning"
    BY <1>1 DEF Attempts
  <1>3. \A j \in Id : attempt'[j].stage \in ComingUp \cup {"bridged"} => j \notin S /\ attempt'[j] = attempt[j]
    BY <1>1, <1>2 DEF ComingUp
  <1>4. CASE gen' = gen
    BY <1>1, <1>2, <1>3, <1>4, TrialsStay DEF TrialStages
  <1>5. CASE S = Adopted
    <2>1. \A j \in Id : attempt'[j].stage \notin ComingUp \cup {"bridged"}
      BY <1>3, <1>5 DEF Adopted, TrialOK
    <2> QED BY <1>1, <1>2, <2>1, TrialsStay DEF TrialStages
  <1> QED BY <1>4, <1>5

(* A trial is over, or was none, and those who wait may be refused. *)
LEMMA TrialEnds ==
    ASSUME HubTypeOK, TrialOK, NEW i \in Id, NEW clean, NEW own \in [Id -> Attempts],
           \A j \in Id : j # i => own[j] = attempt[j],
           own[i].gen = attempt[i].gen, own[i].stage \in {"relayed", "refused", "bridged"},
           own[i].stage = "bridged" => attempt[i].stage \in ComingUp,
           TrialOver(i, clean, own), gen' = gen,
           \A g \in Gen : g # attempt[i].gen => scope'[g] = scope[g],
           scope'[attempt[i].gen].trial = WithoutTrial(i)
    PROVE  TrialOK'
  <1>1. own[i].stage # "waiting" /\ NoTrial \notin Id /\ attempt[i].gen \in Gen
    BY AsksAreNumbers, AttemptFields
  <1>2. /\ attempt'[i] = own[i]
        /\ \A j \in Id : j # i =>
             \/ attempt'[j] = attempt[j]
             \/ attempt[j].stage = "waiting" /\ attempt'[j] = [attempt[j] EXCEPT !.stage = "refused"]
    BY <1>1, TrialOverKeeps
  <1>3. \A j \in Id : j # i =>
          \/ attempt'[j] = attempt[j]
          \/ attempt[j].stage = "waiting" /\ attempt'[j].stage = "refused"
    <2>1. \A j \in Id : attempt[j] \in Attempts
      BY DEF HubTypeOK
    <2> QED BY <1>2, <2>1 DEF Attempts
  <1>4. \A g \in Gen, j \in Id : scope'[g].trial = j => scope[g].trial = j /\ j # i
    <2>1. scope'[attempt[i].gen].trial \notin {i} /\ \A j \in Id :
            scope'[attempt[i].gen].trial = j => scope[attempt[i].gen].trial = j
      BY <1>1 DEF WithoutTrial, Of
    <2>2. \A g \in Gen : g # attempt[i].gen => scope'[g].trial = scope[g].trial /\ scope[g].trial # i
      BY DEF TrialOK
    <2> QED BY <2>1, <2>2
  <1>5. \A g \in Gen, j \in Id : scope'[g].trial = j => scope[g].trial = j /\ attempt'[j] = attempt[j]
    BY <1>3, <1>4 DEF TrialOK, TrialStages
  <1>6. \A j \in Id : attempt'[j].stage \in ComingUp \cup {"bridged"} =>
          attempt[j].stage \in ComingUp \cup {"bridged"} /\ attempt'[j].gen = attempt[j].gen
    <2>1. ASSUME NEW j \in Id, j # i, attempt'[j].stage \in ComingUp \cup {"bridged"}
          PROVE  attempt'[j] = attempt[j]
      BY <1>3, <2>1 DEF ComingUp
    <2>2. attempt'[i].stage \in ComingUp \cup {"bridged"} => attempt[i].stage \in ComingUp
      BY <1>2 DEF ComingUp
    <2> QED BY <1>2, <2>1, <2>2
  <1> QED BY <1>5, <1>6, TrialsStay

LEMMA FallsBackTrial ==
    ASSUME HubTypeOK, TrialOK, NEW i \in Id, FallsBack(i)
    PROVE  TrialOK'
  <1> DEFINE wanted == ~attempt[i].gone /\ attempt[i].gen = gen /\ ~hubDown
             stage == IF wanted /\ attempt[i].cleaned THEN "relayed" ELSE "refused"
             own == [attempt EXCEPT ![i].stage = stage]
  <1>1. attempt[i] \in Attempts /\ attempt[i].gen \in Gen /\ gen' = gen /\ scope[attempt[i].gen] \in Scopes
    BY AttemptFields DEF FallsBack, HubTypeOK
  <1>2. TrialOver(i, attempt[i].cleaned, own)
    BY DEF FallsBack
  <1>3. /\ \A g \in Gen : g # attempt[i].gen => scope'[g] = scope[g]
        /\ scope'[attempt[i].gen].trial = WithoutTrial(i)
    BY <1>1 DEF FallsBack, HubTypeOK, Scopes
  <1>4. stage \in {"relayed", "refused"}
    OBVIOUS
  <1> HIDE DEF wanted, stage
  <1>5. /\ own \in [Id -> Attempts] /\ own[i].stage = stage /\ own[i].gen = attempt[i].gen
        /\ \A j \in Id : j # i => own[j] = attempt[j]
    BY <1>1, <1>4 DEF HubTypeOK, Attempts
  <1> HIDE DEF own
  <1> QED BY <1>1, <1>2, <1>3, <1>4, <1>5, TrialEnds

LEMMA RecleanedTrial ==
    ASSUME HubTypeOK, TrialOK, NEW i \in Id, Recleaned(i)
    PROVE  TrialOK'
  <1> DEFINE clean == Of(i).unclean = {}
             wanted == ~attempt[i].gone /\ attempt[i].gen = gen /\ ~hubDown
             stage == IF clean /\ wanted THEN "relayed" ELSE "refused"
             own == [attempt EXCEPT ![i].stage = stage]
  <1>1. attempt[i] \in Attempts /\ attempt[i].gen \in Gen /\ gen' = gen /\ scope[attempt[i].gen] \in Scopes
    BY AttemptFields DEF Recleaned, HubTypeOK
  <1>2. TrialOver(i, clean, own)
    BY DEF Recleaned
  <1>3. /\ \A g \in Gen : g # attempt[i].gen => scope'[g] = scope[g]
        /\ scope'[attempt[i].gen].trial = WithoutTrial(i)
    BY <1>1 DEF Recleaned, HubTypeOK, Scopes
  <1>4. stage \in {"relayed", "refused"}
    OBVIOUS
  <1> HIDE DEF wanted, stage, clean
  <1>5. /\ own \in [Id -> Attempts] /\ own[i].stage = stage /\ own[i].gen = attempt[i].gen
        /\ \A j \in Id : j # i => own[j] = attempt[j]
    BY <1>1, <1>4 DEF HubTypeOK, Attempts
  <1> HIDE DEF own
  <1> QED BY <1>1, <1>2, <1>3, <1>4, <1>5, TrialEnds

LEMMA BridgedTrial ==
    ASSUME HubTypeOK, TrialOK, NEW i \in Id, Bridged(i)
    PROVE  TrialOK'
  <1> DEFINE own == [attempt EXCEPT ![i].stage = "bridged"]
  <1>1. /\ attempt[i] \in Attempts /\ attempt[i].gen \in Gen /\ gen' = gen /\ scope[attempt[i].gen] \in Scopes
        /\ attempt[i].stage = "contact"
    BY AttemptFields DEF Bridged, HubTypeOK
  <1>2. TrialOver(i, TRUE, own)
    BY DEF Bridged
  <1>3. /\ \A g \in Gen : g # attempt[i].gen => scope'[g] = scope[g]
        /\ scope'[attempt[i].gen].trial = WithoutTrial(i)
    BY <1>1 DEF Bridged, HubTypeOK, Scopes
  <1>4. /\ own \in [Id -> Attempts] /\ own[i].stage = "bridged" /\ own[i].gen = attempt[i].gen
        /\ \A j \in Id : j # i => own[j] = attempt[j]
    BY <1>1 DEF HubTypeOK, Attempts
  <1> HIDE DEF own
  <1> QED BY <1>1, <1>2, <1>3, <1>4, TrialEnds DEF ComingUp

(* It becomes the trial only where there is none. *)
LEMMA ProceedsTrial ==
    ASSUME HubTypeOK, TrialOK, NEW i \in Id, Proceeds(i)
    PROVE  TrialOK'
  <1>1. /\ attempt[i].stage = "waiting" /\ attempt[i].gen = gen /\ gen' = gen /\ gen \in Gen
        /\ attempt[i] \in Attempts
    BY AttemptFields DEF Proceeds, HubTypeOK, TrialOK, ComingUp
  <1>2. PICK stage \in {"reclean", "relayed", "prepare"} :
          /\ attempt' = [attempt EXCEPT ![i].stage = stage]
          /\ scope' = scope \/ (stage # "relayed" /\ scope' = [scope EXCEPT ![gen].trial = i])
    BY DEF Proceeds
  <1>3. /\ attempt'[i].stage = stage /\ attempt'[i].gen = gen
        /\ \A j \in Id : j # i => attempt'[j] = attempt[j]
    BY <1>1, <1>2 DEF HubTypeOK, Attempts
  <1>4. \A g \in Gen, j \in Id : scope'[g].trial = j =>
          scope[g].trial = j \/ (g = gen /\ j = i /\ stage \in TrialStages)
    <2>1. CASE scope' = scope
      BY <2>1
    <2>2. CASE stage # "relayed" /\ scope' = [scope EXCEPT ![gen].trial = i]
      <3>1. /\ scope'[gen].trial = i
            /\ \A g \in Gen : g # gen => scope'[g] = scope[g]
        BY <1>1, <2>2 DEF HubTypeOK, Scopes
      <3> QED BY <1>2, <2>2, <3>1 DEF TrialStages
    <2> QED BY <1>2, <2>1, <2>2
  <1>5. \A g \in Gen : scope[g].trial # i
    BY <1>1 DEF TrialOK, TrialStages
  <1>6. \A g \in Gen, j \in Id : scope'[g].trial = j => attempt'[j].gen = g /\ attempt'[j].stage \in TrialStages
    <2> TAKE g \in Gen, j \in Id
    <2>1. CASE j = i
      BY <1>3, <1>4, <1>5, <2>1
    <2>2. CASE j # i
      BY <1>3, <1>4, <2>2 DEF TrialOK
    <2> QED BY <2>1, <2>2
  <1> QED BY <1>1, <1>3, <1>6 DEF TrialOK

LEMMA OneTrial ==
    ASSUME HubTypeOK, TrialOK, NEW i \in Id,
           \/ Prepared(i) \/ Started(i) \/ NeverStarted(i) \/ LocalExits(i) \/ LeavesReclean(i) \/ RelayReaches(i)
    PROVE  TrialOK'
  <1>1. attempt[i] \in Attempts /\ attempt \in [Id -> Attempts]
    BY DEF HubTypeOK
  <1>2. gen' = gen /\ scope' = scope
    BY DEF Prepared, Started, NeverStarted, LocalExits, LeavesReclean, RelayReaches
  <1>3. PICK a \in Attempts :
          /\ attempt' = [attempt EXCEPT ![i] = a] /\ a.gen = attempt[i].gen
          /\ \/ a.stage = attempt[i].stage
             \/ attempt[i].stage \in {"prepare", "posting"} /\ a.stage \in {"posting", "contact", "cleaning"}
             \/ attempt[i].stage = "relayed" /\ a.stage = "attached"
    <2>1. CASE Prepared(i)
      <3> DEFINE a == [attempt[i] EXCEPT !.stage = "posting", !.posted = TRUE]
      <3>1. a \in Attempts /\ a.gen = attempt[i].gen /\ a.stage = "posting" /\ attempt[i].stage = "prepare"
        BY <1>1, <2>1 DEF Attempts, Prepared
      <3>2. attempt' = [attempt EXCEPT ![i] = a]
        BY <1>1, <2>1 DEF Prepared
      <3> QED BY <3>1, <3>2
    <2>2. CASE Started(i)
      <3> DEFINE a == [attempt[i] EXCEPT !.stage = "contact", !.local = "runs"]
      <3>1. a \in Attempts /\ a.gen = attempt[i].gen /\ a.stage = "contact" /\ attempt[i].stage = "posting"
        BY <1>1, <2>2 DEF Attempts, Started
      <3>2. attempt' = [attempt EXCEPT ![i] = a]
        BY <1>1, <2>2 DEF Started
      <3> QED BY <3>1, <3>2
    <2>3. CASE NeverStarted(i)
      <3> DEFINE a == [attempt[i] EXCEPT !.stage = "cleaning", !.posted = FALSE]
      <3>1. a \in Attempts /\ a.gen = attempt[i].gen /\ a.stage = "cleaning" /\ attempt[i].stage = "posting"
        BY <1>1, <2>3 DEF Attempts, NeverStarted
      <3>2. attempt' = [attempt EXCEPT ![i] = a]
        BY <1>1, <2>3 DEF NeverStarted
      <3> QED BY <3>1, <3>2
    <2>4. CASE LocalExits(i)
      <3> DEFINE a == [attempt[i] EXCEPT !.local = "gone"]
      <3>1. a \in Attempts /\ a.gen = attempt[i].gen /\ a.stage = attempt[i].stage
        BY <1>1 DEF Attempts
      <3>2. attempt' = [attempt EXCEPT ![i] = a]
        BY <1>1, <2>4 DEF LocalExits
      <3> QED BY <3>1, <3>2
    <2>5. CASE LeavesReclean(i)
      <3> DEFINE a == [attempt[i] EXCEPT !.gone = TRUE]
      <3>1. a \in Attempts /\ a.gen = attempt[i].gen /\ a.stage = attempt[i].stage
        BY <1>1 DEF Attempts
      <3>2. attempt' = [attempt EXCEPT ![i] = a]
        BY <1>1, <2>5 DEF LeavesReclean
      <3> QED BY <3>1, <3>2
    <2>6. CASE RelayReaches(i)
      <3> DEFINE a == [attempt[i] EXCEPT !.stage = "attached"]
      <3>1. a \in Attempts /\ a.gen = attempt[i].gen /\ a.stage = "attached" /\ attempt[i].stage = "relayed"
        BY <1>1, <2>6 DEF Attempts, RelayReaches
      <3>2. attempt' = [attempt EXCEPT ![i] = a]
        BY <1>1, <2>6 DEF RelayReaches
      <3> QED BY <3>1, <3>2
    <2> QED BY <2>1, <2>2, <2>3, <2>4, <2>5, <2>6
  <1>4. attempt'[i] = a /\ \A j \in Id : j # i => attempt'[j] = attempt[j]
    BY <1>1, <1>3
  <1> QED BY <1>2, <1>3, <1>4, TrialGoesOn DEF TrialStages, ComingUp

(* An end that is over, or goes on: neither stage nor trial changes. *)
LEMMA CleanedTrial ==
    ASSUME HubTypeOK, TrialOK, NEW i \in Id, NEW clean, Cleaned(i, clean), gen' = gen
    PROVE  TrialOK'
  <1>1. attempt[i] \in Attempts /\ attempt[i].gen \in Gen /\ scope[attempt[i].gen] \in Scopes
    BY AttemptFields DEF HubTypeOK
  <1>2. /\ attempt'[i].gen = attempt[i].gen /\ attempt'[i].stage = attempt[i].stage
        /\ \A j \in Id : j # i => attempt'[j] = attempt[j]
    BY <1>1 DEF Cleaned, HubTypeOK, Attempts
  <1>3. \A g \in Gen : scope'[g].trial = scope[g].trial
    <2>1. \A g \in Gen : scope[g] \in Scopes
      BY DEF HubTypeOK
    <2> QED BY <1>1, <2>1 DEF Cleaned, HubTypeOK, Scopes
  <1> QED BY <1>2, <1>3, TrialGoesOn

LEMMA EndingTrial ==
    ASSUME HubTypeOK, TrialOK, NEW i \in Id, LocalStops(i) \/ DeleteAnswered(i) \/ HubRetries(i) \/ Opens(i)
    PROVE  TrialOK'
  <1>1. attempt[i] \in Attempts /\ attempt[i].gen \in Gen /\ gen' = gen
    BY AttemptFields DEF HubTypeOK, LocalStops, DeleteAnswered, HubRetries, Opens
  <1>2. ASSUME NEW clean, Cleaned(i, clean) PROVE TrialOK'
    BY <1>1, <1>2, CleanedTrial
  <1>3. CASE LocalStops(i)
    <2>1. CASE attempt' = [attempt EXCEPT ![i].local = IF @ = "runs" THEN "gone" ELSE @] /\ scope' = scope
      <3>1. /\ attempt'[i].gen = attempt[i].gen /\ attempt'[i].stage = attempt[i].stage
            /\ \A j \in Id : j # i => attempt'[j] = attempt[j]
        BY <1>1, <2>1 DEF HubTypeOK, Attempts
      <3> QED BY <1>1, <2>1, <3>1, TrialGoesOn
    <2> QED BY <1>2, <1>3, <2>1 DEF LocalStops
  <1>4. CASE DeleteAnswered(i)
    BY <1>2, <1>4 DEF DeleteAnswered
  <1>5. CASE HubRetries(i)
    BY <1>1, <1>5, TrialGoesOn DEF HubRetries
  <1>6. CASE Opens(i)
    <2>1. /\ attempt'[i].gen = gen /\ scope' = scope /\ attempt[i].stage = "none"
          /\ \A j \in Id : j # i => attempt'[j] = attempt[j]
      BY <1>1, <1>6 DEF Opens, HubTypeOK, Attempts
    <2>2. \A g \in Gen : scope[g].trial # i
      BY <2>1 DEF TrialOK, TrialStages
    <2> QED BY <1>1, <2>1, <2>2 DEF TrialOK
  <1> QED BY <1>3, <1>4, <1>5, <1>6

LEMMA TrialSteps == MoshInv /\ TrialOK /\ [MoshNext]_moshVars => TrialOK'
  <1> SUFFICES ASSUME MoshInv, TrialOK, [MoshNext]_moshVars PROVE TrialOK'
    OBVIOUS
  <1>1. HubTypeOK
    BY DEF MoshInv
  <1>2. ASSUME UNCHANGED hubSide PROVE TrialOK'
    <2>1. UNCHANGED <<attempt, scope, gen>>
      BY <1>2 DEF hubSide
    <2> QED BY <2>1, TrialsStay
  <1>3. ASSUME NEW i \in Id, HubContinues(i) PROVE TrialOK'
    BY <1>1, <1>3, ProceedsTrial, RecleanedTrial, FallsBackTrial DEF HubContinues
  <1>4. ASSUME NEW i \in Id, AttemptFails(i) \/ Leaves(i) PROVE TrialOK'
    <2>1. {i} \in SUBSET Id /\ gen' = gen /\ scope' = scope /\ (Fail({i}, FALSE) \/ Fail({i}, TRUE))
      BY <1>4 DEF AttemptFails, Leaves
    <2> QED BY <1>1, <2>1, TrialFails
  <1>5. ASSUME LinkResets \/ HubCloses PROVE TrialOK'
    <2>1. Adopted \in SUBSET Id /\ scope' = scope /\ Fail(Adopted, TRUE)
      BY <1>5 DEF LinkResets, HubCloses, Adopted
    <2> QED BY <1>1, <2>1, TrialFails
  <1>6. ASSUME NEW i \in Id,
               \/ Opens(i) \/ Prepared(i) \/ Started(i) \/ NeverStarted(i) \/ Bridged(i) \/ LocalExits(i)
               \/ LeavesReclean(i) \/ LocalStops(i) \/ DeleteAnswered(i) \/ HubRetries(i) \/ RelayReaches(i)
        PROVE  TrialOK'
    BY <1>1, <1>6, OneTrial, EndingTrial, BridgedTrial
  <1>7. ASSUME NEW i \in Id, PostCloses(i) PROVE TrialOK'
    BY <1>2, <1>7 DEF PostCloses
  <1>8. ASSUME NEW m \in wire, DeleteReaches(m) PROVE TrialOK'
    BY <1>8, TrialsStay DEF DeleteReaches
  <1>9. CASE UNCHANGED moshVars
    BY <1>2, <1>9 DEF moshVars
  <1> QED BY <1>2, <1>3, <1>4, <1>5, <1>6, <1>7, <1>8, <1>9 DEF MoshNext

LEMMA TrialInvariant == MoshSpec => []TrialOK
  <1>1. MoshInit => TrialOK
    BY AsksAreNumbers DEF MoshInit, TrialOK, ComingUp
  <1> QED BY <1>1, TrialSteps, MoshInvariant, PTL DEF MoshSpec

(* No socket waits for a trial or a clean-up that is over or given up: the *)
(* trial another waits for has itself a step due, however often pairings,  *)
(* sockets and the hub end meanwhile.  (SocketsSettle, without the time.)  *)
THEOREM SocketsGoOn == MoshSpec => []NobodyWaitsAlone
  <1>1. ASSUME MoshInv, TrialOK, NEW i \in Id, attempt[i].stage \in {"cleaning", "reclean", "prepare", "posting", "contact"}
        PROVE  HubDue(i) \/ \E j \in Of(i).unclean : cleaning[j] # "no"
    <2>1. Of(i).unclean \subseteq Id
      <3>1. scope[attempt[i].gen] \in Scopes
        BY <1>1, AttemptFields DEF MoshInv, HubTypeOK
      <3> QED BY <3>1 DEF Scopes, Of
    <2> QED BY <1>1, <2>1 DEF HubDue
  <1>2. ASSUME MoshInv, TrialOK, NEW i \in Id, attempt[i].stage = "waiting", Of(i).trial # NoTrial
        PROVE  /\ Of(i).trial \in Id /\ attempt[Of(i).trial].gen = attempt[i].gen
               /\ attempt[Of(i).trial].stage \in TrialStages
    <2>1. attempt[i].gen \in Gen /\ Of(i) = scope[attempt[i].gen] /\ scope[attempt[i].gen] \in Scopes
      BY <1>2, AttemptFields DEF MoshInv, HubTypeOK, Of
    <2>2. Of(i).trial \in Id
      BY <1>2, <2>1 DEF Scopes
    <2> QED BY <1>2, <2>1, <2>2 DEF TrialOK
  <1>3. MoshInv /\ TrialOK => NobodyWaitsAlone
    <2> SUFFICES ASSUME MoshInv, TrialOK, NEW i \in Id, attempt[i].stage \in ComingUp \cup {"cleaning", "reclean"}
                 PROVE  \/ HubDue(i)
                        \/ \E j \in Of(i).unclean : cleaning[j] # "no"
                        \/ /\ Of(i).trial \in Id /\ attempt[Of(i).trial].gen = attempt[i].gen
                           /\ HubDue(Of(i).trial)
      BY DEF NobodyWaitsAlone
    <2>1. CASE attempt[i].stage # "waiting"
      BY <1>1, <2>1 DEF ComingUp
    <2>2. CASE attempt[i].stage = "waiting" /\ Of(i).trial = NoTrial
      BY <2>2 DEF HubDue
    <2>3. CASE attempt[i].stage = "waiting" /\ Of(i).trial # NoTrial
      <3>1. /\ Of(i).trial \in Id /\ attempt[Of(i).trial].gen = attempt[i].gen
            /\ attempt[Of(i).trial].stage \in TrialStages
        BY <1>2, <2>3
      <3>2. Of(Of(i).trial) = Of(i)
        BY <3>1 DEF Of
      <3> QED BY <1>1, <3>1, <3>2 DEF TrialStages
    <2> QED BY <2>1, <2>2, <2>3
  <1> QED BY <1>3, TrialInvariant, MoshInvariant, PTL

-----------------------------------------------------------------------------
(* To the tmux session, mosh sessions and the panel's own client keep the  *)
(* promise ClientTurn keeps with its terminals.                            *)

(* {i} is the client of the session i, {} the panel's own. *)
Clients == {{i} : i \in Id} \cup {{}}

RunsOnPane(t) == (t = {} /\ panel) \/ \E i \in t : OnPane(i)

onPane == [t \in Clients |-> IF RunsOnPane(t) THEN "pane" ELSE "none"]

Tmux == INSTANCE SessionClients WITH Client <- Clients, Session <- {"pane"}, Nowhere <- "none", on <- onPane

(* One client starts or goes: the step is one of the promise. *)
LEMMA OneClientMoves ==
    ASSUME NodeInv, NodeInv', NEW t \in Clients,
           \A u \in Clients : u # t => (RunsOnPane(u)' <=> RunsOnPane(u))
    PROVE  [Tmux!Next]_onPane
  <1>1. /\ onPane = [u \in Clients |-> IF RunsOnPane(u) THEN "pane" ELSE "none"]
        /\ onPane' = [u \in Clients |-> IF RunsOnPane(u)' THEN "pane" ELSE "none"]
    BY DEF onPane, Clients
  <1>2. CASE RunsOnPane(t)' <=> RunsOnPane(t)
    <2>1. \A u \in Clients : RunsOnPane(u)' <=> RunsOnPane(u)
      BY <1>2
    <2> QED BY <1>1, <2>1
  <1>3. CASE RunsOnPane(t) /\ ~RunsOnPane(t)'
    <2>1. onPane[t] # "none" /\ onPane' = [onPane EXCEPT ![t] = "none"]
      BY <1>1, <1>3
    <2> QED BY <2>1 DEF Tmux!Next, Tmux!End
  <1>4. CASE RunsOnPane(t)' /\ ~RunsOnPane(t)
    <2>1. \A u \in Clients : u # t => ~RunsOnPane(u)'
      <3> SUFFICES ASSUME NEW u \in Clients, u # t, RunsOnPane(u)' PROVE FALSE
        OBVIOUS
      <3>1. \A i, j \in Id : OnPane(i)' => ~panel' /\ (OnPane(j)' => j = i)
        BY DEF NodeInv, PaneOK
      <3>2. CASE t = {} \/ u = {}
        BY <1>4, <3>1, <3>2 DEF Clients, RunsOnPane
      <3>3. CASE t # {} /\ u # {}
        <4>1. PICK i \in Id, j \in Id : t = {i} /\ u = {j}
          BY <3>3 DEF Clients
        <4> QED BY <1>4, <3>1, <4>1 DEF RunsOnPane
      <3> QED BY <3>2, <3>3
    <2>2. \A u \in Clients : onPane[u] # "pane"
      BY <1>1, <1>4, <2>1
    <2>3. onPane[t] = "none" /\ onPane' = [onPane EXCEPT ![t] = "pane"]
      BY <1>1, <1>4
    <2> QED BY <2>2, <2>3 DEF Tmux!Next, Tmux!Start
  <1> QED BY <1>2, <1>3, <1>4

LEMMA ProcessesRest ==
    ASSUME NodeInv, NodeInv', UNCHANGED <<alive, launch, panel>>
    PROVE  [Tmux!Next]_onPane
  <1>1. {} \in Clients /\ \A u \in Clients : RunsOnPane(u)' <=> RunsOnPane(u)
    BY DEF Clients, RunsOnPane, OnPane
  <1> QED BY <1>1, OneClientMoves

LEMMA PanelMoves ==
    ASSUME NodeInv, NodeInv', UNCHANGED <<alive, launch>>
    PROVE  [Tmux!Next]_onPane
  <1>1. {} \in Clients /\ \A u \in Clients : u # {} => (RunsOnPane(u)' <=> RunsOnPane(u))
    BY DEF Clients, RunsOnPane, OnPane
  <1> QED BY <1>1, OneClientMoves

LEMMA SessionMoves ==
    ASSUME NodeInv, NodeInv', NEW i \in Id, panel' = panel,
           \A j \in Id : j # i => (OnPane(j)' <=> OnPane(j))
    PROVE  [Tmux!Next]_onPane
  <1>1. {i} \in Clients /\ \A u \in Clients : u # {i} => (RunsOnPane(u)' <=> RunsOnPane(u))
    BY DEF Clients, RunsOnPane
  <1> QED BY <1>1, OneClientMoves

LEMMA NodeKeepsPromise ==
    ASSUME NodeInv, NodeInv', (\E i \in Id : NodeContinues(i)) \/ NodeEvent
    PROVE  [Tmux!Next]_onPane
  <1>1. ASSUME NEW i \in Id, StartClear(i) \/ Spawned(i) \/ ProcessGoes(i)
        PROVE  [Tmux!Next]_onPane
    <2>1. /\ panel' = panel
          /\ \A j \in Id : j # i => alive'[j] = alive[j] /\ launch'[j] = launch[j]
      BY <1>1 DEF StartClear, Spawned, ProcessGoes, NodeInv, NodeTypeOK, lineVars, procVars
    <2>2. \A j \in Id : j # i => (OnPane(j)' <=> OnPane(j))
      BY <2>1 DEF OnPane
    <2> QED BY <2>1, <2>2, SessionMoves
  <1>2. ASSUME NEW i \in Id, StartEnters(i) \/ PanelEnters(i) \/ PanelClear(i)
        PROVE  [Tmux!Next]_onPane
    BY <1>2, PanelMoves DEF StartEnters, PanelEnters, PanelClear, procVars
  <1>3. CASE PanelLeaves
    BY <1>3, PanelMoves DEF PanelLeaves, procVars
  <1>4. ASSUME NEW i \in Id,
               \/ StartAborted(i) \/ EndDone(i) \/ PostArrives(i) \/ Capable(i) \/ PaneResolved(i) \/ Identified(i)
               \/ ClientAttached(i) \/ EndLooks(i) \/ EndSees(i) \/ EndEnters(i) \/ ReapGone(i) \/ ReapSilent(i)
        PROVE  [Tmux!Next]_onPane
    BY <1>4, ProcessesRest DEF StartAborted, EndDone, PostArrives, Capable, PaneResolved, Identified, ClientAttached,
                               EndLooks, EndSees, EndEnters, ReapGone, ReapSilent, procVars, lineVars
  <1>5. CASE StopAll
    BY <1>5, ProcessesRest DEF StopAll, procVars
  <1> QED BY <1>1, <1>2, <1>3, <1>4, <1>5 DEF NodeContinues, NodeEvent

(* On the tmux session a client starts, a session's or the panel's own,    *)
(* only where none runs, so that no start detaches another.  (But for a    *)
(* mosh-server given up after its CONNECT.)                                *)
THEOREM NodeImplementsSessionClients == MoshSpec => Tmux!Spec
  <1>1. MoshInit => Tmux!Init
    BY DEF MoshInit, NodeInit, Tmux!Init, onPane, RunsOnPane, OnPane, Clients
  <1>2. ASSUME MoshInv, MoshInv', [MoshNext]_moshVars PROVE [Tmux!Next]_onPane
    <2>1. NodeInv /\ NodeInv'
      BY <1>2 DEF MoshInv
    <2>2. ASSUME UNCHANGED <<alive, launch, panel>> PROVE [Tmux!Next]_onPane
      BY <2>1, <2>2, ProcessesRest
    <2>3. ASSUME UNCHANGED nodeVars \/ UNCHANGED nodeButReplies PROVE [Tmux!Next]_onPane
      BY <2>2, <2>3 DEF nodeVars, nodeButReplies, procVars, lineVars
    <2>4. ASSUME NEW i \in Id,
                 \/ HubContinues(i) \/ Opens(i) \/ Started(i) \/ NeverStarted(i)
                 \/ AttemptFails(i) \/ Bridged(i) \/ LocalExits(i) \/ Leaves(i) \/ LeavesReclean(i)
                 \/ LocalStops(i) \/ DeleteAnswered(i) \/ HubRetries(i)
          PROVE  [Tmux!Next]_onPane
      BY <2>3, <2>4 DEF HubContinues, Proceeds, Recleaned, FallsBack, Opens, Started, NeverStarted, AttemptFails, Bridged,
                        LocalExits, Leaves, LeavesReclean, LocalStops, DeleteAnswered, HubRetries
    <2>5. ASSUME NEW i \in Id, Prepared(i) \/ PostCloses(i) \/ RelayReaches(i) PROVE [Tmux!Next]_onPane
      BY <2>2, <2>5 DEF Prepared, PostCloses, PostAbandoned, RelayReaches, procVars, lineVars
    <2>6. ASSUME NEW m \in wire, DeleteReaches(m) PROVE [Tmux!Next]_onPane
      BY <2>2, <2>6 DEF DeleteReaches, DeleteArrives, procVars
    <2>7. ASSUME LinkResets \/ HubCloses PROVE [Tmux!Next]_onPane
      BY <2>3, <2>7 DEF LinkResets, HubCloses
    <2>8. CASE UNCHANGED moshVars
      BY <2>3, <2>8 DEF moshVars
    <2>9. CASE (\E i \in Id : NodeContinues(i)) \/ NodeEvent
      BY <2>1, <2>9, NodeKeepsPromise
    <2> QED BY <1>2, <2>4, <2>5, <2>6, <2>7, <2>8, <2>9 DEF MoshNext
  <1> QED BY <1>1, <1>2, MoshInvariant, PTL DEF MoshSpec, Tmux!Spec

-----------------------------------------------------------------------------
(* To its browser socket an attempt is one terminal (OneTerminal).  First  *)
(* what a step does to the attempts, then that this, and what happens to   *)
(* the sessions, are steps of the abstract terminal.                       *)

Attains(i, stage, gone, local, cleaned) ==
    /\ attempt'[i].stage = stage /\ attempt'[i].gone = gone
    /\ attempt'[i].local = local /\ attempt'[i].cleaned = cleaned

Still(i) == i \in owned' <=> i \in owned

(* The stage alone changes, or nothing.                                    *)
Turns(i, stage) ==
    /\ Attains(i, stage, attempt[i].gone, attempt[i].local, attempt[i].cleaned)
    /\ Still(i)

(* What a step may make of an attempt at the hub. *)
AttemptMoves(i) ==
    LET a == attempt[i] IN
    \/ Turns(i, a.stage)
    \/ a.stage = "none" /\ Turns(i, "waiting")
    \/ a.stage = "waiting" /\ \E s \in {"reclean", "prepare", "relayed", "refused"} : Turns(i, s)
    \/ a.stage = "prepare" /\ Turns(i, "posting")
    \/ a.stage = "reclean" /\ \/ ~a.gone /\ Turns(i, "relayed")
                              \/ Turns(i, "refused")
                              \/ Attains(i, "reclean", TRUE, a.local, a.cleaned) /\ Still(i)
    \/ /\ a.stage = "posting" /\ post[i] = "ok"
       /\ Attains(i, "contact", a.gone, "runs", a.cleaned) /\ Still(i)
    \/ a.stage = "contact" /\ a.local = "runs" /\ alive[i] # {} /\ Turns(i, "bridged")
    \/ /\ a.stage \in ComingUp \cup {"bridged"}
       /\ \E gone \in BOOLEAN : (a.stage = "bridged" => gone) /\ Attains(i, "cleaning", gone, a.local, a.cleaned)
    \/ a.local = "runs" /\ Attains(i, a.stage, a.gone, "gone", a.cleaned) /\ Still(i)
    \/ cleaning[i] # "no" /\ Attains(i, a.stage, a.gone, a.local, FALSE) /\ Still(i)
    \/ /\ cleaning[i] # "no" /\ a.local # "runs" /\ Over(i)
       /\ Attains(i, a.stage, a.gone, a.local, TRUE) /\ i \notin owned'
    \/ a.stage = "cleaning" /\ \/ ~a.gone /\ a.cleaned /\ Turns(i, "relayed")
                               \/ Turns(i, "refused")
    \/ a.stage = "relayed" /\ Turns(i, "attached")

(* What is still to be ended was not confirmed, and its socket not relayed.*)
OwnedRests == \A i \in owned : attempt[i].stage \in {"cleaning", "refused"} /\ ~attempt[i].cleaned

ProcsRest(i) == alive'[i] = alive[i] /\ launch'[i] = launch[i] /\ (post'[i] = "none" <=> post[i] = "none")

LEMMA StillRests ==
    ASSUME MoshInv, OwnedRests, NEW i \in Id, AttemptMoves(i), i \in owned'
    PROVE  attempt'[i].stage \in {"cleaning", "refused"} /\ ~attempt'[i].cleaned
  <1>1. /\ attempt[i].stage \in ComingUp => ~attempt[i].cleaned
        /\ attempt[i].stage = "bridged" => ~attempt[i].cleaned
        /\ i \in owned => attempt[i].stage \in {"cleaning", "refused"} /\ ~attempt[i].cleaned
    BY DEF MoshInv, HubInv, HubOf, OwnedRests, ComingUp
  <1> QED BY <1>1 DEF AttemptMoves, Turns, Attains, ComingUp, Still

(* Only the attempt moves, as AttemptMoves says: the step is one of the    *)
(* abstract terminal's.                                                    *)
LEMMA AttemptIsTerminal ==
    ASSUME MoshInv, OwnedRests, NEW i \in Id, AttemptMoves(i), ProcsRest(i)
    PROVE  Terminal(i)!Step
  <1>1. SessionOf(i)' = SessionOf(i)
    BY DEF SessionOf, ProcsRest
  <1>2. attempt'[i].cleaned = attempt[i].cleaned => LeaseOf(i)' = LeaseOf(i)
    BY DEF LeaseOf, ProcsRest
  <1>3. HubOf(i) /\ attempt[i] \in Attempts
    BY AttemptFields DEF MoshInv, HubInv
  <1> DEFINE a == attempt[i]
  <1>4. /\ a.stage \in {"none", "waiting", "prepare", "reclean"} => post[i] = "none" /\ ~a.cleaned /\ a.local = "none"
        /\ a.stage \in ComingUp \cup {"bridged"} => ~a.cleaned
        /\ a.stage = "posting" => a.local = "none"
        /\ cleaning[i] # "no" => a.stage \in {"cleaning", "refused"} /\ ~a.cleaned
    BY <1>3 DEF HubOf, OwnedRests, ComingUp
  <1>5. alive[i] # {} => post[i] # "none"
    BY DEF MoshInv, NodeInv, PostOK, ProcsOK
  <1>6. ASSUME attempt'[i].local = a.local, attempt'[i].cleaned = a.cleaned,
               \/ SocketOf(i)' = SocketOf(i)
               \/ SocketOf(i) \in {"waits", "bridged"} /\ SocketOf(i)' = "lost"
        PROVE  Terminal(i)!Step
    BY <1>1, <1>2, <1>6 DEF Terminal!Step, Terminal!Next, Terminal!Lose, Terminal!terminal
  <1>7. ASSUME attempt'[i].local = a.local, attempt'[i].cleaned = a.cleaned,
               SocketOf(i) = "waits", SocketOf(i)' = "relayed", a.cleaned \/ post[i] = "none"
        PROVE  Terminal(i)!Step
    <2>1. LeaseOf(i) # "asked"
      BY <1>7 DEF LeaseOf
    <2> QED BY <1>1, <1>2, <1>7, <2>1 DEF Terminal!Step, Terminal!Next, Terminal!Relay
  <1>8. ASSUME attempt'[i].cleaned = a.cleaned, a.local = "runs", attempt'[i].local = "gone", SocketOf(i)' = SocketOf(i)
        PROVE  Terminal(i)!Step
    BY <1>1, <1>2, <1>8 DEF Terminal!Step, Terminal!Next, Terminal!Disconnect
  <1>9. CASE Turns(i, a.stage)
    BY <1>6, <1>9 DEF Turns, Attains, SocketOf, Still
  <1>10. CASE a.stage = "none" /\ Turns(i, "waiting")
    BY <1>6, <1>10 DEF Turns, Attains, SocketOf, Still
  <1>11. CASE a.stage = "waiting" /\ \E s \in {"reclean", "prepare", "relayed", "refused"} : Turns(i, s)
    <2>1. CASE Turns(i, "relayed")
      BY <1>4, <1>7, <1>11, <2>1 DEF Turns, Attains, SocketOf, Still
    <2>2. CASE \E s \in {"reclean", "prepare", "refused"} : Turns(i, s)
      BY <1>6, <1>11, <2>2 DEF Turns, Attains, SocketOf, Still
    <2> QED BY <1>11, <2>1, <2>2
  <1>12. CASE a.stage = "reclean" /\ ~a.gone /\ Turns(i, "relayed")
    BY <1>4, <1>7, <1>12 DEF Turns, Attains, SocketOf, Still
  <1>13. CASE /\ a.stage = "reclean"
              /\ Turns(i, "refused") \/ Attains(i, "reclean", TRUE, a.local, a.cleaned)
    BY <1>6, <1>13 DEF Turns, Attains, SocketOf, Still
  <1>14. CASE a.stage = "posting" /\ post[i] = "ok" /\ Attains(i, "contact", a.gone, "runs", a.cleaned)
    <2>1. LeaseOf(i) = "asked" /\ SocketOf(i) = "waits" /\ SocketOf(i)' = "waits" /\ a.local = "none"
      BY <1>4, <1>14 DEF Attains, SocketOf, LeaseOf, ComingUp
    <2> QED BY <1>1, <1>2, <1>14, <2>1 DEF Attains, Terminal!Step, Terminal!Next, Terminal!Connect
  <1>15. CASE a.stage = "contact" /\ a.local = "runs" /\ alive[i] # {} /\ Turns(i, "bridged")
    <2>1. LeaseOf(i) = "asked" /\ SocketOf(i) = "waits" /\ SocketOf(i)' = "bridged"
      BY <1>4, <1>5, <1>15 DEF Turns, Attains, SocketOf, LeaseOf, ComingUp, Still
    <2> QED BY <1>1, <1>2, <1>15, <2>1 DEF Turns, Attains, Terminal!Step, Terminal!Next, Terminal!Bridge
  <1>16. CASE /\ a.stage \in ComingUp \cup {"bridged"}
              /\ \E gone \in BOOLEAN : (a.stage = "bridged" => gone) /\ Attains(i, "cleaning", gone, a.local, a.cleaned)
    BY <1>6, <1>16 DEF Attains, SocketOf, ComingUp
  <1>17. CASE a.local = "runs" /\ Attains(i, a.stage, a.gone, "gone", a.cleaned)
    BY <1>8, <1>17 DEF Attains, SocketOf
  <1>18. CASE cleaning[i] # "no" /\ Attains(i, a.stage, a.gone, a.local, FALSE)
    <2>1. a.cleaned = FALSE
      BY <1>3, <1>4, <1>18 DEF Attempts
    <2> QED BY <1>6, <1>18, <2>1 DEF Attains, SocketOf
  <1>19. CASE cleaning[i] # "no" /\ a.local # "runs" /\ Over(i) /\ Attains(i, a.stage, a.gone, a.local, TRUE)
    <2>1. LeaseOf(i) # "clear" /\ LeaseOf(i)' = "clear"
      BY <1>4, <1>19 DEF Attains, LeaseOf
    <2>2. SessionOf(i) # "runs"
      BY <1>19, OverIsGone DEF SessionOf, MoshInv
    <2>3. SocketOf(i) \in {"waits", "lost"} /\ SocketOf(i)' = SocketOf(i)
      BY <1>4, <1>19 DEF Attains, SocketOf
    <2> QED BY <1>1, <1>19, <2>1, <2>2, <2>3 DEF Attains, Terminal!Step, Terminal!Next, Terminal!Clear
  <1>20. CASE a.stage = "cleaning" /\ ~a.gone /\ a.cleaned /\ Turns(i, "relayed")
    BY <1>7, <1>20 DEF Turns, Attains, SocketOf, Still
  <1>21. CASE a.stage = "cleaning" /\ Turns(i, "refused")
    BY <1>6, <1>21 DEF Turns, Attains, SocketOf, Still
  <1>22. CASE a.stage = "relayed" /\ Turns(i, "attached")
    BY <1>6, <1>22 DEF Turns, Attains, SocketOf, Still
  <1>23. CASE a.stage = "prepare" /\ Turns(i, "posting")
    BY <1>6, <1>23 DEF Turns, Attains, SocketOf, Still
  <1> QED BY <1>9, <1>10, <1>11, <1>12, <1>13, <1>14, <1>15, <1>16, <1>17, <1>18, <1>19, <1>20, <1>21, <1>22, <1>23
          DEF AttemptMoves, Still

(* The others rest, or one that waited is refused with the trial. *)
OthersRest(i) ==
    \A j \in Id : j # i =>
      /\ j \in owned' <=> j \in owned
      /\ \/ attempt'[j] = attempt[j]
         \/ attempt[j].stage = "waiting" /\ attempt'[j] = [attempt[j] EXCEPT !.stage = "refused"]

LEMMA TurnsTo ==
    ASSUME HubTypeOK, NEW i \in Id, NEW s, attempt'[i] = [attempt[i] EXCEPT !.stage = s], i \in owned' <=> i \in owned
    PROVE  Turns(i, s)
  <1>1. attempt[i] \in Attempts
    BY DEF HubTypeOK
  <1> QED BY <1>1 DEF Turns, Attains, Attempts, Still

LEMMA RestMoves ==
    ASSUME HubTypeOK, NEW i \in Id, OthersRest(i), NEW j \in Id, j = i => AttemptMoves(i)
    PROVE  AttemptMoves(j)
  <1>1. CASE j = i
    BY <1>1
  <1>2. CASE j # i /\ attempt'[j] = attempt[j]
    BY <1>2 DEF OthersRest, AttemptMoves, Turns, Attains, Still
  <1>3. CASE j # i /\ attempt[j].stage = "waiting" /\ attempt'[j] = [attempt[j] EXCEPT !.stage = "refused"]
    <2>1. Turns(j, "refused")
      BY <1>2, <1>3, TurnsTo DEF OthersRest
    <2> QED BY <1>3, <2>1 DEF AttemptMoves, Still
  <1> QED BY <1>1, <1>2, <1>3 DEF OthersRest

(* Nobody's attempt changes. *)
LEMMA AllRest ==
    ASSUME UNCHANGED <<attempt, owned>>, NEW j \in Id
    PROVE  AttemptMoves(j)
  BY DEF AttemptMoves, Turns, Attains, Still

LEMMA TrialMoves ==
    ASSUME MoshInv, NEW i \in Id, NEW clean, NEW s \in {"relayed", "refused", "bridged"}, UNCHANGED owned,
           TrialOver(i, clean, [attempt EXCEPT ![i].stage = s])
    PROVE  Turns(i, s) /\ OthersRest(i)
  <1> DEFINE own == [attempt EXCEPT ![i].stage = s]
  <1>1. HubTypeOK /\ attempt[i] \in Attempts
    BY AttemptFields DEF MoshInv
  <1>2. /\ own \in [Id -> Attempts] /\ own[i] = [attempt[i] EXCEPT !.stage = s] /\ own[i].stage # "waiting"
        /\ \A j \in Id : j # i => own[j] = attempt[j]
    BY <1>1 DEF HubTypeOK, Attempts
  <1>3. TrialOver(i, clean, own)
    OBVIOUS
  <1> HIDE DEF own
  <1>4. /\ attempt' \in [Id -> Attempts] /\ attempt'[i] = own[i]
        /\ \A j \in Id : j # i =>
             \/ attempt'[j] = attempt[j]
             \/ attempt[j].stage = "waiting" /\ attempt'[j] = [attempt[j] EXCEPT !.stage = "refused"]
    BY <1>1, <1>2, <1>3, TrialOverKeeps
  <1>5. attempt'[i] = [attempt[i] EXCEPT !.stage = s] /\ Still(i)
    BY <1>2, <1>4 DEF Still
  <1>6. OthersRest(i)
    BY <1>4 DEF OthersRest
  <1> QED BY <1>1, <1>5, <1>6, TurnsTo

LEMMA HubContinuesMoves ==
    ASSUME MoshInv, NEW i \in Id, HubContinues(i), NEW j \in Id
    PROVE  AttemptMoves(j)
  <1>1. HubTypeOK /\ attempt[i] \in Attempts
    BY AttemptFields DEF MoshInv
  <1>2. CASE Proceeds(i)
    <2>1. PICK s \in {"reclean", "prepare", "relayed"} : attempt' = [attempt EXCEPT ![i].stage = s]
      BY <1>2 DEF Proceeds
    <2>2. Turns(i, s) /\ OthersRest(i)
      <3>1. attempt'[i] = [attempt[i] EXCEPT !.stage = s] /\ UNCHANGED owned
        BY <1>1, <1>2, <2>1 DEF HubTypeOK, Proceeds
      <3>2. OthersRest(i)
        BY <1>1, <2>1, <3>1 DEF HubTypeOK, OthersRest
      <3> QED BY <1>1, <3>1, <3>2, TurnsTo
    <2>3. AttemptMoves(i)
      BY <1>2, <2>2 DEF AttemptMoves, Proceeds, Still
    <2> QED BY <1>1, <2>2, <2>3, RestMoves
  <1>3. CASE Recleaned(i)
    <2> DEFINE relays == Of(i).unclean = {} /\ ~attempt[i].gone /\ attempt[i].gen = gen /\ ~hubDown
               s == IF relays THEN "relayed" ELSE "refused"
    <2>1. TrialOver(i, Of(i).unclean = {}, [attempt EXCEPT ![i].stage = s]) /\ UNCHANGED owned
      BY <1>3 DEF Recleaned
    <2>2. s \in {"relayed", "refused", "bridged"} /\ (s # "refused" => s = "relayed" /\ ~attempt[i].gone)
      OBVIOUS
    <2> HIDE DEF s
    <2>3. Turns(i, s) /\ OthersRest(i)
      BY <2>1, <2>2, TrialMoves
    <2>4. AttemptMoves(i)
      BY <1>3, <2>2, <2>3 DEF AttemptMoves, Recleaned, Still
    <2> QED BY <1>1, <2>3, <2>4, RestMoves
  <1>4. CASE FallsBack(i)
    <2> DEFINE relays == ~attempt[i].gone /\ attempt[i].gen = gen /\ ~hubDown /\ attempt[i].cleaned
               s == IF relays THEN "relayed" ELSE "refused"
    <2>1. TrialOver(i, attempt[i].cleaned, [attempt EXCEPT ![i].stage = s]) /\ UNCHANGED owned
      BY <1>4 DEF FallsBack
    <2>2. s \in {"relayed", "refused", "bridged"} /\ (s # "refused" => s = "relayed" /\ ~attempt[i].gone /\ attempt[i].cleaned)
      OBVIOUS
    <2> HIDE DEF s
    <2>3. Turns(i, s) /\ OthersRest(i)
      BY <2>1, <2>2, TrialMoves
    <2>4. AttemptMoves(i)
      BY <1>4, <2>2, <2>3 DEF AttemptMoves, FallsBack, Still
    <2> QED BY <1>1, <2>3, <2>4, RestMoves
  <1> QED BY <1>2, <1>3, <1>4 DEF HubContinues

LEMMA ComingUpMoves ==
    ASSUME MoshInv, NEW i \in Id, NEW j \in Id,
           Opens(i) \/ Prepared(i) \/ Started(i) \/ Bridged(i) \/ LocalExits(i) \/ LeavesReclean(i) \/ RelayReaches(i)
    PROVE  AttemptMoves(j)
  <1>1. HubTypeOK /\ attempt[i] \in Attempts /\ attempt \in [Id -> Attempts]
    BY AttemptFields DEF MoshInv, HubTypeOK
  <1>2. CASE Bridged(i)
    <2>1. Turns(i, "bridged") /\ OthersRest(i)
      BY <1>2, TrialMoves DEF Bridged
    <2>2. AttemptMoves(i)
      BY <1>2, <2>1 DEF AttemptMoves, Bridged, Still
    <2> QED BY <1>1, <2>1, <2>2, RestMoves
  <1>3. CASE Opens(i) \/ Prepared(i) \/ Started(i) \/ LocalExits(i) \/ LeavesReclean(i) \/ RelayReaches(i)
    <2>1. UNCHANGED owned
      BY <1>3 DEF Opens, Prepared, Started, LocalExits, LeavesReclean, RelayReaches
    <2>2. \A k \in Id : k # i => attempt'[k] = attempt[k]
      BY <1>1, <1>3 DEF Opens, Prepared, Started, LocalExits, LeavesReclean, RelayReaches
    <2>3. AttemptMoves(i)
      <3>1. CASE Opens(i)
        BY <1>1, <2>1, <3>1 DEF Opens, AttemptMoves, Turns, Attains, Attempts, Still
      <3>2. CASE Prepared(i)
        BY <1>1, <2>1, <3>2 DEF Prepared, AttemptMoves, Turns, Attains, Attempts, Still
      <3>3. CASE Started(i)
        BY <1>1, <2>1, <3>3 DEF Started, AttemptMoves, Attains, Attempts, Still
      <3>4. CASE LocalExits(i)
        BY <1>1, <2>1, <3>4 DEF LocalExits, AttemptMoves, Attains, Attempts, Still
      <3>5. CASE LeavesReclean(i)
        BY <1>1, <2>1, <3>5 DEF LeavesReclean, AttemptMoves, Attains, Attempts, Still
      <3>6. CASE RelayReaches(i)
        BY <1>1, <2>1, <3>6 DEF RelayReaches, AttemptMoves, Turns, Attains, Attempts, Still
      <3> QED BY <1>3, <3>1, <3>2, <3>3, <3>4, <3>5, <3>6
    <2> QED BY <1>1, <2>1, <2>2, <2>3, RestMoves DEF OthersRest
  <1> QED BY <1>2, <1>3

LEMMA FailMoves ==
    ASSUME MoshInv, NEW S \in SUBSET Id, NEW gone \in BOOLEAN, Fail(S, gone), NEW j \in Id,
           \A i \in S : attempt[i].stage \in ComingUp \cup {"bridged"} /\ (attempt[i].stage = "bridged" => gone)
    PROVE  AttemptMoves(j)
  <1>1. attempt[j] \in Attempts
    BY DEF MoshInv, HubTypeOK
  <1>2. CASE j \in S
    <2>1. attempt'[j] = [attempt[j] EXCEPT !.stage = "cleaning", !.gone = gone]
      BY <1>2 DEF Fail
    <2>2. Attains(j, "cleaning", gone, attempt[j].local, attempt[j].cleaned)
      BY <1>1, <2>1 DEF Attains, Attempts
    <2> QED BY <1>2, <2>2 DEF AttemptMoves, Still
  <1>3. CASE j \notin S
    BY <1>3 DEF Fail, AttemptMoves, Turns, Attains, Still
  <1> QED BY <1>2, <1>3

LEMMA EndMoves ==
    ASSUME MoshInv, NEW i \in Id, NEW j \in Id, AttemptFails(i) \/ Leaves(i) \/ NeverStarted(i)
    PROVE  AttemptMoves(j)
  <1>1. CASE AttemptFails(i) \/ Leaves(i)
    <2>1. PICK gone \in BOOLEAN : Fail({i}, gone) /\ (attempt[i].stage = "bridged" => gone)
      BY <1>1 DEF AttemptFails, Leaves
    <2>2. {i} \in SUBSET Id /\ attempt[i].stage \in ComingUp \cup {"bridged"}
      BY <1>1 DEF AttemptFails, Leaves, ComingUp
    <2> QED BY <2>1, <2>2, FailMoves
  <1>2. CASE NeverStarted(i)
    <2>1. HubTypeOK /\ attempt[i] \in Attempts /\ attempt \in [Id -> Attempts]
      BY AttemptFields DEF MoshInv, HubTypeOK
    <2>2. OthersRest(i)
      BY <1>2, <2>1 DEF NeverStarted, OthersRest
    <2>3. attempt[i].stage = "posting" /\ Attains(i, "cleaning", attempt[i].gone, attempt[i].local, attempt[i].cleaned)
      BY <1>2, <2>1 DEF NeverStarted, Attains, Attempts
    <2>4. attempt[i].gone \in BOOLEAN
      BY <2>1 DEF Attempts
    <2>5. AttemptMoves(i)
      BY <2>3, <2>4 DEF AttemptMoves, ComingUp, Still
    <2> QED BY <2>1, <2>2, <2>5, RestMoves
  <1> QED BY <1>1, <1>2

LEMMA CleanedMoves ==
    ASSUME MoshInv, NEW i \in Id, NEW clean \in BOOLEAN, NEW j \in Id, Cleaned(i, clean), cleaning[i] # "no",
           clean => attempt[i].local # "runs" /\ Over(i)
    PROVE  AttemptMoves(j)
  <1>1. HubTypeOK /\ attempt[i] \in Attempts /\ attempt \in [Id -> Attempts]
    BY AttemptFields DEF MoshInv, HubTypeOK
  <1>2. OthersRest(i)
    BY <1>1 DEF Cleaned, OthersRest
  <1>3. Attains(i, attempt[i].stage, attempt[i].gone, attempt[i].local, clean)
    BY <1>1 DEF Cleaned, Attains, Attempts
  <1>4. AttemptMoves(i)
    <2>1. CASE clean
      BY <1>3, <2>1 DEF AttemptMoves, Cleaned, Still
    <2>2. CASE ~clean
      <3>1. clean = FALSE /\ Still(i)
        BY <2>2 DEF Cleaned, Still
      <3> QED BY <1>3, <3>1 DEF AttemptMoves, Still
    <2> QED BY <2>1, <2>2
  <1> QED BY <1>1, <1>2, <1>4, RestMoves

LEMMA CleaningMoves ==
    ASSUME MoshInv, NEW i \in Id, NEW j \in Id, LocalStops(i) \/ DeleteAnswered(i)
    PROVE  AttemptMoves(j)
  <1>1. /\ HubTypeOK /\ attempt[i] \in Attempts /\ attempt \in [Id -> Attempts] /\ HubOf(i)
        /\ cleaning[i] # "no" /\ TRUE \in BOOLEAN /\ FALSE \in BOOLEAN
    BY AttemptFields DEF MoshInv, HubInv, HubTypeOK, LocalStops, DeleteAnswered
  <1>2. CASE Cleaned(i, FALSE)
    BY <1>1, <1>2, CleanedMoves
  <1>3. CASE LocalStops(i) /\ ~attempt[i].posted /\ Cleaned(i, TRUE)
    <2>1. attempt[i].local # "runs" /\ Over(i)
      BY <1>1, <1>3 DEF HubOf, Over
    <2> QED BY <1>1, <1>3, <2>1, CleanedMoves
  <1>4. CASE attempt' = [attempt EXCEPT ![i].local = IF @ = "runs" THEN "gone" ELSE @] /\ UNCHANGED owned
    <2>1. OthersRest(i)
      BY <1>1, <1>4 DEF OthersRest
    <2>2. Attains(i, attempt[i].stage, attempt[i].gone, IF attempt[i].local = "runs" THEN "gone" ELSE attempt[i].local,
                  attempt[i].cleaned)
      BY <1>1, <1>4 DEF Attains, Attempts
    <2>3. AttemptMoves(i)
      BY <1>4, <2>2 DEF AttemptMoves, Turns, Still
    <2> QED BY <1>1, <2>1, <2>3, RestMoves
  <1>5. CASE \E r \in replies : r.id = i /\ r.n = asks[i] /\ Cleaned(i, r.clean) /\ DeleteAnswered(i)
    <2>1. PICK r \in replies : r.id = i /\ Cleaned(i, r.clean) /\ cleaning[i] = "asked"
      BY <1>5 DEF DeleteAnswered
    <2>2. r.clean \in BOOLEAN
      BY DEF MoshInv, NodeInv, NodeTypeOK
    <2>3. r.clean => attempt[i].local # "runs" /\ Over(i)
      BY <1>1, <2>1 DEF HubOf, MoshInv, NodeInv, RepliesOK, Over
    <2> QED BY <1>1, <2>1, <2>2, <2>3, CleanedMoves
  <1> QED BY <1>2, <1>3, <1>4, <1>5 DEF LocalStops, DeleteAnswered

LEMMA LinkMoves ==
    ASSUME MoshInv, NEW j \in Id, LinkResets \/ HubCloses
    PROVE  AttemptMoves(j)
  <1>1. /\ Fail(Adopted, TRUE) /\ TRUE \in BOOLEAN /\ Adopted \in SUBSET Id
        /\ \A i \in Adopted : attempt[i].stage \in ComingUp \cup {"bridged"}
    BY DEF LinkResets, HubCloses, Adopted
  <1> QED BY <1>1, FailMoves

(* What the node does, and what arrives, leaves every POST asked for or not*)
(* asked for.                                                              *)
PostsStay == \A i \in Id : post'[i] = "none" <=> post[i] = "none"

LEMMA GivenUpPosts ==
    ASSUME NodeInv, NEW q, NEW i \in Id, NEW answer \in {"never", "error"}, GivenUp(q, i, answer)
    PROVE  PostsStay
  BY DEF NodeInv, NodeTypeOK, GivenUp, PostsStay

LEMMA NodePosts ==
    ASSUME NodeInv, (\E i \in Id : NodeContinues(i)) \/ NodeEvent
    PROVE  PostsStay
  <1>1. ASSUME UNCHANGED post PROVE PostsStay
    BY <1>1 DEF PostsStay
  <1>2. ASSUME NEW i \in Id, StartClear(i) \/ StartAborted(i) \/ StartEnters(i) PROVE PostsStay
    <2>1. UNCHANGED post \/ GivenUp(Tail(line), i, "error")
      BY <1>2 DEF StartClear, StartAborted, StartEnters
    <2> QED BY <1>1, <2>1, GivenUpPosts
  <1>3. ASSUME NEW i \in Id, PostArrives(i) \/ Capable(i) \/ Identified(i) PROVE PostsStay
    BY <1>3 DEF PostArrives, Capable, Identified, PostsStay, NodeInv, NodeTypeOK
  <1>4. ASSUME NEW i \in Id, PaneResolved(i) PROVE PostsStay
    <2>1. UNCHANGED post \/ \E answer \in {"never", "error"} : GivenUp(line, i, answer)
      BY <1>4 DEF PaneResolved
    <2> QED BY <1>1, <2>1, GivenUpPosts
  <1>5. ASSUME NEW i \in Id,
               \/ EndDone(i) \/ PanelClear(i) \/ Spawned(i) \/ ClientAttached(i) \/ EndLooks(i) \/ EndSees(i)
               \/ EndEnters(i) \/ ReapGone(i) \/ ReapSilent(i) \/ ProcessGoes(i) \/ PanelEnters(i)
        PROVE  PostsStay
    BY <1>1, <1>5 DEF EndDone, PanelClear, Spawned, ClientAttached, EndLooks, EndSees, EndEnters, ReapGone, ReapSilent,
                      ProcessGoes, PanelEnters
  <1>6. CASE PanelLeaves \/ StopAll
    BY <1>1, <1>6 DEF PanelLeaves, StopAll
  <1> QED BY <1>2, <1>3, <1>4, <1>5, <1>6 DEF NodeContinues, NodeEvent

(* Of the sessions, one starts its launch, is launched or loses a process; *)
(* the hub's view of it moves by one step or not at all.                   *)
LEMMA ProcsAreTerminal ==
    ASSUME MoshInv, NEW i \in Id, UNCHANGED attempt, post'[i] = "none" <=> post[i] = "none",
           \/ UNCHANGED <<alive, launch>>
           \/ \E j \in Id : StartClear(j) \/ Spawned(j) \/ ProcessGoes(j)
    PROVE  Terminal(i)!Step
  <1>1. /\ UNCHANGED <<attempt[i].local>> /\ LeaseOf(i)' = LeaseOf(i) /\ SocketOf(i)' = SocketOf(i)
    BY DEF LeaseOf, SocketOf
  <1>2. NodeInv /\ HubOf(i)
    BY DEF MoshInv, HubInv
  <1>3. ASSUME SessionOf(i)' = SessionOf(i) PROVE Terminal(i)!Step
    BY <1>1, <1>3 DEF Terminal!Step, Terminal!terminal
  <1>4. ASSUME alive'[i] = alive[i], launch'[i] = launch[i] PROVE Terminal(i)!Step
    BY <1>3, <1>4 DEF SessionOf
  <1>5. ASSUME SessionOf(i) # "over", SessionOf(i)' = "over" PROVE Terminal(i)!Step
    BY <1>1, <1>5 DEF Terminal!Step, Terminal!Next, Terminal!End
  <1>6. CASE StartClear(i)
    <2>1. UNCHANGED <<alive, launch>> \/ (First("start", i, "clear") /\ launch'[i] = "running")
      <3>1. First("start", i, "clear") /\ UNCHANGED alive
        BY <1>6 DEF StartClear
      <3>2. CASE launch' = [launch EXCEPT ![i] = "running"]
        BY <1>2, <3>1, <3>2 DEF NodeInv, NodeTypeOK
      <3>3. CASE UNCHANGED launch
        BY <3>1, <3>3
      <3> QED BY <1>6, <3>2, <3>3 DEF StartClear
    <2>2. ASSUME First("start", i, "clear"), launch'[i] = "running" PROVE Terminal(i)!Step
      <3>1. UNCHANGED alive
        BY <1>6 DEF StartClear
      <3>2. line # <<>> /\ line[1].kind = "start" /\ line[1].id = i /\ place = "clear" /\ Len(line) \in Nat /\ 1 \in 1..Len(line)
        BY <1>2, <2>2, HeadIsFirst DEF NodeInv, First
      <3>3. phase[i] = "line"
        BY <1>2, <3>2 DEF NodeInv, LineOK, Fits, Acts
      <3>4. launch[i] = "none"
        BY <1>2, <3>3 DEF NodeInv, ProcsOK
      <3> QED BY <1>3, <2>2, <3>4 DEF SessionOf
    <2> QED BY <1>4, <2>1, <2>2
  <1>7. CASE Spawned(i)
    <2>1. phase[i] = "spawn" /\ launch[i] = "running" /\ post[i] \notin {"none", "never"}
      BY <1>2, <1>7 DEF Spawned, NodeInv, ProcsOK, PostOK
    <2>2. SessionOf(i) = "new" /\ LeaseOf(i) = "asked"
      BY <1>2, <2>1 DEF SessionOf, LeaseOf, HubOf, Over
    <2>3. SessionOf(i)' \in {"runs", "over"}
      BY <1>2, <1>7 DEF Spawned, SessionOf, NodeInv, NodeTypeOK
    <2>4. ASSUME SessionOf(i)' = "runs" PROVE Terminal(i)!Step
      BY <1>1, <2>2, <2>4 DEF Terminal!Step, Terminal!Next, Terminal!Start
    <2> QED BY <1>5, <2>2, <2>3, <2>4
  <1>8. CASE ProcessGoes(i)
    <2>1. alive[i] # {} /\ UNCHANGED launch
      BY <1>8 DEF ProcessGoes
    <2>2. launch[i] \in {"ok", "forked", "late"}
      BY <1>2, <2>1 DEF NodeInv, NodeTypeOK, ProcsOK
    <2>3. SessionOf(i)' = SessionOf(i) \/ (SessionOf(i) # "over" /\ SessionOf(i)' = "over")
      BY <2>1, <2>2 DEF SessionOf
    <2> QED BY <1>3, <1>5, <2>3
  <1>9. ASSUME NEW j \in Id, j # i, StartClear(j) \/ Spawned(j) \/ ProcessGoes(j)
        PROVE  Terminal(i)!Step
    BY <1>2, <1>4, <1>9 DEF StartClear, Spawned, ProcessGoes, NodeInv, NodeTypeOK
  <1>10. CASE UNCHANGED <<alive, launch>>
    BY <1>4, <1>10
  <1> QED BY <1>6, <1>7, <1>8, <1>9, <1>10

LEMMA NodeIsTerminal ==
    ASSUME MoshInv, UNCHANGED hubSide, (\E i \in Id : NodeContinues(i)) \/ NodeEvent, NEW i \in Id
    PROVE  Terminal(i)!Step
  <1>1. NodeInv /\ UNCHANGED attempt
    BY DEF MoshInv, hubSide
  <1>2. PostsStay
    BY <1>1, NodePosts
  <1>3. UNCHANGED <<alive, launch>> \/ \E j \in Id : StartClear(j) \/ Spawned(j) \/ ProcessGoes(j)
    <2>1. ASSUME NEW j \in Id,
                 \/ StartAborted(j) \/ EndDone(j) \/ PanelClear(j) \/ PostArrives(j) \/ Capable(j) \/ PaneResolved(j)
                 \/ StartEnters(j) \/ Identified(j) \/ ClientAttached(j) \/ EndLooks(j) \/ EndSees(j) \/ EndEnters(j)
                 \/ ReapGone(j) \/ ReapSilent(j) \/ PanelEnters(j)
          PROVE  UNCHANGED <<alive, launch>>
      BY <2>1 DEF StartAborted, EndDone, PanelClear, PostArrives, Capable, PaneResolved, StartEnters, Identified,
                  ClientAttached, EndLooks, EndSees, EndEnters, ReapGone, ReapSilent, PanelEnters, procVars
    <2>2. ASSUME PanelLeaves \/ StopAll PROVE UNCHANGED <<alive, launch>>
      BY <2>2 DEF PanelLeaves, StopAll, procVars
    <2> QED BY <2>1, <2>2 DEF NodeContinues, NodeEvent
  <1> QED BY <1>1, <1>2, <1>3, ProcsAreTerminal DEF PostsStay

(* At the hub nothing but the attempt moves: its session does not, and its *)
(* POST only when it is sent.                                              *)
LEMMA HubIsTerminal ==
    ASSUME MoshInv, OwnedRests, NEW i \in Id, AttemptMoves(i),
           UNCHANGED <<alive, launch>>, UNCHANGED post \/ PostsStay
    PROVE  Terminal(i)!Step
  <1>1. ProcsRest(i)
    BY DEF ProcsRest, PostsStay
  <1> QED BY <1>1, AttemptIsTerminal

(* The session is asked for. *)
LEMMA PreparedIsTerminal ==
    ASSUME MoshInv, NEW j \in Id, Prepared(j), OwnedRests, NEW i \in Id
    PROVE  Terminal(i)!Step
  <1>1. AttemptMoves(i) /\ UNCHANGED <<alive, launch>>
    BY ComingUpMoves DEF Prepared, procVars
  <1>2. CASE i # j
    <2>1. post'[i] = post[i]
      BY <1>2 DEF Prepared, MoshInv, NodeInv, NodeTypeOK
    <2> QED BY <1>1, <2>1, AttemptIsTerminal DEF ProcsRest
  <1>3. CASE i = j
    <2>1. HubOf(i) /\ attempt[i] \in Attempts /\ attempt \in [Id -> Attempts]
      BY AttemptFields DEF MoshInv, HubInv, HubTypeOK
    <2>2. attempt[i].stage = "prepare" /\ post[i] = "none" /\ ~attempt[i].cleaned /\ post'[i] = "sent"
      BY <1>3, <2>1 DEF Prepared, HubOf, MoshInv, NodeInv, NodeTypeOK
    <2>3. Attains(i, "posting", attempt[i].gone, attempt[i].local, attempt[i].cleaned)
      BY <1>3, <2>1 DEF Prepared, Attains, Attempts
    <2>4. SessionOf(i)' = SessionOf(i) /\ attempt'[i].local = attempt[i].local
      BY <1>1, <2>3 DEF SessionOf, Attains
    <2>5. LeaseOf(i) = "free" /\ LeaseOf(i)' = "asked" /\ SocketOf(i) = "waits" /\ SocketOf(i)' = "waits"
      BY <2>2, <2>3 DEF LeaseOf, SocketOf, Attains
    <2> QED BY <2>4, <2>5 DEF Terminal!Step, Terminal!Next, Terminal!Ask
  <1> QED BY <1>2, <1>3

(* The steps that reach both ends. *)
LEMMA MessagesAreTerminal ==
    ASSUME MoshInv, OwnedRests, NEW i \in Id,
           (\E m \in wire : DeleteReaches(m)) \/ (\E j \in Id : PostCloses(j) \/ RelayReaches(j))
    PROVE  Terminal(i)!Step
  <1>1. ASSUME NEW m \in wire, DeleteReaches(m)
        PROVE  Terminal(i)!Step
    <2>1. UNCHANGED <<attempt, owned>> /\ UNCHANGED post /\ UNCHANGED <<alive, launch>>
      BY <1>1 DEF DeleteReaches, DeleteArrives, procVars
    <2> QED BY <2>1, AllRest, HubIsTerminal
  <1>2. ASSUME NEW j \in Id, PostCloses(j)
        PROVE  Terminal(i)!Step
    <2>1. UNCHANGED <<attempt, owned>> /\ UNCHANGED <<alive, launch>>
      BY <1>2 DEF PostCloses, PostAbandoned, procVars, hubSide
    <2>2. PostsStay
      BY <1>2 DEF PostCloses, PostAbandoned, PostsStay, MoshInv, NodeInv, NodeTypeOK
    <2> QED BY <2>1, <2>2, AllRest, HubIsTerminal
  <1>3. ASSUME NEW j \in Id, RelayReaches(j)
        PROVE  Terminal(i)!Step
    <2>1. AttemptMoves(i) /\ UNCHANGED post /\ UNCHANGED <<alive, launch>>
      BY <1>3, ComingUpMoves DEF RelayReaches, procVars
    <2> QED BY <2>1, HubIsTerminal
  <1> QED BY <1>1, <1>2, <1>3

(* What a step makes of the attempts, whichever it is.                     *)
LEMMA StepMoves ==
    ASSUME MoshInv, [MoshNext]_moshVars, NEW i \in Id
    PROVE  AttemptMoves(i)
  <1>1. ASSUME UNCHANGED hubSide PROVE AttemptMoves(i)
    BY <1>1, AllRest DEF hubSide
  <1>2. ASSUME NEW j \in Id, PostCloses(j) \/ HubRetries(j) PROVE AttemptMoves(i)
    BY <1>1, <1>2, AllRest DEF PostCloses, HubRetries
  <1>3. ASSUME NEW m \in wire, DeleteReaches(m) PROVE AttemptMoves(i)
    BY <1>3, AllRest DEF DeleteReaches
  <1>4. ASSUME NEW j \in Id,
               \/ Opens(j) \/ Prepared(j) \/ Started(j) \/ NeverStarted(j)
               \/ AttemptFails(j) \/ Bridged(j) \/ LocalExits(j) \/ Leaves(j) \/ LeavesReclean(j)
               \/ LocalStops(j) \/ DeleteAnswered(j) \/ RelayReaches(j) \/ HubContinues(j)
        PROVE  AttemptMoves(i)
    BY <1>4, ComingUpMoves, EndMoves, CleaningMoves, HubContinuesMoves
  <1> QED BY <1>1, <1>2, <1>3, <1>4, LinkMoves DEF MoshNext, moshVars

LEMMA OwnedSteps == MoshInv /\ OwnedRests /\ [MoshNext]_moshVars /\ MoshInv' => OwnedRests'
  <1> SUFFICES ASSUME MoshInv, OwnedRests, [MoshNext]_moshVars, MoshInv', NEW i \in owned'
               PROVE  attempt'[i].stage \in {"cleaning", "refused"} /\ ~attempt'[i].cleaned
    BY DEF OwnedRests
  <1>1. i \in Id
    BY DEF MoshInv, HubTypeOK
  <1> QED BY <1>1, StepMoves, StillRests

LEMMA OwnedInvariant == MoshSpec => []OwnedRests
  <1>1. MoshInit => OwnedRests
    BY DEF MoshInit, OwnedRests
  <1> QED BY <1>1, OwnedSteps, MoshInvariant, PTL DEF MoshSpec

LEMMA StepIsTerminal ==
    ASSUME MoshInv, OwnedRests, [MoshNext]_moshVars, NEW i \in Id
    PROVE  Terminal(i)!Step
  <1>1. ASSUME UNCHANGED nodeVars \/ UNCHANGED nodeButReplies PROVE Terminal(i)!Step
    <2>1. UNCHANGED post /\ UNCHANGED <<alive, launch>>
      BY <1>1 DEF nodeVars, nodeButReplies, procVars
    <2> QED BY <2>1, StepMoves, HubIsTerminal
  <1>2. ASSUME NEW j \in Id,
               \/ HubContinues(j) \/ Opens(j) \/ Started(j) \/ NeverStarted(j)
               \/ AttemptFails(j) \/ Bridged(j) \/ LocalExits(j) \/ Leaves(j) \/ LeavesReclean(j)
               \/ LocalStops(j) \/ DeleteAnswered(j) \/ HubRetries(j)
        PROVE  Terminal(i)!Step
    BY <1>1, <1>2 DEF HubContinues, Proceeds, Recleaned, FallsBack, Opens, Started, NeverStarted, AttemptFails, Bridged,
                      LocalExits, Leaves, LeavesReclean, LocalStops, DeleteAnswered, HubRetries
  <1>3. CASE LinkResets \/ HubCloses
    BY <1>1, <1>3 DEF LinkResets, HubCloses
  <1>4. CASE UNCHANGED moshVars
    BY <1>1, <1>4 DEF moshVars
  <1>5. CASE UNCHANGED hubSide /\ ((\E j \in Id : NodeContinues(j)) \/ NodeEvent)
    BY <1>5, NodeIsTerminal
  <1> QED BY <1>2, <1>3, <1>4, <1>5, PreparedIsTerminal, MessagesAreTerminal DEF MoshNext

(* To its browser socket every attempt is one terminal, for any number of  *)
(* sockets, pairings and lost or late messages: a session that starts at   *)
(* most once and only while its end is not yet confirmed, one mosh-client, *)
(* and the node's own terminal only after all of it.                       *)
THEOREM EverySocketIsOneTerminal == MoshSpec => IsOneTerminal
  <1>1. MoshInit => \A i \in Id : Terminal(i)!Init
    BY DEF MoshInit, NodeInit, Terminal!Init, SessionOf, LeaseOf, SocketOf
  <1>2. MoshInv /\ OwnedRests /\ [MoshNext]_moshVars => [\A i \in Id : Terminal(i)!Step]_moshVars
    BY StepIsTerminal
  <1> QED BY <1>1, <1>2, MoshInvariant, OwnedInvariant, PTL DEF MoshSpec, IsOneTerminal

(* The same of one socket: its attempt implements OneTerminal.             *)
THEOREM ASocketIsOneTerminal ==
    ASSUME NEW i \in Id
    PROVE  MoshSpec => Terminal(i)!Spec
  <1>1. MoshInit => Terminal(i)!Init
    BY DEF MoshInit, NodeInit, Terminal!Init, SessionOf, LeaseOf, SocketOf
  <1>2. MoshInv /\ OwnedRests /\ [MoshNext]_moshVars => [Terminal(i)!Next]_(Terminal(i)!terminal)
    BY StepIsTerminal DEF Terminal!Step, Terminal!terminal
  <1> QED BY <1>1, <1>2, MoshInvariant, OwnedInvariant, PTL DEF MoshSpec, Terminal!Spec

=============================================================================
