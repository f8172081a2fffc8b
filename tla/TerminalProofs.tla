--------------------------- MODULE TerminalProofs ---------------------------
(***************************************************************************)
(* Proofs about the panel's browser terminals, for any sockets, clients,   *)
(* sessions, sizes and inputs: the turn in which clients change            *)
(* (ClientTurn), and one terminal's size and input (TerminalInput).        *)
(*                                                                         *)
(* IInv adds to the properties what makes them inductive: what is known of *)
(* a client in each of the manager's sets, and what the first job in line  *)
(* may rely on while it waits, since only that job starts clients.         *)
(* InputInv says of a terminal that what was passed on is what was typed   *)
(* first, and what is held is the rest.                                    *)
(***************************************************************************)
EXTENDS ClientTurn, TerminalInput, SequenceTheorems, TLAPS

(* Every client in a set was started, by the socket that home names. *)
Known ==
    /\ \A t \in Term : proc[t] # "unborn" => home[t] \in Conn
    /\ \A t \in starting \cup waiting \cup leaving \cup ended \cup still :
           proc[t] # "unborn"
    /\ \A c \in Attached : pty[c] \in Term /\ home[pty[c]] = c /\ proc[pty[c]] # "unborn"

(* A client waits to be ended only for the start of another. *)
WaitsForAStart ==
    /\ starting = {} => waiting = {}
    /\ waiting \cap (ended \cup Exited) = {}

(* A client told to leave is tracked until its process is gone. *)
EndedIsTracked ==
    \A t \in ended : Running(t) => t \in leaving \cup still

Shown ==
    \A c \in Attached : pty[c] \in still => FirstInLine(c, "leave")

(* The first job has the session to itself once the others on it were      *)
(* taken over, and while its own client leaves no other runs there, is on  *)
(* its way out there or may not have gone.                                 *)
InTurn ==
    /\ turn = <<>> => step = "entry"
    /\ \A c \in Conn, s \in {"clear", "leave"} : FirstInLine(c, s) /\ conn[c] # "gone" =>
           \A d \in Attached \ {c} : SessionOf[d] # SessionOf[c]
    /\ step = "leave" => starting = {}
    /\ \A c \in Attached : FirstInLine(c, "leave") =>
           /\ pty[c] \in ended \cup still \cup Exited
           /\ \A u \in Term \ {pty[c]} : Running(u) \/ u \in leaving \cup still =>
                  SessionOf[home[u]] # SessionOf[c]

IInv ==
    /\ TypeOK
    /\ OneStarting /\ NoOrphan /\ ShowsALiveClient /\ OneClientPerSession
    /\ Known /\ WaitsForAStart /\ EndedIsTracked /\ Shown /\ InTurn

-----------------------------------------------------------------------------
(* What ending clients does to the four sets, for every action that ends   *)
(* some: nothing starts, whoever was asked to end waits or leaves, and     *)
(* nobody waits once nothing starts.                                       *)

Shifted(eager, rest) ==
    /\ starting' \subseteq rest
    /\ waiting' \subseteq eager /\ waiting' \cap (ended' \ ended) = {}
    /\ leaving \subseteq leaving' /\ leaving' \subseteq leaving \cup eager
    /\ ended \subseteq ended' /\ ended' \subseteq ended \cup eager
    /\ ended' \ ended \subseteq leaving' /\ leaving' \ leaving \subseteq ended'
    /\ eager \subseteq waiting' \cup leaving'
    /\ starting' = {} => waiting' = {}

LEMMA ProceedShifts ==
    ASSUME NEW eager, NEW rest, Proceed(eager, rest)
    PROVE  Shifted(eager, rest)
  <1> DEFINE go == IF down \/ rest \subseteq eager THEN eager ELSE {}
  <1>1. /\ starting' = rest \ go /\ waiting' = eager \ go
        /\ leaving' = leaving \cup go /\ ended' = ended \cup go
    BY DEF Proceed
  <1>2. CASE go = eager
    BY <1>1, <1>2 DEF Shifted
  <1>3. CASE go # eager
    BY <1>1, <1>3 DEF Shifted
  <1> QED BY <1>2, <1>3

LEMMA EndClientsShifts ==
    ASSUME NEW T, NEW R, EndClients(T, R)
    PROVE  Shifted(waiting \cup (T \ (ended \cup Exited)), starting \ R)
  BY ProceedShifts DEF EndClients

-----------------------------------------------------------------------------

LEMMA EndConnectionsShifts ==
    ASSUME TypeOK, Known, NEW D \in SUBSET Conn, NEW others \in SUBSET Term,
           EndConnections(D, others)
    PROVE  LET seen == {pty[d] : d \in D \cap Attached} IN
           /\ seen \subseteq Term
           /\ Shifted(waiting \cup ((seen \cup others) \ (ended \cup Exited)),
                      starting \ seen)
           /\ conn' \in [Conn -> {"new", "asking", "attached", "gone"}]
           /\ Attached' = Attached \ D
           /\ \A c \in D : conn'[c] = "gone"
           /\ \A c \in Conn \ D : conn'[c] = conn[c]
  BY EndClientsShifts DEF EndConnections, Attached, Known, TypeOK

-----------------------------------------------------------------------------

LEMMA InitIInv == Init => IInv
  <1> SUFFICES ASSUME Init PROVE IInv
    OBVIOUS
  <1>1. TypeOK
    <2>1. turn \in Seq(Conn)
      BY DEF Init
    <2>2. conn \in [Conn -> {"new", "asking", "attached", "gone"}]
      BY DEF Init
    <2>3. pty \in [Conn -> Term \cup {NoTerm}] /\ home \in [Term -> Conn \cup {NoConn}]
      BY DEF Init
    <2>4. proc \in [Term -> {"unborn", "running", "dead", "reported"}]
      BY DEF Init
    <2> QED BY <2>1, <2>2, <2>3, <2>4 DEF Init, TypeOK
  <1>2. Attached = {} /\ \A t \in Term : ~Running(t)
    BY DEF Init, Attached, Running
  <1> QED
    BY <1>1, <1>2 DEF Init, IInv, OneStarting, NoOrphan, ShowsALiveClient, OneClientPerSession,
       Known, WaitsForAStart, EndedIsTracked, Shown, InTurn, FirstInLine

(* Ending connections and nothing else, as six of the actions do, keeps all *)
(* that does not depend on what the first job in line waits for.            *)
LEMMA EndingKeeps ==
    ASSUME IInv, NEW D \in SUBSET Conn, NEW others \in SUBSET (still \ ended),
           EndConnections(D, others), UNCHANGED <<pty, procs>>,
           still' \subseteq still,
           \A t \in still \ still' : t \in others \/ ~Running(t),
           \A c \in Attached \ D : FirstInLine(c, "leave") => FirstInLine(c, "leave")',
           turn' \in Seq(Conn), step' \in {"entry", "clear", "leave"}, down' \in BOOLEAN
    PROVE  /\ TypeOK' /\ OneStarting' /\ NoOrphan' /\ OneClientPerSession' /\ Known'
           /\ ShowsALiveClient' /\ WaitsForAStart' /\ EndedIsTracked' /\ Shown'
  <1> DEFINE seen == {pty[d] : d \in D \cap Attached}
             eager == waiting \cup ((seen \cup others) \ (ended \cup Exited))
  <1>1. /\ TypeOK /\ others \subseteq Term /\ seen \subseteq Term
        /\ Shifted(eager, starting \ seen)
        /\ Attached' = Attached \ D
        /\ conn' \in [Conn -> {"new", "asking", "attached", "gone"}]
    BY EndConnectionsShifts DEF IInv, TypeOK
  <1>2. /\ pty' = pty /\ home' = home /\ proc' = proc /\ Exited' = Exited
        /\ \A t \in Term : Running(t)' <=> Running(t)
        /\ \A t, u \in Term : SameSession(t, u)' <=> SameSession(t, u)
    BY DEF procs, Exited, Running, SameSession
  <1>3. OneStarting' /\ OneClientPerSession'
    <2>1. starting' \subseteq starting /\ starting \subseteq Term
      BY <1>1 DEF Shifted, TypeOK
    <2> QED
      BY <2>1, <1>2 DEF IInv, OneStarting, OneClientPerSession
  <1>4. NoOrphan'
    <2> SUFFICES ASSUME NEW t \in Term, Running(t),
                        ~ \E c \in Attached' : pty[c] = t
                 PROVE  t \in waiting' \cup leaving' \cup still'
      BY <1>2 DEF NoOrphan
    <2>1. CASE t \in eager
      BY <1>1, <2>1 DEF Shifted
    <2>2. CASE t \in leaving \cup (still \ others)
      BY <1>1, <2>2 DEF Shifted
    <2>3. CASE t \in seen \cap ended
      BY <1>1, <2>2, <2>1, <2>3 DEF IInv, EndedIsTracked
    <2>4. t \in waiting \cup leaving \cup still \cup seen
      BY <1>1 DEF IInv, NoOrphan
    <2>5. t \notin Exited
      BY DEF Running, Exited
    <2> QED BY <2>1, <2>2, <2>3, <2>4, <2>5
  <1>5. Known'
    BY <1>1, <1>2 DEF IInv, Known, Shifted
  <1>6. WaitsForAStart'
    BY <1>1, <1>2 DEF IInv, WaitsForAStart, Shifted
  <1>7. EndedIsTracked'
    <2> SUFFICES ASSUME NEW t \in Term, t \in ended', Running(t)
                 PROVE  t \in leaving' \cup still'
      BY <1>1, <1>2 DEF EndedIsTracked, TypeOK, Shifted
    <2>1. t \in ended => t \in leaving \cup still /\ t \notin others
      BY DEF IInv, EndedIsTracked
    <2> QED BY <2>1, <1>1 DEF Shifted
  <1>8. TypeOK'
    BY <1>1, <1>2 DEF TypeOK, Shifted, procs
  <1>9. ShowsALiveClient'
    <2> SUFFICES ASSUME NEW c \in Attached \ D,
                        pty[c] \in ended' \cup waiting' \cup leaving'
                 PROVE  FirstInLine(c, "leave")
      BY <1>1, <1>2 DEF ShowsALiveClient
    <2>1. pty[c] \in ended \cup leaving \cup waiting \cup others \cup seen
      BY <1>1 DEF Shifted
    <2>2. pty[c] \notin seen
      BY DEF IInv, Known
    <2> QED BY <2>1, <2>2 DEF IInv, ShowsALiveClient, Shown
  <1>10. Shown'
    BY <1>1, <1>2 DEF IInv, Shown
  <1> QED BY <1>3, <1>4, <1>5, <1>6, <1>7, <1>8, <1>9, <1>10

(* What the first job in line relies on survives connections being ended    *)
(* while the line stays as it is.                                           *)
LEMMA EndingKeepsTurn ==
    ASSUME IInv, NEW D \in SUBSET Conn, EndConnections(D, {}),
           UNCHANGED <<pty, procs, still, turn, step>>
    PROVE  InTurn'
  <1>1. /\ starting' \subseteq starting /\ ended \subseteq ended'
        /\ leaving' \subseteq leaving \cup waiting \cup {pty[d] : d \in D \cap Attached}
        /\ Attached' = Attached \ D
        /\ \A c \in D : conn'[c] = "gone"
        /\ \A c \in Conn \ D : conn'[c] = conn[c]
    BY EndConnectionsShifts DEF IInv, Shifted
  <1>2. /\ turn = <<>> => step = "entry"
        /\ \A c \in Conn, s \in {"clear", "leave"} : FirstInLine(c, s)' <=> FirstInLine(c, s)
        /\ UNCHANGED <<pty, home, still, turn, step>> /\ Exited' = Exited
        /\ \A u \in Term : Running(u)' <=> Running(u)
    BY DEF IInv, InTurn, FirstInLine, procs, Exited, Running
  <1>3. \A c \in Conn, s \in {"clear", "leave"} : FirstInLine(c, s)' /\ conn'[c] # "gone" =>
          \A d \in Attached' \ {c} : SessionOf[d] # SessionOf[c]
    BY <1>1, <1>2 DEF IInv, InTurn
  <1>4. ASSUME NEW c \in Attached', FirstInLine(c, "leave")'
        PROVE  /\ pty'[c] \in ended' \cup still' \cup Exited'
               /\ \A u \in Term \ {pty'[c]} : Running(u)' \/ u \in leaving' \cup still' =>
                      SessionOf[home'[u]] # SessionOf[c]
    <2>1. /\ c \in Attached \ D /\ FirstInLine(c, "leave") /\ waiting = {}
          /\ \A d \in Attached \ {c} : SessionOf[d] # SessionOf[c]
      BY <1>1, <1>2, <1>4 DEF IInv, InTurn, WaitsForAStart, FirstInLine, Attached
    <2>2. \A d \in D \cap Attached : SessionOf[home[pty[d]]] # SessionOf[c]
      BY <2>1 DEF IInv, Known
    <2> QED BY <2>1, <2>2, <1>1, <1>2 DEF IInv, InTurn
  <1>5. step' = "leave" => starting' = {}
    BY <1>1, <1>2 DEF IInv, InTurn
  <1> QED BY <1>2, <1>3, <1>4, <1>5 DEF InTurn


LEMMA CloseKeeps == ASSUME IInv, NEW c \in Conn, Close(c) PROVE IInv'
  <1> USE DEF Close
  <1>1. InTurn'
    BY EndingKeepsTurn
  <1>2. turn' \in Seq(Conn) /\ step' \in {"entry", "clear", "leave"} /\ down' \in BOOLEAN
    BY DEF IInv, TypeOK
  <1>3. \A d \in Conn : FirstInLine(d, "leave")' <=> FirstInLine(d, "leave")
    BY DEF FirstInLine
  <1> QED BY <1>1, <1>2, <1>3, EndingKeeps DEF IInv, Attached

LEMMA ShutdownKeeps == ASSUME IInv, Shutdown PROVE IInv'
  <1> USE DEF Shutdown
  <1>1. InTurn'
    BY EndingKeepsTurn DEF Attached
  <1>2. turn' \in Seq(Conn) /\ step' \in {"entry", "clear", "leave"} /\ down' \in BOOLEAN
    BY DEF IInv, TypeOK
  <1>3. \A d \in Conn : FirstInLine(d, "leave")' <=> FirstInLine(d, "leave")
    BY DEF FirstInLine
  <1> QED BY <1>1, <1>2, <1>3, EndingKeeps DEF IInv, Attached

(* Once the turn is given on, nothing is relied on until the next job runs. *)
LEMMA GivenOn ==
    ASSUME TypeOK, NEW c \in Conn, NEW s, FirstInLine(c, s), GiveTurnOn
    PROVE  turn' \in Seq(Conn) /\ step' = "entry"
  BY DEF TypeOK, FirstInLine, GiveTurnOn

LEMMA EndsInTurnKeeps ==
    ASSUME IInv, NEW c \in Conn, NEW s \in {"clear", "leave"}, FirstInLine(c, s),
           EndConnections({c}, {}), GiveTurnOn, UNCHANGED <<pty, procs, still, down>>
    PROVE  IInv'
  <1>1. turn' \in Seq(Conn) /\ step' = "entry" /\ down' \in BOOLEAN
    BY GivenOn DEF IInv, TypeOK
  <1>2. \A d \in Attached \ {c} : ~FirstInLine(d, "leave")
    BY DEF FirstInLine
  <1>3. InTurn'
    BY <1>1, EndConnectionsShifts DEF IInv, InTurn, FirstInLine
  <1> QED BY <1>1, <1>2, <1>3, EndingKeeps DEF IInv, Attached

LEMMA RefuseKeeps == ASSUME IInv, NEW c \in Conn, Refuse(c) PROVE IInv'
  BY EndsInTurnKeeps DEF Refuse

LEMMA AttachFailsKeeps == ASSUME IInv, NEW c \in Conn, AttachFails(c) PROVE IInv'
  BY EndsInTurnKeeps DEF AttachFails

LEMMA ReplaceFailsKeeps == ASSUME IInv, NEW c \in Conn, ReplaceFails(c) PROVE IInv'
  BY EndsInTurnKeeps DEF ReplaceFails, PreviousLeft

LEMMA ClearForStartKeeps == ASSUME IInv, NEW c \in Conn, ClearForStart(c) PROVE IInv'
  <1> DEFINE untold == still \ ended
             others == Others(c)
  <1> USE DEF ClearForStart, Others
  <1>1. /\ turn' = turn /\ step' = "clear" /\ step = "entry"
        /\ EndConnections(others, untold) /\ UNCHANGED <<pty, procs, down>>
        /\ others \in SUBSET Conn
        /\ turn' \in Seq(Conn) /\ down' \in BOOLEAN
    BY DEF IInv, TypeOK, FirstInLine, Attached
  <1>2. /\ still' \subseteq still
        /\ \A t \in still \ still' : t \in untold \/ ~Running(t)
    BY DEF Running
  <1>3. \A d \in Attached : ~FirstInLine(d, "leave")
    BY <1>1 DEF FirstInLine
  <1>4. InTurn'
    <2>1. Attached' = Attached \ others
      <3> HIDE DEF others, untold
      <3>1. untold \in SUBSET Term
        BY DEF IInv, TypeOK, untold
      <3> QED BY <1>1, <3>1, EndConnectionsShifts DEF IInv
    <2> QED BY <1>1, <2>1 DEF InTurn, FirstInLine, Attached
  <1> QED BY <1>1, <1>2, <1>3, <1>4, EndingKeeps DEF IInv

-----------------------------------------------------------------------------
(* Actions that end nobody. *)

LEMMA OpenKeeps == ASSUME IInv, NEW c \in Conn, Open(c) PROVE IInv'
  <1> USE DEF Open, Attached, FirstInLine, clients, procs
  <1>1. TypeOK'
    BY DEF IInv, TypeOK
  <1>2. Attached' = Attached /\ Exited' = Exited
    BY DEF IInv, TypeOK, Exited
  <1>3. \A d \in Conn, s \in {"clear", "leave"} : FirstInLine(d, s)' <=> FirstInLine(d, s)
    BY DEF IInv, TypeOK, InTurn
  <1>4. InTurn'
    BY <1>2, <1>3 DEF IInv, InTurn, TypeOK, Running
  <1> QED
    BY <1>1, <1>2, <1>3, <1>4 DEF IInv, OneStarting, NoOrphan, ShowsALiveClient,
       OneClientPerSession, Known, WaitsForAStart, EndedIsTracked, Shown, Running, SameSession

LEMMA RequestReplaceKeeps == ASSUME IInv, NEW c \in Conn, RequestReplace(c) PROVE IInv'
  <1> USE DEF RequestReplace, Attached, FirstInLine, clients, procs
  <1>1. TypeOK'
    BY DEF IInv, TypeOK
  <1>2. Exited' = Exited
    BY DEF Exited
  <1>3. \A d \in Conn, s \in {"clear", "leave"} : FirstInLine(d, s)' <=> FirstInLine(d, s)
    BY DEF IInv, TypeOK, InTurn
  <1>4. InTurn'
    BY <1>2, <1>3 DEF IInv, InTurn, TypeOK, Running
  <1> QED
    BY <1>1, <1>2, <1>3, <1>4 DEF IInv, OneStarting, NoOrphan, ShowsALiveClient,
       OneClientPerSession, Known, WaitsForAStart, EndedIsTracked, Shown, Running, SameSession

(* A job that ends without having started anything. *)
LEMMA GivesUpTurnKeeps ==
    ASSUME IInv, NEW c \in Conn, NEW s, FirstInLine(c, s), conn[c] = "gone", GiveTurnOn,
           UNCHANGED <<conn, pty, clients, procs, still, down>>
    PROVE  IInv'
  <1> USE DEF clients, procs, Attached
  <1>1. turn' \in Seq(Conn) /\ step' = "entry"
    BY GivenOn DEF IInv
  <1>2. TypeOK' /\ Exited' = Exited
    BY <1>1 DEF IInv, TypeOK, Exited
  <1>3. \A d \in Attached : ~FirstInLine(d, "leave")
    BY DEF FirstInLine
  <1>4. InTurn'
    BY <1>1 DEF InTurn, FirstInLine
  <1> QED
    BY <1>2, <1>3, <1>4 DEF IInv, OneStarting, NoOrphan, ShowsALiveClient,
       OneClientPerSession, Known, WaitsForAStart, EndedIsTracked, Shown, Running, SameSession

LEMMA SkipTurnKeeps == ASSUME IInv, NEW c \in Conn, SkipTurn(c) PROVE IInv'
  BY GivesUpTurnKeeps DEF SkipTurn

LEMMA AbandonTurnKeeps == ASSUME IInv, NEW c \in Conn, AbandonTurn(c) PROVE IInv'
  BY GivesUpTurnKeeps DEF AbandonTurn, PreviousLeft

(* Both ways to start a client: nobody else starts or runs on the session,  *)
(* and the client the socket showed before, if any, is gone.                *)
LEMMA SpawnKeeps ==
    ASSUME IInv, NEW c \in Conn, NEW s, NEW t \in Term, FirstInLine(c, s),
           Spawn(c, t), GiveTurnOn, UNCHANGED <<still, down>>,
           starting = {},
           conn' = [conn EXCEPT ![c] = "attached"],
           \A u \in Term : Running(u) => SessionOf[home[u]] # SessionOf[c]
    PROVE  IInv'
  <1> USE DEF Spawn
  <1>1. turn' \in Seq(Conn) /\ step' = "entry"
    BY GivenOn DEF IInv
  <1>2. TypeOK'
    BY <1>1 DEF IInv, TypeOK
  <1>3. /\ Attached' = Attached \cup {c} /\ Exited' = Exited
        /\ pty'[c] = t /\ \A d \in Conn \ {c} : pty'[d] = pty[d]
        /\ home'[t] = c /\ \A u \in Term \ {t} : home'[u] = home[u] /\ proc'[u] = proc[u]
        /\ Running(t)' /\ \A u \in Term \ {t} : Running(u)' <=> Running(u)
    BY DEF IInv, TypeOK, Attached, Exited, Running
  <1>4. t \notin waiting \cup leaving \cup ended \cup still
    BY DEF IInv, Known
  <1>5. \A d \in Attached \ {c} : pty[d] # t /\ ~FirstInLine(d, "leave")
    BY DEF IInv, Known, FirstInLine
  <1>6. waiting = {}
    BY DEF IInv, WaitsForAStart
  <1>7. OneStarting' /\ OneClientPerSession'
    BY <1>3 DEF IInv, OneStarting, OneClientPerSession, SameSession, TypeOK, Running, Known
  <1>8. NoOrphan'
    <2> SUFFICES ASSUME NEW u \in Term \ {t}, Running(u)
                 PROVE  (\E d \in Attached' : pty'[d] = u) \/ u \in leaving \cup still
      BY <1>3 DEF NoOrphan
    <2>1. CASE \E d \in Attached : pty[d] = u
      <3>1. PICK d \in Attached : pty[d] = u
        BY <2>1
      <3>2. d # c
        BY <3>1 DEF IInv, Known
      <3> QED BY <3>1, <3>2, <1>3 DEF Attached
    <2> QED BY <2>1, <1>6 DEF IInv, NoOrphan
  <1>9. ShowsALiveClient' /\ Shown'
    BY <1>3, <1>4, <1>5, <1>6 DEF IInv, ShowsALiveClient, Shown, Attached
  <1>10. Known'
    BY <1>3, <1>5 DEF IInv, Known, Attached, Running, TypeOK
  <1>11. WaitsForAStart' /\ EndedIsTracked'
    BY <1>3, <1>4, <1>6 DEF IInv, WaitsForAStart, EndedIsTracked, TypeOK
  <1>12. InTurn'
    BY <1>1 DEF InTurn, FirstInLine
  <1> QED BY <1>2, <1>7, <1>8, <1>9, <1>10, <1>11, <1>12 DEF IInv

LEMMA AttachKeeps == ASSUME IInv, NEW c \in Conn, Attach(c) PROVE IInv'
  <1> USE DEF Attach
  <1>1. waiting = {} /\ c \notin Attached
    BY DEF IInv, WaitsForAStart, Quiet, Attached
  <1>2. \A u \in Term : Running(u) => SessionOf[home[u]] # SessionOf[c]
    BY <1>1 DEF IInv, NoOrphan, InTurn, Known, Quiet
  <1> QED BY <1>2, SpawnKeeps DEF Quiet

LEMMA ReplaceKeeps == ASSUME IInv, NEW c \in Conn, Replace(c) PROVE IInv'
  <1> USE DEF Replace, PreviousLeft
  <1>1. c \in Attached /\ starting = {}
    BY DEF IInv, InTurn, Attached, FirstInLine
  <1>2. ~Running(pty[c])
    BY <1>1 DEF IInv, InTurn, EndedIsTracked, Exited, Running
  <1>3. \A u \in Term : Running(u) => SessionOf[home[u]] # SessionOf[c]
    BY <1>1, <1>2 DEF IInv, InTurn
  <1>4. conn' = [conn EXCEPT ![c] = "attached"]
    BY DEF IInv, TypeOK
  <1> QED BY <1>1, <1>3, <1>4, SpawnKeeps

LEMMA EndPreviousKeeps == ASSUME IInv, NEW c \in Conn, EndPrevious(c) PROVE IInv'
  <1> DEFINE eager == waiting \cup ({pty[c]} \ (ended \cup Exited))
  <1> USE DEF EndPrevious, Quiet
  <1>1. /\ waiting = {} /\ starting = {} /\ leaving = {} /\ still = {}
        /\ c \in Attached /\ pty[c] \in Term /\ home[pty[c]] = c
        /\ FirstInLine(c, "leave")'
    BY DEF IInv, WaitsForAStart, Known, Attached, FirstInLine
  <1>2. /\ Shifted(eager, starting)
        /\ UNCHANGED <<conn, pty, home, proc, pid, told, still, turn, down>>
    BY EndClientsShifts DEF procs
  <1>3. /\ Attached' = Attached /\ Exited' = Exited
        /\ \A t \in Term : Running(t)' <=> Running(t)
    BY <1>2 DEF Attached, Exited, Running
  <1>4. /\ starting' = {} /\ waiting' = {}
        /\ leaving' \subseteq {pty[c]} /\ ended \subseteq ended'
        /\ ended' \subseteq ended \cup {pty[c]} /\ ended' \ ended \subseteq leaving'
        /\ pty[c] \in ended' \cup Exited
    BY <1>1, <1>2 DEF Shifted
  <1>5. TypeOK'
    BY <1>1, <1>2, <1>4 DEF IInv, TypeOK, EndPrevious
  <1>6. NoOrphan' /\ Known' /\ WaitsForAStart'
    BY <1>1, <1>2, <1>3, <1>4 DEF IInv, NoOrphan, Known, WaitsForAStart
  <1>7. EndedIsTracked'
    BY <1>1, <1>3, <1>4 DEF IInv, EndedIsTracked, TypeOK
  <1>8. ShowsALiveClient' /\ Shown'
    BY <1>1, <1>2, <1>3, <1>4 DEF IInv, ShowsALiveClient, Shown, Known, FirstInLine
  <1>9. InTurn'
    <2>1. \A u \in Term \ {pty[c]} : Running(u) => SessionOf[home[u]] # SessionOf[c]
      BY <1>1 DEF IInv, NoOrphan, InTurn, Known, Attached
    <2> QED
      BY <2>1, <1>1, <1>2, <1>3, <1>4 DEF IInv, InTurn, FirstInLine, Attached
  <1>10. OneStarting' /\ OneClientPerSession'
    BY <1>2, <1>3, <1>4 DEF IInv, OneStarting, OneClientPerSession, SameSession
  <1> QED BY <1>5, <1>6, <1>7, <1>8, <1>9, <1>10 DEF IInv

-----------------------------------------------------------------------------
(* Steps of the clients. *)

LEMMA StartOverKeeps == ASSUME IInv, NEW t \in Term, StartOver(t) PROVE IInv'
  <1> USE DEF StartOver, procs, Running
  <1>1. Shifted(waiting \cup ({} \ (ended \cup Exited)), starting \ {t})
    BY EndClientsShifts
  <1>2. Attached' = Attached /\ Exited' = Exited
    BY DEF Attached, Exited
  <1>3. TypeOK' /\ OneStarting' /\ OneClientPerSession'
    BY <1>1 DEF IInv, TypeOK, Shifted, OneStarting, OneClientPerSession, SameSession
  <1>4. NoOrphan' /\ Known' /\ WaitsForAStart' /\ EndedIsTracked'
    BY <1>1, <1>2 DEF IInv, Shifted, NoOrphan, Known, WaitsForAStart, EndedIsTracked
  <1>5. ShowsALiveClient' /\ Shown'
    BY <1>1, <1>2 DEF IInv, Shifted, ShowsALiveClient, Shown, FirstInLine
  <1>6. InTurn'
    BY <1>1, <1>2 DEF IInv, Shifted, InTurn, FirstInLine
  <1> QED BY <1>3, <1>4, <1>5, <1>6 DEF IInv

LEMMA PidArrivesKeeps == ASSUME IInv, NEW t \in Term, PidArrives(t) PROVE IInv'
  BY DEF PidArrives, clients, IInv, TypeOK, OneStarting, NoOrphan, ShowsALiveClient,
     OneClientPerSession, Known, WaitsForAStart, EndedIsTracked, Shown, InTurn, Attached,
     Exited, Running, SameSession, FirstInLine

LEMMA KillKeeps == ASSUME IInv, NEW t \in Term, Kill(t) PROVE IInv'
  BY DEF Kill, clients, IInv, TypeOK, OneStarting, NoOrphan, ShowsALiveClient,
     OneClientPerSession, Known, WaitsForAStart, EndedIsTracked, Shown, InTurn, Attached,
     Exited, Running, SameSession, FirstInLine

LEMMA DieKeeps == ASSUME IInv, NEW t \in Term, Die(t) PROVE IInv'
  <1> USE DEF Die, clients
  <1>1. /\ TypeOK' /\ Attached' = Attached /\ Exited' = Exited
        /\ \A u \in Term : Running(u)' => Running(u)
        /\ \A u \in Term : proc'[u] = "unborn" <=> proc[u] = "unborn"
    BY DEF IInv, TypeOK, Attached, Exited, Running
  <1>2. OneStarting' /\ OneClientPerSession' /\ NoOrphan' /\ EndedIsTracked' /\ WaitsForAStart'
    BY <1>1 DEF IInv, TypeOK, OneStarting, OneClientPerSession, SameSession, NoOrphan,
       EndedIsTracked, WaitsForAStart
  <1>3. Known'
    BY <1>1 DEF IInv, TypeOK, Known
  <1>4. ShowsALiveClient' /\ Shown' /\ InTurn'
    BY <1>1 DEF IInv, ShowsALiveClient, Shown, InTurn, FirstInLine, Attached
  <1> QED BY <1>1, <1>2, <1>3, <1>4 DEF IInv

LEMMA ExitKeeps == ASSUME IInv, NEW t \in Term, Exit(t) PROVE IInv'
  <1> USE DEF Exit
  <1>1. Shifted(waiting \ {t}, starting \ {t})
    BY ProceedShifts
  <1>2. /\ ~Running(t) /\ t \notin Exited /\ Exited' = Exited \cup {t}
        /\ still' = still \ {t} /\ UNCHANGED <<pty, home, turn, step, down>>
        /\ \A u \in Term : Running(u)' <=> Running(u)
        /\ \A u \in Term : proc'[u] = "unborn" <=> proc[u] = "unborn"
    BY DEF IInv, TypeOK, Exited, Running
  <1>3. TypeOK'
    BY <1>1, <1>2 DEF IInv, TypeOK, Shifted, Exit
  <1>4. /\ Attached' \subseteq Attached
        /\ \A c \in Attached \ Attached' : pty[c] = t
        /\ \A c \in Conn : conn[c] = "gone" => conn'[c] = "gone"
        /\ \A c \in Conn : c \notin Attached => conn'[c] = conn[c]
    BY DEF IInv, TypeOK, Attached
  <1>5. OneStarting' /\ OneClientPerSession'
    BY <1>1, <1>2 DEF IInv, TypeOK, OneStarting, OneClientPerSession, SameSession, Shifted
  <1>6. NoOrphan'
    BY <1>1, <1>2, <1>4 DEF IInv, NoOrphan, Shifted
  <1>7. Known'
    BY <1>1, <1>2, <1>4 DEF IInv, TypeOK, Known, Shifted
  <1>8. WaitsForAStart' /\ EndedIsTracked'
    BY <1>1, <1>2 DEF IInv, TypeOK, WaitsForAStart, EndedIsTracked, Shifted
  <1>9. ShowsALiveClient' /\ Shown'
    BY <1>1, <1>2, <1>4 DEF IInv, ShowsALiveClient, Shown, Shifted, FirstInLine
  <1>10. InTurn'
    <2>1. /\ turn' = <<>> => step' = "entry"
          /\ step' = "leave" => starting' = {}
          /\ \A c \in Conn, s \in {"clear", "leave"} : FirstInLine(c, s)' <=> FirstInLine(c, s)
      BY <1>1, <1>2 DEF IInv, InTurn, Shifted, FirstInLine
    <2>2. \A c \in Conn, s \in {"clear", "leave"} : FirstInLine(c, s)' /\ conn'[c] # "gone" =>
            \A d \in Attached' \ {c} : SessionOf[d] # SessionOf[c]
      BY <1>4, <2>1 DEF IInv, InTurn, TypeOK
    <2>3. ASSUME NEW c \in Attached', FirstInLine(c, "leave")'
          PROVE  /\ pty'[c] \in ended' \cup still' \cup Exited'
                 /\ \A u \in Term \ {pty'[c]} : Running(u)' \/ u \in leaving' \cup still' =>
                        SessionOf[home'[u]] # SessionOf[c]
      <3>1. c \in Attached /\ FirstInLine(c, "leave") /\ waiting = {}
        BY <1>4, <2>1, <2>3 DEF IInv, InTurn, WaitsForAStart, FirstInLine, Attached
      <3>2. leaving' \subseteq leaving /\ ended \subseteq ended'
        BY <1>1, <3>1 DEF Shifted
      <3> QED BY <1>2, <3>1, <3>2 DEF IInv, InTurn
    <2> QED BY <2>1, <2>2, <2>3 DEF InTurn
  <1> QED BY <1>3, <1>5, <1>6, <1>7, <1>8, <1>9, <1>10 DEF IInv

LEMMA GoneKeeps == ASSUME IInv, NEW t \in Term, Gone(t) PROVE IInv'
  <1> USE DEF Gone, procs, Attached, Exited, Running, FirstInLine
  <1>1. TypeOK' /\ ~Running(t)
    BY DEF IInv, TypeOK
  <1>2. OneStarting' /\ OneClientPerSession' /\ NoOrphan' /\ EndedIsTracked' /\ WaitsForAStart'
    BY <1>1 DEF IInv, OneStarting, OneClientPerSession, SameSession, NoOrphan, EndedIsTracked,
       WaitsForAStart
  <1> QED
    BY <1>1, <1>2 DEF IInv, Known, ShowsALiveClient, Shown, InTurn

LEMMA NotGoneKeeps == ASSUME IInv, NEW t \in Term, NotGone(t) PROVE IInv'
  <1> USE DEF NotGone, procs, Attached, Exited, Running, FirstInLine
  <1>1. TypeOK' /\ ended' \subseteq ended /\ ended \ ended' \subseteq still'
    BY DEF IInv, TypeOK
  <1>2. OneStarting' /\ OneClientPerSession' /\ NoOrphan' /\ EndedIsTracked' /\ WaitsForAStart'
    BY <1>1 DEF IInv, OneStarting, OneClientPerSession, SameSession, NoOrphan, EndedIsTracked,
       WaitsForAStart
  <1>3. Known' /\ ShowsALiveClient' /\ Shown' /\ InTurn'
    BY <1>1 DEF IInv, Known, ShowsALiveClient, Shown, InTurn
  <1> QED BY <1>1, <1>2, <1>3 DEF IInv

-----------------------------------------------------------------------------

LEMMA NextKeeps == IInv /\ [Next]_vars => IInv'
  <1> SUFFICES ASSUME IInv, [Next]_vars PROVE IInv'
    OBVIOUS
  <1>1. CASE UNCHANGED vars
    BY <1>1 DEF vars, clients, procs, IInv, TypeOK, OneStarting, NoOrphan, ShowsALiveClient,
       OneClientPerSession, Known, WaitsForAStart, EndedIsTracked, Shown, InTurn, Attached,
       Exited, Running, SameSession, FirstInLine
  <1>2. CASE Next
    <2>1. CASE \E c \in Conn : Open(c) \/ RequestReplace(c) \/ Close(c)
      BY <2>1, OpenKeeps, RequestReplaceKeeps, CloseKeeps
    <2>2. CASE \E c \in Conn : TurnStep(c)
      BY <2>2, SkipTurnKeeps, ClearForStartKeeps, RefuseKeeps, AttachKeeps, AttachFailsKeeps,
         EndPreviousKeeps, ReplaceKeeps, ReplaceFailsKeeps, AbandonTurnKeeps DEF TurnStep
    <2>3. CASE \E t \in Term : StartOver(t) \/ PidArrives(t) \/ Die(t) \/ Exit(t)
      BY <2>3, StartOverKeeps, PidArrivesKeeps, DieKeeps, ExitKeeps
    <2>4. CASE \E t \in Term : LeaveStep(t)
      BY <2>4, KillKeeps, GoneKeeps, NotGoneKeeps DEF LeaveStep
    <2>5. CASE Shutdown
      BY <2>5, ShutdownKeeps
    <2> QED BY <1>2, <2>1, <2>2, <2>3, <2>4, <2>5 DEF Next
  <1> QED BY <1>1, <1>2

LEMMA Inductive == Spec => []IInv
  BY InitIInv, NextKeeps, PTL DEF Spec

(* The manager's state keeps its shape whatever sockets and clients do. *)
THEOREM TypeCorrect == Spec => []TypeOK
  <1>1. IInv => TypeOK
    BY DEF IInv
  <1> QED BY <1>1, Inductive, PTL

(* However many sockets ask, clients start one at a time. *)
THEOREM StartsOneAtATime == Spec => []OneStarting
  <1>1. IInv => OneStarting
    BY DEF IInv
  <1> QED BY <1>1, Inductive, PTL

(* No two clients of ours ever run on one session, so a client that starts *)
(* leaves attach-session -d nobody of ours to detach.                      *)
THEOREM OneClientRuns == Spec => []OneClientPerSession
  <1>1. IInv => OneClientPerSession
    BY DEF IInv
  <1> QED BY <1>1, Inductive, PTL

(* No client that runs is forgotten by the manager. *)
THEOREM NoneForgotten == Spec => []NoOrphan
  <1>1. IInv => NoOrphan
    BY DEF IInv
  <1> QED BY <1>1, Inductive, PTL

(* A connection shows a client that was told to leave only while it is     *)
(* being replaced.                                                         *)
THEOREM ConnectionsShowLiveClients == Spec => []ShowsALiveClient
  <1>1. IInv => ShowsALiveClient
    BY DEF IInv
  <1> QED BY <1>1, Inductive, PTL

(* Whoever starts is alone: nobody else starts or waits to be ended, and   *)
(* nobody of its session leaves or may not have gone.                      *)
THEOREM StartsAreAlone == Spec => StartsAlone
  <1> DEFINE Alone == \A t \in starting' \ starting :
                        /\ starting \cup waiting = {}
                        /\ \A u \in leaving \cup still : SessionOf[home[u]] # SessionOf[home'[t]]
  <1>1. ASSUME IInv, [Next]_vars PROVE [Alone]_vars
    <2>1. ASSUME NEW c \in Conn, Attach(c) PROVE Alone
      <3>1. starting = {} /\ leaving = {} /\ still = {} /\ waiting = {}
        BY <2>1, <1>1 DEF Attach, Quiet, IInv, WaitsForAStart
      <3> QED BY <3>1
    <2>2. ASSUME NEW c \in Conn, Replace(c) PROVE Alone
      <3>1. PICK t \in Term : Spawn(c, t)
        BY <2>2 DEF Replace
      <3>2. starting' = starting \cup {t} /\ home'[t] = c
        BY <3>1, <1>1 DEF Spawn, IInv, TypeOK
      <3>3. /\ c \in Attached /\ FirstInLine(c, "leave") /\ step = "leave"
            /\ pty[c] \notin leaving \cup still
        BY <2>2 DEF Replace, PreviousLeft, FirstInLine, Attached
      <3>4. starting = {} /\ waiting = {}
        BY <3>3, <1>1 DEF IInv, InTurn, WaitsForAStart
      <3>5. \A u \in leaving \cup still : SessionOf[home[u]] # SessionOf[c]
        BY <3>3, <1>1 DEF IInv, InTurn, TypeOK
      <3> QED BY <3>2, <3>4, <3>5
    <2>3. ASSUME starting' \subseteq starting PROVE Alone
      BY <2>3
    <2>4. CASE UNCHANGED vars
      BY <2>4
    <2>5. CASE \E c \in Conn : Close(c) \/ SkipTurn(c) \/ ClearForStart(c) \/ Refuse(c)
                               \/ AttachFails(c) \/ EndPrevious(c) \/ ReplaceFails(c) \/ AbandonTurn(c)
      BY <2>3, <2>5, EndClientsShifts DEF Close, SkipTurn, ClearForStart, Refuse, AttachFails,
         EndPrevious, ReplaceFails, AbandonTurn, EndConnections, clients, Shifted
    <2>6. CASE \E c \in Conn : Open(c) \/ RequestReplace(c)
      BY <2>3, <2>6 DEF Open, RequestReplace, clients
    <2>7. CASE \E t \in Term : StartOver(t) \/ PidArrives(t) \/ Die(t) \/ LeaveStep(t)
      BY <2>3, <2>7, EndClientsShifts DEF StartOver, PidArrives, Die, LeaveStep, Kill, Gone, NotGone,
         clients, Shifted
    <2>8. CASE \E t \in Term : Exit(t)
      BY <2>3, <2>8, ProceedShifts DEF Exit, Shifted
    <2>9. CASE Shutdown
      BY <2>3, <2>9, EndClientsShifts DEF Shutdown, EndConnections, Shifted
    <2> QED BY <1>1, <2>1, <2>2, <2>4, <2>5, <2>6, <2>7, <2>8, <2>9 DEF Next, TurnStep
  <1> QED BY <1>1, Inductive, PTL DEF Spec, StartsAlone

-----------------------------------------------------------------------------
(* Nobody waits for nothing: what the answers of fair schedulers rest on.  *)

(* A socket that asks has a job in line, the only one it has there, and a  *)
(* job that waits for the previous client has one.                         *)
InLine ==
    /\ \A c \in Conn : conn[c] = "asking" => \E k \in 1..Len(turn) : turn[k] = c
    /\ \A k \in 1..Len(turn) : conn[turn[k]] # "new"
    /\ \A k, m \in 1..Len(turn) : turn[k] = turn[m] => k = m
    /\ \A c \in Conn : FirstInLine(c, "leave") => conn[c] \in {"attached", "gone"}

(* The first job in line can go on: a step of TurnStep needs no more.      *)
JobDue(c) ==
    \/ FirstInLine(c, "entry")
    \/ FirstInLine(c, "clear") /\ (conn[c] = "gone" \/ (Quiet /\ conn[c] \in {"asking", "attached"}))
    \/ PreviousLeft(c) /\ conn[c] \in {"attached", "gone"}

(* A client that leaves is told now, or its answer is due (LeaveStep).     *)
AnswerDue(t) ==
    /\ t \in leaving
    /\ \/ t \in pid /\ t \notin told \cup Exited
       \/ t \in Exited \/ (t \in told /\ proc[t] = "dead")
       \/ (t \in told /\ proc[t] = "running") \/ t \notin pid \cup Exited

(* Whoever asks is in line.  While anybody is, the first job can go on, or *)
(* it waits for a client whose start ends by a timer, or which is told to  *)
(* leave and answers.  And a client waits to be ended only while another   *)
(* start is still to end: no two of these wait for one another.            *)
SomebodyIsDue ==
    /\ \A c \in Conn : conn[c] = "asking" => \E k \in 1..Len(turn) : turn[k] = c
    /\ turn # <<>> =>
         \/ \E c \in Conn : JobDue(c)
         \/ starting # {}
         \/ \E t \in Term : AnswerDue(t)
    /\ waiting # {} => starting # {}

LEMMA LineIs ==
    ASSUME TypeOK
    PROVE  /\ Len(turn) \in Nat /\ \A k \in 1..Len(turn) : turn[k] \in Conn
           /\ turn # <<>> => /\ Head(turn) = turn[1] /\ 1 \in 1..Len(turn) /\ turn[1] \in Conn
                             /\ Tail(turn) \in Seq(Conn) /\ Len(Tail(turn)) = Len(turn) - 1
                             /\ \A k \in 1..Len(Tail(turn)) : Tail(turn)[k] = turn[k + 1]
  <1>1. turn \in Seq(Conn)
    BY DEF TypeOK
  <1> QED BY <1>1, HeadTailProperties

(* The line as it was, and no socket asks that did not. *)
LEMMA LineSame ==
    ASSUME TypeOK, InLine, turn' = turn,
           \A c \in Conn : conn'[c] = conn[c] \/ conn'[c] = "gone",
           step' = "leave" => step = "leave"
    PROVE  InLine'
  BY LineIs DEF InLine, FirstInLine

(* A socket gets in line that was not. *)
LEMMA LineGrows ==
    ASSUME TypeOK, InLine, NEW c \in Conn, turn' = Append(turn, c), step' = step,
           turn = <<>> => step = "entry",
           \A k \in 1..Len(turn) : turn[k] # c,
           conn'[c] \in {"asking", "attached"},
           \A d \in Conn \ {c} : conn'[d] = conn[d]
    PROVE  InLine'
  <1>1. turn \in Seq(Conn) /\ Len(turn) \in Nat /\ \A k \in 1..Len(turn) : turn[k] \in Conn
    BY LineIs DEF TypeOK
  <1>2. /\ Len(turn') = Len(turn) + 1 /\ turn'[Len(turn) + 1] = c
        /\ \A k \in 1..Len(turn) : turn'[k] = turn[k]
    BY <1>1, AppendProperties
  <1>3. \A k \in 1..Len(turn') : k \in 1..Len(turn) \/ k = Len(turn) + 1
    BY <1>1, <1>2
  <1>4. ASSUME NEW d \in Conn, conn'[d] = "asking"
        PROVE  \E k \in 1..Len(turn') : turn'[k] = d
    <2>1. CASE d = c
      BY <1>1, <1>2, <2>1
    <2>2. CASE d # c
      <3>1. PICK k \in 1..Len(turn) : turn[k] = d
        BY <1>4, <2>2 DEF InLine
      <3>2. k \in 1..Len(turn') /\ turn'[k] = d
        BY <1>1, <1>2, <3>1
      <3> QED BY <3>2
    <2> QED BY <2>1, <2>2
  <1>5. \A k \in 1..Len(turn') : conn'[turn'[k]] # "new"
    BY <1>1, <1>2, <1>3 DEF InLine
  <1>6. \A k, m \in 1..Len(turn') : turn'[k] = turn'[m] => k = m
    BY <1>1, <1>2, <1>3 DEF InLine
  <1>7. ASSUME NEW d \in Conn, FirstInLine(d, "leave")' PROVE conn'[d] \in {"attached", "gone"}
    <2>1. turn # <<>> /\ step = "leave" /\ Head(turn') = d
      BY <1>7 DEF FirstInLine
    <2>2. Head(turn') = Head(turn) /\ Head(turn) = turn[1] /\ 1 \in 1..Len(turn)
      BY <1>1, <1>2, <2>1, LineIs
    <2>3. d # c /\ FirstInLine(d, "leave")
      BY <2>1, <2>2 DEF FirstInLine
    <2> QED BY <2>3 DEF InLine
  <1> QED BY <1>4, <1>5, <1>6, <1>7 DEF InLine

(* The first job is over, and its socket asks no more. *)
LEMMA LineShrinks ==
    ASSUME TypeOK, InLine, NEW c \in Conn, turn # <<>>, Head(turn) = c, GiveTurnOn,
           conn'[c] # "asking",
           \A d \in Conn : conn'[d] = conn[d] \/ conn'[d] \in {"gone", "attached"}
    PROVE  InLine'
  <1>1. /\ Len(turn) \in Nat /\ c = turn[1] /\ turn' = Tail(turn) /\ step' = "entry"
        /\ Len(turn') = Len(turn) - 1 /\ \A k \in 1..Len(turn') : turn'[k] = turn[k + 1] /\ turn'[k] \in Conn
    <2>1. \A k \in 1..Len(Tail(turn)) : k + 1 \in 1..Len(turn)
      BY LineIs
    <2> QED BY <2>1, LineIs DEF GiveTurnOn
  <1>2. ASSUME NEW d \in Conn, conn'[d] = "asking"
        PROVE  \E k \in 1..Len(turn') : turn'[k] = d
    <2>1. d # c /\ conn[d] = "asking"
      BY <1>2
    <2>2. PICK k \in 1..Len(turn) : turn[k] = d
      BY <2>1 DEF InLine
    <2>3. k # 1
      BY <1>1, <2>1, <2>2
    <2>4. k - 1 \in 1..Len(turn') /\ turn'[k - 1] = d
      BY <1>1, <2>2, <2>3
    <2> QED BY <2>4
  <1>3. \A k \in 1..Len(turn') : k + 1 \in 1..Len(turn)
    BY <1>1
  <1>4. \A k \in 1..Len(turn') : conn'[turn'[k]] # "new"
    BY <1>1, <1>3 DEF InLine
  <1>5. \A k, m \in 1..Len(turn') : turn'[k] = turn'[m] => k = m
    BY <1>1, <1>3 DEF InLine
  <1> QED BY <1>1, <1>2, <1>4, <1>5 DEF InLine, FirstInLine

LEMMA EndingConns ==
    ASSUME TypeOK, NEW D \in SUBSET Conn, NEW others, EndConnections(D, others)
    PROVE  /\ \A d \in D : conn'[d] = "gone"
           /\ \A d \in Conn : conn'[d] = conn[d] \/ conn'[d] = "gone"
  BY DEF EndConnections

LEMMA LineKept == IInv /\ InLine /\ [Next]_vars => InLine'
  <1> SUFFICES ASSUME IInv, InLine, [Next]_vars PROVE InLine'
    OBVIOUS
  <1>0. TypeOK /\ (turn = <<>> => step = "entry")
    BY DEF IInv, InTurn
  <1>1. CASE UNCHANGED vars
    BY <1>0, <1>1, LineSame DEF vars
  <1>2. ASSUME NEW c \in Conn, Open(c) PROVE InLine'
    BY <1>0, <1>2, LineGrows DEF Open, InLine, TypeOK
  <1>3. ASSUME NEW c \in Conn, RequestReplace(c) PROVE InLine'
    BY <1>0, <1>3, LineGrows DEF RequestReplace
  <1>4. ASSUME NEW c \in Conn, Close(c) PROVE InLine'
    <2>1. {c} \in SUBSET Conn
      OBVIOUS
    <2> QED BY <1>0, <1>4, <2>1, EndingConns, LineSame DEF Close
  <1>5. CASE Shutdown
    <2>1. Attached \in SUBSET Conn
      BY DEF Attached
    <2> QED BY <1>0, <1>5, <2>1, EndingConns, LineSame DEF Shutdown
  <1>6. ASSUME NEW c \in Conn, SkipTurn(c) \/ AbandonTurn(c) PROVE InLine'
    <2>1. turn # <<>> /\ Head(turn) = c /\ GiveTurnOn /\ conn' = conn /\ conn[c] = "gone"
      BY <1>6 DEF SkipTurn, AbandonTurn, PreviousLeft, FirstInLine
    <2> QED BY <1>0, <2>1, LineShrinks
  <1>7. ASSUME NEW c \in Conn, Refuse(c) \/ AttachFails(c) \/ ReplaceFails(c) PROVE InLine'
    <2>1. {c} \in SUBSET Conn /\ turn # <<>> /\ Head(turn) = c /\ GiveTurnOn /\ EndConnections({c}, {})
      BY <1>7 DEF Refuse, AttachFails, ReplaceFails, PreviousLeft, FirstInLine
    <2>2. conn'[c] = "gone" /\ \A d \in Conn : conn'[d] = conn[d] \/ conn'[d] = "gone"
      BY <1>0, <2>1, EndingConns
    <2> QED BY <1>0, <2>1, <2>2, LineShrinks
  <1>8. ASSUME NEW c \in Conn, Attach(c) \/ Replace(c) PROVE InLine'
    <2>1. turn # <<>> /\ Head(turn) = c /\ GiveTurnOn
      BY <1>8 DEF Attach, Replace, PreviousLeft, FirstInLine
    <2>2. conn'[c] = "attached" /\ \A d \in Conn : conn'[d] = conn[d] \/ conn'[d] = "attached"
      BY <1>0, <1>8 DEF Attach, Replace, TypeOK
    <2> QED BY <1>0, <2>1, <2>2, LineShrinks
  <1>9. ASSUME NEW c \in Conn, ClearForStart(c) PROVE InLine'
    <2>1. Others(c) \in SUBSET Conn /\ EndConnections(Others(c), still \ ended)
      BY <1>9 DEF ClearForStart, Others, Attached
    <2>2. turn' = turn /\ step' = "clear"
      BY <1>9 DEF ClearForStart
    <2> QED BY <1>0, <2>1, <2>2, EndingConns, LineSame
  <1>10. ASSUME NEW c \in Conn, EndPrevious(c) PROVE InLine'
    <2>1. turn # <<>> /\ Head(turn) = c /\ conn[c] = "attached" /\ conn' = conn /\ turn' = turn
      BY <1>10 DEF EndPrevious, FirstInLine
    <2> QED BY <1>0, <2>1, LineIs DEF InLine, FirstInLine
  <1>11. ASSUME NEW t \in Term, StartOver(t) \/ PidArrives(t) \/ Die(t) \/ LeaveStep(t) PROVE InLine'
    BY <1>0, <1>11, LineSame DEF StartOver, PidArrives, Die, LeaveStep, Kill, Gone, NotGone
  <1>12. ASSUME NEW t \in Term, Exit(t) PROVE InLine'
    <2>1. \A c \in Conn : conn'[c] = conn[c] \/ conn'[c] = "gone"
      BY <1>0, <1>12 DEF Exit, TypeOK
    <2> QED BY <1>0, <1>12, <2>1, LineSame DEF Exit
  <1> QED BY <1>1, <1>2, <1>3, <1>4, <1>5, <1>6, <1>7, <1>8, <1>9, <1>10, <1>11, <1>12 DEF Next, TurnStep

(* The core of Answered and WaitingIsEnded, for any number of sockets and  *)
(* clients: in every state some step that a fair scheduler runs is due for *)
(* whoever waits.                                                          *)
THEOREM NobodyWaitsForNothing == Spec => []SomebodyIsDue
  <1>1. Init => InLine
    BY DEF Init, InLine, FirstInLine
  <1>2. Spec => []InLine
    BY <1>1, LineKept, Inductive, PTL DEF Spec
  <1>3. ASSUME IInv, InLine PROVE SomebodyIsDue
    <2>1. ASSUME NEW t \in leaving PROVE t \in Term /\ AnswerDue(t)
      BY <1>3, <2>1 DEF IInv, Known, TypeOK, AnswerDue, Exited
    <2>2. ASSUME turn # <<>>, starting = {}, leaving = {} PROVE \E c \in Conn : JobDue(c)
      <3> DEFINE c == turn[1]
      <3>1. c \in Conn /\ Head(turn) = c /\ conn[c] \in {"asking", "attached", "gone"}
            /\ step \in {"entry", "clear", "leave"}
        BY <1>3, <2>2, LineIs DEF IInv, TypeOK, InLine
      <3>2. JobDue(c)
        BY <1>3, <2>2, <3>1 DEF JobDue, InLine, FirstInLine, PreviousLeft, Quiet
      <3> QED BY <3>1, <3>2
    <2> QED BY <1>3, <2>1, <2>2 DEF SomebodyIsDue, InLine, IInv, WaitsForAStart
  <1> QED BY <1>2, <1>3, Inductive, PTL

-----------------------------------------------------------------------------
(* ClientTurn implements SessionClients: starting a process is Start, its  *)
(* death is End, and nothing else shows.                                   *)

LEMMA SameOn ==
    ASSUME UNCHANGED <<proc, home>> PROVE on' = on
  BY DEF on, Running

LEMMA SpawnIsStart ==
    ASSUME IInv, NEW c \in Conn, NEW t \in Term, Spawn(c, t),
           \A u \in Term : Running(u) => SessionOf[home[u]] # SessionOf[c]
    PROVE  Promise!Next
  <1> DEFINE s == SessionOf[c]
  <1>1. s \in Session /\ s # Nowhere
    BY ClientTurnAssumption
  <1>2. on[t] = Nowhere /\ \A u \in Term : on[u] # s
    BY <1>1 DEF on, Spawn, Running
  <1>3. on' = [on EXCEPT ![t] = s]
    BY DEF on, Spawn, Running, IInv, TypeOK
  <1> QED BY <1>1, <1>2, <1>3 DEF Promise!Next, Promise!Start

LEMMA DieIsEnd ==
    ASSUME IInv, NEW t \in Term, Die(t) PROVE Promise!Next
  <1>1. Running(t) /\ home[t] \in Conn
    BY DEF IInv, Known, Die, Running
  <1>2. on[t] # Nowhere
    BY <1>1, ClientTurnAssumption DEF on
  <1>3. on' = [on EXCEPT ![t] = Nowhere]
    BY DEF on, Die, Running, IInv, TypeOK
  <1> QED BY <1>2, <1>3 DEF Promise!Next, Promise!End

(* To a session the manager starts a client only where none of its clients *)
(* runs, whatever turns, take-overs and deaths it takes.                   *)
THEOREM ManagerKeepsPromise == Spec => KeepsPromise
  <1>1. Init => Promise!Init
    BY DEF Init, Promise!Init, on, Running
  <1>2. IInv /\ [Next]_vars => [Promise!Next]_on
    <2> SUFFICES ASSUME IInv, [Next]_vars PROVE Promise!Next \/ on' = on
      OBVIOUS
    <2>1. CASE UNCHANGED vars
      BY <2>1, SameOn DEF vars, procs
    <2>2. CASE \E c \in Conn : Attach(c)
      <3> PICK c \in Conn : Attach(c)
        BY <2>2
      <3>1. waiting = {} /\ c \notin Attached
        BY DEF IInv, WaitsForAStart, Attach, Quiet, Attached
      <3>2. \A u \in Term : Running(u) => SessionOf[home[u]] # SessionOf[c]
        BY <3>1 DEF IInv, NoOrphan, InTurn, Known, Quiet, Attach
      <3> QED BY <3>2, SpawnIsStart DEF Attach
    <2>3. CASE \E c \in Conn : Replace(c)
      <3> PICK c \in Conn : Replace(c)
        BY <2>3
      <3>1. c \in Attached /\ FirstInLine(c, "leave") /\ ~Running(pty[c])
        BY DEF IInv, InTurn, EndedIsTracked, Exited, Running, Attached, Replace,
           PreviousLeft, FirstInLine
      <3>2. \A u \in Term : Running(u) => SessionOf[home[u]] # SessionOf[c]
        BY <3>1 DEF IInv, InTurn
      <3> QED BY <3>2, SpawnIsStart DEF Replace
    <2>4. CASE \E t \in Term : Die(t)
      BY <2>4, DieIsEnd
    <2>5. CASE \E t \in Term : Exit(t)
      BY <2>5 DEF Exit, on, Running, IInv, TypeOK
    <2>6. CASE \/ \E c \in Conn : \/ Open(c) \/ RequestReplace(c) \/ Close(c)
                                  \/ SkipTurn(c) \/ ClearForStart(c) \/ Refuse(c)
                                  \/ AttachFails(c) \/ EndPrevious(c)
                                  \/ ReplaceFails(c) \/ AbandonTurn(c)
               \/ \E t \in Term : StartOver(t) \/ PidArrives(t) \/ LeaveStep(t)
               \/ Shutdown
      BY <2>6, SameOn DEF procs, Open, RequestReplace, Close, SkipTurn, ClearForStart, Refuse,
         AttachFails, EndPrevious, ReplaceFails, AbandonTurn, StartOver, PidArrives, LeaveStep,
         Kill, Gone, NotGone, Shutdown
    <2> QED BY <2>1, <2>2, <2>3, <2>4, <2>5, <2>6 DEF Next, TurnStep
  <1> QED BY <1>1, <1>2, Inductive, PTL DEF Spec, KeepsPromise, Promise!Spec

-----------------------------------------------------------------------------
(* One terminal: its size and its input. *)

Writes == [what : Nat, to : 1..MaxClient]

(* What was passed on is a beginning of what was typed. *)
InOrder == Len(sent) <= typed /\ \A k \in 1..Len(sent) : sent[k].what = k

(* The rest is held, or there is none.  A client that leaves gets nothing. *)
RestHeld ==
    /\ live => /\ held = NotHeld => Len(sent) = typed
               /\ held # NotHeld => /\ Len(sent) + Len(held) = typed
                                    /\ \A k \in 1..Len(held) : held[k] = Len(sent) + k
               /\ resizing = "leave" => held # NotHeld
    /\ ~live => held = NotHeld

InputInv == InputTypeOK /\ InOrder /\ RestHeld

(* sent, then the inputs up to n at c. *)
UpTo(n, c) ==
    [k \in 1..n |-> IF k <= Len(sent) THEN sent[k] ELSE [what |-> k, to |-> c]]

-----------------------------------------------------------------------------
(* Writing *)

LEMMA InputNumbers == MaxTyped \in Nat /\ MaxHeld \in Nat /\ MaxClient \in Nat \ {0} /\ NotHeld \notin Seq(Nat)
  BY InputAssumption

(* Writing q to c, when q is what comes next. *)
LEMMA WrittenIsUpTo ==
    ASSUME sent \in Seq(Writes), NEW q \in Seq(Nat), NEW c \in 1..MaxClient,
           \A k \in 1..Len(q) : q[k] = Len(sent) + k
    PROVE  /\ Written(q, c) \in Seq(Writes)
           /\ Len(Written(q, c)) = Len(sent) + Len(q)
           /\ \A k \in 1..Len(Written(q, c)) :
                Written(q, c)[k] = IF k <= Len(sent) THEN sent[k] ELSE [what |-> k, to |-> c]
           /\ Written(q, c) = UpTo(Len(sent) + Len(q), c)
  <1> DEFINE w == [k \in DOMAIN q |-> [what |-> q[k], to |-> c]]
  <1>1. Len(sent) \in Nat /\ Len(q) \in Nat /\ DOMAIN q = 1..Len(q)
    OBVIOUS
  <1>2. \A k \in 1..Len(q) : q[k] \in Nat /\ [what |-> q[k], to |-> c] \in Writes
    BY DEF Writes
  <1>3. w \in Seq(Writes) /\ Len(w) = Len(q) /\ \A k \in 1..Len(q) : w[k] = [what |-> Len(sent) + k, to |-> c]
    BY <1>1, <1>2
  <1> HIDE DEF w
  <1>4. /\ sent \o w \in Seq(Writes) /\ Len(sent \o w) = Len(sent) + Len(q)
        /\ \A k \in 1..(Len(sent) + Len(q)) :
             (sent \o w)[k] = IF k <= Len(sent) THEN sent[k] ELSE w[k - Len(sent)]
    <2>1. \A T, s1, s2 : s1 \in Seq(T) /\ s2 \in Seq(T) =>
            \A i \in 1..(Len(s1) + Len(s2)) :
              (s1 \o s2)[i] = IF i <= Len(s1) THEN s1[i] ELSE s2[i - Len(s1)]
      BY ConcatProperties
    <2>2. \A s2 : s2 \in Seq(Writes) =>
            \A i \in 1..(Len(sent) + Len(s2)) :
              (sent \o s2)[i] = IF i <= Len(sent) THEN sent[i] ELSE s2[i - Len(sent)]
      BY <2>1
    <2>3. sent \o w \in Seq(Writes) /\ Len(sent \o w) = Len(sent) + Len(w)
      <3>1. w \in Seq(Writes)
        BY <1>3
      <3> QED BY <3>1
    <2> QED BY <1>3, <2>2, <2>3
  <1>5. \A k \in 1..(Len(sent) + Len(q)) :
          (sent \o w)[k] = IF k <= Len(sent) THEN sent[k] ELSE [what |-> k, to |-> c]
    BY <1>1, <1>3, <1>4
  <1>6. sent \o w = UpTo(Len(sent) + Len(q), c)
    <2> DEFINE v == sent \o w
               n == Len(sent) + Len(q)
    <2>1. v \in Seq(Writes) /\ Len(v) = n
      BY <1>4
    <2> HIDE DEF v, n
    <2>2. v = [k \in 1..n |-> v[k]]
      BY <2>1
    <2>3. \A k \in 1..n : v[k] = IF k <= Len(sent) THEN sent[k] ELSE [what |-> k, to |-> c]
      BY <1>5 DEF v, n
    <2>4. v = UpTo(n, c)
      BY <2>2, <2>3 DEF UpTo
    <2> QED BY <2>4 DEF v, n
  <1>7. Written(q, c) = sent \o w
    BY DEF Written, w
  <1> QED BY <1>4, <1>5, <1>6, <1>7

(* Nothing written at all. *)
LEMMA NothingWritten ==
    ASSUME sent \in Seq(Writes), NEW c
    PROVE  Written(<<>>, c) = sent
  <1>1. [k \in DOMAIN <<>> |-> [what |-> <<>>[k], to |-> c]] = <<>>
    OBVIOUS
  <1> QED BY <1>1 DEF Written

(* The rest, as a sequence, and that it comes next. *)
LEMMA RestComesNext ==
    ASSUME InputInv, live
    PROVE  /\ Held \in Seq(Nat) /\ Len(sent) + Len(Held) = typed
           /\ \A k \in 1..Len(Held) : Held[k] = Len(sent) + k
  BY DEF InputInv, InputTypeOK, RestHeld, Held

(* What all is written of the rest when it goes to c. *)
LEMMA RestWritten ==
    ASSUME InputInv, live, NEW c \in 1..MaxClient
    PROVE  /\ Written(Held, c) \in Seq(Writes)
           /\ Len(Written(Held, c)) = typed
           /\ \A k \in 1..typed : Written(Held, c)[k].what = k
           /\ Written(Held, c) = UpTo(typed, c)
  <1>1. sent \in Seq(Writes) /\ InOrder
    BY DEF InputInv, InputTypeOK, Writes
  <1>2. \A k \in 1..typed : UpTo(typed, c)[k].what = k
    BY <1>1 DEF InOrder, UpTo
  <1> QED BY <1>1, <1>2, RestComesNext, WrittenIsUpTo

-----------------------------------------------------------------------------
(* The invariant *)

LEMMA InputStarts == ASSUME InputInit PROVE InputInv
  <1>1. sent \in Seq([what : Nat, to : 1..MaxClient]) /\ Len(sent) = 0
    BY DEF InputInit
  <1>2. typed \in 0..MaxTyped /\ shown \in 1..MaxClient
    BY InputNumbers DEF InputInit
  <1>3. InOrder
    BY <1>1 DEF InputInit, InOrder
  <1>4. RestHeld
    BY <1>1 DEF InputInit, RestHeld
  <1>5. InputTypeOK
    BY <1>1, <1>2 DEF InputInit, InputTypeOK
  <1> QED BY <1>3, <1>4, <1>5 DEF InputInv

LEMMA InputKeeps ==
    ASSUME InputInv, Input
    PROVE  InputInv'
  <1>1. /\ live /\ typed' = typed + 1 /\ typed' \in 0..MaxTyped
        /\ UNCHANGED <<shown, size, want, goal, resizing>>
    BY InputNumbers DEF Input, sizeVars, InputInv, InputTypeOK
  <1>2. sent \in Seq(Writes) /\ typed \in Nat /\ Len(sent) \in Nat
    BY DEF InputInv, InputTypeOK, Writes
  <1>3. CASE held = NotHeld /\ sent' = Written(<<typed + 1>>, shown) /\ UNCHANGED <<live, held, settled>>
    <2> DEFINE q == <<typed + 1>>
    <2>1. Len(sent) = typed /\ shown \in 1..MaxClient /\ resizing # "leave"
      BY <1>1, <1>3 DEF InputInv, InputTypeOK, RestHeld
    <2>2. q \in Seq(Nat) /\ Len(q) = 1 /\ \A k \in 1..Len(q) : q[k] = Len(sent) + k
      BY <1>2, <2>1
    <2> HIDE DEF q
    <2>3. /\ sent' \in Seq(Writes) /\ Len(sent') = typed'
          /\ \A k \in 1..Len(sent') :
               sent'[k] = IF k <= Len(sent) THEN sent[k] ELSE [what |-> k, to |-> shown]
      <3>1. /\ Written(q, shown) \in Seq(Writes) /\ Len(Written(q, shown)) = Len(sent) + Len(q)
            /\ \A k \in 1..Len(Written(q, shown)) :
                 Written(q, shown)[k] = IF k <= Len(sent) THEN sent[k] ELSE [what |-> k, to |-> shown]
        BY <1>2, <2>1, <2>2, WrittenIsUpTo
      <3>2. sent' = Written(q, shown)
        BY <1>3 DEF q
      <3> QED BY <1>1, <2>1, <2>2, <3>1, <3>2
    <2>4. InOrder'
      BY <1>1, <1>2, <2>1, <2>3 DEF InputInv, InOrder
    <2>5. RestHeld'
      BY <1>1, <1>3, <2>1, <2>3 DEF RestHeld
    <2>6. InputTypeOK'
      BY <1>1, <1>3, <2>3 DEF InputInv, InputTypeOK, Writes
    <2> QED BY <2>4, <2>5, <2>6 DEF InputInv
  <1>4. CASE held # NotHeld /\ held' = Append(held, typed + 1) /\ UNCHANGED <<live, sent, settled>>
    <2>1. /\ held \in Seq(Nat) /\ Len(sent) + Len(held) = typed
          /\ \A k \in 1..Len(held) : held[k] = Len(sent) + k
      BY <1>1, <1>4 DEF InputInv, InputTypeOK, RestHeld
    <2>2. /\ held' \in Seq(Nat) /\ Len(held') = Len(held) + 1
          /\ \A k \in 1..Len(held') : held'[k] = Len(sent) + k
      <3>1. /\ held' \in Seq(Nat) /\ Len(held') = Len(held) + 1 /\ Len(held) \in Nat
            /\ held'[Len(held) + 1] = typed + 1
            /\ \A k \in 1..Len(held) : held'[k] = held[k]
        BY <1>2, <1>4, <2>1, AppendProperties
      <3>2. ASSUME NEW k \in 1..Len(held')
            PROVE  k \in 1..Len(held) \/ (k = Len(held) + 1 /\ Len(sent) + k = typed + 1)
        BY <1>2, <2>1, <3>1
      <3> QED BY <2>1, <3>1, <3>2
    <2>3. held' # NotHeld
      BY <2>2, InputNumbers
    <2>4. RestHeld'
      <3>1. live' /\ sent' = sent
        BY <1>1, <1>4
      <3>2. Len(sent) + Len(held') = typed'
        BY <1>1, <1>2, <2>1, <2>2
      <3> QED BY <2>2, <2>3, <3>1, <3>2 DEF RestHeld
    <2>5. InOrder'
      BY <1>1, <1>2, <1>4 DEF InputInv, InOrder
    <2> QED BY <1>1, <1>4, <2>2, <2>4, <2>5 DEF InputInv, InputTypeOK
  <1>5. CASE Retired /\ UNCHANGED sent
    <2>1. live' = FALSE /\ held' = NotHeld /\ settled' = TRUE /\ sent' = sent
      BY <1>5 DEF Retired
    <2>2. InOrder'
      BY <1>1, <1>2, <2>1 DEF InputInv, InOrder
    <2>3. RestHeld'
      BY <2>1 DEF RestHeld
    <2>4. sent' \in Seq([what : Nat, to : 1..MaxClient])
      BY <2>1 DEF InputInv, InputTypeOK
    <2>5. InputTypeOK'
      BY <1>1, <2>1, <2>4 DEF InputInv, InputTypeOK
    <2> QED BY <2>2, <2>3, <2>5 DEF InputInv
  <1> QED BY <1>3, <1>4, <1>5 DEF Input

(* The steps that write nothing, hold nothing more and leave the           *)
(* connection as it is, but for what was held.                             *)
LEMMA HeldKeeps ==
    ASSUME InputInv, live, UNCHANGED <<live, typed, sent>>,
           held' = held \/ held' = Held,
           resizing' = "leave" => resizing = "leave" \/ held' = Held
    PROVE  InOrder' /\ RestHeld' /\ held' \in Seq(Nat) \cup {NotHeld}
  <1>1. Held \in Seq(Nat) /\ Held # NotHeld
    BY InputNumbers, RestComesNext
  <1>2. InOrder'
    BY DEF InputInv, InOrder
  <1>3. CASE held' = held
    <2>1. resizing' = "leave" => held # NotHeld
      BY <1>1, <1>3 DEF InputInv, RestHeld
    <2> QED BY <1>2, <1>3, <2>1 DEF InputInv, InputTypeOK, RestHeld
  <1>4. CASE held' = Held
    <2>1. /\ Len(sent) + Len(Held) = typed
          /\ \A k \in 1..Len(Held) : Held[k] = Len(sent) + k
      BY RestComesNext
    <2> HIDE DEF Held
    <2> QED BY <1>1, <1>2, <1>4, <2>1 DEF RestHeld
  <1> QED BY <1>3, <1>4

LEMMA RetiredKeeps ==
    ASSUME InputInv, Retired, UNCHANGED <<typed, sent>>
    PROVE  InOrder' /\ RestHeld' /\ held' = NotHeld /\ live' = FALSE /\ settled' = TRUE
  BY DEF InputInv, Retired, InOrder, RestHeld

LEMMA LoopsKeeps ==
    ASSUME InputInv, Loops
    PROVE  InputInv'
  <1>1. UNCHANGED <<live, typed, shown, settled, size, want>> /\ resizing # "leave"
    BY DEF Loops
  <1>2. CASE live /\ SizeChanging
    <2>1. UNCHANGED <<sent, held>> /\ resizing' = "turn" /\ goal' = want
      BY <1>2 DEF Loops
    <2> QED BY <1>1, <1>2, <2>1, HeldKeeps DEF InputInv, InputTypeOK
  <1>3. CASE live /\ ~SizeChanging
    <2>1. /\ sent' = Written(Held, shown) /\ held' = NotHeld /\ resizing' = "no" /\ goal' = goal
          /\ shown \in 1..MaxClient /\ typed \in Nat
      BY <1>3 DEF Loops, InputInv, InputTypeOK
    <2>2. sent' \in Seq(Writes) /\ Len(sent') = typed /\ \A k \in 1..typed : sent'[k].what = k
      BY <1>3, <2>1, RestWritten
    <2>3. InOrder' /\ RestHeld'
      BY <1>1, <1>3, <2>1, <2>2 DEF InOrder, RestHeld
    <2> QED BY <1>1, <2>1, <2>2, <2>3 DEF InputInv, InputTypeOK, Writes
  <1>4. CASE ~live
    <2>1. UNCHANGED <<live, sent, goal>> /\ held' = NotHeld /\ resizing' = "no"
      BY <1>4 DEF Loops
    <2> QED BY <1>1, <1>4, <2>1 DEF InputInv, InputTypeOK, InOrder, RestHeld
  <1> QED BY <1>2, <1>3, <1>4

LEMMA ReplacesKeeps ==
    ASSUME InputInv, Replaces
    PROVE  InputInv'
  <1>1. /\ live /\ UNCHANGED <<live, typed, want, goal>> /\ size' = goal /\ settled' = FALSE
        /\ resizing' = "again" /\ shown' = shown + 1
        /\ held' = IF want # goal THEN <<>> ELSE NotHeld
    BY DEF Replaces
  <1>2. shown' \in 1..MaxClient /\ sent' = Written(Held, shown') /\ typed \in Nat
    BY InputNumbers DEF Replaces, InputInv, InputTypeOK
  <1>3. sent' \in Seq(Writes) /\ Len(sent') = typed /\ \A k \in 1..typed : sent'[k].what = k
    BY <1>1, <1>2, RestWritten
  <1>4. InOrder' /\ RestHeld'
    BY <1>1, <1>2, <1>3 DEF InOrder, RestHeld
  <1>5. held' \in Seq(Nat) \cup {NotHeld}
    BY <1>1
  <1> QED BY <1>1, <1>2, <1>3, <1>4, <1>5 DEF InputInv, InputTypeOK, Writes

LEMMA InputInductive ==
    ASSUME InputInv, [InputNext]_inputVars
    PROVE  InputInv'
  <1>1. CASE UNCHANGED inputVars
    BY <1>1 DEF inputVars, sizeVars, InputInv, InputTypeOK, InOrder, RestHeld
  <1>2. CASE Input
    BY <1>2, InputKeeps
  <1>3. CASE \E s \in Size : Resize(s)
    <2> PICK s \in Size : Resize(s)
      BY <1>3
    <2>1. held' = held \/ held' = Held
      BY DEF Resize
    <2>2. /\ live /\ UNCHANGED <<live, typed, sent, shown, settled, size, goal>> /\ want' = s
          /\ resizing' \in {"settle", resizing}
      BY DEF Resize
    <2>3. InOrder' /\ RestHeld' /\ held' \in Seq(Nat) \cup {NotHeld}
      BY <2>1, <2>2, HeldKeeps
    <2> QED BY <2>2, <2>3 DEF InputInv, InputTypeOK
  <1>4. CASE Closes \/ GivesUp
    <2>1. Retired /\ UNCHANGED <<typed, sent, shown, size, want, goal, resizing>>
      BY <1>4 DEF Closes, GivesUp, sizeVars
    <2> QED BY <2>1, RetiredKeeps DEF InputInv, InputTypeOK
  <1>5. CASE Settles \/ StopsResizing
    <2>1. /\ UNCHANGED <<live, typed, sent, held, shown, size, want, goal>>
          /\ \/ settled' = TRUE /\ resizing' = resizing
             \/ ~live /\ settled' = settled /\ resizing' = "again"
      BY <1>5 DEF Settles, StopsResizing, sizeVars
    <2>2. sent' \in Seq([what : Nat, to : 1..MaxClient])
      BY <2>1 DEF InputInv, InputTypeOK
    <2>3. InputTypeOK'
      BY <2>1, <2>2 DEF InputInv, InputTypeOK
    <2>4. InOrder' /\ RestHeld'
      BY <2>1 DEF InputInv, InOrder, RestHeld
    <2> QED BY <2>3, <2>4 DEF InputInv
  <1>6. CASE Loops
    BY <1>6, LoopsKeeps
  <1>7. CASE EndsPrevious
    <2>1. /\ live /\ resizing' = "leave" /\ held' = Held
          /\ UNCHANGED <<live, typed, sent, shown, settled, size, want, goal>>
      BY <1>7 DEF EndsPrevious, sizeVars
    <2>2. InOrder' /\ RestHeld' /\ held' \in Seq(Nat) \cup {NotHeld}
      BY <2>1, HeldKeeps
    <2> QED BY <2>1, <2>2 DEF InputInv, InputTypeOK
  <1>8. CASE Replaces
    BY <1>8, ReplacesKeeps
  <1> QED BY <1>1, <1>2, <1>3, <1>4, <1>5, <1>6, <1>7, <1>8 DEF InputNext, Goes

THEOREM InputInvariant == InputSpec => []InputInv
  <1>1. InputInit => InputInv
    BY InputStarts
  <1>2. InputInv /\ [InputNext]_inputVars => InputInv'
    BY InputInductive
  <1> QED BY <1>1, <1>2, PTL DEF InputSpec

(* The variables keep to the values the code gives them, for any number of *)
(* clients, inputs and sizes.                                              *)
THEOREM InputTypeCorrect == InputSpec => []InputTypeOK
  BY InputInvariant, PTL DEF InputInv

-----------------------------------------------------------------------------
(* One channel *)

(* A step that writes nothing, types nothing and leaves the connection as  *)
(* it is, is invisible but for clients told to leave.                      *)
LEMMA SilentStep ==
    ASSUME UNCHANGED <<typed, sent, live>>, ToldToLeave \subseteq ToldToLeave'
    PROVE  [Channel!Next]_Channel!channelVars
  BY DEF Channel!Next, Channel!Leave

(* The end of the connection tells every client to leave. *)
LEMMA EndsChannel ==
    ASSUME InputInv, Retired, sent' = sent, shown' = shown, typed' \in {typed, typed + 1}
    PROVE  Channel!End
  <1>1. ToldToLeave \subseteq ToldToLeave'
    BY DEF Retired, ToldToLeave, InputInv, InputTypeOK
  <1> QED BY <1>1 DEF Channel!End, Retired

LEMMA InputIsType ==
    ASSUME InputInv, Input
    PROVE  Channel!Type \/ Channel!End
  <1>1. live /\ typed' = typed + 1 /\ UNCHANGED <<shown, resizing>>
    BY DEF Input
  <1>2. CASE held = NotHeld /\ sent' = Written(<<typed + 1>>, shown) /\ UNCHANGED <<live, held, settled>>
    <2> DEFINE q == <<typed + 1>>
    <2>1. /\ sent \in Seq(Writes) /\ typed \in Nat /\ Len(sent) = typed
          /\ shown \in 1..MaxClient /\ resizing # "leave"
      BY <1>1, <1>2 DEF InputInv, InputTypeOK, RestHeld, Writes
    <2>2. q \in Seq(Nat) /\ Len(q) = 1 /\ \A k \in 1..Len(q) : q[k] = Len(sent) + k
      BY <2>1
    <2> HIDE DEF q
    <2>3. sent' = UpTo(typed + 1, shown)
      BY <1>2, <2>1, <2>2, WrittenIsUpTo DEF q
    <2>4. ToldToLeave = 1..(shown - 1) /\ ToldToLeave' = ToldToLeave
      BY <1>1, <1>2, <2>1 DEF ToldToLeave
    <2>5. shown \in (1..MaxClient) \ ToldToLeave
      BY <2>1, <2>4
    <2> QED BY <1>1, <1>2, <2>3, <2>4, <2>5 DEF Channel!Type, Channel!PassOn, UpTo
  <1>3. CASE UNCHANGED <<live, sent, settled>>
    BY <1>1, <1>3 DEF Channel!Type, ToldToLeave
  <1>4. CASE Retired /\ UNCHANGED sent
    BY <1>1, <1>4, EndsChannel
  <1> QED BY <1>2, <1>3, <1>4 DEF Input

LEMMA LoopsIsDeliver ==
    ASSUME InputInv, Loops
    PROVE  [Channel!Next]_Channel!channelVars
  <1>1. UNCHANGED <<live, typed, shown>> /\ resizing # "leave" /\ resizing' # "leave"
    BY DEF Loops
  <1>2. ToldToLeave' = ToldToLeave
    BY <1>1 DEF ToldToLeave
  <1>3. CASE live /\ ~SizeChanging
    <2>1. sent' = Written(Held, shown) /\ shown \in 1..MaxClient
      BY <1>3 DEF Loops, InputInv, InputTypeOK
    <2>2. sent' = UpTo(typed, shown)
      BY <1>3, <2>1, RestWritten
    <2>3. shown \in (1..MaxClient) \ ToldToLeave'
      BY <1>1, <1>2, <1>3, <2>1 DEF ToldToLeave
    <2>4. Channel!Deliver
      BY <1>1, <1>2, <1>3, <2>2, <2>3 DEF Channel!Deliver, Channel!PassOn, UpTo
    <2> QED BY <2>4 DEF Channel!Next
  <1>4. CASE ~(live /\ ~SizeChanging)
    <2>1. sent' = sent
      BY <1>4 DEF Loops
    <2> QED BY <1>1, <1>2, <2>1, SilentStep
  <1> QED BY <1>3, <1>4

LEMMA ReplacesIsDeliver ==
    ASSUME InputInv, Replaces
    PROVE  Channel!Deliver
  <1>1. live /\ UNCHANGED <<live, typed>> /\ resizing = "leave" /\ resizing' = "again" /\ shown' = shown + 1
    BY DEF Replaces
  <1>2. shown \in Nat /\ shown' \in 1..MaxClient /\ sent' = Written(Held, shown')
    BY InputNumbers DEF Replaces, InputInv, InputTypeOK
  <1>3. sent' = UpTo(typed, shown')
    BY <1>1, <1>2, RestWritten
  <1>4. ToldToLeave = 1..shown /\ ToldToLeave' = 1..shown
    BY <1>1, <1>2 DEF ToldToLeave
  <1>5. shown' \in (1..MaxClient) \ ToldToLeave'
    BY <1>1, <1>2, <1>4
  <1> QED BY <1>1, <1>3, <1>4, <1>5 DEF Channel!Deliver, Channel!PassOn, UpTo

(* What is typed arrives in order, once, and at a client that was not told *)
(* to leave: _setClientSize and _replaceClient, however sizes change and   *)
(* whenever the connection ends.                                           *)
THEOREM TerminalIsOneChannel == InputSpec => IsOneChannel
  <1>1. InputInit => Channel!Init
    BY DEF InputInit, Channel!Init, ToldToLeave
  <1>2. InputInv /\ [InputNext]_inputVars => [Channel!Next]_Channel!channelVars
    <2> SUFFICES ASSUME InputInv, [InputNext]_inputVars
                 PROVE  [Channel!Next]_Channel!channelVars
      OBVIOUS
    <2>1. CASE UNCHANGED inputVars
      BY <2>1, SilentStep DEF inputVars, ToldToLeave
    <2>2. CASE Input
      BY <2>2, InputIsType DEF Channel!Next
    <2>3. CASE Settles \/ StopsResizing \/ \E s \in Size : Resize(s)
      <3>1. UNCHANGED <<typed, sent, live, shown>> /\ (live => (resizing' = "leave" <=> resizing = "leave"))
        BY <2>3 DEF Settles, StopsResizing, Resize
      <3>2. ToldToLeave' = ToldToLeave
        BY <3>1 DEF ToldToLeave
      <3> QED BY <3>1, <3>2, SilentStep
    <2>4. CASE Closes \/ GivesUp
      <3>1. Retired /\ UNCHANGED <<typed, sent, shown>>
        BY <2>4 DEF Closes, GivesUp
      <3> QED BY <3>1, EndsChannel DEF Channel!Next
    <2>5. CASE Loops
      BY <2>5, LoopsIsDeliver
    <2>6. CASE EndsPrevious
      <3>1. live /\ resizing' = "leave" /\ resizing = "turn" /\ UNCHANGED <<typed, sent, live, shown>>
        BY <2>6 DEF EndsPrevious
      <3>2. ToldToLeave \subseteq ToldToLeave'
        BY <3>1 DEF ToldToLeave, InputInv, InputTypeOK
      <3> QED BY <3>1, <3>2, SilentStep
    <2>7. CASE Replaces
      BY <2>7, ReplacesIsDeliver DEF Channel!Next
    <2> QED BY <2>1, <2>2, <2>3, <2>4, <2>5, <2>6, <2>7 DEF InputNext, Goes
  <1> QED BY <1>1, <1>2, InputInvariant, PTL DEF InputSpec, IsOneChannel, Channel!Spec

-----------------------------------------------------------------------------
(* What is held is held for a reason *)

(* While another size is wanted than the client has, what is typed is held *)
(* and not written to it; and whatever is held, _setClientSize goes on: it *)
(* waits for a client that has a time to settle, for a turn that comes or  *)
(* is refused, or for a client told to leave.  No more is held than may be.*)
HeldForAReason ==
    live => /\ want # size => held # NotHeld
            /\ held # NotHeld => resizing # "no" /\ Len(held) <= MaxHeld

LEMMA HeldStays ==
    ASSUME InputInv, HeldForAReason, [InputNext]_inputVars
    PROVE  HeldForAReason'
  <1>1. /\ held \in Seq(Nat) \cup {NotHeld} /\ NotHeld \notin Seq(Nat) /\ MaxHeld \in Nat /\ typed \in Nat
        /\ <<>> \in Seq(Nat) /\ Len(<<>>) = 0
    BY InputNumbers DEF InputInv, InputTypeOK
  <1>2. CASE UNCHANGED inputVars
    BY <1>2 DEF inputVars, sizeVars, HeldForAReason
  <1>3. CASE Input
    <2>1. CASE held # NotHeld /\ Len(held) < MaxHeld /\ held' = Append(held, typed + 1)
      <3>1. held' \in Seq(Nat) /\ Len(held') = Len(held) + 1 /\ Len(held) \in Nat
        BY <1>1, <2>1, AppendProperties
      <3>2. held' # NotHeld
        BY <1>1, <3>1
      <3>3. Len(held') <= MaxHeld
        BY <1>1, <2>1, <3>1
      <3>4. resizing' = resizing /\ resizing # "no"
        BY <1>3, <2>1 DEF Input, HeldForAReason
      <3> QED BY <3>2, <3>3, <3>4 DEF HeldForAReason
    <2>2. CASE ~(held # NotHeld /\ Len(held) < MaxHeld /\ held' = Append(held, typed + 1))
      BY <1>3, <2>2 DEF Input, Retired, sizeVars, HeldForAReason
    <2> QED BY <2>1, <2>2
  <1>4. ASSUME NEW s \in Size, Resize(s) PROVE HeldForAReason'
    <2>1. live => Held \in Seq(Nat) /\ Len(Held) <= MaxHeld
      BY <1>1 DEF Held, HeldForAReason
    <2> QED BY <1>1, <1>4, <2>1 DEF Resize, HeldForAReason
  <1>5. CASE Closes \/ GivesUp
    BY <1>5 DEF Closes, GivesUp, Retired, HeldForAReason
  <1>6. CASE Settles \/ Loops \/ StopsResizing
    BY <1>6 DEF Settles, Loops, StopsResizing, SizeChanging, sizeVars, HeldForAReason
  <1>7. CASE EndsPrevious
    <2>1. Len(Held) <= MaxHeld /\ Held \in Seq(Nat)
      BY <1>1, <1>7 DEF EndsPrevious, Held, HeldForAReason
    <2> QED BY <1>1, <1>7, <2>1 DEF EndsPrevious, sizeVars, HeldForAReason
  <1>8. CASE Replaces
    <2>1. <<>> # NotHeld /\ Len(<<>>) <= MaxHeld
      <3>1. Len(<<>>) = 0 /\ 0 <= MaxHeld
        BY <1>1
      <3>2. <<>> # NotHeld
        BY <1>1
      <3> QED BY <3>1, <3>2
    <2>2. /\ want' = want /\ size' = goal /\ resizing' = "again"
          /\ held' = IF want # goal THEN <<>> ELSE NotHeld
      BY <1>8 DEF Replaces
    <2>3. CASE want # goal
      <3>1. held' = <<>>
        BY <2>2, <2>3
      <3> QED BY <2>1, <2>2, <3>1 DEF HeldForAReason
    <2>4. CASE want = goal
      BY <2>2, <2>4 DEF HeldForAReason
    <2> QED BY <2>3, <2>4
  <1> QED BY <1>2, <1>3, <1>4, <1>5, <1>6, <1>7, <1>8 DEF InputNext, Goes

(* The core of EverythingArrives and SizeReached: a terminal whose client  *)
(* has another size than the one wanted, or that holds input, is never     *)
(* left so with nobody at work on it, and its buffer has a limit.          *)
THEOREM NothingIsLeftHeld == InputSpec => []HeldForAReason
  <1>1. InputInit => HeldForAReason
    BY DEF InputInit, HeldForAReason
  <1> QED BY <1>1, HeldStays, InputInvariant, PTL DEF InputSpec

=============================================================================
