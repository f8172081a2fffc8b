--------------------------- MODULE MoshTerminals ---------------------------
(***************************************************************************)
(* The terminals a hub opens over mosh on a node: MoshTerminals of         *)
(* lib/hub/mosh-terminal.js, with the node's sessions (MoshSessions).      *)
(*                                                                         *)
(* Each browser socket gets a session id of its own.  The hub asks the     *)
(* node for the session, runs a mosh-client and bridges the socket to it;  *)
(* or it falls back and relays the socket to the node's own terminal, once *)
(* the node said that nothing of the session is left.  The first attempt   *)
(* on a link's pairing is a trial others wait for.  A POST may arrive when *)
(* its sender is long gone; a DELETE or its answer may be lost.            *)
(*                                                                         *)
(* Abstracted: addresses, versions and the search for mosh-client, the     *)
(* deadlines (each may pass at any moment), what is on the screen.         *)
(***************************************************************************)
EXTENDS MoshSessions

CONSTANTS
    MaxGen,     \* bound: pairings of the link
    NoTrial     \* no attempt is the trial

ASSUME TerminalAssumption == MaxGen \in Nat \ {0} /\ NoTrial \notin Id

VARIABLES
    attempt,    \* Id -> the terminal: open(), _upgrade() and _bridge()
    scope,      \* generation -> what is known of mosh over this pairing
    gen,        \* the link's generation
    cut,        \* links of generations up to this one are closed
    owned,      \* _pendingCleanup: attempts to end, until that is confirmed
    cleaning,   \* Id -> where _cleanOwned is
    asks,       \* Id -> how many DELETEs were sent
    wire,       \* DELETEs on their way
    hubDown     \* closeAll was called

nodeButReplies == <<phase, asking, post, cancelled, procVars, finishing, lineVars, shutting, settling>>
hubSide == <<attempt, scope, gen, cut, owned, cleaning, asks, wire, hubDown>>
moshVars == <<nodeVars, hubSide>>

Gen == 1..MaxGen

(* relayed: the socket is on its way to the node's own terminal, attached: *)
(* it got there; refused: it was closed, with 503 unless it was bridged.   *)
(* gone: nothing to fall back for.  local: the mosh-client.                *)
Attempts == [stage : {"none", "waiting", "prepare", "posting", "contact", "bridged",
                      "cleaning", "reclean", "relayed", "attached", "refused"},
             gen : Gen, posted : BOOLEAN, local : {"none", "runs", "gone"},
             gone : BOOLEAN, cleaned : BOOLEAN]

(* verified: mosh came up on this pairing; a failure counts for a time, or   *)
(* until retry().                                                          *)
Scopes == [verified : BOOLEAN, trial : Id \cup {NoTrial}, unclean : SUBSET Id]

ComingUp == {"waiting", "prepare", "posting", "contact"}

MoshInit ==
    /\ NodeInit
    /\ attempt = [i \in Id |-> [stage |-> "none", gen |-> 1, posted |-> FALSE, local |-> "none",
                                gone |-> FALSE, cleaned |-> FALSE]]
    /\ scope = [g \in Gen |-> [verified |-> FALSE, trial |-> NoTrial, unclean |-> {}]]
    /\ gen = 1 /\ cut = 0 /\ owned = {} /\ cleaning = [i \in Id |-> "no"]
    /\ asks = [i \in Id |-> 0] /\ wire = {} /\ hubDown = FALSE

Of(i) == scope[attempt[i].gen]

-----------------------------------------------------------------------------
(* Ending an attempt *)

(* Something went wrong, or the socket, the link or the hub went: what the *)
(* attempts of S hold is ended (_cleanOwned).                              *)
Fail(S, gone) ==
    /\ attempt' = [i \in Id |-> IF i \in S THEN [attempt[i] EXCEPT !.stage = "cleaning", !.gone = gone]
                                           ELSE attempt[i]]
    /\ cleaning' = [i \in Id |-> IF i \in S THEN "local" ELSE cleaning[i]]
    /\ owned' = owned \cup S

(* Broken variant: an end that failed is nobody's any more. *)
CleanedForgets(i, clean) ==
    /\ cleaning' = [cleaning EXCEPT ![i] = "no"]
    /\ owned' = owned \ {i}
    /\ attempt' = [attempt EXCEPT ![i].cleaned = clean]
    /\ scope' = [scope EXCEPT ![attempt[i].gen].unclean = @ \ {i}]

(* _cleanOwned is over. *)
Cleaned(i, clean) ==
    /\ cleaning' = [cleaning EXCEPT ![i] = "no"]
    /\ owned' = IF clean THEN owned \ {i} ELSE owned
    /\ attempt' = [attempt EXCEPT ![i].cleaned = clean]
    /\ scope' = [scope EXCEPT ![attempt[i].gen].unclean = IF clean THEN @ \ {i} ELSE @ \cup {i}]

(* stopLocalClient: first the mosh-client, which may not go in time; then  *)
(* the node is asked, if it may hold a session.                            *)
LocalStops(i) ==
    /\ cleaning[i] = "local"
    /\ \/ /\ attempt[i].local = "runs"
          /\ Cleaned(i, FALSE) /\ UNCHANGED <<asks, wire>>
       \/ /\ ~attempt[i].posted
          /\ Cleaned(i, TRUE) /\ UNCHANGED <<asks, wire>>
       \/ /\ attempt[i].posted /\ asks[i] < MaxAsk /\ cut < attempt[i].gen
          /\ cleaning' = [cleaning EXCEPT ![i] = "asked"]
          /\ attempt' = [attempt EXCEPT ![i].local = IF @ = "runs" THEN "gone" ELSE @]
          /\ asks' = [asks EXCEPT ![i] = @ + 1]
          /\ wire' = wire \cup {[id |-> i, n |-> asks[i] + 1]}
          /\ UNCHANGED <<owned, scope>>
       \/ /\ attempt[i].posted /\ (asks[i] = MaxAsk \/ cut >= attempt[i].gen)
          /\ Cleaned(i, FALSE) /\ UNCHANGED <<asks, wire>>
    /\ UNCHANGED <<nodeVars, gen, cut, hubDown>>

(* The node answered, or the answer did not come. *)
DeleteAnswered(i) ==
    /\ cleaning[i] = "asked"
    /\ \/ \E r \in replies : r.id = i /\ r.n = asks[i] /\ Cleaned(i, r.clean)
       \/ Cleaned(i, FALSE)
    /\ replies' = {r \in replies : r.id # i}
    /\ UNCHANGED <<nodeButReplies, gen, cut, asks, wire, hubDown>>

(* finishTrial: those who wait for it go on, or are refused with it. *)
TrialOver(i, clean, own) ==
    IF Of(i).trial # i THEN attempt' = own
    ELSE attempt' = [j \in Id |->
      IF own[j].stage = "waiting" /\ own[j].gen = own[i].gen /\ ~clean
      THEN [own[j] EXCEPT !.stage = "refused"] ELSE own[j]]

(* Broken variant: the trial is over only when nothing is left of it. *)
WithCleanTrial(i) == IF Of(i).trial = i /\ attempt[i].cleaned THEN NoTrial ELSE Of(i).trial

(* The trial goes with the attempt, whatever became of it. *)
WithoutTrial(i) == IF Of(i).trial = i THEN NoTrial ELSE Of(i).trial

(* After its clean-up an attempt that failed is relayed if it is confirmed *)
(* that nothing is left, and refused otherwise.                            *)
FallsBack(i) ==
    /\ attempt[i].stage = "cleaning" /\ cleaning[i] = "no"
    /\ LET wanted == ~attempt[i].gone /\ attempt[i].gen = gen /\ ~hubDown IN
       /\ TrialOver(i, attempt[i].cleaned,
            [attempt EXCEPT ![i].stage = IF wanted /\ attempt[i].cleaned THEN "relayed" ELSE "refused"])
       /\ scope' = [scope EXCEPT ![attempt[i].gen].trial = WithoutTrial(i),
                                 ![attempt[i].gen].verified = @ /\ ~wanted]
    /\ UNCHANGED <<nodeVars, gen, cut, owned, cleaning, asks, wire, hubDown>>

-----------------------------------------------------------------------------
(* Coming up *)

Opens(i) ==
    /\ attempt[i].stage = "none" /\ ~hubDown
    /\ attempt' = [attempt EXCEPT ![i].stage = "waiting", ![i].gen = gen]
    /\ UNCHANGED <<nodeVars, scope, gen, cut, owned, cleaning, asks, wire, hubDown>>

(* No trial is under way: sessions left over are ended first, under a      *)
(* trial of this attempt; or mosh is not to be used, or failed lately; or  *)
(* it is tried, as a trial unless it came up before (which retry forgets). *)
Proceeds(i) ==
    /\ attempt[i].stage = "waiting" /\ Of(i).trial = NoTrial
    /\ \/ /\ Of(i).unclean # {}
          /\ attempt' = [attempt EXCEPT ![i].stage = "reclean"]
          /\ scope' = [scope EXCEPT ![gen].trial = i]
          /\ cleaning' = [j \in Id |-> IF j \in Of(i).unclean /\ cleaning[j] = "no" THEN "local" ELSE cleaning[j]]
       \/ /\ Of(i).unclean = {}
          /\ attempt' = [attempt EXCEPT ![i].stage = "relayed"]
          /\ UNCHANGED <<scope, cleaning>>
       \/ /\ Of(i).unclean = {}
          /\ attempt' = [attempt EXCEPT ![i].stage = "prepare"]
          /\ scope' = IF Of(i).verified THEN scope ELSE [scope EXCEPT ![gen].trial = i]
          /\ UNCHANGED cleaning
    /\ UNCHANGED <<nodeVars, gen, cut, owned, asks, wire, hubDown>>

(* All the left-over ones were tried once more. *)
Recleaned(i) ==
    /\ attempt[i].stage = "reclean"
    /\ \A j \in Of(i).unclean : cleaning[j] = "no"
    /\ LET clean == Of(i).unclean = {}
           wanted == ~attempt[i].gone /\ attempt[i].gen = gen /\ ~hubDown IN
       TrialOver(i, clean, [attempt EXCEPT ![i].stage = IF clean /\ wanted THEN "relayed" ELSE "refused"])
    /\ scope' = [scope EXCEPT ![attempt[i].gen].trial = WithoutTrial(i)]
    /\ UNCHANGED <<nodeVars, gen, cut, owned, cleaning, asks, wire, hubDown>>

(* The node is reachable and has an address: the session is asked for. *)
Prepared(i) ==
    /\ attempt[i].stage = "prepare"
    /\ attempt' = [attempt EXCEPT ![i].stage = "posting", ![i].posted = TRUE]
    /\ post' = [post EXCEPT ![i] = "sent"]
    /\ UNCHANGED <<phase, asking, cancelled, procVars, finishing, lineVars, shutting, settling, replies,
                   scope, gen, cut, owned, cleaning, asks, wire, hubDown>>

Started(i) ==
    /\ attempt[i].stage = "posting" /\ post[i] = "ok"
    /\ attempt' = [attempt EXCEPT ![i].stage = "contact", ![i].local = "runs"]
    /\ UNCHANGED <<nodeVars, scope, gen, cut, owned, cleaning, asks, wire, hubDown>>

(* Refused before the node reserved anything: there is nothing to end.     *)
NeverStarted(i) ==
    /\ attempt[i].stage = "posting" /\ post[i] = "never"
    /\ attempt' = [attempt EXCEPT ![i].stage = "cleaning", ![i].posted = FALSE]
    /\ cleaning' = [cleaning EXCEPT ![i] = "local"]
    /\ owned' = owned \cup {i}
    /\ UNCHANGED <<nodeVars, scope, gen, cut, asks, wire, hubDown>>

(* An error, or a limit of time. *)
AttemptFails(i) ==
    /\ attempt[i].stage \in {"prepare", "posting", "contact"}
    /\ Fail({i}, FALSE)
    /\ UNCHANGED <<nodeVars, scope, gen, cut, asks, wire, hubDown>>

(* The screen came: the browser's socket is bridged. *)
Bridged(i) ==
    /\ attempt[i].stage = "contact" /\ attempt[i].local = "runs" /\ alive[i] # {}
    /\ LET current == attempt[i].gen = gen IN
       /\ TrialOver(i, TRUE, [attempt EXCEPT ![i].stage = "bridged"])
       /\ scope' = [scope EXCEPT ![attempt[i].gen].trial = WithoutTrial(i),
                                 ![attempt[i].gen].verified = @ \/ current]
    /\ UNCHANGED <<nodeVars, gen, cut, owned, cleaning, asks, wire, hubDown>>

LocalExits(i) ==
    /\ attempt[i].local = "runs"
    /\ attempt' = [attempt EXCEPT ![i].local = "gone"]
    /\ UNCHANGED <<nodeVars, scope, gen, cut, owned, cleaning, asks, wire, hubDown>>

(* The socket closes; or a bridged terminal's mosh-client exited, or the   *)
(* node said that the session is over.                                     *)
Leaves(i) ==
    /\ attempt[i].stage \in ComingUp \cup {"bridged"}
    /\ Fail({i}, TRUE)
    /\ UNCHANGED <<nodeVars, scope, gen, cut, asks, wire, hubDown>>

LeavesReclean(i) ==
    /\ attempt[i].stage = "reclean" /\ ~attempt[i].gone
    /\ attempt' = [attempt EXCEPT ![i].gone = TRUE]
    /\ UNCHANGED <<nodeVars, scope, gen, cut, owned, cleaning, asks, wire, hubDown>>

Adopted == {i \in Id : attempt[i].stage \in ComingUp \cup {"bridged"} /\ attempt[i].gen = gen}

(* The link forgets its pairing, or is closed for good. *)
LinkResets ==
    /\ gen < MaxGen /\ gen' = gen + 1
    /\ cut' \in {cut, gen}
    /\ Fail(Adopted, TRUE)
    /\ UNCHANGED <<nodeVars, scope, asks, wire, hubDown>>

(* closeAll ends every attempt, and tries once more what is left.          *)
HubCloses ==
    /\ ~hubDown /\ hubDown' = TRUE
    /\ Fail(Adopted, TRUE)
    /\ UNCHANGED <<nodeVars, scope, gen, cut, asks, wire>>

HubRetries(i) ==
    /\ hubDown /\ \A j \in Id : attempt[j].stage \notin ComingUp \cup {"cleaning", "bridged", "reclean"}
    /\ i \in owned /\ cleaning[i] = "no" /\ asks[i] < MaxAsk
    /\ cleaning' = [cleaning EXCEPT ![i] = "local"]
    /\ UNCHANGED <<nodeVars, attempt, scope, gen, cut, owned, asks, wire, hubDown>>

-----------------------------------------------------------------------------
(* Messages *)

DeleteReaches(m) ==
    /\ m \in wire /\ wire' = wire \ {m}
    /\ DeleteArrives(m.id, m.n)
    /\ UNCHANGED <<attempt, scope, gen, cut, owned, cleaning, asks, hubDown>>

(* The connection of a POST the hub no longer waits for closes. *)
PostCloses(i) ==
    /\ attempt[i].stage # "posting"
    /\ PostAbandoned(i)
    /\ UNCHANGED hubSide

(* The relayed socket reaches the node: its own terminal gets in line. *)
RelayReaches(i) ==
    /\ attempt[i].stage = "relayed"
    /\ attempt' = [attempt EXCEPT ![i].stage = "attached"]
    /\ line' = Append(line, PanelOf(i))
    /\ UNCHANGED <<phase, asking, post, cancelled, procVars, finishing, place, panel, shutting, settling,
                   replies, scope, gen, cut, owned, cleaning, asks, wire, hubDown>>

HubContinues(i) == Proceeds(i) \/ Recleaned(i) \/ FallsBack(i)

HubContinuing == \E i \in Id :
    \/ attempt[i].stage = "waiting" /\ Of(i).trial = NoTrial
    \/ attempt[i].stage = "reclean" /\ \A j \in Of(i).unclean : cleaning[j] = "no"
    \/ attempt[i].stage = "cleaning" /\ cleaning[i] = "no"

(* Promise continuations run before any timer or event, at either end.     *)
MoshNext ==
    \/ \E i \in Id : \/ NodeContinues(i) /\ UNCHANGED hubSide
                     \/ HubContinues(i)
    \/ /\ ~NodeContinuing /\ ~HubContinuing
       /\ \/ NodeEvent /\ UNCHANGED hubSide
          \/ \E i \in Id :
               \/ Opens(i) \/ Prepared(i) \/ Started(i) \/ NeverStarted(i)
               \/ AttemptFails(i) \/ Bridged(i) \/ LocalExits(i) \/ Leaves(i) \/ LeavesReclean(i)
               \/ LocalStops(i) \/ DeleteAnswered(i) \/ HubRetries(i)
               \/ PostCloses(i) \/ RelayReaches(i)
          \/ \E m \in wire : DeleteReaches(m)
          \/ LinkResets \/ HubCloses

MoshSpec == MoshInit /\ [][MoshNext]_moshVars

(* What runs on at either end: continuations, and what has a limit of time.*)
MoshProgress ==
    \/ \E i \in Id : \/ NodeContinues(i) /\ UNCHANGED hubSide
                     \/ HubContinues(i)
    \/ /\ ~NodeContinuing /\ ~HubContinuing
       /\ \E i \in Id : \/ (NodeProgress(i) /\ UNCHANGED hubSide)
                         \/ AttemptFails(i) \/ LocalStops(i) \/ DeleteAnswered(i)

MoshFair == WF_moshVars(MoshProgress)

-----------------------------------------------------------------------------
(* Properties *)

(* The type of the state. *)
MoshTypeOK ==
    /\ NodeTypeOK /\ hubDown \in BOOLEAN
    /\ attempt \in [Id -> Attempts] /\ scope \in [Gen -> Scopes]
    /\ gen \in Gen /\ cut \in 0..MaxGen /\ owned \subseteq Id
    /\ cleaning \in [Id -> {"no", "local", "asked"}] /\ asks \in [Id -> 0..MaxAsk]
    /\ wire \subseteq [id : Id, n : 1..MaxAsk]

(* Once the hub took it as confirmed that nothing of a session is left,    *)
(* nothing of it runs at the node, and nothing of it is ever started:      *)
(* whatever order its POST, its DELETEs and its ends come in.  All but one *)
(* case: a mosh-server given up after it printed CONNECT.                  *)
CleanIsGoneKnown ==
    \A i \in Id : attempt[i].cleaned /\ launch[i] # "late" => alive[i] = {}

(* Two clients never share the tmux session: none of the panel's own, and  *)
(* no second session, starts beside one whose end is not confirmed.        *)
OneClientOnPane ==
    LET on == {i \in Id : "client" \in alive[i] /\ launch[i] # "late"} IN
    /\ Cardinality(on) <= 1
    /\ panel => on = {}

(* What a socket may expect (OneTerminal): the session it asked for, from  *)
(* the launch on, but for a late one; what the hub may still have there;   *)
(* the mosh-client; and what became of the socket.                         *)
SessionOf(i) ==
    IF launch[i] \in {"none", "running"} THEN "new"
    ELSE IF launch[i] \in {"ok", "forked"} /\ alive[i] # {} THEN "runs"
    ELSE "over"

LeaseOf(i) ==
    IF attempt[i].cleaned THEN "clear"
    ELSE IF post[i] # "none" THEN "asked"
    ELSE "free"

SocketOf(i) ==
    IF attempt[i].stage = "bridged" THEN "bridged"
    ELSE IF attempt[i].stage \in {"relayed", "attached"} THEN "relayed"
    ELSE IF attempt[i].stage = "refused" \/ (attempt[i].stage \in {"cleaning", "reclean"} /\ attempt[i].gone)
         THEN "lost"
    ELSE "waits"

Terminal(i) == INSTANCE OneTerminal WITH session <- SessionOf(i), lease <- LeaseOf(i),
                                         client <- attempt[i].local, socket <- SocketOf(i)

(* A socket that fell back is alone, and an end that was confirmed is one: *)
(* nothing of the session starts afterwards, whatever order its POST, its  *)
(* DELETEs and its ends come in.                                           *)
IsOneTerminal ==
    /\ \A i \in Id : Terminal(i)!Init
    /\ [][\A i \in Id : Terminal(i)!Step]_moshVars

(* What may be left at the node stays the hub's to end, whatever became of *)
(* the attempt, its link and its scope.                                    *)
OwnershipKept ==
    \A i \in Id : attempt[i].stage \in {"cleaning", "refused"} /\ attempt[i].posted
                  /\ ~attempt[i].cleaned => i \in owned

(* Who waits: for the turn, for an end, for a start to be over.            *)
Busy(i) ==
    \/ phase[i] \in StartPhases \/ finishing[i] # "no"
    \/ \E s \in settling : s.id = i
    \/ \E k \in DOMAIN line : line[k].id = i

(* What continues at once at the node: the job that has the turn, when     *)
(* nothing ends any more, and an end that was run.                         *)
ContinueDue(i) ==
    /\ line # <<>> /\ line[1].id = i
    /\ \/ /\ place = "clear" /\ line[1].kind \in {"start", "panel"}
          /\ \A j \in Id : finishing[j] = "no"
       \/ place = "run" /\ line[1].kind = "start" /\ phase[i] \in {"ending", "ended"} /\ finishing[i] = "no"
       \/ /\ line[1].kind = "end"
          /\ (place = "run" /\ finishing[i] = "no") \/ (place = "entry" /\ line[1].result # "none")

(* What a limit of time or a promise brings on there. *)
ProgressDue(i) ==
    \/ i \in asking
    \/ phase[i] \in {"pane", "spawn", "identify", "attach"}
    \/ finishing[i] # "no"
    \/ /\ line # <<>> /\ line[1].id = i /\ place = "entry"
       /\ line[1].kind = "end" => line[1].result = "none"

(* The turn is never held by one who waits for it: while anything is in    *)
(* line, ends or waits for a start, some step of the node is due, so that  *)
(* no end waits for a turn that waits for this end.                        *)
TurnNeverStuck == (\E i \in Id : Busy(i)) => \E i \in Id : ContinueDue(i) \/ ProgressDue(i)

(* What is due at the hub. *)
HubDue(i) ==
    \/ attempt[i].stage = "waiting" /\ Of(i).trial = NoTrial
    \/ attempt[i].stage = "reclean" /\ \A j \in Of(i).unclean : cleaning[j] = "no"
    \/ attempt[i].stage = "cleaning" /\ cleaning[i] = "no"
    \/ attempt[i].stage \in {"prepare", "posting", "contact"}
    \/ cleaning[i] # "no"

(* Whoever waits at the hub waits for one that goes on, or goes on itself: *)
(* its own work, its own end, an end the clean-up waits for, or the trial  *)
(* of its pairing, which is given up with the attempt that held it.        *)
NobodyWaitsAlone ==
    \A i \in Id : attempt[i].stage \in ComingUp \cup {"cleaning", "reclean"} =>
      \/ HubDue(i)
      \/ \E j \in Of(i).unclean : cleaning[j] # "no"
      \/ LET t == Of(i).trial IN t \in Id /\ attempt[t].gen = attempt[i].gen /\ HubDue(t)

(* Every start is over in the end, and so is every end, with the DELETEs   *)
(* that wait for it.                                                       *)
StartsAndEndsFinish == \A i \in Id : Busy(i) ~> ~Busy(i)

(* Every socket that asks for a terminal is bridged, relayed or refused,   *)
(* also the one that waits for another's trial or clean-up.                *)
SocketsSettle ==
    \A i \in Id : attempt[i].stage \in ComingUp \cup {"cleaning", "reclean"}
                 ~> attempt[i].stage \in {"bridged", "relayed", "attached", "refused"}

=============================================================================
