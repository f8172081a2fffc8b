---------------------------- MODULE ServerHealth ----------------------------
(***************************************************************************)
(* How the hub knows whether a server answers: HealthService of            *)
(* lib/servers/health-service.js for one remote server, with the edits     *)
(* ServerService of lib/servers/server-service.js makes to it.             *)
(*                                                                         *)
(* An edit changes the record in memory first, is written, and only then   *)
(* drops the cached status and probes anew; a write that fails puts the    *)
(* record back.  A probe takes a generation along, and its answer counts   *)
(* if the entry still has that generation.  Probes are slow (ssh), so any  *)
(* number of answers may come late.                                        *)
(*                                                                         *)
(* Abstracted: what a status says, except which version of the record it   *)
(* is about; intervals and backoff, to a flag that the time has come; the  *)
(* write itself (see ServerRegistry).                                      *)
(***************************************************************************)
EXTENDS Naturals, Sequences

CONSTANTS
    Probe,          \* probes that can run at once
    MaxVersion,     \* bound: versions of the record
    MaxGen,         \* bound: generations of one entry
    MaxEdits,       \* bound: edits that wait for their write
    Gone,           \* no record
    NoEntry,        \* no entry
    None            \* no probe

VARIABLES
    record,     \* the registry's record: its version, and whether it is enabled
    versions,   \* how many versions there have been
    edits,      \* edits waiting for their write, first come first written
    entry,      \* _entries.get(id): status, generation, inFlight, nextPollAt
    probes,     \* Probe -> None or a running probe
    undone,     \* history: a write failed for an edit a probe may have seen
    left        \* history: an entry was forgotten while a probe was running

vars == <<record, versions, edits, entry, probes, undone, left>>

Records == [version : 1..MaxVersion, on : BOOLEAN]

Edits == [kind : {"create", "edit", "rename", "remove"}, on : BOOLEAN,
          before : Records \cup {Gone}]

(* shows is the version a known status is about.  A probe begins with the  *)
(* record it was called for and, once the node is found there (reached),   *)
(* asks over the link of the record as it is by then.                      *)
Entries == [state : {"unknown", "checking", "known", "disabled"},
            shows : 0..MaxVersion, gen : 0..MaxGen,
            inFlight : Probe \cup {None}, due : BOOLEAN]

Running == [gen : 0..MaxGen, asks : 1..MaxVersion, reached : BOOLEAN]

ASSUME HealthAssumption ==
    /\ MaxVersion \in Nat \ {0} /\ MaxGen \in Nat /\ MaxEdits \in Nat
    /\ Gone \notin Records /\ NoEntry \notin Entries
    /\ None \notin Running /\ None \notin Probe

Busy == {p \in Probe : probes[p] # None}

(* _entry: the entry, made when there is none. *)
Entry == IF entry # NoEntry THEN entry
         ELSE [state |-> "unknown", shows |-> 0, gen |-> 0, inFlight |-> None, due |-> TRUE]

Invalidated == [state |-> "unknown", shows |-> 0, gen |-> Entry.gen + 1,
                inFlight |-> None, due |-> TRUE]

Init ==
    /\ record \in [version : {1}, on : BOOLEAN] \cup {Gone}
    /\ versions = 1 /\ edits = <<>>
    /\ entry = NoEntry
    /\ probes = [p \in Probe |-> None]
    /\ undone = FALSE /\ left = FALSE

-----------------------------------------------------------------------------

(* Broken variant: a forced probe leaves the one under way its generation. *)
ProbeBeside(e, force) ==
    \/ /\ e.inFlight # None /\ ~force
       /\ entry' = e /\ UNCHANGED probes
    \/ /\ e.inFlight = None \/ force
       /\ record.on
       /\ \E p \in Probe \ Busy :
            /\ entry' = [e EXCEPT !.state = "checking", !.shows = 0, !.inFlight = p]
            /\ probes' = [probes EXCEPT ![p] =
                 [gen |-> e.gen, asks |-> record.version, reached |-> FALSE]]

(* probe(): joined to the probe under way, unless forced; a forced one     *)
(* orphans it.  A disabled server is not probed.                           *)
ProbeFrom(e, force) ==
    LET f == IF e.inFlight = None THEN e ELSE [e EXCEPT !.gen = @ + 1, !.inFlight = None] IN
    \/ /\ e.inFlight # None /\ ~force
       /\ entry' = e /\ UNCHANGED probes
    \/ /\ e.inFlight = None \/ force
       /\ ~record.on /\ f.gen <= MaxGen
       /\ entry' = [state |-> "disabled", shows |-> 0, gen |-> f.gen,
                     inFlight |-> None, due |-> FALSE]
       /\ UNCHANGED probes
    \/ /\ e.inFlight = None \/ force
       /\ record.on /\ f.gen <= MaxGen
       /\ \E p \in Probe \ Busy :
            /\ entry' = [state |-> "checking", shows |-> 0, gen |-> f.gen,
                          inFlight |-> p, due |-> f.due]
            /\ probes' = [probes EXCEPT ![p] =
                 [gen |-> f.gen, asks |-> record.version, reached |-> FALSE]]

(* The first half of create, update and remove: memory.  rename stands for *)
(* an update that leaves the connection as it is.                          *)
BeginEdit(kind, on) ==
    /\ Len(edits) < MaxEdits
    /\ (record = Gone) <=> (kind = "create")
    /\ kind \in {"create", "edit"} => versions < MaxVersion
    /\ kind = "rename" => on = record.on
    /\ kind = "remove" => ~on
    /\ LET fresh == kind \in {"create", "edit"} IN
       /\ record' = CASE kind = "remove" -> Gone
                      [] kind = "rename" -> record
                      [] OTHER -> [version |-> versions + 1, on |-> on]
       /\ versions' = IF fresh THEN versions + 1 ELSE versions
    /\ edits' = Append(edits, [kind |-> kind, on |-> on, before |-> record])
    /\ UNCHANGED <<entry, probes, undone, left>>

(* The second half, once the write succeeded: drop what was derived from   *)
(* the connection and probe, which throws if the server is gone again.     *)
CommitChange ==
    /\ edits # <<>> /\ Head(edits).kind \in {"create", "edit"}
    /\ Entry.gen < MaxGen
    /\ IF record # Gone /\ (Head(edits).on \/ Head(edits).kind = "create")
       THEN ProbeFrom(Invalidated, TRUE)
       ELSE entry' = Invalidated /\ UNCHANGED probes
    /\ edits' = Tail(edits)
    /\ undone' = FALSE
    /\ UNCHANGED <<record, versions, left>>

CommitRename ==
    /\ edits # <<>> /\ Head(edits).kind = "rename"
    /\ IF record # Gone /\ Head(edits).on
       THEN ProbeFrom(Entry, TRUE)
       ELSE UNCHANGED <<entry, probes>>
    /\ edits' = Tail(edits)
    /\ UNCHANGED <<record, versions, undone, left>>

(* remove(): forget(). *)
CommitRemove ==
    /\ edits # <<>> /\ Head(edits).kind = "remove"
    /\ entry' = NoEntry
    /\ left' = (left \/ Busy # {})
    /\ edits' = Tail(edits)
    /\ UNCHANGED <<record, versions, probes, undone>>

(* The write failed: the snapshot comes back, and nothing else is told.    *)
Rollback ==
    /\ edits # <<>>
    /\ record' = Head(edits).before
    /\ undone' = (undone \/ record' # record \/ Head(edits).kind # "rename")
    /\ edits' = Tail(edits)
    /\ UNCHANGED <<versions, entry, probes, left>>

Settle == CommitChange \/ CommitRename \/ CommitRemove \/ Rollback

-----------------------------------------------------------------------------

(* POST probe, or a page that asks without forcing. *)
AskProbe(force) ==
    /\ record # Gone
    /\ ProbeFrom(Entry, force)
    /\ UNCHANGED <<record, versions, edits, undone, left>>

(* trustHostKey, a transport retry, an installation that ended: the entry  *)
(* is invalidated even if the server was removed meanwhile.                *)
Recheck ==
    /\ Entry.gen < MaxGen
    /\ IF record # Gone THEN ProbeFrom(Invalidated, TRUE)
       ELSE entry' = Invalidated /\ UNCHANGED probes
    /\ UNCHANGED <<record, versions, edits, undone, left>>

(* tick(): a server whose time has come and that has no probe under way.   *)
Tick ==
    /\ record # Gone /\ record.on
    /\ Entry.inFlight = None /\ Entry.due
    /\ ProbeFrom(Entry, FALSE)
    /\ UNCHANGED <<record, versions, edits, undone, left>>

(* nextPollAt comes. *)
TimePasses ==
    /\ entry # NoEntry /\ ~entry.due
    /\ entry' = [entry EXCEPT !.due = TRUE]
    /\ UNCHANGED <<record, versions, edits, probes, undone, left>>

(* The node is there: the probe goes on over the link of the record as it  *)
(* is now.                                                                 *)
Reach(p) ==
    /\ probes[p] # None /\ ~probes[p].reached
    /\ record # Gone /\ record.on
    /\ probes' = [probes EXCEPT ![p].reached = TRUE, ![p].asks = record.version]
    /\ UNCHANGED <<record, versions, edits, entry, undone, left>>

(* Broken variants of the answer: the generation is not looked at; the     *)
(* probe stays in flight; it is not marked as settled.                     *)
AnswerAlways(p) ==
    /\ probes[p] # None
    /\ probes' = [probes EXCEPT ![p] = None]
    /\ entry' = IF entry = NoEntry THEN entry
                ELSE [entry EXCEPT !.state = "known", !.shows = probes[p].asks, !.due = FALSE,
                                   !.inFlight = IF @ = p THEN None ELSE @]
    /\ UNCHANGED <<record, versions, edits, undone, left>>

AnswerInFlight(p) ==
    /\ probes[p] # None
    /\ probes' = [probes EXCEPT ![p] = None]
    /\ entry' = IF entry = NoEntry \/ Entry.gen # probes[p].gen THEN entry
                ELSE [entry EXCEPT !.state = "known", !.shows = probes[p].asks, !.due = FALSE]
    /\ UNCHANGED <<record, versions, edits, undone, left>>

AnswerUnsettled(p) ==
    /\ probes[p] # None
    /\ probes' = [probes EXCEPT ![p] = None]
    /\ entry' = IF entry = NoEntry THEN entry
                ELSE [entry EXCEPT !.inFlight = IF @ = p THEN None ELSE @]
    /\ UNCHANGED <<record, versions, edits, undone, left>>

(* The probe ends, in success or failure: _settle keeps its status if the  *)
(* generation is still the entry's.                                        *)
Answer(p) ==
    /\ probes[p] # None
    /\ probes' = [probes EXCEPT ![p] = None]
    /\ entry' =
        IF entry = NoEntry THEN entry
        ELSE LET e == [entry EXCEPT !.inFlight = IF @ = p THEN None ELSE @] IN
             IF e.gen # probes[p].gen THEN e
             ELSE [state |-> "known", shows |-> probes[p].asks, gen |-> e.gen,
                   inFlight |-> e.inFlight, due |-> FALSE]
    /\ UNCHANGED <<record, versions, edits, undone, left>>

Next ==
    \/ \E kind \in {"create", "edit", "rename", "remove"}, on \in BOOLEAN : BeginEdit(kind, on)
    \/ Settle
    \/ \E force \in BOOLEAN : AskProbe(force)
    \/ Recheck \/ Tick \/ TimePasses
    \/ \E p \in Probe : Reach(p) \/ Answer(p)

(* Writes end, probes end (each call they make has a timeout), and the     *)
(* scheduler's timer goes on.                                              *)
Fairness ==
    /\ WF_vars(Settle) /\ WF_vars(Tick) /\ WF_vars(TimePasses)
    /\ \A p \in Probe : WF_vars(Answer(p))

Spec == Init /\ [][Next]_vars

FairSpec == Spec /\ Fairness

-----------------------------------------------------------------------------

TypeOK ==
    /\ record \in Records \cup {Gone}
    /\ versions \in 1..MaxVersion
    /\ edits \in Seq(Edits)
    /\ entry \in Entries \cup {NoEntry}
    /\ entry # NoEntry => Entry.inFlight \in Busy \cup {None}
    /\ probes \in [Probe -> Running \cup {None}]
    /\ undone \in BOOLEAN /\ left \in BOOLEAN

(* A server that is shown as being checked has a probe under way whose     *)
(* answer will count: "checking" never stays for want of an answer         *)
(* (probe, _settle).                                                       *)
CheckingIsUnderWay ==
    entry # NoEntry /\ Entry.state = "checking" =>
        /\ entry.inFlight \in Busy
        /\ probes[entry.inFlight].gen = entry.gen

(* Of the probes under way at most one counts, however they were forced,   *)
(* invalidated and joined (the generation), as long as no entry was        *)
(* forgotten with a probe running.                                         *)
OneProbeCounts ==
    entry # NoEntry /\ ~left =>
        \A p, q \in Busy :
            probes[p].gen = entry.gen /\ probes[q].gen = entry.gen => p = q

Written == edits = <<>> /\ ~undone

ShowsKnown == entry # NoEntry /\ Entry.state = "known"

(* Once edits are written, a known status is about the record as it is, or *)
(* there is none: no late answer about an older one is shown, except after *)
(* a failed write or a removal with a probe running (_settle, invalidate). *)
StatusIsCurrent ==
    Written /\ ShowsKnown /\ ~left => record # Gone /\ entry.shows = record.version

(* What the comment at invalidate says: the late result of a probe still   *)
(* running cannot overwrite fresh state.                                   *)
LateResultsDropped ==
    Written /\ ShowsKnown /\ record # Gone => entry.shows = record.version

(* A server that stays enabled is probed, and its state is known, again    *)
(* and again (tick).                                                       *)
KeepsWatch ==
    <>[](record # Gone /\ record.on) =>
        /\ []<>(Busy # {})
        /\ []<>ShowsKnown

=============================================================================
