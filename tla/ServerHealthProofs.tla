------------------------- MODULE ServerHealthProofs -------------------------
(***************************************************************************)
(* The health of one server, proved for any number of probes, edits,       *)
(* versions and generations.  Nothing that runs is ahead of the entry's    *)
(* generation, what is level with it is the probe in flight, and that one  *)
(* is about the record as it is unless an edit of the connection is still  *)
(* to be written, a write failed, or an entry was forgotten too early.     *)
(***************************************************************************)
EXTENDS ServerHealth, TLAPS

(* Only edits that leave the connection alone wait for their write. *)
Stable == ~undone /\ \A i \in 1..Len(edits) : edits[i].kind = "rename"

(* The entry e against the probes pr; lf: one was forgotten too early. *)
InStep(e, pr, lf) ==
    /\ e \in Entries
    /\ e.inFlight # None => pr[e.inFlight] # None
    /\ e.state = "checking" => e.inFlight # None /\ pr[e.inFlight].gen = e.gen
    /\ ~lf => \A p \in Probe : pr[p] # None =>
                 pr[p].gen <= e.gen /\ (pr[p].gen = e.gen => e.inFlight = p)

AboutRecord(e, pr, rec) ==
    /\ e.state = "known" => rec # Gone /\ e.shows = rec.version
    /\ \A p \in Probe : pr[p] # None /\ pr[p].gen = e.gen =>
           rec # Gone /\ pr[p].asks = rec.version

IInv ==
    /\ TypeOK
    /\ entry = NoEntry /\ ~left => Busy = {}
    /\ InStep(Entry, probes, left)
    /\ Stable /\ ~left => AboutRecord(Entry, probes, record)

-----------------------------------------------------------------------------
(* The entry when there is none, after invalidate, and after probe.        *)

LEMMA EntryIsOne ==
    ASSUME TypeOK
    PROVE  Entry \in Entries /\ (entry # NoEntry => Entry = entry)
  BY HealthAssumption DEF TypeOK, Entry, Entries

LEMMA InvalidatedInStep ==
    ASSUME InStep(Entry, probes, left), TypeOK, Entry.gen < MaxGen
    PROVE  /\ InStep(Invalidated, probes, left)
           /\ Invalidated.inFlight = None
           /\ ~left => \A rec : AboutRecord(Invalidated, probes, rec)
  <1>1. /\ Entry \in Entries /\ Entry.gen + 1 \in 0..MaxGen
        /\ \A p \in Probe : probes[p] # None => probes[p].gen \in Nat
    BY EntryIsOne, HealthAssumption DEF Entries, Running, TypeOK
  <1>2. /\ Invalidated \in Entries /\ Invalidated.inFlight = None
        /\ Invalidated.state = "unknown" /\ Invalidated.gen = Entry.gen + 1
    BY <1>1, HealthAssumption DEF Invalidated, Entries
  <1>3. \A p \in Probe : probes[p] # None /\ ~left => probes[p].gen < Invalidated.gen
    BY <1>1, <1>2 DEF InStep, Entries
  <1>4. InStep(Invalidated, probes, left)
    BY <1>1, <1>2, <1>3 DEF InStep
  <1>5. ASSUME NEW rec, ~left
        PROVE  AboutRecord(Invalidated, probes, rec)
    BY <1>1, <1>2, <1>3, <1>5 DEF AboutRecord
  <1> QED BY <1>2, <1>4, <1>5

LEMMA OrphanedInStep ==
    ASSUME TypeOK, NEW e, InStep(e, probes, left), e.inFlight # None, e.gen + 1 <= MaxGen,
           NEW f, f = [e EXCEPT !.gen = @ + 1, !.inFlight = None]
    PROVE  /\ f \in Entries /\ f.inFlight = None
           /\ ~left => \A p \in Probe : probes[p] # None => probes[p].gen < f.gen
  <1>1. /\ e \in Entries /\ e.gen + 1 \in 0..MaxGen
        /\ \A p \in Probe : probes[p] # None => probes[p].gen \in Nat
    BY HealthAssumption DEF InStep, Entries, Running, TypeOK
  <1>2. f \in Entries /\ f.inFlight = None /\ f.gen = e.gen + 1
    BY <1>1 DEF Entries
  <1> QED BY <1>1, <1>2 DEF InStep, Entries

LEMMA ProbeInStep ==
    ASSUME TypeOK, record # Gone, NEW e, InStep(e, probes, left),
           NEW force \in BOOLEAN, ProbeFrom(e, force)
    PROVE  /\ entry' \in Entries
           /\ probes' \in [Probe -> Running \cup {None}]
           /\ InStep(entry', probes', left)
           /\ ~left /\ AboutRecord(e, probes, record) => AboutRecord(entry', probes', record)
  <1> DEFINE f == IF e.inFlight = None THEN e ELSE [e EXCEPT !.gen = @ + 1, !.inFlight = None]
  <1>1. /\ record \in Records /\ probes \in [Probe -> Running \cup {None}]
        /\ e \in Entries /\ record.version \in 1..MaxVersion
    BY DEF TypeOK, InStep, Records
  <1>2. CASE e.inFlight # None /\ ~force /\ entry' = e /\ UNCHANGED probes
    BY <1>1, <1>2
  <1>3. ASSUME f.gen <= MaxGen, e.inFlight = None \/ force
        PROVE  /\ f \in Entries /\ f.inFlight = None
               /\ ~left => \A p \in Probe : probes[p] # None => probes[p].gen < f.gen
    <2>1. CASE e.inFlight = None
      <3>1. f = e
        BY <2>1
      <3>2. \A p \in Probe : probes[p] # None => p # None /\ probes[p].gen \in Nat
        BY HealthAssumption DEF TypeOK, Running
      <3>3. ~left => \A p \in Probe : probes[p] # None => probes[p].gen <= e.gen /\ probes[p].gen # e.gen
        BY <2>1, <3>2 DEF InStep
      <3> QED BY <1>1, <2>1, <3>1, <3>2, <3>3 DEF Entries
    <2>2. CASE e.inFlight # None
      <3>1. f = [e EXCEPT !.gen = @ + 1, !.inFlight = None] /\ f.gen = e.gen + 1
        BY <1>1, <2>2 DEF Entries
      <3> HIDE DEF f
      <3> QED BY <1>3, <2>2, <3>1, OrphanedInStep
    <2> QED BY <2>1, <2>2
  <1>4. CASE /\ e.inFlight = None \/ force
             /\ ~record.on /\ f.gen <= MaxGen
             /\ entry' = [state |-> "disabled", shows |-> 0, gen |-> f.gen,
                           inFlight |-> None, due |-> FALSE]
             /\ UNCHANGED probes
    <2> HIDE DEF f
    <2>1. /\ entry' \in Entries /\ entry'.inFlight = None /\ entry'.state = "disabled"
          /\ entry'.gen = f.gen
      BY <1>3, <1>4, HealthAssumption DEF Entries
    <2>2. ~left => \A p \in Probe : probes[p] # None => probes[p].gen < entry'.gen
      BY <1>3, <1>4, <2>1
    <2>3. /\ entry'.gen \in Nat
          /\ \A p \in Probe : probes[p] # None => probes[p].gen \in Nat
      BY <1>1, <2>1 DEF Entries, Running
    <2> QED BY <1>1, <1>4, <2>1, <2>2, <2>3 DEF InStep, AboutRecord
  <1>5. ASSUME e.inFlight = None \/ force, record.on, f.gen <= MaxGen, NEW p \in Probe \ Busy,
               entry' = [state |-> "checking", shows |-> 0, gen |-> f.gen,
                         inFlight |-> p, due |-> f.due],
               probes' = [probes EXCEPT ![p] =
                   [gen |-> f.gen, asks |-> record.version, reached |-> FALSE]]
        PROVE  /\ entry' \in Entries
               /\ probes' \in [Probe -> Running \cup {None}]
               /\ InStep(entry', probes', left)
               /\ ~left => AboutRecord(entry', probes', record)
    <2> HIDE DEF f
    <2>1. /\ entry' \in Entries /\ entry'.inFlight = p /\ entry'.state = "checking"
          /\ entry'.gen = f.gen /\ f.gen \in 0..MaxGen
      BY <1>3, <1>5, HealthAssumption DEF Entries
    <2>2. [gen |-> f.gen, asks |-> record.version, reached |-> FALSE] \in Running
      BY <1>1, <2>1 DEF Running
    <2>3. /\ probes' \in [Probe -> Running \cup {None}]
          /\ probes'[p].gen = f.gen /\ probes'[p].asks = record.version /\ probes'[p] # None
          /\ \A q \in Probe \ {p} : probes'[q] = probes[q]
      BY <1>1, <1>5, <2>2, HealthAssumption
    <2>4. ~left => \A q \in Probe \ {p} : probes'[q] # None =>
                      probes'[q].gen < f.gen /\ probes'[q].gen \in Nat
      BY <1>1, <1>3, <1>5, <2>3 DEF Running
    <2>5. InStep(entry', probes', left)
      <3>1. ~left => \A q \in Probe : probes'[q] # None =>
               probes'[q].gen <= entry'.gen /\ (probes'[q].gen = entry'.gen => entry'.inFlight = q)
        BY <2>1, <2>3, <2>4
      <3>2. p # None
        BY HealthAssumption
      <3> QED BY <2>1, <2>3, <3>1, <3>2 DEF InStep
    <2>6. ~left => AboutRecord(entry', probes', record)
      <3>1. ~left => \A q \in Probe : probes'[q] # None /\ probes'[q].gen = entry'.gen => q = p
        BY <2>1, <2>3, <2>4
      <3> QED BY <1>5, <2>1, <2>3, <3>1 DEF AboutRecord
    <2> QED BY <2>1, <2>3, <2>5, <2>6
  <1> QED BY <1>2, <1>4, <1>5 DEF ProbeFrom, InStep

-----------------------------------------------------------------------------

LEMMA InvInit == Init => IInv
  <1> SUFFICES ASSUME Init PROVE IInv
    OBVIOUS
  <1>1. probes \in [Probe -> Running \cup {None}] /\ \A p \in Probe : probes[p] = None
    BY DEF Init
  <1>2. /\ Entry \in Entries /\ Entry.inFlight = None /\ Entry.state = "unknown"
        /\ Entry.gen = 0
    BY HealthAssumption DEF Init, Entry, Entries
  <1>3. TypeOK
    <2>1. record \in Records \cup {Gone} /\ versions \in 1..MaxVersion
      BY HealthAssumption DEF Init, Records
    <2>2. edits \in Seq(Edits)
      BY DEF Init
    <2> QED BY <1>1, <2>1, <2>2 DEF Init, TypeOK
  <1> QED BY <1>1, <1>2, <1>3 DEF IInv, InStep, AboutRecord, Busy

(* What an action must show of the entry it leaves. *)
LEMMA LeavesEntry ==
    ASSUME TypeOK', entry' # NoEntry,
           InStep(entry', probes', left'),
           Stable' /\ ~left' => AboutRecord(entry', probes', record')
    PROVE  IInv'
  BY DEF IInv, Entry

(* What the actions that probe, or drop what is known, have in common.     *)
LEMMA ProbingStep ==
    ASSUME IInv, record' = record, versions' = versions, left' = left,
           edits' \in Seq(Edits),
           undone' \in BOOLEAN,
           NEW e, InStep(e, probes, left),
           Stable' /\ ~left => AboutRecord(e, probes, record),
           \/ entry' = e /\ UNCHANGED probes
           \/ record # Gone /\ \E force \in BOOLEAN : ProbeFrom(e, force)
    PROVE  IInv'
  <1>1. /\ entry' \in Entries
        /\ probes' \in [Probe -> Running \cup {None}]
        /\ InStep(entry', probes', left)
        /\ ~left /\ AboutRecord(e, probes, record) => AboutRecord(entry', probes', record)
    <2>1. CASE entry' = e /\ UNCHANGED probes
      BY <2>1 DEF InStep, IInv, TypeOK
    <2>2. CASE record # Gone /\ \E force \in BOOLEAN : ProbeFrom(e, force)
      BY <2>2, ProbeInStep DEF IInv
    <2> QED BY <2>1, <2>2
  <1>2. entry' # NoEntry
    BY <1>1, HealthAssumption
  <1>3. TypeOK'
    <2>1. Entry'.inFlight \in Busy' \cup {None}
      <3>1. Entry' = entry' /\ entry'.inFlight \in Probe \cup {None}
        BY <1>1, <1>2 DEF Entry, Entries
      <3>2. entry'.inFlight # None => probes'[entry'.inFlight] # None
        BY <1>1 DEF InStep
      <3> QED BY <3>1, <3>2 DEF Busy
    <2> QED BY <1>1, <2>1 DEF IInv, TypeOK
  <1> QED BY <1>1, <1>2, <1>3, LeavesEntry

LEMMA HeadAndTail ==
    ASSUME NEW S, NEW q \in Seq(S), q # <<>>
    PROVE  /\ Head(q) = q[1] /\ 1 \in 1..Len(q) /\ Head(q) \in S /\ Tail(q) \in Seq(S)
           /\ \A i \in 1..Len(q) : i = 1 \/ (i - 1 \in 1..Len(Tail(q)) /\ Tail(q)[i - 1] = q[i])
  <1>1. Len(q) \in Nat /\ Len(q) > 0 /\ q \in [1..Len(q) -> S]
    OBVIOUS
  <1>2. Tail(q) \in Seq(S) /\ Len(Tail(q)) = Len(q) - 1
    OBVIOUS
  <1>3. \A i \in 1..Len(Tail(q)) : Tail(q)[i] = q[i + 1]
    OBVIOUS
  <1> QED BY <1>1, <1>2, <1>3

LEMMA EditsFacts ==
    ASSUME TypeOK, edits # <<>>
    PROVE  /\ Head(edits) = edits[1] /\ 1 \in 1..Len(edits)
           /\ Head(edits) \in Edits /\ Tail(edits) \in Seq(Edits)
           /\ \A i \in 1..Len(edits) : i = 1 \/ (i - 1 \in 1..Len(Tail(edits)) /\
                                                 Tail(edits)[i - 1] = edits[i])
  BY HeadAndTail DEF TypeOK

(* The first edit left the connection alone and is over. *)
LEMMA StableBefore ==
    ASSUME TypeOK, edits # <<>>, Head(edits).kind = "rename", edits' = Tail(edits), undone' = undone,
           Stable'
    PROVE  Stable
  <1> SUFFICES ASSUME NEW i \in 1..Len(edits)
               PROVE  edits[i].kind = "rename"
    BY DEF Stable
  <1>1. CASE i = 1
    BY <1>1, EditsFacts
  <1>2. CASE i # 1
    BY <1>2, EditsFacts DEF Stable
  <1> QED BY <1>1, <1>2

LEMMA BeginKeeps ==
    ASSUME IInv, NEW kind \in {"create", "edit", "rename", "remove"}, NEW on \in BOOLEAN,
           BeginEdit(kind, on)
    PROVE  IInv'
  <1> DEFINE new == [kind |-> kind, on |-> on, before |-> record]
  <1>1. /\ edits' = Append(edits, new) /\ new \in Edits /\ edits \in Seq(Edits)
    BY DEF BeginEdit, IInv, TypeOK, Edits
  <1>2. TypeOK'
    <2>1. record' \in Records \cup {Gone} /\ versions' \in 1..MaxVersion
      <3>1. CASE kind \in {"create", "edit"}
        <4>1. versions + 1 \in 1..MaxVersion
          BY <3>1, HealthAssumption DEF BeginEdit, IInv, TypeOK
        <4>2. record' = [version |-> versions + 1, on |-> on]
          BY <3>1 DEF BeginEdit
        <4> QED BY <3>1, <4>1, <4>2 DEF BeginEdit, Records
      <3>2. CASE kind = "rename"
        BY <3>2 DEF BeginEdit, IInv, TypeOK
      <3>3. CASE kind = "remove"
        BY <3>3 DEF BeginEdit, IInv, TypeOK
      <3> QED BY <3>1, <3>2, <3>3
    <2>2. edits' \in Seq(Edits)
      BY <1>1
    <2> QED BY <2>1, <2>2 DEF BeginEdit, IInv, TypeOK, Entry, Busy
  <1>3. Stable' => Stable /\ record' = record
    <2> SUFFICES ASSUME Stable' PROVE Stable /\ record' = record
      OBVIOUS
    <2>1. /\ Len(edits) + 1 \in 1..Len(edits') /\ edits'[Len(edits) + 1] = new
          /\ \A i \in 1..Len(edits) : i \in 1..Len(edits') /\ edits'[i] = edits[i]
      <3> HIDE DEF new
      <3> QED BY <1>1
    <2>2. kind = "rename"
      BY <2>1 DEF Stable
    <2> QED BY <2>1, <2>2 DEF Stable, BeginEdit
  <1> QED BY <1>2, <1>3 DEF BeginEdit, IInv, Entry, Busy

LEMMA CommitChangeKeeps ==
    ASSUME IInv, CommitChange
    PROVE  IInv'
  <1>1. InStep(Invalidated, probes, left) /\ (~left => AboutRecord(Invalidated, probes, record))
    BY InvalidatedInStep DEF IInv, CommitChange
  <1>2. edits' \in Seq(Edits)
    BY EditsFacts DEF IInv, CommitChange
  <1> QED BY <1>1, <1>2, ProbingStep DEF CommitChange

LEMMA CommitRenameKeeps ==
    ASSUME IInv, CommitRename
    PROVE  IInv'
  <1>1. edits' \in Seq(Edits)
    BY EditsFacts DEF IInv, CommitRename
  <1>2. Stable' => Stable
    BY StableBefore DEF IInv, CommitRename
  <1>3. undone' \in BOOLEAN
    BY DEF IInv, TypeOK, CommitRename
  <1>4. CASE record # Gone /\ Head(edits).on
    <2>1. ProbeFrom(Entry, TRUE)
      BY <1>4 DEF CommitRename
    <2> QED BY <1>1, <1>2, <1>3, <1>4, <2>1, ProbingStep DEF IInv, CommitRename
  <1>5. CASE ~(record # Gone /\ Head(edits).on)
    BY <1>1, <1>2, <1>5 DEF CommitRename, IInv, TypeOK, Entry, Busy
  <1> QED BY <1>4, <1>5

LEMMA CommitRemoveKeeps ==
    ASSUME IInv, CommitRemove
    PROVE  IInv'
  <1>1. edits' \in Seq(Edits)
    BY EditsFacts DEF IInv, CommitRemove
  <1>2. TypeOK'
    BY <1>1 DEF CommitRemove, IInv, TypeOK
  <1>3. /\ Entry' \in Entries /\ Entry'.inFlight = None /\ Entry'.state = "unknown"
        /\ Entry'.gen = 0
    BY HealthAssumption DEF CommitRemove, Entry, Entries
  <1>4. ~left' => \A p \in Probe : probes'[p] = None
    BY DEF CommitRemove, Busy
  <1> QED BY <1>2, <1>3, <1>4 DEF IInv, InStep, AboutRecord, Busy

LEMMA RollbackKeeps ==
    ASSUME IInv, Rollback
    PROVE  IInv'
  <1>1. /\ edits' \in Seq(Edits)
        /\ record' \in Records \cup {Gone}
    BY EditsFacts DEF IInv, Rollback, Edits
  <1>2. TypeOK'
    BY <1>1 DEF Rollback, IInv, TypeOK, Entry, Busy
  <1>3. Stable' => Stable /\ record' = record
    <2>1. Stable' => ~undone' /\ undone' = undone /\ record' = record /\ Head(edits).kind = "rename"
      BY DEF Stable, Rollback, IInv, TypeOK
    <2> QED BY <2>1, StableBefore DEF IInv, Rollback
  <1> QED BY <1>2, <1>3 DEF Rollback, IInv, Entry, Busy

LEMMA TimePassesKeeps ==
    ASSUME IInv, TimePasses
    PROVE  IInv'
  <1>1. /\ Entry = entry /\ entry \in Entries /\ entry' = [entry EXCEPT !.due = TRUE]
    BY EntryIsOne DEF TimePasses, IInv
  <1>2. /\ entry' \in Entries /\ entry'.gen = entry.gen /\ entry'.state = entry.state
        /\ entry'.inFlight = entry.inFlight /\ entry'.shows = entry.shows
    BY <1>1 DEF Entries
  <1>3. entry' # NoEntry /\ Entry' = entry'
    BY <1>2, HealthAssumption DEF Entry
  <1>4. TypeOK'
    BY <1>1, <1>2, <1>3 DEF TimePasses, IInv, TypeOK, Busy
  <1>5. InStep(entry', probes', left')
    BY <1>1, <1>2 DEF TimePasses, IInv, InStep
  <1>6. Stable' /\ ~left' => AboutRecord(entry', probes', record')
    BY <1>1, <1>2 DEF TimePasses, IInv, AboutRecord, Stable
  <1> QED BY <1>3, <1>4, <1>5, <1>6, LeavesEntry

LEMMA ReachKeeps ==
    ASSUME IInv, NEW p \in Probe, Reach(p)
    PROVE  IInv'
  <1>1. /\ record \in Records /\ probes[p] \in Running /\ probes \in [Probe -> Running \cup {None}]
    BY DEF Reach, IInv, TypeOK
  <1>2. /\ probes'[p] \in Running /\ probes'[p].gen = probes[p].gen
        /\ probes'[p].asks = record.version
        /\ \A q \in Probe \ {p} : probes'[q] = probes[q]
        /\ probes' \in [Probe -> Running \cup {None}]
    BY <1>1 DEF Reach, Running, Records
  <1>3. \A q \in Probe : /\ probes'[q] # None <=> probes[q] # None
                         /\ probes[q] # None => probes'[q].gen = probes[q].gen
    BY <1>1, <1>2, HealthAssumption DEF Reach
  <1>4. Busy' = Busy /\ Entry' = Entry
    BY <1>3 DEF Busy, Reach, Entry
  <1>5. TypeOK'
    BY <1>2, <1>4 DEF Reach, IInv, TypeOK
  <1>6. InStep(Entry', probes', left')
    <2>1. Entry.inFlight # None => Entry.inFlight \in Probe
      BY DEF IInv, InStep, Entries
    <2> QED BY <1>3, <1>4, <2>1 DEF Reach, IInv, InStep
  <1>7. Stable' /\ ~left' => AboutRecord(Entry', probes', record')
    BY <1>1, <1>2, <1>3, <1>4 DEF Reach, IInv, AboutRecord, Stable
  <1> QED BY <1>4, <1>5, <1>6, <1>7 DEF IInv, Reach

LEMMA AnswerKeeps ==
    ASSUME IInv, NEW p \in Probe, Answer(p)
    PROVE  IInv'
  <1>1. /\ probes[p] \in Running /\ probes' \in [Probe -> Running \cup {None}]
        /\ probes'[p] = None /\ \A q \in Probe \ {p} : probes'[q] = probes[q]
        /\ Busy' = Busy \ {p}
        /\ probes[p].asks \in 0..MaxVersion
    BY DEF Answer, IInv, TypeOK, Running, Busy
  <1>2. CASE entry = NoEntry
    <2>1. entry' = NoEntry /\ Entry' = Entry /\ Entry.inFlight = None
      BY <1>2 DEF Answer, Entry
    <2>2. TypeOK'
      BY <1>1, <2>1 DEF Answer, IInv, TypeOK
    <2>3. InStep(Entry', probes', left')
      BY <1>1, <2>1 DEF Answer, IInv, InStep
    <2>4. Stable' /\ ~left' => AboutRecord(Entry', probes', record')
      BY <1>1, <2>1 DEF Answer, IInv, AboutRecord, Stable
    <2>5. entry' = NoEntry /\ ~left' => Busy' = {}
      BY <1>1, <1>2 DEF Answer, IInv
    <2> QED BY <2>2, <2>3, <2>4, <2>5 DEF IInv
  <1>3. CASE entry # NoEntry
    <2> DEFINE e == [entry EXCEPT !.inFlight = IF @ = p THEN None ELSE @]
    <2>1. Entry = entry /\ entry \in Entries
      BY <1>3, EntryIsOne DEF IInv
    <2>2. /\ e \in Entries /\ e.gen = entry.gen /\ e.state = entry.state /\ e.shows = entry.shows
          /\ e.inFlight = IF entry.inFlight = p THEN None ELSE entry.inFlight
      BY <2>1 DEF Entries
    <2>3. entry' = IF e.gen # probes[p].gen THEN e
                   ELSE [state |-> "known", shows |-> probes[p].asks, gen |-> e.gen,
                         inFlight |-> e.inFlight, due |-> FALSE]
      BY <1>3 DEF Answer
    <2> HIDE DEF e
    <2>4. /\ entry' \in Entries /\ entry'.gen = entry.gen /\ entry'.inFlight = e.inFlight
          /\ \/ /\ entry.gen # probes[p].gen
                /\ entry'.state = entry.state /\ entry'.shows = entry.shows
             \/ /\ entry.gen = probes[p].gen
                /\ entry'.state = "known" /\ entry'.shows = probes[p].asks
      <3>1. CASE e.gen # probes[p].gen
        BY <2>2, <2>3, <3>1
      <3>2. CASE e.gen = probes[p].gen
        BY <1>1, <2>2, <2>3, <3>2 DEF Entries
      <3> QED BY <3>1, <3>2
    <2>5. /\ entry'.inFlight # p \/ p = None
          /\ entry'.inFlight # None => entry'.inFlight = entry.inFlight
          /\ \A q \in Probe \ {p} : entry.inFlight = q => entry'.inFlight = q
          /\ p # None
      BY <2>2, <2>4, HealthAssumption
    <2>6. entry' # NoEntry /\ Entry' = entry'
      BY <2>4, HealthAssumption DEF Entry
    <2>7. InStep(entry, probes, left)
      BY <2>1 DEF IInv
    <2>8. InStep(entry', probes', left')
      <3>1. entry'.inFlight # None => probes'[entry'.inFlight] # None
        BY <1>1, <2>4, <2>5, <2>7 DEF InStep, Entries
      <3>2. entry'.state = "checking" => /\ entry'.inFlight # None
                                         /\ probes'[entry'.inFlight].gen = entry'.gen
        <4> SUFFICES ASSUME entry'.state = "checking"
                     PROVE  entry'.inFlight # None /\ probes'[entry'.inFlight].gen = entry'.gen
          OBVIOUS
        <4>1. entry.state = "checking" /\ entry.gen # probes[p].gen
          BY <2>4
        <4>2. entry.inFlight # None /\ probes[entry.inFlight].gen = entry.gen
          BY <2>7, <4>1 DEF InStep
        <4>3. entry.inFlight \in Probe \ {p}
          BY <2>1, <4>1, <4>2 DEF Entries
        <4> QED BY <1>1, <2>4, <2>5, <4>2, <4>3
      <3>3. ~left' => \A q \in Probe : probes'[q] # None =>
               probes'[q].gen <= entry'.gen /\ (probes'[q].gen = entry'.gen => entry'.inFlight = q)
        BY <1>1, <2>4, <2>5, <2>7 DEF Answer, InStep
      <3> QED BY <2>4, <3>1, <3>2, <3>3 DEF InStep
    <2>9. TypeOK'
      <3>1. Entry'.inFlight \in Busy' \cup {None}
        BY <2>4, <2>6, <2>8 DEF InStep, Busy, Entries
      <3> QED BY <1>1, <2>4, <3>1 DEF Answer, IInv, TypeOK
    <2>10. Stable' /\ ~left' => AboutRecord(entry', probes', record')
      <3> SUFFICES ASSUME Stable', ~left'
                   PROVE  AboutRecord(entry', probes', record')
        OBVIOUS
      <3>1. AboutRecord(entry, probes, record) /\ record' = record
        BY <2>1 DEF Answer, IInv, Stable
      <3> QED BY <1>1, <2>4, <3>1 DEF Answer, AboutRecord
    <2> QED BY <2>6, <2>8, <2>9, <2>10, LeavesEntry
  <1> QED BY <1>2, <1>3

LEMMA InvNext == IInv /\ [Next]_vars => IInv'
  <1> SUFFICES ASSUME IInv, [Next]_vars PROVE IInv'
    OBVIOUS
  <1>1. ASSUME NEW kind \in {"create", "edit", "rename", "remove"}, NEW on \in BOOLEAN,
               BeginEdit(kind, on)
        PROVE  IInv'
    BY <1>1, BeginKeeps
  <1>2. CASE Settle
    BY <1>2, CommitChangeKeeps, CommitRenameKeeps, CommitRemoveKeeps, RollbackKeeps DEF Settle
  <1>3. ASSUME NEW force \in BOOLEAN, AskProbe(force)
        PROVE  IInv'
    <2>1. edits' \in Seq(Edits) /\ undone' \in BOOLEAN /\ (Stable' => Stable)
      BY <1>3 DEF AskProbe, IInv, TypeOK, Stable
    <2> QED BY <1>3, <2>1, ProbingStep DEF AskProbe, IInv
  <1>4. CASE Recheck
    <2>1. edits' \in Seq(Edits) /\ undone' \in BOOLEAN
      BY <1>4 DEF Recheck, IInv, TypeOK
    <2>2. InStep(Invalidated, probes, left) /\ (~left => AboutRecord(Invalidated, probes, record))
      BY <1>4, InvalidatedInStep DEF IInv, Recheck
    <2> QED BY <1>4, <2>1, <2>2, ProbingStep DEF Recheck
  <1>5. CASE Tick
    <2>1. edits' \in Seq(Edits) /\ undone' \in BOOLEAN /\ (Stable' => Stable)
      BY <1>5 DEF Tick, IInv, TypeOK, Stable
    <2> QED BY <1>5, <2>1, ProbingStep DEF Tick, IInv
  <1>6. CASE TimePasses
    BY <1>6, TimePassesKeeps
  <1>7. ASSUME NEW p \in Probe, Reach(p) \/ Answer(p)
        PROVE  IInv'
    BY <1>7, ReachKeeps, AnswerKeeps
  <1>8. CASE UNCHANGED vars
    BY <1>8 DEF vars, IInv, TypeOK, Busy, Entry, InStep, AboutRecord, Stable
  <1> QED BY <1>1, <1>2, <1>3, <1>4, <1>5, <1>6, <1>7, <1>8 DEF Next

(* The probe an entry names as in flight is always one that runs, whatever *)
(* was forced, invalidated or forgotten (probe, _settle).                  *)
THEOREM TypeCorrect == Spec => []TypeOK
  <1>1. IInv => TypeOK
    BY DEF IInv
  <1> QED BY <1>1, InvInit, InvNext, PTL DEF Spec

(* A server shown as being checked has a probe under way whose answer will *)
(* count (probe, _settle).                                                 *)
THEOREM NeverStuckChecking == Spec => []CheckingIsUnderWay
  <1>1. IInv => CheckingIsUnderWay
    BY EntryIsOne DEF IInv, CheckingIsUnderWay, InStep, Entries, Busy
  <1> QED BY <1>1, InvInit, InvNext, PTL DEF Spec

(* At most one of the probes under way counts, unless one outlived its     *)
(* entry (the generation).                                                 *)
THEOREM OnlyOneCounts == Spec => []OneProbeCounts
  <1>1. IInv => OneProbeCounts
    <2> SUFFICES ASSUME IInv, entry # NoEntry, ~left, NEW p \in Busy, NEW q \in Busy,
                        probes[p].gen = entry.gen, probes[q].gen = entry.gen
                 PROVE  p = q
      BY DEF OneProbeCounts
    <2> QED BY EntryIsOne DEF IInv, InStep, Busy
  <1> QED BY <1>1, InvInit, InvNext, PTL DEF Spec

(* A known status is about the saved record, unless a write failed or a    *)
(* probe outlived its entry (invalidate, _settle).                         *)
THEOREM StatusStaysCurrent == Spec => []StatusIsCurrent
  <1>1. IInv => StatusIsCurrent
    <2> SUFFICES ASSUME IInv, Written, ShowsKnown, ~left
                 PROVE  record # Gone /\ entry.shows = record.version
      BY DEF StatusIsCurrent
    <2>1. Stable
      <3>1. Len(edits) = 0
        BY DEF Written
      <3> QED BY <3>1 DEF Stable, Written
    <2>2. Entry = entry
      BY EntryIsOne DEF IInv, ShowsKnown
    <2> QED BY <2>1, <2>2 DEF IInv, AboutRecord, ShowsKnown
  <1> QED BY <1>1, InvInit, InvNext, PTL DEF Spec

(* What a status shows changes to a known one only by the answer of the    *)
(* probe the entry names as in flight.                                     *)
OnlyItsProbeTells ==
    entry # NoEntry /\ entry' # NoEntry /\ ~left
      /\ entry'.state = "known" /\ (entry.state # "known" \/ entry'.shows # entry.shows)
    => /\ entry.inFlight # None
       /\ probes[entry.inFlight].gen = entry.gen
       /\ entry'.shows = probes[entry.inFlight].asks

(* No probe that was orphaned by a force, an edit or a recheck speaks for  *)
(* the server when it comes back at last (_settle).                        *)
THEOREM OrphansAreSilent == Spec => [][OnlyItsProbeTells]_vars
  <1> DEFINE Told == entry'.state = "known" /\ (entry.state # "known" \/ entry'.shows # entry.shows)
  <1>1. ASSUME IInv, Next, entry # NoEntry, entry' # NoEntry, ~left, Told
        PROVE  /\ entry.inFlight # None
               /\ probes[entry.inFlight].gen = entry.gen
               /\ entry'.shows = probes[entry.inFlight].asks
    <2>1. entry \in Entries /\ Entry = entry /\ InStep(entry, probes, left)
      BY <1>1, EntryIsOne DEF IInv
    <2>2. entry' # entry
      BY <1>1
    <2>3. ASSUME NEW e, NEW force, ProbeFrom(e, force)
          PROVE  entry' = e \/ entry'.state # "known"
      BY <2>3 DEF ProbeFrom
    <2>4. Invalidated.state # "known"
      BY DEF Invalidated
    <2>5. ~Settle
      BY <1>1, <2>1, <2>2, <2>3, <2>4 DEF Settle, CommitChange, CommitRename, CommitRemove, Rollback
    <2>6. ~(Recheck \/ Tick \/ TimePasses \/ \E force \in BOOLEAN : AskProbe(force))
      <3>1. [entry EXCEPT !.due = TRUE].state = entry.state /\ [entry EXCEPT !.due = TRUE].shows = entry.shows
        BY <2>1 DEF Entries
      <3> QED BY <1>1, <2>1, <2>2, <2>3, <2>4, <3>1 DEF Recheck, Tick, TimePasses, AskProbe
    <2>7. PICK p \in Probe : Answer(p)
      <3>1. \/ \E kind \in {"create", "edit", "rename", "remove"}, on \in BOOLEAN : BeginEdit(kind, on)
            \/ \E p \in Probe : Reach(p) \/ Answer(p)
        BY <1>1, <2>5, <2>6 DEF Next
      <3> QED BY <2>2, <3>1 DEF BeginEdit, Reach
    <2> DEFINE e == [entry EXCEPT !.inFlight = IF @ = p THEN None ELSE @]
    <2>8. /\ probes[p] # None /\ e.gen = entry.gen /\ e.state = entry.state /\ e.shows = entry.shows
          /\ entry' = IF e.gen # probes[p].gen THEN e
                      ELSE [state |-> "known", shows |-> probes[p].asks, gen |-> e.gen,
                            inFlight |-> e.inFlight, due |-> FALSE]
      BY <1>1, <2>1, <2>7 DEF Answer, Entries
    <2> HIDE DEF e
    <2>9. probes[p].gen = entry.gen /\ entry'.shows = probes[p].asks
      BY <1>1, <2>8
    <2> QED BY <1>1, <2>1, <2>8, <2>9, HealthAssumption DEF InStep
  <1>2. IInv /\ [Next]_vars => [OnlyItsProbeTells]_vars
    BY <1>1 DEF OnlyItsProbeTells
  <1> QED BY <1>2, InvInit, InvNext, PTL DEF Spec

=============================================================================
