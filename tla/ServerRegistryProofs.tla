------------------------ MODULE ServerRegistryProofs ------------------------
(***************************************************************************)
(* The server registry, proved for every number of calls, servers and      *)
(* values.  While no write failed for a call that shared the line, every   *)
(* record map in play (memory, the snapshots, what is being written, the   *)
(* file) is what the answered calls left with the changes of the first k   *)
(* calls in line made on top, for some k.                                  *)
(***************************************************************************)
EXTENDS ServerRegistry, TLAPS

(* r is t with the changes h of the first k calls of l made in order.      *)
After(r, k, l, h, t) ==
    \A s \in Server :
        \/ r[s] = t[s] /\ \A i \in 1..k : h[l[i]][1] # s
        \/ \E i \in 1..k : /\ h[l[i]] = <<s, r[s]>>
                           /\ \A j \in (i+1)..k : h[l[j]][1] # s

-----------------------------------------------------------------------------

(* The line and the states of the calls. *)
InLine == \A c \in Call : call[c] = "waiting" <=> \E i \in 1..Len(line) : line[i] = c

NoneTwice == \A i, j \in 1..Len(line) : line[i] = line[j] => i = j

Equipped == \A i \in 1..Len(line) :
                before[line[i]] \in Records /\ change[line[i]] \in Server \X Record

DraftIsTheirs == draft # Nothing => line # <<>>

BlockedIsIdle == blocked => line = <<>>

Crowding == \A i \in 1..Len(line) : line[i] \notin crowded => Len(line) = 1

LineInv == InLine /\ NoneTwice /\ Equipped /\ DraftIsTheirs /\ BlockedIsIdle /\ Crowding

(* What the maps hold. *)
MemoryHolds == ~blocked => After(memory, Len(line), line, change, told)

SnapshotsHold == \A i \in 1..Len(line) : After(before[line[i]], i - 1, line, change, told)

DraftHolds == draft # Nothing => \E k \in 1..Len(line) : After(draft, k, line, change, told)

FileHolds == \E k \in 0..Len(line) : After(file, k, line, change, told)

AloneFileHolds ==
    line # <<>> /\ Head(line) \notin crowded => After(file, 0, line, change, told)

MapsInv == ~mixed =>
    MemoryHolds /\ SnapshotsHold /\ DraftHolds /\ FileHolds /\ AloneFileHolds

IInv == TypeOK /\ LineInv /\ MapsInv

-----------------------------------------------------------------------------
(* What After says of a line that grows, of one whose first call is        *)
(* answered, and of no calls at all.                                       *)

LEMMA AfterAgrees ==
    ASSUME NEW r, NEW k \in Nat, NEW l, NEW h, NEW t, NEW l2, NEW h2,
           \A i \in 1..k : h2[l2[i]] = h[l[i]],
           After(r, k, l, h, t)
    PROVE  After(r, k, l2, h2, t)
  <1> SUFFICES ASSUME NEW s \in Server
               PROVE  \/ r[s] = t[s] /\ \A i \in 1..k : h2[l2[i]][1] # s
                      \/ \E i \in 1..k : /\ h2[l2[i]] = <<s, r[s]>>
                                         /\ \A j \in (i+1)..k : h2[l2[j]][1] # s
    BY DEF After
  <1>1. CASE r[s] = t[s] /\ \A i \in 1..k : h[l[i]][1] # s
    BY <1>1
  <1>2. CASE \E i \in 1..k : /\ h[l[i]] = <<s, r[s]>>
                             /\ \A j \in (i+1)..k : h[l[j]][1] # s
    <2>1. PICK i \in 1..k : /\ h[l[i]] = <<s, r[s]>>
                            /\ \A j \in (i+1)..k : h[l[j]][1] # s
      BY <1>2
    <2>2. \A j \in (i+1)..k : j \in 1..k
      OBVIOUS
    <2> QED BY <2>1, <2>2
  <1> QED BY <1>1, <1>2 DEF After

LEMMA AfterChange ==
    ASSUME NEW r \in Records, NEW k \in Nat, NEW l, NEW h, NEW t, NEW l2, NEW h2,
           NEW s \in Server, NEW v,
           \A i \in 1..k : h2[l2[i]] = h[l[i]],
           h2[l2[k + 1]] = <<s, v>>,
           After(r, k, l, h, t)
    PROVE  After([r EXCEPT ![s] = v], k + 1, l2, h2, t)
  <1> DEFINE r2 == [r EXCEPT ![s] = v]
  <1>1. After(r, k, l2, h2, t)
    BY AfterAgrees
  <1> SUFFICES ASSUME NEW x \in Server
               PROVE  \/ r2[x] = t[x] /\ \A i \in 1..(k+1) : h2[l2[i]][1] # x
                      \/ \E i \in 1..(k+1) : /\ h2[l2[i]] = <<x, r2[x]>>
                                             /\ \A j \in (i+1)..(k+1) : h2[l2[j]][1] # x
    BY DEF After
  <1>2. CASE x = s
    <2>1. r2[x] = v
      BY <1>2 DEF Records
    <2>2. k + 1 \in 1..(k+1) /\ (k+1+1)..(k+1) = {}
      OBVIOUS
    <2> QED BY <1>2, <2>1, <2>2
  <1>3. CASE x # s
    <2>1. r2[x] = r[x] /\ h2[l2[k+1]][1] # x
      BY <1>3 DEF Records
    <2>2. CASE r[x] = t[x] /\ \A i \in 1..k : h2[l2[i]][1] # x
      <3>1. \A i \in 1..(k+1) : i \in 1..k \/ i = k + 1
        OBVIOUS
      <3> QED BY <2>1, <2>2, <3>1
    <2>3. CASE \E i \in 1..k : /\ h2[l2[i]] = <<x, r[x]>>
                               /\ \A j \in (i+1)..k : h2[l2[j]][1] # x
      <3>1. PICK i \in 1..k : /\ h2[l2[i]] = <<x, r[x]>>
                              /\ \A j \in (i+1)..k : h2[l2[j]][1] # x
        BY <2>3
      <3>2. i \in 1..(k+1) /\ \A j \in (i+1)..(k+1) : j \in (i+1)..k \/ j = k + 1
        OBVIOUS
      <3> QED BY <2>1, <3>1, <3>2
    <2> QED BY <1>1, <2>2, <2>3 DEF After
  <1> QED BY <1>2, <1>3

LEMMA AfterAnswer ==
    ASSUME NEW r, NEW k \in Nat \ {0}, NEW l, NEW h, NEW t \in Records,
           NEW l2, NEW h2, NEW s \in Server, NEW v,
           h[l[1]] = <<s, v>>,
           \A i \in 1..(k-1) : h2[l2[i]] = h[l[i+1]],
           After(r, k, l, h, t)
    PROVE  After(r, k - 1, l2, h2, [t EXCEPT ![s] = v])
  <1> DEFINE t2 == [t EXCEPT ![s] = v]
  <1> SUFFICES ASSUME NEW x \in Server
               PROVE  \/ r[x] = t2[x] /\ \A i \in 1..(k-1) : h2[l2[i]][1] # x
                      \/ \E i \in 1..(k-1) : /\ h2[l2[i]] = <<x, r[x]>>
                                             /\ \A j \in (i+1)..(k-1) : h2[l2[j]][1] # x
    BY DEF After
  <1>1. CASE r[x] = t[x] /\ \A i \in 1..k : h[l[i]][1] # x
    <2>1. x # s
      BY <1>1
    <2>2. t2[x] = t[x]
      BY <2>1 DEF Records
    <2>3. \A i \in 1..(k-1) : i + 1 \in 1..k
      OBVIOUS
    <2> QED BY <1>1, <2>2, <2>3
  <1>2. CASE \E i \in 1..k : /\ h[l[i]] = <<x, r[x]>>
                             /\ \A j \in (i+1)..k : h[l[j]][1] # x
    <2>1. PICK i \in 1..k : /\ h[l[i]] = <<x, r[x]>>
                            /\ \A j \in (i+1)..k : h[l[j]][1] # x
      BY <1>2
    <2>2. CASE i = 1
      <3>1. x = s /\ r[x] = v
        BY <2>1, <2>2
      <3>2. t2[x] = r[x]
        BY <3>1 DEF Records
      <3>3. \A j \in 1..(k-1) : j + 1 \in (i+1)..k
        BY <2>2
      <3> QED BY <2>1, <3>2, <3>3
    <2>3. CASE i # 1
      <3>1. i - 1 \in 1..(k-1) /\ (i - 1) + 1 = i
        BY <2>3
      <3>2. \A j \in ((i-1)+1)..(k-1) : j \in 1..(k-1) /\ j + 1 \in (i+1)..k
        BY <2>3
      <3>3. h2[l2[i-1]] = <<x, r[x]>>
        <4>1. h2[l2[i-1]] = h[l[(i-1)+1]]
          BY <3>1
        <4> QED BY <2>1, <3>1, <4>1
      <3>4. ASSUME NEW j \in ((i-1)+1)..(k-1)
            PROVE  h2[l2[j]][1] # x
        <4>1. h2[l2[j]] = h[l[j+1]]
          BY <3>2
        <4>2. h[l[j+1]][1] # x
          BY <2>1, <3>2
        <4> QED BY <4>1, <4>2
      <3> QED BY <3>1, <3>3, <3>4
    <2> QED BY <2>2, <2>3
  <1> QED BY <1>1, <1>2 DEF After

LEMMA AfterNothing ==
    ASSUME NEW r \in Records, NEW t \in Records, NEW l, NEW h
    PROVE  After(r, 0, l, h, t) <=> r = t
  BY DEF After, Records

-----------------------------------------------------------------------------
(* The line. *)

LEMMA LineFacts ==
    ASSUME TypeOK, line # <<>>
    PROVE  /\ Head(line) = line[1] /\ 1 \in 1..Len(line) /\ Len(line) \in Nat
           /\ Tail(line) \in Seq(Call) /\ Len(Tail(line)) = Len(line) - 1
           /\ \A i \in 1..Len(Tail(line)) : Tail(line)[i] = line[i+1] /\ i + 1 \in 1..Len(line)
           /\ \A i \in 1..Len(line) : i # 1 => i - 1 \in 1..Len(Tail(line)) /\ (i - 1) + 1 = i
           /\ \A i \in 1..Len(line) : line[i] \in Call
  BY DEF TypeOK

LEMMA AppendFacts ==
    ASSUME NEW l \in Seq(Call), NEW c \in Call
    PROVE  /\ Len(l) \in Nat /\ Len(Append(l, c)) = Len(l) + 1
           /\ Append(l, c)[Len(l) + 1] = c
           /\ \A i \in 1..Len(l) : Append(l, c)[i] = l[i] /\ l[i] \in Call
           /\ Len(l) = 0 => l = <<>>
  OBVIOUS

(* What a first call that is answered leaves of the line. *)
LEMMA AnswerKeepsLine ==
    ASSUME TypeOK, LineInv, NEW c \in Call, NextToWrite(c), NEW how, how # "waiting",
           Answer(c, how), blocked' = blocked
    PROVE  LineInv'
  <1>1. c = line[1] /\ line # <<>>
    BY LineFacts DEF NextToWrite
  <1>2. \A i \in 1..Len(line') : /\ line'[i] = line[i+1] /\ i + 1 \in 1..Len(line)
                                 /\ line'[i] # c
    BY <1>1, LineFacts DEF Answer, LineInv, NoneTwice
  <1>3. InLine'
    <2> SUFFICES ASSUME NEW d \in Call
                 PROVE  call'[d] = "waiting" <=> \E i \in 1..Len(line') : line'[i] = d
      BY DEF InLine
    <2>1. CASE d = c
      BY <1>2, <2>1 DEF Answer, TypeOK
    <2>2. CASE d # c
      <3>1. call'[d] = call[d]
        BY <2>2 DEF Answer, TypeOK
      <3>2. \A i \in 1..Len(line) : line[i] = d => i # 1
        BY <1>1, <2>2
      <3>3. ASSUME NEW i \in 1..Len(line), line[i] = d
            PROVE  \E k \in 1..Len(line') : line'[k] = d
        <4>1. i # 1
          BY <3>2, <3>3
        <4>2. i - 1 \in 1..Len(line') /\ (i - 1) + 1 = i
          BY <1>1, <4>1, LineFacts DEF Answer
        <4> QED BY <1>2, <3>3, <4>2
      <3>4. ASSUME NEW i \in 1..Len(line'), line'[i] = d
            PROVE  \E k \in 1..Len(line) : line[k] = d
        BY <1>2, <3>4
      <3> QED BY <3>1, <3>3, <3>4 DEF LineInv, InLine
    <2> QED BY <2>1, <2>2
  <1>4. NoneTwice'
    <2> SUFFICES ASSUME NEW i \in 1..Len(line'), NEW j \in 1..Len(line'), line'[i] = line'[j]
                 PROVE  i = j
      BY DEF NoneTwice
    <2>1. line[i+1] = line[j+1] /\ i + 1 \in 1..Len(line) /\ j + 1 \in 1..Len(line)
      BY <1>2
    <2>2. i + 1 = j + 1
      BY <2>1 DEF LineInv, NoneTwice
    <2> QED BY <2>2, LineFacts, <1>1 DEF Answer
  <1>5. Equipped'
    <2> SUFFICES ASSUME NEW i \in 1..Len(line')
                 PROVE  before'[line'[i]] \in Records /\ change'[line'[i]] \in Server \X Record
      BY DEF Equipped
    <2>1. before'[line'[i]] = before[line[i+1]] /\ change'[line'[i]] = change[line[i+1]]
      BY <1>1, <1>2, LineFacts DEF Answer, TypeOK
    <2> QED BY <1>2, <2>1 DEF LineInv, Equipped
  <1>6. DraftIsTheirs' /\ BlockedIsIdle'
    BY <1>1 DEF Answer, DraftIsTheirs, BlockedIsIdle, LineInv
  <1>7. Crowding'
    <2> SUFFICES ASSUME NEW i \in 1..Len(line'), line'[i] \notin crowded'
                 PROVE  Len(line') = 1
      BY DEF Crowding
    <2>1. line[i+1] \notin crowded /\ i + 1 \in 1..Len(line)
      BY <1>2 DEF Answer
    <2>2. Len(line) = 1
      BY <2>1 DEF LineInv, Crowding
    <2> QED BY <2>2, <1>1, LineFacts DEF Answer
  <1> QED BY <1>3, <1>4, <1>5, <1>6, <1>7 DEF LineInv

LEMMA StartKeepsLine ==
    ASSUME TypeOK, LineInv, NEW c \in Call, NEW s \in Server, NEW v \in Record,
           StartCall(c, s, v)
    PROVE  TypeOK' /\ LineInv'
  <1>1. TypeOK'
    <2>1. [memory EXCEPT ![s] = v] \in Records
      BY DEF TypeOK, Records
    <2>2. memory' \in Records /\ before' \in [Call -> Records \cup {Nothing}]
          /\ change' \in [Call -> (Server \X Record) \cup {Nothing}]
      BY <2>1 DEF StartCall, Enter, TypeOK
    <2>3. /\ line' \in Seq(Call) /\ crowded' \subseteq Call
          /\ call' \in [Call -> {"new", "waiting", "saved", "failed", "lost"}]
      BY DEF StartCall, Enter, TypeOK, Waiting
    <2> QED BY <2>2, <2>3 DEF StartCall, Enter, TypeOK
  <1>2. /\ Len(line') = Len(line) + 1 /\ line'[Len(line) + 1] = c /\ Len(line) \in Nat
        /\ \A i \in 1..Len(line) : line'[i] = line[i] /\ line[i] \in Call
        /\ \A i \in 1..Len(line') : i \in 1..Len(line) \/ i = Len(line) + 1
    BY DEF StartCall, Enter, TypeOK
  <1>3. \A i \in 1..Len(line) : line[i] # c
    BY <1>2 DEF LineInv, InLine, StartCall, Enter
  <1>4. InLine'
    <2> SUFFICES ASSUME NEW d \in Call
                 PROVE  call'[d] = "waiting" <=> \E i \in 1..Len(line') : line'[i] = d
      BY DEF InLine
    <2>1. CASE d = c
      BY <1>2, <2>1 DEF StartCall, Enter, TypeOK
    <2>2. CASE d # c
      <3>1. call'[d] = call[d]
        BY <2>2 DEF StartCall, Enter, TypeOK
      <3>2. (\E i \in 1..Len(line) : line[i] = d) <=> \E i \in 1..Len(line') : line'[i] = d
        BY <1>2, <2>2
      <3> QED BY <3>1, <3>2 DEF LineInv, InLine
    <2> QED BY <2>1, <2>2
  <1>5. NoneTwice'
    BY <1>2, <1>3 DEF LineInv, NoneTwice
  <1>6. Equipped'
    <2>1. before'[c] = memory /\ change'[c] = <<s, v>>
      BY DEF StartCall, Enter, TypeOK
    <2>2. \A i \in 1..Len(line) : before'[line[i]] = before[line[i]] /\ change'[line[i]] = change[line[i]]
      BY <1>2, <1>3 DEF StartCall, Enter, TypeOK
    <2>3. memory \in Records /\ <<s, v>> \in Server \X Record
      BY DEF TypeOK
    <2>4. ASSUME NEW i \in 1..Len(line')
          PROVE  before'[line'[i]] \in Records /\ change'[line'[i]] \in Server \X Record
      <3>1. CASE i \in 1..Len(line)
        BY <1>2, <2>2, <3>1 DEF LineInv, Equipped
      <3>2. CASE i = Len(line) + 1
        BY <1>2, <2>1, <2>3, <3>2
      <3> QED BY <1>2, <3>1, <3>2
    <2> QED BY <2>4 DEF Equipped
  <1>7. DraftIsTheirs' /\ BlockedIsIdle'
    BY <1>2 DEF StartCall, Enter, DraftIsTheirs, BlockedIsIdle, TypeOK
  <1>8. Crowding'
    <2>1. CASE line = <<>>
      BY <1>2, <2>1 DEF Crowding
    <2>2. CASE line # <<>>
      <3>1. \A i \in 1..Len(line) : line[i] \in Waiting
        BY <1>2 DEF LineInv, InLine, Waiting
      <3>2. crowded' = crowded \cup Waiting \cup {c}
        BY <2>2 DEF StartCall, Enter
      <3> QED BY <1>2, <3>1, <3>2 DEF Crowding
    <2> QED BY <2>1, <2>2
  <1> QED BY <1>1, <1>4, <1>5, <1>6, <1>7, <1>8 DEF LineInv

LEMMA TypeAndLineNext ==
    ASSUME TypeOK, LineInv, [Next]_vars
    PROVE  TypeOK' /\ LineInv'
  <1> USE DEF LineInv
  <1>1. ASSUME NEW c \in Call, NEW s \in Server, NEW v \in Record, StartCall(c, s, v)
        PROVE  TypeOK' /\ LineInv'
    BY <1>1, StartKeepsLine
  <1>2. ASSUME NEW c \in Call, RefuseCall(c)
        PROVE  TypeOK' /\ LineInv'
    <2>1. TypeOK'
      BY <1>2 DEF RefuseCall, TypeOK, closures
    <2>2. InLine'
      <3>1. call[c] # "waiting" /\ \A d \in Call : call'[d] = "waiting" <=> call[d] = "waiting"
        BY <1>2 DEF RefuseCall, TypeOK
      <3> QED BY <1>2, <3>1 DEF RefuseCall, InLine
    <2>3. NoneTwice' /\ Equipped' /\ DraftIsTheirs' /\ BlockedIsIdle' /\ Crowding'
      BY <1>2 DEF RefuseCall, closures, NoneTwice, Equipped, DraftIsTheirs, BlockedIsIdle, Crowding
    <2> QED BY <2>1, <2>2, <2>3
  <1>3. ASSUME NEW c \in Call, NextToWrite(c), NEW how \in {"saved", "failed"}, Answer(c, how)
        PROVE  /\ c = line[1] /\ before[c] \in Records /\ change[c] \in Server \X Record
               /\ line' \in Seq(Call) /\ draft' \in Records \cup {Nothing}
               /\ before' \in [Call -> Records \cup {Nothing}]
               /\ change' \in [Call -> (Server \X Record) \cup {Nothing}]
               /\ call' \in [Call -> {"new", "waiting", "saved", "failed", "lost"}]
               /\ crowded' \subseteq Call
    <2>1. c = line[1] /\ line # <<>> /\ 1 \in 1..Len(line)
      BY <1>3, LineFacts DEF NextToWrite
    <2>2. line' \in Seq(Call)
      BY <1>3, <2>1, LineFacts DEF Answer
    <2>3. before[c] \in Records /\ change[c] \in Server \X Record
      BY <2>1 DEF Equipped
    <2> QED BY <1>3, <2>1, <2>2, <2>3 DEF Answer, TypeOK
  <1>4. ASSUME NEW c \in Call, Publish(c)
        PROVE  TypeOK' /\ LineInv'
    <2>1. told' \in Records
      <3>1. change[c][1] \in Server /\ change[c][2] \in Record
        BY <1>3, <1>4 DEF Publish
      <3> QED BY <1>4, <3>1 DEF Publish, TypeOK, Records
    <2>2. TypeOK'
      BY <1>3, <1>4, <2>1 DEF Publish, TypeOK
    <2>3. LineInv'
      BY <1>4, AnswerKeepsLine DEF Publish
    <2> QED BY <2>2, <2>3
  <1>5. ASSUME NEW c \in Call, WriteFails(c)
        PROVE  TypeOK' /\ LineInv'
    <2>1. TypeOK'
      BY <1>3, <1>5 DEF WriteFails, TypeOK
    <2>2. LineInv'
      BY <1>5, AnswerKeepsLine DEF WriteFails
    <2> QED BY <2>1, <2>2
  <1>6. CASE Serialize
    BY <1>6 DEF Serialize, TypeOK, closures, InLine, NoneTwice, Equipped, DraftIsTheirs,
                BlockedIsIdle, Crowding
  <1>7. CASE Restart
    <2>1. TypeOK'
      <3>1. /\ line' \in Seq(Call)
            /\ call' \in [Call -> {"new", "waiting", "saved", "failed", "lost"}]
        BY <1>7 DEF Restart, TypeOK
      <3>2. /\ before' \in [Call -> Records \cup {Nothing}]
            /\ change' \in [Call -> (Server \X Record) \cup {Nothing}]
        BY <1>7 DEF Restart
      <3>3. memory' \in Records /\ file' \in Records /\ told' \in Records /\ blocked' \in BOOLEAN
        BY <1>7 DEF Restart, TypeOK
      <3>4. draft' \in Records \cup {Nothing} /\ crowded' \subseteq Call /\ mixed' \in BOOLEAN
        BY <1>7 DEF Restart
      <3> QED BY <3>1, <3>2, <3>3, <3>4 DEF TypeOK
    <2>2. line' = <<>> /\ draft' = Nothing /\ \A d \in Call : call'[d] # "waiting"
      BY <1>7 DEF Restart, Waiting, TypeOK
    <2>3. LineInv'
      BY <2>2 DEF InLine, NoneTwice, Equipped, DraftIsTheirs, BlockedIsIdle, Crowding
    <2> QED BY <2>1, <2>3
  <1>8. CASE UNCHANGED vars
    BY <1>8 DEF vars, closures, TypeOK, InLine, NoneTwice, Equipped, DraftIsTheirs,
                BlockedIsIdle, Crowding
  <1> QED BY <1>1, <1>2, <1>4, <1>5, <1>6, <1>7, <1>8 DEF Next, Write

-----------------------------------------------------------------------------
(* The maps. *)

LEMMA StartKeepsMaps ==
    ASSUME IInv, NEW c \in Call, NEW s \in Server, NEW v \in Record, StartCall(c, s, v)
    PROVE  MapsInv'
  <1> SUFFICES ASSUME ~mixed
               PROVE  MemoryHolds' /\ SnapshotsHold' /\ DraftHolds' /\ FileHolds' /\ AloneFileHolds'
    BY DEF MapsInv, StartCall, Enter
  <1> USE DEF IInv, MapsInv
  <1>1. /\ ~blocked /\ told' = told /\ file' = file /\ draft' = draft
        /\ memory' = [memory EXCEPT ![s] = v] /\ memory \in Records
        /\ After(memory, Len(line), line, change, told)
    BY DEF StartCall, Enter, MemoryHolds, TypeOK
  <1>2. /\ Len(line) \in Nat /\ Len(line') = Len(line) + 1 /\ line'[Len(line) + 1] = c
        /\ \A i \in 1..Len(line) : line'[i] = line[i] /\ line[i] \in Call /\ line[i] # c
    <2>1. line \in Seq(Call) /\ line' = Append(line, c) /\ call[c] # "waiting"
      BY DEF StartCall, Enter, TypeOK
    <2>2. \A i \in 1..Len(line) : line[i] # c
      BY <2>1 DEF LineInv, InLine
    <2> QED BY <2>1, <2>2, AppendFacts
  <1>3. change'[c] = <<s, v>> /\ before'[c] = memory
    BY DEF StartCall, Enter, TypeOK
  <1>4. \A i \in 1..Len(line) : /\ change'[line'[i]] = change[line[i]]
                               /\ before'[line'[i]] = before[line[i]]
    BY <1>2 DEF StartCall, Enter, TypeOK
  <1>5. ASSUME NEW r, NEW k \in 0..Len(line), After(r, k, line, change, told)
        PROVE  After(r, k, line', change', told)
    <2>1. \A i \in 1..k : change'[line'[i]] = change[line[i]]
      BY <1>2, <1>4
    <2> QED BY <1>5, <2>1, <1>2, AfterAgrees
  <1>6. MemoryHolds'
    <2>1. After(memory', Len(line) + 1, line', change', told)
      BY <1>1, <1>2, <1>3, <1>4, AfterChange
    <2> QED BY <1>1, <1>2, <2>1 DEF MemoryHolds
  <1>7. SnapshotsHold'
    <2> SUFFICES ASSUME NEW i \in 1..Len(line')
                 PROVE  After(before'[line'[i]], i - 1, line', change', told)
      BY <1>1 DEF SnapshotsHold
    <2>1. CASE i \in 1..Len(line)
      <3>1. After(before[line[i]], i - 1, line, change, told) /\ i - 1 \in 0..Len(line)
        BY <1>2, <2>1 DEF SnapshotsHold
      <3> QED BY <1>4, <1>5, <2>1, <3>1
    <2>2. CASE i = Len(line) + 1
      BY <1>1, <1>2, <1>3, <1>5, <2>2
    <2> QED BY <1>2, <2>1, <2>2
  <1>8. DraftHolds'
    <2> SUFFICES ASSUME draft # Nothing
                 PROVE  \E k \in 1..Len(line') : After(draft, k, line', change', told)
      BY <1>1 DEF DraftHolds
    <2>1. PICK k \in 1..Len(line) : After(draft, k, line, change, told)
      BY DEF DraftHolds
    <2> QED BY <1>2, <1>5, <2>1
  <1>9. FileHolds'
    <2>1. PICK k \in 0..Len(line) : After(file, k, line, change, told)
      BY DEF FileHolds
    <2>2. k \in 0..Len(line') /\ After(file, k, line', change', told)
      BY <1>2, <1>5, <2>1
    <2> QED BY <1>1, <2>2 DEF FileHolds
  <1>10. AloneFileHolds'
    <2> SUFFICES ASSUME line' # <<>>, Head(line') \notin crowded'
                 PROVE  After(file, 0, line', change', told)
      BY <1>1 DEF AloneFileHolds
    <2>1. line = <<>>
      <3>1. Head(line') = line'[1] /\ 1 \in 1..Len(line')
        BY <1>2 DEF StartCall, Enter, TypeOK
      <3>2. Len(line') = 1
        BY <3>1, StartKeepsLine DEF LineInv, Crowding
      <3>3. Len(line) = 0
        BY <1>2, <3>2
      <3> QED BY <3>3, AppendFacts DEF TypeOK
    <2>2. Len(line) = 0 /\ After(file, 0, line, change, told)
      BY <2>1 DEF FileHolds
    <2> QED BY <1>5, <2>2
  <1> QED BY <1>6, <1>7, <1>8, <1>9, <1>10

LEMMA PublishKeepsMaps ==
    ASSUME IInv, NEW c \in Call, Publish(c)
    PROVE  MapsInv'
  <1> SUFFICES ASSUME ~mixed
               PROVE  MemoryHolds' /\ SnapshotsHold' /\ DraftHolds' /\ FileHolds' /\ AloneFileHolds'
    BY DEF MapsInv, Publish
  <1> USE DEF IInv, MapsInv
  <1>1. c = line[1] /\ line # <<>> /\ 1 \in 1..Len(line) /\ ~blocked /\ ~blocked'
    BY LineFacts DEF Publish, NextToWrite, LineInv, BlockedIsIdle
  <1>2. /\ Len(line') = Len(line) - 1 /\ Len(line) \in Nat \ {0}
        /\ \A i \in 1..Len(line') :
              line'[i] = line[i+1] /\ i + 1 \in 1..Len(line) /\ line[i+1] \in Call /\ line[i+1] # c
    BY <1>1, LineFacts DEF Publish, Answer, LineInv, NoneTwice
  <1>3. PICK s \in Server, v \in Record : change[c] = <<s, v>>
    BY <1>1 DEF LineInv, Equipped
  <1>4. /\ told' = [told EXCEPT ![s] = v] /\ told \in Records
        /\ file' = draft /\ memory' = memory /\ draft' = Nothing
    BY <1>3 DEF Publish, Answer, TypeOK
  <1>5. \A i \in 1..Len(line') : /\ change'[line'[i]] = change[line[i+1]]
                                /\ before'[line'[i]] = before[line[i+1]]
    BY <1>2 DEF Publish, Answer, TypeOK
  <1>6. ASSUME NEW r, NEW k \in 1..Len(line), After(r, k, line, change, told)
        PROVE  After(r, k - 1, line', change', told')
    <2>1. \A i \in 1..(k-1) : change'[line'[i]] = change[line[i+1]]
      BY <1>2, <1>5
    <2>2. k \in Nat \ {0}
      OBVIOUS
    <2>3. After(r, k - 1, line', change', [told EXCEPT ![s] = v])
      BY <1>1, <1>3, <1>4, <1>6, <2>1, <2>2, AfterAnswer
    <2> QED BY <1>4, <2>3
  <1>7. MemoryHolds'
    <2>1. After(memory, Len(line), line, change, told) /\ Len(line) \in 1..Len(line)
      BY <1>1, <1>2 DEF MemoryHolds
    <2>2. After(memory, Len(line'), line', change', told')
      BY <1>2, <1>6, <2>1
    <2> QED BY <1>4, <2>2 DEF MemoryHolds
  <1>8. SnapshotsHold'
    <2> SUFFICES ASSUME NEW i \in 1..Len(line')
                 PROVE  After(before'[line'[i]], i - 1, line', change', told')
      BY DEF SnapshotsHold
    <2>1. After(before[line[i+1]], (i + 1) - 1, line, change, told) /\ (i + 1) - 1 = i
      BY <1>2 DEF SnapshotsHold
    <2> QED BY <1>2, <1>5, <1>6, <2>1
  <1>9. DraftHolds'
    BY <1>4 DEF DraftHolds
  <1>10. FileHolds'
    <2>1. PICK k \in 1..Len(line) : After(draft, k, line, change, told)
      BY DEF DraftHolds, Publish
    <2>2. k - 1 \in 0..Len(line') /\ After(draft, k - 1, line', change', told')
      BY <1>2, <1>6, <2>1
    <2> QED BY <1>4, <2>2 DEF FileHolds
  <1>11. AloneFileHolds'
    <2> SUFFICES ASSUME line' # <<>>
                 PROVE  Head(line') \in crowded'
      BY DEF AloneFileHolds
    <2>1. Len(line') \in Nat /\ Len(line') # 0 /\ Head(line') = line'[1]
      BY LineFacts, <1>1 DEF Publish, Answer
    <2>2. 1 \in 1..Len(line') /\ Len(line) # 1 /\ Head(line') = line[2] /\ 2 \in 1..Len(line)
      BY <1>2, <2>1
    <2>3. line[2] \in crowded /\ line[2] # c
      BY <1>2, <2>2 DEF LineInv, Crowding
    <2> QED BY <2>2, <2>3 DEF Publish, Answer
  <1> QED BY <1>7, <1>8, <1>9, <1>10, <1>11

LEMMA FailureKeepsMaps ==
    ASSUME IInv, NEW c \in Call, WriteFails(c)
    PROVE  MapsInv'
  <1> SUFFICES ASSUME ~mixed, c \notin crowded
               PROVE  MemoryHolds' /\ SnapshotsHold' /\ DraftHolds' /\ FileHolds' /\ AloneFileHolds'
    BY DEF MapsInv, WriteFails
  <1> USE DEF IInv, MapsInv
  <1>1. c = line[1] /\ Head(line) = c /\ line # <<>> /\ 1 \in 1..Len(line)
    BY LineFacts DEF WriteFails, NextToWrite
  <1>2. Len(line) = 1
    BY <1>1 DEF LineInv, Crowding
  <1>3. line' = <<>> /\ Len(line') = 0
    BY <1>1, <1>2, LineFacts DEF WriteFails, Answer
  <1>4. told' = told /\ file' = file /\ memory' = before[c] /\ draft' = Nothing
    BY DEF WriteFails, Answer
  <1>5. ASSUME NEW r, After(r, 0, line, change, told)
        PROVE  After(r, 0, line', change', told')
    BY <1>4, <1>5, AfterAgrees
  <1>6. After(before[c], 0, line, change, told)
    BY <1>1 DEF SnapshotsHold
  <1>7. After(file, 0, line, change, told)
    BY <1>1 DEF AloneFileHolds
  <1>8. MemoryHolds' /\ FileHolds'
    BY <1>3, <1>4, <1>5, <1>6, <1>7 DEF MemoryHolds, FileHolds
  <1>9. SnapshotsHold' /\ DraftHolds' /\ AloneFileHolds'
    BY <1>3, <1>4 DEF SnapshotsHold, DraftHolds, AloneFileHolds
  <1> QED BY <1>8, <1>9

LEMMA SerializeKeepsMaps ==
    ASSUME IInv, Serialize
    PROVE  MapsInv'
  <1>1. /\ Len(line) \in 1..Len(line) /\ ~blocked
    BY DEF IInv, Serialize, TypeOK, LineInv, BlockedIsIdle
  <1>2. ~mixed => DraftHolds'
    BY <1>1 DEF Serialize, closures, DraftHolds, IInv, MapsInv, MemoryHolds
  <1> QED BY <1>2 DEF Serialize, closures, IInv, MapsInv, MemoryHolds, SnapshotsHold, FileHolds,
                     AloneFileHolds

LEMMA LoadKeepsMaps ==
    ASSUME line = <<>>, draft = Nothing, told = file, file \in Records,
           memory \in Records, Loaded(file, memory, blocked)
    PROVE  MapsInv
  <1>1. Len(line) = 0
    OBVIOUS
  <1>2. After(file, 0, line, change, told)
    BY AfterNothing
  <1>3. ~blocked => memory = file
    BY DEF Loaded
  <1> QED BY <1>1, <1>2, <1>3 DEF MapsInv, MemoryHolds, SnapshotsHold, DraftHolds, FileHolds,
                                AloneFileHolds

-----------------------------------------------------------------------------

LEMMA InvInit == Init => IInv
  <1> SUFFICES ASSUME Init PROVE IInv
    OBVIOUS
  <1>1. TypeOK
    <2>1. line \in Seq(Call)
      BY DEF Init
    <2> QED BY <2>1 DEF Init, TypeOK
  <1>2. LineInv
    BY DEF Init, LineInv, InLine, NoneTwice, Equipped, DraftIsTheirs, BlockedIsIdle, Crowding
  <1>3. MapsInv
    BY LoadKeepsMaps DEF Init
  <1> QED BY <1>1, <1>2, <1>3 DEF IInv

LEMMA InvNext == IInv /\ [Next]_vars => IInv'
  <1> SUFFICES ASSUME IInv, [Next]_vars PROVE IInv'
    OBVIOUS
  <1>1. TypeOK' /\ LineInv'
    BY TypeAndLineNext DEF IInv
  <1>2. ASSUME NEW c \in Call, NEW s \in Server, NEW v \in Record, StartCall(c, s, v)
        PROVE  MapsInv'
    BY <1>2, StartKeepsMaps
  <1>3. ASSUME NEW c \in Call, RefuseCall(c)
        PROVE  MapsInv'
    BY <1>3 DEF RefuseCall, closures, IInv, MapsInv, MemoryHolds, SnapshotsHold, DraftHolds,
                FileHolds, AloneFileHolds
  <1>4. ASSUME NEW c \in Call, Write(c)
        PROVE  MapsInv'
    BY <1>4, PublishKeepsMaps, FailureKeepsMaps DEF Write
  <1>5. ASSUME Serialize
        PROVE  MapsInv'
    BY <1>5, SerializeKeepsMaps
  <1>6. ASSUME Restart
        PROVE  MapsInv'
    <2>1. /\ line' = <<>> /\ draft' = Nothing /\ told' = file' /\ file' \in Records
          /\ memory' \in Records /\ Loaded(file', memory', blocked')
      BY <1>6 DEF Restart, IInv, TypeOK, Loaded
    <2>2. Len(line') = 0
      BY <2>1
    <2>3. After(file', 0, line', change', told')
      BY <2>1, AfterNothing
    <2>4. ~blocked' => memory' = file'
      BY <2>1 DEF Loaded
    <2> QED BY <2>1, <2>2, <2>3, <2>4 DEF MapsInv, MemoryHolds, SnapshotsHold, DraftHolds,
                                          FileHolds, AloneFileHolds
  <1>7. ASSUME UNCHANGED vars
        PROVE  MapsInv'
    BY <1>7 DEF vars, closures, IInv, MapsInv, MemoryHolds, SnapshotsHold, DraftHolds,
                FileHolds, AloneFileHolds
  <1> QED BY <1>1, <1>2, <1>3, <1>4, <1>5, <1>6, <1>7 DEF Next, IInv

(* The records, snapshots and changes are what they claim to be, in every  *)
(* reachable state: no write fails without a snapshot to restore (_commit).*)
THEOREM TypeCorrect == Spec => []TypeOK
  <1>1. IInv => TypeOK
    BY DEF IInv
  <1> QED BY <1>1, InvInit, InvNext, PTL DEF Spec

(* With no call under way memory is the file, unless a write failed for a  *)
(* call that had shared the line, or the file was not understood (_commit).*)
THEOREM MemoryConverges == Spec => []Converges
  <1>1. IInv => Converges
    <2> SUFFICES ASSUME IInv, line = <<>>, ~mixed, ~blocked
                 PROVE  memory = file
      BY DEF Converges
    <2>1. Len(line) = 0
      OBVIOUS
    <2>2. After(memory, 0, line, change, told) /\ After(file, 0, line, change, told)
      BY <2>1 DEF IInv, MapsInv, MemoryHolds, FileHolds
    <2> QED BY <2>2, AfterNothing DEF IInv, TypeOK
  <1> QED BY <1>1, InvInit, InvNext, PTL DEF Spec

(* The file holds what the answered calls left or what one still in line   *)
(* wants, for every server, and keeps it across restarts (_persist, load). *)
THEOREM FileKeepsWhatItSaid == Spec => []KeepsWhatItSaid
  <1>1. IInv => KeepsWhatItSaid
    <2> SUFFICES ASSUME IInv, ~mixed, NEW s \in Server
                 PROVE  file[s] = told[s] \/ \E c \in Waiting : change[c] = <<s, file[s]>>
      BY DEF KeepsWhatItSaid
    <2>1. PICK k \in 0..Len(line) : After(file, k, line, change, told)
      BY DEF IInv, MapsInv, FileHolds
    <2>2. Len(line) \in Nat /\ \A i \in 1..Len(line) : line[i] \in Waiting
      <3>1. Len(line) \in Nat /\ \A i \in 1..Len(line) : line[i] \in Call
        BY AppendFacts DEF IInv, TypeOK
      <3> QED BY <3>1 DEF IInv, LineInv, InLine, Waiting
    <2>3. CASE \E i \in 1..k : change[line[i]] = <<s, file[s]>>
      BY <2>2, <2>3
    <2> QED BY <2>1, <2>3 DEF After
  <1> QED BY <1>1, InvInit, InvNext, PTL DEF Spec

(* A call that waits has one place in the line, where its write will come, *)
(* and none waits while nothing may be written (_persist, _writeQueue).    *)
OnePlaceEach ==
    /\ \A c \in Call : c \in Waiting <=> \E i \in 1..Len(line) : line[i] = c
    /\ \A i, j \in 1..Len(line) : line[i] = line[j] => i = j
    /\ blocked => Waiting = {}

(* Whoever still waits after a step has the place it had, or the one       *)
(* before it when the first in line was answered.                          *)
NobodyIsOvertaken ==
    \A i \in 1..Len(line) : call'[line[i]] = "waiting" =>
        \/ i \in 1..Len(line') /\ line'[i] = line[i] /\ \A c \in Waiting : call'[c] = "waiting"
        \/ i - 1 \in 1..Len(line') /\ line'[i - 1] = line[i] /\ call'[Head(line)] # "waiting"

(* No call waits for a write that nobody will make, whichever writes fail  *)
(* before it.                                                              *)
THEOREM WaitingIsInLine == Spec => []OnePlaceEach
  <1>1. IInv => OnePlaceEach
    <2> SUFFICES ASSUME IInv
                 PROVE  OnePlaceEach
      OBVIOUS
    <2>1. InLine /\ NoneTwice /\ (blocked => line = <<>>)
      BY DEF IInv, LineInv, BlockedIsIdle
    <2>2. blocked => Len(line) = 0
      BY <2>1
    <2> QED BY <2>1, <2>2 DEF OnePlaceEach, InLine, NoneTwice, Waiting
  <1> QED BY <1>1, InvInit, InvNext, PTL DEF Spec

(* Each answer brings whoever waits one place nearer to its own, and       *)
(* nothing puts it back: with OnePlaceEach, as many writes as there are    *)
(* calls in line answer them all (_writeQueue).  (AllAnswered, without the *)
(* time.)                                                                  *)
THEOREM TheLineMovesOn == Spec => [][NobodyIsOvertaken]_vars
  <1>1. ASSUME IInv, Next
        PROVE  NobodyIsOvertaken
    <2> SUFFICES ASSUME NEW i \in 1..Len(line), call'[line[i]] = "waiting"
                 PROVE  \/ /\ i \in 1..Len(line') /\ line'[i] = line[i]
                           /\ \A c \in Waiting : call'[c] = "waiting"
                        \/ i - 1 \in 1..Len(line') /\ line'[i - 1] = line[i] /\ call'[Head(line)] # "waiting"
      BY DEF NobodyIsOvertaken
    <2>1. /\ TypeOK /\ line \in Seq(Call) /\ Len(line) \in Nat /\ line[i] \in Call /\ line # <<>>
          /\ line[i] \in Waiting /\ call \in [Call -> {"new", "waiting", "saved", "failed", "lost"}]
      <3>1. TypeOK /\ line \in Seq(Call) /\ call \in [Call -> {"new", "waiting", "saved", "failed", "lost"}]
        BY <1>1 DEF IInv, TypeOK
      <3>2. Len(line) \in Nat /\ line[i] \in Call /\ line # <<>>
        BY <3>1
      <3> QED BY <1>1, <3>1, <3>2 DEF IInv, LineInv, InLine, Waiting
    <2>2. ASSUME NEW c \in Call, NextToWrite(c), NEW how \in {"saved", "failed"}, Answer(c, how)
          PROVE  i - 1 \in 1..Len(line') /\ line'[i - 1] = line[i] /\ call'[Head(line)] # "waiting"
      <3>1. Head(line) = c /\ line' = Tail(line) /\ call'[c] = how
        BY <2>1, <2>2 DEF NextToWrite, Answer
      <3>2. line[1] = c /\ i # 1
        BY <2>1, <3>1, LineFacts
      <3> QED BY <2>1, <3>1, <3>2, LineFacts
    <2>3. CASE \E c \in Call : Write(c)
      BY <2>2, <2>3 DEF Write, Publish, WriteFails
    <2>4. ASSUME NEW c \in Call, NEW s, NEW v, StartCall(c, s, v)
          PROVE  /\ i \in 1..Len(line') /\ line'[i] = line[i]
                 /\ \A d \in Waiting : call'[d] = "waiting"
      BY <2>1, <2>4, AppendFacts DEF StartCall, Enter, Waiting
    <2>5. CASE \E c \in Call : RefuseCall(c)
      BY <2>1, <2>5 DEF RefuseCall, Waiting
    <2>6. CASE Serialize
      BY <2>1, <2>6 DEF Serialize, Waiting
    <2>7. ~Restart
      BY <2>1 DEF Restart
    <2> QED BY <1>1, <2>3, <2>4, <2>5, <2>6, <2>7 DEF Next
  <1>2. IInv /\ [Next]_vars => [NobodyIsOvertaken]_vars
    BY <1>1
  <1> QED BY <1>2, InvInit, InvNext, PTL DEF Spec

=============================================================================
