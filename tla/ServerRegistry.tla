--------------------------- MODULE ServerRegistry ---------------------------
(***************************************************************************)
(* The servers the hub knows: ServerRegistry of lib/servers/registry.js.   *)
(*                                                                         *)
(* A call changes the records in memory at once and then waits in a line   *)
(* of writers.  The first in line writes whatever memory holds by then to  *)
(* a temporary file and renames it over servers.json; if that fails, the   *)
(* records as they were before its own call come back.  The panel may stop *)
(* at any moment and load the file again.                                  *)
(*                                                                         *)
(* Abstracted: the fields of a record (one value), how passwords are kept, *)
(* directories and modes, and entries that a hand put into the file and    *)
(* that do not validate.                                                   *)
(***************************************************************************)
EXTENDS Naturals, Sequences

CONSTANTS
    Call,       \* calls to create, update and remove, each used once
    Server,     \* server ids; the local server's name is like one of them
    Value,      \* what a record can hold
    Absent,     \* no record
    Nothing     \* nothing serialized, no snapshot, no change

ASSUME RegistryAssumption ==
    /\ Absent \notin Value
    /\ Nothing \notin [Server -> Value \cup {Absent}]
    /\ Nothing \notin Server \X (Value \cup {Absent})

VARIABLES
    memory,     \* _servers, as a function that is Absent where it has no record
    file,       \* servers.json
    draft,      \* servers.json.tmp of the write under way
    line,       \* _writeQueue: the calls waiting for their write
    call,       \* Call -> "new", "waiting", "saved", "failed", "lost"
    before,     \* Call -> the snapshot it took
    change,     \* Call -> the server it changes and the value it gives it
    blocked,    \* writesBlocked: the file could not be understood
    told,       \* history: the records as the answered calls left them
    crowded,    \* history: waiting calls that shared the line with another
    mixed       \* history: a write failed for such a call since the last start

closures == <<before, change>>
vars == <<memory, file, draft, line, call, closures, blocked, told, crowded, mixed>>

Record == Value \cup {Absent}

Records == [Server -> Record]

Waiting == {c \in Call : call[c] = "waiting"}

NextToWrite(c) == line # <<>> /\ Head(line) = c

(* The first call in line is answered. *)
Answer(c, how) ==
    /\ line' = Tail(line)
    /\ call' = [call EXCEPT ![c] = how]
    /\ before' = [before EXCEPT ![c] = Nothing]
    /\ change' = [change EXCEPT ![c] = Nothing]
    /\ crowded' = crowded \ {c}
    /\ draft' = Nothing

(* load() of a file that holds f: all of it, or what could be understood   *)
(* of it, and then nothing may be written.                                 *)
Loaded(f, kept, refuses) ==
    IF refuses THEN \A s \in Server : kept[s] \in {f[s], Absent} ELSE kept = f

Init ==
    /\ file \in Records /\ memory \in Records /\ blocked \in BOOLEAN
    /\ Loaded(file, memory, blocked)
    /\ told = file
    /\ draft = Nothing /\ line = <<>>
    /\ call = [c \in Call |-> "new"]
    /\ before = [c \in Call |-> Nothing]
    /\ change = [c \in Call |-> Nothing]
    /\ crowded = {} /\ mixed = FALSE

-----------------------------------------------------------------------------

(* What create, update and remove do before they wait: server s gets v.    *)
(* create wants no record of that id, update and remove want one.          *)
Enter(c, s, v) ==
    /\ call[c] = "new"
    /\ memory[s] # Absent \/ v # Absent
    /\ change' = [change EXCEPT ![c] = <<s, v>>]
    /\ memory' = [memory EXCEPT ![s] = v]
    /\ line' = Append(line, c)
    /\ call' = [call EXCEPT ![c] = "waiting"]
    /\ crowded' = IF line = <<>> THEN crowded ELSE crowded \cup Waiting \cup {c}
    /\ UNCHANGED <<file, draft, blocked, told, mixed>>

(* Broken variants: no snapshot is taken; a file that was not understood is *)
(* written all the same.                                                   *)
StartWithoutSnapshot(c, s, v) ==
    /\ ~blocked
    /\ Enter(c, s, v)
    /\ UNCHANGED before

StartThoughBlocked(c, s, v) ==
    /\ Enter(c, s, v)
    /\ before' = [before EXCEPT ![c] = memory]

StartCall(c, s, v) ==
    /\ ~blocked
    /\ Enter(c, s, v)
    /\ before' = [before EXCEPT ![c] = memory]

(* _persist throws and _commit restores the snapshot before anyone sees it.*)
RefuseCall(c) ==
    /\ call[c] = "new" /\ blocked
    /\ call' = [call EXCEPT ![c] = "failed"]
    /\ UNCHANGED <<memory, file, draft, line, closures, blocked, told, crowded, mixed>>

(* Broken variant: the records as they were when the call was made. *)
SerializeOwn ==
    /\ line # <<>> /\ draft = Nothing
    /\ draft' = before[Head(line)]
    /\ UNCHANGED <<memory, file, line, call, closures, blocked, told, crowded, mixed>>

(* _writeUnsafe has its directory and its open file, and serializes memory.*)
Serialize ==
    /\ line # <<>> /\ draft = Nothing
    /\ draft' = memory
    /\ UNCHANGED <<memory, file, line, call, closures, blocked, told, crowded, mixed>>

(* The rename: the write is done, its call resolves, the next one begins.  *)
Publish(c) ==
    /\ NextToWrite(c) /\ draft # Nothing
    /\ Answer(c, "saved")
    /\ file' = draft
    /\ told' = [told EXCEPT ![change[c][1]] = change[c][2]]
    /\ UNCHANGED <<memory, blocked, mixed>>

(* Broken variants: memory keeps the change; a failed write is not answered*)
(* and nothing behind it is written.                                       *)
WriteFailsKept(c) ==
    /\ NextToWrite(c)
    /\ Answer(c, "failed")
    /\ mixed' = (mixed \/ c \in crowded)
    /\ UNCHANGED <<memory, file, blocked, told>>

WriteFailsStuck(c) ==
    /\ NextToWrite(c)
    /\ memory' = before[c]
    /\ line' = <<>>
    /\ UNCHANGED <<file, draft, call, closures, blocked, told, crowded, mixed>>

(* Any step of the write fails: _commit restores its own snapshot before   *)
(* the next write serializes.                                              *)
WriteFails(c) ==
    /\ NextToWrite(c)
    /\ Answer(c, "failed")
    /\ memory' = before[c]
    /\ mixed' = (mixed \/ c \in crowded)
    /\ UNCHANGED <<file, blocked, told>>

(* The panel stops, with any write under way, starts again and loads.      *)
Restart ==
    /\ memory' \in Records /\ blocked' \in BOOLEAN
    /\ Loaded(file, memory', blocked')
    /\ told' = file
    /\ draft' = Nothing /\ line' = <<>>
    /\ call' = [c \in Call |-> IF c \in Waiting THEN "lost" ELSE call[c]]
    /\ before' = [c \in Call |-> Nothing]
    /\ change' = [c \in Call |-> Nothing]
    /\ crowded' = {} /\ mixed' = FALSE
    /\ UNCHANGED file

Write(c) == Publish(c) \/ WriteFails(c)

Next ==
    \/ \E c \in Call :
        \/ \E s \in Server, v \in Record : StartCall(c, s, v)
        \/ RefuseCall(c) \/ Write(c)
    \/ Serialize
    \/ Restart

(* File operations end, well or badly; nothing makes anyone call, or the   *)
(* panel stop.                                                             *)
Fairness == WF_vars(Serialize) /\ \A c \in Call : WF_vars(Write(c))

Spec == Init /\ [][Next]_vars

FairSpec == Spec /\ Fairness

-----------------------------------------------------------------------------

TypeOK ==
    /\ memory \in Records /\ file \in Records /\ told \in Records
    /\ draft \in Records \cup {Nothing}
    /\ line \in Seq(Call)
    /\ call \in [Call -> {"new", "waiting", "saved", "failed", "lost"}]
    /\ before \in [Call -> Records \cup {Nothing}]
    /\ change \in [Call -> (Server \X Record) \cup {Nothing}]
    /\ blocked \in BOOLEAN
    /\ crowded \subseteq Call /\ mixed \in BOOLEAN

(* Memory and file agree whenever no call is under way, unless the file    *)
(* was not understood or a write failed for a call that had shared the     *)
(* line with another (_commit).                                            *)
Converges == line = <<>> /\ ~mixed /\ ~blocked => memory = file

(* What the file holds of a server is what the last answered call about it *)
(* left, or what a call still in line wants: an answered change survives   *)
(* every restart, nothing appears that nobody asked for, and a file that   *)
(* was not understood keeps what it held (_persist).                       *)
KeepsWhatItSaid ==
    ~mixed => \A s \in Server :
        file[s] = told[s] \/ \E c \in Waiting : change[c] = <<s, file[s]>>

(* What the comment at _commit says: memory and disk never diverge.        *)
NeverDiverges == line = <<>> /\ ~blocked => memory = file

(* Every call is answered, whichever writes before it fail (_writeQueue).  *)
AllAnswered == \A c \in Call : c \in Waiting ~> c \notin Waiting

=============================================================================
