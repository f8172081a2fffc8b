------------------------------ MODULE MCRemote ------------------------------
(* What the hub keeps for remote machines: a behaviour is one of the link   *)
(* pool, of the mosh terminals or of the hosted shells, in a part that      *)
(* limits what varies.                                                      *)
EXTENDS LinkPool, MoshTerminals, HostedShells, TLC

VARIABLE part

PoolParts == {"edits", "pairing", "job"}
MoshParts == {"two", "one"}

Opened == {i \in Id : attempt[i].stage # "none"}

(* edits: on a machine as it is, by the forward only, no reads or writes,   *)
(* and a server is removed where it could as well be disabled; pairing: the *)
(* machine is installed anew; job: the installer runs.                      *)
(* two: terminals at once, of which one is left, processes that go when     *)
(* told to, and ends that fail only for a session never identified; one:    *)
(* with a reset of its link, or a shutdown of the hub or of the node; and   *)
(* with mosh-servers given up after CONNECT.                                *)
Limits ==
    CASE part = "edits"   -> /\ UNCHANGED <<installed, job>>
                             /\ (server' # NoServer => server'.on)
                             /\ \A l \in Link : link'[l].direct = "none"
                             /\ \A r \in Req : req'[r].kind \in {"info", "upgrade"} \/ req'[r].stage = "idle"
      [] part = "pairing" -> UNCHANGED <<server, job>>
      [] part = "job"     -> UNCHANGED opened /\ \A r \in Req \ {Health} : UNCHANGED req[r]
      [] part = "two"     -> /\ UNCHANGED <<gen, hubDown, shutting>>
                             /\ \A i \in Id : launch'[i] # "late"
                             /\ Cardinality({i \in Id : attempt'[i].gone}) <= 1
                             /\ \A i \in Id : alive'[i] # alive[i] /\ alive[i] # {} => finishing[i] = "signalled"
                             /\ \A i \in known : finishing[i] # "no" /\ finishing'[i] = "no" => phase'[i] = "ended"
      [] part = "one"     -> /\ Cardinality(Opened') <= 1
                             /\ shutting' => ~hubDown'
                             /\ shutting' \/ hubDown' => gen' = 1
      [] OTHER            -> TRUE

Init == /\ PoolInit /\ MoshInit /\ ShellInit
        /\ part \in PoolParts \cup MoshParts \cup {"shells"}
        /\ part \notin PoolParts => installed = 0

Next ==
    /\ \/ part \in PoolParts /\ PoolNext /\ UNCHANGED <<moshVars, shellVars>>
       \/ part \in MoshParts /\ MoshNext /\ UNCHANGED <<hubVars, shellVars>>
       \/ part = "shells" /\ ShellNext /\ UNCHANGED <<hubVars, moshVars>>
    /\ Limits /\ UNCHANGED part

Spec == Init /\ [][Next]_<<hubVars, moshVars, shellVars, part>>

-----------------------------------------------------------------------------
(* What must happen in the end, on smaller instances.  The part that does   *)
(* not move rests in a state where nothing of it is due.  pool: the server  *)
(* stays as it is and the machine as it was installed; mosh and pair:       *)
(* nothing resets, a child is recorded with its mosh-server and goes after  *)
(* it.  mosh: one terminal.  pair: a second one, opened while the first has *)
(* the trial or left something behind; the hub is still while the node is   *)
(* at work, POSTs are not given up, mosh-servers detach or fail, processes  *)
(* go when told to, sockets are left only at a clean-up, and who is bridged *)
(* or relayed stays so.  A step of MoshProgress is left in every state that *)
(* has one, so that no limit stands in for fairness.                        *)
Leader == CHOOSE i \in Id : TRUE

LeftOut(i) ==
    \/ Leaves(i) \/ LocalExits(i) \/ PostCloses(i) \/ RelayReaches(i)
    \/ ReapGone(i) \/ ReapSilent(i) \/ (ProcessGoes(i) /\ finishing[i] # "signalled")
    \/ launch'[i] \in {"forked", "late"}

LiveLimits ==
    CASE part = "pool" -> /\ UNCHANGED <<server, job, installed>>
                          /\ \A l \in Link : link'[l].direct = "none"
                          /\ \A r \in Req : req'[r].kind # "write"
      [] part = "mosh" -> Opened' \subseteq {Leader}
      [] part = "pair" -> /\ Opened = {} => Opened' \subseteq {Leader}
                          /\ scope[gen].trial = NoTrial /\ scope[gen].unclean = {}
                             => Opened' \subseteq {Leader} \cup Opened
                          /\ (\E i \in Id : ProgressDue(i)) => UNCHANGED hubSide
                          /\ ~ \E i \in Id : LeftOut(i)

LiveInit ==
    /\ MoshInit /\ ShellInit /\ part \in {"pool", "mosh", "pair"}
    /\ IF part = "pool" THEN PoolInit
       ELSE /\ LinkInit /\ installed = 0
            /\ server = NoServer /\ fields = 1 /\ edit = NoEdit
            /\ entry = NoEntry /\ made = 1 /\ job = NoJob

LiveNext ==
    /\ \/ part = "pool" /\ PoolNext /\ UNCHANGED moshVars
       \/ /\ part \in {"mosh", "pair"} /\ MoshNext /\ UNCHANGED <<hubVars, gen, hubDown, shutting>>
          /\ known' \ known \subseteq noted' /\ \A i \in Id : alive'[i] # {"server"}
    /\ LiveLimits /\ UNCHANGED <<shellVars, part>>

LiveSpec == LiveInit /\ [][LiveNext]_<<hubVars, moshVars, shellVars, part>> /\ PoolFair /\ MoshFair

-----------------------------------------------------------------------------
(* Mosh sessions are interchangeable, and so are sockets. *)
Symmetric == Permutations(Id) \cup Permutations(Sock)

(* The types of all three. *)
RemoteTypeOK == PoolTypeOK /\ MoshTypeOK /\ ShellTypeOK

=============================================================================
