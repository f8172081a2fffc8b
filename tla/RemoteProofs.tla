---------------------------- MODULE RemoteProofs ----------------------------
(***************************************************************************)
(* What the hub keeps for remote machines, side by side (MCRemote): each   *)
(* part behaves as its own specification says, so what is proved about the *)
(* link pool, the mosh terminals and the hosted shells holds of all three  *)
(* together, whichever of them moves and whatever limits are put on it.    *)
(***************************************************************************)
EXTENDS MCRemote, LinkPoolProofs, MoshProofs, HostedShellsProofs

(* A step is one of a part, and the others stay: no action of one writes a *)
(* variable of another.                                                    *)
THEOREM PartsKeepTheirSpecs == Spec => PoolSpec /\ MoshSpec /\ ShellSpec
  <1>1. Init => PoolInit /\ MoshInit /\ ShellInit
    BY DEF Init
  <1>2. [Next]_<<hubVars, moshVars, shellVars, part>> =>
          [PoolNext]_hubVars /\ [MoshNext]_moshVars /\ [ShellNext]_shellVars
    BY DEF Next
  <1> QED BY <1>1, <1>2, PTL DEF Spec, PoolSpec, MoshSpec, ShellSpec

(* The state of everything kept for remote machines is in its type.        *)
THEOREM RemoteTypeCorrect == Spec => []RemoteTypeOK
  <1>1. PoolTypeOK /\ MoshTypeOK /\ ShellTypeOK => RemoteTypeOK
    BY DEF RemoteTypeOK
  <1> QED BY <1>1, PartsKeepTheirSpecs, PoolTypeCorrect, MoshTypeCorrect, ShellTypeCorrect, PTL

(* Every invariant the parts are checked for holds of the whole: no ssh    *)
(* child, link, mosh session or shell is lost, nothing crosses pairings,   *)
(* no late failure resets what came after it, no terminal has two clients, *)
(* and every socket is one terminal.                                       *)
THEOREM RemoteIsSafe ==
    Spec => /\ [](NoStrayForward /\ PoolOwnsLinks /\ StreamsOfGeneration /\ AskedOnce)
            /\ [](CleanIsGoneKnown /\ OneClientOnPane /\ RelayedAlone /\ OwnershipKept)
            /\ IsOneTerminal
            /\ [](OneIsActive /\ NobodyHangs /\ NoStrayShell)
            /\ InstallsOnOneTarget /\ ForgottenByItsOwn /\ TunnelsAreNew
  <1>1. PoolSpec => /\ [](NoStrayForward /\ PoolOwnsLinks /\ StreamsOfGeneration /\ AskedOnce)
                    /\ InstallsOnOneTarget /\ ForgottenByItsOwn /\ TunnelsAreNew
    BY NoForwardIsLeft, PoolClosesItsLinks, StreamsEndWithTheirPairing, NothingIsAskedTooOften,
       InstallerKeepsItsTarget, LateFailuresSpareOthers, NoTunnelComesBack, PTL
  <1>2. MoshSpec => [](CleanIsGoneKnown /\ OneClientOnPane /\ RelayedAlone /\ OwnershipKept) /\ IsOneTerminal
    BY CleanIsGone, OneClientAPane, RelayedIsAlone, OwnershipIsKept, EverySocketIsOneTerminal, PTL
  <1>3. ShellSpec => [](OneIsActive /\ NobodyHangs /\ NoStrayShell)
    BY ExactlyOneIsActive, EverySocketIsTold, EveryShellIsReachable, PTL
  <1> QED BY <1>1, <1>2, <1>3, PartsKeepTheirSpecs, PTL

(* Nothing waits for something that is over, in any part, whatever the     *)
(* others do: what RemoteLive checks with the time it takes, for every     *)
(* number of links, requests and terminals.                                *)
THEOREM RemoteGoesOn ==
    Spec => [](EveryoneIsHeard /\ DeadTunnelIsNext /\ TurnNeverStuck /\ NobodyWaitsAlone)
  <1>1. PoolSpec => [](EveryoneIsHeard /\ DeadTunnelIsNext)
    BY EveryRequestGoesOn, DeadTunnelsAreFound, PTL
  <1>2. MoshSpec => [](TurnNeverStuck /\ NobodyWaitsAlone)
    BY TurnIsNeverStuck, SocketsGoOn, PTL
  <1> QED BY <1>1, <1>2, PartsKeepTheirSpecs, PTL

=============================================================================
