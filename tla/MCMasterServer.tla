--------------------------- MODULE MCMasterServer ---------------------------
(* A lobby and a community server, with a game server in the second run;   *)
(* the uid of an account is the account itself.                            *)
EXTENDS MasterServer

CONSTANTS community, game

MCUidOf == [a \in Accounts |-> a]
MCWorld == community :> 1
MCChildrenOf == community :> Games

Symmetry == Permutations(Accounts)
=============================================================================
