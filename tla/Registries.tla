----------------------------- MODULE Registries -----------------------------
(***************************************************************************)
(* contracts/SpokeRegistry.sol and contracts/TokenRegistry.sol: ids from 1 *)
(* up for the contracts that receive mass migrations and for tokens.       *)
(***************************************************************************)
EXTENDS Integers, Sequences

CONSTANTS
    SpokeContracts,    \* addresses that may be registered as spokes
    TokenContracts,    \* addresses that may be registered as tokens
    MaxRegistered      \* bound: ids of each registry

ASSUME MaxRegisteredAssumption == MaxRegistered \in Nat

VARIABLES
    registeredSpokes,        \* the address with id i, for i up to numSpokes
    registeredTokens,        \* the token with id i, for i up to numTokens
    pendingRegistrations     \* tokens asked for, finalised ones included

registryVars == <<registeredSpokes, registeredTokens, pendingRegistrations>>

(* After ts/deploy.ts: one token and one spoke.                            *)
RegistryInit(token, spoke) ==
    /\ registeredSpokes = <<spoke>>
    /\ registeredTokens = <<token>>
    /\ pendingRegistrations = {token}

RegisterSpoke(spokeContract) ==
    /\ Len(registeredSpokes) < MaxRegistered
    /\ registeredSpokes' = Append(registeredSpokes, spokeContract)
    /\ UNCHANGED <<registeredTokens, pendingRegistrations>>

RequestRegistration(tokenContract) ==
    /\ tokenContract \notin pendingRegistrations
    /\ pendingRegistrations' = pendingRegistrations \union {tokenContract}
    /\ UNCHANGED <<registeredSpokes, registeredTokens>>

(* A request is never struck off, so a token may be given several ids.     *)
FinaliseRegistration(tokenContract) ==
    /\ Len(registeredTokens) < MaxRegistered
    /\ tokenContract \in pendingRegistrations
    /\ registeredTokens' = Append(registeredTokens, tokenContract)
    /\ UNCHANGED <<registeredSpokes, pendingRegistrations>>

(* getSpokeAddress() gives the zero address, which sends no call, for an   *)
(* id that is not registered; safeGetAddress() reverts.                    *)
IsSpoke(sender, spokeID) ==
    /\ spokeID \in DOMAIN registeredSpokes
    /\ registeredSpokes[spokeID] = sender

IsToken(tokenID) == tokenID \in DOMAIN registeredTokens
TokenOf(tokenID) == registeredTokens[tokenID]
=============================================================================
