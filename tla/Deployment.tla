----------------------------- MODULE Deployment -----------------------------
(***************************************************************************)
(* ts/deploy.ts and scripts/deploy.ts: deployAll() deploys the contracts   *)
(* one after the other and registers most of them by name, and the script  *)
(* registers the keys that it is given.  A constructor looks up the        *)
(* contracts it needs and keeps what it finds: the zero address for a name *)
(* that nobody registered yet (contracts/NameRegistry.sol).  Transactions  *)
(* of one signer are mined in the order in which they were sent, and not   *)
(* each is waited for.  Meanwhile others may register tokens and spokes,   *)
(* and may call setRollupAddress().                                        *)
(*                                                                         *)
(* A contract is told by the name that deployAll() has for it.             *)
(***************************************************************************)
EXTENDS Registries, FiniteSets, SequencesExt, Loops

CONSTANTS
    ZERO_BYTES32,      \* the vacant leaf
    NoAddress,         \* the zero address
    MAX_DEPTH,         \* of the state tree
    GivenRoots,        \* what the parameters may give as GENESIS_STATE_ROOT
    Pubkeys,           \* the keys that the script is given, a sequence
    OtherKey,
    MaxOutsiderCalls   \* bound

ASSUME DeploymentAssumption == MAX_DEPTH \in Nat \ {0} /\ MaxOutsiderCalls \in Nat

ASSUME KeysAssumption == Pubkeys \in Seq(Range(Pubkeys))

Util == INSTANCE Utils WITH Zero <- ZERO_BYTES32
StateTree == INSTANCE Tree WITH Zero <- ZERO_BYTES32
OnChain == INSTANCE MerkleTree

VARIABLES
    sent,             \* how many of its transactions the signer has sent
    pending,          \* those of them that are not mined
    names,            \* NameRegistry.registry
    references,       \* what each deployed contract has looked up
    genesisRoot,      \* the root that Rollup was deployed with
    rollupOfVault,    \* Vault.rollup
    accounts,         \* the keys registered one by one, from index 0 up
    outsiderCalls     \* how many calls others have made

deployVars == <<registryVars, sent, pending, names, references, genesisRoot,
                rollupOfVault, accounts, outsiderCalls>>

(* The names that each constructor looks up.  BLSAccountRegistry is given  *)
(* its logger.                                                             *)
LooksUp(contract) ==
    CASE contract = "tokenRegistry" -> {"logger"}
      [] contract = "vault" -> {"tokenRegistry", "spokeRegistry"}
      [] contract = "depositManager" ->
            {"governance", "tokenRegistry", "logger", "vault"}
      [] contract = "rollup" ->
            {"logger", "depositManager", "governance", "blsAccountRegistry",
             "transfer", "massMigration"}
      [] contract = "withdrawManager" -> {"tokenRegistry", "vault", "rollup"}
      [] OTHER -> {}

Deploy(contract) == [call |-> "deploy", of |-> contract]
RegisterName(contract) == [call |-> "registerName", of |-> contract]
Call(name, argument) == [call |-> name, of |-> argument]

(* Slip: the registry, an optional argument, is forgotten.                 *)
waitAndRegisterUnnamed(contract) == <<Deploy(contract)>>

waitAndRegister(contract) == <<Deploy(contract), RegisterName(contract)>>

(* Slip: the vault is deployed before the registry that it looks up.       *)
deployVaultFirst == waitAndRegister("vault") \o waitAndRegister("spokeRegistry")

deployVault == waitAndRegister("spokeRegistry") \o waitAndRegister("vault")

(* Slip: the token is finalised and not asked for.                         *)
registerTestTokenUnasked == <<Call("finaliseRegistration", "testToken")>>

registerTestToken ==
    <<Call("requestRegistration", "testToken"),
      Call("finaliseRegistration", "testToken")>>

(* The transactions of deployAll(), in their order.                        *)
deployAll ==
    <<Deploy("paramManager"), Deploy("clientFrontend"), Deploy("nameRegistry")>>
    \o waitAndRegister("governance") \o waitAndRegister("logger")
    \o waitAndRegister("blsAccountRegistry") \o waitAndRegister("tokenRegistry")
    \o waitAndRegister("massMigration") \o waitAndRegister("transfer")
    \o waitAndRegister("pob") \o waitAndRegister("testToken") \o registerTestToken
    \o deployVault \o waitAndRegister("depositManager") \o waitAndRegister("rollup")
    \o <<Call("setRollupAddress", "vault")>>
    \o waitAndRegister("withdrawManager")
    \o <<Call("registerSpoke", "withdrawManager")>>

(* And those of main() in the script.                                      *)
Transactions ==
    deployAll \o [i \in DOMAIN Pubkeys |-> Call("register", Pubkeys[i])]

(* deployed() and wait() are awaited; the other calls are only sent.       *)
IsAwaited(tx) == tx.call \in {"deploy", "registerName"}
IsDeployed(contract) == contract \in DOMAIN references
Returned == sent = Len(Transactions)

getContractDetails(name) == IF name \in DOMAIN names THEN names[name] ELSE NoAddress

(* The leaves of the two states that the chain begins with.                *)
State(pubkeyIndex) == <<pubkeyIndex, 0, 0, 0>>
getMerkleRootWithCoordinatorAccount ==
    Util!merklise([i \in 1 .. TwoTo[MAX_DEPTH] |->
                     IF i <= 2 THEN State(i - 1) ELSE ZERO_BYTES32],
                  MAX_DEPTH)

DeployInit ==
    /\ registeredSpokes = <<>>
    /\ registeredTokens = <<>>
    /\ pendingRegistrations = {}
    /\ sent = 0
    /\ pending = <<>>
    /\ names = <<>>
    /\ references = <<>>
    /\ genesisRoot = ZERO_BYTES32
    /\ rollupOfVault = NoAddress
    /\ accounts = <<>>
    /\ outsiderCalls = 0

(* The signer goes on when what it awaits is mined, and was not reverted.  *)
(* A call that is not awaited is sent on what it will find; a provider that *)
(* estimates its gas on what is mined would make deployAll() throw, which  *)
(* is to take no further step.                                             *)
Send ==
    /\ ~Returned
    /\ sent > 0 /\ IsAwaited(Transactions[sent]) =>
          pending = <<>> /\ IsDeployed(Transactions[sent].of)
    /\ pending' = Append(pending, Transactions[sent + 1])
    /\ sent' = sent + 1
    /\ UNCHANGED <<registryVars, names, references, genesisRoot, rollupOfVault,
                   accounts, outsiderCalls>>
-----------------------------------------------------------------------------
(* The constructors of DepositManager and Rollup call the governance.      *)
WouldRevert(tx) ==
    \/ /\ tx.call = "deploy"
       /\ "governance" \in LooksUp(tx.of)
       /\ getContractDetails("governance") = NoAddress
    \/ tx.call = "requestRegistration" /\ tx.of \in pendingRegistrations
    \/ tx.call = "finaliseRegistration" /\ tx.of \notin pendingRegistrations

(* The first pending transaction is mined.                                 *)
Mined(call) ==
    /\ pending # <<>>
    /\ Head(pending).call = call
    /\ ~WouldRevert(Head(pending))
    /\ pending' = Tail(pending)
    /\ UNCHANGED <<sent, outsiderCalls>>
Argument == Head(pending).of

(* An entry that is there stays as it is.                                  *)
Entered(table, key, value) ==
    [k \in DOMAIN table \union {key} |->
        IF k \in DOMAIN table THEN table[k] ELSE value]

MineDeploy ==
    /\ Mined("deploy")
    /\ references' = Entered(references, Argument,
                         [name \in LooksUp(Argument) |-> getContractDetails(name)])
    /\ genesisRoot' \in IF Argument = "rollup"
                       THEN {getMerkleRootWithCoordinatorAccount} \union GivenRoots
                       ELSE {genesisRoot}
    /\ UNCHANGED <<registryVars, names, rollupOfVault, accounts>>

(* A name that is taken keeps its address.                                 *)
MineRegisterName ==
    /\ Mined("registerName")
    /\ names' = Entered(names, Argument, Argument)
    /\ UNCHANGED <<registryVars, references, genesisRoot, rollupOfVault, accounts>>

setRollupAddress ==
    /\ rollupOfVault' = getContractDetails("rollup")
    /\ UNCHANGED <<registryVars, names, references, genesisRoot, accounts>>

register(key) ==
    /\ accounts' = Append(accounts, key)
    /\ UNCHANGED <<registryVars, names, references, genesisRoot, rollupOfVault>>

Register(RegistryAction) ==
    /\ RegistryAction
    /\ UNCHANGED <<names, references, genesisRoot, rollupOfVault, accounts>>

MineCall ==
    \/ Mined("requestRegistration") /\ Register(RequestRegistration(Argument))
    \/ Mined("finaliseRegistration") /\ Register(FinaliseRegistration(Argument))
    \/ Mined("registerSpoke") /\ Register(RegisterSpoke(Argument))
    \/ Mined("setRollupAddress") /\ setRollupAddress
    \/ Mined("register") /\ register(Argument)

MineReverted ==
    /\ pending # <<>>
    /\ WouldRevert(Head(pending))
    /\ pending' = Tail(pending)
    /\ UNCHANGED <<registryVars, sent, names, references, genesisRoot,
                   rollupOfVault, accounts, outsiderCalls>>

Mine == MineDeploy \/ MineRegisterName \/ MineCall \/ MineReverted

(* Anybody may call these as soon as the contract is there.                *)
OutsiderCalls ==
    /\ outsiderCalls < MaxOutsiderCalls
    /\ outsiderCalls' = outsiderCalls + 1
    /\ UNCHANGED <<sent, pending>>
    /\ \/ /\ IsDeployed("vault")
          /\ setRollupAddress
       \/ /\ IsDeployed("blsAccountRegistry")
          /\ register(OtherKey)
       \/ /\ IsDeployed("spokeRegistry")
          /\ \E spoke \in SpokeContracts : Register(RegisterSpoke(spoke))
       \/ /\ IsDeployed("tokenRegistry")
          /\ \E token \in TokenContracts :
                \/ Register(RequestRegistration(token))
                \/ Register(FinaliseRegistration(token))

DeployNext == Send \/ Mine \/ OutsiderCalls

DeploySpec == DeployInit /\ [][DeployNext]_deployVars
-----------------------------------------------------------------------------
Deployed == Returned /\ pending = <<>>

(* Whatever others call meanwhile, a constructor finds every contract that *)
(* it looks up, the one meant, although the order of deployAll() is all    *)
(* that sees to it; and at the end the vault knows the rollup, however     *)
(* early somebody called setRollupAddress().                               *)
WiredAtReturn ==
    /\ \A contract \in DOMAIN references :
          \A name \in DOMAIN references[contract] :
             references[contract][name] = name
    /\ Deployed => rollupOfVault = "rollup"

(* When nobody else calls, the token and the spoke have the id 1 and the   *)
(* keys the ids from 0 up that the genesis states name.  A call of another *)
(* takes an id away: each finds itself in its place, or no further from it *)
(* than others have called, in the order in which they were sent.          *)
IdsAsAssumed == Deployed =>
    LET Late(list, what, id) ==
            \E i \in DOMAIN list : list[i] = what /\ i \in id .. id + outsiderCalls
    IN  /\ outsiderCalls = 0 => RegistryInit("testToken", "withdrawManager")
        /\ Late(registeredSpokes, "withdrawManager", 1)
        /\ Late(registeredTokens, "testToken", 1)
        /\ \E place \in [DOMAIN Pubkeys -> DOMAIN accounts] :
              /\ \A k \in DOMAIN Pubkeys : /\ accounts[place[k]] = Pubkeys[k]
                                           /\ place[k] \in k .. k + outsiderCalls
              /\ \A j, k \in DOMAIN Pubkeys : j < k => place[j] < place[k]
              /\ \A i \in DOMAIN accounts \ Range(place) : accounts[i] = OtherKey

(* A root that was not given is that of the client's state tree with the   *)
(* two states in it, and the proofs of both, and of an empty place, open   *)
(* at it: merklise() counts its levels from the leaves, the tree from the  *)
(* root, and the contract takes them from the proof.                       *)
GenesisIsServed == IsDeployed("rollup") /\ genesisRoot \notin GivenRoots =>
    LET tree == StateTree!updateBatch(StateTree!New(MAX_DEPTH), 0, <<State(0), State(1)>>)
        leaf(i) == IF i < 2 THEN State(i) ELSE ZERO_BYTES32
    IN  \A i \in 0 .. TwoTo[MAX_DEPTH] - 1 :
            OnChain!verify(genesisRoot, leaf(i), i,
                            StateTree!witness(tree, i, MAX_DEPTH))

(* Everything is deployed in the end: no constructor reverts, for which    *)
(* the script would wait for ever, whatever others call.                   *)
EventuallyDeployed == <>Deployed
=============================================================================
