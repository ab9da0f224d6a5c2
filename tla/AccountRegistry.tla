--------------------------- MODULE AccountRegistry --------------------------
(***************************************************************************)
(* ts/accountTree.ts: a client that registers keys with the contract and   *)
(* keeps the left tree for itself.  register() awaits three times, so that *)
(* others may call the contract between its steps.                         *)
(***************************************************************************)
EXTENDS AccountTree, FiniteSets

Client == INSTANCE Tree WITH Zero <- NoKey
Contract == INSTANCE MerkleTree WITH ZERO_BYTES32 <- NoKey

CONSTANTS Clients      \* the AccountRegistry objects, each used by one caller

(* The leaf of a key is a hash of it, and never that of a vacant place.    *)
ASSUME VacantLeafAssumption == NoKey \notin Pubkeys

VARIABLES
    pc,           \* where the register() of a client is
    pubkeyOf,     \* the argument of that call
    accountID,    \* the index that it read
    treeLeft      \* the tree of each client

clientVars == <<pc, pubkeyOf, accountID, treeLeft>>

RegistryInit ==
    /\ AccountInit
    /\ pc = [client \in Clients |-> "idle"]
    /\ pubkeyOf = [client \in Clients |-> NoKey]
    /\ accountID = [client \in Clients |-> 0]
    /\ treeLeft = [client \in Clients |-> Client!New(DEPTH)]

Goes(client, from, to) ==
    /\ pc[client] = from
    /\ pc' = [pc EXCEPT ![client] = to]

(* Slip: the index is read as though the key were already registered.      *)
ReadIndexNext(client, pubkey) ==
    /\ Goes(client, "idle", "read")
    /\ pubkeyOf' = [pubkeyOf EXCEPT ![client] = pubkey]
    /\ accountID' = [accountID EXCEPT ![client] = leafIndexLeft + 1]
    /\ UNCHANGED <<accountVars, treeLeft>>

(* await this.registry.leafIndexLeft()                                     *)
ReadIndex(client, pubkey) ==
    /\ Goes(client, "idle", "read")
    /\ pubkeyOf' = [pubkeyOf EXCEPT ![client] = pubkey]
    /\ accountID' = [accountID EXCEPT ![client] = leafIndexLeft]
    /\ UNCHANGED <<accountVars, treeLeft>>

(* await (await this.registry.register(pubkey)).wait()                     *)
SendRegister(client) ==
    /\ Goes(client, "read", "registered")
    /\ Register(pubkeyOf[client])
    /\ UNCHANGED <<pubkeyOf, accountID, treeLeft>>

(* The client updates its tree and asks exists() with a witness from it.   *)
UpdateTree(client) ==
    /\ Goes(client, "registered", "asked")
    /\ treeLeft' = [treeLeft EXCEPT ![client] =
                       Client!updateSingle(@, accountID[client], pubkeyOf[client])]
    /\ UNCHANGED <<accountVars, pubkeyOf, accountID>>

(* The answer comes from the contract as it is then.                       *)
Answered(client) ==
    /\ Goes(client, "asked", "idle")
    /\ UNCHANGED <<accountVars, pubkeyOf, accountID, treeLeft>>

RegistryNext ==
    \/ /\ Len(registered) + Len(registeredBatches) < MaxCalls
       /\ \/ \E client \in Clients : SendRegister(client)
          \/ /\ \E pubkeys \in [1 .. BATCH_SIZE -> Pubkeys] : RegisterBatch(pubkeys)
             /\ UNCHANGED clientVars
    \/ \E client \in Clients :
          \/ \E pubkey \in Pubkeys : ReadIndex(client, pubkey)
          \/ UpdateTree(client)
          \/ Answered(client)

RegistrySpec == RegistryInit /\ [][RegistryNext]_<<accountVars, clientVars>>
-----------------------------------------------------------------------------
(* What a client knows of the left set.                                    *)
Leaf(client, index) == Client!getNode(treeLeft[client], DEPTH, index)

(* Every key of the left set is in the client's tree: it has registered    *)
(* them all itself.                                                        *)
KnowsAll(client) ==
    Cardinality({index \in 0 .. SET_SIZE - 1 : Leaf(client, index) # NoKey})
        = leafIndexLeft

(* assert.isTrue(await this.registry.exists(...)) (accountTree.ts:37): the *)
(* key that was just registered exists at the index read before, by the    *)
(* witness of the client's own tree, whatever came between, as long as no  *)
(* other client has registered a single key.  (Once one has, the tree of   *)
(* the first does not know it, and may have its own key at another index.) *)
AssertionHolds ==
    \A client \in Clients :
        pc[client] = "asked" /\ KnowsAll(client) =>
            Exists(accountID[client], pubkeyOf[client],
                   Client!witness(treeLeft[client], accountID[client], DEPTH))

(* A witness from a client's tree, whose leaves may have gaps where others *)
(* have registered, opens every leaf and every inner node of it: verify()  *)
(* of the contract accepts it at the index of the node, and with the hash  *)
(* of a vacant subtree only where the client has no leaf.  The client      *)
(* itself says the same of the witness that it makes for the merging of a  *)
(* subtree there, which it makes for the offset of the first leaf only.    *)
(* (A tree changes only with the step before "asked".)                     *)
WitnessesOpen ==
    \A client \in {c \in Clients : pc[c] = "asked"} :
        \A level \in 1 .. DEPTH : \A index \in 0 .. TwoTo[level] - 1 :
            LET t == treeLeft[client]
                height == DEPTH - level
                size == TwoTo[height]
                vacant == Contract!getRoot(height)
                w == Client!witnessForBatch(t, index * size, height)
                opens(node) == Contract!verify(Client!root(t), node, index,
                                   Client!witness(t, index, level))
            IN  /\ opens(Client!getNode(t, level, index))
                /\ opens(vacant) <=>
                      \A i \in 0 .. size - 1 : Leaf(client, index * size + i) = NoKey
                /\ \A offset \in index * size .. (index + 1) * size - 1 :
                      Client!IsAligned(offset, height) <=> offset = index * size
                /\ Client!checkInclusion(t, w) = 0
                /\ Client!checkInclusion(t, [w EXCEPT !.leaf = vacant])
                      = (IF opens(vacant) THEN 0 ELSE -1)

(* The right tree of somebody who follows the batches (registry.test.ts).  *)
FollowedRight ==
    LET followed[k \in 0 .. leafIndexRight] ==
            IF k = 0 THEN Client!New(DEPTH)
            ELSE Client!updateBatch(followed[k - 1], BATCH_SIZE * (k - 1),
                                    registeredBatches[k])
    IN  followed[leafIndexRight]

(* The trees of the client and the trees of the contract, which keep       *)
(* different nodes, have the same roots: the left tree of one who knows    *)
(* all keys and the right tree of one who follows the batches.             *)
TreesAgree ==
    /\ \A client \in Clients :
          KnowsAll(client) => Client!root(treeLeft[client]) = rootLeft
    /\ leafIndexRight <= RightCapacity => Client!root(FollowedRight) = rootRight

(* "assert.equal(root, Tree.merklize(leaves).root)" (merkleTree.test.ts:45)*)
(* for lists of every length that the contract takes: it hashes a batch of *)
(* commitments in place and the client in a tree, and every proof that the *)
(* client takes from its tree opens that commitment.  (The keys registered *)
(* stand for the commitments.)                                             *)
BatchesAgree ==
    LET batch == Client!merklize(registered)
    IN  Len(registered) \in 1 .. 32 =>
            /\ Contract!merklise(registered) = Client!root(batch)
            /\ \A i \in 1 .. Len(registered) :
                  Contract!verify(Contract!merklise(registered), registered[i],
                      i - 1, Client!witness(batch, i - 1, batch.depth))
=============================================================================
