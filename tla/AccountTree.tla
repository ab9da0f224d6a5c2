----------------------------- MODULE AccountTree ----------------------------
(***************************************************************************)
(* contracts/AccountTree.sol and contracts/BLSAccountRegistry.sol: keys    *)
(* are registered one at a time in a left tree and by the batch in a right *)
(* one, and only the last open node of each level is kept.                 *)
(* A hash is free: that of two nodes is the pair of them, and that of a    *)
(* key is the key.                                                         *)
(***************************************************************************)
EXTENDS Loops

CONSTANTS
    DEPTH, BATCH_DEPTH,    \* levels of each tree, and of a batch
    Pubkeys,               \* the valid public keys
    NoKey,                 \* the leaf that is zero
    MaxCalls               \* bound: calls of register() and registerBatch()

ASSUME DepthAssumption == DEPTH \in Nat /\ BATCH_DEPTH \in 0 .. DEPTH

VARIABLES
    rootLeft, rootRight, root,
    leafIndexLeft,          \* leaves in the left tree
    leafIndexRight,         \* BATCHES in the right tree
    filledSubtreesLeft, filledSubtreesRight,
    registered,             \* history: the calls of register(), in order
    registeredBatches,      \* history: the calls of registerBatch(), in order
    logged                  \* history: the events PubkeyRegistered

accountVars == <<rootLeft, rootRight, root, leafIndexLeft, leafIndexRight,
                 filledSubtreesLeft, filledSubtreesRight, registered,
                 registeredBatches, logged>>

SET_SIZE == TwoTo[DEPTH]
BATCH_SIZE == TwoTo[BATCH_DEPTH]

Hash(left, right) == <<left, right>>
Zeros[level \in 0 .. DEPTH] ==
    IF level = 0 THEN NoKey ELSE Hash(Zeros[level - 1], Zeros[level - 1])

AccountInit ==
    /\ rootLeft = Zeros[DEPTH]
    /\ rootRight = Zeros[DEPTH]
    /\ root = Hash(Zeros[DEPTH], Zeros[DEPTH])
    /\ leafIndexLeft = 0
    /\ leafIndexRight = 0
    /\ filledSubtreesLeft = [i \in 0 .. DEPTH - 1 |-> Zeros[i]]
    /\ filledSubtreesRight = [i \in 0 .. DEPTH - BATCH_DEPTH - 1 |->
                                 Zeros[i + BATCH_DEPTH]]
    /\ registered = <<>>
    /\ registeredBatches = <<>>
    /\ logged = {}

(* A turn of the loop that ascends to the root: on the right of its pair   *)
(* a node meets the filled subtree, on the left nothing yet; there, the    *)
(* first time, it is the new filled subtree itself.                        *)
AscendOne(ascent, index, i, zero) ==
    IF IsSet(index, i)
    THEN [ascent EXCEPT !.acc = Hash(ascent.filled[i], @)]
    ELSE [acc |-> Hash(ascent.acc, zero),
          filled |-> IF ascent.subtreeSet THEN ascent.filled
                     ELSE [ascent.filled EXCEPT ![i] = ascent.acc],
          subtreeSet |-> TRUE]

(* Slip: the zeros of a batch are taken from the level of the leaves up.   *)
AscendFromLeaves(node, index, filled, level) ==
    LET after[i \in 0 .. DEPTH - level] ==
            IF i = 0
            THEN [acc |-> node, filled |-> filled, subtreeSet |-> FALSE]
            ELSE AscendOne(after[i - 1], index, i - 1, Zeros[i - 1])
    IN  after[DEPTH - level]

(* The ascent from a node of the given level, the index-th of its level.   *)
Ascend(node, index, filled, level) ==
    LET after[i \in 0 .. DEPTH - level] ==
            IF i = 0
            THEN [acc |-> node, filled |-> filled, subtreeSet |-> FALSE]
            ELSE AscendOne(after[i - 1], index, i - 1, Zeros[i - 1 + level])
    IN  after[DEPTH - level]

(* The loop of _updateBatch() that fills the subtree of a batch.           *)
BatchRoot(leafs) ==
    LET after[i \in 0 .. BATCH_DEPTH] ==
            IF i = 0 THEN leafs
            ELSE [j \in 1 .. TwoTo[BATCH_DEPTH - i] |->
                     Hash(after[i - 1][2 * j - 1], after[i - 1][2 * j])]
    IN  after[BATCH_DEPTH][1]
-----------------------------------------------------------------------------
Register(pubkey) ==
    /\ leafIndexLeft < SET_SIZE - 1
    /\ LET ascent == Ascend(pubkey, leafIndexLeft, filledSubtreesLeft, 0)
       IN  /\ rootLeft' = ascent.acc
           /\ filledSubtreesLeft' = ascent.filled
           /\ root' = Hash(ascent.acc, rootRight)
    /\ leafIndexLeft' = leafIndexLeft + 1
    /\ logged' = logged \union {[pubkey |-> pubkey, pubkeyID |-> leafIndexLeft]}
    /\ registered' = Append(registered, pubkey)
    /\ UNCHANGED <<rootRight, leafIndexRight, filledSubtreesRight,
                   registeredBatches>>

(* The guard compares a number of batches with one of leaves, and the ids  *)
(* that are logged count batches where they should count leaves.           *)
RegisterBatch(pubkeys) ==
    /\ leafIndexRight < SET_SIZE - 1 - BATCH_SIZE
    /\ LET ascent == Ascend(BatchRoot(pubkeys), leafIndexRight,
                            filledSubtreesRight, BATCH_DEPTH)
       IN  /\ rootRight' = ascent.acc
           /\ filledSubtreesRight' = ascent.filled
           /\ root' = Hash(rootLeft, ascent.acc)
    /\ leafIndexRight' = leafIndexRight + 1
    /\ logged' = logged \union
                    {[pubkey |-> pubkeys[i],
                      pubkeyID |-> leafIndexRight + SET_SIZE + i - 1] :
                        i \in 1 .. BATCH_SIZE}
    /\ registeredBatches' = Append(registeredBatches, pubkeys)
    /\ UNCHANGED <<rootLeft, leafIndexLeft, filledSubtreesLeft, registered>>

(* exists(): _checkInclusion() reads the low bits of the index, and takes  *)
(* every index from SET_SIZE on to be on the right.                        *)
Exists(accountIndex, pubkey, witness) ==
    LET path == accountIndex % SET_SIZE
        acc[i \in 0 .. DEPTH] ==
            IF i = 0 THEN pubkey
            ELSE IF IsSet(path, i - 1) THEN Hash(witness[i], acc[i - 1])
            ELSE Hash(acc[i - 1], witness[i])
    IN  acc[DEPTH] = IF accountIndex < SET_SIZE THEN rootLeft ELSE rootRight
-----------------------------------------------------------------------------
AccountNext ==
    /\ Len(registered) + Len(registeredBatches) < MaxCalls
    /\ \/ \E pubkey \in Pubkeys : Register(pubkey)
       \/ \E pubkeys \in [1 .. BATCH_SIZE -> Pubkeys] : RegisterBatch(pubkeys)

AccountSpec == AccountInit /\ [][AccountNext]_accountVars
-----------------------------------------------------------------------------
(* The reference: the nodes of a full tree over a list of leaves, by level *)
(* (that of the leaves is 0) and index.                                    *)
LeafAt(leaves, index) ==
    IF index < Len(leaves) THEN leaves[index + 1] ELSE NoKey

Nodes(leaves) ==
    LET row[level \in 0 .. DEPTH] ==
            [index \in Nat |->
                IF level = 0 THEN LeafAt(leaves, index)
                ELSE Hash(row[level - 1][2 * index], row[level - 1][2 * index + 1])]
    IN  row

TreeRoot(leaves) == Nodes(leaves)[DEPTH][0]

(* The siblings on the way up from a leaf.                                 *)
WitnessOf(leaves, index) ==
    [i \in 1 .. DEPTH |->
        LET at == Shifted(index, i - 1)
        IN  Nodes(leaves)[i - 1][IF at % 2 = 0 THEN at + 1 ELSE at - 1]]

(* The keys of the right set, and how many batches it has place for.       *)
KeysOf(batches) ==
    [n \in 1 .. Len(batches) * BATCH_SIZE |->
        batches[(n - 1) \div BATCH_SIZE + 1][((n - 1) % BATCH_SIZE) + 1]]
RightCapacity == TwoTo[DEPTH - BATCH_DEPTH]

(* The roots are those of the trees of all keys registered, in order: the  *)
(* few nodes that the contract keeps suffice, and no registration in       *)
(* either set disturbs an earlier one of either, up to the last place of   *)
(* the right set.  (The guard of registerBatch() lets in batches beyond    *)
(* that place; there the right root means nothing.)                        *)
RootsAreOfAllKeys ==
    /\ rootLeft = TreeRoot(registered)
    /\ leafIndexRight <= RightCapacity
          => rootRight = TreeRoot(KeysOf(registeredBatches))
    /\ root = Hash(rootLeft, rootRight)

(* "event PubkeyRegistered(uint256[4] pubkey, uint256 pubkeyID)"           *)
(* (Logger.sol:57): a key exists() at the id it was registered with.       *)
LoggedKeysExist ==
    leafIndexRight <= RightCapacity =>
        \A event \in logged :
            Exists(event.pubkeyID, event.pubkey,
                   IF event.pubkeyID < SET_SIZE
                   THEN WitnessOf(registered, event.pubkeyID)
                   ELSE WitnessOf(KeysOf(registeredBatches),
                                  event.pubkeyID - SET_SIZE))
=============================================================================
