------------------------------- MODULE Types -------------------------------
(***************************************************************************)
(* The data of contracts/libs/Types.sol that the rollup's control depends  *)
(* on.  Hashes are free: a commitment stands for itself, and the           *)
(* commitment root of a batch for the sequence of its commitments.         *)
(***************************************************************************)
EXTENDS Integers, Sequences

CONSTANTS
    Accounts,      \* the Ethereum accounts that send transactions
    StateRoots,    \* the roots of the state tree
    Migrations,    \* the mass migrations that commitments can stand for
    NoMigration,   \* the bytes of a commitment stand for none
    MaxBatches     \* bound: at most this many batches stand at one time

ASSUME MaxBatchesAssumption == MaxBatches \in Nat \ {0}
ASSUME MigrationsAssumption == NoMigration \in Migrations

(* Batch ids are indices of the array `batches`; genesis is batch 0.       *)
BatchIDs == 0 .. MaxBatches - 1

Usage == {"Genesis", "Transfer", "MassMigration", "Create2Transfer", "Deposit"}

(* The two commitment shapes a dispute can open: TransferBody and          *)
(* MassMigrationBody.                                                      *)
Readers == {"Transfer", "MassMigration"}

(***************************************************************************)
(* What the on-chain processing makes of the transactions of a commitment: *)
(* it applies them all, it ends with a Result other than Ok, or a          *)
(* `require` fails and the whole dispute reverts.  "None" is the empty     *)
(* body of a genesis or a deposit commitment.                              *)
(***************************************************************************)
TxsOutcome == {"Ok", "Rejected", "Reverts", "None"}

(***************************************************************************)
(* A commitment: the kind of body it was built with, the state root it     *)
(* claims, what its transactions do, whether its aggregate signature is    *)
(* good, and the readers of the OTHER shape under which its bytes happen   *)
(* to decode to something a dispute rejects.  A body hash carries no tag   *)
(* of its shape, so the bytes of one shape may be opened as the other.     *)
(* For the same reason any commitment may carry a migration: what its      *)
(* bytes say when the vault reads them as a MassMigrationBody.             *)
(***************************************************************************)
Commitment == [kind : Usage, stateRoot : StateRoots, txs : TxsOutcome,
               signed : BOOLEAN, misread : SUBSET Readers,
               migration : Migrations]

Batch == [batchType : Usage, commitments : Seq(Commitment),
          committer : Accounts, finaliseOn : Nat]
=============================================================================
