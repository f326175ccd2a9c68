------------------------------- MODULE PackPool -------------------------------
(***************************************************************************)
(* The pack thread with the transaction pool that feeds it and the limit   *)
(* on pending blocks that throttles it.  Transactions and blocks are       *)
(* counted: which ones they are does not matter here.  Other threads only  *)
(* take blocks out of pending_blks (votes complete, commits adopted), and  *)
(* some blocks may never leave it (run s4_lost shows one way).             *)
(***************************************************************************)
EXTENDS Naturals

CONSTANTS
    TxPerBlock,     \* "tx-per-block"
    GenRate,        \* "generate-tx-rate": transactions drawn per round
    AccountCount,   \* "account-count": transaction ids are 1 .. AccountCount
    PoolLimit,      \* "pb-pool-limit"
    MaxStuck        \* bound: number of blocks that never leave the pool

ASSUME TxPerBlockAssumption   == TxPerBlock \in Nat \ {0}
ASSUME GenRateAssumption      == GenRate \in Nat \ {0}
ASSUME AccountCountAssumption == AccountCount \in Nat \ {0}
ASSUME PoolLimitAssumption    == PoolLimit \in Nat \ {0}
ASSUME MaxStuckAssumption     == MaxStuck \in Nat

VARIABLES
    txs,       \* number of transactions in pending_txs
    pending,   \* number of blocks in pending_blks of the packer
    stuck,     \* how many of them will never leave
    size,      \* pb_size: the pool's size as last read by the pack thread
    pc         \* the pack thread: "check", "generate" or "pack"

vars == <<txs, pending, stuck, size, pc>>

Init ==
    /\ txs = 0 /\ pending = 0 /\ stuck = 0 /\ size = 0
    /\ pc = "check"

(* Mutant: the thread keeps the largest size it has seen. *)
CheckPool_peak ==
    /\ pc = "check"
    /\ size' = IF pending > size THEN pending ELSE size
    /\ pc' = "generate"
    /\ UNCHANGED <<txs, pending, stuck>>

(* The size of the pool is read under pb_sm_1, which is then given back. *)
CheckPool ==
    /\ pc = "check"
    /\ size' = pending
    /\ pc' = "generate"
    /\ UNCHANGED <<txs, pending, stuck>>

(* Mutant: transactions are still generated for a pool at its limit. *)
Generate_atlimit(n) ==
    /\ pc = "generate" /\ size <= PoolLimit
    /\ n + txs <= AccountCount
    /\ n = 0 => txs > 0
    /\ txs' = txs + n
    /\ pc' = "pack"
    /\ UNCHANGED <<pending, stuck, size>>

(* generate_tx draws GenRate random ids; an id that is in the pool already *)
(* is not inserted again, so n new ones arrive.                            *)
Generate(n) ==
    /\ pc = "generate" /\ size < PoolLimit
    /\ n + txs <= AccountCount
    /\ n = 0 => txs > 0
    /\ txs' = txs + n
    /\ pc' = "pack"
    /\ UNCHANGED <<pending, stuck, size>>

(* The pool is full: no transactions this round, but pack_block is called. *)
Throttle ==
    /\ pc = "generate" /\ size >= PoolLimit
    /\ pc' = "pack"
    /\ UNCHANGED <<txs, pending, stuck, size>>

(* pack_block, one block: TxPerBlock transactions go into a block, the     *)
(* block into pending_blks, and the transactions out of pending_txs.       *)
PackBlock ==
    /\ pc = "pack" /\ txs >= TxPerBlock
    /\ pending' = pending + 1
    /\ txs' = txs - TxPerBlock
    /\ UNCHANGED <<stuck, size, pc>>

(* Mutant: the loop ends while there are still enough transactions. *)
PackEnds_early ==
    /\ pc = "pack"
    /\ pc' = "check"
    /\ UNCHANGED <<txs, pending, stuck, size>>

(* pack_block returns: what is left does not fill a block. *)
PackEnds ==
    /\ pc = "pack" /\ txs < TxPerBlock
    /\ pc' = "check"
    /\ UNCHANGED <<txs, pending, stuck, size>>

(* A block leaves the pool: it has enough votes, or was committed by a peer. *)
Leave ==
    /\ pending > stuck
    /\ pending' = pending - 1
    /\ UNCHANGED <<txs, stuck, size, pc>>

(* Votes or the commit of a pending block are lost for good. *)
GetStuck ==
    /\ pending > stuck /\ stuck < MaxStuck
    /\ stuck' = stuck + 1
    /\ UNCHANGED <<txs, pending, size, pc>>

PackThread ==
    \/ CheckPool \/ Throttle \/ PackBlock \/ PackEnds
    \/ \E n \in 0 .. GenRate : Generate(n)

Next == PackThread \/ Leave \/ GetStuck

Spec == Init /\ [][Next]_vars

(* The pack thread loops for ever; a block that is not stuck leaves the    *)
(* pool; and random ids are, time and again, ones not in the pool.         *)
FairSpec ==
    /\ Spec
    /\ WF_vars(PackThread)
    /\ WF_vars(Leave)
    /\ SF_vars(\E n \in 1 .. GenRate : Generate(n))

-----------------------------------------------------------------------------
(* Properties *)

(* Type invariant: counters are numbers, stuck blocks are in the pool. *)
TypeOK ==
    /\ txs \in 0 .. AccountCount
    /\ pending \in Nat /\ size \in Nat
    /\ stuck \in 0 .. MaxStuck /\ stuck <= pending
    /\ pc \in {"check", "generate", "pack"}

(* pending blocks above PoolLimit - 1 never hold more transactions than    *)
(* one round can bring: what was left over and GenRate new ones.           *)
Overshoot(blocks, left) ==
    blocks * TxPerBlock + left <= (PoolLimit - 1) * TxPerBlock + (TxPerBlock - 1) + GenRate

(* pb-pool-limit bounds the pool although it is only looked at before      *)
(* transactions are generated, with a size that is stale by the time the   *)
(* blocks are packed: the pool never exceeds the limit by more than the    *)
(* blocks of one round.                                                    *)
PoolBounded == Overshoot(pending, 0)

(* The inductive form: no round begins with a block's worth of             *)
(* transactions, and during a round blocks and transactions together stay  *)
(* within the bound.                                                       *)
PoolInv ==
    /\ TypeOK
    /\ pc \in {"check", "generate"} => txs < TxPerBlock
    /\ pc = "generate" => pending <= size
    /\ IF pc = "pack" /\ txs >= TxPerBlock THEN Overshoot(pending, txs) ELSE Overshoot(pending, 0)

(* As long as fewer blocks are stuck than the limit allows, the packer     *)
(* goes on packing for ever.                                               *)
PackingGoesOn == []<><<PackBlock>>_vars
=============================================================================
