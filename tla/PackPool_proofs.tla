---------------------------- MODULE PackPool_proofs ----------------------------
(***************************************************************************)
(* Proof that the pool of pending blocks stays bounded, for every rate,    *)
(* block size, number of accounts and limit.                               *)
(***************************************************************************)
EXTENDS PackPool, TLAPS

USE TxPerBlockAssumption, GenRateAssumption, AccountCountAssumption,
    PoolLimitAssumption, MaxStuckAssumption

(* A block more weighs TxPerBlock transactions more (PackBlock). *)
LEMMA OneBlock == \A k \in Nat : (k + 1) * TxPerBlock = k * TxPerBlock + TxPerBlock
  OBVIOUS

(* Fewer blocks weigh no more. *)
LEMMA FewerBlocks ==
  ASSUME NEW k \in Nat, NEW l \in Nat, k <= l
  PROVE  k * TxPerBlock <= l * TxPerBlock
<1>1. PICK d \in Nat : l = k + d
  <2>1. l - k \in Nat /\ l = k + (l - k)
    OBVIOUS
  <2> QED BY <2>1
<1>2. l * TxPerBlock = k * TxPerBlock + d * TxPerBlock
  BY <1>1
<1>3. d * TxPerBlock \in Nat /\ k * TxPerBlock \in Nat
  BY <1>1
<1> QED BY <1>2, <1>3

(* The bound is kept when blocks leave or transactions are not counted. *)
LEMMA OvershootMonotone ==
  ASSUME NEW k \in Nat, NEW l \in Nat, NEW m \in Nat, NEW n \in Nat,
         k <= l, m <= n, Overshoot(l, n)
  PROVE  Overshoot(k, m)
<1>1. k * TxPerBlock <= l * TxPerBlock
  BY FewerBlocks
<1>2. k * TxPerBlock \in Nat /\ l * TxPerBlock \in Nat /\ (PoolLimit - 1) * TxPerBlock \in Nat
  OBVIOUS
<1> QED BY <1>1, <1>2 DEF Overshoot

(* A round that may generate starts below the limit, and what it generates *)
(* keeps within the bound (Generate).                                      *)
LEMMA RoundFits ==
  ASSUME NEW k \in Nat, NEW left \in Nat, NEW n \in 0 .. GenRate,
         k < PoolLimit, left < TxPerBlock
  PROVE  Overshoot(k, left + n)
<1>1. k <= PoolLimit - 1 /\ PoolLimit - 1 \in Nat
  OBVIOUS
<1>2. k * TxPerBlock <= (PoolLimit - 1) * TxPerBlock
  BY <1>1, FewerBlocks
<1>3. k * TxPerBlock \in Nat /\ (PoolLimit - 1) * TxPerBlock \in Nat
  BY <1>1
<1> QED BY <1>2, <1>3 DEF Overshoot

(* The pool starts empty. *)
LEMMA PoolInvInit == Init => PoolInv
<1>1. 0 < PoolLimit /\ 0 < TxPerBlock /\ 0 \in 0 .. GenRate
  OBVIOUS
<1>2. Overshoot(0, 0 + 0)
  BY <1>1, RoundFits
<1> QED BY <1>2 DEF Init, PoolInv, TypeOK

(* Every step of the pack thread and of those who take blocks away keeps   *)
(* the inductive invariant.                                                *)
LEMMA PoolInvStep == PoolInv /\ [Next]_vars => PoolInv'
<1> SUFFICES ASSUME PoolInv, [Next]_vars PROVE PoolInv'
  OBVIOUS
<1> USE DEF PoolInv, TypeOK
<1>0. Overshoot(pending, 0)
  BY OvershootMonotone
<1>1. CASE CheckPool
  BY <1>0, <1>1 DEF CheckPool, Overshoot
<1>2. ASSUME NEW n \in 0 .. GenRate, Generate(n) PROVE PoolInv'
  <2>1. Overshoot(pending, txs + n)
    BY <1>2, RoundFits DEF Generate
  <2>2. Overshoot(pending', 0) /\ Overshoot(pending', txs')
    BY <1>0, <1>2, <2>1 DEF Generate
  <2> QED BY <1>2, <2>2 DEF Generate, Overshoot
<1>3. CASE Throttle
  BY <1>0, <1>3 DEF Throttle, Overshoot
<1>4. CASE PackBlock
  <2>1. Overshoot(pending, txs) /\ txs' = txs - TxPerBlock /\ pending' = pending + 1
    BY <1>4 DEF PackBlock
  <2>2. (pending + 1) * TxPerBlock = pending * TxPerBlock + TxPerBlock
    BY OneBlock
  <2>3. pending * TxPerBlock \in Nat /\ (PoolLimit - 1) * TxPerBlock \in Nat
    OBVIOUS
  <2>4. Overshoot(pending', txs') /\ txs' \in 0 .. AccountCount /\ pending' \in Nat
    BY <1>4, <2>1, <2>2, <2>3 DEF PackBlock, Overshoot
  <2>5. Overshoot(pending', 0)
    BY <2>4, OvershootMonotone
  <2> QED BY <1>4, <2>4, <2>5 DEF PackBlock, Overshoot
<1>5. CASE PackEnds
  BY <1>0, <1>5 DEF PackEnds, Overshoot
<1>6. CASE Leave
  <2>1. pending' \in Nat /\ pending' <= pending /\ txs' = txs /\ pc' = pc /\ size' = size /\ stuck' = stuck
    BY <1>6 DEF Leave
  <2>2. Overshoot(pending', 0)
    BY <1>0, <2>1, OvershootMonotone
  <2>3. pc = "pack" /\ txs >= TxPerBlock => Overshoot(pending', txs)
    BY <2>1, OvershootMonotone
  <2> QED BY <1>6, <2>1, <2>2, <2>3 DEF Leave, Overshoot
<1>7. CASE GetStuck
  BY <1>0, <1>7 DEF GetStuck, Overshoot
<1>8. CASE UNCHANGED vars
  BY <1>8 DEF vars, Overshoot
<1> QED BY <1>1, <1>2, <1>3, <1>4, <1>5, <1>6, <1>7, <1>8 DEF Next, PackThread

(* The inductive invariant holds in every state of the pack thread. *)
THEOREM PoolInvariant == Spec => []PoolInv
  BY PoolInvInit, PoolInvStep, PTL DEF Spec

(* The pool exceeds pb-pool-limit by at most the blocks of one round: the  *)
(* size read by schedule may be stale, but only in the safe direction.     *)
THEOREM PoolStaysBounded == Spec => []PoolBounded
<1>1. PoolInv => PoolBounded
  BY OvershootMonotone DEF PoolInv, PoolBounded, TypeOK
<1> QED BY <1>1, PoolInvariant, PTL
=============================================================================
