-------------------------------- MODULE Ledger --------------------------------
(***************************************************************************)
(* The account database of a client and what the vote thread does with it  *)
(* before it signs a block ("check transactions").  Strings are sequences  *)
(* with at most one numeral: <<>> is the empty string, <<7>> is "7".       *)
(*                                                                         *)
(* Sources: src/src/client/tc-client.cpp (init),                           *)
(* src/include/client/tc-client-grpc.hpp (VoteBlocks).                     *)
(***************************************************************************)
EXTENDS Naturals, Sequences

CONSTANTS
    AccountCount,   \* account-count
    Slots           \* length of sender_strvec and the like, 2000 in the code

ASSUME LedgerAssumption == AccountCount \in Nat \ {0} /\ Slots \in Nat \ {0}

(* init, "populate global states": accounts 0 .. account-count - 1, each   *)
(* with its number as its balance.                                         *)
Populated == [k \in {<<i>> : i \in 0 .. AccountCount - 1} |-> k]

(* What init leaves: the database, and for senders (1) and receivers (2)   *)
(* vectors of strings that are reserved and empty.                         *)
NewLedger ==
    [db   |-> Populated,
     keys |-> [r \in {1, 2} |-> [i \in 1 .. Slots |-> <<>>]],
     bals |-> [r \in {1, 2} |-> [i \in 1 .. Slots |-> <<>>]]]

(* snprintf(str.data(), str.size(), "%ld", n): a string of size 0, as they *)
(* all are after init, has no room for anything.                           *)
snprintf(str, n) == IF str = <<>> THEN <<>> ELSE <<n>>

Account(tx, r) == IF r = 1 THEN tx.sender ELSE tx.receiver

(* The first loop of VoteBlocks prints the keys of all transactions. *)
PrintKeys(l, txs) ==
    [l EXCEPT !.keys = [r \in {1, 2} |-> [i \in 1 .. Slots |->
        IF i <= Len(txs) THEN snprintf(@[r][i], Account(txs[i], r)) ELSE @[r][i]]]]

(* db->Get leaves the value alone when the key is not there. *)
Get(db, key, val) == IF key \in DOMAIN db THEN db[key] ELSE val

Put(db, key, val) == [k \in DOMAIN db \cup {key} |-> IF k = key THEN val ELSE db[k]]

(* The second loop, transaction i: Get both balances, put both back. *)
CheckTx(l, i) ==
    LET bal(r) == Get(l.db, l.keys[r][i], l.bals[r][i])
    IN  [l EXCEPT !.bals = [r \in {1, 2} |-> [@[r] EXCEPT ![i] = bal(r)]],
                  !.db = Put(Put(@, l.keys[1][i], bal(1)), l.keys[2][i], bal(2))]

(* The ledger after a block with at most Slots transactions was checked. *)
Checked(l, txs) ==
    LET after[i \in 0 .. Len(txs)] ==
            IF i = 0 THEN PrintKeys(l, txs) ELSE CheckTx(after[i - 1], i)
    IN  after[Len(txs)]
=============================================================================
