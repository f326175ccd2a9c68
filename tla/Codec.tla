-------------------------------- MODULE Codec --------------------------------
(***************************************************************************)
(* Block objects and their two encodings: the flexbuffers form in which    *)
(* blocks and votes travel and are stored, and the msgpack form of which   *)
(* the digest is taken.  An encoding is a record of the fields it writes;  *)
(* bytes and their layout are left out.  A shared_ptr is a sequence of     *)
(* length at most one, <<>> being nullptr.                                 *)
(*                                                                         *)
(* Sources: src/src/entity/flexbuffers_adapter.cpp,                        *)
(* src/include/entity/msgpack_adapter.hpp, src/src/entity/block.cpp.       *)
(***************************************************************************)
EXTENDS Naturals, Sequences, FiniteSets

(* Block::Block(id, base_id, proposal_ts): no transactions, no votes. *)
NewBlock(id, base_id, proposal_ts, tx_vec) ==
    [header  |-> [id |-> id, base_id |-> base_id, proposal_ts |-> proposal_ts,
                  dist_ts |-> 0, commit_ts |-> 0, recv_ts |-> 0],
     tx_vec  |-> tx_vec,
     votes   |-> [v \in {} |-> <<>>],
     tss_sig |-> <<>>]

(* std::map::insert: an existing element is kept. *)
MapInsert(map, key, val) ==
    IF key \in DOMAIN map THEN map
    ELSE [k \in DOMAIN map \cup {key} |-> IF k = key THEN val ELSE map[k]]

-----------------------------------------------------------------------------
(* std::to_string and std::stoi: a decimal numeral, read back as an int;   *)
(* client ids count from 1 and stay within int.                            *)
to_string(n) == [numeral |-> n]
stoi(key) == key.numeral

(* flexbuffers_adapter<BLSSigShare> *)
ShareToBytes(s)   == [g1 |-> s.g1, hint |-> s.hint, signer_index |-> s.signer, t |-> s.t, n |-> s.n]
ShareFromBytes(w) == [g1 |-> w.g1, hint |-> w.hint, signer |-> w.signer_index, t |-> w.t, n |-> w.n]

(* flexbuffers_adapter<BlockVote>: a vote may have no share. *)
VoteToBytes(v) ==
    [block_id |-> v.block_id, voter_id |-> v.voter_id,
     sig_share |-> [i \in 1 .. Len(v.sig_share) |-> ShareToBytes(v.sig_share[i])]]
VoteFromBytes(w) ==
    [block_id |-> w.block_id, voter_id |-> w.voter_id,
     sig_share |-> [i \in 1 .. Len(w.sig_share) |-> ShareFromBytes(w.sig_share[i])]]

(* flexbuffers_adapter<BlockHeader> *)
HeaderToBytes(h) ==
    [id |-> h.id, base_id |-> h.base_id, proposal_ts |-> h.proposal_ts,
     dist_ts |-> h.dist_ts, commit_ts |-> h.commit_ts, recv_ts |-> h.recv_ts]
HeaderFromBytes(w) ==
    [id |-> w.id, base_id |-> w.base_id, proposal_ts |-> w.proposal_ts,
     dist_ts |-> w.dist_ts, commit_ts |-> w.commit_ts, recv_ts |-> w.recv_ts]

(* flexbuffers_adapter<Block>::to_bytes: a transaction is a vector of five *)
(* numbers, the votes are a map from numerals, tss_sig is not written.     *)
TxToVector(tx)   == <<tx.id, tx.sender, tx.receiver, tx.value, tx.fee>>
TxFromVector(vec) ==
    [id |-> vec[1], sender |-> vec[2], receiver |-> vec[3], value |-> vec[4], fee |-> vec[5]]

BlockToBytes(b) ==
    [header |-> HeaderToBytes(b.header),
     tx_vec |-> [i \in 1 .. Len(b.tx_vec) |-> TxToVector(b.tx_vec[i])],
     votes  |-> [k \in {to_string(v) : v \in DOMAIN b.votes} |-> VoteToBytes(b.votes[k.numeral])]]

(* Mutant: votes are filed under the position of their key. *)
BlockFromBytes_position(w) ==
    [header  |-> HeaderFromBytes(w.header),
     tx_vec  |-> [i \in 1 .. Len(w.tx_vec) |-> TxFromVector(w.tx_vec[i])],
     votes   |-> [v \in 1 .. Cardinality(DOMAIN w.votes) |->
                     VoteFromBytes(w.votes[CHOOSE k \in DOMAIN w.votes :
                         Cardinality({l \in DOMAIN w.votes : l.numeral <= k.numeral}) = v])],
     tss_sig |-> <<>>]

(* flexbuffers_adapter<Block>::from_bytes *)
BlockFromBytes(w) ==
    [header  |-> HeaderFromBytes(w.header),
     tx_vec  |-> [i \in 1 .. Len(w.tx_vec) |-> TxFromVector(w.tx_vec[i])],
     votes   |-> [v \in {stoi(k) : k \in DOMAIN w.votes} |-> VoteFromBytes(w.votes[to_string(v)])],
     tss_sig |-> <<>>]

(* What arrives when a block is sent. *)
Sent(b) == BlockFromBytes(BlockToBytes(b))

-----------------------------------------------------------------------------
(* The msgpack form of a block holds the whole object: header, votes       *)
(* received so far and signature too.                                      *)
pack_Block(b) ==
    [header |-> b.header, tx_vec |-> b.tx_vec, votes |-> b.votes, tss_sig |-> b.tss_sig]

(* Block::get_sha256: the hash of the msgpack form, which stands for the   *)
(* hash here; it is taken to be free of collisions.                        *)
get_sha256(b) == pack_Block(b)
=============================================================================
