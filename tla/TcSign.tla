------------------------------- MODULE TcSign -------------------------------
(***************************************************************************)
(* What the votes of a block consist of: the keys clients get when they    *)
(* register, the copies they sign, the signature shares, and the merged    *)
(* signature.  TomChain keeps only who voted; here the one block           *)
(* FirstBlock is followed as an object, with its header, transactions and  *)
(* shares, through every encoding on its way.  Fault-free; the handlers of *)
(* VoteBlocks and PullPendingBlocks are single steps (TomChain splits      *)
(* them).  It starts when RelayBlock has stored the block at all peers.    *)
(*                                                                         *)
(* Sources: src/include/client/tc-client-grpc.hpp,                         *)
(* src/include/server/tc-server-grpc.hpp,                                  *)
(* src/include/server/tc-server-peer-grpc.hpp,                             *)
(* src/src/server/tc-server.cpp, src/src/entity/block.cpp.                 *)
(***************************************************************************)
EXTENDS TcBlock, Codec, Ledger

CONSTANT Times   \* values of the clock now_ms
ASSUME TimesAssumption == Times \subseteq Nat \ {0}

VARIABLES
    key,      \* key[c]: server whose DKG made client c's key share, 0 before Register
    synced,   \* the servers 1 .. synced have the block's label
    obj,      \* obj[s]: server s's object for the block
    place,    \* place[s]: where server s keeps it
    seen,     \* seen[s]: clients with the block in their seen_blocks at s
    at,       \* at[c]: the pull thread's next call, as in TcClient
    hdr,      \* hdr[c]: pending_blkhdr has the block's header
    got,      \* got[c]: pending_blks, the copies to vote on
    out,      \* out[c]: the signed block being sent, <<>> when there is none
    stub,     \* stub[c]: the stub it is sent to next
    relayed,  \* relayed[s][t]: relay_votes of s for t
    bcast,    \* bcast[s][t]: bcast_commit_blocks of s for t
    ledger,   \* ledger[c]: account database of client c
    signed    \* signed[c]: history of the copies client c has signed

vars == <<key, synced, obj, place, seen, at, hdr, got, out, stub, relayed, bcast, ledger, signed>>
serverVars == <<synced, obj, place, seen, relayed, bcast>>
clientVars == <<at, hdr, got, out, stub, ledger, signed>>

(* The block as pack_block makes it, with two transactions; generate_tx    *)
(* draws accounts from 1 .. account-count.                                 *)
Packed ==
    NewBlock(FirstBlock, 0, 1,
             <<[id |-> 1, sender |-> 1, receiver |-> AccountCount, value |-> 0, fee |-> 1],
               [id |-> 2, sender |-> AccountCount, receiver |-> 1, value |-> 0, fee |-> 2]>>)

(* The vectors of strings of VoteBlocks have room for the block. *)
ASSUME SlotsAssumption == Len(Packed.tx_vec) <= Slots

Init ==
    /\ key = [c \in Clients |-> 0]
    /\ synced = 0
    /\ obj = [s \in Servers |-> IF s = Packer THEN Packed ELSE Sent(Packed)]
    /\ place = [s \in Servers |-> IF s = Packer THEN "packing" ELSE "pending"]
    /\ seen = [s \in Servers |-> {}]
    /\ at = [c \in Clients |-> 1]
    /\ hdr = [c \in Clients |-> FALSE]
    /\ got = [c \in Clients |-> <<>>]
    /\ out = [c \in Clients |-> <<>>]
    /\ stub = [c \in Clients |-> 0]
    /\ relayed = [s \in Servers |-> [t \in Servers |-> <<>>]]
    /\ bcast = [s \in Servers |-> [t \in Servers |-> <<>>]]
    /\ ledger = [c \in Clients |-> NewLedger]
    /\ signed = [c \in Clients |-> {}]

-----------------------------------------------------------------------------
(* Start-up and the packer *)

(* start() registers at stub 0 before the threads run; each server hands   *)
(* out the share its own DKG made for the client (init_client_profile).    *)
Register(c) ==
    /\ key[c] = 0
    /\ key' = [key EXCEPT ![c] = Stub(c, 0)]
    /\ UNCHANGED <<serverVars, clientVars>>

PackInsert ==
    /\ place[Packer] = "packing"
    /\ place' = [place EXCEPT ![Packer] = "pending"]
    /\ UNCHANGED <<key, synced, obj, seen, relayed, bcast, clientVars>>

(* Mutant: the round of sync signals runs one step too far. *)
RelayBlockSync_toolong ==
    /\ synced <= ServerCount
    /\ synced' = synced + 1
    /\ UNCHANGED <<key, obj, place, seen, relayed, bcast, clientVars>>

(* RelayBlockSync to the peers in the order of their ids, then the packer's *)
(* own label.                                                               *)
RelayBlockSync ==
    /\ synced < ServerCount
    /\ synced' = synced + 1
    /\ UNCHANGED <<key, obj, place, seen, relayed, bcast, clientVars>>

-----------------------------------------------------------------------------
(* The pull thread *)

(* PullPendingBlocks(k): the first client that is offered the block at s   *)
(* sets dist_ts_ in the object, after its own header was serialised; of a  *)
(* header the client uses only the id.  Rounds that can offer nothing any  *)
(* more are left out (Offers).                                             *)
Offers(s, c) == c \notin seen[s] /\ place[s] \in {"packing", "pending"}

PullPendingBlocks(c, now) ==
    LET s == Stub(c, at[c] - 1)
        offered == place[s] = "pending" /\ s <= synced /\ c \notin seen[s]
    IN  /\ key[c] # 0 /\ at[c] \in {1, 2}
        /\ hdr[c] \/ \E k \in {0, 1} : Offers(Stub(c, k), c)
        /\ hdr' = [hdr EXCEPT ![c] = @ \/ offered]
        /\ seen' = IF offered THEN [seen EXCEPT ![s] = @ \cup {c}] ELSE seen
        /\ obj' = IF offered /\ obj[s].header.dist_ts = 0
                  THEN [obj EXCEPT ![s].header.dist_ts = now] ELSE obj
        /\ at' = [at EXCEPT ![c] = IF @ = 2 /\ ~hdr'[c] THEN 1 ELSE @ + 1]
        /\ UNCHANGED <<key, synced, place, got, out, stub, relayed, bcast, ledger, signed>>

(* GetBlocks(k): the block comes as it is now, with the votes it has. *)
GetBlocks(c) ==
    LET s == Stub(c, at[c] - 3)
        found == hdr[c] /\ place[s] = "pending"
    IN  /\ at[c] \in {3, 4}
        /\ got' = IF found THEN [got EXCEPT ![c] = Append(@, Sent(obj[s]))] ELSE got
        /\ hdr' = [hdr EXCEPT ![c] = @ /\ ~found]
        /\ at' = [at EXCEPT ![c] = IF @ = 3 /\ hdr'[c] THEN 4 ELSE 1]
        /\ UNCHANGED <<key, out, stub, ledger, signed, serverVars>>

-----------------------------------------------------------------------------
(* The vote thread *)

(* BLSPrivateKeyShare::sign, external: a share is determined by the key    *)
(* set, the digest and the signer.                                         *)
sign(c, digest) ==
    [g1 |-> [key |-> key[c], digest |-> digest, by |-> c], hint |-> "hint",
     signer |-> c, t |-> ClientCount, n |-> ClientCount]

(* Mutant: the client's new vote replaces the one its copy already holds. *)
VoteSign_assign(c) ==
    LET b == Head(got[c])
        bv == [block_id |-> b.header.id, voter_id |-> c, sig_share |-> <<sign(c, get_sha256(b))>>]
    IN  /\ got[c] # <<>> /\ out[c] = <<>>
        /\ got' = [got EXCEPT ![c] = Tail(@)]
        /\ ledger' = [ledger EXCEPT ![c] = Checked(@, b.tx_vec)]
        /\ signed' = [signed EXCEPT ![c] = @ \cup {get_sha256(b)}]
        /\ out' = [out EXCEPT ![c] =
               <<[b EXCEPT !.tx_vec = <<>>,
                           !.votes = [v \in DOMAIN @ \cup {c} |-> IF v = c THEN bv ELSE @[v]]]>>]
        /\ UNCHANGED <<key, at, hdr, stub, serverVars>>

(* VoteBlocks, client side: the transactions are checked, the digest of    *)
(* the copy is signed, the transactions are dropped, the vote is inserted  *)
(* unless the copy already has one of this client.                         *)
VoteSign(c) ==
    LET b == Head(got[c])
        bv == [block_id |-> b.header.id, voter_id |-> c, sig_share |-> <<sign(c, get_sha256(b))>>]
    IN  /\ got[c] # <<>> /\ out[c] = <<>>
        /\ got' = [got EXCEPT ![c] = Tail(@)]
        /\ ledger' = [ledger EXCEPT ![c] = Checked(@, b.tx_vec)]
        /\ signed' = [signed EXCEPT ![c] = @ \cup {get_sha256(b)}]
        /\ out' = [out EXCEPT ![c] =
               <<[b EXCEPT !.tx_vec = <<>>, !.votes = MapInsert(@, c, bv)]>>]
        /\ UNCHANGED <<key, at, hdr, stub, serverVars>>

(* Mutant: a later vote of the same client replaces the first. *)
InsertVote_assign(s, c, bv) ==
    LET v == [w \in DOMAIN obj[s].votes \cup {c} |-> IF w = c THEN bv ELSE obj[s].votes[w]]
    IN  IF place[s] = "pending"
        THEN /\ obj' = [obj EXCEPT ![s].votes = v]
             /\ place' = IF is_vote_enough(DOMAIN v) THEN [place EXCEPT ![s] = "merge"] ELSE place
        ELSE UNCHANGED <<obj, place>>

(* A vote goes into a pending block; with enough votes the block moves to  *)
(* the merge queue.  For a block that is not pending it is dropped.        *)
InsertVote(s, c, bv) ==
    LET v == MapInsert(obj[s].votes, c, bv)
    IN  IF place[s] = "pending"
        THEN /\ obj' = [obj EXCEPT ![s].votes = v]
             /\ place' = IF is_vote_enough(DOMAIN v) THEN [place EXCEPT ![s] = "merge"] ELSE place
        ELSE UNCHANGED <<obj, place>>

(* VoteBlocks at a stub: of the sent block only the sender's own vote is   *)
(* used, and nothing happens if there is none.                             *)
VoteBlocks(c) ==
    LET s == Stub(c, stub[c])
        b == Sent(out[c][1])
        bps == get_server_id(b.header.id)
    IN  /\ out[c] # <<>>
        /\ relayed' = [relayed EXCEPT ![s] = [t \in Servers |->
               IF c \in DOMAIN b.votes /\ t \in bps \ {s} THEN Append(@[t], b.votes[c]) ELSE @[t]]]
        /\ IF c \in DOMAIN b.votes /\ s \in bps
           THEN InsertVote(s, c, b.votes[c]) ELSE UNCHANGED <<obj, place>>
        /\ stub' = [stub EXCEPT ![c] = 1 - @]
        /\ out' = IF stub[c] = 1 THEN [out EXCEPT ![c] = <<>>] ELSE out
        /\ UNCHANGED <<key, synced, seen, at, hdr, got, bcast, ledger, signed>>

(* Mutant: the relayed vote is filed under the relaying server's id. *)
RelayVote_peerid(s, t) ==
    LET bv == VoteFromBytes(VoteToBytes(Head(relayed[s][t])))
    IN  /\ relayed[s][t] # <<>>
        /\ InsertVote(t, s, bv)
        /\ relayed' = [relayed EXCEPT ![s][t] = Tail(@)]
        /\ UNCHANGED <<key, synced, seen, bcast, clientVars>>

RelayVote(s, t) ==
    LET bv == VoteFromBytes(VoteToBytes(Head(relayed[s][t])))
    IN  /\ relayed[s][t] # <<>>
        /\ InsertVote(t, bv.voter_id, bv)
        /\ relayed' = [relayed EXCEPT ![s][t] = Tail(@)]
        /\ UNCHANGED <<key, synced, seen, bcast, clientVars>>

-----------------------------------------------------------------------------
(* Commit *)

(* Block::merge_votes: the shares of all votes are merged. *)
Merged(b) == [b EXCEPT !.tss_sig = <<{b.votes[v].sig_share[1] : v \in DOMAIN b.votes}>>]

(* TcServer::merge_votes: timestamps, committed_blks, broadcast queues. *)
MergeVotes(s, now) ==
    LET b == [Merged(obj[s]) EXCEPT !.header.commit_ts = now, !.header.recv_ts = now]
    IN  /\ place[s] = "merge"
        /\ obj' = [obj EXCEPT ![s] = b]
        /\ place' = [place EXCEPT ![s] = "committed"]
        /\ bcast' = [bcast EXCEPT ![s] = [t \in Servers |-> IF t # s THEN <<b>> ELSE <<>>]]
        /\ UNCHANGED <<key, synced, seen, relayed, clientVars>>

(* Mutant: the server keeps its own object when it adopts a commit. *)
SPBcastCommit_keep(s, t, now) ==
    /\ bcast[s][t] # <<>>
    /\ IF place[t] = "pending"
       THEN /\ obj' = [obj EXCEPT ![t].header.recv_ts = now]
            /\ place' = [place EXCEPT ![t] = "committed"]
       ELSE UNCHANGED <<obj, place>>
    /\ bcast' = [bcast EXCEPT ![s][t] = <<>>]
    /\ UNCHANGED <<key, synced, seen, relayed, clientVars>>

(* SPBcastCommit: the received object replaces a pending one. *)
SPBcastCommit(s, t, now) ==
    /\ bcast[s][t] # <<>>
    /\ IF place[t] = "pending"
       THEN /\ obj' = [obj EXCEPT ![t] = [Sent(bcast[s][t][1]) EXCEPT !.header.recv_ts = now]]
            /\ place' = [place EXCEPT ![t] = "committed"]
       ELSE UNCHANGED <<obj, place>>
    /\ bcast' = [bcast EXCEPT ![s][t] = <<>>]
    /\ UNCHANGED <<key, synced, seen, relayed, clientVars>>

-----------------------------------------------------------------------------
(* All that is left are rounds without effect; any other end is a deadlock. *)
Done == (\A s \in Servers : place[s] = "committed") /\ UNCHANGED vars

Next ==
    \/ Done \/ PackInsert \/ RelayBlockSync
    \/ \E c \in Clients : Register(c) \/ GetBlocks(c) \/ VoteSign(c) \/ VoteBlocks(c)
    \/ \E c \in Clients, now \in Times : PullPendingBlocks(c, now)
    \/ \E s, t \in Servers : RelayVote(s, t)
    \/ \E s \in Servers, now \in Times : MergeVotes(s, now)
    \/ \E s, t \in Servers, now \in Times : SPBcastCommit(s, t, now)

Spec == Init /\ [][Next]_vars

-----------------------------------------------------------------------------
(* Properties *)

(* Type invariant. *)
TypeOK ==
    /\ key \in [Clients -> {0} \cup Servers]
    /\ synced \in 0 .. ServerCount
    /\ place \in [Servers -> {"packing", "pending", "merge", "committed"}]
    /\ seen \in [Servers -> SUBSET Clients]
    /\ at \in [Clients -> 1 .. 4]
    /\ hdr \in [Clients -> BOOLEAN]
    /\ stub \in [Clients -> {0, 1}]
    /\ \A s \in Servers : obj[s].header.id = FirstBlock /\ DOMAIN obj[s].votes \subseteq Clients
    /\ \A c \in Clients : Len(out[c]) <= 1

(* Every copy of the block: at servers, at clients, and on its way to a    *)
(* stub or a peer.                                                         *)
Elements(q) == {q[i] : i \in 1 .. Len(q)}

Copies ==
    {obj[s] : s \in Servers}
      \cup (UNION {Elements(got[c]) \cup Elements(out[c]) : c \in Clients})
      \cup (UNION {Elements(bcast[s][t]) : s, t \in Servers})

(* Every vote there is: in copies, and on its own in the relay queues. *)
Votes ==
    (UNION {{b.votes[v] : v \in DOMAIN b.votes} : b \in Copies})
      \cup (UNION {Elements(relayed[s][t]) : s, t \in Servers})

(* No share covers an earlier vote of its own signer.  A client can get a   *)
(* second copy of a block, from its other server, that holds its first     *)
(* vote, and it signs that copy too; the share is never sent, because      *)
(* votes_.insert keeps the vote that is there.                             *)
NoSelfEndorsement ==
    \A bv \in Votes : bv.voter_id \notin DOMAIN bv.sig_share[1].g1.digest.votes

(* Every vote, wherever it is, holds a share its voter made, with the key  *)
(* from its first server, over a copy with all the transactions; a block's *)
(* votes are filed under their voters.                                     *)
SharesGenuine ==
    /\ \A bv \in Votes :
          LET g1 == bv.sig_share[1].g1
          IN  /\ g1.by = bv.voter_id /\ g1.key = Stub(g1.by, 0)
              /\ g1.digest \in signed[g1.by] /\ g1.digest.tx_vec = Packed.tx_vec
    /\ \A b \in Copies : \A v \in DOMAIN b.votes : b.votes[v].voter_id = v

(* A committed block holds a share of every client, also where it was      *)
(* adopted and has lost its merged signature, so that the signature could  *)
(* be merged again; the signature, where there is one, is of these shares. *)
CommittedHasShares ==
    \A s \in Servers : place[s] = "committed" =>
        /\ DOMAIN obj[s].votes = Clients
        /\ \A c \in Clients : obj[s].votes[c].sig_share[1].signer = c
        /\ obj[s].tss_sig # <<>> =>
              obj[s].tss_sig[1] = {obj[s].votes[c].sig_share[1] : c \in Clients}

(* The first vote of a client that reaches a server's pending block stays:  *)
(* a later vote of the same client (over another copy) never replaces it.   *)
FirstVoteKept ==
    [][\A s \in Servers : place[s] = "pending" /\ place'[s] \in {"pending", "merge"} =>
          \A v \in DOMAIN obj[s].votes : v \in DOMAIN obj'[s].votes
                                         /\ obj'[s].votes[v] = obj[s].votes[v]]_vars

(* A block that is sent (by a server, to RocksDB, or in a client's vote)   *)
(* arrives as it was except for its merged signature: votes come back      *)
(* under their voters and with their own shares, whichever there are.      *)
RoundTrip == \A b \in Copies : Sent(b) = [b EXCEPT !.tss_sig = <<>>]

(* Before it signs a copy a client looks up the sender and the receiver of *)
(* every transaction in its accounts ("check transactions", VoteBlocks).   *)
TransactionsLookedUp ==
    \A c \in Clients : signed[c] # {} =>
        \A i \in 1 .. Len(Packed.tx_vec), r \in {1, 2} :
            ledger[c].keys[r][i] = <<Account(Packed.tx_vec[i], r)>>

(* The shares merged into one signature ("merge signature", Block::        *)
(* merge_votes) are made with keys of one key set and sign one digest, as  *)
(* in the test of the merge (test_parallel_merge.cpp).                     *)
MergedBelongTogether ==
    \A s \in Servers : obj[s].tss_sig # <<>> =>
        \A x, y \in obj[s].tss_sig[1] : x.g1.key = y.g1.key /\ x.g1.digest = y.g1.digest
=============================================================================
