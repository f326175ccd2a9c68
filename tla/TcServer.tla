------------------------------- MODULE TcServer -------------------------------
(***************************************************************************)
(* The servers of TomChain: their block pools and queues, the threads that *)
(* pack, relay, merge and broadcast blocks, and the handlers of the calls  *)
(* between servers and from clients.  Every server is a process of its     *)
(* own; a variable maps each server to its copy of a field of TcServer.    *)
(*                                                                         *)
(* A block is its id together with the set of clients whose votes its      *)
(* votes_ map holds; transactions, signatures and timestamps are left out. *)
(* dead_block is left out too: only remove_dead_blocks fills it, and its   *)
(* one call (tc-server.cpp:365) is commented out, so it is always empty.   *)
(***************************************************************************)
EXTENDS TcBlock, Sequences

VARIABLES
    pending,      \* pending[s]: keys of pending_blks at server s
    votes,        \* votes[s][b]: votes_ of the block object s created for b
    mergeQ,       \* mergeQ[s]: pb_merge_queue
    committed,    \* committed[s]: keys of committed_blks
    cert,         \* cert[s][b]: votes_ of the object in committed_blks
    labels,       \* labels[s]: pb_sync_labels
    seen,         \* seen[s][c]: seen_blocks of client c's profile at s
    relayVotes,   \* relayVotes[s][t]: relay_votes queue of s for t
    bcast,        \* bcast[s][t]: bcast_commit_blocks queue of s for t
    relayBlocks,  \* relayBlocks[t]: relay_blocks queue of Packer for t
    syncQ,        \* pb_sync_queue of Packer
    pack,         \* the pack thread of Packer: block id and loop cursor
    rb,           \* the relay-block thread of Packer
    blockCalls    \* RelayBlock requests being executed

(* The servers other than Packer never push to relay_blocks, so their      *)
(* relay-block threads and pb_sync_queues do nothing and are left out.     *)

poolVars  == <<pending, votes, mergeQ, committed, cert>>
labelVars == <<labels, seen>>
queueVars == <<relayVotes, bcast>>
packVars  == <<relayBlocks, syncQ, pack, rb>>
serverVars == <<poolVars, labelVars, queueVars, packVars, blockCalls>>

-----------------------------------------------------------------------------
(* Types *)

Voted     == [blk : Blocks, votes : SUBSET Clients]  \* a Block with its votes_
BlockVote == [blk : Blocks, voter : Clients]

(* A RelayBlock request whose handler is still running.  items is what the *)
(* handler has not processed yet; live says that the relay-block thread    *)
(* waits for the answer.                                                   *)
BlockCall == [dst : Servers, live : BOOLEAN, items : Seq(Voted) \ {<<>>}]

ServerTypeOK ==
    /\ pending \in [Servers -> SUBSET Blocks]
    /\ votes \in [Servers -> [Blocks -> SUBSET Clients]]
    /\ mergeQ \in [Servers -> Seq(Voted)]
    /\ committed \in [Servers -> SUBSET Blocks]
    /\ cert \in [Servers -> [Blocks -> SUBSET Clients]]
    /\ labels \in [Servers -> SUBSET Blocks]
    /\ seen \in [Servers -> [Clients -> SUBSET Blocks]]
    /\ relayVotes \in [Servers -> [Servers -> Seq(BlockVote)]]
    /\ bcast \in [Servers -> [Servers -> Seq(Voted)]]
    /\ relayBlocks \in [Servers -> Seq(Blocks)]
    /\ syncQ \in Seq(Blocks)
    /\ pack \in [blk : FirstBlock .. (FirstBlock + MaxBlocks), tgt : Servers]
    /\ rb \in [pc : {"pop", "wait", "signal"}, tgt : Servers,
               req : Seq(Voted), blk : Blocks \cup {NoBlock}]
    /\ rb.pc = "wait" => rb.tgt < Packer
    /\ rb.pc = "signal" => rb.blk \in Blocks
    /\ blockCalls \subseteq BlockCall

ServerInit ==
    /\ pending = [s \in Servers |-> {}]
    /\ votes = [s \in Servers |-> [b \in Blocks |-> {}]]
    /\ mergeQ = [s \in Servers |-> <<>>]
    /\ committed = [s \in Servers |-> {}]
    /\ cert = [s \in Servers |-> [b \in Blocks |-> {}]]
    /\ labels = [s \in Servers |-> {}]
    /\ seen = [s \in Servers |-> [c \in Clients |-> {}]]
    /\ relayVotes = [s \in Servers |-> [t \in Servers |-> <<>>]]
    /\ bcast = [s \in Servers |-> [t \in Servers |-> <<>>]]
    /\ relayBlocks = [t \in Servers |-> <<>>]
    /\ syncQ = <<>>
    /\ pack = [blk |-> FirstBlock, tgt |-> 1]
    /\ rb = [pc |-> "pop", tgt |-> 1, req |-> <<>>, blk |-> NoBlock]
    /\ blockCalls = {}

-----------------------------------------------------------------------------
(* The pack thread (pack_block).  The new block is pushed to the relay     *)
(* queue of each peer in the order of the std::map, and only then inserted *)
(* in pending_blks; each push is a step of its own.                        *)

(* Mutant: the loop over the relay queues runs one step too far. *)
PackPush_toolong ==
    /\ pack.blk \in Blocks
    /\ pack.tgt <= Packer
    /\ relayBlocks' = [relayBlocks EXCEPT ![pack.tgt] = Append(@, pack.blk)]
    /\ pack' = [pack EXCEPT !.tgt = @ + 1]
    /\ UNCHANGED <<poolVars, labelVars, queueVars, syncQ, rb, blockCalls>>

PackPush ==
    /\ pack.blk \in Blocks
    /\ pack.tgt < Packer
    /\ relayBlocks' = [relayBlocks EXCEPT ![pack.tgt] = Append(@, pack.blk)]
    /\ pack' = [pack EXCEPT !.tgt = @ + 1]
    /\ UNCHANGED <<poolVars, labelVars, queueVars, syncQ, rb, blockCalls>>

PackInsert ==
    /\ pack.blk \in Blocks
    /\ pack.tgt = Packer
    /\ pending' = [pending EXCEPT ![Packer] = @ \cup {pack.blk}]
    /\ pack' = [blk |-> pack.blk + 1, tgt |-> 1]
    /\ UNCHANGED <<votes, mergeQ, committed, cert, labelVars, queueVars,
                   relayBlocks, syncQ, rb, blockCalls>>

-----------------------------------------------------------------------------
(* The relay-block thread (send_relay_blocks).  rb.tgt runs over the peers *)
(* 1 .. Packer-1; at rb.tgt = Packer it drains pb_sync_queue.              *)

(* The next position of the loop; with nothing to drain from pb_sync_queue *)
(* (which only this thread uses) a new round starts at once.               *)
NextTarget(queue) == IF rb.tgt + 1 = Packer /\ queue = <<>> THEN 1 ELSE rb.tgt + 1

(* RelayBlock, one try_pop: the block is serialised with the votes it has  *)
(* now, which differ from those it had when it was pushed.                 *)
RelayBlockPop ==
    /\ rb.pc = "pop" /\ rb.tgt < Packer
    /\ relayBlocks[rb.tgt] # <<>>
    /\ LET b == Head(relayBlocks[rb.tgt])
       IN  rb' = [rb EXCEPT !.req = Append(@, [blk |-> b, votes |-> votes[Packer][b]])]
    /\ relayBlocks' = [relayBlocks EXCEPT ![rb.tgt] = Tail(@)]
    /\ UNCHANGED <<poolVars, labelVars, queueVars, syncQ, pack, blockCalls>>

(* RelayBlock, queue drained: an empty request returns at once.  Otherwise *)
(* the call is made; one that is not delivered fails and has no effect at  *)
(* the peer.                                                               *)
RelayBlockSend(delivered) ==
    /\ rb.pc = "pop" /\ rb.tgt < Packer
    /\ relayBlocks[rb.tgt] = <<>> /\ rb.req # <<>>
    /\ rb' = [rb EXCEPT !.pc = "wait"]
    /\ blockCalls' = IF delivered
                     THEN blockCalls \cup {[dst |-> rb.tgt, live |-> TRUE, items |-> rb.req]}
                     ELSE blockCalls
    /\ UNCHANGED <<poolVars, labelVars, queueVars, relayBlocks, syncQ, pack>>

RelayBlockEmpty ==
    /\ rb.pc = "pop" /\ rb.tgt < Packer
    /\ relayBlocks[rb.tgt] = <<>> /\ rb.req = <<>>
    /\ rb' = [rb EXCEPT !.tgt = NextTarget(syncQ)]
    /\ UNCHANGED <<poolVars, labelVars, queueVars, relayBlocks, syncQ, pack, blockCalls>>

(* Mutant: the thread does not wait for the answer of the call. *)
RelayBlockReturn_nowait ==
    /\ rb.pc = "wait"
    /\ syncQ' = syncQ \o [i \in 1 .. Len(rb.req) |-> rb.req[i].blk]
    /\ rb' = [rb EXCEPT !.pc = "pop", !.tgt = @ + 1, !.req = <<>>]
    /\ UNCHANGED <<poolVars, labelVars, queueVars, relayBlocks, pack, blockCalls>>

(* Mutant: only the first block of a request gets its sync signal. *)
RelayBlockReturn_first ==
    /\ rb.pc = "wait"
    /\ \A m \in blockCalls : ~m.live
    /\ syncQ' = Append(syncQ, Head(rb.req).blk)
    /\ rb' = [rb EXCEPT !.pc = "pop", !.tgt = @ + 1, !.req = <<>>]
    /\ UNCHANGED <<poolVars, labelVars, queueVars, relayBlocks, pack, blockCalls>>

(* Mutant: the request is not cleared, and is sent again in the next round. *)
RelayBlockReturn_resend ==
    /\ rb.pc = "wait"
    /\ \A m \in blockCalls : ~m.live
    /\ syncQ' = syncQ \o [i \in 1 .. Len(rb.req) |-> rb.req[i].blk]
    /\ rb' = [rb EXCEPT !.pc = "pop", !.tgt = @ + 1]
    /\ UNCHANGED <<poolVars, labelVars, queueVars, relayBlocks, pack, blockCalls>>

(* RelayBlock, after the answer: every id goes to pb_sync_queue, whatever  *)
(* the status of the call.                                                 *)
RelayBlockReturn ==
    /\ rb.pc = "wait"
    /\ \A m \in blockCalls : ~m.live
    /\ syncQ' = syncQ \o [i \in 1 .. Len(rb.req) |-> rb.req[i].blk]
    /\ rb' = [rb EXCEPT !.pc = "pop", !.tgt = @ + 1, !.req = <<>>]
    /\ UNCHANGED <<poolVars, labelVars, queueVars, relayBlocks, pack, blockCalls>>

(* send_relay_blocks: the loop that drains pb_sync_queue. *)
SyncPop ==
    /\ rb.pc = "pop" /\ rb.tgt = Packer /\ syncQ # <<>>
    /\ rb' = [rb EXCEPT !.pc = "signal", !.tgt = 1, !.blk = Head(syncQ)]
    /\ syncQ' = Tail(syncQ)
    /\ UNCHANGED <<poolVars, labelVars, queueVars, relayBlocks, pack, blockCalls>>

(* send_relay_block_sync: RelayBlockSync to each peer, then the local label. *)
RelayBlockSync(delivered) ==
    /\ rb.pc = "signal" /\ rb.tgt < Packer
    /\ labels' = IF delivered THEN [labels EXCEPT ![rb.tgt] = @ \cup {rb.blk}] ELSE labels
    /\ rb' = [rb EXCEPT !.tgt = @ + 1]
    /\ UNCHANGED <<poolVars, seen, queueVars, relayBlocks, syncQ, pack, blockCalls>>

SyncLocal ==
    /\ rb.pc = "signal" /\ rb.tgt = Packer
    /\ labels' = [labels EXCEPT ![Packer] = @ \cup {rb.blk}]
    /\ rb' = [rb EXCEPT !.pc = "pop", !.blk = NoBlock, !.tgt = IF syncQ = <<>> THEN 1 ELSE @]
    /\ UNCHANGED <<poolVars, seen, queueVars, relayBlocks, syncQ, pack, blockCalls>>

(* The calls after the handler of m has processed its first item; the last *)
(* item ends the call.                                                     *)
Served(m) ==
    (blockCalls \ {m}) \cup
        (IF Len(m.items) = 1 THEN {} ELSE {[m EXCEPT !.items = Tail(@)]})

(* Handler RelayBlock, one block: a new object replaces whatever           *)
(* pending_blks holds under that id.                                       *)
RelayBlockHandler(m) ==
    LET t == m.dst
        i == Head(m.items)
    IN  /\ pending' = [pending EXCEPT ![t] = @ \cup {i.blk}]
        /\ votes' = [votes EXCEPT ![t][i.blk] = i.votes]
        /\ blockCalls' = Served(m)
        /\ UNCHANGED <<mergeQ, committed, cert, labelVars, queueVars, packVars>>

(* The connection breaks: the thread gets an error, the handler runs on. *)
Abandon(m) ==
    /\ m.live
    /\ blockCalls' = (blockCalls \ {m}) \cup {[m EXCEPT !.live = FALSE]}
    /\ UNCHANGED <<poolVars, labelVars, queueVars, packVars>>

-----------------------------------------------------------------------------
(* Votes *)

(* Mutant: the block stays in pending_blks when it goes to the merge queue. *)
AddVote_noerase(s, b, c) ==
    LET v == votes[s][b] \cup {c}
    IN  /\ votes' = [votes EXCEPT ![s][b] = v]
        /\ mergeQ' = IF is_vote_enough(v)
                     THEN [mergeQ EXCEPT ![s] = Append(@, [blk |-> b, votes |-> v])]
                     ELSE mergeQ
        /\ pending' = pending

(* Insert c's vote in pending block b under the element's accessor; with   *)
(* enough votes the block moves to the merge queue.  Its votes_ do not     *)
(* change any more, so the queue holds them by value.                      *)
AddVote(s, b, c) ==
    LET v == votes[s][b] \cup {c}
    IN  /\ votes' = [votes EXCEPT ![s][b] = v]
        /\ IF is_vote_enough(v)
           THEN /\ mergeQ' = [mergeQ EXCEPT ![s] = Append(@, [blk |-> b, votes |-> v])]
                /\ pending' = [pending EXCEPT ![s] = @ \ {b}]
           ELSE UNCHANGED <<mergeQ, pending>>

(* A vote for a block that is not pending is dropped. *)
InsertVote(s, b, c) ==
    /\ IF b \in pending[s] THEN AddVote(s, b, c) ELSE UNCHANGED <<pending, votes, mergeQ>>
    /\ UNCHANGED <<committed, cert>>

(* Mutant: the vote goes to every peer, BPS or not. *)
VoteRelay_everywhere(s, b, c) ==
    relayVotes' = [relayVotes EXCEPT ![s] =
        [t \in Servers |-> IF t # s THEN Append(@[t], [blk |-> b, voter |-> c]) ELSE @[t]]]

(* Handler VoteBlocks, first part: the vote goes to the relay queue of each *)
(* BPS of the block other than s.                                           *)
VoteRelay(s, b, c) ==
    relayVotes' = [relayVotes EXCEPT ![s] =
        [t \in Servers |-> IF t \in get_server_id(b) \ {s}
                           THEN Append(@[t], [blk |-> b, voter |-> c]) ELSE @[t]]]

(* Mutant: the vote is credited to the id of the relaying server. *)
RelayVote_peerid(s, t) ==
    /\ relayVotes[s][t] # <<>>
    /\ LET i == Head(relayVotes[s][t]) IN InsertVote(t, i.blk, s)
    /\ relayVotes' = [relayVotes EXCEPT ![s][t] = Tail(@)]
    /\ UNCHANGED <<labelVars, bcast, packVars, blockCalls>>

(* The relay-vote thread drains the queue for t into a request and waits   *)
(* while the handler at t takes its votes one by one.  How votes are       *)
(* grouped into requests cannot be seen at t, so one step is one vote: the *)
(* oldest not yet handled.  The thread visits the targets in turn; the     *)
(* model lets it go on with any of them.                                   *)
RelayVote(s, t) ==
    /\ relayVotes[s][t] # <<>>
    /\ LET i == Head(relayVotes[s][t]) IN InsertVote(t, i.blk, i.voter)
    /\ relayVotes' = [relayVotes EXCEPT ![s][t] = Tail(@)]
    /\ UNCHANGED <<labelVars, bcast, packVars, blockCalls>>

(* The request fails: the n votes popped for it are gone, the ones pushed  *)
(* since then stay in the queue.                                           *)
RelayVoteFails(s, t) ==
    /\ \E n \in 1 .. Len(relayVotes[s][t]) :
          relayVotes' = [relayVotes EXCEPT ![s][t] = SubSeq(@, n + 1, Len(@))]
    /\ UNCHANGED <<poolVars, labelVars, bcast, packVars, blockCalls>>

-----------------------------------------------------------------------------
(* Commit *)

(* The merge thread, one block: merge its votes, enter it in committed_blks *)
(* (and RocksDB), queue it for every peer.                                  *)
MergeVotes(s) ==
    /\ mergeQ[s] # <<>>
    /\ LET i == Head(mergeQ[s])
       IN  /\ committed' = [committed EXCEPT ![s] = @ \cup {i.blk}]
           /\ cert' = [cert EXCEPT ![s][i.blk] = i.votes]
           /\ bcast' = [bcast EXCEPT ![s] =
                  [t \in Servers |-> IF t # s THEN Append(@[t], i) ELSE @[t]]]
    /\ mergeQ' = [mergeQ EXCEPT ![s] = Tail(@)]
    /\ UNCHANGED <<pending, votes, labelVars, relayVotes, packVars, blockCalls>>

(* Mutant: the received block is entered although it is not pending. *)
SPBcastCommit_anyway(s, t) ==
    /\ bcast[s][t] # <<>>
    /\ LET i == Head(bcast[s][t])
       IN  /\ committed' = [committed EXCEPT ![t] = @ \cup {i.blk}]
           /\ cert' = [cert EXCEPT ![t][i.blk] = i.votes]
           /\ pending' = [pending EXCEPT ![t] = @ \ {i.blk}]
    /\ bcast' = [bcast EXCEPT ![s][t] = Tail(@)]
    /\ UNCHANGED <<votes, mergeQ, labelVars, relayVotes, packVars, blockCalls>>

(* The broadcast thread and the handler at t, one block as for RelayVote:  *)
(* the block is adopted when it is still pending at t, dropped otherwise.  *)
SPBcastCommit(s, t) ==
    /\ bcast[s][t] # <<>>
    /\ LET i == Head(bcast[s][t])
       IN  IF i.blk \in pending[t]
           THEN /\ committed' = [committed EXCEPT ![t] = @ \cup {i.blk}]
                /\ cert' = [cert EXCEPT ![t][i.blk] = i.votes]
                /\ pending' = [pending EXCEPT ![t] = @ \ {i.blk}]
           ELSE UNCHANGED <<committed, cert, pending>>
    /\ bcast' = [bcast EXCEPT ![s][t] = Tail(@)]
    /\ UNCHANGED <<votes, mergeQ, labelVars, relayVotes, packVars, blockCalls>>

(* The request fails: the n blocks popped for it are gone. *)
SPBcastCommitFails(s, t) ==
    /\ \E n \in 1 .. Len(bcast[s][t]) :
          bcast' = [bcast EXCEPT ![s][t] = SubSeq(@, n + 1, Len(@))]
    /\ UNCHANGED <<poolVars, labelVars, relayVotes, packVars, blockCalls>>

-----------------------------------------------------------------------------
(* Handler PullPendingBlocks, one block b of the copied pool: the header is *)
(* sent if the block is labelled and this client has not seen it here.      *)

(* Mutant: the label is not looked at. *)
PullSends_unsynced(s, b, c) == b \notin seen[s][c]

PullSends(s, b, c) == b \in labels[s] /\ b \notin seen[s][c]

(* Mutant: the header counts as seen although the block is not labelled yet. *)
PullMark_early(s, b, c) == seen' = [seen EXCEPT ![s][c] = @ \cup {b}]

PullMark(s, b, c) ==
    seen' = [seen EXCEPT ![s][c] = IF PullSends(s, b, c) THEN @ \cup {b} ELSE @]
=============================================================================
