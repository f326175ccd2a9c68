--------------------------- MODULE TomChain_proofs ---------------------------
(***************************************************************************)
(* Theorems about TomChain for every number of servers, clients, blocks    *)
(* and failing calls: types, certificates of committed blocks, and the     *)
(* refinement of BlockCommit.                                              *)
(***************************************************************************)
EXTENDS TomChain, FiniteSetTheorems, TLAPS

(* Remainders by the number of servers are smaller than it. *)
LEMMA Remainder ==
    ASSUME NEW n \in Nat
    PROVE  n % ServerCount \in 0 .. (ServerCount - 1)
BY ServerCountAssumption, SMT

(* Packer and 1 are servers, and below Packer the next id is a server. *)
LEMMA PackerIsServer ==
    /\ Packer \in Servers /\ 1 \in Servers /\ Servers \subseteq Nat
    /\ \A t \in Servers : t < Packer => t + 1 \in Servers
BY ServerCountAssumption DEF Packer, Servers

(* Block ids are positive integers; the last id a pack thread may reach is *)
(* one past the last block.                                                *)
LEMMA BlockIds ==
    /\ FirstBlock \in Nat /\ Blocks \subseteq Nat
    /\ \A b \in Blocks : b + 1 \in FirstBlock .. (FirstBlock + MaxBlocks)
<1>1. FirstBlock \in Nat
  BY ServerCountAssumption, BlocksBeforeAssumption, SMT DEF FirstBlock, Packer
<1> QED BY <1>1, MaxBlocksAssumption DEF Blocks

(* Both stubs of a client lead to servers (main of tc-client.cpp). *)
LEMMA StubIsServer ==
    ASSUME NEW c \in Clients, NEW k \in {0, 1}
    PROVE  Stub(c, k) \in Servers
<1>1. c - 1 \in Nat BY ClientCountAssumption DEF Clients
<1>2. (c - 1) % ServerCount \in 0 .. (ServerCount - 1) BY <1>1, Remainder
<1> QED BY <1>2, ServerCountAssumption DEF Stub, Servers

(* The BPS of a block are servers, two different ones when there are two   *)
(* servers or more (Block::get_server_id).                                 *)
THEOREM BPSAreServers ==
    ASSUME NEW b \in Blocks
    PROVE  /\ get_server_id(b) \subseteq Servers
           /\ ServerCount >= 2 => \E p, q \in Servers : p # q /\ get_server_id(b) = {p, q}
<1>1. b \in Nat BY BlockIds
<1>2. b % ServerCount \in 0 .. (ServerCount - 1) BY <1>1, Remainder
<1> QED BY <1>2, ServerCountAssumption DEF get_server_id, Servers

(* Votes of clients are enough exactly when every client has voted         *)
(* (Block::is_vote_enough).                                                *)
THEOREM EnoughIsAll ==
    ASSUME NEW v \in SUBSET Clients
    PROVE  is_vote_enough(v) <=> v = Clients
<1>1. IsFiniteSet(Clients) /\ Cardinality(Clients) = ClientCount
  BY FS_Interval, ClientCountAssumption DEF Clients
<1>2. /\ IsFiniteSet(v) /\ Cardinality(v) <= Cardinality(Clients)
      /\ Cardinality(v) = Cardinality(Clients) => v = Clients
  BY <1>1, FS_Subset
<1>3. Cardinality(v) \in Nat BY <1>2, FS_CardinalityType
<1> QED BY <1>1, <1>2, <1>3, ClientCountAssumption DEF is_vote_enough

-----------------------------------------------------------------------------
(* Type correctness *)

(* Adding an element to a queue, and what remains when its head is taken. *)
LEMMA QueueType ==
    ASSUME NEW S, NEW q \in Seq(S)
    PROVE  /\ \A x \in S : Append(q, x) \in Seq(S)
           /\ q # <<>> => Head(q) \in S /\ Tail(q) \in Seq(S)
OBVIOUS

(* What remains of a queue when a request has taken its first n elements. *)
LEMMA RestType ==
    ASSUME NEW S, NEW q \in Seq(S), NEW n \in 1 .. Len(q)
    PROVE  SubSeq(q, n + 1, Len(q)) \in Seq(S)
OBVIOUS

(* A queue of other than one element is not emptied by taking its head. *)
LEMMA TailNonEmpty ==
    ASSUME NEW S, NEW q \in Seq(S), q # <<>>, Len(q) # 1
    PROVE  Tail(q) # <<>>
<1>1. Len(q) \in Nat /\ Len(q) # 0 OBVIOUS
<1>2. Tail(q) \in Seq(S) /\ Len(Tail(q)) = Len(q) - 1 OBVIOUS
<1>3. Len(Tail(q)) # 0 BY <1>1, <1>2
<1>4. \A r : r = <<>> => Len(r) = 0 OBVIOUS
<1> QED BY <1>3, <1>4, Zenon

(* The ids of a sequence of blocks (tmp_sync_vec). *)
LEMMA IdsType ==
    ASSUME NEW q \in Seq(Voted)
    PROVE  [i \in 1 .. Len(q) |-> q[i].blk] \in Seq(Blocks)
<1>1. ASSUME NEW i \in 1 .. Len(q) PROVE q[i].blk \in Blocks
  <2>1. q[i] \in Voted OBVIOUS
  <2> QED BY <2>1 DEF Voted
<1> QED BY <1>1

(* Delivery keeps the count of failed calls within its bound. *)
LEMMA DeliveryType ==
    ASSUME faults \in 0 .. MaxFaults, NEW d \in BOOLEAN, Delivery(d)
    PROVE  faults' \in 0 .. MaxFaults
BY MaxFaultsAssumption DEF Delivery

(* The steps of the pack thread keep the types. *)
LEMMA PackType ==
    ASSUME TypeOK, Pack
    PROVE  TypeOK'
<1> USE DEF TypeOK, ServerTypeOK, ClientTypeOK
<1>1. CASE PackPush
  <2>1. pack' \in [blk : FirstBlock .. (FirstBlock + MaxBlocks), tgt : Servers]
    BY <1>1, PackerIsServer DEF PackPush
  <2>2. relayBlocks' \in [Servers -> Seq(Blocks)] BY <1>1 DEF PackPush
  <2> QED BY <1>1, <2>1, <2>2 DEF Pack, PackPush, poolVars, labelVars, queueVars, clientVars
<1>2. CASE PackInsert
  <2>1. pack' \in [blk : FirstBlock .. (FirstBlock + MaxBlocks), tgt : Servers]
    <3>1. pack.blk + 1 \in FirstBlock .. (FirstBlock + MaxBlocks)
      BY <1>2, BlockIds DEF PackInsert, Blocks
    <3> QED BY <1>2, <3>1, PackerIsServer DEF PackInsert
  <2>2. pending' \in [Servers -> SUBSET Blocks]
    <3> HIDE DEF TypeOK
    <3>1. pending \in [Servers -> SUBSET Blocks] BY DEF TypeOK
    <3>2. pack.blk \in Blocks /\ pending' = [pending EXCEPT ![Packer] = @ \cup {pack.blk}]
      BY <1>2 DEF PackInsert
    <3> QED BY <3>1, <3>2
  <2> QED BY <1>2, <2>1, <2>2 DEF Pack, PackInsert, labelVars, queueVars, clientVars
<1> QED BY <1>1, <1>2 DEF Pack

(* The steps of the relay-block thread keep the types. *)
LEMMA RelayType ==
    ASSUME TypeOK, NEW d \in BOOLEAN, RelayLoop \/ RelaySend(d)
    PROVE  TypeOK'
<1> USE DEF TypeOK, ServerTypeOK, ClientTypeOK
<1> DEFINE RB == [pc : {"pop", "wait", "signal"}, tgt : Servers,
                  req : Seq(Voted), blk : Blocks \cup {NoBlock}]
<1>1. CASE RelayLoop /\ RelayBlockPop
  <2> DEFINE b == Head(relayBlocks[rb.tgt])
  <2>1. relayBlocks[rb.tgt] \in Seq(Blocks) /\ relayBlocks[rb.tgt] # <<>>
    BY <1>1 DEF RelayBlockPop
  <2>2. b \in Blocks /\ Tail(relayBlocks[rb.tgt]) \in Seq(Blocks) BY <2>1, QueueType
  <2>3. [blk |-> b, votes |-> votes[Packer][b]] \in Voted
    <3> HIDE DEF TypeOK
    <3>1. votes \in [Servers -> [Blocks -> SUBSET Clients]] BY DEF TypeOK
    <3> QED BY <2>2, <3>1, PackerIsServer DEF Voted
  <2>4. rb' \in RB /\ rb'.pc = "pop"
    <3>1. Append(rb.req, [blk |-> b, votes |-> votes[Packer][b]]) \in Seq(Voted)
      BY <2>3, QueueType
    <3> QED BY <1>1, <3>1 DEF RelayBlockPop
  <2>5. relayBlocks' \in [Servers -> Seq(Blocks)] BY <1>1, <2>2 DEF RelayBlockPop
  <2> QED BY <1>1, <2>4, <2>5
          DEF RelayLoop, RelayBlockPop, poolVars, labelVars, queueVars, clientVars
<1>2. CASE RelayLoop /\ RelayBlockEmpty
  <2>1. rb' \in RB /\ rb'.pc = "pop" BY <1>2, PackerIsServer DEF RelayBlockEmpty, NextTarget
  <2> QED BY <1>2, <2>1
          DEF RelayLoop, RelayBlockEmpty, poolVars, labelVars, queueVars, clientVars
<1>3. CASE RelayLoop /\ RelayBlockReturn
  <2>1. rb' \in RB /\ rb'.pc = "pop"
    <3>1. rb.tgt + 1 \in Servers BY <1>3, PackerIsServer DEF RelayBlockReturn
    <3>2. rb' = [pc |-> "pop", tgt |-> rb.tgt + 1, req |-> <<>>, blk |-> rb.blk]
      BY <1>3 DEF RelayBlockReturn
    <3>3. <<>> \in Seq(Voted) OBVIOUS
    <3> QED BY <3>1, <3>2, <3>3
  <2>2. [i \in 1 .. Len(rb.req) |-> rb.req[i].blk] \in Seq(Blocks) BY IdsType
  <2>3. syncQ' \in Seq(Blocks) BY <1>3, <2>2 DEF RelayBlockReturn
  <2> QED BY <1>3, <2>1, <2>3
          DEF RelayLoop, RelayBlockReturn, poolVars, labelVars, queueVars, clientVars
<1>4. CASE RelayLoop /\ SyncPop
  <2>1. Head(syncQ) \in Blocks /\ Tail(syncQ) \in Seq(Blocks)
    BY <1>4, QueueType DEF SyncPop
  <2>2. rb' \in RB /\ rb'.pc = "signal" /\ rb'.blk \in Blocks
    BY <1>4, <2>1, PackerIsServer DEF SyncPop
  <2> QED BY <1>4, <2>1, <2>2
          DEF RelayLoop, SyncPop, poolVars, labelVars, queueVars, clientVars
<1>5. CASE RelayLoop /\ SyncLocal
  <2>1. rb' \in RB /\ rb'.pc = "pop" BY <1>5, PackerIsServer DEF SyncLocal
  <2>2. labels' \in [Servers -> SUBSET Blocks]
    <3> HIDE DEF TypeOK
    <3>1. labels \in [Servers -> SUBSET Blocks] /\ rb.blk \in Blocks
      BY <1>5 DEF TypeOK, SyncLocal
    <3>2. labels' = [labels EXCEPT ![Packer] = @ \cup {rb.blk}] BY <1>5 DEF SyncLocal
    <3> QED BY <3>1, <3>2
  <2> QED BY <1>5, <2>1, <2>2
          DEF RelayLoop, SyncLocal, poolVars, queueVars, clientVars
<1>6. CASE RelaySend(d) /\ RelayBlockSend(d)
  <2>1. rb' \in RB /\ rb'.pc = "wait" /\ rb'.tgt < Packer BY <1>6 DEF RelayBlockSend
  <2>2. blockCalls' \subseteq BlockCall
    <3>1. [dst |-> rb.tgt, live |-> TRUE, items |-> rb.req] \in BlockCall
      BY <1>6 DEF RelayBlockSend, BlockCall
    <3> QED BY <1>6, <3>1 DEF RelayBlockSend
  <2>3. faults' \in 0 .. MaxFaults BY <1>6, DeliveryType DEF RelaySend
  <2> QED BY <1>6, <2>1, <2>2, <2>3
          DEF RelaySend, RelayBlockSend, poolVars, labelVars, queueVars, clientVars
<1>7. CASE RelaySend(d) /\ RelayBlockSync(d)
  <2>1. rb' \in RB /\ rb'.pc = "signal" /\ rb'.blk \in Blocks
    BY <1>7, PackerIsServer DEF RelayBlockSync
  <2>2. labels' \in [Servers -> SUBSET Blocks] BY <1>7 DEF RelayBlockSync
  <2>3. faults' \in 0 .. MaxFaults BY <1>7, DeliveryType DEF RelaySend
  <2> QED BY <1>7, <2>1, <2>2, <2>3
          DEF RelaySend, RelayBlockSync, poolVars, queueVars, clientVars
<1> QED BY <1>1, <1>2, <1>3, <1>4, <1>5, <1>6, <1>7 DEF RelayLoop, RelaySend

(* Storing a relayed block, and losing sight of a call, keep the types. *)
LEMMA BlockCallType ==
    ASSUME TypeOK, NEW m \in blockCalls
    PROVE  /\ m.dst \in Servers /\ m.items \in Seq(Voted) /\ m.items # <<>>
           /\ Head(m.items) \in Voted
           /\ Served(m) \subseteq BlockCall
           /\ [m EXCEPT !.live = FALSE] \in BlockCall
<1>1. blockCalls \subseteq BlockCall /\ m \in BlockCall BY DEF TypeOK, ServerTypeOK
<1>2. m.dst \in Servers /\ m.items \in Seq(Voted) /\ m.items # <<>> BY <1>1 DEF BlockCall
<1>3. Head(m.items) \in Voted /\ Tail(m.items) \in Seq(Voted) BY <1>2, QueueType
<1>4. Len(m.items) # 1 => Tail(m.items) # <<>> BY <1>2, TailNonEmpty
<1>5. Len(m.items) # 1 => [m EXCEPT !.items = Tail(@)] \in BlockCall
  BY <1>1, <1>3, <1>4 DEF BlockCall
<1>6. Served(m) \subseteq BlockCall BY <1>1, <1>5 DEF Served
<1>7. [m EXCEPT !.live = FALSE] \in BlockCall BY <1>1 DEF BlockCall
<1> QED BY <1>2, <1>3, <1>6, <1>7

(* The handler of RelayBlock keeps the types. *)
LEMMA HandleBlockType ==
    ASSUME TypeOK, HandleBlock
    PROVE  TypeOK'
<1>1. PICK m \in blockCalls : RelayBlockHandler(m) /\ UNCHANGED <<clientVars, faults>>
  BY DEF HandleBlock
<1>2. m.dst \in Servers /\ Head(m.items) \in Voted /\ Served(m) \subseteq BlockCall
  BY BlockCallType
<1>3. Head(m.items).blk \in Blocks /\ Head(m.items).votes \in SUBSET Clients
  BY <1>2 DEF Voted
<1>4. pending' \in [Servers -> SUBSET Blocks]
  BY <1>1, <1>2, <1>3 DEF RelayBlockHandler, TypeOK, ServerTypeOK
<1>5. votes' \in [Servers -> [Blocks -> SUBSET Clients]]
  BY <1>1, <1>2, <1>3 DEF RelayBlockHandler, TypeOK, ServerTypeOK
<1>6. blockCalls' \subseteq BlockCall BY <1>1, <1>2 DEF RelayBlockHandler
<1> QED BY <1>1, <1>4, <1>5, <1>6
        DEF TypeOK, ServerTypeOK, ClientTypeOK, RelayBlockHandler, labelVars, queueVars,
            packVars, clientVars

(* Inserting a vote keeps the types of the pool. *)
LEMMA InsertVoteType ==
    ASSUME TypeOK, NEW s \in Servers, NEW b \in Blocks, NEW c \in Clients,
           InsertVote(s, b, c)
    PROVE  /\ pending' \in [Servers -> SUBSET Blocks]
           /\ votes' \in [Servers -> [Blocks -> SUBSET Clients]]
           /\ mergeQ' \in [Servers -> Seq(Voted)]
           /\ UNCHANGED <<committed, cert>>
<1> DEFINE v == votes[s][b] \cup {c}
<1>1. /\ pending \in [Servers -> SUBSET Blocks] /\ mergeQ \in [Servers -> Seq(Voted)]
      /\ votes \in [Servers -> [Blocks -> SUBSET Clients]]
  BY DEF TypeOK, ServerTypeOK
<1>2. v \in SUBSET Clients BY <1>1
<1>3. Append(mergeQ[s], [blk |-> b, votes |-> v]) \in Seq(Voted)
  BY <1>1, <1>2, QueueType DEF Voted
<1>4. CASE b \in pending[s]
  <2>1. AddVote(s, b, c) BY <1>4 DEF InsertVote
  <2>2. votes' \in [Servers -> [Blocks -> SUBSET Clients]]
    BY <1>1, <1>2, <2>1 DEF AddVote
  <2>3. pending' \in [Servers -> SUBSET Blocks] BY <1>1, <2>1 DEF AddVote
  <2>4. mergeQ' = mergeQ \/ mergeQ' = [mergeQ EXCEPT ![s] = Append(@, [blk |-> b, votes |-> v])]
    BY <2>1 DEF AddVote
  <2>5. mergeQ' \in [Servers -> Seq(Voted)] BY <1>1, <1>3, <2>4
  <2> QED BY <2>2, <2>3, <2>5 DEF InsertVote
<1>5. CASE b \notin pending[s] BY <1>1, <1>5 DEF InsertVote
<1> QED BY <1>4, <1>5

(* Relaying a vote keeps the type of the relay queues. *)
LEMMA VoteRelayType ==
    ASSUME TypeOK, NEW s \in Servers, NEW b \in Blocks, NEW c \in Clients,
           VoteRelay(s, b, c)
    PROVE  relayVotes' \in [Servers -> [Servers -> Seq(BlockVote)]]
<1>1. relayVotes \in [Servers -> [Servers -> Seq(BlockVote)]] BY DEF TypeOK, ServerTypeOK
<1>2. [blk |-> b, voter |-> c] \in BlockVote BY DEF BlockVote
<1>3. \A t \in Servers : Append(relayVotes[s][t], [blk |-> b, voter |-> c]) \in Seq(BlockVote)
  BY <1>1, <1>2, QueueType
<1> QED BY <1>1, <1>3 DEF VoteRelay

(* The merge thread keeps the types. *)
LEMMA MergeType ==
    ASSUME TypeOK, NEW s \in Servers, Merge(s)
    PROVE  TypeOK'
<1> DEFINE i == Head(mergeQ[s])
<1>1. mergeQ[s] \in Seq(Voted) /\ mergeQ[s] # <<>>
  BY DEF Merge, MergeVotes, TypeOK, ServerTypeOK
<1>2. i \in Voted /\ Tail(mergeQ[s]) \in Seq(Voted) BY <1>1, QueueType
<1>3. i.blk \in Blocks /\ i.votes \in SUBSET Clients BY <1>2 DEF Voted
<1> HIDE DEF i
<1>4. committed' \in [Servers -> SUBSET Blocks] /\ cert' \in [Servers -> [Blocks -> SUBSET Clients]]
  BY <1>3 DEF Merge, MergeVotes, TypeOK, ServerTypeOK, i
<1>5. bcast' \in [Servers -> [Servers -> Seq(Voted)]]
  <2>1. bcast \in [Servers -> [Servers -> Seq(Voted)]] BY DEF TypeOK, ServerTypeOK
  <2>2. \A t \in Servers : Append(bcast[s][t], i) \in Seq(Voted) BY <1>2, <2>1, QueueType
  <2> QED BY <2>1, <2>2 DEF Merge, MergeVotes, i
<1>6. mergeQ' \in [Servers -> Seq(Voted)]
  BY <1>2 DEF Merge, MergeVotes, TypeOK, ServerTypeOK
<1> QED BY <1>4, <1>5, <1>6
        DEF TypeOK, ServerTypeOK, ClientTypeOK, Merge, MergeVotes, labelVars,
            packVars, clientVars

(* Votes and commits handled at a peer keep the types. *)
LEMMA PeerCallType ==
    ASSUME TypeOK, NEW s \in Servers, NEW t \in Servers, PeerCall(s, t)
    PROVE  TypeOK'
<1>1. CASE RelayVote(s, t)
  <2> DEFINE i == Head(relayVotes[s][t])
  <2>1. relayVotes[s][t] \in Seq(BlockVote) /\ relayVotes[s][t] # <<>>
    BY <1>1 DEF RelayVote, TypeOK, ServerTypeOK
  <2>2. i \in BlockVote /\ Tail(relayVotes[s][t]) \in Seq(BlockVote) BY <2>1, QueueType
  <2>3. i.blk \in Blocks /\ i.voter \in Clients BY <2>2 DEF BlockVote
  <2>4. InsertVote(t, i.blk, i.voter) BY <1>1 DEF RelayVote
  <2> HIDE DEF i
  <2>5. /\ pending' \in [Servers -> SUBSET Blocks]
        /\ votes' \in [Servers -> [Blocks -> SUBSET Clients]]
        /\ mergeQ' \in [Servers -> Seq(Voted)]
        /\ UNCHANGED <<committed, cert>>
    BY <2>3, <2>4, InsertVoteType
  <2>6. relayVotes' \in [Servers -> [Servers -> Seq(BlockVote)]]
    BY <1>1, <2>2 DEF RelayVote, TypeOK, ServerTypeOK
  <2>7. UNCHANGED <<labelVars, bcast, packVars, blockCalls, clientVars, faults>>
    BY <1>1 DEF RelayVote, PeerCall
  <2> QED BY <2>5, <2>6, <2>7
          DEF TypeOK, ServerTypeOK, ClientTypeOK, labelVars, packVars, clientVars
<1>2. CASE SPBcastCommit(s, t)
  <2> DEFINE i == Head(bcast[s][t])
  <2>1. bcast[s][t] \in Seq(Voted) /\ bcast[s][t] # <<>>
    BY <1>2 DEF SPBcastCommit, TypeOK, ServerTypeOK
  <2>2. i \in Voted /\ Tail(bcast[s][t]) \in Seq(Voted) BY <2>1, QueueType
  <2>3. i.blk \in Blocks /\ i.votes \in SUBSET Clients BY <2>2 DEF Voted
  <2> HIDE DEF i
  <2>4. /\ pending' \in [Servers -> SUBSET Blocks]
        /\ committed' \in [Servers -> SUBSET Blocks]
        /\ cert' \in [Servers -> [Blocks -> SUBSET Clients]]
    <3>1. CASE i.blk \in pending[t]
      <4>1. /\ committed' = [committed EXCEPT ![t] = @ \cup {i.blk}]
            /\ cert' = [cert EXCEPT ![t][i.blk] = i.votes]
            /\ pending' = [pending EXCEPT ![t] = @ \ {i.blk}]
        BY <1>2, <3>1 DEF SPBcastCommit, i
      <4>2. pending' \in [Servers -> SUBSET Blocks] BY <4>1 DEF TypeOK, ServerTypeOK
      <4>3. committed' \in [Servers -> SUBSET Blocks] BY <2>3, <4>1 DEF TypeOK, ServerTypeOK
      <4>4. cert' \in [Servers -> [Blocks -> SUBSET Clients]]
        BY <2>3, <4>1 DEF TypeOK, ServerTypeOK
      <4> QED BY <4>2, <4>3, <4>4
    <3>2. CASE i.blk \notin pending[t]
      BY <1>2, <3>2 DEF SPBcastCommit, TypeOK, ServerTypeOK, i
    <3> QED BY <3>1, <3>2
  <2>5. bcast' \in [Servers -> [Servers -> Seq(Voted)]]
    BY <1>2, <2>2 DEF SPBcastCommit, TypeOK, ServerTypeOK
  <2>6. UNCHANGED <<votes, mergeQ, labelVars, relayVotes, packVars, blockCalls, clientVars, faults>>
    BY <1>2 DEF SPBcastCommit, PeerCall
  <2> QED BY <2>4, <2>5, <2>6
          DEF TypeOK, ServerTypeOK, ClientTypeOK, labelVars, packVars, clientVars
<1> QED BY <1>1, <1>2 DEF PeerCall

(* Failing calls between servers keep the types. *)
LEMMA CallFailsType ==
    ASSUME TypeOK, CallFails
    PROVE  TypeOK'
<1>1. faults' \in 0 .. MaxFaults BY DeliveryType DEF CallFails, TypeOK
<1>2. ASSUME NEW m \in blockCalls, Abandon(m) PROVE TypeOK'
  <2>1. blockCalls' \subseteq BlockCall
    BY <1>2, BlockCallType DEF Abandon, TypeOK, ServerTypeOK
  <2> QED BY <1>1, <1>2, <2>1
          DEF TypeOK, ServerTypeOK, ClientTypeOK, CallFails, Abandon, poolVars, labelVars,
              queueVars, packVars, clientVars
<1>3. ASSUME NEW s \in Servers, NEW t \in Servers, RelayVoteFails(s, t) PROVE TypeOK'
  <2>1. relayVotes' \in [Servers -> [Servers -> Seq(BlockVote)]]
    <3>1. relayVotes \in [Servers -> [Servers -> Seq(BlockVote)]] BY DEF TypeOK, ServerTypeOK
    <3>2. PICK n \in 1 .. Len(relayVotes[s][t]) :
            relayVotes' = [relayVotes EXCEPT ![s][t] = SubSeq(@, n + 1, Len(@))]
      BY <1>3 DEF RelayVoteFails
    <3>3. SubSeq(relayVotes[s][t], n + 1, Len(relayVotes[s][t])) \in Seq(BlockVote) BY <3>1, RestType
    <3> QED BY <3>1, <3>2, <3>3, Zenon
  <2> QED BY <1>1, <1>3, <2>1
          DEF TypeOK, ServerTypeOK, ClientTypeOK, CallFails, RelayVoteFails, poolVars, labelVars,
              packVars, clientVars
<1>4. ASSUME NEW s \in Servers, NEW t \in Servers, SPBcastCommitFails(s, t) PROVE TypeOK'
  <2>1. bcast' \in [Servers -> [Servers -> Seq(Voted)]]
    <3>1. bcast \in [Servers -> [Servers -> Seq(Voted)]] BY DEF TypeOK, ServerTypeOK
    <3>2. PICK n \in 1 .. Len(bcast[s][t]) :
            bcast' = [bcast EXCEPT ![s][t] = SubSeq(@, n + 1, Len(@))]
      BY <1>4 DEF SPBcastCommitFails
    <3>3. SubSeq(bcast[s][t], n + 1, Len(bcast[s][t])) \in Seq(Voted) BY <3>1, RestType
    <3> QED BY <3>1, <3>2, <3>3, Zenon
  <2> QED BY <1>1, <1>4, <2>1
          DEF TypeOK, ServerTypeOK, ClientTypeOK, CallFails, SPBcastCommitFails, poolVars,
              labelVars, packVars, clientVars
<1> QED BY <1>2, <1>3, <1>4 DEF CallFails

(* Where the pull thread of a client goes next, and what it asks for. *)
LEMMA NextCallType ==
    ASSUME TypeOK, NEW c \in Clients, NEW headers \in SUBSET Blocks, NextCall(c, headers)
    PROVE  pull' \in [Clients -> [at : 1 .. 4, busy : BOOLEAN, todo : SUBSET Blocks,
                                  resp : Seq(Blocks)]]
<1>1. /\ pull \in [Clients -> [at : 1 .. 4, busy : BOOLEAN, todo : SUBSET Blocks,
                                resp : Seq(Blocks)]]
      /\ pull[c].at \in 1 .. 4
  BY DEF TypeOK, ClientTypeOK
<1>2. <<>> \in Seq(Blocks) OBVIOUS
<1> QED BY <1>1, <1>2 DEF NextCall

(* The headers and blocks a client has after the answer of a call. *)
LEMMA CallVisitsType ==
    ASSUME TypeOK, NEW c \in Clients, NEW b \in Blocks, NEW a \in BOOLEAN, NEW d \in BOOLEAN,
           CallVisits(c, b, a, d)
    PROVE  ClientTypeOK'
<1> DEFINE Calls == [at : 1 .. 4, busy : BOOLEAN, todo : SUBSET Blocks, resp : Seq(Blocks)]
           resp == IF a THEN Append(pull[c].resp, b) ELSE pull[c].resp
<1>1. /\ hdrs \in [Clients -> SUBSET Blocks] /\ got \in [Clients -> Seq(Blocks)]
      /\ pull \in [Clients -> Calls] /\ pull[c].resp \in Seq(Blocks)
      /\ vote \in [Clients -> [stub : {0, 1}, inserting : BOOLEAN]]
      /\ \A e \in Clients : vote[e].inserting => got[e] # <<>>
      /\ voted \in [Clients -> SUBSET Blocks]
  BY DEF TypeOK, ClientTypeOK
<1>2. resp \in Seq(Blocks) BY <1>1, QueueType
<1> HIDE DEF resp
<1>3. UNCHANGED <<vote, voted>> BY DEF CallVisits
<1>4. /\ hdrs' \in [Clients -> SUBSET Blocks] /\ got' \in [Clients -> Seq(Blocks)]
      /\ \A e \in Clients : got[e] # <<>> => got'[e] # <<>>
      /\ pull' \in [Clients -> Calls]
  <2>1. CASE pull[c].todo = {b}
    <3>1. CallReturns(c, resp, d) BY <2>1 DEF CallVisits, resp
    <3>2. Ids(resp) \subseteq Blocks BY <1>2 DEF Ids
    <3>3. hdrs' \in [Clients -> SUBSET Blocks]
      <4>1. \/ hdrs' = hdrs \/ hdrs' = [hdrs EXCEPT ![c] = @ \cup Ids(resp)]
            \/ hdrs' = [hdrs EXCEPT ![c] = @ \ Ids(resp)]
        BY <3>1 DEF CallReturns
      <4>2. hdrs[c] \cup Ids(resp) \in SUBSET Blocks /\ hdrs[c] \ Ids(resp) \in SUBSET Blocks
        BY <1>1, <3>2
      <4> QED BY <1>1, <4>1, <4>2
    <3>4. hdrs'[c] \in SUBSET Blocks BY <3>3
    <3>5. pull' \in [Clients -> Calls] BY <3>1, <3>4, NextCallType DEF CallReturns
    <3>6. got' = got \/ got' = [got EXCEPT ![c] = @ \o resp] BY <3>1 DEF CallReturns
    <3>7. got[c] \o resp \in Seq(Blocks) BY <1>1, <1>2
    <3>8. got[c] # <<>> => got[c] \o resp # <<>>
      <4> SUFFICES ASSUME got[c] # <<>> PROVE got[c] \o resp # <<>> OBVIOUS
      <4>1. got[c] \in Seq(Blocks) BY <1>1
      <4>2. Len(got[c]) # 0 /\ Len(got[c]) \in Nat /\ Len(resp) \in Nat BY <4>1, <1>2
      <4>3. Len(got[c] \o resp) = Len(got[c]) + Len(resp) BY <4>1, <1>2
      <4>4. Len(got[c] \o resp) # 0 BY <4>2, <4>3
      <4>5. \A r : r = <<>> => Len(r) = 0 OBVIOUS
      <4> QED BY <4>4, <4>5, Zenon
    <3>9. got' \in [Clients -> Seq(Blocks)] BY <1>1, <3>6, <3>7
    <3>10. \A e \in Clients : got[e] # <<>> => got'[e] # <<>> BY <1>1, <3>6, <3>8, Zenon
    <3> QED BY <3>3, <3>5, <3>9, <3>10
  <2>2. CASE pull[c].todo # {b}
    <3>1. /\ pull' = [pull EXCEPT ![c].todo = @ \ {b}, ![c].resp = resp]
          /\ UNCHANGED <<hdrs, got>>
      BY <2>2 DEF CallVisits, resp
    <3>2. pull' = [pull EXCEPT ![c] = [pull[c] EXCEPT !.todo = @ \ {b}, !.resp = resp]]
      BY <1>1, <3>1
    <3>3. [pull[c] EXCEPT !.todo = @ \ {b}, !.resp = resp] \in Calls BY <1>1, <1>2
    <3>4. pull' \in [Clients -> Calls] BY <1>1, <3>2, <3>3
    <3> QED BY <1>1, <3>1, <3>4
  <2> QED BY <2>1, <2>2
<1> QED BY <1>1, <1>3, <1>4 DEF ClientTypeOK

(* The steps of a client's pull thread keep the types. *)
LEMMA PullType ==
    ASSUME TypeOK, NEW c \in Clients, NEW d \in BOOLEAN, PullSteps(c, d) \/ PullFails(c)
    PROVE  TypeOK'
<1>1. PullStub(c) \in Servers BY StubIsServer DEF PullStub
<1>2. CASE PullSnapshot(c)
  <2> DEFINE s == PullStub(c)
             todo == pending[s] \ seen[s][c]
  <2>1. todo \in SUBSET Blocks BY <1>1 DEF TypeOK, ServerTypeOK
  <2>2. PullStarts(c, todo) /\ UNCHANGED <<serverVars, faults>> BY <1>2 DEF PullSnapshot
  <2> HIDE DEF todo
  <2>3. hdrs[c] \in SUBSET Blocks BY DEF TypeOK, ClientTypeOK
  <2>4. pull' \in [Clients -> [at : 1 .. 4, busy : BOOLEAN, todo : SUBSET Blocks,
                               resp : Seq(Blocks)]]
    <3>1. CASE todo = {} BY <2>2, <2>3, <3>1, NextCallType DEF PullStarts
    <3>2. CASE todo # {}
      <4>1. pull' = [pull EXCEPT ![c].busy = TRUE, ![c].todo = todo]
        BY <2>2, <3>2 DEF PullStarts
      <4>2. pull \in [Clients -> [at : 1 .. 4, busy : BOOLEAN, todo : SUBSET Blocks,
                                  resp : Seq(Blocks)]]
        BY DEF TypeOK, ClientTypeOK
      <4> QED BY <2>1, <4>1, <4>2
    <3> QED BY <3>1, <3>2
  <2> QED BY <2>2, <2>4
          DEF PullStarts, TypeOK, ServerTypeOK, ClientTypeOK, serverVars, poolVars, labelVars,
              queueVars, packVars
<1>3. ASSUME NEW b \in Blocks, PullVisit(c, b, d) PROVE TypeOK'
  <2> DEFINE s == PullStub(c)
  <2>1. PullSends(s, b, c) \in BOOLEAN BY DEF PullSends
  <2>2. ClientTypeOK' BY <1>3, <2>1, CallVisitsType DEF PullVisit
  <2>3. seen' \in [Servers -> [Clients -> SUBSET Blocks]]
    <3>1. seen' = [seen EXCEPT ![s][c] = IF PullSends(s, b, c) THEN @ \cup {b} ELSE @]
      BY <1>3 DEF PullVisit, PullMark
    <3>2. seen \in [Servers -> [Clients -> SUBSET Blocks]] BY DEF TypeOK, ServerTypeOK
    <3> HIDE DEF s
    <3> QED BY <3>1, <3>2
  <2>4. faults' \in 0 .. MaxFaults BY <1>3, DeliveryType DEF PullVisit, TypeOK
  <2> QED BY <1>3, <2>2, <2>3, <2>4
          DEF PullVisit, TypeOK, ServerTypeOK, poolVars, queueVars, packVars
<1>4. ASSUME NEW b \in Blocks, GetVisit(c, b, d) PROVE TypeOK'
  <2>1. (b \in pending[PullStub(c)]) \in BOOLEAN OBVIOUS
  <2>2. ClientTypeOK' BY <1>4, <2>1, CallVisitsType DEF GetVisit
  <2>3. faults' \in 0 .. MaxFaults BY <1>4, DeliveryType DEF GetVisit, TypeOK
  <2> QED BY <1>4, <2>2, <2>3
          DEF GetVisit, TypeOK, ServerTypeOK, serverVars, poolVars, labelVars, queueVars, packVars
<1>5. CASE PullFails(c)
  <2>1. pull' \in [Clients -> [at : 1 .. 4, busy : BOOLEAN, todo : SUBSET Blocks,
                               resp : Seq(Blocks)]]
    <3>1. hdrs[c] \in SUBSET Blocks BY DEF TypeOK, ClientTypeOK
    <3>2. NextCall(c, hdrs[c]) BY <1>5 DEF PullFails, PullStarts
    <3> QED BY <3>1, <3>2, NextCallType
  <2>2. faults' \in 0 .. MaxFaults BY <1>5, DeliveryType DEF PullFails, TypeOK
  <2> QED BY <1>5, <2>1, <2>2
          DEF PullFails, PullStarts, TypeOK, ServerTypeOK, ClientTypeOK, serverVars, poolVars,
              labelVars, queueVars, packVars
<1> QED BY <1>2, <1>3, <1>4, <1>5 DEF PullSteps

(* What the vote thread of a client leaves when a call is over or goes on. *)
LEMMA VoteThreadType ==
    ASSUME TypeOK, NEW c \in Clients, got[c] # <<>>,
           VoteEnds(c) \/ VoteGoesOn(c), voted' = voted \/ Signs(c)
    PROVE  ClientTypeOK'
<1>1. /\ got \in [Clients -> Seq(Blocks)]
      /\ vote \in [Clients -> [stub : {0, 1}, inserting : BOOLEAN]]
      /\ \A e \in Clients : vote[e].inserting => got[e] # <<>>
      /\ voted \in [Clients -> SUBSET Blocks]
  BY DEF TypeOK, ClientTypeOK
<1>2. Head(got[c]) \in Blocks /\ Tail(got[c]) \in Seq(Blocks) BY <1>1, QueueType
<1>3. UNCHANGED <<hdrs, pull>> BY DEF VoteEnds, VoteGoesOn
<1>4. voted' \in [Clients -> SUBSET Blocks]
  <2>1. voted' = voted \/ voted' = [voted EXCEPT ![c] = @ \cup {Head(got[c])}] BY DEF Signs
  <2>2. voted[c] \cup {Head(got[c])} \in SUBSET Blocks BY <1>1, <1>2
  <2> QED BY <1>1, <2>1, <2>2
<1>5. /\ got' \in [Clients -> Seq(Blocks)]
      /\ vote' \in [Clients -> [stub : {0, 1}, inserting : BOOLEAN]]
      /\ \A e \in Clients : vote'[e].inserting => got'[e] # <<>>
  <2>1. CASE VoteEnds(c)
    <3>1. vote' = [vote EXCEPT ![c] = [stub |-> 1 - @.stub, inserting |-> FALSE]]
      BY <2>1 DEF VoteEnds
    <3>2. got' = got \/ got' = [got EXCEPT ![c] = Tail(@)] BY <2>1 DEF VoteEnds
    <3>3. 1 - vote[c].stub \in {0, 1} BY <1>1
    <3>4. vote' \in [Clients -> [stub : {0, 1}, inserting : BOOLEAN]] BY <1>1, <3>1, <3>3
    <3>5. got' \in [Clients -> Seq(Blocks)] BY <1>1, <1>2, <3>2
    <3>6. \A e \in Clients : vote'[e].inserting => e # c /\ vote[e].inserting BY <1>1, <3>1
    <3>7. \A e \in Clients : e # c => got'[e] = got[e] BY <1>1, <3>2
    <3> QED BY <1>1, <3>4, <3>5, <3>6, <3>7
  <2>2. CASE VoteGoesOn(c) BY <1>1, <2>2 DEF VoteGoesOn
  <2> QED BY <2>1, <2>2
<1> QED BY <1>3, <1>4, <1>5 DEF TypeOK, ClientTypeOK

(* The steps of a client's vote thread keep the types. *)
LEMMA VoteType ==
    ASSUME TypeOK, NEW c \in Clients, VoteSteps(c) \/ VoteFails(c)
    PROVE  TypeOK'
<1>1. vote[c].stub \in {0, 1} BY DEF TypeOK, ClientTypeOK
<1>2. VoteStub(c) \in Servers BY <1>1, StubIsServer DEF VoteStub
<1>3. got[c] # <<>>
  BY DEF VoteSteps, VoteFails, VoteBlocksRelay, VoteBlocksInsert, VoteBegins, TypeOK, ClientTypeOK
<1>4. Head(got[c]) \in Blocks BY <1>3, QueueType DEF TypeOK, ClientTypeOK
<1>5. CASE VoteBlocksRelay(c)
  <2>1. ClientTypeOK' BY <1>3, <1>5, VoteThreadType DEF VoteBlocksRelay
  <2>2. relayVotes' \in [Servers -> [Servers -> Seq(BlockVote)]]
    BY <1>2, <1>4, <1>5, VoteRelayType DEF VoteBlocksRelay
  <2> QED BY <1>5, <2>1, <2>2
          DEF VoteBlocksRelay, TypeOK, ServerTypeOK, poolVars, labelVars, packVars
<1>6. CASE VoteBlocksInsert(c)
  <2>1. ClientTypeOK' BY <1>3, <1>6, VoteThreadType DEF VoteBlocksInsert
  <2>2. InsertVote(VoteStub(c), Head(got[c]), c) BY <1>6 DEF VoteBlocksInsert
  <2>3. /\ pending' \in [Servers -> SUBSET Blocks]
        /\ votes' \in [Servers -> [Blocks -> SUBSET Clients]]
        /\ mergeQ' \in [Servers -> Seq(Voted)]
        /\ UNCHANGED <<committed, cert>>
    BY <1>2, <1>4, <2>2, InsertVoteType
  <2> QED BY <1>6, <2>1, <2>3
          DEF VoteBlocksInsert, TypeOK, ServerTypeOK, labelVars, queueVars, packVars
<1>7. CASE VoteFails(c)
  <2>1. ClientTypeOK' BY <1>3, <1>7, VoteThreadType DEF VoteFails
  <2>2. faults' \in 0 .. MaxFaults BY <1>7, DeliveryType DEF VoteFails, TypeOK
  <2> QED BY <1>7, <2>1, <2>2
          DEF VoteFails, TypeOK, ServerTypeOK, serverVars, poolVars, labelVars, queueVars, packVars
<1> QED BY <1>5, <1>6, <1>7 DEF VoteSteps

(* The initial state has the types. *)
LEMMA InitType == Init => TypeOK
<1> SUFFICES ASSUME Init PROVE TypeOK OBVIOUS
<1>1. <<>> \in Seq(Blocks) /\ <<>> \in Seq(Voted) /\ <<>> \in Seq(BlockVote) OBVIOUS
<1>2. FirstBlock \in FirstBlock .. (FirstBlock + MaxBlocks) BY BlockIds, MaxBlocksAssumption
<1>3. 1 \in Servers BY PackerIsServer
<1>4. ServerTypeOK BY <1>1, <1>2, <1>3 DEF Init, ServerInit, ServerTypeOK
<1>5. ClientTypeOK BY <1>1 DEF Init, ClientInit, ClientTypeOK
<1>6. faults \in 0 .. MaxFaults BY MaxFaultsAssumption DEF Init
<1> QED BY <1>4, <1>5, <1>6 DEF TypeOK

(* Every step keeps the types. *)
LEMMA NextType == TypeOK /\ [Next]_vars => TypeOK'
<1>1. ASSUME TypeOK, Next PROVE TypeOK'
  BY <1>1, PackType, RelayType, HandleBlockType, MergeType, PeerCallType, CallFailsType,
     PullType, VoteType DEF Next
<1>2. ASSUME TypeOK, UNCHANGED vars PROVE TypeOK'
  BY <1>2 DEF vars, serverVars, poolVars, labelVars, queueVars, packVars, clientVars,
              TypeOK, ServerTypeOK, ClientTypeOK
<1> QED BY <1>1, <1>2

(* Type correctness: in every behaviour the pools, the queues and the      *)
(* calls in flight hold blocks that were packed, votes of clients and ids  *)
(* of servers, and the vote thread never looks at an empty queue.          *)
THEOREM TypeCorrect == Spec => []TypeOK
BY InitType, NextType, PTL DEF Spec

-----------------------------------------------------------------------------
(* What the steps of a pull thread do *)

(* The pull thread goes on to its next call: GetBlocks for the headers it  *)
(* is given, or PullPendingBlocks, not yet made.                           *)
LEMMA NextCallDoes ==
    ASSUME TypeOK, NEW c \in Clients, NEW headers, NextCall(c, headers)
    PROVE  /\ \A e \in Clients : e # c => pull'[e] = pull[e]
           /\ pull'[c].resp = <<>>
           /\ \/ pull'[c].busy /\ pull'[c].at \in {3, 4} /\ pull'[c].todo = headers
              \/ ~pull'[c].busy /\ pull'[c].at \in {1, 2} /\ pull'[c].todo = {}
<1>1. /\ pull \in [Clients -> [at : 1 .. 4, busy : BOOLEAN, todo : SUBSET Blocks,
                                resp : Seq(Blocks)]]
      /\ pull[c].at \in 1 .. 4
  BY DEF TypeOK, ClientTypeOK
<1>2. \A e \in Clients : e # c => pull'[e] = pull[e] BY <1>1 DEF NextCall
<1>3. pull'[c] = IF pull[c].at \in {2, 3} /\ headers # {}
                 THEN [at |-> pull[c].at + 1, busy |-> TRUE, todo |-> headers, resp |-> <<>>]
                 ELSE [at |-> IF pull[c].at = 1 THEN 2 ELSE 1, busy |-> FALSE, todo |-> {},
                       resp |-> <<>>]
  BY <1>1 DEF NextCall
<1>4. CASE pull[c].at \in {2, 3} /\ headers # {}
  <2>1. pull'[c] = [at |-> pull[c].at + 1, busy |-> TRUE, todo |-> headers, resp |-> <<>>]
    BY <1>3, <1>4
  <2> QED BY <1>2, <1>4, <2>1
<1>5. CASE ~(pull[c].at \in {2, 3} /\ headers # {})
  <2>1. pull'[c] = [at |-> IF pull[c].at = 1 THEN 2 ELSE 1, busy |-> FALSE, todo |-> {},
                    resp |-> <<>>]
    BY <1>3, <1>5
  <2> QED BY <1>2, <2>1
<1> QED BY <1>4, <1>5

(* PullPendingBlocks starts, or is over at once. *)
LEMMA PullStartsDoes ==
    ASSUME TypeOK, NEW c \in Clients, NEW blocks, PullStarts(c, blocks)
    PROVE  /\ ~pull[c].busy /\ UNCHANGED <<hdrs, got, vote, voted>>
           /\ \A e \in Clients : e # c => pull'[e] = pull[e]
           /\ \/ NextCall(c, hdrs[c])
              \/ /\ pull'[c].busy /\ pull'[c].at = pull[c].at
                 /\ pull'[c].todo = blocks /\ pull'[c].resp = pull[c].resp
<1>1. ~pull[c].busy /\ UNCHANGED <<hdrs, got, vote, voted>> BY DEF PullStarts
<1>2. CASE NextCall(c, hdrs[c]) BY <1>1, <1>2, NextCallDoes
<1>3. CASE pull' = [pull EXCEPT ![c].busy = TRUE, ![c].todo = blocks]
  <2>1. pull \in [Clients -> [at : 1 .. 4, busy : BOOLEAN, todo : SUBSET Blocks,
                              resp : Seq(Blocks)]]
    BY DEF TypeOK, ClientTypeOK
  <2> QED BY <1>1, <1>3, <2>1
<1> QED BY <1>2, <1>3 DEF PullStarts

(* The answer of c's call after its handler has looked at b. *)
Answer(c, b, answered) == IF answered THEN Append(pull[c].resp, b) ELSE pull[c].resp

(* The handler of a call has looked at b: the call goes on, or its answer  *)
(* is unpacked or lost and the thread goes on to its next call.            *)
LEMMA CallVisitsDoes ==
    ASSUME TypeOK, NEW c \in Clients, NEW b \in Blocks, NEW a \in BOOLEAN, NEW d,
           CallVisits(c, b, a, d)
    PROVE  /\ pull[c].busy /\ b \in pull[c].todo /\ UNCHANGED <<vote, voted>>
           /\ \A e \in Clients : e # c => /\ pull'[e] = pull[e]
                                          /\ hdrs'[e] = hdrs[e] /\ got'[e] = got[e]
           /\ \/ /\ pull'[c].busy /\ pull'[c].at = pull[c].at
                 /\ pull'[c].todo = pull[c].todo \ {b} /\ pull'[c].resp = Answer(c, b, a)
                 /\ UNCHANGED <<hdrs, got>>
              \/ /\ NextCall(c, hdrs'[c])
                 /\ \/ ~d /\ UNCHANGED <<hdrs, got>>
                    \/ IsPull(c) /\ hdrs'[c] = hdrs[c] \cup Ids(Answer(c, b, a)) /\ got' = got
                    \/ ~IsPull(c) /\ hdrs'[c] = hdrs[c] \ Ids(Answer(c, b, a)) /\ got'[c] = got[c] \o Answer(c, b, a)
<1>1. /\ pull \in [Clients -> [at : 1 .. 4, busy : BOOLEAN, todo : SUBSET Blocks,
                                resp : Seq(Blocks)]]
      /\ hdrs \in [Clients -> SUBSET Blocks] /\ got \in [Clients -> Seq(Blocks)]
  BY DEF TypeOK, ClientTypeOK
<1>2. pull[c].busy /\ b \in pull[c].todo /\ UNCHANGED <<vote, voted>> BY DEF CallVisits
<1>3. CASE pull[c].todo = {b}
  <2>1. CallReturns(c, Answer(c, b, a), d) BY <1>3 DEF CallVisits, Answer
  <2>2. NextCall(c, hdrs'[c]) BY <2>1 DEF CallReturns
  <2>3. \A e \in Clients : e # c => pull'[e] = pull[e] BY <2>2, NextCallDoes
  <2>4. \/ ~d /\ UNCHANGED <<hdrs, got>>
        \/ IsPull(c) /\ hdrs' = [hdrs EXCEPT ![c] = @ \cup Ids(Answer(c, b, a))] /\ got' = got
        \/ /\ ~IsPull(c) /\ hdrs' = [hdrs EXCEPT ![c] = @ \ Ids(Answer(c, b, a))]
           /\ got' = [got EXCEPT ![c] = @ \o Answer(c, b, a)]
    BY <2>1 DEF CallReturns
  <2> QED BY <1>1, <1>2, <2>2, <2>3, <2>4
<1>4. CASE pull[c].todo # {b}
  <2>1. /\ pull' = [pull EXCEPT ![c].todo = @ \ {b}, ![c].resp = Answer(c, b, a)]
        /\ UNCHANGED <<hdrs, got>>
    BY <1>4 DEF CallVisits, Answer
  <2> QED BY <1>1, <1>2, <2>1
<1> QED BY <1>3, <1>4

-----------------------------------------------------------------------------
(* Every committed block is certified *)

(* What is signed stays signed, so genuine votes and blocks stay genuine. *)
LEMMA GenuineGrows ==
    ASSUME TypeOK, \A c \in Clients : voted[c] \subseteq voted'[c]
    PROVE  /\ Genuine \subseteq Genuine' /\ Complete \subseteq Complete'
           /\ GenuineVote \subseteq GenuineVote'
<1>1. Genuine \subseteq Genuine' BY DEF Genuine, Voted
<1>2. Complete \subseteq Complete' BY <1>1 DEF Complete
<1>3. GenuineVote \subseteq GenuineVote' BY DEF GenuineVote, BlockVote
<1> QED BY <1>1, <1>2, <1>3

LEMMA GenuineSame ==
    ASSUME UNCHANGED voted
    PROVE  Genuine' = Genuine /\ Complete' = Complete /\ GenuineVote' = GenuineVote
BY DEF Genuine, Complete, GenuineVote

(* Sequences over a set are sequences over any larger set. *)
LEMMA SeqGrows ==
    ASSUME NEW S, NEW T, S \subseteq T
    PROVE  Seq(S) \subseteq Seq(T)
OBVIOUS

(* A step that leaves votes, blocks with votes and certificates alone. *)
LEMMA CertFrame ==
    ASSUME CertInv, rb'.req = rb.req,
           UNCHANGED <<votes, relayVotes, blockCalls, mergeQ, bcast, committed, cert>>,
           UNCHANGED <<voted, vote, got>>
    PROVE  VotesGenuine' /\ QueuedComplete' /\ CommittedCertified'
<1>1. Genuine' = Genuine /\ Complete' = Complete /\ GenuineVote' = GenuineVote
  BY GenuineSame
<1>2. VotesGenuine' BY <1>1 DEF CertInv, VotesGenuine
<1>3. QueuedComplete' BY <1>1 DEF CertInv, QueuedComplete
<1>4. CommittedCertified' BY DEF CertInv, CommittedCertified
<1> QED BY <1>2, <1>3, <1>4

LEMMA CertPack ==
    ASSUME CertInv, Pack
    PROVE  VotesGenuine' /\ QueuedComplete' /\ CommittedCertified'
BY CertFrame DEF Pack, PackPush, PackInsert, poolVars, queueVars, clientVars

(* The relay-block thread puts votes of its own pool in the request and    *)
(* hands the request to the peer as it is.                                 *)
LEMMA CertRelay ==
    ASSUME CertInv, NEW d \in BOOLEAN, RelayLoop \/ RelaySend(d)
    PROVE  VotesGenuine' /\ QueuedComplete' /\ CommittedCertified'
<1>1. UNCHANGED <<votes, relayVotes, mergeQ, bcast, committed, cert>> /\ UNCHANGED <<voted, vote, got>>
  BY DEF RelayLoop, RelaySend, RelayBlockPop, RelayBlockEmpty, RelayBlockReturn, SyncPop,
         SyncLocal, RelayBlockSend, RelayBlockSync, poolVars, queueVars, clientVars
<1>2. Genuine' = Genuine /\ Complete' = Complete /\ GenuineVote' = GenuineVote
  BY <1>1, GenuineSame
<1>3. rb \in [pc : {"pop", "wait", "signal"}, tgt : Servers,
              req : Seq(Voted), blk : Blocks \cup {NoBlock}]
  BY DEF CertInv, TypeOK, ServerTypeOK
<1>4. rb.req \in Seq(Genuine) BY DEF CertInv, VotesGenuine
<1>5. /\ rb'.req \in Seq(Genuine)
      /\ blockCalls' = blockCalls \/ \E t, l : blockCalls' = blockCalls \cup {[dst |-> t, live |-> l, items |-> rb.req]}
  <2>1. CASE RelayBlockPop
    <3> DEFINE b == Head(relayBlocks[rb.tgt])
    <3>1. relayBlocks[rb.tgt] \in Seq(Blocks) /\ relayBlocks[rb.tgt] # <<>>
      BY <2>1, <1>3 DEF RelayBlockPop, CertInv, TypeOK, ServerTypeOK
    <3>2. b \in Blocks BY <3>1, QueueType
    <3> HIDE DEF b
    <3>3. [blk |-> b, votes |-> votes[Packer][b]] \in Genuine
      BY <3>2, PackerIsServer DEF CertInv, VotesGenuine
    <3>4. Append(rb.req, [blk |-> b, votes |-> votes[Packer][b]]) \in Seq(Genuine)
      BY <1>4, <3>3, QueueType
    <3>5. rb'.req = Append(rb.req, [blk |-> b, votes |-> votes[Packer][b]])
      BY <2>1, <1>3 DEF RelayBlockPop, b
    <3> QED BY <2>1, <3>4, <3>5 DEF RelayBlockPop
  <2>2. CASE RelayBlockEmpty \/ SyncPop \/ SyncLocal \/ RelayBlockSync(d)
    BY <2>2, <1>3, <1>4 DEF RelayBlockEmpty, SyncPop, SyncLocal, RelayBlockSync
  <2>3. CASE RelayBlockReturn
    <3>1. rb'.req = <<>> /\ blockCalls' = blockCalls BY <2>3, <1>3 DEF RelayBlockReturn
    <3>2. <<>> \in Seq(Genuine) OBVIOUS
    <3> QED BY <3>1, <3>2, Zenon
  <2>4. CASE RelayBlockSend(d)
    BY <2>4, <1>3, <1>4 DEF RelayBlockSend
  <2> QED BY <2>1, <2>2, <2>3, <2>4 DEF RelayLoop, RelaySend
<1>6. \A m \in blockCalls' : m.items \in Seq(Genuine)
  <2>1. \A m \in blockCalls : m.items \in Seq(Genuine) BY DEF CertInv, VotesGenuine
  <2> QED BY <1>4, <1>5, <2>1
<1>7. VotesGenuine' BY <1>1, <1>2, <1>5, <1>6 DEF CertInv, VotesGenuine
<1>8. QueuedComplete' BY <1>1, <1>2 DEF CertInv, QueuedComplete
<1>9. CommittedCertified' BY <1>1 DEF CertInv, CommittedCertified
<1> QED BY <1>7, <1>8, <1>9

(* The stored block has the votes it was relayed with. *)
LEMMA CertHandle ==
    ASSUME CertInv, HandleBlock
    PROVE  VotesGenuine' /\ QueuedComplete' /\ CommittedCertified'
<1>1. PICK m \in blockCalls : RelayBlockHandler(m) /\ UNCHANGED <<clientVars, faults>>
  BY DEF HandleBlock
<1> DEFINE i == Head(m.items)
<1>2. m.dst \in Servers /\ m.items \in Seq(Voted) /\ m.items # <<>> BY BlockCallType DEF CertInv
<1>3. m.items \in Seq(Genuine) BY DEF CertInv, VotesGenuine
<1>4. i \in Genuine /\ Tail(m.items) \in Seq(Genuine) BY <1>2, <1>3, QueueType
<1>5. m \in BlockCall BY DEF CertInv, TypeOK, ServerTypeOK
<1>6. /\ votes' = [votes EXCEPT ![m.dst][i.blk] = i.votes]
      /\ blockCalls' = Served(m)
      /\ UNCHANGED <<relayVotes, rb, mergeQ, bcast, committed, cert, voted, vote, got>>
  BY <1>1 DEF RelayBlockHandler, queueVars, packVars, clientVars
<1> HIDE DEF i
<1>7. Genuine' = Genuine /\ Complete' = Complete /\ GenuineVote' = GenuineVote
  BY <1>6, GenuineSame
<1>8. \A s \in Servers, b \in Blocks : [blk |-> b, votes |-> votes'[s][b]] \in Genuine
  <2> SUFFICES ASSUME NEW s \in Servers, NEW b \in Blocks
               PROVE  [blk |-> b, votes |-> votes'[s][b]] \in Genuine
    OBVIOUS
  <2>1. votes \in [Servers -> [Blocks -> SUBSET Clients]] BY DEF CertInv, TypeOK, ServerTypeOK
  <2>2. i \in Voted BY <1>4 DEF Genuine
  <2>3. CASE s = m.dst /\ b = i.blk
    <3>1. votes'[s][b] = i.votes BY <1>2, <1>6, <2>1, <2>3
    <3>2. i = [blk |-> b, votes |-> i.votes] BY <2>2, <2>3 DEF Voted
    <3> QED BY <1>4, <3>1, <3>2
  <2>4. CASE ~(s = m.dst /\ b = i.blk)
    <3>1. votes'[s][b] = votes[s][b] BY <1>2, <1>6, <2>1, <2>4
    <3> QED BY <3>1 DEF CertInv, VotesGenuine
  <2> QED BY <2>3, <2>4
<1>9. \A n \in Served(m) : n.items \in Seq(Genuine)
  <2>1. [m EXCEPT !.items = Tail(@)].items = Tail(m.items) BY <1>5 DEF BlockCall
  <2>2. \A n \in blockCalls : n.items \in Seq(Genuine) BY DEF CertInv, VotesGenuine
  <2> QED BY <1>4, <2>1, <2>2 DEF Served
<1>10. VotesGenuine' BY <1>6, <1>7, <1>8, <1>9 DEF CertInv, VotesGenuine
<1>11. QueuedComplete' BY <1>6, <1>7 DEF CertInv, QueuedComplete
<1>12. CommittedCertified' BY <1>6 DEF CertInv, CommittedCertified
<1> QED BY <1>10, <1>11, <1>12

(* A signed vote added to a pool: the votes stay genuine, and the block    *)
(* goes to the merge queue only with the votes of all clients.             *)
LEMMA CertInsert ==
    ASSUME CertInv, NEW s \in Servers, NEW b \in Blocks, NEW c \in Clients,
           b \in voted[c], InsertVote(s, b, c)
    PROVE  /\ \A t \in Servers, a \in Blocks : [blk |-> a, votes |-> votes'[t][a]] \in Genuine
           /\ mergeQ' \in [Servers -> Seq(Complete)]
           /\ UNCHANGED <<committed, cert>>
<1> DEFINE v == votes[s][b] \cup {c}
<1>1. /\ votes \in [Servers -> [Blocks -> SUBSET Clients]]
      /\ \A t \in Servers, a \in Blocks : [blk |-> a, votes |-> votes[t][a]] \in Genuine
      /\ mergeQ \in [Servers -> Seq(Complete)]
  BY DEF CertInv, TypeOK, ServerTypeOK, VotesGenuine, QueuedComplete
<1>2. v \in SUBSET Clients BY <1>1
<1>3. [blk |-> b, votes |-> v] \in Genuine
  <2>1. \A e \in votes[s][b] : b \in voted[e] BY <1>1 DEF Genuine
  <2>2. [blk |-> b, votes |-> v] \in Voted BY <1>2 DEF Voted
  <2> QED BY <2>1, <2>2 DEF Genuine
<1>4. is_vote_enough(v) => [blk |-> b, votes |-> v] \in Complete
  BY <1>2, <1>3, EnoughIsAll DEF Complete
<1> HIDE DEF v
<1>5. UNCHANGED <<committed, cert>> BY DEF InsertVote
<1>6. CASE b \in pending[s]
  <2>1. /\ votes' = [votes EXCEPT ![s][b] = v]
        /\ \/ mergeQ' = mergeQ
           \/ is_vote_enough(v) /\ mergeQ' = [mergeQ EXCEPT ![s] = Append(@, [blk |-> b, votes |-> v])]
    BY <1>6 DEF InsertVote, AddVote, v
  <2>2. \A t \in Servers, a \in Blocks :
          votes'[t][a] = IF t = s /\ a = b THEN v ELSE votes[t][a]
    BY <1>1, <2>1
  <2>3. \A t \in Servers, a \in Blocks : [blk |-> a, votes |-> votes'[t][a]] \in Genuine
    BY <1>1, <1>3, <2>2
  <2>4. is_vote_enough(v) => Append(mergeQ[s], [blk |-> b, votes |-> v]) \in Seq(Complete)
    BY <1>1, <1>4, QueueType
  <2>5. mergeQ' \in [Servers -> Seq(Complete)]
    <3>1. CASE mergeQ' = mergeQ BY <1>1, <3>1
    <3>2. CASE is_vote_enough(v) /\ mergeQ' = [mergeQ EXCEPT ![s] = Append(@, [blk |-> b, votes |-> v])]
      BY <1>1, <2>4, <3>2, Zenon
    <3> QED BY <2>1, <3>1, <3>2
  <2> QED BY <1>5, <2>3, <2>5
<1>7. CASE b \notin pending[s] BY <1>1, <1>5, <1>7 DEF InsertVote
<1> QED BY <1>6, <1>7

(* The merged block is certified, here and in the broadcast queues. *)
LEMMA CertMerge ==
    ASSUME CertInv, NEW s \in Servers, Merge(s)
    PROVE  VotesGenuine' /\ QueuedComplete' /\ CommittedCertified'
<1> DEFINE i == Head(mergeQ[s])
<1>1. /\ committed' = [committed EXCEPT ![s] = @ \cup {i.blk}]
      /\ cert' = [cert EXCEPT ![s][i.blk] = i.votes]
      /\ bcast' = [bcast EXCEPT ![s] =
             [t \in Servers |-> IF t # s THEN Append(@[t], i) ELSE @[t]]]
      /\ mergeQ' = [mergeQ EXCEPT ![s] = Tail(@)]
      /\ UNCHANGED <<votes, relayVotes, rb, blockCalls, voted, vote, got>>
  BY DEF Merge, MergeVotes, packVars, clientVars
<1>2. mergeQ \in [Servers -> Seq(Complete)] /\ bcast \in [Servers -> [Servers -> Seq(Complete)]]
  BY DEF CertInv, QueuedComplete
<1>3. mergeQ[s] \in Seq(Complete) /\ mergeQ[s] # <<>> BY <1>2 DEF Merge, MergeVotes
<1>4. i \in Complete /\ Tail(mergeQ[s]) \in Seq(Complete) BY <1>3, QueueType
<1>5. i.blk \in Blocks /\ i.votes = Clients /\ \A c \in Clients : i.blk \in voted[c]
  BY <1>4 DEF Complete, Genuine, Voted
<1> HIDE DEF i
<1>6. Genuine' = Genuine /\ Complete' = Complete /\ GenuineVote' = GenuineVote
  BY <1>1, GenuineSame
<1>7. VotesGenuine' BY <1>1, <1>6 DEF CertInv, VotesGenuine
<1>8. QueuedComplete'
  <2>1. mergeQ' \in [Servers -> Seq(Complete)] BY <1>1, <1>2, <1>4
  <2>2. \A t \in Servers : Append(bcast[s][t], i) \in Seq(Complete) BY <1>2, <1>4, QueueType
  <2>3. bcast' \in [Servers -> [Servers -> Seq(Complete)]] BY <1>1, <1>2, <2>2
  <2> QED BY <1>6, <2>1, <2>3 DEF QueuedComplete
<1>9. CommittedCertified'
  <2> SUFFICES ASSUME NEW t \in Servers, NEW b \in committed'[t]
               PROVE  cert'[t][b] = Clients /\ \A c \in Clients : b \in voted[c]
    BY <1>1 DEF CommittedCertified
  <2>1. committed \in [Servers -> SUBSET Blocks] /\ cert \in [Servers -> [Blocks -> SUBSET Clients]]
    BY DEF CertInv, TypeOK, ServerTypeOK
  <2>2. CASE t = s /\ b = i.blk
    <3>1. cert'[t][b] = i.votes BY <1>1, <1>5, <2>1, <2>2
    <3> QED BY <1>5, <2>2, <3>1
  <2>3. CASE ~(t = s /\ b = i.blk)
    <3>1. b \in committed[t] BY <1>1, <2>1, <2>3
    <3>2. cert'[t][b] = cert[t][b] BY <1>1, <1>5, <2>1, <2>3, <3>1
    <3> QED BY <3>1, <3>2 DEF CertInv, CommittedCertified
  <2> QED BY <2>2, <2>3
<1> QED BY <1>7, <1>8, <1>9

(* A relayed vote was signed by its voter; an adopted block is certified. *)
LEMMA CertPeer ==
    ASSUME CertInv, NEW s \in Servers, NEW t \in Servers, PeerCall(s, t)
    PROVE  VotesGenuine' /\ QueuedComplete' /\ CommittedCertified'
<1>1. UNCHANGED <<rb, blockCalls, voted, vote, got>>
  BY DEF PeerCall, RelayVote, SPBcastCommit, packVars, clientVars
<1>2. Genuine' = Genuine /\ Complete' = Complete /\ GenuineVote' = GenuineVote
  BY <1>1, GenuineSame
<1>3. CASE RelayVote(s, t)
  <2> DEFINE i == Head(relayVotes[s][t])
  <2>1. relayVotes \in [Servers -> [Servers -> Seq(GenuineVote)]] BY DEF CertInv, VotesGenuine
  <2>2. relayVotes[s][t] \in Seq(GenuineVote) /\ relayVotes[s][t] # <<>>
    BY <1>3, <2>1 DEF RelayVote
  <2>3. i \in GenuineVote /\ Tail(relayVotes[s][t]) \in Seq(GenuineVote) BY <2>2, QueueType
  <2>4. i.blk \in Blocks /\ i.voter \in Clients /\ i.blk \in voted[i.voter]
    BY <2>3 DEF GenuineVote, BlockVote
  <2>5. /\ InsertVote(t, i.blk, i.voter)
        /\ relayVotes' = [relayVotes EXCEPT ![s][t] = Tail(@)]
        /\ bcast' = bcast
    BY <1>3 DEF RelayVote
  <2> HIDE DEF i
  <2>6. /\ \A r \in Servers, a \in Blocks : [blk |-> a, votes |-> votes'[r][a]] \in Genuine
        /\ mergeQ' \in [Servers -> Seq(Complete)]
        /\ UNCHANGED <<committed, cert>>
    BY <2>4, <2>5, CertInsert
  <2>7. relayVotes' \in [Servers -> [Servers -> Seq(GenuineVote)]] BY <2>1, <2>3, <2>5
  <2>8. VotesGenuine' BY <1>1, <1>2, <2>6, <2>7 DEF CertInv, VotesGenuine
  <2>9. QueuedComplete' BY <1>2, <2>5, <2>6 DEF CertInv, QueuedComplete
  <2>10. CommittedCertified' BY <1>1, <2>6 DEF CertInv, CommittedCertified
  <2> QED BY <2>8, <2>9, <2>10
<1>4. CASE SPBcastCommit(s, t)
  <2> DEFINE i == Head(bcast[s][t])
  <2>1. bcast \in [Servers -> [Servers -> Seq(Complete)]] BY DEF CertInv, QueuedComplete
  <2>2. bcast[s][t] \in Seq(Complete) /\ bcast[s][t] # <<>> BY <1>4, <2>1 DEF SPBcastCommit
  <2>3. i \in Complete /\ Tail(bcast[s][t]) \in Seq(Complete) BY <2>2, QueueType
  <2>4. i.blk \in Blocks /\ i.votes = Clients /\ \A c \in Clients : i.blk \in voted[c]
    BY <2>3 DEF Complete, Genuine, Voted
  <2>5. /\ \/ UNCHANGED <<committed, cert>>
           \/ /\ committed' = [committed EXCEPT ![t] = @ \cup {i.blk}]
              /\ cert' = [cert EXCEPT ![t][i.blk] = i.votes]
        /\ bcast' = [bcast EXCEPT ![s][t] = Tail(@)]
        /\ UNCHANGED <<votes, mergeQ, relayVotes>>
    BY <1>4 DEF SPBcastCommit
  <2> HIDE DEF i
  <2>6. VotesGenuine' BY <1>1, <1>2, <2>5 DEF CertInv, VotesGenuine
  <2>7. QueuedComplete'
    <3>1. bcast' \in [Servers -> [Servers -> Seq(Complete)]] BY <2>1, <2>3, <2>5
    <3> QED BY <1>2, <2>5, <3>1 DEF CertInv, QueuedComplete
  <2>8. CommittedCertified'
    <3> SUFFICES ASSUME NEW r \in Servers, NEW b \in committed'[r]
                 PROVE  cert'[r][b] = Clients /\ \A c \in Clients : b \in voted[c]
      BY <1>1 DEF CommittedCertified
    <3>1. /\ committed \in [Servers -> SUBSET Blocks]
          /\ cert \in [Servers -> [Blocks -> SUBSET Clients]]
      BY DEF CertInv, TypeOK, ServerTypeOK
    <3>2. CASE UNCHANGED <<committed, cert>> BY <3>2 DEF CertInv, CommittedCertified
    <3>3. CASE /\ committed' = [committed EXCEPT ![t] = @ \cup {i.blk}]
               /\ cert' = [cert EXCEPT ![t][i.blk] = i.votes]
      <4>1. CASE r = t /\ b = i.blk
        <5>1. cert'[r][b] = i.votes BY <2>4, <3>1, <3>3, <4>1
        <5> QED BY <2>4, <4>1, <5>1
      <4>2. CASE ~(r = t /\ b = i.blk)
        <5>1. b \in committed[r] BY <3>1, <3>3, <4>2
        <5>2. cert'[r][b] = cert[r][b] BY <2>4, <3>1, <3>3, <4>2, <5>1
        <5> QED BY <5>1, <5>2 DEF CertInv, CommittedCertified
      <4> QED BY <4>1, <4>2
    <3> QED BY <2>5, <3>2, <3>3
  <2> QED BY <2>6, <2>7, <2>8
<1> QED BY <1>3, <1>4 DEF PeerCall

(* A failing call only takes votes and blocks away. *)
LEMMA CertFails ==
    ASSUME CertInv, CallFails
    PROVE  VotesGenuine' /\ QueuedComplete' /\ CommittedCertified'
<1>1. UNCHANGED <<votes, rb, mergeQ, committed, cert, voted, vote, got>>
  BY DEF CallFails, Abandon, RelayVoteFails, SPBcastCommitFails, poolVars, packVars, clientVars
<1>2. Genuine' = Genuine /\ Complete' = Complete /\ GenuineVote' = GenuineVote
  BY <1>1, GenuineSame
<1>3. \A m \in blockCalls' : m.items \in Seq(Genuine)
  <2>1. \A m \in blockCalls : m.items \in Seq(Genuine) /\ m \in BlockCall
    BY DEF CertInv, VotesGenuine, TypeOK, ServerTypeOK
  <2>2. \A m \in blockCalls : [m EXCEPT !.live = FALSE].items = m.items BY <2>1 DEF BlockCall
  <2>3. \/ blockCalls' = blockCalls
        \/ \E m \in blockCalls : blockCalls' = (blockCalls \ {m}) \cup {[m EXCEPT !.live = FALSE]}
    BY DEF CallFails, Abandon, RelayVoteFails, SPBcastCommitFails
  <2> QED BY <2>1, <2>2, <2>3
<1>4. relayVotes' \in [Servers -> [Servers -> Seq(GenuineVote)]]
  <2>1. relayVotes \in [Servers -> [Servers -> Seq(GenuineVote)]] BY DEF CertInv, VotesGenuine
  <2>2. \/ relayVotes' = relayVotes
        \/ \E s, t \in Servers : \E n \in 1 .. Len(relayVotes[s][t]) :
              relayVotes' = [relayVotes EXCEPT ![s][t] = SubSeq(@, n + 1, Len(@))]
    BY DEF CallFails, Abandon, RelayVoteFails, SPBcastCommitFails, queueVars
  <2>3. ASSUME NEW s \in Servers, NEW t \in Servers, NEW n \in 1 .. Len(relayVotes[s][t]),
               relayVotes' = [relayVotes EXCEPT ![s][t] = SubSeq(@, n + 1, Len(@))]
        PROVE  relayVotes' \in [Servers -> [Servers -> Seq(GenuineVote)]]
    <3>1. SubSeq(relayVotes[s][t], n + 1, Len(relayVotes[s][t])) \in Seq(GenuineVote) BY <2>1, RestType
    <3> QED BY <2>1, <2>3, <3>1, Zenon
  <2> QED BY <2>1, <2>2, <2>3
<1>5. bcast' \in [Servers -> [Servers -> Seq(Complete)]]
  <2>1. bcast \in [Servers -> [Servers -> Seq(Complete)]] BY DEF CertInv, QueuedComplete
  <2>2. \/ bcast' = bcast
        \/ \E s, t \in Servers : \E n \in 1 .. Len(bcast[s][t]) :
              bcast' = [bcast EXCEPT ![s][t] = SubSeq(@, n + 1, Len(@))]
    BY DEF CallFails, Abandon, RelayVoteFails, SPBcastCommitFails, queueVars
  <2>3. ASSUME NEW s \in Servers, NEW t \in Servers, NEW n \in 1 .. Len(bcast[s][t]),
               bcast' = [bcast EXCEPT ![s][t] = SubSeq(@, n + 1, Len(@))]
        PROVE  bcast' \in [Servers -> [Servers -> Seq(Complete)]]
    <3>1. SubSeq(bcast[s][t], n + 1, Len(bcast[s][t])) \in Seq(Complete) BY <2>1, RestType
    <3> QED BY <2>1, <2>3, <3>1, Zenon
  <2> QED BY <2>1, <2>2, <2>3
<1>6. VotesGenuine' BY <1>1, <1>2, <1>3, <1>4 DEF CertInv, VotesGenuine
<1>7. QueuedComplete' BY <1>1, <1>2, <1>5 DEF CertInv, QueuedComplete
<1>8. CommittedCertified' BY <1>1 DEF CertInv, CommittedCertified
<1> QED BY <1>6, <1>7, <1>8

(* The pull thread adds blocks behind the one being voted on. *)
LEMMA HeadStays ==
    ASSUME NEW S, NEW q \in Seq(S), NEW r \in Seq(S), q # <<>>
    PROVE  Head(q \o r) = Head(q)
<1>1. Len(q) \in Nat /\ Len(q) # 0 OBVIOUS
<1>2. q \o r \in Seq(S) /\ (q \o r)[1] = q[1] BY <1>1
<1>3. Len(q \o r) = Len(q) + Len(r) /\ Len(r) \in Nat OBVIOUS
<1>4. Head(q) = q[1] BY <1>1
<1> QED BY <1>1, <1>2, <1>3, <1>4

LEMMA PullKeepsHead ==
    ASSUME TypeOK, NEW c \in Clients, NEW d \in BOOLEAN, PullSteps(c, d) \/ PullFails(c)
    PROVE  \A e \in Clients : got[e] # <<>> => Head(got'[e]) = Head(got[e])
<1>1. got \in [Clients -> Seq(Blocks)] BY DEF TypeOK, ClientTypeOK
<1>2. got' = got \/ \E r \in Seq(Blocks) : got' = [got EXCEPT ![c] = @ \o r]
  <2>1. ASSUME NEW b \in Blocks, NEW a \in BOOLEAN, CallVisits(c, b, a, d)
        PROVE  got' = got \/ \E r \in Seq(Blocks) : got' = [got EXCEPT ![c] = @ \o r]
    <3> DEFINE r == IF a THEN Append(pull[c].resp, b) ELSE pull[c].resp
    <3>1. pull[c].resp \in Seq(Blocks) BY DEF TypeOK, ClientTypeOK
    <3>2. r \in Seq(Blocks) BY <3>1, QueueType
    <3>3. got' = got \/ got' = [got EXCEPT ![c] = @ \o r] BY <2>1 DEF CallVisits, CallReturns
    <3> QED BY <3>2, <3>3
  <2>2. CASE PullSnapshot(c) \/ PullFails(c) BY <2>2 DEF PullSnapshot, PullFails, PullStarts
  <2>3. ASSUME NEW b \in Blocks, PullVisit(c, b, d)
        PROVE  got' = got \/ \E r \in Seq(Blocks) : got' = [got EXCEPT ![c] = @ \o r]
    <3>1. PullSends(PullStub(c), b, c) \in BOOLEAN BY DEF PullSends
    <3> QED BY <2>1, <2>3, <3>1 DEF PullVisit
  <2>4. ASSUME NEW b \in Blocks, GetVisit(c, b, d)
        PROVE  got' = got \/ \E r \in Seq(Blocks) : got' = [got EXCEPT ![c] = @ \o r]
    <3>1. (b \in pending[PullStub(c)]) \in BOOLEAN OBVIOUS
    <3> QED BY <2>1, <2>4, <3>1 DEF GetVisit
  <2> QED BY <2>2, <2>3, <2>4 DEF PullSteps
<1>3. CASE got' = got BY <1>3
<1>4. ASSUME NEW r \in Seq(Blocks), got' = [got EXCEPT ![c] = @ \o r]
      PROVE  \A e \in Clients : got[e] # <<>> => Head(got'[e]) = Head(got[e])
  <2> SUFFICES ASSUME NEW e \in Clients, got[e] # <<>> PROVE Head(got'[e]) = Head(got[e])
    OBVIOUS
  <2>1. CASE e = c
    <3>1. got'[e] = got[e] \o r BY <1>1, <1>4, <2>1
    <3>2. got[e] \in Seq(Blocks) BY <1>1
    <3> QED BY <3>1, <3>2, HeadStays
  <2>2. CASE e # c BY <1>1, <1>4, <2>2
  <2> QED BY <2>1, <2>2
<1> QED BY <1>2, <1>3, <1>4

(* The pull thread leaves votes and blocks with votes alone. *)
LEMMA CertPull ==
    ASSUME CertInv, NEW c \in Clients, NEW d \in BOOLEAN, PullSteps(c, d) \/ PullFails(c)
    PROVE  VotesGenuine' /\ QueuedComplete' /\ CommittedCertified'
<1>1. /\ UNCHANGED <<votes, relayVotes, blockCalls, mergeQ, bcast, committed, cert>>
      /\ UNCHANGED <<rb, voted, vote>>
  BY DEF PullSteps, PullFails, PullSnapshot, PullStarts, PullVisit, GetVisit, CallVisits,
         serverVars, poolVars, queueVars, packVars
<1>2. Genuine' = Genuine /\ Complete' = Complete /\ GenuineVote' = GenuineVote
  BY <1>1, GenuineSame
<1>3. \A e \in Clients : got[e] # <<>> => Head(got'[e]) = Head(got[e])
  BY PullKeepsHead DEF CertInv
<1>4. \A e \in Clients : vote'[e].inserting => Head(got'[e]) \in voted'[e]
  BY <1>1, <1>3 DEF CertInv, VotesGenuine, TypeOK, ClientTypeOK
<1>5. VotesGenuine' BY <1>1, <1>2, <1>4 DEF CertInv, VotesGenuine
<1>6. QueuedComplete' BY <1>1, <1>2 DEF CertInv, QueuedComplete
<1>7. CommittedCertified' BY <1>1 DEF CertInv, CommittedCertified
<1> QED BY <1>5, <1>6, <1>7

(* Signing makes the vote genuine before the handler queues or inserts it. *)
LEMMA CertVote ==
    ASSUME CertInv, NEW c \in Clients, VoteSteps(c) \/ VoteFails(c)
    PROVE  VotesGenuine' /\ QueuedComplete' /\ CommittedCertified'
<1>1. /\ got \in [Clients -> Seq(Blocks)] /\ voted \in [Clients -> SUBSET Blocks]
      /\ vote \in [Clients -> [stub : {0, 1}, inserting : BOOLEAN]]
      /\ \A e \in Clients : vote[e].inserting => got[e] # <<>>
  BY DEF CertInv, TypeOK, ClientTypeOK
<1>2. got[c] # <<>>
  BY <1>1 DEF VoteSteps, VoteFails, VoteBlocksRelay, VoteBlocksInsert, VoteBegins
<1> DEFINE b == Head(got[c])
<1>3. b \in Blocks BY <1>1, <1>2, QueueType
<1>4. VoteStub(c) \in Servers BY <1>1, StubIsServer DEF VoteStub
<1>5. voted' = voted \/ voted' = [voted EXCEPT ![c] = @ \cup {b}]
  BY DEF VoteSteps, VoteFails, VoteBlocksRelay, VoteBlocksInsert, Signs
<1> HIDE DEF b
<1>6. \A e \in Clients : voted[e] \subseteq voted'[e] BY <1>1, <1>5
<1>7. Genuine \subseteq Genuine' /\ Complete \subseteq Complete' /\ GenuineVote \subseteq GenuineVote'
  BY <1>6, GenuineGrows DEF CertInv
<1>8. /\ Seq(Genuine) \subseteq Seq(Genuine') /\ Seq(Complete) \subseteq Seq(Complete')
      /\ Seq(GenuineVote) \subseteq Seq(GenuineVote')
  BY <1>7, SeqGrows
<1>9. UNCHANGED <<rb, blockCalls, bcast>>
  BY DEF VoteSteps, VoteFails, VoteBlocksRelay, VoteBlocksInsert, serverVars, queueVars, packVars
<1>10. rb'.req \in Seq(Genuine') /\ \A m \in blockCalls' : m.items \in Seq(Genuine')
  BY <1>8, <1>9 DEF CertInv, VotesGenuine
<1>11. bcast' \in [Servers -> [Servers -> Seq(Complete')]]
  BY <1>8, <1>9 DEF CertInv, QueuedComplete
<1>12. \A e \in Clients : vote'[e].inserting => Head(got'[e]) \in voted'[e]
  <2> SUFFICES ASSUME NEW e \in Clients, vote'[e].inserting PROVE Head(got'[e]) \in voted'[e]
    OBVIOUS
  <2>1. CASE e # c
    <3>1. vote'[e] = vote[e] /\ got'[e] = got[e]
      BY <1>1, <2>1 DEF VoteSteps, VoteFails, VoteBlocksRelay, VoteBlocksInsert, VoteEnds, VoteGoesOn
    <3> QED BY <1>6, <3>1 DEF CertInv, VotesGenuine
  <2>2. CASE e = c
    <3>1. VoteEnds(c) => ~vote'[c].inserting BY <1>1 DEF VoteEnds
    <3>2. VoteBlocksRelay(c) /\ VoteGoesOn(c)
      BY <2>2, <3>1 DEF VoteSteps, VoteFails, VoteBlocksRelay, VoteBlocksInsert
    <3>3. got' = got /\ voted' = [voted EXCEPT ![c] = @ \cup {b}]
      BY <3>2 DEF VoteBlocksRelay, VoteGoesOn, Signs, b
    <3> QED BY <1>1, <2>2, <3>3 DEF b
  <2> QED BY <2>1, <2>2
<1>13. CASE VoteBlocksRelay(c)
  <2>1. /\ VoteRelay(VoteStub(c), b, c) /\ Signs(c)
        /\ UNCHANGED <<votes, mergeQ, committed, cert>>
    BY <1>13 DEF VoteBlocksRelay, poolVars, b
  <2>2. b \in voted'[c] BY <1>1, <2>1 DEF Signs, b
  <2>3. [blk |-> b, voter |-> c] \in GenuineVote' BY <1>3, <2>2 DEF GenuineVote, BlockVote
  <2>4. relayVotes \in [Servers -> [Servers -> Seq(GenuineVote')]]
    BY <1>8 DEF CertInv, VotesGenuine
  <2>5. \A t \in Servers : Append(relayVotes[VoteStub(c)][t], [blk |-> b, voter |-> c]) \in Seq(GenuineVote')
    BY <1>4, <2>3, <2>4, QueueType
  <2>6. relayVotes' \in [Servers -> [Servers -> Seq(GenuineVote')]]
    BY <1>4, <2>1, <2>4, <2>5 DEF VoteRelay
  <2>7. \A s \in Servers, a \in Blocks : [blk |-> a, votes |-> votes'[s][a]] \in Genuine'
    BY <1>7, <2>1 DEF CertInv, VotesGenuine
  <2>8. VotesGenuine' BY <1>10, <1>12, <2>6, <2>7 DEF VotesGenuine
  <2>9. QueuedComplete' BY <1>8, <1>11, <2>1 DEF CertInv, QueuedComplete
  <2>10. CommittedCertified' BY <1>6, <2>1 DEF CertInv, CommittedCertified
  <2> QED BY <2>8, <2>9, <2>10
<1>14. CASE VoteBlocksInsert(c)
  <2>1. /\ InsertVote(VoteStub(c), b, c) /\ b \in voted[c]
        /\ UNCHANGED <<voted, relayVotes>>
    BY <1>14 DEF VoteBlocksInsert, queueVars, CertInv, VotesGenuine, b
  <2>2. /\ \A s \in Servers, a \in Blocks : [blk |-> a, votes |-> votes'[s][a]] \in Genuine
        /\ mergeQ' \in [Servers -> Seq(Complete)]
        /\ UNCHANGED <<committed, cert>>
    BY <1>3, <1>4, <2>1, CertInsert
  <2>3. Genuine' = Genuine /\ Complete' = Complete /\ GenuineVote' = GenuineVote
    BY <2>1, GenuineSame
  <2>4. VotesGenuine' BY <1>10, <1>12, <2>1, <2>2, <2>3 DEF CertInv, VotesGenuine
  <2>5. QueuedComplete' BY <1>11, <2>2, <2>3 DEF QueuedComplete
  <2>6. CommittedCertified' BY <2>1, <2>2 DEF CertInv, CommittedCertified
  <2> QED BY <2>4, <2>5, <2>6
<1>15. CASE VoteFails(c)
  <2>1. UNCHANGED <<votes, relayVotes, mergeQ, committed, cert>>
    BY <1>15 DEF VoteFails, serverVars, poolVars, queueVars
  <2>2. \A s \in Servers, a \in Blocks : [blk |-> a, votes |-> votes'[s][a]] \in Genuine'
    BY <1>7, <2>1 DEF CertInv, VotesGenuine
  <2>3. relayVotes' \in [Servers -> [Servers -> Seq(GenuineVote')]]
    BY <1>8, <2>1 DEF CertInv, VotesGenuine
  <2>4. VotesGenuine' BY <1>10, <1>12, <2>2, <2>3 DEF VotesGenuine
  <2>5. QueuedComplete' BY <1>8, <1>11, <2>1 DEF CertInv, QueuedComplete
  <2>6. CommittedCertified' BY <1>6, <2>1 DEF CertInv, CommittedCertified
  <2> QED BY <2>4, <2>5, <2>6
<1> QED BY <1>13, <1>14, <1>15 DEF VoteSteps

(* The initial state has no votes at all. *)
LEMMA InitCert == Init => CertInv
<1> SUFFICES ASSUME Init PROVE CertInv OBVIOUS
<1>1. TypeOK BY InitType
<1>2. <<>> \in Seq(Genuine) /\ <<>> \in Seq(Complete) /\ <<>> \in Seq(GenuineVote) OBVIOUS
<1>3. \A s \in Servers, b \in Blocks : [blk |-> b, votes |-> votes[s][b]] \in Genuine
  <2>1. \A s \in Servers, b \in Blocks : votes[s][b] = {} BY DEF Init, ServerInit
  <2> QED BY <2>1 DEF Genuine, Voted
<1>4. VotesGenuine BY <1>2, <1>3 DEF Init, ServerInit, ClientInit, VotesGenuine
<1>5. QueuedComplete BY <1>2 DEF Init, ServerInit, QueuedComplete
<1>6. CommittedCertified BY DEF Init, ServerInit, CommittedCertified
<1> QED BY <1>1, <1>4, <1>5, <1>6 DEF CertInv

(* Every step keeps the inductive invariant. *)
LEMMA NextCert == CertInv /\ [Next]_vars => CertInv'
<1> SUFFICES ASSUME CertInv, [Next]_vars PROVE CertInv' OBVIOUS
<1>1. TypeOK' BY NextType DEF CertInv
<1>2. CASE Next
  <2>1. VotesGenuine' /\ QueuedComplete' /\ CommittedCertified'
    BY <1>2, CertPack, CertRelay, CertHandle, CertMerge, CertPeer, CertFails, CertPull, CertVote
    DEF Next
  <2> QED BY <1>1, <2>1 DEF CertInv
<1>3. CASE UNCHANGED vars
  <2>1. VotesGenuine' /\ QueuedComplete' /\ CommittedCertified'
    BY <1>3, CertFrame DEF vars, serverVars, poolVars, queueVars, packVars, clientVars
  <2> QED BY <1>1, <2>1 DEF CertInv
<1> QED BY <1>2, <1>3

(* Certificates stay genuine: whatever copy of a block or vote is          *)
(* looked at - in a pool, a queue, a relayed or a broadcast block (RelayVote,*)
(* RelayBlock, SPBcastCommit) - its votes were cast by their clients, and  *)
(* what is queued for broadcast or committed has all of them.              *)
THEOREM CertInvariant == Spec => []CertInv
BY InitCert, NextCert, PTL DEF Spec

(* Agreement of all clients: a block is in committed_blks of any server    *)
(* (merge_votes, SPBcastCommit) only with the votes of all clients, and    *)
(* each client signed it, whatever calls fail and however votes, relayed   *)
(* blocks and commit broadcasts interleave.                                *)
THEOREM CommittedAreCertified == Spec => []CommittedCertified
<1>1. CertInv => CommittedCertified BY DEF CertInv
<1> QED BY <1>1, InitCert, NextCert, PTL DEF Spec

-----------------------------------------------------------------------------
(* The refinement of BlockCommit *)

(* The blocks that are packed, and objects of packed blocks. *)
PackedBlocks == {b \in Blocks : Packed(b)}
PackedVoted  == {i \in Voted : i.blk \in PackedBlocks}

(* Every block in a pool, a queue, a request or a client is one that the   *)
(* pack thread has begun to hand out.                                      *)
ServerKnown ==
    /\ \A s \in Servers : pending[s] \subseteq PackedBlocks
    /\ \A t \in Servers : relayBlocks[t] \in Seq(PackedBlocks)
    /\ rb.req \in Seq(PackedVoted)
    /\ \A m \in blockCalls : m.items \in Seq(PackedVoted)

ClientKnown ==
    \A c \in Clients :
        /\ hdrs[c] \subseteq PackedBlocks /\ pull[c].todo \subseteq PackedBlocks
        /\ pull[c].resp \in Seq(PackedBlocks) /\ got[c] \in Seq(PackedBlocks)

(* Votes reach pools, and blocks merge queues, only at a BPS of the block: *)
(* VoteBlocks relays a vote to BPS only, and goes on only at a BPS.        *)
VotesFor(t) == {v \in BlockVote : t \in get_server_id(v.blk)}
MergedBy(s) == {i \in Voted : s \in get_server_id(i.blk)}

VotesAtBPS ==
    /\ \A s, t \in Servers : relayVotes[s][t] \in Seq(VotesFor(t))
    /\ \A s \in Servers : mergeQ[s] \in Seq(MergedBy(s))
    /\ \A c \in Clients : vote[c].inserting => VoteStub(c) \in get_server_id(Head(got[c]))

(* A commit is broadcast by a server that has committed the block. *)
CommittedBy(s) == {i \in Voted : i.blk \in committed[s]}
BcastCommitted == \A s, t \in Servers : bcast[s][t] \in Seq(CommittedBy(s))

(* The inductive invariant of the refinement. *)
CommitInv == CertInv /\ ServerKnown /\ ClientKnown /\ VotesAtBPS /\ BcastCommitted

-----------------------------------------------------------------------------
(* What is packed stays packed; the pack thread packs in the order of ids. *)

(* The pack thread at its next block. *)
LEMMA PackedSame ==
    ASSUME UNCHANGED pack
    PROVE  PackedBlocks' = PackedBlocks /\ PackedVoted' = PackedVoted
BY DEF PackedBlocks, PackedVoted, Packed

LEMMA PackedStep ==
    ASSUME TypeOK, Pack
    PROVE  /\ pack.blk \in Blocks
           /\ PackedBlocks' = PackedBlocks \/ PackedBlocks' = PackedBlocks \cup {pack.blk}
           /\ pack.blk \in PackedBlocks'
           /\ \A a \in Blocks : a < pack.blk => a \in PackedBlocks
           /\ \A a \in PackedBlocks : a <= pack.blk
<1>1. pack \in [blk : FirstBlock .. (FirstBlock + MaxBlocks), tgt : Servers]
  BY DEF TypeOK, ServerTypeOK
<1>2. pack.blk \in Blocks /\ pack.blk \in Nat /\ pack.tgt \in Nat /\ Blocks \subseteq Nat
  BY <1>1, BlockIds, PackerIsServer DEF Pack, PackPush, PackInsert
<1>3. pack.tgt >= 1 /\ Packer >= 1 /\ Packer \in Nat BY <1>1, PackerIsServer DEF Servers
<1>4. \/ pack'.blk = pack.blk /\ pack'.tgt = pack.tgt + 1
      \/ pack'.blk = pack.blk + 1 /\ pack'.tgt = 1
  BY <1>1 DEF Pack, PackPush, PackInsert
<1>5. \A a \in Blocks : Packed(a)' <=> Packed(a) \/ a = pack.blk
  BY <1>2, <1>3, <1>4 DEF Packed
<1>6. \A a \in Blocks : a < pack.blk => Packed(a) BY <1>2 DEF Packed
<1>7. \A a \in Blocks : Packed(a) => a <= pack.blk BY <1>2 DEF Packed
<1> QED BY <1>2, <1>5, <1>6, <1>7 DEF PackedBlocks

LEMMA PackedGrows ==
    ASSUME TypeOK, Pack \/ UNCHANGED pack
    PROVE  PackedBlocks \subseteq PackedBlocks' /\ PackedVoted \subseteq PackedVoted'
<1>1. PackedBlocks \subseteq PackedBlocks' BY PackedStep, PackedSame
<1> QED BY <1>1 DEF PackedVoted

-----------------------------------------------------------------------------
(* The parts that a step leaves alone *)

LEMMA ServerKnownFrame ==
    ASSUME ServerKnown, UNCHANGED <<pending, relayBlocks, blockCalls, pack>>, rb'.req = rb.req
    PROVE  ServerKnown'
BY PackedSame DEF ServerKnown

LEMMA ClientKnownFrame ==
    ASSUME TypeOK, ClientKnown, Pack \/ UNCHANGED pack, UNCHANGED <<hdrs, pull, got>>
    PROVE  ClientKnown'
<1>1. PackedBlocks \subseteq PackedBlocks' BY PackedGrows
<1>2. Seq(PackedBlocks) \subseteq Seq(PackedBlocks') BY <1>1, SeqGrows
<1> QED BY <1>1, <1>2 DEF ClientKnown

LEMMA VotesAtBPSFrame ==
    ASSUME VotesAtBPS, UNCHANGED <<relayVotes, mergeQ, vote, got>>
    PROVE  VotesAtBPS'
BY DEF VotesAtBPS, VotesFor, MergedBy, VoteStub

LEMMA BcastFrame ==
    ASSUME BcastCommitted, UNCHANGED <<bcast, committed>>
    PROVE  BcastCommitted'
BY DEF BcastCommitted, CommittedBy

-----------------------------------------------------------------------------
(* Every step keeps the invariant *)

(* The pack thread hands out the block it packs. *)
LEMMA CommitPack ==
    ASSUME CommitInv, Pack
    PROVE  ServerKnown' /\ ClientKnown' /\ VotesAtBPS' /\ BcastCommitted'
<1>1. TypeOK BY DEF CommitInv, CertInv
<1>2. UNCHANGED <<relayVotes, mergeQ, bcast, committed, rb, blockCalls, hdrs, pull, got, vote>>
  BY DEF Pack, PackPush, PackInsert, poolVars, queueVars, clientVars
<1>3. pack.blk \in PackedBlocks' BY <1>1, PackedStep
<1>4. PackedBlocks \subseteq PackedBlocks' /\ PackedVoted \subseteq PackedVoted'
  BY <1>1, PackedGrows
<1>5. Seq(PackedBlocks) \subseteq Seq(PackedBlocks') /\ Seq(PackedVoted) \subseteq Seq(PackedVoted')
  BY <1>4, SeqGrows
<1>6. \A s \in Servers : pending'[s] \subseteq PackedBlocks'
  <2>1. pending \in [Servers -> SUBSET Blocks] BY <1>1 DEF TypeOK, ServerTypeOK
  <2>2. \A s \in Servers : pending[s] \subseteq PackedBlocks' BY <1>4 DEF CommitInv, ServerKnown
  <2>3. pending' = pending \/ pending' = [pending EXCEPT ![Packer] = @ \cup {pack.blk}]
    BY DEF Pack, PackPush, PackInsert, poolVars
  <2> QED BY <1>3, <2>1, <2>2, <2>3
<1>7. \A t \in Servers : relayBlocks'[t] \in Seq(PackedBlocks')
  <2>1. relayBlocks \in [Servers -> Seq(Blocks)] BY <1>1 DEF TypeOK, ServerTypeOK
  <2>2. \A t \in Servers : relayBlocks[t] \in Seq(PackedBlocks')
    BY <1>5 DEF CommitInv, ServerKnown
  <2>3. \A t \in Servers : Append(relayBlocks[t], pack.blk) \in Seq(PackedBlocks')
    BY <1>3, <2>2, QueueType
  <2>4. \/ relayBlocks' = relayBlocks
        \/ relayBlocks' = [relayBlocks EXCEPT ![pack.tgt] = Append(@, pack.blk)]
    BY DEF Pack, PackPush, PackInsert
  <2> QED BY <2>1, <2>2, <2>3, <2>4
<1>8. ServerKnown' BY <1>2, <1>5, <1>6, <1>7 DEF CommitInv, ServerKnown
<1>9. ClientKnown' BY <1>1, <1>2, ClientKnownFrame DEF CommitInv
<1>10. VotesAtBPS' /\ BcastCommitted' BY <1>2, VotesAtBPSFrame, BcastFrame DEF CommitInv
<1> QED BY <1>8, <1>9, <1>10

(* The relay-block thread moves blocks from its queues to requests. *)
LEMMA CommitRelay ==
    ASSUME CommitInv, NEW d \in BOOLEAN, RelayLoop \/ RelaySend(d)
    PROVE  ServerKnown' /\ ClientKnown' /\ VotesAtBPS' /\ BcastCommitted'
<1>1. TypeOK BY DEF CommitInv, CertInv
<1>2. UNCHANGED <<pending, relayVotes, mergeQ, bcast, committed, pack, hdrs, pull, got, vote>>
  BY DEF RelayLoop, RelaySend, RelayBlockPop, RelayBlockEmpty, RelayBlockReturn, SyncPop,
         SyncLocal, RelayBlockSend, RelayBlockSync, poolVars, queueVars, clientVars
<1>3. PackedBlocks' = PackedBlocks /\ PackedVoted' = PackedVoted BY <1>2, PackedSame
<1>4. /\ rb \in [pc : {"pop", "wait", "signal"}, tgt : Servers,
                 req : Seq(Voted), blk : Blocks \cup {NoBlock}]
      /\ relayBlocks \in [Servers -> Seq(Blocks)]
      /\ \A t \in Servers : relayBlocks[t] \in Seq(PackedBlocks)
      /\ rb.req \in Seq(PackedVoted)
      /\ \A m \in blockCalls : m.items \in Seq(PackedVoted)
  BY <1>1 DEF TypeOK, ServerTypeOK, CommitInv, ServerKnown
<1>5. /\ \A t \in Servers : relayBlocks'[t] \in Seq(PackedBlocks)
      /\ rb'.req \in Seq(PackedVoted)
      /\ \A m \in blockCalls' : m.items \in Seq(PackedVoted)
  <2>1. CASE RelayBlockPop
    <3> DEFINE b == Head(relayBlocks[rb.tgt])
               i == [blk |-> b, votes |-> votes[Packer][b]]
    <3>1. relayBlocks[rb.tgt] \in Seq(PackedBlocks) /\ relayBlocks[rb.tgt] # <<>>
      BY <2>1, <1>4 DEF RelayBlockPop
    <3>2. b \in PackedBlocks /\ Tail(relayBlocks[rb.tgt]) \in Seq(PackedBlocks)
      BY <3>1, QueueType
    <3>3. i \in PackedVoted
      <4>1. votes \in [Servers -> [Blocks -> SUBSET Clients]] BY <1>1 DEF TypeOK, ServerTypeOK
      <4>2. b \in Blocks BY <3>2 DEF PackedBlocks
      <4> HIDE DEF b
      <4> QED BY <3>2, <4>1, <4>2, PackerIsServer DEF PackedVoted, Voted
    <3>4. Append(rb.req, i) \in Seq(PackedVoted) BY <1>4, <3>3, QueueType
    <3>5. /\ rb'.req = Append(rb.req, i) /\ blockCalls' = blockCalls
          /\ relayBlocks' = [relayBlocks EXCEPT ![rb.tgt] = Tail(@)]
      BY <2>1, <1>4 DEF RelayBlockPop
    <3> HIDE DEF b, i
    <3>6. \A t \in Servers : relayBlocks'[t] \in Seq(PackedBlocks) BY <1>4, <3>2, <3>5
    <3> QED BY <1>4, <3>4, <3>5, <3>6
  <2>2. CASE RelayBlockEmpty \/ SyncPop \/ SyncLocal \/ RelayBlockSync(d)
    BY <2>2, <1>4 DEF RelayBlockEmpty, SyncPop, SyncLocal, RelayBlockSync
  <2>3. CASE RelayBlockReturn
    <3>1. rb'.req = <<>> /\ UNCHANGED <<blockCalls, relayBlocks>>
      BY <2>3, <1>4 DEF RelayBlockReturn
    <3>2. <<>> \in Seq(PackedVoted) OBVIOUS
    <3>3. rb'.req \in Seq(PackedVoted) BY <3>1, <3>2, Zenon
    <3> QED BY <1>4, <3>1, <3>3
  <2>4. CASE RelayBlockSend(d)
    BY <2>4, <1>4 DEF RelayBlockSend
  <2> QED BY <2>1, <2>2, <2>3, <2>4 DEF RelayLoop, RelaySend
<1>6. ServerKnown' BY <1>2, <1>3, <1>5 DEF CommitInv, ServerKnown
<1>7. ClientKnown' BY <1>1, <1>2, ClientKnownFrame DEF CommitInv
<1>8. VotesAtBPS' /\ BcastCommitted' BY <1>2, VotesAtBPSFrame, BcastFrame DEF CommitInv
<1> QED BY <1>6, <1>7, <1>8

(* The handler of RelayBlock stores a block of its request. *)
LEMMA CommitHandle ==
    ASSUME CommitInv, HandleBlock
    PROVE  ServerKnown' /\ ClientKnown' /\ VotesAtBPS' /\ BcastCommitted'
<1>1. TypeOK BY DEF CommitInv, CertInv
<1>2. PICK m \in blockCalls : RelayBlockHandler(m) /\ UNCHANGED <<clientVars, faults>>
  BY DEF HandleBlock
<1>3. /\ UNCHANGED <<relayVotes, mergeQ, bcast, committed, relayBlocks, rb, pack>>
      /\ UNCHANGED <<hdrs, pull, got, vote>>
  BY <1>2 DEF RelayBlockHandler, queueVars, packVars, clientVars
<1>4. PackedBlocks' = PackedBlocks /\ PackedVoted' = PackedVoted BY <1>3, PackedSame
<1>5. m.dst \in Servers /\ m.items # <<>> /\ m \in BlockCall
  BY <1>1, BlockCallType DEF TypeOK, ServerTypeOK
<1>6. m.items \in Seq(PackedVoted) BY DEF CommitInv, ServerKnown
<1>7. Head(m.items) \in PackedVoted /\ Tail(m.items) \in Seq(PackedVoted)
  BY <1>5, <1>6, QueueType
<1>8. \A s \in Servers : pending'[s] \subseteq PackedBlocks
  <2>1. pending \in [Servers -> SUBSET Blocks] BY <1>1 DEF TypeOK, ServerTypeOK
  <2>2. pending' = [pending EXCEPT ![m.dst] = @ \cup {Head(m.items).blk}]
    BY <1>2 DEF RelayBlockHandler
  <2>3. Head(m.items).blk \in PackedBlocks BY <1>7 DEF PackedVoted
  <2>4. \A s \in Servers : pending[s] \subseteq PackedBlocks BY DEF CommitInv, ServerKnown
  <2> QED BY <1>5, <2>1, <2>2, <2>3, <2>4
<1>9. \A n \in blockCalls' : n.items \in Seq(PackedVoted)
  <2>1. blockCalls' = Served(m) BY <1>2 DEF RelayBlockHandler
  <2>2. [m EXCEPT !.items = Tail(@)].items = Tail(m.items) BY <1>5 DEF BlockCall
  <2>3. \A n \in blockCalls : n.items \in Seq(PackedVoted) BY DEF CommitInv, ServerKnown
  <2> QED BY <1>7, <2>1, <2>2, <2>3 DEF Served
<1>10. ServerKnown' BY <1>3, <1>4, <1>8, <1>9 DEF CommitInv, ServerKnown
<1>11. ClientKnown' BY <1>1, <1>3, ClientKnownFrame DEF CommitInv
<1>12. VotesAtBPS' /\ BcastCommitted' BY <1>3, VotesAtBPSFrame, BcastFrame DEF CommitInv
<1> QED BY <1>10, <1>11, <1>12

(* A vote inserted at a BPS of its block: the pool only shrinks, and the    *)
(* merge queue gets a block the server is a BPS of.                         *)
LEMMA CommitInsert ==
    ASSUME CommitInv, NEW s \in Servers, NEW b \in Blocks, NEW c \in Clients,
           s \in get_server_id(b), InsertVote(s, b, c)
    PROVE  /\ \A t \in Servers : pending'[t] \subseteq pending[t]
           /\ \A t \in Servers : mergeQ'[t] \in Seq(MergedBy(t))
           /\ UNCHANGED committed
<1> DEFINE i == [blk |-> b, votes |-> votes[s][b] \cup {c}]
<1>1. /\ pending \in [Servers -> SUBSET Blocks] /\ mergeQ \in [Servers -> Seq(Voted)]
      /\ votes \in [Servers -> [Blocks -> SUBSET Clients]]
  BY DEF CommitInv, CertInv, TypeOK, ServerTypeOK
<1>2. \A t \in Servers : mergeQ[t] \in Seq(MergedBy(t)) BY DEF CommitInv, VotesAtBPS
<1>3. i \in MergedBy(s)
  <2>1. i \in Voted BY <1>1 DEF Voted
  <2> QED BY <2>1 DEF MergedBy
<1>4. Append(mergeQ[s], i) \in Seq(MergedBy(s)) BY <1>2, <1>3, QueueType
<1>5. /\ pending' = pending \/ pending' = [pending EXCEPT ![s] = @ \ {b}]
      /\ mergeQ' = mergeQ \/ mergeQ' = [mergeQ EXCEPT ![s] = Append(@, i)]
      /\ UNCHANGED committed
  BY DEF InsertVote, AddVote
<1> HIDE DEF i
<1>6. \A t \in Servers : pending'[t] \subseteq pending[t] BY <1>1, <1>5
<1>7. \A t \in Servers : mergeQ'[t] \in Seq(MergedBy(t)) BY <1>1, <1>2, <1>4, <1>5
<1> QED BY <1>5, <1>6, <1>7

(* A block is committed before it is queued for the peers. *)
LEMMA CommitMerge ==
    ASSUME CommitInv, NEW s \in Servers, Merge(s)
    PROVE  ServerKnown' /\ ClientKnown' /\ VotesAtBPS' /\ BcastCommitted'
<1> DEFINE i == Head(mergeQ[s])
<1>1. TypeOK BY DEF CommitInv, CertInv
<1>2. /\ mergeQ \in [Servers -> Seq(Voted)] /\ committed \in [Servers -> SUBSET Blocks]
      /\ bcast \in [Servers -> [Servers -> Seq(Voted)]]
      /\ \A t \in Servers : mergeQ[t] \in Seq(MergedBy(t))
      /\ \A r, t \in Servers : bcast[r][t] \in Seq(CommittedBy(r))
  BY <1>1 DEF TypeOK, ServerTypeOK, CommitInv, VotesAtBPS, BcastCommitted
<1>3. /\ committed' = [committed EXCEPT ![s] = @ \cup {i.blk}]
      /\ bcast' = [bcast EXCEPT ![s] =
             [t \in Servers |-> IF t # s THEN Append(@[t], i) ELSE @[t]]]
      /\ mergeQ' = [mergeQ EXCEPT ![s] = Tail(@)]
      /\ mergeQ[s] # <<>>
      /\ UNCHANGED <<pending, relayVotes, relayBlocks, rb, pack, blockCalls>>
      /\ UNCHANGED <<hdrs, pull, got, vote>>
  BY DEF Merge, MergeVotes, packVars, clientVars
<1>4. i \in MergedBy(s) /\ Tail(mergeQ[s]) \in Seq(MergedBy(s)) BY <1>2, <1>3, QueueType
<1>5. i \in Voted BY <1>4 DEF MergedBy
<1> HIDE DEF i
<1>6. ServerKnown' BY <1>3, ServerKnownFrame DEF CommitInv
<1>7. ClientKnown' BY <1>1, <1>3, ClientKnownFrame DEF CommitInv
<1>8. VotesAtBPS'
  <2>1. \A t \in Servers : mergeQ'[t] \in Seq(MergedBy(t)) BY <1>2, <1>3, <1>4
  <2> QED BY <1>3, <2>1 DEF CommitInv, VotesAtBPS, VoteStub, VotesFor, MergedBy
<1>9. \A r \in Servers : CommittedBy(r) \subseteq CommittedBy(r)'
  BY <1>2, <1>3 DEF CommittedBy
<1>10. i \in CommittedBy(s)' BY <1>2, <1>3, <1>5 DEF CommittedBy
<1>11. \A r, t \in Servers : bcast[r][t] \in Seq(CommittedBy(r)') BY <1>2, <1>9, SeqGrows
<1>12. \A t \in Servers : Append(bcast[s][t], i) \in Seq(CommittedBy(s)')
  BY <1>10, <1>11, QueueType
<1>13. \A r, t \in Servers : bcast'[r][t] = bcast[r][t]
                             \/ (r = s /\ bcast'[r][t] = Append(bcast[s][t], i))
  BY <1>2, <1>3
<1>14. BcastCommitted' BY <1>11, <1>12, <1>13 DEF BcastCommitted
<1> QED BY <1>6, <1>7, <1>8, <1>14

(* A relayed vote is inserted at a BPS; an adopted commit takes the block  *)
(* out of the pool.                                                        *)
LEMMA CommitPeer ==
    ASSUME CommitInv, NEW s \in Servers, NEW t \in Servers, PeerCall(s, t)
    PROVE  ServerKnown' /\ ClientKnown' /\ VotesAtBPS' /\ BcastCommitted'
<1>1. TypeOK BY DEF CommitInv, CertInv
<1>2. UNCHANGED <<relayBlocks, rb, pack, blockCalls, hdrs, pull, got, vote>>
  BY DEF PeerCall, RelayVote, SPBcastCommit, packVars, clientVars
<1>3. PackedBlocks' = PackedBlocks /\ PackedVoted' = PackedVoted BY <1>2, PackedSame
<1>4. ClientKnown' BY <1>1, <1>2, ClientKnownFrame DEF CommitInv
<1>5. ASSUME \A r \in Servers : pending'[r] \subseteq pending[r] PROVE ServerKnown'
  BY <1>2, <1>3, <1>5 DEF CommitInv, ServerKnown
<1>6. CASE RelayVote(s, t)
  <2> DEFINE v == Head(relayVotes[s][t])
  <2>1. /\ relayVotes \in [Servers -> [Servers -> Seq(BlockVote)]]
        /\ \A p, q \in Servers : relayVotes[p][q] \in Seq(VotesFor(q))
    BY <1>1 DEF TypeOK, ServerTypeOK, CommitInv, VotesAtBPS
  <2>2. /\ relayVotes[s][t] # <<>> /\ InsertVote(t, v.blk, v.voter)
        /\ relayVotes' = [relayVotes EXCEPT ![s][t] = Tail(@)]
        /\ bcast' = bcast
    BY <1>6 DEF RelayVote
  <2>3. v \in VotesFor(t) /\ Tail(relayVotes[s][t]) \in Seq(VotesFor(t))
    BY <2>1, <2>2, QueueType
  <2>4. v.blk \in Blocks /\ v.voter \in Clients /\ t \in get_server_id(v.blk)
    BY <2>3 DEF VotesFor, BlockVote
  <2> HIDE DEF v
  <2>5. /\ \A r \in Servers : pending'[r] \subseteq pending[r]
        /\ \A r \in Servers : mergeQ'[r] \in Seq(MergedBy(r))
        /\ UNCHANGED committed
    BY <2>2, <2>4, CommitInsert
  <2>6. \A p, q \in Servers : relayVotes'[p][q] \in Seq(VotesFor(q)) BY <2>1, <2>2, <2>3
  <2>7. VotesAtBPS' BY <1>2, <2>5, <2>6 DEF CommitInv, VotesAtBPS, VoteStub, VotesFor, MergedBy
  <2>8. BcastCommitted' BY <2>2, <2>5, BcastFrame DEF CommitInv
  <2> QED BY <1>4, <1>5, <2>5, <2>7, <2>8
<1>7. CASE SPBcastCommit(s, t)
  <2> DEFINE i == Head(bcast[s][t])
  <2>1. /\ bcast \in [Servers -> [Servers -> Seq(Voted)]]
        /\ pending \in [Servers -> SUBSET Blocks] /\ committed \in [Servers -> SUBSET Blocks]
        /\ \A p, q \in Servers : bcast[p][q] \in Seq(CommittedBy(p))
    BY <1>1 DEF TypeOK, ServerTypeOK, CommitInv, BcastCommitted
  <2>2. /\ bcast[s][t] # <<>> /\ bcast' = [bcast EXCEPT ![s][t] = Tail(@)]
        /\ committed' = committed \/ committed' = [committed EXCEPT ![t] = @ \cup {i.blk}]
        /\ pending' = pending \/ pending' = [pending EXCEPT ![t] = @ \ {i.blk}]
        /\ UNCHANGED <<relayVotes, mergeQ>>
    BY <1>7 DEF SPBcastCommit
  <2> HIDE DEF i
  <2>3. \A r \in Servers : pending'[r] \subseteq pending[r] BY <2>1, <2>2
  <2>4. \A r \in Servers : CommittedBy(r) \subseteq CommittedBy(r)'
    <3>1. \A r \in Servers : committed[r] \subseteq committed'[r] BY <2>1, <2>2
    <3> QED BY <3>1 DEF CommittedBy
  <2>5. \A p, q \in Servers : bcast[p][q] \in Seq(CommittedBy(p)') BY <2>1, <2>4, SeqGrows
  <2>6. Tail(bcast[s][t]) \in Seq(CommittedBy(s)') BY <2>2, <2>5, QueueType
  <2>7. \A p, q \in Servers : bcast'[p][q] = bcast[p][q]
                              \/ (p = s /\ bcast'[p][q] = Tail(bcast[s][t]))
    BY <2>1, <2>2
  <2>8. BcastCommitted' BY <2>5, <2>6, <2>7 DEF BcastCommitted
  <2>9. VotesAtBPS' BY <1>2, <2>2, VotesAtBPSFrame DEF CommitInv
  <2> QED BY <1>4, <1>5, <2>3, <2>8, <2>9
<1> QED BY <1>6, <1>7 DEF PeerCall

(* A failing call only takes votes and commits away. *)
LEMMA CommitFails ==
    ASSUME CommitInv, CallFails
    PROVE  ServerKnown' /\ ClientKnown' /\ VotesAtBPS' /\ BcastCommitted'
<1>1. TypeOK BY DEF CommitInv, CertInv
<1>2. UNCHANGED <<pending, mergeQ, committed, relayBlocks, rb, pack, hdrs, pull, got, vote>>
  BY DEF CallFails, Abandon, RelayVoteFails, SPBcastCommitFails, poolVars, packVars, clientVars
<1>3. PackedBlocks' = PackedBlocks /\ PackedVoted' = PackedVoted BY <1>2, PackedSame
<1>4. ServerKnown'
  <2>1. \A m \in blockCalls : m.items \in Seq(PackedVoted) /\ m \in BlockCall
    BY <1>1 DEF CommitInv, ServerKnown, TypeOK, ServerTypeOK
  <2>2. \A m \in blockCalls : [m EXCEPT !.live = FALSE].items = m.items BY <2>1 DEF BlockCall
  <2>3. \/ blockCalls' = blockCalls
        \/ \E m \in blockCalls : blockCalls' = (blockCalls \ {m}) \cup {[m EXCEPT !.live = FALSE]}
    BY DEF CallFails, Abandon, RelayVoteFails, SPBcastCommitFails
  <2>4. \A m \in blockCalls' : m.items \in Seq(PackedVoted) BY <2>1, <2>2, <2>3
  <2> QED BY <1>2, <1>3, <2>4 DEF CommitInv, ServerKnown
<1>5. ClientKnown' BY <1>1, <1>2, ClientKnownFrame DEF CommitInv
<1>6. \A p, q \in Servers : relayVotes'[p][q] \in Seq(VotesFor(q))
  <2>1. /\ relayVotes \in [Servers -> [Servers -> Seq(BlockVote)]]
        /\ \A p, q \in Servers : relayVotes[p][q] \in Seq(VotesFor(q))
    BY <1>1 DEF TypeOK, ServerTypeOK, CommitInv, VotesAtBPS
  <2>2. \/ relayVotes' = relayVotes
        \/ \E s, t \in Servers : \E n \in 1 .. Len(relayVotes[s][t]) :
              relayVotes' = [relayVotes EXCEPT ![s][t] = SubSeq(@, n + 1, Len(@))]
    BY DEF CallFails, Abandon, RelayVoteFails, SPBcastCommitFails, queueVars
  <2>3. ASSUME NEW s \in Servers, NEW t \in Servers, NEW n \in 1 .. Len(relayVotes[s][t]),
               relayVotes' = [relayVotes EXCEPT ![s][t] = SubSeq(@, n + 1, Len(@))]
        PROVE  \A p, q \in Servers : relayVotes'[p][q] \in Seq(VotesFor(q))
    <3> DEFINE rest == SubSeq(relayVotes[s][t], n + 1, Len(relayVotes[s][t]))
    <3>1. rest \in Seq(VotesFor(t)) BY <2>1, RestType
    <3>2. relayVotes' = [relayVotes EXCEPT ![s][t] = rest] BY <2>3
    <3> HIDE DEF rest
    <3> QED BY <2>1, <3>1, <3>2
  <2> QED BY <2>1, <2>2, <2>3
<1>7. VotesAtBPS' BY <1>2, <1>6 DEF CommitInv, VotesAtBPS, VoteStub, VotesFor, MergedBy
<1>8. \A p, q \in Servers : bcast'[p][q] \in Seq(CommittedBy(p))
  <2>1. /\ bcast \in [Servers -> [Servers -> Seq(Voted)]]
        /\ \A p, q \in Servers : bcast[p][q] \in Seq(CommittedBy(p))
    BY <1>1 DEF TypeOK, ServerTypeOK, CommitInv, BcastCommitted
  <2>2. \/ bcast' = bcast
        \/ \E s, t \in Servers : \E n \in 1 .. Len(bcast[s][t]) :
              bcast' = [bcast EXCEPT ![s][t] = SubSeq(@, n + 1, Len(@))]
    BY DEF CallFails, Abandon, RelayVoteFails, SPBcastCommitFails, queueVars
  <2>3. ASSUME NEW s \in Servers, NEW t \in Servers, NEW n \in 1 .. Len(bcast[s][t]),
               bcast' = [bcast EXCEPT ![s][t] = SubSeq(@, n + 1, Len(@))]
        PROVE  \A p, q \in Servers : bcast'[p][q] \in Seq(CommittedBy(p))
    <3> DEFINE rest == SubSeq(bcast[s][t], n + 1, Len(bcast[s][t]))
    <3>1. rest \in Seq(CommittedBy(s)) BY <2>1, RestType
    <3>2. bcast' = [bcast EXCEPT ![s][t] = rest] BY <2>3
    <3> HIDE DEF rest
    <3> QED BY <2>1, <3>1, <3>2
  <2> QED BY <2>1, <2>2, <2>3
<1>9. BcastCommitted' BY <1>2, <1>8 DEF BcastCommitted, CommittedBy
<1> QED BY <1>4, <1>5, <1>7, <1>9

(* Clients learn of blocks from pools only, in both calls. *)
LEMMA KnownVisit ==
    ASSUME TypeOK, ClientKnown, UNCHANGED pack, NEW c \in Clients, NEW b \in Blocks,
           NEW a \in BOOLEAN, NEW d, CallVisits(c, b, a, d)
    PROVE  ClientKnown'
<1> DEFINE resp == Answer(c, b, a)
<1>1. PackedBlocks' = PackedBlocks BY PackedSame
<1>2. /\ hdrs[c] \subseteq PackedBlocks /\ pull[c].todo \subseteq PackedBlocks
      /\ pull[c].resp \in Seq(PackedBlocks) /\ got[c] \in Seq(PackedBlocks)
  BY DEF ClientKnown
<1>3. b \in PackedBlocks BY <1>2 DEF CallVisits
<1>4. resp \in Seq(PackedBlocks) BY <1>2, <1>3, QueueType DEF Answer
<1>5. Ids(resp) \subseteq PackedBlocks BY <1>4 DEF Ids
<1>6. got[c] \o resp \in Seq(PackedBlocks) BY <1>2, <1>4
<1>7. <<>> \in Seq(PackedBlocks) OBVIOUS
<1>8. /\ \A e \in Clients : e # c => /\ pull'[e] = pull[e]
                                     /\ hdrs'[e] = hdrs[e] /\ got'[e] = got[e]
      /\ \/ /\ pull'[c].todo = pull[c].todo \ {b} /\ pull'[c].resp = resp
            /\ UNCHANGED <<hdrs, got>>
         \/ /\ NextCall(c, hdrs'[c])
            /\ \/ UNCHANGED <<hdrs, got>>
               \/ hdrs'[c] = hdrs[c] \cup Ids(resp) /\ got' = got
               \/ hdrs'[c] = hdrs[c] \ Ids(resp) /\ got'[c] = got[c] \o resp
  BY CallVisitsDoes
<1> HIDE DEF resp
<1>9. hdrs'[c] \subseteq PackedBlocks /\ got'[c] \in Seq(PackedBlocks)
  BY <1>2, <1>5, <1>6, <1>8
<1>10. pull'[c].todo \subseteq PackedBlocks /\ pull'[c].resp \in Seq(PackedBlocks)
  <2>1. CASE pull'[c].todo = pull[c].todo \ {b} /\ pull'[c].resp = resp BY <1>2, <1>4, <2>1
  <2>2. CASE NextCall(c, hdrs'[c])
    <3>1. pull'[c].resp = <<>> /\ (pull'[c].todo = hdrs'[c] \/ pull'[c].todo = {})
      BY <2>2, NextCallDoes
    <3>2. pull'[c].resp \in Seq(PackedBlocks) BY <1>7, <3>1, Zenon
    <3> QED BY <1>9, <3>1, <3>2
  <2> QED BY <1>8, <2>1, <2>2
<1> QED BY <1>1, <1>8, <1>9, <1>10 DEF ClientKnown

(* PullPendingBlocks starts with blocks of the pool. *)
LEMMA KnownStart ==
    ASSUME TypeOK, ClientKnown, UNCHANGED pack, NEW c \in Clients,
           NEW blocks \in SUBSET PackedBlocks, PullStarts(c, blocks)
    PROVE  ClientKnown'
<1>1. PackedBlocks' = PackedBlocks BY PackedSame
<1>2. /\ UNCHANGED <<hdrs, got>> /\ \A e \in Clients : e # c => pull'[e] = pull[e]
      /\ \/ NextCall(c, hdrs[c])
         \/ pull'[c].todo = blocks /\ pull'[c].resp = pull[c].resp
  BY PullStartsDoes
<1>3. pull'[c].todo \subseteq PackedBlocks /\ pull'[c].resp \in Seq(PackedBlocks)
  <2>1. CASE NextCall(c, hdrs[c])
    <3>1. pull'[c].resp = <<>> /\ (pull'[c].todo = hdrs[c] \/ pull'[c].todo = {})
      BY <2>1, NextCallDoes
    <3>2. <<>> \in Seq(PackedBlocks) OBVIOUS
    <3>3. pull'[c].resp \in Seq(PackedBlocks) BY <3>1, <3>2, Zenon
    <3> QED BY <3>1, <3>3 DEF ClientKnown
  <2>2. CASE pull'[c].todo = blocks /\ pull'[c].resp = pull[c].resp BY <2>2 DEF ClientKnown
  <2> QED BY <1>2, <2>1, <2>2
<1> QED BY <1>1, <1>2, <1>3 DEF ClientKnown

LEMMA CommitPull ==
    ASSUME CommitInv, NEW c \in Clients, NEW d \in BOOLEAN, PullSteps(c, d) \/ PullFails(c)
    PROVE  ServerKnown' /\ ClientKnown' /\ VotesAtBPS' /\ BcastCommitted'
<1>1. TypeOK /\ ClientKnown BY DEF CommitInv, CertInv
<1>2. /\ UNCHANGED <<pending, mergeQ, committed, relayVotes, bcast, relayBlocks, pack, rb, blockCalls>>
      /\ UNCHANGED vote
  BY DEF PullSteps, PullFails, PullSnapshot, PullStarts, PullVisit, GetVisit, CallVisits,
         serverVars, poolVars, queueVars, packVars
<1>3. ServerKnown' BY <1>2, ServerKnownFrame DEF CommitInv
<1>4. BcastCommitted' BY <1>2, BcastFrame DEF CommitInv
<1>5. VotesAtBPS'
  <2>1. \A e \in Clients : got[e] # <<>> => Head(got'[e]) = Head(got[e])
    BY <1>1, PullKeepsHead
  <2>2. \A e \in Clients : vote[e].inserting => got[e] # <<>> BY <1>1 DEF TypeOK, ClientTypeOK
  <2> QED BY <1>2, <2>1, <2>2 DEF CommitInv, VotesAtBPS, VoteStub, VotesFor, MergedBy
<1>6. CASE PullSnapshot(c)
  <2>1. PullStub(c) \in Servers BY StubIsServer DEF PullStub
  <2>2. pending[PullStub(c)] \ seen[PullStub(c)][c] \in SUBSET PackedBlocks
    BY <2>1 DEF CommitInv, ServerKnown
  <2>3. ClientKnown' BY <1>1, <1>2, <1>6, <2>2, KnownStart DEF PullSnapshot
  <2> QED BY <1>3, <1>4, <1>5, <2>3
<1>7. CASE PullFails(c)
  <2>1. ClientKnown' BY <1>1, <1>2, <1>7, KnownStart DEF PullFails
  <2> QED BY <1>3, <1>4, <1>5, <2>1
<1>8. ASSUME NEW b \in Blocks, PullVisit(c, b, d) PROVE ClientKnown'
  <2>1. PullSends(PullStub(c), b, c) \in BOOLEAN BY DEF PullSends
  <2> QED BY <1>1, <1>2, <1>8, <2>1, KnownVisit DEF PullVisit
<1>9. ASSUME NEW b \in Blocks, GetVisit(c, b, d) PROVE ClientKnown'
  <2>1. (b \in pending[PullStub(c)]) \in BOOLEAN OBVIOUS
  <2> QED BY <1>1, <1>2, <1>9, <2>1, KnownVisit DEF GetVisit
<1> QED BY <1>3, <1>4, <1>5, <1>6, <1>7, <1>8, <1>9 DEF PullSteps

(* A vote goes to the BPS of its block, directly or by relay. *)
LEMMA CommitVote ==
    ASSUME CommitInv, NEW c \in Clients, VoteSteps(c) \/ VoteFails(c)
    PROVE  ServerKnown' /\ ClientKnown' /\ VotesAtBPS' /\ BcastCommitted'
<1> DEFINE b == Head(got[c])
<1>1. TypeOK BY DEF CommitInv, CertInv
<1>2. /\ got \in [Clients -> Seq(Blocks)]
      /\ vote \in [Clients -> [stub : {0, 1}, inserting : BOOLEAN]]
      /\ relayVotes \in [Servers -> [Servers -> Seq(BlockVote)]]
      /\ \A e \in Clients : vote[e].inserting => got[e] # <<>>
  BY <1>1 DEF TypeOK, ServerTypeOK, ClientTypeOK
<1>3. got[c] # <<>>
  BY <1>2 DEF VoteSteps, VoteFails, VoteBlocksRelay, VoteBlocksInsert, VoteBegins
<1>4. b \in Blocks BY <1>2, <1>3, QueueType
<1>5. VoteStub(c) \in Servers BY <1>2, StubIsServer DEF VoteStub
<1>6. UNCHANGED <<committed, bcast, relayBlocks, pack, rb, blockCalls, hdrs, pull>>
  BY DEF VoteSteps, VoteFails, VoteBlocksRelay, VoteBlocksInsert, InsertVote, VoteEnds, VoteGoesOn,
         serverVars, poolVars, queueVars, packVars
<1>7. PackedBlocks' = PackedBlocks /\ PackedVoted' = PackedVoted BY <1>6, PackedSame
<1>8. BcastCommitted' BY <1>6, BcastFrame DEF CommitInv
<1>9. got' = got \/ got' = [got EXCEPT ![c] = Tail(@)]
  BY DEF VoteSteps, VoteFails, VoteBlocksRelay, VoteBlocksInsert, VoteEnds, VoteGoesOn
<1>10. ClientKnown'
  <2>1. \A e \in Clients : got[e] \in Seq(PackedBlocks) BY DEF CommitInv, ClientKnown
  <2>2. Tail(got[c]) \in Seq(PackedBlocks) BY <1>3, <2>1, QueueType
  <2>3. \A e \in Clients : got'[e] \in Seq(PackedBlocks) BY <1>2, <1>9, <2>1, <2>2
  <2> QED BY <1>6, <1>7, <2>3 DEF CommitInv, ClientKnown
<1>11. \A e \in Clients : e # c => vote'[e] = vote[e] /\ got'[e] = got[e]
  BY <1>2, <1>9 DEF VoteSteps, VoteFails, VoteBlocksRelay, VoteBlocksInsert, VoteEnds, VoteGoesOn
<1>12. VoteEnds(c) => ~vote'[c].inserting BY <1>2 DEF VoteEnds
<1> HIDE DEF b
<1>13. CASE VoteBlocksRelay(c)
  <2>1. /\ VoteRelay(VoteStub(c), b, c)
        /\ IF VoteStub(c) \in get_server_id(b) THEN VoteGoesOn(c) ELSE VoteEnds(c)
        /\ UNCHANGED <<pending, mergeQ>>
    BY <1>13 DEF VoteBlocksRelay, poolVars, b
  <2>2. ServerKnown' BY <1>6, <2>1, ServerKnownFrame DEF CommitInv
  <2>3. \A s, t \in Servers : relayVotes'[s][t] \in Seq(VotesFor(t))
    <3>1. \A s, t \in Servers : relayVotes[s][t] \in Seq(VotesFor(t)) BY DEF CommitInv, VotesAtBPS
    <3>2. \A t \in Servers : t \in get_server_id(b) => [blk |-> b, voter |-> c] \in VotesFor(t)
      BY <1>4 DEF VotesFor, BlockVote
    <3>3. \A t \in Servers : t \in get_server_id(b) =>
             Append(relayVotes[VoteStub(c)][t], [blk |-> b, voter |-> c]) \in Seq(VotesFor(t))
      BY <1>5, <3>1, <3>2, QueueType
    <3>4. \A s, t \in Servers :
             \/ relayVotes'[s][t] = relayVotes[s][t]
             \/ /\ s = VoteStub(c) /\ t \in get_server_id(b)
                /\ relayVotes'[s][t] = Append(relayVotes[VoteStub(c)][t], [blk |-> b, voter |-> c])
      BY <1>2, <1>5, <2>1 DEF VoteRelay
    <3> QED BY <3>1, <3>3, <3>4
  <2>4. vote'[c].inserting => VoteStub(c)' \in get_server_id(Head(got'[c]))
    <3> SUFFICES ASSUME vote'[c].inserting PROVE VoteStub(c)' \in get_server_id(Head(got'[c]))
      OBVIOUS
    <3>1. VoteStub(c) \in get_server_id(b) /\ VoteGoesOn(c) BY <1>12, <2>1
    <3>2. got' = got /\ vote'[c].stub = vote[c].stub BY <1>2, <3>1 DEF VoteGoesOn
    <3> QED BY <3>1, <3>2 DEF VoteStub, b
  <2>5. VotesAtBPS' BY <1>11, <2>1, <2>3, <2>4 DEF CommitInv, VotesAtBPS, VoteStub, VotesFor, MergedBy
  <2> QED BY <1>8, <1>10, <2>2, <2>5
<1>14. CASE VoteBlocksInsert(c)
  <2>1. /\ vote[c].inserting /\ InsertVote(VoteStub(c), b, c) /\ VoteEnds(c)
        /\ UNCHANGED relayVotes
    BY <1>14 DEF VoteBlocksInsert, queueVars, b
  <2>2. VoteStub(c) \in get_server_id(b) BY <2>1 DEF CommitInv, VotesAtBPS, b
  <2>3. /\ \A t \in Servers : pending'[t] \subseteq pending[t]
        /\ \A t \in Servers : mergeQ'[t] \in Seq(MergedBy(t))
    BY <1>4, <1>5, <2>1, <2>2, CommitInsert
  <2>4. ServerKnown' BY <1>6, <1>7, <2>3 DEF CommitInv, ServerKnown
  <2>5. VotesAtBPS'
    BY <1>11, <1>12, <2>1, <2>3 DEF CommitInv, VotesAtBPS, VoteStub, VotesFor, MergedBy
  <2> QED BY <1>8, <1>10, <2>4, <2>5
<1>15. CASE VoteFails(c)
  <2>1. VoteEnds(c) /\ UNCHANGED <<pending, mergeQ, relayVotes>>
    BY <1>15 DEF VoteFails, serverVars, poolVars, queueVars
  <2>2. ServerKnown' BY <1>6, <2>1, ServerKnownFrame DEF CommitInv
  <2>3. VotesAtBPS'
    BY <1>11, <1>12, <2>1 DEF CommitInv, VotesAtBPS, VoteStub, VotesFor, MergedBy
  <2> QED BY <1>8, <1>10, <2>2, <2>3
<1> QED BY <1>13, <1>14, <1>15 DEF VoteSteps

(* Nothing is packed, and all queues are empty, at the start. *)
LEMMA InitCommit == Init => CommitInv
<1> SUFFICES ASSUME Init PROVE CommitInv OBVIOUS
<1>1. CertInv BY InitCert
<1>2. \A S : <<>> \in Seq(S) OBVIOUS
<1>3. ServerKnown BY <1>2 DEF Init, ServerInit, ServerKnown
<1>4. ClientKnown BY <1>2 DEF Init, ClientInit, ClientKnown
<1>5. VotesAtBPS BY <1>2 DEF Init, ServerInit, ClientInit, VotesAtBPS
<1>6. BcastCommitted BY <1>2 DEF Init, ServerInit, BcastCommitted
<1> QED BY <1>1, <1>3, <1>4, <1>5, <1>6 DEF CommitInv

(* Every step keeps the inductive invariant. *)
LEMMA NextCommit == CommitInv /\ [Next]_vars => CommitInv'
<1> SUFFICES ASSUME CommitInv, [Next]_vars PROVE CommitInv' OBVIOUS
<1>1. CertInv' BY NextCert DEF CommitInv
<1>2. ServerKnown' /\ ClientKnown' /\ VotesAtBPS' /\ BcastCommitted'
  <2>1. CASE Next
    BY <2>1, CommitPack, CommitRelay, CommitHandle, CommitMerge, CommitPeer, CommitFails,
       CommitPull, CommitVote
    DEF Next
  <2>2. CASE UNCHANGED vars
    <3>1. /\ UNCHANGED <<pending, relayBlocks, blockCalls, pack, rb>>
          /\ UNCHANGED <<relayVotes, mergeQ, bcast, committed, hdrs, pull, got, vote>>
      BY <2>2 DEF vars, serverVars, poolVars, queueVars, packVars, clientVars
    <3>2. TypeOK BY DEF CommitInv, CertInv
    <3> QED BY <3>1, <3>2, ServerKnownFrame, ClientKnownFrame, VotesAtBPSFrame, BcastFrame
            DEF CommitInv
  <2> QED BY <2>1, <2>2
<1> QED BY <1>1, <1>2 DEF CommitInv

-----------------------------------------------------------------------------
(* The refinement *)

(* Nothing is packed, signed or committed at the start. *)
LEMMA InitAbstract == Init => Abstract!AbsInit
<1> SUFFICES ASSUME Init PROVE Abstract!AbsInit OBVIOUS
<1>1. \A b \in Blocks : ~Packed(b)
  BY BlockIds DEF Init, ServerInit, Packed, Blocks
<1> QED BY <1>1 DEF Init, ServerInit, ClientInit, Abstract!AbsInit

(* A step that packs, signs and commits nothing is no step of BlockCommit. *)
LEMMA AbstractStutters ==
    ASSUME UNCHANGED <<pack, voted, committed>>
    PROVE  UNCHANGED Abstract!absVars
BY DEF Abstract!absVars, Packed

(* The first push of a block packs it; the other steps of the pack thread  *)
(* are no steps of BlockCommit.                                            *)
LEMMA PackRefines ==
    ASSUME CommitInv, Pack
    PROVE  [Abstract!AbsNext]_(Abstract!absVars)
<1>1. TypeOK BY DEF CommitInv, CertInv
<1>2. UNCHANGED <<voted, committed>>
  BY DEF Pack, PackPush, PackInsert, poolVars, clientVars
<1>3. /\ pack.blk \in Blocks
      /\ PackedBlocks' = PackedBlocks \/ PackedBlocks' = PackedBlocks \cup {pack.blk}
      /\ \A a \in Blocks : a < pack.blk => a \in PackedBlocks
  BY <1>1, PackedStep
<1>4. CASE PackedBlocks' = PackedBlocks
  BY <1>2, <1>4 DEF Abstract!absVars, PackedBlocks
<1>5. CASE PackedBlocks' # PackedBlocks
  <2>1. pack.blk \notin PackedBlocks /\ PackedBlocks' = PackedBlocks \cup {pack.blk}
    BY <1>3, <1>5
  <2>2. Abstract!PackBlock(pack.blk)
    BY <1>2, <1>3, <2>1 DEF Abstract!PackBlock, PackedBlocks
  <2> QED BY <1>3, <2>2 DEF Abstract!AbsNext
<1> QED BY <1>4, <1>5

(* A client signs the packed block at the head of its queue. *)
LEMMA VoteRefines ==
    ASSUME CommitInv, NEW c \in Clients, VoteSteps(c) \/ VoteFails(c)
    PROVE  [Abstract!AbsNext]_(Abstract!absVars)
<1>1. UNCHANGED <<pack, committed>>
  BY DEF VoteSteps, VoteFails, VoteBlocksRelay, VoteBlocksInsert, InsertVote, serverVars,
         poolVars, packVars
<1>2. CASE VoteBlocksInsert(c) BY <1>1, <1>2, AbstractStutters DEF VoteBlocksInsert
<1>3. CASE VoteBlocksRelay(c) \/ VoteFails(c)
  <2>1. got[c] # <<>> /\ Signs(c) BY <1>3 DEF VoteBlocksRelay, VoteFails, VoteBegins
  <2>2. got[c] \in Seq(PackedBlocks) BY DEF CommitInv, ClientKnown
  <2>3. Head(got[c]) \in PackedBlocks BY <2>1, <2>2, QueueType
  <2>4. Abstract!Sign(c, Head(got[c]))
    BY <1>1, <2>1, <2>3 DEF Abstract!Sign, Signs, PackedBlocks, Packed
  <2>5. Head(got[c]) \in Blocks BY <2>3 DEF PackedBlocks
  <2> QED BY <2>4, <2>5 DEF Abstract!AbsNext
<1> QED BY <1>2, <1>3 DEF VoteSteps

(* A BPS merges a block that all clients have signed. *)
LEMMA MergeRefines ==
    ASSUME CommitInv, NEW s \in Servers, Merge(s)
    PROVE  [Abstract!AbsNext]_(Abstract!absVars)
<1> DEFINE i == Head(mergeQ[s])
<1>1. mergeQ[s] # <<>> /\ UNCHANGED <<pack, voted>>
  BY DEF Merge, MergeVotes, packVars, clientVars
<1>2. committed' = [committed EXCEPT ![s] = @ \cup {i.blk}] BY DEF Merge, MergeVotes
<1>3. mergeQ[s] \in Seq(MergedBy(s)) /\ mergeQ[s] \in Seq(Complete)
  BY DEF CommitInv, CertInv, VotesAtBPS, QueuedComplete
<1>4. i \in MergedBy(s) /\ i \in Complete BY <1>1, <1>3, QueueType
<1> HIDE DEF i
<1>5. i.blk \in Blocks /\ s \in get_server_id(i.blk) /\ \A c \in Clients : i.blk \in voted[c]
  BY <1>4 DEF MergedBy, Complete, Genuine, Voted
<1>6. Abstract!Commit(s, i.blk) BY <1>1, <1>2, <1>5 DEF Abstract!Commit, Packed
<1> QED BY <1>5, <1>6 DEF Abstract!AbsNext

(* A server adopts a block that the broadcasting server has committed. *)
LEMMA PeerRefines ==
    ASSUME CommitInv, NEW s \in Servers, NEW t \in Servers, PeerCall(s, t)
    PROVE  [Abstract!AbsNext]_(Abstract!absVars)
<1> DEFINE i == Head(bcast[s][t])
<1>1. UNCHANGED <<pack, voted>>
  BY DEF PeerCall, RelayVote, SPBcastCommit, packVars, clientVars
<1>2. CASE UNCHANGED committed BY <1>1, <1>2, AbstractStutters
<1>3. CASE SPBcastCommit(s, t) /\ committed' # committed
  <2>1. bcast[s][t] # <<>> /\ committed' = [committed EXCEPT ![t] = @ \cup {i.blk}]
    BY <1>3 DEF SPBcastCommit
  <2>2. bcast[s][t] \in Seq(CommittedBy(s)) /\ bcast[s][t] \in Seq(Complete)
    BY DEF CommitInv, CertInv, BcastCommitted, QueuedComplete
  <2>3. i \in CommittedBy(s) /\ i \in Complete BY <2>1, <2>2, QueueType
  <2> HIDE DEF i
  <2>4. i.blk \in Blocks /\ i.blk \in committed[s] /\ \A c \in Clients : i.blk \in voted[c]
    BY <2>3 DEF CommittedBy, Complete, Genuine, Voted
  <2>5. Abstract!Commit(t, i.blk) BY <1>1, <2>1, <2>4 DEF Abstract!Commit, Packed
  <2> QED BY <2>4, <2>5 DEF Abstract!AbsNext
<1> QED BY <1>2, <1>3 DEF PeerCall, RelayVote, InsertVote

(* Every step of TomChain is a step of BlockCommit or changes nothing of it. *)
LEMMA NextRefines == CommitInv /\ [Next]_vars => [Abstract!AbsNext]_(Abstract!absVars)
<1> SUFFICES ASSUME CommitInv, [Next]_vars PROVE [Abstract!AbsNext]_(Abstract!absVars) OBVIOUS
<1>1. CASE RelayLoop \/ HandleBlock \/ CallFails \/ \E d \in BOOLEAN : RelaySend(d)
  <2>1. UNCHANGED <<pack, voted, committed>>
    BY <1>1 DEF RelayLoop, RelaySend, RelayBlockPop, RelayBlockEmpty, RelayBlockReturn, SyncPop,
       SyncLocal, RelayBlockSend, RelayBlockSync, HandleBlock, RelayBlockHandler, CallFails,
       Abandon, RelayVoteFails, SPBcastCommitFails, poolVars, packVars, clientVars
  <2> QED BY <2>1, AbstractStutters
<1>2. ASSUME NEW c \in Clients, NEW d \in BOOLEAN, PullSteps(c, d) \/ PullFails(c)
      PROVE  UNCHANGED Abstract!absVars
  <2>1. UNCHANGED <<pack, voted, committed>>
    BY <1>2 DEF PullSteps, PullFails, PullSnapshot, PullStarts, PullVisit, GetVisit, CallVisits,
       serverVars, poolVars, packVars
  <2> QED BY <2>1, AbstractStutters
<1>3. CASE UNCHANGED vars
  <2>1. UNCHANGED <<pack, voted, committed>>
    BY <1>3 DEF vars, serverVars, poolVars, packVars, clientVars
  <2> QED BY <2>1, AbstractStutters
<1> QED BY <1>1, <1>2, <1>3, PackRefines, VoteRefines, MergeRefines, PeerRefines DEF Next

(* TomChain implements BlockCommit: for any number of servers, clients and *)
(* blocks, with any calls failing, blocks are handed out in id order,      *)
(* clients sign only those, a server in Block::get_server_id is the first  *)
(* to commit a block (merge_votes), when all clients have signed it, and   *)
(* the others follow a committed one (SPBcastCommit).                      *)
THEOREM CommitRefinement == Spec => ImplementsCommit
BY InitCommit, NextCommit, InitAbstract, NextRefines, PTL DEF Spec, ImplementsCommit, Abstract!AbsSpec

(* Only the BPS of a block have it in pb_merge_queue and so in merge_votes: *)
(* VoteBlocks relays a vote to BPS only and inserts it only at a BPS.       *)
THEOREM OnlyProcessorsMerge == Spec => []OnlyBPSMerges
<1>1. CommitInv => OnlyBPSMerges
  <2> SUFFICES ASSUME CommitInv, NEW s \in Servers, NEW b \in BlocksOf(mergeQ[s])
               PROVE  s \in get_server_id(b)
    BY DEF OnlyBPSMerges
  <2>1. mergeQ[s] \in Seq(MergedBy(s)) BY DEF CommitInv, VotesAtBPS
  <2>2. PICK i \in 1 .. Len(mergeQ[s]) : b = mergeQ[s][i].blk BY DEF BlocksOf
  <2>3. mergeQ[s][i] \in MergedBy(s) BY <2>1
  <2> QED BY <2>2, <2>3 DEF MergedBy
<1> QED BY <1>1, InitCommit, NextCommit, PTL DEF Spec
=============================================================================
