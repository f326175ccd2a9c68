----------------------- MODULE TomChainSettled_proofs -----------------------
(***************************************************************************)
(* With two servers no block is left behind: when all threads of TomChain  *)
(* are done, every packed block is committed at both servers if no call    *)
(* has failed, and at one of them if one call has.  The invariant says,    *)
(* for every block, where its next piece of work is.                       *)
(***************************************************************************)
EXTENDS TomChainQueues_proofs

LEMMA TwoServers ==
    ASSUME ServerCount = 2
    PROVE  /\ Servers = {1, 2} /\ Packer = 2 /\ Peers = {1}
           /\ \A b \in Blocks : get_server_id(b) = Servers
           /\ \A c \in Clients : Stub(c, 0) # Stub(c, 1) /\ Servers = {Stub(c, 0), Stub(c, 1)}
<1>1. Servers = {1, 2} /\ Packer = 2 /\ Peers = {1} BY DEF Servers, Packer, Peers
<1>2. ASSUME NEW b \in Blocks PROVE get_server_id(b) = Servers
  <2>1. PICK p, q \in Servers : p # q /\ get_server_id(b) = {p, q} BY BPSAreServers
  <2> QED BY <1>1, <2>1
<1>3. ASSUME NEW c \in Clients
      PROVE  Stub(c, 0) # Stub(c, 1) /\ Servers = {Stub(c, 0), Stub(c, 1)}
  <2>1. Stub(c, 0) \in Servers /\ Stub(c, 1) \in Servers BY StubIsServer
  <2>2. Stub(c, 1) = IF Stub(c, 0) + 1 > 2 THEN 1 ELSE Stub(c, 0) + 1 BY DEF Stub
  <2> QED BY <1>1, <2>1, <2>2
<1> QED BY <1>1, <1>2, <1>3

-----------------------------------------------------------------------------
(* A pending block still waits for a vote *)

(* Blocks are relayed before they have votes. *)
Unvoted == {i \in Voted : i.votes = {}}

OpenPools ==
    \A s \in Servers, b \in Blocks :
        /\ b \in pending[s] => votes[s][b] # Clients
        /\ b \notin Holds(s) => votes[s][b] = {}

OpenCalls == rb.req \in Seq(Unvoted) /\ \A m \in blockCalls : m.items \in Seq(Unvoted)

OpenInv == CertInv /\ SyncedInv /\ SentInv /\ OpenPools /\ OpenCalls

(* What a step does to block b in the pool of server s: the votes of a     *)
(* block that stays there grow and are not all; one that is stored is new  *)
(* and has none; one that is not held gets none.                           *)
PoolStep(s, b) ==
    /\ b \in pending'[s] =>
          \/ /\ b \in pending[s] /\ votes[s][b] \subseteq votes'[s][b]
             /\ votes[s][b] # Clients => votes'[s][b] # Clients
          \/ b \notin Holds(s) /\ votes'[s][b] = {}
    /\ b \notin Holds(s)' => votes'[s][b] = votes[s][b]

LEMMA PoolStepSame ==
    ASSUME UNCHANGED votes, NEW s \in Servers, NEW b, pending'[s] \subseteq pending[s]
    PROVE  PoolStep(s, b)
BY DEF PoolStep

LEMMA PoolStepInsert ==
    ASSUME TypeOK, NEW t \in Servers, NEW x \in Blocks, NEW c \in Clients, InsertVote(t, x, c),
           NEW s \in Servers, NEW b \in Blocks, Holds(s)' = Holds(s)
    PROVE  /\ PoolStep(s, b)
           /\ s = t /\ b = x /\ b \in pending'[s] => c \in votes'[s][b]
<1>1. /\ pending \in [Servers -> SUBSET Blocks] /\ votes \in [Servers -> [Blocks -> SUBSET Clients]]
  BY DEF TypeOK, ServerTypeOK
<1>2. CASE x \notin pending[t]
  <2>1. UNCHANGED <<pending, votes>> BY <1>2 DEF InsertVote
  <2> QED BY <1>2, <2>1, PoolStepSame
<1>3. CASE x \in pending[t]
  <2> DEFINE v == votes[t][x] \cup {c}
  <2>1. v \in SUBSET Clients BY <1>1
  <2>2. /\ votes' = [votes EXCEPT ![t][x] = v]
        /\ \/ is_vote_enough(v) /\ pending' = [pending EXCEPT ![t] = @ \ {x}]
           \/ ~is_vote_enough(v) /\ pending' = pending
    BY <1>3 DEF InsertVote, AddVote
  <2>3. is_vote_enough(v) <=> v = Clients BY <2>1, EnoughIsAll
  <2>4. c \in v /\ votes[t][x] \subseteq v OBVIOUS
  <2> HIDE DEF v
  <2>5. votes'[s][b] = IF s = t /\ b = x THEN v ELSE votes[s][b] BY <1>1, <2>2
  <2>6. x \in Holds(t) BY <1>3 DEF Holds
  <2>7. CASE s = t /\ b = x
    <3>1. b \in pending'[s] => v # Clients BY <1>1, <2>2, <2>3, <2>7
    <3> QED BY <1>3, <2>4, <2>5, <2>6, <2>7, <3>1 DEF PoolStep
  <2>8. CASE ~(s = t /\ b = x)
    <3>1. b \in pending'[s] => b \in pending[s] BY <1>1, <2>2
    <3> QED BY <2>5, <2>8, <3>1 DEF PoolStep
  <2> QED BY <2>7, <2>8
<1> QED BY <1>2, <1>3

(* A stored block is new to the server, and has no votes. *)
LEMMA PoolStepStore ==
    ASSUME TypeOK, OpenPools, NEW t \in Servers, NEW x \in Blocks, x \notin Holds(t),
           pending' = [pending EXCEPT ![t] = @ \cup {x}], UNCHANGED <<mergeQ, committed>>,
           UNCHANGED votes \/ votes' = [votes EXCEPT ![t][x] = {}],
           NEW s \in Servers, NEW b \in Blocks
    PROVE  PoolStep(s, b)
<1>1. pending \in [Servers -> SUBSET Blocks] /\ votes \in [Servers -> [Blocks -> SUBSET Clients]]
  BY DEF TypeOK, ServerTypeOK
<1>2. votes[t][x] = {} BY DEF OpenPools
<1>3. votes'[s][b] = votes[s][b]
  <2>1. CASE UNCHANGED votes BY <2>1
  <2>2. CASE votes' = [votes EXCEPT ![t][x] = {}]
    <3>1. votes'[s][b] = IF s = t /\ b = x THEN {} ELSE votes[s][b] BY <1>1, <2>2
    <3> QED BY <1>2, <3>1
  <2> QED BY <2>1, <2>2
<1>4. CASE s = t /\ b = x BY <1>2, <1>3, <1>4 DEF PoolStep
<1>5. CASE ~(s = t /\ b = x)
  <2>1. b \in pending'[s] => b \in pending[s] BY <1>1, <1>5
  <2> QED BY <1>3, <2>1 DEF PoolStep
<1> QED BY <1>4, <1>5

LEMMA PoolStepNext ==
    ASSUME OpenInv, [Next]_vars, NEW s \in Servers, NEW b \in Blocks
    PROVE  PoolStep(s, b)
<1>1. WayInv /\ TypeOK /\ OpenPools /\ OpenCalls BY DEF OpenInv, SentInv, WayInv
<1>2. CASE UNCHANGED <<votes, pending>> BY <1>2, PoolStepSame
<1>3. CASE Pack
  <2>1. CASE PackPush BY <1>2, <2>1 DEF PackPush, poolVars
  <2>2. CASE PackInsert
    <3>1. /\ pending' = [pending EXCEPT ![Packer] = @ \cup {pack.blk}] /\ pack.tgt = Packer
          /\ UNCHANGED <<mergeQ, committed, votes>>
      BY <2>2 DEF PackInsert
    <3>2. pack.blk \in Blocks /\ pack.blk \notin Holds(Packer)
      BY <1>1, <1>3, <3>1, HandedStep, PackerIsServer DEF WayInv, OnWay
    <3> QED BY <1>1, <3>1, <3>2, PackerIsServer, PoolStepStore
  <2> QED BY <1>3, <2>1, <2>2 DEF Pack
<1>4. CASE HandleBlock
  <2>1. PICK m \in blockCalls : RelayBlockHandler(m) BY <1>4 DEF HandleBlock
  <2>2. /\ m.items \in Seq(Unvoted) /\ m.items \in Seq(Voted) /\ m.items # <<>>
        /\ m.dst \in Peers /\ m.dst \in Servers
    BY <1>1, BlockCallType, PeersAre DEF OpenCalls, WayInv, CallsApart
  <2>3. Head(m.items) \in Unvoted BY <2>2, QueueType
  <2> DEFINE x == Head(m.items).blk
  <2>4. x \in Blocks /\ Head(m.items).votes = {} BY <2>3 DEF Unvoted, Voted
  <2>5. x \in InCalls(m.dst) BY <2>2, BlocksTail DEF InCalls
  <2>6. x \notin Holds(m.dst) BY <1>1, <2>2, <2>5 DEF WayInv, WayTo
  <2>7. /\ pending' = [pending EXCEPT ![m.dst] = @ \cup {x}] /\ UNCHANGED <<mergeQ, committed>>
        /\ votes' = [votes EXCEPT ![m.dst][x] = {}]
    BY <2>1, <2>4 DEF RelayBlockHandler
  <2> HIDE DEF x
  <2> QED BY <1>1, <2>2, <2>4, <2>6, <2>7, PoolStepStore
<1>5. ASSUME NEW t \in Servers, Merge(t) PROVE PoolStep(s, b)
  BY <1>2, <1>5 DEF Merge, MergeVotes
<1>6. ASSUME NEW u \in Servers, NEW t \in Servers, PeerCall(u, t) PROVE PoolStep(s, b)
  <2>1. Holds(s)' = Holds(s) BY <1>1, <1>6, PoolPeer DEF WayInv
  <2>2. CASE RelayVote(u, t)
    <3>1. relayVotes[u][t] \in Seq(BlockVote) /\ relayVotes[u][t] # <<>>
      BY <1>1, <2>2 DEF RelayVote, TypeOK, ServerTypeOK
    <3>2. Head(relayVotes[u][t]) \in BlockVote BY <3>1, QueueType
    <3>3. PICK x \in Blocks, c \in Clients : InsertVote(t, x, c) BY <2>2, <3>2 DEF RelayVote, BlockVote
    <3> QED BY <1>1, <2>1, <3>3, PoolStepInsert
  <2>3. CASE SPBcastCommit(u, t)
    <3>1. /\ UNCHANGED votes
          /\ UNCHANGED pending \/ \E x : pending' = [pending EXCEPT ![t] = @ \ {x}]
      BY <2>3 DEF SPBcastCommit
    <3>2. pending \in [Servers -> SUBSET Blocks] BY <1>1 DEF TypeOK, ServerTypeOK
    <3>3. ASSUME NEW x, pending' = [pending EXCEPT ![t] = @ \ {x}] PROVE pending'[s] \subseteq pending[s]
      BY <3>2, <3>3
    <3>4. pending'[s] \subseteq pending[s] BY <3>1, <3>3
    <3> QED BY <3>1, <3>4, PoolStepSame
  <2> QED BY <1>6, <2>2, <2>3 DEF PeerCall
<1>7. ASSUME NEW c \in Clients, NEW d \in BOOLEAN,
             VoteSteps(c) \/ VoteFails(c) \/ PullSteps(c, d) \/ PullFails(c)
      PROVE  PoolStep(s, b)
  <2>1. CASE VoteBlocksInsert(c)
    <3>1. Holds(s)' = Holds(s) BY <1>1, <1>7, WayClient
    <3>2. /\ got \in [Clients -> Seq(Blocks)]
          /\ vote \in [Clients -> [stub : {0, 1}, inserting : BOOLEAN]]
          /\ \A e \in Clients : vote[e].inserting => got[e] # <<>>
      BY <1>1 DEF TypeOK, ClientTypeOK
    <3>3. Head(got[c]) \in Blocks BY <2>1, <3>2, QueueType DEF VoteBlocksInsert
    <3>4. VoteStub(c) \in Servers BY <3>2, StubIsServer DEF VoteStub
    <3> QED BY <1>1, <2>1, <3>1, <3>3, <3>4, PoolStepInsert DEF VoteBlocksInsert
  <2>2. CASE UNCHANGED poolVars BY <1>2, <2>2 DEF poolVars
  <2> QED BY <1>7, <2>1, <2>2 DEF VoteSteps, VoteFails, VoteBlocksRelay, PullSteps, PullFails,
             PullSnapshot, PullVisit, GetVisit, serverVars
<1>8. CASE RelayLoop \/ CallFails \/ UNCHANGED vars \/ \E d \in BOOLEAN : RelaySend(d)
  <2>1. UNCHANGED poolVars
    BY <1>8 DEF RelayLoop, RelaySend, RelayBlockPop, RelayBlockEmpty, RelayBlockReturn, SyncPop,
       SyncLocal, RelayBlockSend, RelayBlockSync, CallFails, Abandon, RelayVoteFails,
       SPBcastCommitFails, vars, serverVars
  <2> QED BY <1>2, <2>1 DEF poolVars
<1>9. TRUE \in BOOLEAN OBVIOUS
<1> QED BY <1>3, <1>4, <1>5, <1>6, <1>7, <1>8, <1>9 DEF Next

(* A block is serialised for a peer while nobody can have voted on it. *)
LEMMA OpenCallsNext ==
    ASSUME ServerCount = 2, OpenInv, [Next]_vars
    PROVE  OpenCalls'
<1>1. TypeOK /\ WayInv /\ OpenCalls BY DEF OpenInv, SentInv, WayInv
<1>2. /\ rb \in [pc : {"pop", "wait", "signal"}, tgt : Servers,
                 req : Seq(Voted), blk : Blocks \cup {NoBlock}]
      /\ relayBlocks \in [Servers -> Seq(Blocks)] /\ blockCalls \subseteq BlockCall
  BY <1>1 DEF TypeOK, ServerTypeOK
<1>3. CASE rb'.req = rb.req /\ UNCHANGED blockCalls BY <1>1, <1>3 DEF OpenCalls
<1>4. CASE RelayBlockPop
  <2> DEFINE b == Head(relayBlocks[rb.tgt])
             i == [blk |-> b, votes |-> votes[Packer][b]]
  <2>1. rb.tgt \in Peers /\ rb.tgt \in Servers /\ relayBlocks[rb.tgt] # <<>> /\ UNCHANGED blockCalls
    BY <1>2, <1>4, PeersAre DEF RelayBlockPop
  <2>2. rb'.req = Append(rb.req, i) BY <1>2, <1>4 DEF RelayBlockPop
  <2>3. b \in Blocks BY <1>2, <2>1, QueueType
  <2>4. votes[Packer][b] = {}
    <3>1. relayBlocks[rb.tgt] \in Seq(Blocks) BY <1>2, <2>1
    <3>2. 1 \in 1 .. Len(relayBlocks[rb.tgt]) /\ b = relayBlocks[rb.tgt][1] BY <2>1, <3>1
    <3>3. NoVoteBeforeRelay BY QueuedHaveNoVotes DEF OpenInv
    <3> QED BY <2>1, <3>2, <3>3 DEF NoVoteBeforeRelay
  <2> HIDE DEF b
  <2>5. i \in Unvoted BY <2>3, <2>4 DEF Unvoted, Voted
  <2> HIDE DEF i
  <2> QED BY <1>1, <2>1, <2>2, <2>5, QueueType DEF OpenCalls
<1>5. ASSUME NEW d \in BOOLEAN, RelayBlockSend(d) PROVE OpenCalls'
  <2>1. rb'.req = rb.req BY <1>2, <1>5 DEF RelayBlockSend
  <2>2. \A m \in blockCalls' : m \in blockCalls \/ m.items = rb.req BY <1>5 DEF RelayBlockSend
  <2> QED BY <1>1, <2>1, <2>2 DEF OpenCalls
<1>6. CASE RelayBlockReturn
  <2>1. rb'.req = <<>> /\ UNCHANGED blockCalls BY <1>2, <1>6 DEF RelayBlockReturn
  <2> QED BY <1>1, <2>1 DEF OpenCalls
<1>7. ASSUME NEW m \in blockCalls, RelayBlockHandler(m) PROVE OpenCalls'
  <2> DEFINE k == [m EXCEPT !.items = Tail(@)]
  <2>1. m \in BlockCall /\ m.items # <<>> /\ m.items \in Seq(Unvoted)
    BY <1>1, <1>2, BlockCallType DEF OpenCalls
  <2>2. k.items \in Seq(Unvoted) BY <2>1, QueueType DEF BlockCall
  <2>3. UNCHANGED rb /\ blockCalls' \subseteq blockCalls \cup {k}
    BY <1>7 DEF RelayBlockHandler, Served, packVars
  <2> HIDE DEF k
  <2> QED BY <1>1, <2>2, <2>3 DEF OpenCalls
<1>8. ASSUME NEW m \in blockCalls, Abandon(m) PROVE OpenCalls'
  <2> DEFINE k == [m EXCEPT !.live = FALSE]
  <2>1. m \in BlockCall /\ m.items \in Seq(Unvoted) BY <1>1, <1>2 DEF OpenCalls
  <2>2. k.items \in Seq(Unvoted) BY <2>1 DEF BlockCall
  <2>3. UNCHANGED rb /\ blockCalls' \subseteq blockCalls \cup {k} BY <1>8 DEF Abandon, packVars
  <2> HIDE DEF k
  <2> QED BY <1>1, <2>2, <2>3 DEF OpenCalls
<1>9. CASE UNCHANGED <<rb, blockCalls>> BY <1>3, <1>9
<1>10. ASSUME NEW d \in BOOLEAN, RelayBlockEmpty \/ SyncPop \/ SyncLocal \/ RelayBlockSync(d)
       PROVE  OpenCalls'
  <2>1. rb'.req = rb.req /\ UNCHANGED blockCalls
    BY <1>2, <1>10 DEF RelayBlockEmpty, SyncPop, SyncLocal, RelayBlockSync
  <2> QED BY <1>3, <2>1
<1>11. TRUE \in BOOLEAN OBVIOUS
<1>12. CASE RelayLoop BY <1>4, <1>6, <1>10, <1>11, <1>12 DEF RelayLoop
<1>13. CASE \E d \in BOOLEAN : RelaySend(d) BY <1>5, <1>10, <1>13 DEF RelaySend
<1>14. CASE HandleBlock BY <1>7, <1>14 DEF HandleBlock
<1>15. CASE CallFails
  BY <1>8, <1>9, <1>15 DEF CallFails, RelayVoteFails, SPBcastCommitFails, packVars
<1>16. ASSUME NEW s \in Servers, NEW t \in Servers, Merge(s) \/ PeerCall(s, t) PROVE OpenCalls'
  BY <1>9, <1>16 DEF Merge, MergeVotes, PeerCall, RelayVote, SPBcastCommit, packVars
<1>17. ASSUME NEW c \in Clients, NEW d \in BOOLEAN,
              VoteSteps(c) \/ VoteFails(c) \/ PullSteps(c, d) \/ PullFails(c)
       PROVE  OpenCalls'
  BY <1>1, <1>9, <1>17, WayClient
<1>18. CASE Pack \/ UNCHANGED vars
  BY <1>9, <1>18 DEF Pack, PackPush, PackInsert, vars, serverVars, packVars
<1> QED BY <1>11, <1>12, <1>13, <1>14, <1>15, <1>16, <1>17, <1>18 DEF Next

LEMMA OpenNext ==
    ASSUME ServerCount = 2
    PROVE  OpenInv /\ [Next]_vars => OpenInv'
<1> SUFFICES ASSUME OpenInv, [Next]_vars PROVE OpenInv' OBVIOUS
<1>1. CertInv' /\ SyncedInv' /\ SentInv' BY NextCert, SyncedNext, SentNext DEF OpenInv
<1>2. Clients # {} BY ClientCountAssumption DEF Clients
<1>3. ASSUME NEW s \in Servers, NEW b \in Blocks
      PROVE  /\ b \in pending'[s] => votes'[s][b] # Clients
             /\ b \notin Holds(s)' => votes'[s][b] = {}
  <2>1. PoolStep(s, b) BY PoolStepNext
  <2>2. Holds(s) \subseteq Holds(s)' BY HoldsGrow DEF OpenInv, SentInv
  <2>3. /\ b \in pending[s] => votes[s][b] # Clients
        /\ b \notin Holds(s) => votes[s][b] = {}
    BY DEF OpenInv, OpenPools
  <2> QED BY <1>2, <2>1, <2>2, <2>3 DEF PoolStep
<1>4. OpenPools' BY <1>3 DEF OpenPools
<1> QED BY <1>1, <1>4, OpenCallsNext DEF OpenInv

LEMMA OpenInit == Init => OpenInv
<1> SUFFICES ASSUME Init PROVE OpenInv OBVIOUS
<1>1. Clients # {} BY ClientCountAssumption DEF Clients
<1>2. OpenPools BY <1>1 DEF Init, ServerInit, OpenPools
<1>3. OpenCalls BY DEF Init, ServerInit, OpenCalls
<1> QED BY <1>2, <1>3, InitCert, SyncedInit, SentInit DEF OpenInv

-----------------------------------------------------------------------------
(* A server offers the headers of blocks it has *)

SeenHeld ==
    /\ \A s \in Servers, c \in Clients : seen[s][c] \subseteq Holds(s)
    /\ \A c \in Clients : IsPull(c) => pull[c].todo \subseteq Holds(PullStub(c))

(* The servers' own threads, and the calls between them. *)
ServerStep ==
    \/ Pack \/ RelayLoop \/ HandleBlock \/ CallFails
    \/ \E d \in BOOLEAN : RelaySend(d)
    \/ \E s \in Servers : Merge(s)
    \/ \E s \in Servers : \E t \in Servers \ {s} : PeerCall(s, t)

(* A step of client c, with the handler of its call. *)
ClientStep(c) ==
    VoteSteps(c) \/ VoteFails(c) \/ PullFails(c) \/ \E d \in BOOLEAN : PullSteps(c, d)

LEMMA StepIs ==
    ASSUME [Next]_vars
    PROVE  ServerStep \/ (\E c \in Clients : ClientStep(c)) \/ UNCHANGED vars
BY DEF Next, ServerStep, ClientStep

LEMMA ServerStepKeeps ==
    ASSUME ServerStep
    PROVE  UNCHANGED <<hdrs, got, pull, vote, voted, seen>>
<1>1. UNCHANGED clientVars BY NoClientSteps DEF ServerStep
<1>2. UNCHANGED seen
  BY DEF ServerStep, Pack, PackPush, PackInsert, RelayLoop, RelayBlockPop, RelayBlockEmpty,
     RelayBlockReturn, SyncPop, SyncLocal, RelaySend, RelayBlockSend, RelayBlockSync, HandleBlock,
     RelayBlockHandler, CallFails, Abandon, RelayVoteFails, SPBcastCommitFails, Merge, MergeVotes,
     PeerCall, RelayVote, SPBcastCommit, labelVars
<1> QED BY <1>1, <1>2 DEF clientVars

(* A client's step leaves the other clients alone. *)
LEMMA ClientStepKeeps ==
    ASSUME TypeOK, NEW c \in Clients, ClientStep(c), NEW e \in Clients, e # c
    PROVE  /\ hdrs'[e] = hdrs[e] /\ got'[e] = got[e] /\ pull'[e] = pull[e] /\ vote'[e] = vote[e]
           /\ \A s \in Servers : seen'[s][e] = seen[s][e]
<1>1. TRUE \in BOOLEAN OBVIOUS
<1>2. hdrs'[e] = hdrs[e] /\ got'[e] = got[e] /\ pull'[e] = pull[e]
  BY <1>1, OtherClients DEF ClientStep
<1>3. vote \in [Clients -> [stub : {0, 1}, inserting : BOOLEAN]]
      /\ seen \in [Servers -> [Clients -> SUBSET Blocks]]
  BY DEF TypeOK, ServerTypeOK, ClientTypeOK
<1>4. \/ UNCHANGED vote \/ vote' = [vote EXCEPT ![c] = [stub |-> 1 - @.stub, inserting |-> FALSE]]
      \/ vote' = [vote EXCEPT ![c].inserting = TRUE]
  BY DEF ClientStep, VoteSteps, VoteFails, VoteBlocksRelay, VoteBlocksInsert, VoteEnds, VoteGoesOn,
     PullSteps, PullFails, PullSnapshot, PullVisit, GetVisit, PullStarts, CallVisits
<1>5. vote'[e] = vote[e] BY <1>3, <1>4
<1>6. UNCHANGED seen \/ \E t, v : seen' = [seen EXCEPT ![t][c] = v]
  BY DEF ClientStep, VoteSteps, VoteFails, VoteBlocksRelay, VoteBlocksInsert,
     PullSteps, PullFails, PullSnapshot, PullVisit, GetVisit, PullMark, serverVars, labelVars
<1>7. ASSUME NEW s \in Servers, NEW t, NEW v, seen' = [seen EXCEPT ![t][c] = v]
      PROVE  seen'[s][e] = seen[s][e]
  BY <1>3, <1>7
<1> QED BY <1>2, <1>5, <1>6, <1>7

LEMMA SeenPull ==
    ASSUME WayInv, SeenHeld, NEW c \in Clients, NEW d \in BOOLEAN, PullSteps(c, d) \/ PullFails(c)
    PROVE  /\ \A s \in Servers : seen'[s][c] \subseteq Holds(s)
           /\ IsPull(c)' => pull'[c].todo \subseteq Holds(PullStub(c)')
<1>1. TypeOK /\ seen \in [Servers -> [Clients -> SUBSET Blocks]] BY DEF WayInv, TypeOK, ServerTypeOK
<1>2. \A s \in Servers : seen[s][c] \subseteq Holds(s) BY DEF SeenHeld
<1>3. pull'[c].at = pull[c].at => PullStub(c)' = PullStub(c) /\ (IsPull(c)' <=> IsPull(c))
  BY DEF PullStub, IsPull
<1>4. ASSUME NEW h, NextCall(c, h) PROVE IsPull(c)' => pull'[c].todo = {}
  BY <1>1, <1>4, NextCallDoes DEF IsPull
<1>5. ASSUME NEW blocks \in SUBSET Holds(PullStub(c)), PullStarts(c, blocks)
      PROVE  IsPull(c)' => pull'[c].todo \subseteq Holds(PullStub(c)')
  <2>1. NextCall(c, hdrs[c]) \/ (pull'[c].at = pull[c].at /\ pull'[c].todo = blocks)
    BY <1>1, <1>5, PullStartsDoes
  <2> QED BY <1>3, <1>4, <2>1
<1>6. CASE PullSnapshot(c)
  <2>1. pending[PullStub(c)] \ seen[PullStub(c)][c] \in SUBSET Holds(PullStub(c)) BY DEF Holds
  <2> QED BY <1>2, <1>5, <1>6, <2>1 DEF PullSnapshot, serverVars, labelVars
<1>7. CASE PullFails(c)
  <2>1. {} \in SUBSET Holds(PullStub(c)) OBVIOUS
  <2> QED BY <1>2, <1>5, <1>7, <2>1 DEF PullFails, serverVars, labelVars
<1>8. ASSUME NEW b \in Blocks, NEW a \in BOOLEAN, CallVisits(c, b, a, d)
      PROVE  IsPull(c)' => pull'[c].todo \subseteq Holds(PullStub(c)')
  <2>1. \/ pull'[c].at = pull[c].at /\ pull'[c].todo = pull[c].todo \ {b}
        \/ NextCall(c, hdrs'[c])
    BY <1>1, <1>8, CallVisitsDoes
  <2> QED BY <1>3, <1>4, <2>1 DEF SeenHeld
<1>9. ASSUME NEW b \in Blocks, PullVisit(c, b, d)
      PROVE  /\ \A s \in Servers : seen'[s][c] \subseteq Holds(s)
             /\ IsPull(c)' => pull'[c].todo \subseteq Holds(PullStub(c)')
  <2>1. PullSends(PullStub(c), b, c) \in BOOLEAN BY DEF PullSends
  <2>2. b \in Holds(PullStub(c)) BY <1>9 DEF PullVisit, CallVisits, SeenHeld
  <2>3. PICK t : t = PullStub(c) OBVIOUS
  <2>4. PICK v \in {seen[t][c], seen[t][c] \cup {b}} : seen' = [seen EXCEPT ![t][c] = v]
    BY <1>9, <2>3 DEF PullVisit, PullMark
  <2>5. \A s \in Servers : seen'[s][c] = IF s = t THEN v ELSE seen[s][c] BY <1>1, <2>4
  <2>6. \A s \in Servers : seen'[s][c] \subseteq Holds(s) BY <1>2, <2>2, <2>3, <2>4, <2>5
  <2> QED BY <1>8, <1>9, <2>1, <2>6 DEF PullVisit
<1>10. ASSUME NEW b \in Blocks, GetVisit(c, b, d)
       PROVE  /\ \A s \in Servers : seen'[s][c] \subseteq Holds(s)
              /\ IsPull(c)' => pull'[c].todo \subseteq Holds(PullStub(c)')
  <2>1. (b \in pending[PullStub(c)]) \in BOOLEAN OBVIOUS
  <2>2. CallVisits(c, b, b \in pending[PullStub(c)], d) BY <1>10 DEF GetVisit
  <2>3. PICK a \in BOOLEAN : CallVisits(c, b, a, d) BY <2>1, <2>2, Zenon
  <2> QED BY <1>2, <1>8, <1>10, <2>3 DEF GetVisit, serverVars, labelVars
<1> QED BY <1>6, <1>7, <1>9, <1>10 DEF PullSteps

LEMMA SeenNext ==
    ASSUME WayInv, SeenHeld, [Next]_vars
    PROVE  SeenHeld'
<1>1. TypeOK BY DEF WayInv
<1>2. \A s \in Servers : Holds(s) \subseteq Holds(s)' BY HoldsGrow
<1>3. ASSUME TypeOK', NEW c \in Clients
      PROVE  PullStub(c)' \in Servers
  BY <1>3, StubIsServer DEF PullStub
<1>4. TypeOK' BY <1>1, NextType
<1>5. ASSUME NEW c \in Clients
      PROVE  /\ \A s \in Servers : seen'[s][c] \subseteq Holds(s)
             /\ IsPull(c)' => pull'[c].todo \subseteq Holds(PullStub(c)')
  <2>1. CASE pull'[c] = pull[c] /\ \A s \in Servers : seen'[s][c] = seen[s][c]
    BY <2>1 DEF SeenHeld, IsPull, PullStub
  <2>2. CASE ServerStep BY <2>1, <2>2, ServerStepKeeps
  <2>3. CASE UNCHANGED vars BY <2>1, <2>3 DEF vars, serverVars, labelVars, clientVars
  <2>4. ASSUME NEW e \in Clients, ClientStep(e), e # c
        PROVE  pull'[c] = pull[c] /\ \A s \in Servers : seen'[s][c] = seen[s][c]
    BY <1>1, <2>4, ClientStepKeeps
  <2>5. CASE ClientStep(c)
    <3>1. CASE VoteSteps(c) \/ VoteFails(c)
      <4>1. UNCHANGED <<pull, seen>>
        BY <3>1 DEF VoteSteps, VoteFails, VoteBlocksRelay, VoteBlocksInsert, VoteEnds, VoteGoesOn,
           serverVars, labelVars
      <4> QED BY <2>1, <4>1
    <3>2. TRUE \in BOOLEAN OBVIOUS
    <3> QED BY <2>5, <3>1, <3>2, SeenPull DEF ClientStep
  <2> QED BY <2>1, <2>2, <2>3, <2>4, <2>5, StepIs
<1>6. ASSUME NEW c \in Clients, IsPull(c)' PROVE pull'[c].todo \subseteq Holds(PullStub(c))'
  <2>1. PICK s \in Servers : s = PullStub(c)' BY <1>3, <1>4
  <2>2. pull'[c].todo \subseteq Holds(s) BY <1>5, <1>6, <2>1
  <2>3. pull'[c].todo \subseteq Holds(s)' BY <1>2, <2>2
  <2> QED BY <2>1, <2>3 DEF Holds
<1> QED BY <1>2, <1>5, <1>6 DEF SeenHeld

LEMMA SeenInit == Init => SeenHeld
BY DEF Init, ServerInit, ClientInit, SeenHeld

-----------------------------------------------------------------------------
(* A block whose header was offered is on its way to a vote *)

(* Client c has still to send its vote on b to server s. *)
ToVote(c, s, b) ==
    \E i \in 1 .. Len(got[c]) : got[c][i] = b /\ (i = 1 /\ vote[c].stub = 1 => s = Stub(c, 1))

(* Where the work of c on a block s has offered is: its header is held, or *)
(* in an answer, the block waits to be voted on, or the vote is in.        *)
AtWork(s, c, b) ==
    \/ b \in hdrs[c]
    \/ IsPull(c) /\ s = PullStub(c) /\ b \in Ids(pull[c].resp)
    \/ ToVote(c, s, b)
    \/ c \in votes[s][b]

OfferedTo(s, c) == \A b \in seen[s][c] \cap pending[s] : AtWork(s, c, b)

Offered(s) == \A c \in Clients : OfferedTo(s, c)

(* A vote goes to stub 1 while its block is at the head of the queue. *)
Voting == \A c \in Clients : vote[c].stub = 1 => got[c] # <<>>

LEMMA OfferedFrame ==
    ASSUME OpenInv, SeenHeld, [Next]_vars, NEW s \in Servers, NEW c \in Clients, OfferedTo(s, c),
           hdrs'[c] = hdrs[c], got'[c] = got[c], pull'[c] = pull[c], vote'[c] = vote[c],
           seen'[s][c] = seen[s][c]
    PROVE  OfferedTo(s, c)'
<1> SUFFICES ASSUME NEW b \in seen[s][c], b \in pending'[s] PROVE AtWork(s, c, b)'
  BY DEF OfferedTo
<1>1. b \in Blocks /\ b \in Holds(s)
  BY DEF OpenInv, CertInv, TypeOK, ServerTypeOK, SeenHeld
<1>2. b \in pending[s] /\ votes[s][b] \subseteq votes'[s][b] BY <1>1, PoolStepNext DEF PoolStep
<1>3. AtWork(s, c, b) BY <1>2 DEF OfferedTo
<1> QED BY <1>2, <1>3 DEF AtWork, ToVote, IsPull, PullStub

(* The vote thread is done with the head of its queue at one more stub. *)
LEMMA VoteEndsDoes ==
    ASSUME ServerCount = 2, TypeOK, NEW c \in Clients, got[c] # <<>>, VoteEnds(c),
           NEW s \in Servers, NEW b, ToVote(c, s, b)
    PROVE  ToVote(c, s, b)' \/ (b = Head(got[c]) /\ s = VoteStub(c))
<1>1. /\ got \in [Clients -> Seq(Blocks)]
      /\ vote \in [Clients -> [stub : {0, 1}, inserting : BOOLEAN]]
  BY DEF TypeOK, ClientTypeOK
<1>2. PICK i \in 1 .. Len(got[c]) : got[c][i] = b /\ (i = 1 /\ vote[c].stub = 1 => s = Stub(c, 1))
  BY DEF ToVote
<1>3. /\ vote'[c].stub = 1 - vote[c].stub /\ vote[c].stub \in {0, 1}
      /\ got'[c] = IF vote[c].stub = 1 THEN Tail(got[c]) ELSE got[c]
  BY <1>1 DEF VoteEnds
<1>4. CASE i = 1
  <2>1. b = Head(got[c]) BY <1>1, <1>2, <1>4
  <2>2. s = Stub(c, 0) \/ s = Stub(c, 1) BY TwoServers
  <2>3. CASE vote[c].stub = 1 BY <1>2, <1>4, <2>1, <2>3 DEF VoteStub
  <2>4. CASE vote[c].stub = 0 /\ s = Stub(c, 0) BY <2>1, <2>4 DEF VoteStub
  <2>5. CASE vote[c].stub = 0 /\ s = Stub(c, 1)
    <3>1. got'[c] = got[c] BY <1>3, <2>5
    <3> QED BY <1>2, <2>5, <3>1 DEF ToVote
  <2> QED BY <1>3, <2>2, <2>3, <2>4, <2>5
<1>5. CASE i # 1 /\ vote[c].stub = 0
  <2>1. got'[c] = got[c] BY <1>3, <1>5
  <2> QED BY <1>2, <1>5, <2>1 DEF ToVote
<1>6. CASE i # 1 /\ vote[c].stub = 1
  <2>1. got'[c] = Tail(got[c]) /\ vote'[c].stub = 0 BY <1>3, <1>6
  <2>2. i - 1 \in 1 .. Len(Tail(got[c])) /\ Tail(got[c])[i - 1] = b BY <1>1, <1>2, <1>6
  <2> QED BY <2>1, <2>2 DEF ToVote
<1> QED BY <1>3, <1>4, <1>5, <1>6

LEMMA OfferedVote ==
    ASSUME ServerCount = 2, OpenInv, SeenHeld, [Next]_vars, NEW s \in Servers, NEW c \in Clients,
           OfferedTo(s, c), VoteSteps(c) \/ (VoteFails(c) /\ s # VoteStub(c))
    PROVE  OfferedTo(s, c)'
<1>1. TypeOK BY DEF OpenInv, CertInv
<1>2. /\ got \in [Clients -> Seq(Blocks)]
      /\ vote \in [Clients -> [stub : {0, 1}, inserting : BOOLEAN]]
      /\ \A e \in Clients : vote[e].inserting => got[e] # <<>>
  BY <1>1 DEF TypeOK, ClientTypeOK
<1>3. got[c] # <<>> BY <1>2 DEF VoteSteps, VoteFails, VoteBlocksRelay, VoteBlocksInsert, VoteBegins
<1>4. Head(got[c]) \in Blocks /\ VoteStub(c) \in Servers
  BY <1>2, <1>3, QueueType, StubIsServer DEF VoteStub
<1>5. UNCHANGED <<hdrs, pull, seen>>
  BY DEF VoteSteps, VoteFails, VoteBlocksRelay, VoteBlocksInsert, VoteEnds, VoteGoesOn,
     serverVars, labelVars
<1> SUFFICES ASSUME NEW b \in seen[s][c], b \in pending'[s] PROVE AtWork(s, c, b)'
  BY <1>5 DEF OfferedTo
<1>6. b \in Blocks /\ b \in Holds(s) BY <1>1 DEF TypeOK, ServerTypeOK, SeenHeld
<1>7. b \in pending[s] /\ votes[s][b] \subseteq votes'[s][b] BY <1>6, PoolStepNext DEF PoolStep
<1>8. AtWork(s, c, b) BY <1>7 DEF OfferedTo
<1>9. CASE ~ToVote(c, s, b) BY <1>5, <1>7, <1>8, <1>9 DEF AtWork, IsPull, PullStub
<1>10. CASE ToVote(c, s, b)
  <2>1. CASE VoteBlocksRelay(c)
    <3>1. VoteGoesOn(c) BY <1>4, <2>1, TwoServers DEF VoteBlocksRelay
    <3>2. got'[c] = got[c] /\ vote'[c].stub = vote[c].stub BY <1>2, <3>1 DEF VoteGoesOn
    <3> QED BY <1>10, <3>2 DEF AtWork, ToVote
  <2>2. CASE VoteBlocksInsert(c)
    <3>1. ToVote(c, s, b)' \/ (b = Head(got[c]) /\ s = VoteStub(c))
      BY <1>1, <1>3, <1>10, <2>2, VoteEndsDoes DEF VoteBlocksInsert
    <3>2. ASSUME b = Head(got[c]), s = VoteStub(c) PROVE c \in votes'[s][b]
      <4>1. TRUE \in BOOLEAN OBVIOUS
      <4>2. Holds(s)' = Holds(s) BY <2>2, <4>1, WayClient DEF OpenInv, SentInv, VoteSteps
      <4>3. InsertVote(s, b, c) BY <2>2, <3>2 DEF VoteBlocksInsert
      <4> QED BY <1>1, <1>6, <4>2, <4>3, PoolStepInsert
    <3> QED BY <3>1, <3>2 DEF AtWork
  <2>3. CASE VoteFails(c) /\ s # VoteStub(c)
    BY <1>1, <1>3, <1>10, <2>3, VoteEndsDoes DEF VoteFails, AtWork
  <2> QED BY <2>1, <2>2, <2>3 DEF VoteSteps
<1> QED BY <1>9, <1>10

(* What is appended to the vote queue has both its votes ahead. *)
LEMMA ToVoteAppend ==
    ASSUME TypeOK, Voting, NEW c \in Clients, NEW r \in Seq(Blocks), got'[c] = got[c] \o r,
           UNCHANGED vote, NEW s, NEW b, ToVote(c, s, b) \/ b \in Ids(r)
    PROVE  ToVote(c, s, b)'
<1>1. got[c] \in Seq(Blocks) BY DEF TypeOK, ClientTypeOK
<1>2. Len(got'[c]) = Len(got[c]) + Len(r) /\ Len(got[c]) \in Nat /\ Len(r) \in Nat BY <1>1
<1>3. CASE ToVote(c, s, b)
  <2>1. PICK i \in 1 .. Len(got[c]) : got[c][i] = b /\ (i = 1 /\ vote[c].stub = 1 => s = Stub(c, 1))
    BY <1>3 DEF ToVote
  <2>2. i \in 1 .. Len(got'[c]) /\ got'[c][i] = got[c][i] BY <1>1, <1>2, <2>1
  <2> QED BY <2>1, <2>2 DEF ToVote
<1>4. CASE b \in Ids(r)
  <2>1. PICK i \in 1 .. Len(r) : r[i] = b BY <1>4 DEF Ids
  <2>2. Len(got[c]) + i \in 1 .. Len(got'[c]) /\ got'[c][Len(got[c]) + i] = b BY <1>1, <1>2, <2>1
  <2>3. Len(got[c]) + i = 1 => got[c] = <<>> BY <1>1, <1>2, <2>1
  <2>4. Len(got[c]) + i = 1 => vote[c].stub # 1 BY <2>3 DEF Voting
  <2> QED BY <2>2, <2>4 DEF ToVote
<1> QED BY <1>3, <1>4

(* The answers: what the server marks as seen gets to the client, if the   *)
(* answer does.                                                            *)
LEMMA OfferedVisit ==
    ASSUME TypeOK, Voting, UNCHANGED <<pending, votes>>, NEW s \in Servers, NEW c \in Clients,
           OfferedTo(s, c), NEW b \in Blocks, NEW a \in BOOLEAN, NEW d \in BOOLEAN,
           CallVisits(c, b, a, d),
           IF IsPull(c) /\ a /\ s = PullStub(c)
           THEN d /\ seen'[s][c] = seen[s][c] \cup {b}
           ELSE seen'[s][c] = seen[s][c],
           IsPull(c) /\ s = PullStub(c) => d
    PROVE  OfferedTo(s, c)'
<1> SUFFICES ASSUME NEW x \in seen'[s][c] \cap pending[s] PROVE AtWork(s, c, x)'
  BY DEF OfferedTo
<1> DEFINE ans == Answer(c, b, a)
<1>1. /\ UNCHANGED <<vote, voted>>
      /\ \/ /\ pull'[c].busy /\ pull'[c].at = pull[c].at
            /\ pull'[c].todo = pull[c].todo \ {b} /\ pull'[c].resp = ans
            /\ UNCHANGED <<hdrs, got>>
         \/ /\ NextCall(c, hdrs'[c])
            /\ \/ ~d /\ UNCHANGED <<hdrs, got>>
               \/ IsPull(c) /\ hdrs'[c] = hdrs[c] \cup Ids(ans) /\ got' = got
               \/ ~IsPull(c) /\ hdrs'[c] = hdrs[c] \ Ids(ans) /\ got'[c] = got[c] \o ans
  BY CallVisitsDoes
<1>2. pull[c].resp \in Seq(Blocks) BY DEF TypeOK, ClientTypeOK
<1>3. ans \in Seq(Blocks) /\ Ids(ans) = IF a THEN Ids(pull[c].resp) \cup {b} ELSE Ids(pull[c].resp)
  <2>1. CASE a
    <3>1. PICK q \in Seq(Blocks) : q = pull[c].resp BY <1>2
    <3>2. Append(q, b) \in Seq(Blocks) /\ Ids(Append(q, b)) = Ids(q) \cup {b} BY IdsAppend, QueueType
    <3>3. ans = Append(q, b) BY <2>1, <3>1 DEF Answer
    <3> HIDE DEF ans
    <3> QED BY <2>1, <3>1, <3>2, <3>3
  <2>2. CASE ~a BY <1>2, <2>2 DEF Answer
  <2> QED BY <2>1, <2>2
<1> HIDE DEF ans
<1>4. \/ AtWork(s, c, x)
      \/ IsPull(c) /\ s = PullStub(c) /\ x \in Ids(ans)
  <2>1. CASE x \in seen[s][c] BY <2>1 DEF OfferedTo
  <2>2. CASE x \notin seen[s][c] BY <1>3, <2>2
  <2> QED BY <2>1, <2>2
<1>5. \/ x \in hdrs[c] \/ ToVote(c, s, x) \/ c \in votes[s][x]
      \/ IsPull(c) /\ s = PullStub(c) /\ x \in Ids(ans)
  BY <1>3, <1>4 DEF AtWork
<1>6. CASE pull'[c].at = pull[c].at /\ pull'[c].resp = ans /\ UNCHANGED <<hdrs, got>>
  BY <1>1, <1>5, <1>6 DEF AtWork, IsPull, PullStub, ToVote
<1>7. CASE ~d /\ UNCHANGED <<hdrs, got>>
  BY <1>1, <1>5, <1>7 DEF AtWork, ToVote
<1>8. CASE IsPull(c) /\ hdrs'[c] = hdrs[c] \cup Ids(ans) /\ got' = got
  BY <1>1, <1>5, <1>8 DEF AtWork, ToVote
<1>9. CASE ~IsPull(c) /\ hdrs'[c] = hdrs[c] \ Ids(ans) /\ got'[c] = got[c] \o ans
  <2>1. CASE ToVote(c, s, x) \/ x \in Ids(ans)
    BY <1>1, <1>3, <1>9, <2>1, ToVoteAppend DEF AtWork
  <2>2. CASE c \in votes[s][x] BY <2>2 DEF AtWork
  <2> QED BY <1>5, <1>9, <2>1, <2>2 DEF AtWork
<1> QED BY <1>1, <1>6, <1>7, <1>8, <1>9

LEMMA OfferedPull ==
    ASSUME TypeOK, Voting, WorkInv, NEW s \in Servers, NEW c \in Clients, NEW d \in BOOLEAN,
           OfferedTo(s, c), PullSteps(c, d) \/ PullFails(c), d \/ s # PullStub(c) \/ ~IsPull(c)
    PROVE  OfferedTo(s, c)'
<1>1. UNCHANGED <<pending, votes>>
  BY DEF PullSteps, PullFails, PullSnapshot, PullVisit, GetVisit, serverVars, poolVars
<1>2. seen \in [Servers -> [Clients -> SUBSET Blocks]] BY DEF TypeOK, ServerTypeOK
<1>3. CASE PullSnapshot(c) \/ PullFails(c)
  <2>1. UNCHANGED seen BY <1>3 DEF PullSnapshot, PullFails, serverVars, labelVars
  <2>2. UNCHANGED <<hdrs, got, vote>> /\ ~pull[c].busy
    BY <1>3, PullStartsDoes DEF PullSnapshot, PullFails
  <2>3. Ids(pull[c].resp) = {} BY <2>2, IdsEmpty DEF WorkInv, WorkClient
  <2> QED BY <1>1, <2>1, <2>2, <2>3 DEF OfferedTo, AtWork, ToVote
<1>4. ASSUME NEW b \in Blocks, PullVisit(c, b, d) PROVE OfferedTo(s, c)'
  <2>1. PullSends(PullStub(c), b, c) \in BOOLEAN BY DEF PullSends
  <2>2. PICK t : t = PullStub(c) OBVIOUS
  <2>3. PICK a \in BOOLEAN :
           /\ CallVisits(c, b, a, d)
           /\ seen' = [seen EXCEPT ![t][c] = IF a THEN @ \cup {b} ELSE @]
    <3>1. /\ CallVisits(c, b, PullSends(t, b, c), d)
          /\ seen' = [seen EXCEPT ![t][c] = IF PullSends(t, b, c) THEN @ \cup {b} ELSE @]
      BY <1>4, <2>2 DEF PullVisit, PullMark
    <3>2. PullSends(t, b, c) \in BOOLEAN BY DEF PullSends
    <3> QED BY <3>1, <3>2, Zenon
  <2>4. IsPull(c) BY <1>4 DEF PullVisit
  <2>5. seen'[s][c] = IF s = t /\ a THEN seen[s][c] \cup {b} ELSE seen[s][c] BY <1>2, <2>3
  <2> QED BY <1>1, <2>2, <2>3, <2>4, <2>5, OfferedVisit
<1>5. ASSUME NEW b \in Blocks, GetVisit(c, b, d) PROVE OfferedTo(s, c)'
  <2>1. (b \in pending[PullStub(c)]) \in BOOLEAN OBVIOUS
  <2>2. CallVisits(c, b, b \in pending[PullStub(c)], d) /\ ~IsPull(c) BY <1>5 DEF GetVisit
  <2>3. PICK a \in BOOLEAN : CallVisits(c, b, a, d) BY <2>1, <2>2, Zenon
  <2>4. seen'[s][c] = seen[s][c] BY <1>5 DEF GetVisit, serverVars, labelVars
  <2> QED BY <1>1, <2>2, <2>3, <2>4, OfferedVisit
<1> QED BY <1>3, <1>4, <1>5 DEF PullSteps

LEMMA VotingNext ==
    ASSUME TypeOK, Voting, [Next]_vars
    PROVE  Voting'
<1> SUFFICES ASSUME NEW c \in Clients, vote'[c].stub = 1 PROVE got'[c] # <<>>
  BY DEF Voting
<1>1. /\ got \in [Clients -> Seq(Blocks)]
      /\ vote \in [Clients -> [stub : {0, 1}, inserting : BOOLEAN]]
      /\ \A e \in Clients : vote[e].inserting => got[e] # <<>>
  BY DEF TypeOK, ClientTypeOK
<1>2. CASE got'[c] = got[c] /\ vote'[c] = vote[c] BY <1>2 DEF Voting
<1>3. CASE ServerStep BY <1>2, <1>3, ServerStepKeeps
<1>4. CASE UNCHANGED vars BY <1>2, <1>4 DEF vars, clientVars
<1>5. ASSUME NEW e \in Clients, ClientStep(e), e # c PROVE got'[c] # <<>>
  BY <1>2, <1>5, ClientStepKeeps
<1>6. CASE VoteSteps(c) \/ VoteFails(c)
  <2>1. got[c] # <<>>
    BY <1>1, <1>6 DEF VoteSteps, VoteFails, VoteBlocksRelay, VoteBlocksInsert, VoteBegins
  <2>2. VoteEnds(c) \/ VoteGoesOn(c)
    BY <1>6 DEF VoteSteps, VoteFails, VoteBlocksRelay, VoteBlocksInsert
  <2>3. CASE VoteGoesOn(c) BY <2>1, <2>3 DEF VoteGoesOn
  <2>4. CASE VoteEnds(c)
    <3>1. vote'[c].stub = 1 - vote[c].stub BY <1>1, <2>4 DEF VoteEnds
    <3>2. vote[c].stub # 1 BY <1>1, <3>1
    <3> QED BY <2>1, <2>4, <3>2 DEF VoteEnds
  <2> QED BY <2>2, <2>3, <2>4
<1>7. ASSUME NEW d \in BOOLEAN, PullSteps(c, d) \/ PullFails(c) PROVE got'[c] # <<>>
  <2>1. UNCHANGED vote
    BY <1>7 DEF PullSteps, PullFails, PullSnapshot, PullVisit, GetVisit, PullStarts, CallVisits
  <2>2. got[c] # <<>> BY <2>1 DEF Voting
  <2>3. CASE PullSnapshot(c) \/ PullFails(c)
    BY <2>2, <2>3, PullStartsDoes DEF PullSnapshot, PullFails
  <2>4. ASSUME NEW b \in Blocks, NEW a \in BOOLEAN, CallVisits(c, b, a, d) PROVE got'[c] # <<>>
    <3>1. pull[c].resp \in Seq(Blocks) BY DEF TypeOK, ClientTypeOK
    <3>2. Answer(c, b, a) \in Seq(Blocks) BY <3>1 DEF Answer
    <3>3. got'[c] = got[c] \/ got'[c] = got[c] \o Answer(c, b, a) BY <2>4, CallVisitsDoes
    <3> QED BY <1>1, <2>2, <3>2, <3>3
  <2>5. ASSUME NEW b \in Blocks, PullVisit(c, b, d) \/ GetVisit(c, b, d)
        PROVE  \E a \in BOOLEAN : CallVisits(c, b, a, d)
    <3>1. PullSends(PullStub(c), b, c) \in BOOLEAN BY DEF PullSends
    <3>2. (b \in pending[PullStub(c)]) \in BOOLEAN OBVIOUS
    <3> QED BY <2>5, <3>1, <3>2, Zenon DEF PullVisit, GetVisit
  <2> QED BY <1>7, <2>3, <2>4, <2>5 DEF PullSteps
<1>8. TRUE \in BOOLEAN OBVIOUS
<1> QED BY <1>3, <1>4, <1>5, <1>6, <1>7, <1>8, StepIs DEF ClientStep

-----------------------------------------------------------------------------
(* A packed block is stored, or on its way, and its signal too *)

Stored(s) == Handed(s) \subseteq OnWay(s)

Signal == {b \in Blocks : rb.pc = "signal" /\ b = rb.blk}

(* The blocks handed out for peer t whose signal has been sent to s, is    *)
(* being sent, or will be.                                                 *)
SignalWay(t, s) ==
    Ids(relayBlocks[t]) \cup BlocksOf(rb.req) \cup Ids(syncQ) \cup Signal \cup labels[s]

Signalled(s) ==
    /\ \A t \in Peers : Handed(t) \subseteq SignalWay(t, s)
    /\ rb.pc = "signal" /\ s < rb.tgt => rb.blk \in labels[s]

Intact(s) == Offered(s) /\ Stored(s) /\ Signalled(s)

LEMMA HandedExactly ==
    ASSUME TypeOK, Pack, NEW t \in Servers
    PROVE  Handed(t)' \subseteq Handed(t) \cup (IF t = pack.tgt THEN {pack.blk} ELSE {})
<1>1. pack \in [blk : FirstBlock .. (FirstBlock + MaxBlocks), tgt : Servers]
  BY DEF TypeOK, ServerTypeOK
<1>2. /\ pack.blk \in Nat /\ pack.tgt \in Nat /\ Blocks \subseteq Nat /\ t \in Nat
      /\ Packer \in Nat /\ t >= 1 /\ t <= Packer
  BY <1>1, BlockIds, PackerIsServer, ServerCountAssumption DEF Pack, PackPush, PackInsert, Servers, Packer
<1>3. \/ pack'.blk = pack.blk /\ pack'.tgt = pack.tgt + 1
      \/ pack'.blk = pack.blk + 1 /\ pack'.tgt = 1 /\ pack.tgt = Packer
  BY <1>1 DEF Pack, PackPush, PackInsert
<1> SUFFICES ASSUME NEW b \in Handed(t)', ~(t = pack.tgt /\ b = pack.blk) PROVE b \in Handed(t)
  OBVIOUS
<1>4. b \in Blocks /\ b \in Nat /\ (pack'.blk > b \/ (pack'.blk = b /\ pack'.tgt > t))
  BY <1>2 DEF Handed
<1>5. pack.blk > b \/ (pack.blk = b /\ pack.tgt > t) BY <1>2, <1>3, <1>4
<1> QED BY <1>4, <1>5 DEF Handed

LEMMA WayPackKeeps ==
    ASSUME WayInv, Pack, NEW s \in Servers
    PROVE  /\ Stored(s) => Stored(s)'
           /\ Signalled(s) => Signalled(s)'
<1>1. TypeOK /\ relayBlocks \in [Servers -> Seq(Blocks)] /\ pending \in [Servers -> SUBSET Blocks]
  BY DEF WayInv, TypeOK, ServerTypeOK
<1>2. UNCHANGED <<rb, blockCalls, syncQ, labels>> BY DEF Pack, PackPush, PackInsert, labelVars
<1>3. pack.blk \in Blocks /\ pack.tgt \in Servers BY <1>1, HandedStep
<1>4. \A t \in Servers : Handed(t)' \subseteq Handed(t) \cup (IF t = pack.tgt THEN {pack.blk} ELSE {})
  BY <1>1, HandedExactly
<1>5. \A t \in Servers : Holds(t) \subseteq Holds(t)' BY HoldsGrow DEF Next
<1>6. \A t \in Servers : Filling(t)' = Filling(t) /\ InCalls(t)' = InCalls(t)
  BY <1>2 DEF Filling, InCalls
<1>7. Signal' = Signal BY <1>2 DEF Signal
<1>8. ASSUME NEW t \in Servers
      PROVE  /\ Ids(relayBlocks[t]) \subseteq Ids(relayBlocks'[t])
             /\ t = pack.tgt => pack.blk \in Ids(relayBlocks'[t]) \/ (t = Packer /\ pack.blk \in Holds(t)')
  <2>1. CASE PackPush
    <3>1. CASE t = pack.tgt
      <4>1. relayBlocks'[t] = Append(relayBlocks[t], pack.blk) BY <1>1, <1>3, <2>1, <3>1 DEF PackPush
      <4>2. relayBlocks[t] \in Seq(Blocks) BY <1>1
      <4> QED BY <1>3, <4>1, <4>2, IdsAppend
    <3>2. CASE t # pack.tgt
      <4>1. relayBlocks'[t] = relayBlocks[t] BY <1>1, <1>3, <2>1, <3>2 DEF PackPush
      <4> QED BY <3>2, <4>1
    <3> QED BY <3>1, <3>2
  <2>2. CASE PackInsert
    <3>1. UNCHANGED relayBlocks /\ pack.tgt = Packer /\ pack.blk \in pending'[Packer]
      BY <1>1, <2>2, PackerIsServer DEF PackInsert
    <3> QED BY <3>1 DEF Holds
  <2> QED BY <2>1, <2>2 DEF Pack
<1>9. OnWay(s) \subseteq OnWay(s)' BY <1>5, <1>6, <1>8 DEF OnWay
<1>10. Stored(s) => Stored(s)'
  <2>1. s = pack.tgt => pack.blk \in OnWay(s)' BY <1>8 DEF OnWay
  <2> QED BY <1>4, <1>9, <2>1 DEF Stored
<1>11. ASSUME Signalled(s) PROVE Signalled(s)'
  <2>1. ASSUME NEW t \in Peers PROVE Handed(t)' \subseteq SignalWay(t, s)'
    <3>1. t \in Servers /\ t # Packer BY DEF Peers
    <3>2. Handed(t) \subseteq SignalWay(t, s) BY <1>11 DEF Signalled
    <3>3. SignalWay(t, s) \subseteq SignalWay(t, s)' BY <1>2, <1>7, <1>8, <3>1 DEF SignalWay
    <3>4. t = pack.tgt => pack.blk \in SignalWay(t, s)' BY <1>8, <3>1 DEF SignalWay
    <3> QED BY <1>4, <3>1, <3>2, <3>3, <3>4
  <2> QED BY <1>2, <1>11, <2>1 DEF Signalled
<1> QED BY <1>10, <1>11

LEMMA StoredRelay ==
    ASSUME WayInv, NEW d \in BOOLEAN, RelayLoop \/ RelaySend(d), NEW s \in Servers,
           d \/ rb.tgt # s
    PROVE  Stored(s) => Stored(s)'
<1>1. /\ rb \in [pc : {"pop", "wait", "signal"}, tgt : Servers,
                 req : Seq(Voted), blk : Blocks \cup {NoBlock}]
      /\ relayBlocks \in [Servers -> Seq(Blocks)]
      /\ votes \in [Servers -> [Blocks -> SUBSET Clients]]
  BY DEF WayInv, TypeOK, ServerTypeOK
<1>2. UNCHANGED <<pack, pending, mergeQ, committed>>
  BY DEF RelayLoop, RelaySend, RelayBlockPop, RelayBlockEmpty, RelayBlockReturn, SyncPop, SyncLocal,
     RelayBlockSend, RelayBlockSync, poolVars
<1>3. Handed(s)' = Handed(s) /\ Holds(s)' = Holds(s) BY <1>2 DEF Handed, Holds
<1> SUFFICES OnWay(s) \subseteq OnWay(s)' BY <1>3 DEF Stored
<1>4. CASE RelayBlockPop
  <2> DEFINE b == Head(relayBlocks[rb.tgt])
             i == [blk |-> b, votes |-> votes[Packer][b]]
  <2>1. /\ rb.tgt \in Servers /\ relayBlocks[rb.tgt] # <<>> /\ relayBlocks[rb.tgt] \in Seq(Blocks)
        /\ rb.pc = "pop" /\ UNCHANGED blockCalls
    BY <1>1, <1>4 DEF RelayBlockPop
  <2>2. /\ rb'.req = Append(rb.req, i) /\ rb'.pc = "pop" /\ rb'.tgt = rb.tgt
        /\ relayBlocks' = [relayBlocks EXCEPT ![rb.tgt] = Tail(@)]
    BY <1>1, <1>4 DEF RelayBlockPop
  <2>3. Ids(relayBlocks[rb.tgt]) = Ids(Tail(relayBlocks[rb.tgt])) \cup {b} /\ b \in Blocks
    BY <2>1, IdsTail, QueueType
  <2> HIDE DEF b
  <2>4. i \in Voted /\ i.blk = b BY <1>1, <2>3, PackerIsServer DEF Voted
  <2> HIDE DEF i
  <2>5. BlocksOf(rb'.req) = BlocksOf(rb.req) \cup {b} BY <1>1, <2>2, <2>4, BlocksAppend
  <2>6. InCalls(s)' = InCalls(s) BY <2>1 DEF InCalls
  <2>7. CASE s = rb.tgt
    <3>1. /\ Filling(s) = BlocksOf(rb.req) /\ Filling(s)' = BlocksOf(rb'.req)
      BY <2>1, <2>2, <2>7 DEF Filling
    <3>2. relayBlocks'[s] = Tail(relayBlocks[s]) BY <1>1, <2>2, <2>7
    <3> QED BY <1>3, <2>3, <2>5, <2>6, <2>7, <3>1, <3>2 DEF OnWay
  <2>8. CASE s # rb.tgt
    <3>1. Filling(s) = {} BY <2>8 DEF Filling
    <3>2. relayBlocks'[s] = relayBlocks[s] BY <1>1, <2>2, <2>8
    <3> QED BY <1>3, <2>6, <3>1, <3>2 DEF OnWay
  <2> QED BY <2>7, <2>8
<1>5. CASE RelayBlockSend(d)
  <2>1. CASE d
    <3> DEFINE m == [dst |-> rb.tgt, live |-> TRUE, items |-> rb.req]
    <3>1. blockCalls' = blockCalls \cup {m} /\ UNCHANGED relayBlocks BY <1>5, <2>1 DEF RelayBlockSend
    <3>2. m.dst = rb.tgt /\ m.items = rb.req OBVIOUS
    <3> HIDE DEF m
    <3>3. InCalls(s) \subseteq InCalls(s)' BY <3>1 DEF InCalls
    <3>4. rb.tgt = s => BlocksOf(rb.req) \subseteq InCalls(s)'
      <4> SUFFICES ASSUME rb.tgt = s, NEW x \in BlocksOf(rb.req) PROVE x \in InCalls(s)' OBVIOUS
      <4>1. m \in blockCalls' /\ m.dst = s /\ x \in BlocksOf(m.items) BY <3>1, <3>2
      <4> QED BY <4>1 DEF InCalls
    <3>5. Filling(s) \subseteq InCalls(s)' BY <3>4 DEF Filling
    <3> QED BY <1>3, <3>1, <3>3, <3>5 DEF OnWay
  <2>2. CASE rb.tgt # s
    <3>1. blockCalls \subseteq blockCalls' /\ UNCHANGED relayBlocks BY <1>5 DEF RelayBlockSend
    <3>2. InCalls(s) \subseteq InCalls(s)' BY <3>1 DEF InCalls
    <3>3. Filling(s) = {} BY <2>2 DEF Filling
    <3> QED BY <1>3, <3>1, <3>2, <3>3 DEF OnWay
  <2> QED BY <2>1, <2>2
<1>6. CASE RelayBlockEmpty \/ RelayBlockReturn \/ SyncPop \/ SyncLocal \/ RelayBlockSync(d)
  <2>1. UNCHANGED <<relayBlocks, blockCalls>>
    BY <1>6 DEF RelayBlockEmpty, RelayBlockReturn, SyncPop, SyncLocal, RelayBlockSync
  <2>2. rb.pc # "pop" \/ rb.req = <<>>
    BY <1>6 DEF RelayBlockEmpty, RelayBlockReturn, SyncPop, SyncLocal, RelayBlockSync, WayInv, CallsApart
  <2>3. Filling(s) = {} BY <2>2, BlocksEmpty DEF Filling
  <2>4. InCalls(s)' = InCalls(s) BY <2>1 DEF InCalls
  <2> QED BY <1>3, <2>1, <2>3, <2>4 DEF OnWay
<1> QED BY <1>4, <1>5, <1>6 DEF RelayLoop, RelaySend

LEMMA IdsConcatAll ==
    ASSUME NEW S, NEW q \in Seq(S), NEW r \in Seq(S)
    PROVE  Ids(q) \cup Ids(r) \subseteq Ids(q \o r)
<1>1. Len(q \o r) = Len(q) + Len(r) /\ Len(q) \in Nat /\ Len(r) \in Nat OBVIOUS
<1>2. ASSUME NEW i \in 1 .. Len(q) PROVE q[i] \in Ids(q \o r)
  <2>1. i \in 1 .. Len(q \o r) /\ (q \o r)[i] = q[i] BY <1>1
  <2> QED BY <2>1 DEF Ids
<1>3. ASSUME NEW i \in 1 .. Len(r) PROVE r[i] \in Ids(q \o r)
  <2>1. Len(q) + i \in 1 .. Len(q \o r) /\ (q \o r)[Len(q) + i] = r[i] BY <1>1
  <2> QED BY <2>1 DEF Ids
<1> QED BY <1>2, <1>3 DEF Ids

LEMMA SignalledRelay ==
    ASSUME WayInv, NEW d \in BOOLEAN, RelayLoop \/ RelaySend(d), NEW s \in Servers,
           d \/ rb.tgt # s, Signalled(s)
    PROVE  Signalled(s)'
<1>1. /\ rb \in [pc : {"pop", "wait", "signal"}, tgt : Servers,
                 req : Seq(Voted), blk : Blocks \cup {NoBlock}]
      /\ relayBlocks \in [Servers -> Seq(Blocks)] /\ syncQ \in Seq(Blocks)
      /\ votes \in [Servers -> [Blocks -> SUBSET Clients]]
      /\ labels \in [Servers -> SUBSET Blocks]
      /\ rb.pc = "signal" => rb.blk \in Blocks
  BY DEF WayInv, TypeOK, ServerTypeOK
<1>2. s \in Nat /\ rb.tgt \in Nat /\ s >= 1 /\ s <= Packer
  BY <1>1, PackerIsServer, ServerCountAssumption DEF Servers, Packer
<1>3. UNCHANGED pack
  BY DEF RelayLoop, RelaySend, RelayBlockPop, RelayBlockEmpty, RelayBlockReturn, SyncPop, SyncLocal,
     RelayBlockSend, RelayBlockSync
<1>4. \A t \in Peers : Handed(t)' = Handed(t) BY <1>3 DEF Handed
<1>5. /\ \A t \in Peers : Handed(t) \subseteq SignalWay(t, s)
      /\ rb.pc = "signal" /\ s < rb.tgt => rb.blk \in labels[s]
  BY DEF Signalled
<1>6. ASSUME \A t \in Peers : SignalWay(t, s) \subseteq SignalWay(t, s)',
             rb'.pc = "signal" /\ s < rb'.tgt => rb'.blk \in labels'[s]
      PROVE  Signalled(s)'
  BY <1>4, <1>5, <1>6 DEF Signalled
<1>7. CASE RelayBlockPop
  <2> DEFINE b == Head(relayBlocks[rb.tgt])
             i == [blk |-> b, votes |-> votes[Packer][b]]
  <2>1. /\ rb.tgt \in Servers /\ relayBlocks[rb.tgt] # <<>> /\ relayBlocks[rb.tgt] \in Seq(Blocks)
        /\ rb.pc = "pop" /\ UNCHANGED <<syncQ, labels>>
    BY <1>1, <1>7 DEF RelayBlockPop, labelVars
  <2>2. /\ rb'.req = Append(rb.req, i) /\ rb'.pc = "pop"
        /\ relayBlocks' = [relayBlocks EXCEPT ![rb.tgt] = Tail(@)]
    BY <1>1, <1>7 DEF RelayBlockPop
  <2>3. Ids(relayBlocks[rb.tgt]) = Ids(Tail(relayBlocks[rb.tgt])) \cup {b} /\ b \in Blocks
    BY <2>1, IdsTail, QueueType
  <2> HIDE DEF b
  <2>4. i \in Voted /\ i.blk = b BY <1>1, <2>3, PackerIsServer DEF Voted
  <2> HIDE DEF i
  <2>5. BlocksOf(rb'.req) = BlocksOf(rb.req) \cup {b} BY <1>1, <2>2, <2>4, BlocksAppend
  <2>6. \A t \in Peers : Ids(relayBlocks[t]) \subseteq Ids(relayBlocks'[t]) \cup {b}
    <3> SUFFICES ASSUME NEW t \in Peers PROVE Ids(relayBlocks[t]) \subseteq Ids(relayBlocks'[t]) \cup {b}
      OBVIOUS
    <3>1. relayBlocks'[t] = IF t = rb.tgt THEN Tail(relayBlocks[t]) ELSE relayBlocks[t]
      BY <1>1, <2>2, PeersAre
    <3> QED BY <2>3, <3>1
  <2>7. Signal = {} BY <2>1 DEF Signal
  <2>8. \A t \in Peers : SignalWay(t, s) \subseteq SignalWay(t, s)'
    BY <2>1, <2>5, <2>6, <2>7 DEF SignalWay
  <2> QED BY <1>6, <2>2, <2>8
<1>8. CASE RelayBlockSend(d) \/ RelayBlockEmpty
  <2>1. /\ rb'.req = rb.req /\ rb.pc = "pop" /\ rb'.pc # "signal"
        /\ UNCHANGED <<relayBlocks, syncQ, labels>>
    BY <1>1, <1>8 DEF RelayBlockSend, RelayBlockEmpty, labelVars
  <2>2. Signal = {} BY <2>1 DEF Signal
  <2>3. \A t \in Peers : SignalWay(t, s) \subseteq SignalWay(t, s)' BY <2>1, <2>2 DEF SignalWay
  <2> QED BY <1>6, <2>1, <2>3
<1>9. CASE RelayBlockReturn
  <2> DEFINE ids == [i \in 1 .. Len(rb.req) |-> rb.req[i].blk]
  <2>1. /\ UNCHANGED <<labels, relayBlocks>> /\ syncQ' = syncQ \o ids /\ rb'.pc = "pop" /\ rb.pc = "wait"
    BY <1>1, <1>9 DEF RelayBlockReturn, labelVars
  <2>2. ids \in Seq(Blocks) BY <1>1, IdsType
  <2>3. Ids(ids) = BlocksOf(rb.req)
    <3>1. Len(ids) = Len(rb.req) BY <1>1
    <3> QED BY <3>1 DEF Ids, BlocksOf
  <2> HIDE DEF ids
  <2>4. Ids(syncQ) \cup BlocksOf(rb.req) \subseteq Ids(syncQ')
    BY <1>1, <2>1, <2>2, <2>3, IdsConcatAll
  <2>5. Signal = {} BY <2>1 DEF Signal
  <2>6. \A t \in Peers : SignalWay(t, s) \subseteq SignalWay(t, s)' BY <2>1, <2>4, <2>5 DEF SignalWay
  <2> QED BY <1>6, <2>1, <2>6
<1>10. CASE SyncPop
  <2>1. /\ syncQ # <<>> /\ syncQ' = Tail(syncQ) /\ UNCHANGED <<labels, relayBlocks>>
        /\ rb'.blk = Head(syncQ) /\ rb'.pc = "signal" /\ rb'.tgt = 1 /\ rb'.req = rb.req /\ rb.pc = "pop"
    BY <1>1, <1>10 DEF SyncPop, labelVars
  <2>2. Ids(syncQ) = Ids(Tail(syncQ)) \cup {Head(syncQ)} /\ Head(syncQ) \in Blocks
    BY <1>1, <2>1, IdsTail, QueueType
  <2>3. Signal = {} /\ Head(syncQ) \in Signal' BY <2>1, <2>2 DEF Signal
  <2>4. \A t \in Peers : SignalWay(t, s) \subseteq SignalWay(t, s)' BY <2>1, <2>2, <2>3 DEF SignalWay
  <2>5. ~(s < rb'.tgt) BY <1>2, <2>1
  <2> QED BY <1>6, <2>4, <2>5
<1>11. CASE RelayBlockSync(d)
  <2>1. /\ rb.pc = "signal" /\ rb'.pc = "signal" /\ rb'.blk = rb.blk /\ rb'.req = rb.req
        /\ rb'.tgt = rb.tgt + 1 /\ UNCHANGED <<syncQ, relayBlocks>> /\ rb.tgt \in Servers
        /\ labels' = IF d THEN [labels EXCEPT ![rb.tgt] = @ \cup {rb.blk}] ELSE labels
    BY <1>1, <1>11 DEF RelayBlockSync
  <2>2. labels[s] \subseteq labels'[s] /\ (d /\ s = rb.tgt => rb.blk \in labels'[s]) BY <1>1, <2>1
  <2>3. Signal' = Signal BY <2>1 DEF Signal
  <2>4. \A t \in Peers : SignalWay(t, s) \subseteq SignalWay(t, s)' BY <2>1, <2>2, <2>3 DEF SignalWay
  <2>5. s < rb'.tgt => s < rb.tgt \/ s = rb.tgt BY <1>2, <2>1
  <2> QED BY <1>5, <1>6, <2>1, <2>2, <2>4, <2>5
<1>12. CASE SyncLocal
  <2>1. /\ rb.pc = "signal" /\ rb'.pc = "pop" /\ rb'.req = rb.req /\ rb.tgt = Packer
        /\ UNCHANGED <<syncQ, relayBlocks>> /\ labels' = [labels EXCEPT ![Packer] = @ \cup {rb.blk}]
    BY <1>1, <1>12 DEF SyncLocal
  <2>2. labels[s] \subseteq labels'[s] /\ (s = Packer => rb.blk \in labels'[s])
    BY <1>1, <2>1, PackerIsServer
  <2>3. rb.blk \in labels'[s]
    <3>1. s = Packer \/ s < rb.tgt BY <1>2, <2>1
    <3> QED BY <1>5, <2>1, <2>2, <3>1
  <2>4. Signal \subseteq labels'[s] BY <2>3 DEF Signal
  <2>5. \A t \in Peers : SignalWay(t, s) \subseteq SignalWay(t, s)' BY <2>1, <2>2, <2>4 DEF SignalWay
  <2> QED BY <1>6, <2>1, <2>5
<1> QED BY <1>7, <1>8, <1>9, <1>10, <1>11, <1>12 DEF RelayLoop, RelaySend

(* The other steps: a handler stores a block of its call. *)
LEMMA WayElse ==
    ASSUME WayInv, NEW s \in Servers,
           \/ HandleBlock \/ CallFails \/ UNCHANGED vars
           \/ \E t \in Servers : Merge(t) \/ \E u \in Servers : PeerCall(t, u)
           \/ \E c \in Clients : ClientStep(c)
    PROVE  /\ Stored(s) => Stored(s)'
           /\ Signalled(s) => Signalled(s)'
<1>1. TypeOK BY DEF WayInv
<1>2. UNCHANGED <<relayBlocks, rb, pack, syncQ, labels>>
  <2>1. CASE \E c \in Clients : ClientStep(c)
    BY <2>1 DEF ClientStep, VoteSteps, VoteFails, VoteBlocksRelay, VoteBlocksInsert, PullSteps,
       PullFails, PullSnapshot, PullVisit, GetVisit, serverVars, labelVars, packVars
  <2> QED BY <2>1 DEF HandleBlock, RelayBlockHandler, CallFails, Abandon, RelayVoteFails,
             SPBcastCommitFails, Merge, MergeVotes, PeerCall, RelayVote, SPBcastCommit, vars,
             serverVars, labelVars, packVars
<1>3. Holds(s) \cup InCalls(s) \subseteq Holds(s)' \cup InCalls(s)'
  <2>1. CASE Holds(s)' = Holds(s) /\ UNCHANGED blockCalls BY <2>1 DEF InCalls
  <2>2. CASE HandleBlock BY <2>2, HandleKeeps
  <2>3. CASE CallFails
    <3>1. Holds(s)' = Holds(s)
      BY <2>3 DEF CallFails, Abandon, RelayVoteFails, SPBcastCommitFails, poolVars, Holds
    <3>2. InCalls(s)' = InCalls(s)
      <4>1. UNCHANGED blockCalls \/ \E m \in blockCalls : Abandon(m)
        BY <2>3 DEF CallFails, RelayVoteFails, SPBcastCommitFails
      <4>2. UNCHANGED blockCalls => InCalls(s)' = InCalls(s) BY DEF InCalls
      <4> QED BY <1>1, <4>1, <4>2, AbandonKeeps
    <3> QED BY <3>1, <3>2
  <2>4. CASE UNCHANGED vars BY <2>1, <2>4 DEF vars, serverVars, poolVars, Holds
  <2>5. ASSUME NEW t \in Servers, NEW u \in Servers, Merge(t) \/ PeerCall(t, u)
        PROVE  Holds(s)' = Holds(s) /\ UNCHANGED blockCalls
    <3>1. Holds(s)' = Holds(s) BY <1>1, <2>5, PoolMerge, PoolPeer DEF WayInv
    <3> QED BY <2>5, <3>1 DEF Merge, MergeVotes, PeerCall, RelayVote, SPBcastCommit
  <2>6. ASSUME NEW c \in Clients, ClientStep(c) PROVE Holds(s)' = Holds(s) /\ UNCHANGED blockCalls
    <3>1. TRUE \in BOOLEAN OBVIOUS
    <3> QED BY <2>6, <3>1, WayClient DEF ClientStep
  <2> QED BY <2>1, <2>2, <2>3, <2>4, <2>5, <2>6
<1>4. OnWay(s) \subseteq OnWay(s)' BY <1>2, <1>3 DEF OnWay, Filling
<1>5. Handed(s)' = Handed(s) BY <1>2 DEF Handed
<1>6. Stored(s) => Stored(s)' BY <1>4, <1>5 DEF Stored
<1>7. Signalled(s) => Signalled(s)' BY <1>2 DEF Signalled, SignalWay, Signal, Handed
<1> QED BY <1>6, <1>7

-----------------------------------------------------------------------------
(* A step that fails a call spoils at most one server *)

SettledInv ==
    /\ OpenInv /\ WorkInv /\ SeenHeld /\ Voting
    /\ faults = 0 => \A s \in Servers : Intact(s)
    /\ faults = 1 => \E s \in Servers : Intact(s)

Keeps(s) == Intact(s) => Intact(s)'

IntactStep ==
    \/ faults' = faults /\ \A s \in Servers : Keeps(s)
    \/ faults' = faults + 1 /\ \E u \in Servers : \A s \in Servers \ {u} : Keeps(s)

LEMMA DeliveryCounts ==
    ASSUME NEW d \in BOOLEAN, Delivery(d)
    PROVE  faults' = IF d THEN faults ELSE faults + 1
BY DEF Delivery

LEMMA OfferedServer ==
    ASSUME OpenInv, SeenHeld, [Next]_vars, ServerStep \/ UNCHANGED vars, NEW s \in Servers, Offered(s)
    PROVE  Offered(s)'
<1>1. UNCHANGED <<hdrs, got, pull, vote, voted, seen>>
  BY ServerStepKeeps DEF vars, serverVars, labelVars, clientVars
<1> QED BY <1>1, OfferedFrame DEF Offered

LEMMA OfferedClient ==
    ASSUME ServerCount = 2, SettledInv, [Next]_vars, NEW c \in Clients, NEW d \in BOOLEAN,
           NEW s \in Servers, Offered(s),
           \/ VoteSteps(c) \/ (VoteFails(c) /\ s # VoteStub(c)) \/ PullFails(c)
           \/ PullSteps(c, d) /\ (d \/ s # PullStub(c))
    PROVE  Offered(s)'
<1>1. TypeOK /\ OpenInv /\ WorkInv /\ SeenHeld /\ Voting BY DEF SettledInv, OpenInv, CertInv
<1>2. ClientStep(c) BY DEF ClientStep
<1>3. ASSUME NEW e \in Clients, e # c PROVE OfferedTo(s, e)'
  BY <1>1, <1>2, <1>3, ClientStepKeeps, OfferedFrame DEF Offered
<1>4. OfferedTo(s, c) BY DEF Offered
<1>5. OfferedTo(s, c)'
  <2>1. CASE VoteSteps(c) \/ (VoteFails(c) /\ s # VoteStub(c)) BY <1>1, <1>4, <2>1, OfferedVote
  <2>2. CASE PullFails(c)
    <3>1. TRUE \in BOOLEAN OBVIOUS
    <3> QED BY <1>1, <1>4, <2>2, <3>1, OfferedPull
  <2>3. CASE PullSteps(c, d) /\ (d \/ s # PullStub(c)) BY <1>1, <1>4, <2>3, OfferedPull
  <2> QED BY <2>1, <2>2, <2>3
<1> QED BY <1>3, <1>5 DEF Offered

LEMMA IntactNext ==
    ASSUME ServerCount = 2, SettledInv, [Next]_vars
    PROVE  IntactStep
<1>1. TypeOK /\ WayInv /\ OpenInv /\ SeenHeld BY DEF SettledInv, OpenInv, CertInv, SentInv
<1>2. TRUE \in BOOLEAN /\ FALSE \in BOOLEAN OBVIOUS
<1>3. ASSUME NEW s \in Servers, ServerStep \/ UNCHANGED vars, Stored(s) => Stored(s)',
             Signalled(s) => Signalled(s)'
      PROVE  Keeps(s)
  BY <1>1, <1>3, OfferedServer DEF Keeps, Intact
<1>4. CASE Pack
  <2>1. ASSUME NEW s \in Servers PROVE Keeps(s) BY <1>1, <1>3, <1>4, WayPackKeeps DEF ServerStep
  <2> QED BY <1>4, <2>1 DEF IntactStep, Pack
<1>5. ASSUME NEW d \in BOOLEAN, RelayLoop \/ RelaySend(d), NEW s \in Servers, d \/ rb.tgt # s
      PROVE  Keeps(s)
  BY <1>1, <1>3, <1>5, StoredRelay, SignalledRelay DEF ServerStep
<1>6. CASE RelayLoop BY <1>2, <1>5, <1>6 DEF IntactStep, RelayLoop
<1>7. ASSUME NEW d \in BOOLEAN, RelaySend(d) PROVE IntactStep
  <2>1. faults' = IF d THEN faults ELSE faults + 1 BY <1>7, DeliveryCounts DEF RelaySend
  <2>2. rb.tgt \in Servers BY <1>1 DEF TypeOK, ServerTypeOK
  <2>3. CASE d BY <1>5, <1>7, <2>1, <2>3 DEF IntactStep
  <2>4. CASE ~d
    <3>1. PICK u \in Servers : u = rb.tgt BY <2>2
    <3>2. \A s \in Servers \ {u} : Keeps(s) BY <1>5, <1>7, <3>1
    <3> QED BY <2>1, <2>4, <3>2 DEF IntactStep
  <2> QED BY <2>3, <2>4
<1>8. ASSUME NEW s \in Servers,
             \/ HandleBlock \/ CallFails \/ UNCHANGED vars
             \/ \E t \in Servers : Merge(t) \/ \E u \in Servers \ {t} : PeerCall(t, u)
      PROVE  Keeps(s)
  BY <1>1, <1>3, <1>8, WayElse DEF ServerStep
<1>9. CASE CallFails
  <2>1. faults' = faults + 1 BY <1>2, <1>9, DeliveryCounts DEF CallFails
  <2>2. \A s \in Servers : Keeps(s) BY <1>8, <1>9
  <2> QED BY <2>1, <2>2, PackerIsServer DEF IntactStep
<1>10. CASE \/ HandleBlock \/ UNCHANGED vars
            \/ \E t \in Servers : Merge(t) \/ \E u \in Servers \ {t} : PeerCall(t, u)
  <2>1. UNCHANGED faults BY <1>10 DEF HandleBlock, Merge, PeerCall, vars
  <2>2. \A s \in Servers : Keeps(s) BY <1>8, <1>10
  <2> QED BY <2>1, <2>2 DEF IntactStep
<1>11. ASSUME NEW c \in Clients, NEW d \in BOOLEAN, NEW s \in Servers,
              \/ VoteSteps(c) \/ (VoteFails(c) /\ s # VoteStub(c)) \/ PullFails(c)
              \/ PullSteps(c, d) /\ (d \/ s # PullStub(c))
       PROVE  Keeps(s)
  <2>1. ClientStep(c) BY <1>11 DEF ClientStep
  <2>2. (Stored(s) => Stored(s)') /\ (Signalled(s) => Signalled(s)') BY <1>1, <2>1, WayElse
  <2>3. Offered(s) => Offered(s)' BY <1>11, OfferedClient
  <2> QED BY <2>2, <2>3 DEF Keeps, Intact
<1>12. ASSUME NEW c \in Clients, VoteSteps(c) PROVE IntactStep
  <2>1. UNCHANGED faults BY <1>12 DEF VoteSteps, VoteBlocksRelay, VoteBlocksInsert
  <2> QED BY <1>2, <1>11, <1>12, <2>1 DEF IntactStep
<1>13. ASSUME NEW c \in Clients, VoteFails(c) PROVE IntactStep
  <2>1. faults' = faults + 1 BY <1>2, <1>13, DeliveryCounts DEF VoteFails
  <2>2. VoteStub(c) \in Servers BY <1>1, StubIsServer DEF VoteStub, TypeOK, ClientTypeOK
  <2>3. \A s \in Servers \ {VoteStub(c)} : Keeps(s) BY <1>2, <1>11, <1>13
  <2> QED BY <2>1, <2>2, <2>3 DEF IntactStep
<1>14. ASSUME NEW c \in Clients, PullFails(c) PROVE IntactStep
  <2>1. faults' = faults + 1 BY <1>2, <1>14, DeliveryCounts DEF PullFails
  <2>2. \A s \in Servers : Keeps(s) BY <1>2, <1>11, <1>14
  <2> QED BY <2>1, <2>2, PackerIsServer DEF IntactStep
<1>15. ASSUME NEW c \in Clients, NEW d \in BOOLEAN, PullSteps(c, d) PROVE IntactStep
  <2>1. CASE PullSnapshot(c)
    <3>1. UNCHANGED faults /\ PullSteps(c, TRUE) BY <2>1 DEF PullSnapshot, PullSteps
    <3>2. \A s \in Servers : Keeps(s) BY <1>2, <1>11, <3>1
    <3> QED BY <3>1, <3>2 DEF IntactStep
  <2>2. ASSUME NEW b \in Blocks, PullVisit(c, b, d) \/ GetVisit(c, b, d) PROVE IntactStep
    <3>1. faults' = IF d THEN faults ELSE faults + 1
      BY <2>2, DeliveryCounts DEF PullVisit, GetVisit
    <3>2. CASE d BY <1>11, <1>15, <3>1, <3>2 DEF IntactStep
    <3>3. CASE ~d
      <4>1. PullStub(c) \in Servers BY StubIsServer DEF PullStub
      <4>2. \A s \in Servers \ {PullStub(c)} : Keeps(s) BY <1>11, <1>15
      <4> QED BY <3>1, <3>3, <4>1, <4>2 DEF IntactStep
    <3> QED BY <3>2, <3>3
  <2> QED BY <1>15, <2>1, <2>2 DEF PullSteps
<1> QED BY <1>4, <1>6, <1>7, <1>9, <1>10, <1>12, <1>13, <1>14, <1>15 DEF Next

LEMMA SettledNext ==
    ASSUME ServerCount = 2
    PROVE  SettledInv /\ [Next]_vars => SettledInv'
<1> SUFFICES ASSUME SettledInv, [Next]_vars PROVE SettledInv' OBVIOUS
<1>1. TypeOK /\ WayInv /\ OpenInv /\ WorkInv /\ SeenHeld /\ Voting
  BY DEF SettledInv, OpenInv, CertInv, SentInv
<1>2. OpenInv' /\ WorkInv' /\ SeenHeld' /\ Voting'
  BY <1>1, OpenNext, WorkNext, SeenNext, VotingNext
<1>3. IntactStep BY IntactNext
<1>4. faults \in Nat BY <1>1 DEF TypeOK
<1>5. faults' = 0 => \A s \in Servers : Intact(s)' BY <1>3, <1>4 DEF IntactStep, Keeps, SettledInv
<1>6. ASSUME faults' = 1 PROVE \E s \in Servers : Intact(s)'
  <2>1. CASE faults' = faults BY <1>3, <1>4, <1>6, <2>1 DEF IntactStep, Keeps, SettledInv
  <2>2. CASE faults' = faults + 1
    <3>1. \A s \in Servers : Intact(s) BY <1>4, <1>6, <2>2 DEF SettledInv
    <3>2. PICK u \in Servers : \A s \in Servers \ {u} : Keeps(s) BY <1>3, <1>4, <2>2 DEF IntactStep
    <3>3. PICK s \in Servers : s # u BY TwoServers
    <3> QED BY <3>1, <3>2, <3>3 DEF Keeps
  <2> QED BY <1>3, <2>1, <2>2 DEF IntactStep
<1> QED BY <1>2, <1>5, <1>6 DEF SettledInv

LEMMA SettledInit == Init => SettledInv
<1> SUFFICES ASSUME Init PROVE SettledInv OBVIOUS
<1>1. Voting BY DEF Init, ClientInit, Voting
<1>2. \A t \in Servers : Handed(t) = {}
  <2>1. pack.blk = FirstBlock /\ pack.tgt = 1 BY DEF Init, ServerInit
  <2>2. \A t \in Servers : t \in Nat /\ ~(1 > t) BY PackerIsServer DEF Servers
  <2>3. \A b \in Blocks : b \in Nat /\ ~(FirstBlock > b) BY BlockIds DEF Blocks
  <2> QED BY <2>1, <2>2, <2>3 DEF Handed
<1>3. ASSUME NEW s \in Servers PROVE Intact(s)
  <2>1. \A c \in Clients : seen[s][c] = {} BY DEF Init, ServerInit
  <2>2. rb.pc = "pop" BY DEF Init, ServerInit
  <2> QED BY <1>2, <2>1, <2>2, PeersAre DEF Intact, Offered, OfferedTo, Stored, Signalled
<1>4. faults = 0 BY DEF Init
<1> QED BY <1>1, <1>3, <1>4, OpenInit, WorkInit, SeenInit DEF SettledInv

-----------------------------------------------------------------------------
(* Nothing is left to do *)

LEMMA IntactCommits ==
    ASSUME ServerCount = 2, OpenInv, WorkInv, Settled, NEW s \in Servers, Intact(s),
           NEW b \in Blocks, Packed(b)
    PROVE  b \in committed[s]
<1>1. TypeOK BY DEF OpenInv, CertInv
<1>2. \A t \in Servers : b \in Handed(t)
  <2>1. pack.tgt = 1 BY DEF Settled
  <2> QED BY <2>1 DEF Packed, Handed
<1>3. /\ \A t \in Servers : Ids(relayBlocks[t]) = {} /\ BlocksOf(mergeQ[t]) = {}
      /\ BlocksOf(rb.req) = {} /\ Ids(syncQ) = {} /\ rb.pc = "pop" /\ blockCalls = {}
  BY IdsEmpty, BlocksEmpty DEF Settled
<1>4. b \in pending[s] \cup committed[s]
  <2>1. b \in OnWay(s) BY <1>2 DEF Intact, Stored
  <2>2. Filling(s) = {} /\ InCalls(s) = {} BY <1>3 DEF Filling, InCalls
  <2> QED BY <1>3, <2>1, <2>2 DEF OnWay, Holds
<1>5. b \in labels[s]
  <2>1. 1 \in Peers /\ 1 \in Servers BY TwoServers
  <2>2. b \in SignalWay(1, s) BY <1>2, <2>1 DEF Intact, Signalled
  <2>3. Signal = {} BY <1>3 DEF Signal
  <2> QED BY <1>3, <2>1, <2>2, <2>3 DEF SignalWay
<1>6. ASSUME b \in pending[s], NEW c \in Clients PROVE c \in votes[s][b]
  <2>1. PICK k \in {0, 1} : s = Stub(c, k) BY TwoServers
  <2>2. b \notin hdrs[c] /\ b \in seen[s][c] BY <1>5, <1>6, <2>1 DEF Settled
  <2>3. AtWork(s, c, b) BY <1>6, <2>2 DEF Intact, Offered, OfferedTo
  <2>4. Ids(pull[c].resp) = {} BY IdsEmpty DEF Settled, WorkInv, WorkClient
  <2>5. ~ToVote(c, s, b)
    <3>1. Len(got[c]) = 0 BY DEF Settled
    <3> QED BY <3>1 DEF ToVote
  <2> QED BY <2>2, <2>3, <2>4, <2>5 DEF AtWork
<1>7. b \notin pending[s]
  <2>1. votes[s][b] \subseteq Clients BY <1>1 DEF TypeOK, ServerTypeOK
  <2>2. b \in pending[s] => votes[s][b] # Clients BY DEF OpenInv, OpenPools
  <2>3. b \in pending[s] => votes[s][b] = Clients BY <1>6, <2>1
  <2> QED BY <2>2, <2>3
<1> QED BY <1>4, <1>7

(* With two servers, when every queue, call and thread is done and no call  *)
(* has failed, each packed block is in committed_blks of both servers:      *)
(* RelayBlock has stored it, RelayBlockSync labelled it, every client has   *)
(* been offered its header once, has got the block and voted at both        *)
(* servers, although VoteBlocks, RelayVote and SPBcastCommit drop what they *)
(* carry for a block that is not pending.                                   *)
THEOREM NothingLeftBehind ==
    ASSUME ServerCount = 2
    PROVE  Spec => []SettledCommittedEverywhere
<1>1. SettledInv => SettledCommittedEverywhere
  BY IntactCommits DEF SettledInv, SettledCommittedEverywhere
<1> QED BY <1>1, SettledInit, SettledNext, PTL DEF Spec

(* With two servers and at most one failed call, each packed block is then  *)
(* committed at one of the servers at least: no call is tried again, but    *)
(* whatever one failure loses, RelayBlock, RelayBlockSync, a header or a    *)
(* vote, it loses for one server.                                           *)
THEOREM OneFaultLeavesACommit ==
    ASSUME ServerCount = 2, MaxFaults <= 1
    PROVE  Spec => []SettledCommittedSomewhere
<1>1. SettledInv => SettledCommittedSomewhere
  <2> SUFFICES ASSUME SettledInv PROVE SettledCommittedSomewhere OBVIOUS
  <2>1. faults = 0 \/ faults = 1
    BY MaxFaultsAssumption DEF SettledInv, OpenInv, CertInv, TypeOK
  <2>2. PICK s \in Servers : Intact(s) BY <2>1, PackerIsServer DEF SettledInv
  <2> QED BY <2>2, IntactCommits DEF SettledInv, SettledCommittedSomewhere
<1> QED BY <1>1, SettledInit, SettledNext, PTL DEF Spec
=============================================================================
