---------------------------- MODULE Startup_proofs ----------------------------
(***************************************************************************)
(* Proofs for Startup: what no order in which servers come up can break,   *)
(* for every number of servers and clients.                                *)
(***************************************************************************)
EXTENDS Startup, FiniteSetTheorems, TLAPS

(* The order start() keeps at each server: the queues are there once       *)
(* init_peer_stubs is done, so before the schedule thread runs.            *)
StubsReady ==
    \A s \in Servers : stage[s] \in {"stubs", "running"} =>
        queues[s] = Others(s) /\ bcasts[s] = Others(s)

(* Across servers: what follows from a block comes after the start of the  *)
(* packer's threads, because only they hand one out.                       *)
BlockAfterStart ==
    handed # {} \/ synced # 0 \/ labels # {} \/ (\E c \in Clients : voted[c] # {})
        => stage[Packer] = "running"

StartInv ==
    /\ stage \in [Servers -> {"off", "sleeping", "stubs", "running"}]
    /\ queues \in [Servers -> SUBSET Servers]
    /\ bcasts \in [Servers -> SUBSET Servers]
    /\ voted \in [Clients -> SUBSET {0, 1}]
    /\ bcast \in [Servers -> SUBSET Servers]
    /\ synced \in Nat
    /\ StubsReady /\ BlockAfterStart /\ PackerVotesSafe /\ CommitQueuedForAll

LEMMA PackerIsServer == Packer \in Servers /\ Peers \subseteq Servers
BY ServerCountAssumption DEF Packer, Servers, Peers

LEMMA BPSAreServers == get_server_id(FirstBlock) \subseteq Servers
<1>1. FirstBlock \in Nat
  BY ServerCountAssumption, BlocksBeforeAssumption DEF FirstBlock, Packer
<1>2. FirstBlock % ServerCount \in 0 .. ServerCount - 1 BY <1>1, ServerCountAssumption
<1> QED BY <1>2, ServerCountAssumption DEF get_server_id, Servers

LEMMA StartInit == Init => StartInv
BY DEF Init, StartInv, StubsReady, BlockAfterStart, PackerVotesSafe, CommitQueuedForAll

LEMMA StartNext == StartInv /\ [Next]_vars => StartInv'
<1> SUFFICES ASSUME StartInv, [Next]_vars PROVE StartInv' OBVIOUS
<1>1. /\ stage \in [Servers -> {"off", "sleeping", "stubs", "running"}]
      /\ queues \in [Servers -> SUBSET Servers] /\ bcasts \in [Servers -> SUBSET Servers]
      /\ voted \in [Clients -> SUBSET {0, 1}] /\ bcast \in [Servers -> SUBSET Servers]
      /\ synced \in Nat
      /\ StubsReady /\ BlockAfterStart /\ PackerVotesSafe /\ CommitQueuedForAll
  BY DEF StartInv
<1>2. ASSUME NEW s \in Servers, StartStep(s) PROVE StartInv'
  <2>1. UNCHANGED <<handed, synced, labels, voted, committed, bcast, undefined>>
    BY <1>2 DEF StartStep, InitServer, ClientService, PeerService, InitRelayVotes, InitPeerStubs,
       Schedule, blockVars, voteVars
  <2>2. \/ UNCHANGED <<stage, queues, bcasts>>
        \/ stage[s] = "off" /\ stage' = [stage EXCEPT ![s] = "sleeping"] /\ UNCHANGED <<queues, bcasts>>
        \/ /\ stage[s] = "sleeping" /\ UNCHANGED <<stage, bcasts>>
           /\ \E t \in Others(s) : queues' = [queues EXCEPT ![s] = @ \cup {t}]
        \/ /\ stage[s] = "sleeping" /\ queues[s] = Others(s) /\ UNCHANGED queues
           /\ stage' = [stage EXCEPT ![s] = "stubs"] /\ bcasts' = [bcasts EXCEPT ![s] = Others(s)]
        \/ stage[s] = "stubs" /\ stage' = [stage EXCEPT ![s] = "running"] /\ UNCHANGED <<queues, bcasts>>
    BY <1>2 DEF StartStep, InitServer, ClientService, PeerService, InitRelayVotes, InitPeerStubs,
       Schedule
  <2>3. /\ stage' \in [Servers -> {"off", "sleeping", "stubs", "running"}]
        /\ queues' \in [Servers -> SUBSET Servers] /\ bcasts' \in [Servers -> SUBSET Servers]
    BY <1>1, <2>2 DEF Others
  <2>4. StubsReady' BY <1>1, <2>2 DEF StubsReady
  <2>5. \A r \in Servers : stage[r] = "running" => stage'[r] = "running" BY <1>1, <2>2
  <2>6. BlockAfterStart' BY <1>1, <2>1, <2>5, PackerIsServer DEF BlockAfterStart
  <2> QED BY <1>1, <2>1, <2>3, <2>4, <2>6 DEF StartInv, PackerVotesSafe, CommitQueuedForAll
<1>3. ASSUME UNCHANGED startVars, UNCHANGED <<voted, committed, bcast, undefined>>,
             stage[Packer] = "running" \/ UNCHANGED <<handed, synced, labels>>,
             synced' \in Nat
      PROVE  StartInv'
  <2>1. UNCHANGED <<stage, queues, bcasts>> BY <1>3 DEF startVars
  <2>2. StubsReady' BY <1>1, <2>1 DEF StubsReady
  <2>3. BlockAfterStart' BY <1>1, <1>3, <2>1 DEF BlockAfterStart
  <2> QED BY <1>1, <1>3, <2>1, <2>2, <2>3 DEF StartInv, PackerVotesSafe, CommitQueuedForAll
<1>4. ASSUME NEW t \in Servers, RelayBlock(t) \/ PackInsert PROVE StartInv'
  BY <1>1, <1>3, <1>4 DEF RelayBlock, PackInsert, voteVars
<1>5. ASSUME RelayBlockSync PROVE StartInv'
  <2>1. handed # {}
    <3>1. synced < ServerCount * Cardinality(handed \cap Peers) BY <1>5 DEF RelayBlockSync
    <3>2. SUFFICES ASSUME handed = {} PROVE FALSE OBVIOUS
    <3>3. handed \cap Peers = {} BY <3>2
    <3>4. Cardinality(handed \cap Peers) = 0 BY <3>3, FS_EmptySet
    <3> QED BY <1>1, <3>1, <3>4, ServerCountAssumption
  <2>2. stage[Packer] = "running" BY <1>1, <2>1 DEF BlockAfterStart
  <2> QED BY <1>1, <1>3, <1>5, <2>2 DEF RelayBlockSync, voteVars
<1>6. ASSUME NEW s \in Servers, NEW t \in Servers, SPHeartbeat(s, t) \/ RelayVote(s) PROVE StartInv'
  BY <1>1, <1>3, <1>6 DEF SPHeartbeat, RelayVote, blockVars, voteVars
<1>7. ASSUME NEW s \in Servers, MergeVotes(s) PROVE StartInv'
  <2>1. /\ UNCHANGED startVars /\ UNCHANGED <<handed, synced, labels, voted, undefined>>
        /\ stage[s] = "running" /\ committed' = committed \cup {s}
        /\ bcast' = [bcast EXCEPT ![s] = bcasts[s]]
    BY <1>7 DEF MergeVotes
  <2>2. UNCHANGED <<stage, queues, bcasts>> BY <2>1 DEF startVars
  <2>3. bcasts[s] = Others(s) BY <1>1, <2>1 DEF StubsReady
  <2>4. CommitQueuedForAll' BY <1>1, <2>1, <2>3 DEF CommitQueuedForAll
  <2>5. bcast' \in [Servers -> SUBSET Servers] BY <1>1, <2>1
  <2>6. StubsReady' /\ BlockAfterStart' BY <1>1, <2>1, <2>2 DEF StubsReady, BlockAfterStart
  <2> QED BY <1>1, <2>1, <2>2, <2>4, <2>5, <2>6 DEF StartInv, PackerVotesSafe
<1>8. ASSUME NEW c \in Clients, NEW k \in {0, 1}, VoteBlocks(c, k) PROVE StartInv'
  <2> DEFINE s == Stub(c, k)
             targets == get_server_id(FirstBlock) \ {s}
  <2>1. /\ voted[c] # {} \/ \E j \in {0, 1} : Offers(Stub(c, j))
        /\ voted' = [voted EXCEPT ![c] = @ \cup {k}]
        /\ undefined' = undefined \/ (~(targets \subseteq queues[s]) /\ undefined' = undefined \cup {s})
        /\ UNCHANGED startVars /\ UNCHANGED <<handed, synced, labels, committed, bcast>>
    BY <1>8 DEF VoteBlocks, blockVars
  <2>2. UNCHANGED <<stage, queues, bcasts>> BY <2>1 DEF startVars
  <2>3. stage[Packer] = "running" BY <1>1, <2>1 DEF BlockAfterStart, Offers
  <2>4. queues[Packer] = Others(Packer) BY <1>1, <2>3, PackerIsServer DEF StubsReady
  <2>5. s = Packer => targets \subseteq queues[s] BY <2>4, BPSAreServers DEF Others
  <2>6. PackerVotesSafe' BY <1>1, <2>1, <2>5 DEF PackerVotesSafe
  <2>7. voted' \in [Clients -> SUBSET {0, 1}] BY <1>1, <2>1
  <2>8. StubsReady' /\ BlockAfterStart' BY <1>1, <2>2, <2>3 DEF StubsReady, BlockAfterStart
  <2> QED BY <1>1, <2>1, <2>2, <2>6, <2>7, <2>8 DEF StartInv, CommitQueuedForAll
<1>9. ASSUME UNCHANGED vars PROVE StartInv'
  BY <1>1, <1>3, <1>9 DEF vars, blockVars, voteVars
<1> QED BY <1>2, <1>4, <1>5, <1>6, <1>7, <1>8, <1>9, PackerIsServer DEF Next, Others

(* In whatever order servers and their services come up, and however early *)
(* clients call, a vote that arrives at the packer finds the queue of every *)
(* server it is relayed to (VoteBlocks, relay_votes.find).                  *)
THEOREM PackerVotesAreSafe == Spec => []PackerVotesSafe
<1>1. StartInv => PackerVotesSafe BY DEF StartInv
<1> QED BY <1>1, StartInit, StartNext, PTL DEF Spec

(* A server that merges a block queues the commit for all others: its merge *)
(* thread is started after init_peer_stubs.                                 *)
THEOREM CommitIsQueuedForAll == Spec => []CommitQueuedForAll
<1>1. StartInv => CommitQueuedForAll BY DEF StartInv
<1> QED BY <1>1, StartInit, StartNext, PTL DEF Spec
=============================================================================
