------------------------------- MODULE Startup -------------------------------
(***************************************************************************)
(* How the servers come up, and what reaches a server before it is done:   *)
(* start() opens the client and the peer service in threads of their own,  *)
(* sleeps, fills the queues for the peers (init_peer_stubs) and only then  *)
(* starts the schedule thread.  The sleep is no synchronisation: nothing   *)
(* orders the steps of different servers.  The first block, its votes and  *)
(* the heartbeats show who meets a server that is not ready.               *)
(*                                                                         *)
(* Sources: src/src/server/tc-server.cpp,                                  *)
(* src/include/server/tc-server-peer-grpc.hpp,                             *)
(* src/include/server/tc-server-grpc.hpp.                                  *)
(***************************************************************************)
EXTENDS TcBlock

VARIABLES
    stage,       \* stage[s]: how far start() of server s has come
    clientUp,    \* servers whose client service listens
    peerUp,      \* servers whose peer service listens
    queues,      \* queues[s]: keys of relay_votes
    bcasts,      \* bcasts[s]: keys of bcast_commit_blocks
    peerStatus,  \* peerStatus[s]: servers marked online in peer_status
    handed,      \* servers the packer has handed the block to
    synced,      \* number of RelayBlockSync calls and local labels so far
    pending,     \* servers with the block in pending_blks or pb_merge_queue
    labels,      \* servers with the block's sync label
    votes,       \* votes[s]: voters in server s's copy of the block
    voted,       \* voted[c]: stubs that client c has sent its vote to
    relayVotes,  \* relayVotes[s]: votes waiting at s, as <<target, voter>>
    committed,   \* servers that have committed the block
    bcast,       \* bcast[s]: servers s has queued the commit for
    undefined    \* servers where relay_votes.find(t)->second hit end()

startVars == <<stage, clientUp, peerUp, queues, bcasts>>
blockVars == <<handed, synced, pending, labels>>
voteVars  == <<votes, voted, relayVotes, committed, bcast, undefined>>
vars == <<startVars, peerStatus, blockVars, voteVars>>

Others(s) == Servers \ {s}

Init ==
    /\ stage = [s \in Servers |-> "off"]
    /\ clientUp = {} /\ peerUp = {}
    /\ queues = [s \in Servers |-> {}]
    /\ bcasts = [s \in Servers |-> {}]
    /\ peerStatus = [s \in Servers |-> {}]
    /\ handed = {} /\ synced = 0 /\ pending = {} /\ labels = {}
    /\ votes = [s \in Servers |-> {}]
    /\ voted = [c \in Clients |-> {}]
    /\ relayVotes = [s \in Servers |-> {}]
    /\ committed = {}
    /\ bcast = [s \in Servers |-> {}]
    /\ undefined = {}

-----------------------------------------------------------------------------
(* start() *)

(* init_server and init_client_profile run before any thread is made. *)
InitServer(s) ==
    /\ stage[s] = "off"
    /\ stage' = [stage EXCEPT ![s] = "sleeping"]
    /\ UNCHANGED <<clientUp, peerUp, queues, bcasts, peerStatus, blockVars, voteVars>>

(* BuildAndStart in the two service threads. *)
ClientService(s) ==
    /\ stage[s] # "off"
    /\ clientUp' = clientUp \cup {s}
    /\ UNCHANGED <<stage, peerUp, queues, bcasts, peerStatus, blockVars, voteVars>>

PeerService(s) ==
    /\ stage[s] # "off"
    /\ peerUp' = peerUp \cup {s}
    /\ UNCHANGED <<stage, clientUp, queues, bcasts, peerStatus, blockVars, voteVars>>

(* init_peer_stubs, after the sleep: the entries of relay_votes are made   *)
(* in the order of the ids, then the other tables.                         *)
InitRelayVotes(s) ==
    /\ stage[s] = "sleeping"
    /\ \E t \in Others(s) \ queues[s] :
          /\ \A u \in Others(s) \ queues[s] : t <= u
          /\ queues' = [queues EXCEPT ![s] = @ \cup {t}]
    /\ UNCHANGED <<stage, clientUp, peerUp, bcasts, peerStatus, blockVars, voteVars>>

InitPeerStubs(s) ==
    /\ stage[s] = "sleeping" /\ queues[s] = Others(s)
    /\ bcasts' = [bcasts EXCEPT ![s] = Others(s)]
    /\ peerStatus' = [peerStatus EXCEPT ![s] = {}]
    /\ stage' = [stage EXCEPT ![s] = "stubs"]
    /\ UNCHANGED <<clientUp, peerUp, queues, blockVars, voteVars>>

(* Mutant: the schedule thread is started before init_peer_stubs. *)
Schedule_early(s) ==
    /\ stage[s] = "sleeping"
    /\ stage' = [stage EXCEPT ![s] = "running"]
    /\ UNCHANGED <<clientUp, peerUp, queues, bcasts, peerStatus, blockVars, voteVars>>

Schedule(s) ==
    /\ stage[s] = "stubs"
    /\ stage' = [stage EXCEPT ![s] = "running"]
    /\ UNCHANGED <<clientUp, peerUp, queues, bcasts, peerStatus, blockVars, voteVars>>

-----------------------------------------------------------------------------
(* The schedule threads *)

(* Mutant: only a failed heartbeat is recorded. *)
SPHeartbeat_failonly(s, t) ==
    /\ stage[s] = "running"
    /\ peerStatus' = IF t \in peerUp THEN peerStatus
                     ELSE [peerStatus EXCEPT ![s] = @ \ {t}]
    /\ UNCHANGED <<startVars, blockVars, voteVars>>

(* The timer of the relay-vote thread calls every peer, again and again.   *)
SPHeartbeat(s, t) ==
    /\ stage[s] = "running"
    /\ peerStatus' = [peerStatus EXCEPT ![s] = IF t \in peerUp THEN @ \cup {t} ELSE @ \ {t}]
    /\ UNCHANGED <<startVars, blockVars, voteVars>>

(* RelayBlock to the next peer; a peer that does not listen never gets the *)
(* block.  The thread that calls it also sends the signals of a block      *)
(* (RelayBlockSync) and ends a round of them first.  The packer's own pool *)
(* gets the block independently (pack thread).                             *)
RelayBlock(t) ==
    /\ stage[Packer] = "running" /\ synced % ServerCount = 0
    /\ t \in Peers \ handed /\ \A u \in Peers \ handed : t <= u
    /\ handed' = handed \cup {t}
    /\ pending' = IF t \in peerUp THEN pending \cup {t} ELSE pending
    /\ UNCHANGED <<startVars, peerStatus, synced, labels, voteVars>>

PackInsert ==
    /\ stage[Packer] = "running" /\ Packer \notin handed
    /\ handed' = handed \cup {Packer}
    /\ pending' = pending \cup {Packer}
    /\ UNCHANGED <<startVars, peerStatus, synced, labels, voteVars>>

(* send_relay_block_sync, a round for each RelayBlock call that was made,  *)
(* even if the other peers' calls are still to come: the signal to every   *)
(* peer in turn, lost if it does not listen, and then the local label.     *)
RelayBlockSync ==
    LET s == (synced % ServerCount) + 1
    IN  /\ synced < ServerCount * Cardinality(handed \cap Peers)
        /\ synced' = synced + 1
        /\ labels' = IF s = Packer \/ s \in peerUp THEN labels \cup {s} ELSE labels
        /\ UNCHANGED <<startVars, peerStatus, handed, pending, voteVars>>

(* PullPendingBlocks and GetBlocks at s give a client the block. *)
Offers(s) == s \in clientUp \cap labels \cap pending /\ ~is_vote_enough(votes[s])

(* A client that was offered the block by a stub votes at both stubs.  The *)
(* handler pushes the vote to relay_votes.find(t)->second for each other   *)
(* BPS t, whether or not there is such an entry, and then inserts it.      *)
VoteBlocks(c, k) ==
    LET s == Stub(c, k)
        targets == get_server_id(FirstBlock) \ {s}
        inserts == s \in get_server_id(FirstBlock) /\ s \in pending
    IN  /\ voted[c] # {} \/ \E j \in {0, 1} : Offers(Stub(c, j))
        /\ k \notin voted[c] /\ (k = 1 => 0 \in voted[c])
        /\ voted' = [voted EXCEPT ![c] = @ \cup {k}]
        /\ \/ /\ s \in clientUp /\ targets \subseteq queues[s]
              /\ relayVotes' = [relayVotes EXCEPT ![s] = @ \cup {<<t, c>> : t \in targets}]
              /\ votes' = IF inserts THEN [votes EXCEPT ![s] = @ \cup {c}] ELSE votes
              /\ UNCHANGED undefined
           \/ /\ s \in clientUp /\ ~ (targets \subseteq queues[s])
              /\ undefined' = undefined \cup {s}
              /\ UNCHANGED <<relayVotes, votes>>
           \/ /\ s \notin clientUp
              /\ UNCHANGED <<relayVotes, votes, undefined>>
        /\ UNCHANGED <<startVars, peerStatus, blockVars, committed, bcast>>

(* The relay-vote thread; a call to a peer that does not listen fails and  *)
(* its vote is lost.                                                       *)
RelayVote(s) ==
    /\ stage[s] = "running"
    /\ \E t \in Servers, c \in Clients :
          /\ <<t, c>> \in relayVotes[s]
          /\ relayVotes' = [relayVotes EXCEPT ![s] = @ \ {<<t, c>>}]
          /\ votes' = IF t \in peerUp \cap pending
                      THEN [votes EXCEPT ![t] = @ \cup {c}] ELSE votes
    /\ UNCHANGED <<startVars, peerStatus, blockVars, voted, committed, bcast, undefined>>

(* Mutant: the handler that gets the last vote merges and queues at once. *)
MergeVotes_handler(s) ==
    /\ s \in peerUp /\ s \in pending /\ is_vote_enough(votes[s])
    /\ pending' = pending \ {s}
    /\ committed' = committed \cup {s}
    /\ bcast' = [bcast EXCEPT ![s] = bcasts[s]]
    /\ UNCHANGED <<startVars, peerStatus, handed, synced, labels, votes, voted, relayVotes, undefined>>

(* The merge thread: the commit is pushed to the queues there are. *)
MergeVotes(s) ==
    /\ stage[s] = "running" /\ s \in pending /\ is_vote_enough(votes[s])
    /\ pending' = pending \ {s}
    /\ committed' = committed \cup {s}
    /\ bcast' = [bcast EXCEPT ![s] = bcasts[s]]
    /\ UNCHANGED <<startVars, peerStatus, handed, synced, labels, votes, voted, relayVotes, undefined>>

-----------------------------------------------------------------------------
StartStep(s) ==
    \/ InitServer(s) \/ ClientService(s) \/ PeerService(s)
    \/ InitRelayVotes(s) \/ InitPeerStubs(s) \/ Schedule(s)

Next ==
    \/ \E s \in Servers : StartStep(s) \/ RelayVote(s) \/ MergeVotes(s)
    \/ \E s \in Servers : \E t \in Others(s) : SPHeartbeat(s, t)
    \/ \E t \in Peers : RelayBlock(t)
    \/ PackInsert \/ RelayBlockSync
    \/ \E c \in Clients, k \in {0, 1} : VoteBlocks(c, k)

Spec == Init /\ [][Next]_vars

(* A server that is started comes up, and its timer fires again and again. *)
FairSpec ==
    /\ Spec
    /\ \A s \in Servers :
          /\ WF_vars(InitServer(s)) /\ WF_vars(PeerService(s)) /\ WF_vars(InitRelayVotes(s))
          /\ WF_vars(InitPeerStubs(s)) /\ WF_vars(Schedule(s))
          /\ \A t \in Others(s) : WF_vars(SPHeartbeat(s, t))

-----------------------------------------------------------------------------
(* Properties *)

(* A vote that arrives at the packer finds the queues it is pushed to,     *)
(* however early clients call: there is no block to vote on before the     *)
(* packer's schedule thread, which start() starts last.  Other servers     *)
(* have no such order: undefined = {} does not hold.                       *)
PackerVotesSafe == Packer \notin undefined

(* Whichever server merges the block queues the commit for all the others, *)
(* although votes are collected from the moment the peer service listens.  *)
CommitQueuedForAll ==
    \A s \in Servers : s \in committed => bcast[s] = Others(s)

(* Every server ends up with every other marked online for good, whatever  *)
(* the order in which they come up: SPHeartbeat repairs the status that a  *)
(* heartbeat to a peer that was not up yet has set.                        *)
AllOnline == <>[](\A s \in Servers : peerStatus[s] = Others(s))
=============================================================================
