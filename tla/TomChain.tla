------------------------------- MODULE TomChain -------------------------------
(***************************************************************************)
(* TomChain: servers and clients composed.  A call of a client is a joint  *)
(* step of the client's thread and the server's handler.  No call has a    *)
(* deadline or a retry, so a call that fails loses what it carried;        *)
(* MaxFaults bounds the failing calls.                                     *)
(***************************************************************************)
EXTENDS TcServer, TcClient

CONSTANT MaxFaults    \* bound: number of failing calls in a behaviour
ASSUME MaxFaultsAssumption == MaxFaults \in Nat

VARIABLE faults       \* number of calls that failed so far

vars == <<serverVars, clientVars, faults>>

Init == ServerInit /\ ClientInit /\ faults = 0

(* A call is delivered, or fails while faults are left. *)
Delivery(delivered) ==
    \/ delivered /\ faults' = faults
    \/ ~delivered /\ faults < MaxFaults /\ faults' = faults + 1

-----------------------------------------------------------------------------
(* Calls of the clients *)

(* PullPendingBlocks: the handler copies the pool under the write lock.    *)
(* The visit of a block the client has seen does nothing and is left out.  *)
PullSnapshot(c) ==
    /\ IsPull(c)
    /\ PullStarts(c, pending[PullStub(c)] \ seen[PullStub(c)][c])
    /\ UNCHANGED <<serverVars, faults>>

(* The call fails before its handler runs: no headers come back. *)
PullFails(c) ==
    /\ IsPull(c) /\ PullStarts(c, {})
    /\ Delivery(FALSE)
    /\ UNCHANGED serverVars

PullVisit(c, b, d) ==
    /\ IsPull(c)
    /\ CallVisits(c, b, PullSends(PullStub(c), b, c), d)
    /\ PullMark(PullStub(c), b, c)
    /\ Delivery(d)
    /\ UNCHANGED <<poolVars, labels, queueVars, packVars, blockCalls>>

(* GetBlocks: a header is looked up in the pool, skipped if not there. *)
GetVisit(c, b, d) ==
    /\ ~IsPull(c)
    /\ CallVisits(c, b, b \in pending[PullStub(c)], d)
    /\ Delivery(d)
    /\ UNCHANGED serverVars

(* VoteBlocks: the client signs the block; the handler relays the vote, and *)
(* only at a BPS of the block it goes on to insert it.                      *)
VoteBlocksRelay(c) ==
    LET b == Head(got[c])
    IN  /\ VoteBegins(c) /\ Signs(c)
        /\ VoteRelay(VoteStub(c), b, c)
        /\ IF VoteStub(c) \in get_server_id(b) THEN VoteGoesOn(c) ELSE VoteEnds(c)
        /\ UNCHANGED <<poolVars, labelVars, bcast, packVars, blockCalls, faults>>

VoteBlocksInsert(c) ==
    /\ vote[c].inserting
    /\ InsertVote(VoteStub(c), Head(got[c]), c)
    /\ VoteEnds(c)
    /\ UNCHANGED <<voted, labelVars, queueVars, packVars, blockCalls, faults>>

VoteFails(c) ==
    /\ VoteBegins(c) /\ Signs(c) /\ VoteEnds(c)
    /\ Delivery(FALSE)
    /\ UNCHANGED serverVars

-----------------------------------------------------------------------------
(* Steps of the servers *)

Pack == (PackPush \/ PackInsert) /\ UNCHANGED <<clientVars, faults>>

RelayLoop ==
    /\ RelayBlockPop \/ RelayBlockEmpty \/ RelayBlockReturn \/ SyncPop \/ SyncLocal
    /\ UNCHANGED <<clientVars, faults>>

RelaySend(d) ==
    (RelayBlockSend(d) \/ RelayBlockSync(d)) /\ Delivery(d) /\ UNCHANGED clientVars

HandleBlock ==
    \E m \in blockCalls : RelayBlockHandler(m) /\ UNCHANGED <<clientVars, faults>>

Merge(s) == MergeVotes(s) /\ UNCHANGED <<clientVars, faults>>

PeerCall(s, t) ==
    (RelayVote(s, t) \/ SPBcastCommit(s, t)) /\ UNCHANGED <<clientVars, faults>>

CallFails ==
    /\ \/ \E m \in blockCalls : Abandon(m)
       \/ \E s \in Servers : \E t \in Servers \ {s} : RelayVoteFails(s, t) \/ SPBcastCommitFails(s, t)
    /\ Delivery(FALSE)
    /\ UNCHANGED clientVars

PullSteps(c, d) ==
    PullSnapshot(c) \/ \E b \in Blocks : PullVisit(c, b, d) \/ GetVisit(c, b, d)

VoteSteps(c) == VoteBlocksRelay(c) \/ VoteBlocksInsert(c)

Next ==
    \/ Pack \/ RelayLoop \/ HandleBlock \/ CallFails
    \/ \E d \in BOOLEAN : RelaySend(d)
    \/ \E s \in Servers : Merge(s)
    \/ \E s \in Servers : \E t \in Servers \ {s} : PeerCall(s, t)
    \/ \E c \in Clients : VoteSteps(c) \/ VoteFails(c) \/ PullFails(c)
                        \/ \E d \in BOOLEAN : PullSteps(c, d)

Spec == Init /\ [][Next]_vars

(* Every thread loops for ever and every handler of a delivered call ends; *)
(* the pack thread finishes a block it has begun, but need not begin one   *)
(* (the pool may be full).  The steps of Progress each use up a queued     *)
(* item, so fairness of their disjunction is all that is asked; the relay  *)
(* and pull threads, which also take idle steps, are treated one by one.   *)
Progress ==
    \/ Pack /\ (pack.tgt > 1 \/ pack.tgt = Packer)
    \/ HandleBlock
    \/ \E s \in Servers : Merge(s) \/ \E t \in Servers \ {s} : PeerCall(s, t)
    \/ \E c \in Clients : VoteSteps(c)

Fairness ==
    /\ WF_vars(Progress)
    /\ WF_vars(RelayLoop \/ RelaySend(TRUE))
    /\ \A c \in Clients : WF_vars(PullSteps(c, TRUE))

FairSpec == Spec /\ Fairness

-----------------------------------------------------------------------------
(* Properties *)

(* Type invariant: queues, pools and calls hold blocks, votes and servers. *)
TypeOK == ServerTypeOK /\ ClientTypeOK /\ faults \in 0 .. MaxFaults

(* The blocks of a sequence of Voted records. *)
BlocksOf(seq) == {seq[i].blk : i \in 1 .. Len(seq)}

(* The blocks server t holds: pending, waiting to be merged, or committed. *)
Holds(t) == pending[t] \cup BlocksOf(mergeQ[t]) \cup committed[t]

(* The pack thread has begun to hand out block b. *)
Packed(b) == pack.blk > b \/ (pack.blk = b /\ pack.tgt > 1)

(* Blocks whose votes were all signed by the clients they carry, those of  *)
(* them with the votes of all clients, and votes signed by their voter.    *)
Genuine     == {i \in Voted : \A c \in i.votes : i.blk \in voted[c]}
Complete    == {i \in Genuine : i.votes = Clients}
GenuineVote == {i \in BlockVote : i.blk \in voted[i.voter]}

(* Every vote in the system was signed by its voter, wherever it is: in a  *)
(* pool, in a relay queue, or inside a block on its way to a peer.         *)
VotesGenuine ==
    /\ \A s \in Servers, b \in Blocks : [blk |-> b, votes |-> votes[s][b]] \in Genuine
    /\ relayVotes \in [Servers -> [Servers -> Seq(GenuineVote)]]
    /\ rb.req \in Seq(Genuine)
    /\ \A m \in blockCalls : m.items \in Seq(Genuine)
    /\ \A c \in Clients : vote[c].inserting => Head(got[c]) \in voted[c]

(* What waits to be merged or to be committed at a peer has all its votes. *)
QueuedComplete ==
    /\ mergeQ \in [Servers -> Seq(Complete)]
    /\ bcast \in [Servers -> [Servers -> Seq(Complete)]]

(* A block enters committed_blks (merge_votes, SPBcastCommit) only with the *)
(* votes of all clients, and each of them really signed it, on whichever    *)
(* way its vote came: direct, relayed, or inside a relayed or broadcast     *)
(* block.                                                                   *)
CommittedCertified ==
    \A s \in Servers : \A b \in committed[s] :
        cert[s][b] = Clients /\ \A c \in Clients : b \in voted[c]

(* The inductive form of CommittedCertified: votes and blocks are followed *)
(* on every way they can take through queues and calls.                    *)
CertInv == TypeOK /\ VotesGenuine /\ QueuedComplete /\ CommittedCertified

(* At each server a block is in at most one of pending_blks, pb_merge_queue *)
(* and committed_blks, and in the queue at most once, although votes,       *)
(* relayed votes, relayed blocks and broadcast commits race for it.         *)
OneLifecycleStage ==
    \A s \in Servers :
        /\ pending[s] \cap committed[s] = {}
        /\ BlocksOf(mergeQ[s]) \cap (pending[s] \cup committed[s]) = {}
        /\ Cardinality(BlocksOf(mergeQ[s])) = Len(mergeQ[s])

(* A server never loses a block it has stored, and a block that has left    *)
(* pending_blks (for the merge queue or committed_blks) never comes back to  *)
(* it: a relayed block is stored in pending_blks unconditionally, so it must *)
(* not arrive after its votes or its commit.                                 *)
StagesForward ==
    [][\A s \in Servers :
          /\ Holds(s) \subseteq Holds(s)'
          /\ committed[s] \subseteq committed'[s]
          /\ pending'[s] \cap (BlocksOf(mergeQ[s]) \cup committed[s]) = {}]_vars

(* Only the BPS of a block merge its votes; every other server commits it  *)
(* by adopting a broadcast.                                                *)
OnlyBPSMerges ==
    \A s \in Servers : \A b \in BlocksOf(mergeQ[s]) : s \in get_server_id(b)

(* A client votes only on blocks that one of its servers was told are      *)
(* distributed (the label check of PullPendingBlocks).                     *)
VotedOnlySynced ==
    \A c \in Clients : \A b \in voted[c] : \E k \in {0, 1} : b \in labels[Stub(c, k)]

(* The blocks that have still to reach peer t: about to be pushed to its   *)
(* relay queue, in the queue, in the request being filled, or in a call.   *)
ComingTo(t) ==
    {b \in Blocks : \/ pack.blk = b /\ pack.tgt <= t
                    \/ \E i \in 1 .. Len(relayBlocks[t]) : relayBlocks[t][i] = b
                    \/ rb.pc = "pop" /\ rb.tgt = t /\ b \in BlocksOf(rb.req)
                    \/ \E m \in blockCalls : m.dst = t /\ b \in BlocksOf(m.items)}

(* What the sync signal is worth, with any number of servers: as long as   *)
(* no call has failed, a labelled block is stored at one peer at least     *)
(* (send_relay_blocks signals what was answered), and every other peer has *)
(* it or will be sent it.  It need not be at all peers yet, nor in all     *)
(* their queues: the signal is sent after the first answer.                *)
SyncedArrives ==
    faults = 0 => \A s \in Servers : \A b \in labels[s] :
        /\ \E t \in Peers : b \in Holds(t)
        /\ \A t \in Peers : b \in Holds(t) \cup ComingTo(t)

(* A client never has more work for a block (its header, the copies in its *)
(* vote queue) than servers that offered it the header, so it votes on a   *)
(* block at most twice.                                                    *)
VoteWorkBounded ==
    \A c \in Clients, b \in Blocks :
        Cardinality({i \in 1 .. Len(got[c]) : got[c][i] = b})
          + (IF b \in hdrs[c] THEN 1 ELSE 0)
            <= Cardinality({s \in Servers : b \in seen[s][c]})

(* No thread has anything left to do: no block half packed, no queue or    *)
(* call holds anything, and no client can still get a block to vote on.    *)
Settled ==
    /\ pack.tgt = 1 /\ rb.pc = "pop" /\ rb.req = <<>>
    /\ syncQ = <<>> /\ blockCalls = {}
    /\ \A s, t \in Servers : relayVotes[s][t] = <<>> /\ bcast[s][t] = <<>>
    /\ \A s \in Servers : relayBlocks[s] = <<>> /\ mergeQ[s] = <<>>
    /\ \A c \in Clients : got[c] = <<>> /\ ~pull[c].busy
    /\ \A c \in Clients, k \in {0, 1} :
          LET s == Stub(c, k)
          IN  pending[s] \cap (hdrs[c] \cup (labels[s] \ seen[s][c])) = {}

(* When all work is done and no call has failed, every packed block is      *)
(* committed at every server: no interleaving of relays, votes and commit   *)
(* broadcasts, with all the drops of what is not pending, leaves a block    *)
(* behind in a pool.                                                        *)
SettledCommittedEverywhere ==
    Settled /\ faults = 0 => \A b \in Blocks : Packed(b) => \A s \in Servers : b \in committed[s]

(* When all work is done every packed block is committed somewhere: its    *)
(* votes have reached a BPS that had the block (handler RelayVote adds a   *)
(* relayed vote to the local block).                                       *)
SettledCommittedSomewhere ==
    Settled => \A b \in Blocks : Packed(b) => \E s \in Servers : b \in committed[s]

(* Every packed block is eventually committed by at least one server. *)
PackedCommittedSomewhere ==
    \A b \in Blocks : Packed(b) ~> \E s \in Servers : b \in committed[s]

(* Every packed block is eventually committed by every server, merged there *)
(* or adopted from a broadcast: again and again all that is packed is       *)
(* committed everywhere, and a committed block stays so (StagesForward).    *)
PackedCommittedEverywhere ==
    []<>(\A b \in Blocks : Packed(b) => \A s \in Servers : b \in committed[s])

(* TomChain seen as BlockCommit: queues, pools and calls are hidden. *)
Abstract == INSTANCE BlockCommit WITH
    Processors <- [b \in Blocks |-> get_server_id(b)],
    packed     <- {b \in Blocks : Packed(b)},
    signed     <- voted

(* TomChain implements BlockCommit: whatever way votes and blocks take and *)
(* whichever calls fail, clients sign only blocks the packer has handed    *)
(* out, in id order, a BPS is the first to commit a block, after all       *)
(* clients have signed it, and others commit by following.                 *)
ImplementsCommit == Abstract!AbsSpec

(* The packer's own copy of a block gets no votes while the relay thread   *)
(* has still to serialise that same object for a peer: vote handlers write *)
(* votes_ under the pool's accessor, send_relay_blocks reads it without.   *)
NoVoteBeforeRelay ==
    \A t \in Peers : \A i \in 1 .. Len(relayBlocks[t]) :
        votes[Packer][relayBlocks[t][i]] = {}
=============================================================================
