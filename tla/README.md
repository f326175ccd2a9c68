# TomChain in TLA+

TomChain is a permissioned blockchain prototype. One server packs transactions
into blocks and relays them to the other servers. Clients pull the blocks from
two servers each, sign them with a threshold-signature share and send their vote
back. Two *block processing servers* (BPS) per block, primary and shadow, collect
the votes; when every client has voted the block is merged, committed and
broadcast to the other servers.

This directory holds a TLA+ model of that protocol with an abstract specification
it implements, models of the parts around it (locks of the pool, the pack thread's
transactions, signatures and encodings, start-up, the clients' account database), TLC runs for all of them, and TLAPS proofs of the safety properties. Paths
below are relative to the repository root; line numbers of every definition are in
`PROJECT.json` under `map`.

## 1. Inventory

| Component | State | Operations | Modelled in |
|---|---|---|---|
| Block rules (`src/entity/block.cpp`) | id, header, `votes_`, `tss_sig_` | `get_server_id`, `is_vote_enough`, `merge_votes`, `get_sha256` | `TcBlock`, `TcSign`, `Codec` (cryptography symbolic) |
| Packing and relaying (`tc-server.cpp`, `tc-server-peer-grpc.hpp`) | `blk_seq_generator`, `relay_blocks`, `pb_sync_queue`, `pb_sync_labels`, `pending_blks` | `pack_block`, `send_relay_blocks`, `send_relay_block_sync`, calls and handlers `RelayBlock`, `RelayBlockSync` | `TcServer` |
| Votes and commits between servers (same files) | `relay_votes`, `pb_merge_queue`, `committed_blks`, `bcast_commit_blocks`, RocksDB | `send_relay_votes`, `merge_votes`, `bcast_commits`, calls and handlers `RelayVote`, `SPBcastCommit` | `TcServer`, `TcSign` |
| Start-up (`tc-server.cpp`) | services, queues for the peers | `start`, `init_server`, `init_peer_stubs` | `Startup` |
| Client-facing handlers (`tc-server-grpc.hpp`) | `clients` with `seen_blocks` | `PullPendingBlocks`, `GetBlocks`, `VoteBlocks`, `Register`, `Heartbeat` | `TcServer`, `TomChain`, `TcSign` (`Heartbeat` changes nothing) |
| Client (`tc-client.cpp`, `tc-client-grpc.hpp`) | `pending_blkhdr`, `pending_blks`, key share | pull thread, vote thread, `Register` | `TcClient`, `TomChain`, `TcSign` |
| Client account database | RocksDB, string buffers | population, the check of transactions in `VoteBlocks` | `Ledger`, `TcSign` |
| Pool locking (`tc-server.hpp:105-109` and all users) | `pb_sm_1`, element locks | find, insert, erase, traversal, counting | `PendingPool` |
| Transaction generator and pool | `pending_txs`, `pb-pool-limit` | `generate_tx`, transaction part of `pack_block` | `PackPool` |
| Dead block removal | `dead_block` | `remove_dead_blocks`, which has no caller at this commit (`tc-server.cpp:365`) | no |
| Registration and threshold signatures | key shares | `init_client_profile`, `Register`, signing, merging | `TcSign` |
| Heartbeats, `peer_status` | flags | `SPHeartbeat` | `Startup` |
| Serialisation (`flexbuffers_adapter.cpp`, `msgpack_adapter.hpp`) | none | `to_bytes`, `from_bytes`, `pack` | `Codec` |
| FlatBuffers service, configuration, profiling | none of the protocol | | no |

**Interaction.** Every server runs gRPC services for clients and for peers, whose
handlers run on gRPC's threads, and detached threads of its own: pack (only on
the server whose id equals `server-count`), count, relay votes, relay blocks,
broadcast commits, merge votes. Threads and handlers share the concurrent maps
and queues above. All calls block and have no deadline; no status is acted on
and nothing is retried: items are popped from their queue before the call, so a
failed call loses them.

**What is hard.**
- `pack_block` publishes a block to the relay queues one peer at a time and only
  then stores it itself; everything else may happen in between.
- The sync signal, relayed blocks, relayed votes and broadcast commits of a
  block travel on different threads and may overtake each other. A vote or a
  commit for a block that is not pending is dropped.
- Both BPS count the same votes independently and broadcast to each other.
- A client talks to two servers and may be offered a block by both.
- The pool is used under two layers of locks with opposite nesting orders.
- A client signs the copy it got, and copies of one block differ: by the votes that
  had arrived and by timestamps. Key shares come from whichever server a client
  registers at.
- Servers come up in any order and serve calls before they have their own queues.
- The limit on pending blocks is looked at once per round, before the work it is to
  limit.

**What makes it correct.** A committed block has the genuine votes of all clients;
a server has a block in one stage (pending, merging, committed) only; only the
BPS merge; clients get blocks only after the sync signal, and the signal comes
only when some peer has the block and it is on its way to the others; the number of votes a client casts is bounded; every packed
block is eventually committed, by every server; the locks neither lock up nor
expose half-inserted blocks; every share in a block was made by its voter over the
block's transactions; the pool stays near its limit and packing goes on. `PROJECT.json` lists the hazards with the
properties that address each.

## 2. Modules

    TcBlock        servers, clients, block ids, get_server_id, is_vote_enough, stubs
      TcServer     state, threads and handlers of all servers
      TcClient     pull thread and vote thread of all clients
        TomChain   composition, failing calls, fairness, properties
          TomChain_proofs             types, certificates, refinement of BlockCommit
            TomChainQueues_proofs     clients' work, stages of a block, labels
              TomChainSettled_proofs  with two servers no block is left behind
      TcSign       keys, signed copies, shares and merged signature of one block
        TcSign_proofs
      Startup      start() of all servers, the first block, heartbeats
        Startup_proofs
    BlockCommit    abstract specification, instantiated by TomChain
    Codec          encodings and digest (operators, used by TcSign)
    Ledger         account database of a client (operators, used by TcSign)
    PendingPool    locks of one server's pending_blks
      PendingPool_proofs
    PackPool       pack thread, transactions, pb-pool-limit
      PackPool_proofs

`TcServer` and `TcClient` define the assignments of one participant; a client's
call is a joint step of its thread and the server's handler, so those steps are
composed in `TomChain`. Names starting with the name of an operation and an
underscore (`PullMark_early`) are faulty variants of that operation; they are not
used by the specification, and substituting one for the original makes a
property fail (`mutants` in `PROJECT.json`).

### The protocol: TcServer, TcClient, TomChain

| Code | Model |
|---|---|
| `pack_block` | `PackPush` per relay queue, then `PackInsert` |
| `send_relay_blocks`, call `RelayBlock` | `RelayBlockPop` per `try_pop`, `RelayBlockSend`, `RelayBlockReturn`; `RelayBlockEmpty` for an empty queue |
| `send_relay_blocks` (drain), `send_relay_block_sync` | `SyncPop`, `RelayBlockSync` per peer, `SyncLocal` |
| handler `RelayBlock` | `RelayBlockHandler` per block |
| handler `VoteBlocks` | `VoteBlocksRelay` (queues for the other BPS), `VoteBlocksInsert` (own pool) |
| `send_relay_votes`, handler `RelayVote` | `RelayVote` per vote |
| `merge_votes` | `MergeVotes` per block |
| `bcast_commits`, handler `SPBcastCommit` | `SPBcastCommit` per block |
| handler `PullPendingBlocks` | `PullSnapshot` (copy of the pool), `PullVisit` per block |
| handler `GetBlocks` | `GetVisit` per header |
| client pull loop, vote loop | `NextCall`, `CallReturns`; `VoteBegins`, `Signs`, `VoteEnds` |

Abstractions:
- A block is its id and the set of clients whose votes it holds. Ids start at
  `server_id * 1000000`, as in the code: the id decides which servers are BPS.
  `BlocksBefore` shifts the first id so that every case of the selection can be
  looked at with few blocks.
- A handler's work on one block is one step, as the accessor of the pool's element
  makes it. `PendingPool` looks below that. In particular the push to `pb_merge_queue`
  (or the insertion in `committed_blks`) and the erasure from `pending_blks` that follows
  are one step, in `AddVote` and `SPBcastCommit`: the accessor is held over both, so no
  handler sees the block in between. The merge thread may already pop it and a traversal
  may still copy it, with the outcome of the same steps in another order: a traversal
  just before the push copies the block too.
- Relayed votes and broadcast commits move one item per step. The handler takes
  the items of a request one by one anyway, so how they are grouped into requests
  cannot be observed. The relay-block thread is modelled request by request,
  because the end of the call triggers the sync signal.
- In `PullPendingBlocks` the visits of blocks the client has already seen are
  skipped (they change nothing). `GetBlocks` without headers is passed over.
- `dead_block` is always empty and left out.
- The model starts when all servers have finished `init_peer_stubs` and all
  clients are registered.

Failing calls. `faults` counts them, `MaxFaults` bounds them. A call may fail
before its handler runs, or its answer may be lost. For a `RelayBlock` call the
thread may get its error while the handler still runs (`Abandon`). A failed
`RelayVote` or `SPBcastCommit` loses any non-empty prefix of the queue, which
covers both a request that never arrived and one that was handled in part. A
failed `VoteBlocks` call loses the vote for that stub; when only the answer is
lost the outcome is that of a success, since the client ignores the status.

Fairness (`FairSpec`). Every thread loops for ever and every handler ends:
- `WF(Progress)`: some step that uses up queued work is taken while there is one
  (finish a block begun by the pack thread, handle a relayed block, merge, relay
  a vote, broadcast, vote). Each of these steps consumes an item and items are
  finite, so fairness of the disjunction suffices.
- `WF` of the relay-block thread and of each client's pull thread separately:
  they also take idle steps.

The pack thread need not *begin* a block. Liveness is checked with
`MaxFaults = 0`; with failing calls the code does lose blocks, by design of its
queues.

### The abstract specification: BlockCommit

Three variables: the blocks packed so far, the blocks each client has signed, the
blocks each server has committed. Blocks are packed in the order of their ids,
clients sign packed blocks, a *processor* of a block may commit it when all clients
have signed it, and any other server may commit it after some server has. `TomChain`
implements it (`ImplementsCommit`) with `get_server_id` for the processors and the
ghost variable `voted` for the signatures; pools, queues, labels and calls are hidden.
The steps of `MergeVotes` and `SPBcastCommit` become `Commit`, so the refinement
contains that only a BPS commits first and that no failing call lets a server commit
without all signatures.

### The locks: PendingPool

Threads are sorted by the lock pattern of their code: `Voters` (`VoteBlocks`,
`RelayVote`), `Committers` (`SPBcastCommit`), `Getters` (`GetBlocks`, which
carries its read accessor from one iteration into the next and holds it while it
takes `pb_sm_1`), `Storers` (`RelayBlock`, `pack_block`) and `Walkers`
(`PullPendingBlocks`, and the timer that counts blocks, `Count`). Acquiring a lock
is a step; releasing one cannot block and belongs to the step before. An element
is absent, null (inserted and not yet assigned) or a block.

`SPBcastCommit` also holds an accessor of `committed_blks` while it erases.
`merge_votes`, the only other user of that map, takes no lock of the pool, so
this cannot close a circle and is left out. The constant `WritersFirst` says whether a
waiting writer of a `std::shared_mutex` holds back new readers. The C++ standard leaves
that open: glibc's lock lets readers pass, the lock libstdc++ builds itself where there is
no native one does not, and neither do those of other C++ libraries. Both are checked
(`pool_locks`, `pool_lockup`). The copy of a
pointer while it is being assigned is a data race; the model gives it the
outcomes null and block.

### The pack thread: PackPool

`CheckPool`, `Generate` or `Throttle`, then `PackBlock` until `PackEnds`: one round of
the loop at `tc-server.cpp:240-252`. Transactions and blocks are counted. `generate_tx`
draws ids at random and an id already in the pool is not inserted again, so a round
brings between 0 (none only if the pool has some) and `GenRate` new ones. Everything
other threads do to the packer's pool is `Leave`; `GetStuck` is a block that never
leaves (`s4_lost` shows how that happens). Fairness: the thread loops, a block that
is not stuck leaves, and a draw brings something new again and again (strong fairness,
since a draw is random). With `MaxStuck` at or above `PoolLimit` the packer stops for
good: the limit is reached by blocks nobody will take away.

### Shares, encodings, accounts: Codec, Ledger, TcSign

`Codec` has the records the flexbuffers adapters write and read. The decimal keys of
the votes are wrapped numbers, so that reading them by position or as something
else is an error the run would see; the order of such keys as strings, which no reader
depends on, and the range of `std::stoi`, far beyond any `client-count`, are left out. `tss_sig_` is not written (`flexbuffers_adapter.cpp:276-283`
is commented out). The digest is the msgpack form itself, which stands for its hash.

`TcSign` follows the first block as an object through one server's storage and every
encoding: header with timestamps, transactions, votes with shares. A share is the
record of the key set, the digest and the signer; merging collects the shares. It starts
when every server holds the block without votes. With two servers that is how it is
relayed (`NoVoteBeforeTheRelay`); with three or more the packer's object can have votes
when it is serialised for the second peer, so `TcSign` with more servers looks at the
cases where no vote came that early.

| Code | Model |
|---|---|
| `init_client_profile`, `Register` | `Register`: the key set is that of the server at stub 0 |
| handlers `PullPendingBlocks`, `GetBlocks` | steps of the same name: `dist_ts_` is set by the first offer, a copy is encoded with the votes it has then |
| client `VoteBlocks` | `VoteSign` (`Checked` transactions, digest, cleared transactions, `votes_.insert`), `VoteBlocks` per stub with the handler |
| handler `RelayVote` | `RelayVote` |
| `Block::merge_votes`, `TcServer::merge_votes` | `Merged`, `MergeVotes` |
| handler `SPBcastCommit` | `SPBcastCommit`: the decoded object replaces the pending one |

`Ledger` has the string buffers and the two loops of `VoteBlocks` over the
transactions. `Get` leaves the value alone when there is no such key, as RocksDB does.
The key strings have capacity and no size, so `snprintf` prints nothing into them and
every transaction is looked up under the empty key (`sign_ledger`). `Put` then writes what
`Get` has found there back to that key, so no account changes either.
A block with more transactions than buffers (2000) makes `at` throw and is left out.

`TcSign` leaves out failing calls and the splitting of handlers, which `TomChain` has.
`base_id` (a constant in the code) is 0.

### Start-up: Startup

`start()` of every server step by step, both services as threads of their own, and
only as much of the protocol as meets a server that is not ready: the first block, its
signals and votes, merging, heartbeats. A call to a server that does not listen fails
and what it carried is lost. `undefined` collects servers at which
`relay_votes.find(t)->second` was evaluated without an entry; the vote is then not
processed further. Fairness: a started server comes up and its timer fires for ever.
Clients and packer need none.

## 3. Runs

Constants of the first group: (`ServerCount`, `ClientCount`, `BlocksBefore`, `MaxBlocks`, `MaxFaults`).

| Run | Instance | Checks | Result |
|---|---|---|---|
| `s2_blocks` | 2,1,0,2,0, fair | `TypeOK`, `OneLifecycleStage`, `SettledCommittedEverywhere`, `NoVoteBeforeRelay`, `StagesForward`, `PackedCommittedEverywhere` | hold, 780 thousand states |
| `s3_live` | 3,1,1,1,0, fair | `OnlyBPSMerges`, `VotedOnlySynced`, `SyncedArrives`, `ImplementsCommit`, `PackedCommittedSomewhere` | hold, 240 thousand states |
| `s2_faults` | 2,2,0,1,1 | `CommittedCertified`, `CertInv`, `OneLifecycleStage`, `VoteWorkBounded`, `SettledCommittedEverywhere`, `SettledCommittedSomewhere`, `ImplementsCommit` | hold, 1.7 million states |
| `s4_lost` | 4,1,2,1,0 | `SettledCommittedSomewhere` | violated |
| `pool_locks` | 2 ids, 2 voters, 1 of each other kind, readers pass | `PoolInv`, `NoLockup`, `AccessorNeverNull` | hold, 1.4 million states |
| `pool_null` | as `pool_locks` | `TraversalExcludes` | violated |
| `pool_lockup` | as `pool_locks`, writers first | `NoLockup` | violated |
| `pack_pool` | blocks of 3, rate 5, 7 ids, limit 3, 2 stuck, fair | `PoolInv`, `PoolBounded`, `PackingGoesOn` | hold |
| `sign` | 2 servers, 2 clients, 2 accounts | `TypeOK`, `NoSelfEndorsement`, `SharesGenuine`, `CommittedHasShares`, `RoundTrip`, `FirstVoteKept` | hold, 960 thousand states |
| `sign_merge` | as `sign` | `MergedBelongTogether` | violated |
| `sign_ledger` | as `sign` | `TransactionsLookedUp` | violated |
| `startup` | 2 servers, 2 clients, fair | `PackerVotesSafe`, `CommitQueuedForAll`, `AllOnline` | hold |

Why these bounds. Two servers are the shipped configuration (`conf/server/server.json`);
there both are BPS of every block, both are stubs of every client and one packs,
so all races between packer, BPS and broadcast appear. Two clients are the
smallest number for which "enough votes" differs from "a vote". Two blocks let a
request carry one or two blocks and a queue hold more than one item. Three servers
are needed for a server that is not a BPS and for a relay that has reached one
peer and not the next; four for a packer and a first peer that are both not BPS.
One fault at every possible place is enough to lose each kind of message once; the
states of `s2_faults` without a fault are those of two clients racing undisturbed, for
which `SettledCommittedEverywhere` is stated.
In `s3_live` and `s4_lost`, `BlocksBefore` selects the case where the client's
first stub is not a BPS, so that votes have to be relayed.
In `pack_pool` the block size does not divide the rate, so transactions are left
over, and the rate and the ids allow one round to fill more than one block. In `sign`
two clients with different first stubs are enough for copies with and without the
other's vote and for second copies of a block; one clock value is enough, since only
unset and set timestamps are told apart by what is checked.

The runs of `TomChain`, `TcSign`, `Startup` and `PackPool` check for deadlock too: the
threads of the protocol never stop. `CHECK_DEADLOCK FALSE` is used for
the pool, which has finitely many blocks to store and a walker that may crash; `NoLockup`
states freedom from lock-up directly.

`Settled*` are the safety form of the liveness properties: in a state where no
thread has any work left, the block has been committed. They hold or fail without
any fairness assumption. `SettledCommittedSomewhere` holds with one failing call and
two servers (`s2_faults`), because both are BPS and get every vote twice; with four
servers it fails even without failures (`s4_lost`).

### What the failing runs show, and what is not claimed

- **s4_lost.** With three or more servers a block is announced as distributed when it
  has been relayed to *one* peer: `pack_block` pushes to the relay queues one after the
  other (`tc-server.cpp:594-597`), and the relay thread may pass the next queue while it
  is empty and then drain `pb_sync_queue`. What a label does mean is `SyncedArrives`:
  some peer has the block and the others will get it. With four, votes can reach both BPS before the block; they are dropped
  (`tc-server-peer-grpc.hpp:103-107`), and the block is never committed.
- `PackedCommittedEverywhere` is claimed for two servers only. With three, everything up
  to the commit broadcast can happen before `pack_block` inserts the block in its own
  pool; the packer ignores the broadcast, inserts the block and keeps it for ever. With
  two servers the packer is a BPS itself and gets the votes directly.
- **pool_null.** The pointer of a newly inserted element is assigned after
  `pb_sm_1` has been released, so a traversal can copy a null block and
  dereference it once the block's sync label is set.
- **pool_lockup.** With a lock that prefers writers the remark `FIXME: deadlock`
  (`tc-server.cpp:308`) is right: a vote handler that holds its block's accessor and wants
  `pb_sm_1` to erase it waits behind the waiting traversal or timer, which waits for a
  handler that holds `pb_sm_1` in `find`, which waits for that accessor. With glibc's lock
  it cannot happen (`pool_locks`, `NeverLockedUp`): the program depends on the platform.
- **sign_ledger.** "check transactions" (`tc-client-grpc.hpp:280`) looks up no account of
  any transaction, because the key strings were reserved and not resized
  (`tc-client.cpp:49-59`).
- **sign_merge.** The digest a client signs covers the whole object: the second
  client's copy holds the first one's vote or a `dist_ts_`, so the two sign different
  digests. And every server generates key shares for all clients on its own, while a
  client takes the share of its stub 0: clients with different first stubs sign with
  shares of unrelated keys. Nothing in the code verifies the merged signature, so
  blocks are committed all the same.
- `PackerVotesSafe` is about the packer only. The two seconds of sleep in `start()` do
  not order servers: a packer that is done can relay its first block to a peer whose
  services listen and whose `init_peer_stubs` is still to come; the handler of a vote
  there dereferences `end()` of an empty map (`tc-server-grpc.hpp:365`).
- `NoVoteBeforeRelay` is about two servers. With three the label may be set after the
  first of two relays, and a vote in the packer's pool then meets the serialisation of the
  same object for the second peer (`tc-server-peer-grpc.hpp:579`).

## 4. Proofs

`TomChain_proofs` proves, for every `ServerCount`, `ClientCount`, `MaxBlocks`
(each at least 1), `BlocksBefore` and `MaxFaults`:

- `BPSAreServers`: `get_server_id` returns servers, two different ones if there are
  two servers. `EnoughIsAll`: votes of clients are enough exactly when all clients
  have voted (cardinality of a subset of a finite set).
- `TypeCorrect`: `Spec => []TypeOK`. One lemma per group of actions.
- `CommittedAreCertified`: `Spec => []CommittedCertified`. The property is not
  inductive: a certificate is only as good as the votes in the queue it came from.
  `CertInv` therefore adds that every vote anywhere was signed by its voter
  (`VotesGenuine`: pools, relay queues, the request being filled, blocks in
  handlers, the client's call in progress) and that everything in a merge or
  broadcast queue has all votes (`QueuedComplete`). `EnoughIsAll` gives completeness
  at the moment a block enters the merge queue; `Genuine` sets only grow, which
  carries the untouched parts over (`CertFrame`, `SeqGrows`). TLC checks `CertInv`
  in `s2_faults`; `CertInvariant` is `Spec => []CertInv` itself.
- `CommitRefinement`: `Spec => ImplementsCommit`. `MergeVotes` and a `SPBcastCommit`
  step that finds the block pending become `Commit`, `PackPush` of a block's first queue
  becomes the abstract packing, `Signs` the signature; everything else stutters. The
  invariant `CommitInv` is `CertInv` with three additions: everything in a pool, queue or
  call has been packed (`ServerKnown`, `ClientKnown`), without which a client could sign
  a block the abstract system has not handed out; relayed and queued votes are at a BPS
  of their block (`VotesAtBPS`), since the handler of a relayed vote does not look who is
  BPS; and what a server broadcasts it has committed (`BcastCommitted`), which makes an
  adopted commit a second one.
- `OnlyProcessorsMerge`: `Spec => []OnlyBPSMerges`, from `VotesAtBPS`.

`TomChainQueues_proofs` proves, again for the same constants unless it says otherwise:

- `VotedWereSynced`: `Spec => []VotedOnlySynced`. `SyncedInv` follows a block from the
  answer of `PullPendingBlocks` over the header set, the `GetBlocks` call and the vote
  queue to the vote: at each place it has a label at one of the client's two servers.
  Labels only grow (`LabelsGrow`).
- `VoteWorkIsBounded`: `Spec => []VoteWorkBounded`. `WorkInv` counts, per client and
  block, copies in the vote queue, header and answers on their way against the servers
  that have offered it. The answer of a `GetBlocks` call is a separate part of the sum:
  its blocks are neither in the header set nor in the vote queue when the call returns.
- `OneStageAtATime`: `Spec => []OneLifecycleStage`, and `StagesGoForward`:
  `Spec => StagesForward`. The handler of `RelayBlock` stores a block unconditionally,
  so the stages depend on its being relayed to a peer once. `WayInv` says that a block is
  in at most one of the relay queue, the request being filled, a call and the peer's pools
  (`WayTo`), that only blocks the pack thread has pushed for that peer are there
  (`Handed`), and that calls which overlap, after one was abandoned, share no block
  (`CallsApart`).
- `SyncedBlocksArrive`: `Spec => []SyncedArrives`, for any number of servers: as long as
  no call has failed, a labelled block is held by some peer, and every other peer holds it
  or it is still coming to it (`ComingTo`: in front of it in `pack_block`'s loop, in its
  relay queue, in the request being filled, or in a call). `StoredInv` ties the sync signal
  to the end of a call that delivered the block; `ArriveInv` says that a packed block is
  held or coming at every peer, since without failing calls nothing drops it on the way.
- `NoVoteBeforeTheRelay`: `NoVoteBeforeRelay` for `ServerCount <= 2`, with failing calls:
  a vote needs a label (`SyncedInv`, `CertInv`), a label a block that has left the relay
  queue (`SentInv`), and what has left does not come back (`WayInv`).

The hypothesis `ServerCount <= 2` of the last one cannot be dropped: with three servers
TLC finds a vote in the packer's pool while the block still waits for the second relay.

`TomChainSettled_proofs` proves, for two servers and any number of clients and blocks:

- `NothingLeftBehind`: `Spec => []SettledCommittedEverywhere`, and, if `MaxFaults <= 1`,
  `OneFaultLeavesACommit`: `Spec => []SettledCommittedSomewhere`. Both are about a state
  with nothing left to do, so the invariant has to say, for every block and server, where
  the next piece of work is. `Intact(s)` does so in three parts: a block handed out for
  `s` is on its way to `s` or held there (`Stored`); the signal for it is in the relay
  queue, the request, `pb_sync_queue` or the loop of `send_relay_block_sync`, or the label
  is set at `s` (`Signalled`); and a pending block whose header `s` has offered to a client
  is among its headers, in the answer, in the vote queue ahead of the call to `s`, or has
  the client's vote at `s` (`Offered`). `OpenInv` adds that a pending block lacks a vote and
  that blocks are relayed without votes (from `NoVoteBeforeRelay`), so that storing a
  relayed block loses none. A step without a failing call preserves `Intact(s)` for all
  `s`, a failing call breaks it for at most one (`IntactStep`). In a settled state
  `Intact(s)` leaves one possibility for a block pending at `s`: it has every client's vote,
  which `OpenInv` excludes (`IntactCommits`).

Two servers are the shipped configuration and the hypothesis is needed: both servers are
then BPS of every block and stubs of every client, so votes need not be relayed at all.
With four servers `s4_lost` shows a block that is committed nowhere. Two failing calls can
lose a client's vote at both servers, hence `MaxFaults <= 1`.

`PendingPool_proofs` proves, for any non-empty set of ids and any disjoint sets of
threads:

- `LockDiscipline`: `Spec => []PoolInv`, the inductive invariant: who holds
  `pb_sm_1` and which accessor at each place, exclusion of writing accessors, and
  that a null element is owned by a storer about to assign it.
- `NeverLockedUp`: `Spec => []NoLockup` if `~WritersFirst`, from `PoolInv`. The hypothesis
  is needed (`pool_lockup`). If nobody holds
  `pb_sm_1` exclusively, a thread at `enter` or `erase` can go on; a thread at
  `find` waits only for the holder of an element, who is at `use` (can go on), or
  at `erase` or `enter` (can go on, since only shared locks are held); a traversal
  waits only if some thread is at `find`.
- `AccessorsSafe`: `Spec => []AccessorNeverNull`, the `assert` of
  `tc-server-peer-grpc.hpp:116`.

`PackPool_proofs` proves, for all positive rates, sizes and limits:

- `PoolInvariant`: `Spec => []PoolInv`, and `PoolStaysBounded`: `Spec => []PoolBounded`.
  The bound alone is not inductive: within a round it depends on the transactions still
  to be packed, and at the start of a round on none being left that fill a block. The
  arithmetic is of the form `blocks * TxPerBlock + transactions`, which a `PackBlock`
  step leaves as it is.

`Startup_proofs` proves, for any number of servers and clients:

- `PackerVotesAreSafe`: `Spec => []PackerVotesSafe`, and `CommitIsQueuedForAll`:
  `Spec => []CommitQueuedForAll`. `StartInv` adds that a server past `init_peer_stubs`
  has all queues (`StubsReady`) and that nothing of the first block exists anywhere
  before the packer's threads run (`BlockAfterStart`); so a vote, which needs the block,
  finds the packer ready.

`TcSign_proofs` proves, for any number of servers, clients, accounts, clock values and
string buffers (at least as many as the block has transactions, `SlotsAssumption`):

- `EncodingsRoundTrip`: `Spec => []RoundTrip`. Lemmas about the codec come first:
  a vote, the transactions and the map of votes with decimal keys come back
  (`VoteBack`, `TxsBack`, `VotesBack`), hence the block but for `tss_sig_` (`SentKeeps`).
- `SharesAreGenuine`, `NoShareOfOwnVote`, `CommittedHaveShares`, `FirstVotesKept`,
  `SignTypeCorrect`. Shares are produced once and then copied, encoded and inserted in
  many places, so `SignInv` states for every copy and queue that it is the block with
  a map of votes each made by its voter (`IsBlock`, `VotesBy`) over a copy it has signed
  that holds all transactions and not the voter's own vote (`Signable`). The last part is
  where `votes_.insert` matters: a client may sign a second copy with its own vote in it,
  and the insertion then keeps the old one. `ServerOK` ties the place of a block to its
  votes: from the merge queue on it has those of all clients.

### Only model-checked

- All liveness: `PackedCommittedEverywhere`, `PackedCommittedSomewhere`, `PackingGoesOn`,
  `AllOnline`. The proof system used does not support fairness.
- The violated properties, of course; the runs show that they fail.

## 5. Not modelled

- The arithmetic of keys, shares and signatures (symbolic in `TcSign`) and the check of
  a signature, which the code does not do.
- Restart after a crash. The code opens its databases again and reads nothing back,
  and nothing says what a restarted server should do; `blk_seq_generator` starts again
  at `server_id * 1000000`, so ids of committed blocks are used again.
- `remove_dead_blocks`, which has no caller (`tc-server.cpp:365` is commented out).
- Timers' frequencies; they are covered by arbitrary interleaving.
- The outcomes of a data race inside `votes_`; `NoVoteBeforeRelay` says when it cannot
  happen.
- Adapters without a caller: flexbuffers of `Transaction` and `BLSSignature`, the
  unpacking side of the msgpack adapter.
- The FlatBuffers service (not started), configuration, `main`, logging and profiling.

## 6. Plan

Done: protocol, locks, abstract specification, pack thread, signatures and encodings,
start-up, ledger; proofs of all invariants and action properties the passing
runs check. Left:

1. `SettledCommittedSomewhere` for three servers without failing calls, where the votes of
   a client may have to be relayed to a BPS (TLC checks its liveness form in `s3_live`).
2. Runs that record what the README says of three servers: a vote before the last relay
   (`NoVoteBeforeRelay`), and the start-up window of a peer that comes up after the packer.
