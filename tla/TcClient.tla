------------------------------- MODULE TcClient -------------------------------
(***************************************************************************)
(* The clients of TomChain.  Each runs a pull thread, which asks both its  *)
(* servers for headers and then both for the blocks of the headers it      *)
(* holds, and a vote thread, which votes on each block it got and sends    *)
(* the vote to both servers.  All calls are blocking.                      *)
(*                                                                         *)
(* Sources: src/src/client/tc-client.cpp (schedule),                       *)
(* src/include/client/tc-client-grpc.hpp.                                  *)
(***************************************************************************)
EXTENDS TcBlock, Sequences

VARIABLES
    hdrs,    \* hdrs[c]: keys of pending_blkhdr
    got,     \* got[c]: pending_blks, the queue of blocks to vote on
    pull,    \* pull[c]: the pull thread and the call it waits for
    vote,    \* vote[c]: the vote thread, voting on the block Head(got[c])
    voted    \* voted[c]: history of the blocks client c has signed

clientVars == <<hdrs, got, pull, vote, voted>>

(* The pull loop: at 1 and 2 PullPendingBlocks(0) and (1), at 3 and 4      *)
(* GetBlocks(0) and (1).                                                   *)
IsPull(c)   == pull[c].at \in {1, 2}
PullStub(c) == Stub(c, IF pull[c].at \in {1, 3} THEN 0 ELSE 1)
VoteStub(c) == Stub(c, vote[c].stub)

(* pull[c].busy: the call is made; todo: the blocks its handler has still  *)
(* to look at; resp: the answer so far.                                    *)
ClientTypeOK ==
    /\ hdrs \in [Clients -> SUBSET Blocks]
    /\ got \in [Clients -> Seq(Blocks)]
    /\ pull \in [Clients -> [at : 1 .. 4, busy : BOOLEAN, todo : SUBSET Blocks,
                             resp : Seq(Blocks)]]
    /\ vote \in [Clients -> [stub : {0, 1}, inserting : BOOLEAN]]
    /\ \A c \in Clients : vote[c].inserting => got[c] # <<>>
    /\ voted \in [Clients -> SUBSET Blocks]

ClientInit ==
    /\ hdrs = [c \in Clients |-> {}]
    /\ got = [c \in Clients |-> <<>>]
    /\ pull = [c \in Clients |-> [at |-> 1, busy |-> FALSE, todo |-> {}, resp |-> <<>>]]
    /\ vote = [c \in Clients |-> [stub |-> 0, inserting |-> FALSE]]
    /\ voted = [c \in Clients |-> {}]

(* The ids in a sequence of blocks. *)
Ids(seq) == {seq[i] : i \in 1 .. Len(seq)}

-----------------------------------------------------------------------------
(* The pull thread *)

(* The next call of the loop.  GetBlocks renders its request at once from  *)
(* the headers the client holds; without headers its request and answer    *)
(* are empty, and the loop passes on to PullPendingBlocks(0).              *)
NextCall(c, headers) ==
    LET at == pull[c].at
    IN  pull' = [pull EXCEPT ![c] =
            IF at \in {2, 3} /\ headers # {}
            THEN [at |-> at + 1, busy |-> TRUE, todo |-> headers, resp |-> <<>>]
            ELSE [at |-> IF at = 1 THEN 2 ELSE 1, busy |-> FALSE, todo |-> {}, resp |-> <<>>]]

(* PullPendingBlocks starts; its handler will look at the given blocks.    *)
(* With none to look at the answer is empty and the call is over.          *)
PullStarts(c, blocks) ==
    /\ ~pull[c].busy
    /\ IF blocks = {} THEN NextCall(c, hdrs[c])
       ELSE pull' = [pull EXCEPT ![c].busy = TRUE, ![c].todo = blocks]
    /\ UNCHANGED <<hdrs, got, vote, voted>>

(* Mutant: a received block keeps its header, so it is asked for again. *)
CallReturns_keephdr(c, resp, delivered) ==
    /\ \/ IsPull(c) /\ delivered
          /\ hdrs' = [hdrs EXCEPT ![c] = @ \cup Ids(resp)]
          /\ got' = got
       \/ ~IsPull(c) /\ delivered
          /\ hdrs' = hdrs
          /\ got' = [got EXCEPT ![c] = @ \o resp]
       \/ ~delivered /\ UNCHANGED <<hdrs, got>>
    /\ NextCall(c, hdrs'[c])

(* The answer arrives and is unpacked, or is lost: a failed call leaves an *)
(* empty response, and the status is ignored.                              *)
CallReturns(c, resp, delivered) ==
    /\ \/ IsPull(c) /\ delivered
          /\ hdrs' = [hdrs EXCEPT ![c] = @ \cup Ids(resp)]
          /\ got' = got
       \/ ~IsPull(c) /\ delivered
          /\ hdrs' = [hdrs EXCEPT ![c] = @ \ Ids(resp)]
          /\ got' = [got EXCEPT ![c] = @ \o resp]
       \/ ~delivered /\ UNCHANGED <<hdrs, got>>
    /\ NextCall(c, hdrs'[c])

(* The handler of the call looks at b and answers with it or not; after    *)
(* the last block the answer goes back.                                    *)
CallVisits(c, b, answered, delivered) ==
    LET resp == IF answered THEN Append(pull[c].resp, b) ELSE pull[c].resp
    IN  /\ pull[c].busy /\ b \in pull[c].todo
        /\ IF pull[c].todo = {b} THEN CallReturns(c, resp, delivered)
           ELSE /\ delivered
                /\ pull' = [pull EXCEPT ![c].todo = @ \ {b}, ![c].resp = resp]
                /\ UNCHANGED <<hdrs, got>>
        /\ UNCHANGED <<vote, voted>>

-----------------------------------------------------------------------------
(* The vote thread *)

(* The block being voted on stays at the head of the queue until its vote   *)
(* has been sent to both stubs; only this thread takes blocks from the queue. *)
VoteBegins(c) == got[c] # <<>> /\ ~vote[c].inserting

(* The block is signed; the history keeps it. *)
Signs(c) == voted' = [voted EXCEPT ![c] = @ \cup {Head(got[c])}]

(* Mutant: the vote goes to the first stub only. *)
VoteEnds_onestub(c) ==
    /\ vote' = [vote EXCEPT ![c].inserting = FALSE]
    /\ got' = [got EXCEPT ![c] = Tail(@)]
    /\ UNCHANGED <<hdrs, pull>>

(* The call to a stub is over: go on to stub 1, or to the next block. *)
VoteEnds(c) ==
    /\ vote' = [vote EXCEPT ![c] = [stub |-> 1 - @.stub, inserting |-> FALSE]]
    /\ got' = IF vote[c].stub = 1 THEN [got EXCEPT ![c] = Tail(@)] ELSE got
    /\ UNCHANGED <<hdrs, pull>>

(* The call goes on with the second part of its handler. *)
VoteGoesOn(c) ==
    /\ vote' = [vote EXCEPT ![c].inserting = TRUE]
    /\ UNCHANGED <<hdrs, got, pull>>
=============================================================================
