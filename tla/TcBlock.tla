------------------------------- MODULE TcBlock -------------------------------
(***************************************************************************)
(* The pure part of TomChain: who the servers, clients and blocks are,     *)
(* which servers collect the votes of a block, when its votes are enough,  *)
(* and which two servers a client talks to.                                *)
(*                                                                         *)
(* Sources: src/src/entity/block.cpp, src/src/client/tc-client.cpp (main), *)
(* src/src/server/tc-server.cpp (schedule, init_server).                   *)
(***************************************************************************)
EXTENDS Naturals, FiniteSets

CONSTANTS
    ServerCount,    \* "server-count" of the server configuration
    ClientCount,    \* "client-count": also the number of votes a block needs
    BlocksBefore,   \* blocks packed and settled before the behaviour starts
    MaxBlocks       \* bound: number of blocks packed in a behaviour

ASSUME ServerCountAssumption == ServerCount \in Nat \ {0}
ASSUME ClientCountAssumption == ClientCount \in Nat \ {0}
ASSUME BlocksBeforeAssumption == BlocksBefore \in Nat
ASSUME MaxBlocksAssumption   == MaxBlocks \in Nat \ {0}

(* Server and client ids start from one. *)
Servers == 1 .. ServerCount
Clients == 1 .. ClientCount

(* Only the server whose id equals server-count runs the pack thread. *)
Packer == ServerCount
Peers  == Servers \ {Packer}

(* blk_seq_generator starts at server_id * 1000000 and is incremented by   *)
(* one for each packed block.  The id decides which servers process the    *)
(* block, hence BlocksBefore.                                              *)
FirstBlock == Packer * 1000000 + BlocksBefore
Blocks     == FirstBlock .. (FirstBlock + MaxBlocks - 1)

(* The id of no block: blk_seq_generator starts above it. *)
NoBlock == 0

(* The block processing servers (BPS) of block b: primary and shadow. *)
get_server_id(b) ==
    LET primary == (b % ServerCount) + 1
        shadow  == IF primary + 1 > ServerCount THEN 1 ELSE primary + 1
    IN  {primary, shadow}

(* Mutant: a majority of the clients is taken to be enough. *)
is_vote_enough_majority(votes) == 2 * Cardinality(votes) >= ClientCount

(* votes: the ids of the clients whose vote is in the block's votes_. *)
is_vote_enough(votes) == Cardinality(votes) >= ClientCount

(* The server behind stub k (0 or 1) of client c. *)
Stub(c, k) ==
    LET select == ((c - 1) % ServerCount) + 1
    IN  IF k = 0 THEN select
        ELSE IF select + 1 > ServerCount THEN 1 ELSE select + 1
=============================================================================
