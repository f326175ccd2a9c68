----------------------------- MODULE BlockCommit -----------------------------
(***************************************************************************)
(* What TomChain promises about blocks, without pools, queues, threads and *)
(* calls: blocks are packed in the order of their ids, clients sign packed *)
(* blocks, a processing server of a block commits it once all clients have *)
(* signed it, and every other server only follows one that has committed.  *)
(***************************************************************************)
EXTENDS Naturals

CONSTANTS
    Servers,
    Clients,
    Blocks,         \* block ids, numbers
    Processors      \* Processors[b]: the servers that may commit b first

VARIABLES
    packed,         \* blocks the packer has handed out
    signed,         \* signed[c]: blocks client c has signed
    committed       \* committed[s]: blocks server s has committed

absVars == <<packed, signed, committed>>

AbsInit ==
    /\ packed = {}
    /\ signed = [c \in Clients |-> {}]
    /\ committed = [s \in Servers |-> {}]

PackBlock(b) ==
    /\ b \notin packed
    /\ \A a \in Blocks : a < b => a \in packed
    /\ packed' = packed \cup {b}
    /\ UNCHANGED <<signed, committed>>

Sign(c, b) ==
    /\ b \in packed
    /\ signed' = [signed EXCEPT ![c] = @ \cup {b}]
    /\ UNCHANGED <<packed, committed>>

Commit(s, b) ==
    /\ \A c \in Clients : b \in signed[c]
    /\ s \in Processors[b] \/ \E t \in Servers : b \in committed[t]
    /\ committed' = [committed EXCEPT ![s] = @ \cup {b}]
    /\ UNCHANGED <<packed, signed>>

AbsNext ==
    \E b \in Blocks :
        \/ PackBlock(b)
        \/ \E c \in Clients : Sign(c, b)
        \/ \E s \in Servers : Commit(s, b)

AbsSpec == AbsInit /\ [][AbsNext]_absVars
=============================================================================
