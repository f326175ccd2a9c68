----------------------------- MODULE PendingPool -----------------------------
(***************************************************************************)
(* The locks of one server's pending_blks: the std::shared_mutex pb_sm_1,  *)
(* taken shared by every operation on the concurrent hash map and          *)
(* exclusively to traverse it, and the lock of each element, which an      *)
(* accessor holds from find or insert until release or erase.              *)
(*                                                                         *)
(* A thread stands for a handler or loop that uses the pool.  Releasing a  *)
(* lock never blocks, so it is part of the step before it; acquiring one   *)
(* is a step of its own.  Whether a vote was the last one needed is left   *)
(* open.                                                                   *)
(***************************************************************************)
EXTENDS Naturals, FiniteSets

CONSTANTS
    Ids,         \* block ids
    Voters,      \* handlers VoteBlocks and RelayVote
    Committers,  \* handler SPBcastCommit
    Getters,     \* handler GetBlocks
    Storers,     \* handler RelayBlock and pack_block
    Walkers,     \* handler PullPendingBlocks, and the timer that counts blocks
    WritersFirst \* a waiting writer of a std::shared_mutex holds back new readers

ASSUME IdsAssumption == Ids # {}
(* The C++ standard leaves open whether it does: glibc's rwlock lets the   *)
(* readers pass, the lock libstdc++ builds itself where there is no native *)
(* one makes them wait, and so do other C++ libraries.                     *)
ASSUME WritersFirstAssumption == WritersFirst \in BOOLEAN
ASSUME ThreadsAssumption ==
    /\ Voters \cap (Committers \cup Getters \cup Storers \cup Walkers) = {}
    /\ Committers \cap (Getters \cup Storers \cup Walkers) = {}
    /\ Getters \cap (Storers \cup Walkers) = {}
    /\ Storers \cap Walkers = {}

Finders == Voters \cup Committers \cup Getters
Threads == Finders \cup Storers \cup Walkers

VARIABLES
    elem,     \* elem[b]: no element, one with a null pointer, or the block
    hold,     \* hold[t]: the elements whose accessor t holds
    shared,   \* threads that hold pb_sm_1 shared
    excl,     \* threads that hold pb_sm_1 exclusively
    pc,       \* pc[t]: where t is
    at,       \* at[t]: the block t works on
    nulls,    \* nulls[t]: null elements in the copy t walks, not yet visited
    fresh,    \* blocks no Storer has begun to store
    label,    \* pb_sync_labels
    crashed   \* a null pointer was dereferenced

vars == <<elem, hold, shared, excl, pc, at, nulls, fresh, label, crashed>>

TypeOK ==
    /\ elem \in [Ids -> {"absent", "null", "block"}]
    /\ hold \in [Threads -> SUBSET Ids]
    /\ shared \subseteq Threads
    /\ excl \subseteq Walkers
    /\ pc \in [Threads -> {"idle", "enter", "find", "use", "erase", "wait", "copy", "walk"}]
    /\ at \in [Threads -> Ids]
    /\ nulls \in [Threads -> SUBSET Ids]
    /\ fresh \subseteq Ids
    /\ label \subseteq Ids
    /\ crashed \in BOOLEAN

Init ==
    /\ elem = [b \in Ids |-> "absent"]
    /\ hold = [t \in Threads |-> {}]
    /\ shared = {} /\ excl = {}
    /\ pc = [t \in Threads |-> "idle"]
    /\ at = [t \in Threads |-> CHOOSE b \in Ids : TRUE]
    /\ nulls = [t \in Threads |-> {}]
    /\ fresh = Ids
    /\ label = {}
    /\ crashed = FALSE

-----------------------------------------------------------------------------
(* When a lock can be had *)

(* pb_sm_1, shared.  The wait for the exclusive lock is at "wait". *)
CanShare == excl = {} /\ (WritersFirst => \A w \in Walkers : pc[w] # "wait")

(* pb_sm_1, exclusive. *)
CanExclude == excl = {} /\ shared = {}

(* The lock of element b: GetBlocks uses a const_accessor, all others a    *)
(* writing one.                                                            *)
CanLock(t, b) ==
    \A u \in Threads \ {t} : b \in hold[u] => {t, u} \subseteq Getters

(* Mutant: erase takes pb_sm_1 exclusively. *)
Ready_uniqueerase(t) ==
    CASE pc[t] = "enter" -> CanShare
      [] pc[t] = "find" -> elem[at[t]] = "absent" \/ CanLock(t, at[t])
      [] pc[t] \in {"wait", "erase"} -> CanExclude
      [] OTHER -> TRUE

(* The thread is not waiting for a lock. *)
Ready(t) ==
    CASE pc[t] \in {"enter", "erase"} -> CanShare
      [] pc[t] = "find" -> elem[at[t]] = "absent" \/ CanLock(t, at[t])
      [] pc[t] = "wait" -> CanExclude
      [] OTHER -> TRUE

-----------------------------------------------------------------------------
(* find and insert *)

(* A handler turns to block b of its request.  GetBlocks declares its      *)
(* accessor outside the loop and so keeps the element of the block before. *)
Begin(t, b) ==
    /\ t \in Finders
    /\ pc[t] = "idle" \/ (t \in Getters /\ pc[t] = "use")
    /\ pc' = [pc EXCEPT ![t] = "enter"]
    /\ at' = [at EXCEPT ![t] = b]
    /\ UNCHANGED <<elem, hold, shared, excl, nulls, fresh, label, crashed>>

BeginStore(t, b) ==
    /\ t \in Storers /\ pc[t] = "idle" /\ b \in fresh
    /\ pc' = [pc EXCEPT ![t] = "enter"]
    /\ at' = [at EXCEPT ![t] = b]
    /\ fresh' = fresh \ {b}
    /\ UNCHANGED <<elem, hold, shared, excl, nulls, label, crashed>>

(* Mutant: find does not release what its accessor holds. *)
LockShared_keeps(t) ==
    /\ pc[t] = "enter" /\ Ready(t)
    /\ shared' = shared \cup {t}
    /\ pc' = [pc EXCEPT ![t] = "find"]
    /\ UNCHANGED <<elem, hold, excl, at, nulls, fresh, label, crashed>>

(* The shared lock is taken; find and insert first release what their      *)
(* accessor holds.                                                         *)
LockShared(t) ==
    /\ pc[t] = "enter" /\ Ready(t)
    /\ shared' = shared \cup {t}
    /\ hold' = [hold EXCEPT ![t] = {}]
    /\ pc' = [pc EXCEPT ![t] = "find"]
    /\ UNCHANGED <<elem, excl, at, nulls, fresh, label, crashed>>

(* find: the element is locked, or is not there and the block is skipped.  *)
Find(t) ==
    /\ t \in Finders /\ pc[t] = "find" /\ Ready(t)
    /\ IF elem[at[t]] = "absent"
       THEN pc' = [pc EXCEPT ![t] = "idle"] /\ hold' = hold
       ELSE pc' = [pc EXCEPT ![t] = "use"] /\ hold' = [hold EXCEPT ![t] = {at[t]}]
    /\ shared' = shared \ {t}
    /\ UNCHANGED <<elem, excl, at, nulls, fresh, label, crashed>>

(* Mutant: the element is inserted without an accessor. *)
Insert_unlocked(t) ==
    /\ t \in Storers /\ pc[t] = "find" /\ Ready(t)
    /\ elem' = [elem EXCEPT ![at[t]] = IF @ = "absent" THEN "null" ELSE @]
    /\ pc' = [pc EXCEPT ![t] = "use"]
    /\ shared' = shared \ {t}
    /\ UNCHANGED <<hold, excl, at, nulls, fresh, label, crashed>>

(* insert: a new element holds a null pointer until it is assigned. *)
Insert(t) ==
    /\ t \in Storers /\ pc[t] = "find" /\ Ready(t)
    /\ elem' = [elem EXCEPT ![at[t]] = IF @ = "absent" THEN "null" ELSE @]
    /\ hold' = [hold EXCEPT ![t] = {at[t]}]
    /\ pc' = [pc EXCEPT ![t] = "use"]
    /\ shared' = shared \ {t}
    /\ UNCHANGED <<excl, at, nulls, fresh, label, crashed>>

-----------------------------------------------------------------------------
(* What is done with the accessor *)

(* The block is stored: the pointer is assigned, the accessor released. *)
Assign(t) ==
    /\ t \in Storers /\ pc[t] = "use"
    /\ elem' = [elem EXCEPT ![at[t]] = "block"]
    /\ hold' = [hold EXCEPT ![t] = {}]
    /\ pc' = [pc EXCEPT ![t] = "idle"]
    /\ UNCHANGED <<shared, excl, at, nulls, fresh, label, crashed>>

(* A vote that is not the last one, or the end of GetBlocks. *)
Release(t) ==
    /\ t \in Voters \cup Getters /\ pc[t] = "use"
    /\ hold' = [hold EXCEPT ![t] = {}]
    /\ pc' = [pc EXCEPT ![t] = "idle"]
    /\ UNCHANGED <<elem, shared, excl, at, nulls, fresh, label, crashed>>

(* The last vote, or a broadcast commit: the block will leave the pool. *)
Leave(t) ==
    /\ t \in Voters \cup Committers /\ pc[t] = "use"
    /\ pc' = [pc EXCEPT ![t] = "erase"]
    /\ UNCHANGED <<elem, hold, shared, excl, at, nulls, fresh, label, crashed>>

(* erase: pb_sm_1 is taken again while the accessor is held. *)
Erase(t) ==
    /\ pc[t] = "erase" /\ Ready(t)
    /\ elem' = [elem EXCEPT ![at[t]] = "absent"]
    /\ hold' = [hold EXCEPT ![t] = {}]
    /\ pc' = [pc EXCEPT ![t] = "idle"]
    /\ UNCHANGED <<shared, excl, at, nulls, fresh, label, crashed>>

-----------------------------------------------------------------------------
(* Traversal *)

BeginWalk(t) ==
    /\ t \in Walkers /\ pc[t] = "idle"
    /\ pc' = [pc EXCEPT ![t] = "wait"]
    /\ UNCHANGED <<elem, hold, shared, excl, at, nulls, fresh, label, crashed>>

LockExclusive(t) ==
    /\ pc[t] = "wait" /\ Ready(t)
    /\ excl' = excl \cup {t}
    /\ pc' = [pc EXCEPT ![t] = "copy"]
    /\ UNCHANGED <<elem, hold, shared, at, nulls, fresh, label, crashed>>

(* The copy takes the elements as they are, without their locks. *)
Copy(t) ==
    /\ pc[t] = "copy"
    /\ nulls' = [nulls EXCEPT ![t] = {b \in Ids : elem[b] = "null"}]
    /\ excl' = excl \ {t}
    /\ pc' = [pc EXCEPT ![t] = "walk"]
    /\ UNCHANGED <<elem, hold, shared, at, fresh, label, crashed>>

(* The timer that counts blocks takes the lock only to read the size. *)
Count(t) ==
    /\ pc[t] = "copy"
    /\ excl' = excl \ {t}
    /\ pc' = [pc EXCEPT ![t] = "idle"]
    /\ UNCHANGED <<elem, hold, shared, at, nulls, fresh, label, crashed>>

(* A null element of the copy is passed over, unless the block is labelled: *)
(* then its header is read through the null pointer.                        *)
Visit(t, b) ==
    /\ pc[t] = "walk" /\ b \in nulls[t]
    /\ nulls' = [nulls EXCEPT ![t] = @ \ {b}]
    /\ crashed' = (b \in label)
    /\ UNCHANGED <<elem, hold, shared, excl, pc, at, fresh, label>>

EndWalk(t) ==
    /\ pc[t] = "walk" /\ nulls[t] = {}
    /\ pc' = [pc EXCEPT ![t] = "idle"]
    /\ UNCHANGED <<elem, hold, shared, excl, at, nulls, fresh, label, crashed>>

(* The sync label of a block that is being stored or was.  At the server   *)
(* that packs, the block is on the relay queues before it is stored.       *)
Sync(b) ==
    /\ b \notin fresh /\ b \notin label
    /\ label' = label \cup {b}
    /\ UNCHANGED <<elem, hold, shared, excl, pc, at, nulls, fresh, crashed>>

-----------------------------------------------------------------------------
Use(t) ==
    \/ LockShared(t) \/ Find(t) \/ Insert(t) \/ Assign(t) \/ Release(t) \/ Leave(t) \/ Erase(t)
    \/ \E b \in Ids : Begin(t, b) \/ BeginStore(t, b)

Walk(t) ==
    \/ BeginWalk(t) \/ LockExclusive(t) \/ Copy(t) \/ Count(t) \/ EndWalk(t)
    \/ \E b \in Ids : Visit(t, b)

Next == ~crashed /\ ((\E t \in Threads : Use(t) \/ Walk(t)) \/ \E b \in Ids : Sync(b))

Spec == Init /\ [][Next]_vars

-----------------------------------------------------------------------------
(* Properties *)

(* pb_sm_1 is held just where the threads say they hold it. *)
MutexHeld == shared = {t \in Threads : pc[t] = "find"} /\ excl = {t \in Threads : pc[t] = "copy"}

(* Each kind of thread stays in its part of the code. *)
Roles ==
    /\ \A t \in Walkers : pc[t] \in {"idle", "wait", "copy", "walk"}
    /\ \A t \in Threads \ Walkers : pc[t] \in {"idle", "enter", "find", "use", "erase"}
    /\ \A t \in Storers \cup Getters : pc[t] # "erase"

(* Who holds an accessor, and to what. *)
AccessorsHeld ==
    /\ \A t \in Threads : hold[t] # {} => \/ pc[t] \in {"use", "erase"}
                                          \/ pc[t] = "enter" /\ t \in Getters
    /\ \A t \in Threads : pc[t] \in {"use", "erase"} => hold[t] = {at[t]}
    /\ \A t \in Threads : \A b \in hold[t] : elem[b] # "absent"
    /\ \A t, u \in Threads : t # u /\ t \notin Getters => hold[t] \cap hold[u] = {}

(* A null element is the one a Storer is about to assign. *)
NullsOwned ==
    \A b \in Ids : elem[b] = "null" => \E t \in Storers : pc[t] = "use" /\ at[t] = b

(* The lock discipline of pending_blks: which locks a thread holds at each  *)
(* place, that a writing accessor excludes all others, and that a null      *)
(* element is under the accessor of the thread that stores the block.       *)
PoolInv == TypeOK /\ MutexHeld /\ Roles /\ AccessorsHeld /\ NullsOwned

(* The handlers and traversals never wait for each other in a circle: when  *)
(* any of them is under way one of them has the locks it needs, although    *)
(* element locks are held while pb_sm_1 is taken (erase, GetBlocks) and     *)
(* pb_sm_1 is held while element locks are awaited (find).  True only where *)
(* waiting writers do not hold back readers; otherwise the lock taken under *)
(* "FIXME: deadlock" in schedule, or for a traversal, closes the circle.    *)
NoLockup ==
    (\E t \in Threads : pc[t] # "idle") => \E t \in Threads : pc[t] # "idle" /\ Ready(t)

(* A block reached through an accessor is never null (the assertion of      *)
(* handler RelayVote): insert locks the element before it becomes visible   *)
(* to find, and only the owner of the lock erases it.                       *)
AccessorNeverNull ==
    \A t \in Finders : pc[t] \in {"use", "erase"} => elem[at[t]] = "block"

(* A traversal excludes all other operations on the pool (the comment on    *)
(* pb_sm_1), so it meets no block that is only half inserted.               *)
TraversalExcludes == ~crashed
=============================================================================
