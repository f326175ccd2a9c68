------------------------- MODULE PendingPool_proofs -------------------------
(***************************************************************************)
(* Theorems about the locks of pending_blks, for any number of handlers,   *)
(* traversals and blocks.                                                  *)
(***************************************************************************)
EXTENDS PendingPool, TLAPS

(* The lock discipline holds in the initial state. *)
LEMMA InitPool == Init => PoolInv
<1> SUFFICES ASSUME Init PROVE PoolInv OBVIOUS
<1>1. (CHOOSE b \in Ids : TRUE) \in Ids BY IdsAssumption
<1>2. TypeOK BY <1>1 DEF Init, TypeOK
<1>3. \A t \in Threads : pc[t] = "idle" BY DEF Init
<1>4. MutexHeld BY <1>3 DEF Init, MutexHeld
<1>5. Roles BY <1>3 DEF Roles, Threads, Finders
<1>6. AccessorsHeld /\ NullsOwned BY DEF Init, AccessorsHeld, NullsOwned
<1> QED BY <1>2, <1>4, <1>5, <1>6 DEF PoolInv

(* Steps that leave elements and accessors alone. *)
LEMMA BeginPool ==
    ASSUME PoolInv, NEW t \in Threads, NEW b \in Ids, Begin(t, b) \/ BeginStore(t, b)
    PROVE  PoolInv'
<1> USE ThreadsAssumption
<1>1. TypeOK' BY DEF PoolInv, TypeOK, Begin, BeginStore
<1>2. pc[t] \in {"idle", "use"} /\ pc' = [pc EXCEPT ![t] = "enter"] /\ t \notin Walkers
  BY DEF Begin, BeginStore, Finders
<1>3. UNCHANGED <<elem, hold, shared, excl>> BY DEF Begin, BeginStore
<1>4. MutexHeld' BY <1>2, <1>3 DEF PoolInv, TypeOK, MutexHeld
<1>5. Roles' BY <1>2 DEF PoolInv, TypeOK, Roles
<1>6. AccessorsHeld'
  BY <1>2, <1>3 DEF PoolInv, TypeOK, AccessorsHeld, Begin, BeginStore
<1>7. NullsOwned'
  BY <1>2, <1>3 DEF PoolInv, TypeOK, NullsOwned, Begin, BeginStore, Finders, Threads
<1> QED BY <1>1, <1>4, <1>5, <1>6, <1>7 DEF PoolInv

LEMMA LockSharedPool ==
    ASSUME PoolInv, NEW t \in Threads, LockShared(t)
    PROVE  PoolInv'
<1> USE ThreadsAssumption DEF PoolInv, TypeOK, LockShared
<1>1. TypeOK' OBVIOUS
<1>2. MutexHeld' BY DEF MutexHeld
<1>3. Roles' BY DEF Roles
<1>4. AccessorsHeld' BY DEF AccessorsHeld
<1>5. NullsOwned' BY DEF NullsOwned, Threads
<1> QED BY <1>1, <1>2, <1>3, <1>4, <1>5

(* find: the lock is had only if no other thread holds the element in a    *)
(* conflicting way.                                                        *)
LEMMA FindPool ==
    ASSUME PoolInv, NEW t \in Threads, Find(t)
    PROVE  PoolInv'
<1> USE ThreadsAssumption DEF PoolInv, TypeOK
<1>1. TypeOK' BY DEF Find
<1>2. MutexHeld' BY DEF Find, MutexHeld
<1>3. t \notin Walkers /\ t \notin Storers BY DEF Find, Finders
<1>4. Roles'
  <2>1. pc' = [pc EXCEPT ![t] = "idle"] \/ pc' = [pc EXCEPT ![t] = "use"] BY DEF Find
  <2>2. \A u \in Threads : pc'[u] = pc[u] \/ (u = t /\ pc'[u] \in {"idle", "use"}) BY <2>1
  <2> QED BY <1>3, <2>2 DEF Roles, Finders, Threads
<1>5. NullsOwned' BY <1>3 DEF Find, NullsOwned, Threads
<1>6. AccessorsHeld'
  <2>1. CASE elem[at[t]] = "absent" BY <2>1 DEF Find, AccessorsHeld
  <2>2. CASE elem[at[t]] # "absent"
    <3>1. CanLock(t, at[t]) BY <2>2 DEF Find, Ready
    <3>2. /\ pc' = [pc EXCEPT ![t] = "use"] /\ hold' = [hold EXCEPT ![t] = {at[t]}]
          /\ UNCHANGED <<elem, at>>
      BY <2>2 DEF Find
    <3>3. \A u, w \in Threads : u # w /\ u \notin Getters => hold'[u] \cap hold'[w] = {}
      BY <3>1, <3>2 DEF AccessorsHeld, CanLock
    <3>4. \A u \in Threads : hold'[u] # {} => \/ pc'[u] \in {"use", "erase"}
                                              \/ pc'[u] = "enter" /\ u \in Getters
      BY <3>2 DEF AccessorsHeld
    <3>5. \A u \in Threads : pc'[u] \in {"use", "erase"} => hold'[u] = {at'[u]}
      BY <3>2 DEF AccessorsHeld
    <3>6. \A u \in Threads : \A b \in hold'[u] : elem'[b] # "absent"
      BY <2>2, <3>2 DEF AccessorsHeld
    <3> QED BY <3>3, <3>4, <3>5, <3>6 DEF AccessorsHeld
  <2> QED BY <2>1, <2>2
<1> QED BY <1>1, <1>2, <1>4, <1>5, <1>6

(* insert: likewise; a new element belongs to the thread that made it. *)
LEMMA InsertPool ==
    ASSUME PoolInv, NEW t \in Threads, Insert(t)
    PROVE  PoolInv'
<1> USE ThreadsAssumption DEF PoolInv, TypeOK
<1>1. /\ t \in Storers /\ pc[t] = "find"
      /\ elem' = [elem EXCEPT ![at[t]] = IF @ = "absent" THEN "null" ELSE @]
      /\ hold' = [hold EXCEPT ![t] = {at[t]}]
      /\ pc' = [pc EXCEPT ![t] = "use"]
      /\ shared' = shared \ {t}
      /\ UNCHANGED <<excl, at, nulls, fresh, label, crashed>>
  BY DEF Insert
<1>2. t \notin Walkers /\ t \notin Getters BY <1>1
<1>3. TypeOK' BY <1>1
<1>4. MutexHeld' BY <1>1 DEF MutexHeld
<1>5. Roles' BY <1>1, <1>2 DEF Roles
<1>6. NullsOwned' BY <1>1 DEF NullsOwned, Threads
<1>7. \A u \in Threads \ {t} : at[t] \notin hold[u]
  <2>1. elem[at[t]] = "absent" \/ CanLock(t, at[t]) BY <1>1 DEF Insert, Ready
  <2>2. CASE CanLock(t, at[t]) BY <1>2, <2>2 DEF CanLock
  <2>3. CASE elem[at[t]] = "absent" BY <2>3 DEF AccessorsHeld
  <2> QED BY <2>1, <2>2, <2>3
<1>8. AccessorsHeld'
  <2>1. \A u \in Threads : hold'[u] # {} => \/ pc'[u] \in {"use", "erase"}
                                            \/ pc'[u] = "enter" /\ u \in Getters
    BY <1>1 DEF AccessorsHeld
  <2>2. \A u \in Threads : pc'[u] \in {"use", "erase"} => hold'[u] = {at'[u]}
    BY <1>1 DEF AccessorsHeld
  <2>3. \A u \in Threads : \A b \in hold'[u] : elem'[b] # "absent"
    BY <1>1 DEF AccessorsHeld
  <2>4. \A u, w \in Threads : u # w /\ u \notin Getters => hold'[u] \cap hold'[w] = {}
    BY <1>1, <1>7 DEF AccessorsHeld
  <2> QED BY <2>1, <2>2, <2>3, <2>4 DEF AccessorsHeld
<1> QED BY <1>3, <1>4, <1>5, <1>6, <1>8

(* The pointer is assigned under the accessor. *)
LEMMA AssignPool ==
    ASSUME PoolInv, NEW t \in Threads, Assign(t)
    PROVE  PoolInv'
<1> USE ThreadsAssumption DEF PoolInv, TypeOK
<1>1. /\ t \in Storers /\ pc[t] = "use"
      /\ elem' = [elem EXCEPT ![at[t]] = "block"]
      /\ hold' = [hold EXCEPT ![t] = {}]
      /\ pc' = [pc EXCEPT ![t] = "idle"]
      /\ UNCHANGED <<shared, excl, at, nulls, fresh, label, crashed>>
  BY DEF Assign
<1>2. TypeOK' BY <1>1
<1>3. MutexHeld' BY <1>1 DEF MutexHeld
<1>4. Roles' BY <1>1 DEF Roles
<1>5. NullsOwned'
  <2> SUFFICES ASSUME NEW b \in Ids, elem'[b] = "null"
               PROVE  \E u \in Storers : pc'[u] = "use" /\ at'[u] = b
    BY DEF NullsOwned
  <2>1. b # at[t] /\ elem[b] = "null" BY <1>1
  <2>2. PICK u \in Storers : pc[u] = "use" /\ at[u] = b BY <2>1 DEF NullsOwned
  <2>3. u # t /\ u \in Threads BY <2>1, <2>2 DEF Threads
  <2> QED BY <1>1, <2>2, <2>3
<1>6. AccessorsHeld' BY <1>1 DEF AccessorsHeld
<1> QED BY <1>2, <1>3, <1>4, <1>5, <1>6

LEMMA ReleasePool ==
    ASSUME PoolInv, NEW t \in Threads, Release(t) \/ Leave(t)
    PROVE  PoolInv'
<1> USE ThreadsAssumption DEF PoolInv, TypeOK
<1>1. /\ t \notin Storers /\ t \notin Walkers /\ pc[t] = "use"
      /\ \/ hold' = [hold EXCEPT ![t] = {}] /\ pc' = [pc EXCEPT ![t] = "idle"]
         \/ hold' = hold /\ pc' = [pc EXCEPT ![t] = "erase"]
      /\ UNCHANGED <<elem, shared, excl, at, nulls, fresh, label, crashed>>
  BY DEF Release, Leave
<1>2. TypeOK' BY <1>1
<1>3. MutexHeld' BY <1>1 DEF MutexHeld
<1>4. Roles'
  <2>1. \A u \in Threads : pc'[u] = pc[u] \/ (u = t /\ pc'[u] \in {"idle", "erase"}) BY <1>1
  <2>2. t \in Getters => pc'[t] = "idle" BY <1>1 DEF Release, Leave
  <2> QED BY <1>1, <2>1, <2>2 DEF Roles, Finders, Threads
<1>5. NullsOwned' BY <1>1 DEF NullsOwned, Threads
<1>6. AccessorsHeld' BY <1>1 DEF AccessorsHeld
<1> QED BY <1>2, <1>3, <1>4, <1>5, <1>6

(* The element that is erased is locked by no one else. *)
LEMMA ErasePool ==
    ASSUME PoolInv, NEW t \in Threads, Erase(t)
    PROVE  PoolInv'
<1> USE ThreadsAssumption DEF PoolInv, TypeOK
<1>1. /\ pc[t] = "erase"
      /\ elem' = [elem EXCEPT ![at[t]] = "absent"]
      /\ hold' = [hold EXCEPT ![t] = {}]
      /\ pc' = [pc EXCEPT ![t] = "idle"]
      /\ UNCHANGED <<shared, excl, at, nulls, fresh, label, crashed>>
  BY DEF Erase
<1>2. t \notin Storers /\ t \notin Walkers /\ t \notin Getters BY <1>1 DEF Roles
<1>3. TypeOK' BY <1>1
<1>4. MutexHeld' BY <1>1 DEF MutexHeld
<1>5. Roles' BY <1>1, <1>2 DEF Roles
<1>6. NullsOwned' BY <1>1, <1>2 DEF NullsOwned, Threads
<1>7. \A u \in Threads \ {t} : at[t] \notin hold[u]
  BY <1>1, <1>2 DEF AccessorsHeld
<1>8. AccessorsHeld' BY <1>1, <1>7 DEF AccessorsHeld
<1> QED BY <1>3, <1>4, <1>5, <1>6, <1>8

LEMMA WalkPool ==
    ASSUME PoolInv, NEW t \in Threads, Walk(t)
    PROVE  PoolInv'
<1> USE ThreadsAssumption DEF PoolInv, TypeOK
<1>1. t \in Walkers
  BY DEF Walk, BeginWalk, LockExclusive, Copy, Count, EndWalk, Visit, Roles
<1>2. UNCHANGED <<elem, hold, shared, at, fresh, label>>
  BY DEF Walk, BeginWalk, LockExclusive, Copy, Count, EndWalk, Visit
<1>3. /\ pc[t] \in {"idle", "wait", "copy", "walk"}
      /\ \E x \in {"idle", "wait", "copy", "walk"} : pc' = [pc EXCEPT ![t] = x]
  BY <1>1 DEF Walk, BeginWalk, LockExclusive, Copy, Count, EndWalk, Visit, Roles
<1>4. TypeOK'
  <2>1. crashed' \in BOOLEAN
    <3>1. crashed' = crashed \/ \E b \in Ids : crashed' = (b \in label)
      BY Zenon DEF Walk, BeginWalk, LockExclusive, Copy, Count, EndWalk, Visit
    <3>2. \A b : (b \in label) \in BOOLEAN OBVIOUS
    <3> QED BY <3>1, <3>2, Zenon
  <2>2. excl' \subseteq Walkers /\ nulls' \in [Threads -> SUBSET Ids]
    BY <1>1, <1>2 DEF Walk, BeginWalk, LockExclusive, Copy, Count, EndWalk, Visit
  <2> QED BY <1>2, <1>3, <2>1, <2>2
<1>5. MutexHeld'
  BY <1>1, <1>2 DEF MutexHeld, Walk, BeginWalk, LockExclusive, Copy, Count, EndWalk, Visit
<1>6. Roles' BY <1>1, <1>3 DEF Roles
<1>7. NullsOwned' BY <1>1, <1>2, <1>3 DEF NullsOwned, Threads
<1>8. AccessorsHeld' BY <1>1, <1>2, <1>3 DEF AccessorsHeld
<1> QED BY <1>4, <1>5, <1>6, <1>7, <1>8

(* Every step keeps the lock discipline. *)
LEMMA NextPool == PoolInv /\ [Next]_vars => PoolInv'
<1> SUFFICES ASSUME PoolInv, [Next]_vars PROVE PoolInv' OBVIOUS
<1>1. CASE \E t \in Threads : Use(t)
  BY <1>1, BeginPool, LockSharedPool, FindPool, InsertPool, AssignPool, ReleasePool, ErasePool DEF Use
<1>2. CASE \E t \in Threads : Walk(t) BY <1>2, WalkPool
<1>3. ASSUME NEW b \in Ids, Sync(b) PROVE PoolInv'
  BY <1>3 DEF Sync, PoolInv, TypeOK, MutexHeld, Roles, AccessorsHeld, NullsOwned
<1>4. CASE UNCHANGED vars
  BY <1>4 DEF vars, PoolInv, TypeOK, MutexHeld, Roles, AccessorsHeld, NullsOwned
<1> QED BY <1>1, <1>2, <1>3, <1>4 DEF Next

(* The lock discipline of pending_blks: a writing accessor excludes every   *)
(* other accessor to its element, a null element is being assigned by the   *)
(* thread that holds it, and pb_sm_1 is released before an accessor is used. *)
THEOREM LockDiscipline == Spec => []PoolInv
BY InitPool, NextPool, PTL DEF Spec

(* With the lock discipline no circle of waiting threads can form, unless  *)
(* a waiting writer holds back readers: then one that has an accessor and  *)
(* one that awaits it under pb_sm_1 wait for the writer and for each other. *)
LEMMA PoolMoves == ~WritersFirst /\ PoolInv => NoLockup
<1> SUFFICES ASSUME ~WritersFirst, PoolInv, NEW t \in Threads, pc[t] # "idle"
             PROVE  \E u \in Threads : pc[u] # "idle" /\ Ready(u)
  BY DEF NoLockup
<1>1. CASE excl # {}
  <2>1. PICK w \in Threads : pc[w] = "copy" BY <1>1 DEF PoolInv, MutexHeld
  <2> QED BY <2>1 DEF Ready
<1>2. CASE excl = {}
  <2>1. ASSUME NEW u \in Threads, pc[u] \in {"enter", "use", "erase", "copy", "walk"}
        PROVE  Ready(u)
    BY <1>2, <2>1 DEF Ready, CanShare
  <2>2. ASSUME NEW u \in Threads, pc[u] = "find"
        PROVE  \E w \in Threads : pc[w] # "idle" /\ Ready(w)
    <3>1. CASE CanLock(u, at[u]) BY <2>2, <3>1 DEF Ready
    <3>2. CASE ~CanLock(u, at[u])
      <4>1. PICK w \in Threads : at[u] \in hold[w] BY <3>2 DEF CanLock
      <4>2. pc[w] \in {"enter", "use", "erase"} BY <4>1 DEF PoolInv, AccessorsHeld
      <4> QED BY <2>1, <4>2
    <3> QED BY <3>1, <3>2
  <2>3. CASE pc[t] = "wait"
    <3>1. CASE shared = {} BY <1>2, <2>3, <3>1 DEF Ready, CanExclude
    <3>2. CASE shared # {}
      <4>1. PICK u \in Threads : pc[u] = "find" BY <3>2 DEF PoolInv, MutexHeld
      <4> QED BY <2>2, <4>1
    <3> QED BY <3>1, <3>2
  <2>4. pc[t] \in {"enter", "use", "erase", "copy", "walk", "find", "wait"} BY DEF PoolInv, TypeOK
  <2> QED BY <2>1, <2>2, <2>3, <2>4
<1> QED BY <1>1, <1>2

(* Freedom from deadlock on pb_sm_1 and the element locks where waiting     *)
(* writers do not hold back readers, as with glibc, for any number of       *)
(* concurrent handlers and traversals: whenever one is under way, one has   *)
(* every lock it needs.                                                     *)
THEOREM NeverLockedUp ==
    ASSUME ~WritersFirst
    PROVE  Spec => []NoLockup
<1>1. PoolInv => NoLockup BY PoolMoves
<1> QED BY <1>1, LockDiscipline, PTL

(* The assertion of handler RelayVote: a block reached through an accessor  *)
(* is never null.                                                           *)
THEOREM AccessorsSafe == Spec => []AccessorNeverNull
<1>1. PoolInv => AccessorNeverNull
  <2> SUFFICES ASSUME PoolInv, NEW t \in Finders, pc[t] \in {"use", "erase"}
               PROVE  elem[at[t]] = "block"
    BY DEF AccessorNeverNull
  <2>1. t \in Threads /\ t \notin Storers BY ThreadsAssumption DEF Threads, Finders
  <2>2. hold[t] = {at[t]} /\ at[t] \in Ids /\ elem[at[t]] # "absent"
    BY <2>1 DEF PoolInv, TypeOK, AccessorsHeld
  <2>3. ASSUME elem[at[t]] = "null" PROVE FALSE
    <3>1. PICK s \in Storers : pc[s] = "use" /\ at[s] = at[t]
      BY <2>2, <2>3 DEF PoolInv, NullsOwned
    <3>2. s \in Threads /\ s # t /\ s \notin Getters BY <2>1, <3>1, ThreadsAssumption DEF Threads
    <3>3. hold[s] = {at[t]} BY <3>1, <3>2 DEF PoolInv, AccessorsHeld
    <3> QED BY <2>1, <2>2, <3>2, <3>3 DEF PoolInv, AccessorsHeld
  <2> QED BY <2>1, <2>2, <2>3 DEF PoolInv, TypeOK
<1> QED BY <1>1, LockDiscipline, PTL
=============================================================================
