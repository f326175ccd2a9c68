------------------------ MODULE TomChainQueues_proofs ------------------------
(***************************************************************************)
(* Theorems about the queues and pools of TomChain: what clients learn of  *)
(* blocks, how often they vote, and where a block is on its way from the   *)
(* pack thread to committed_blks.                                          *)
(***************************************************************************)
EXTENDS TomChain_proofs

-----------------------------------------------------------------------------
(* Clients vote on labelled blocks only *)

(* The blocks labelled at one of the two servers of client c. *)
Labelled(c) == labels[Stub(c, 0)] \cup labels[Stub(c, 1)]

(* Everything client c knows of was labelled at one of its servers. *)
SyncedClient(c) ==
    /\ hdrs[c] \subseteq Labelled(c) /\ voted[c] \subseteq Labelled(c)
    /\ pull[c].resp \in Seq(Labelled(c)) /\ got[c] \in Seq(Labelled(c))
    /\ ~IsPull(c) => pull[c].todo \subseteq Labelled(c)

SyncedInv == TypeOK /\ \A c \in Clients : SyncedClient(c)

(* A label is never taken back. *)
LEMMA LabelsGrow ==
    ASSUME TypeOK, [Next]_vars
    PROVE  \A s \in Servers : labels[s] \subseteq labels'[s]
<1>1. labels \in [Servers -> SUBSET Blocks] BY DEF TypeOK, ServerTypeOK
<1>2. \/ UNCHANGED labels
      \/ \E s \in Servers, b \in Blocks : labels' = [labels EXCEPT ![s] = @ \cup {b}]
  <2>1. CASE Pack BY <2>1 DEF Pack, PackPush, PackInsert, labelVars
  <2>2. ASSUME NEW d \in BOOLEAN, RelayLoop \/ RelaySend(d)
        PROVE  \/ UNCHANGED labels
               \/ \E s \in Servers, b \in Blocks : labels' = [labels EXCEPT ![s] = @ \cup {b}]
    <3>1. rb.pc = "signal" => rb.tgt \in Servers /\ rb.blk \in Blocks
      BY DEF TypeOK, ServerTypeOK
    <3> QED BY <2>2, <3>1, PackerIsServer
            DEF RelayLoop, RelaySend, RelayBlockPop, RelayBlockEmpty, RelayBlockReturn, SyncPop,
                SyncLocal, RelayBlockSend, RelayBlockSync, labelVars
  <2>3. CASE HandleBlock \/ CallFails
    BY <2>3 DEF HandleBlock, RelayBlockHandler, CallFails, Abandon, RelayVoteFails,
                SPBcastCommitFails, labelVars
  <2>4. ASSUME NEW s \in Servers, NEW t \in Servers, Merge(s) \/ PeerCall(s, t)
        PROVE  UNCHANGED labels
    BY <2>4 DEF Merge, MergeVotes, PeerCall, RelayVote, SPBcastCommit, labelVars
  <2>5. ASSUME NEW c \in Clients, VoteSteps(c) \/ VoteFails(c) PROVE UNCHANGED labels
    BY <2>5 DEF VoteSteps, VoteFails, VoteBlocksRelay, VoteBlocksInsert, labelVars, serverVars
  <2>6. ASSUME NEW c \in Clients, NEW d \in BOOLEAN, PullSteps(c, d) \/ PullFails(c)
        PROVE  UNCHANGED labels
    BY <2>6 DEF PullSteps, PullFails, PullSnapshot, PullVisit, GetVisit, labelVars, serverVars
  <2>7. CASE UNCHANGED vars BY <2>7 DEF vars, serverVars, labelVars
  <2> QED BY <2>1, <2>2, <2>3, <2>4, <2>5, <2>6, <2>7 DEF Next
<1> QED BY <1>1, <1>2

LEMMA LabelledGrows ==
    ASSUME TypeOK, [Next]_vars, NEW c \in Clients
    PROVE  Labelled(c) \subseteq Labelled(c)' /\ Seq(Labelled(c)) \subseteq Seq(Labelled(c)')
<1>1. Stub(c, 0) \in Servers /\ Stub(c, 1) \in Servers BY StubIsServer
<1>2. Labelled(c) \subseteq Labelled(c)' BY <1>1, LabelsGrow DEF Labelled
<1> QED BY <1>2, SeqGrows

(* A client that a step leaves alone knows of labelled blocks only. *)
LEMMA SyncedFrame ==
    ASSUME TypeOK, [Next]_vars, NEW c \in Clients, SyncedClient(c),
           hdrs'[c] = hdrs[c], got'[c] = got[c], voted'[c] = voted[c], pull'[c] = pull[c]
    PROVE  SyncedClient(c)'
BY LabelledGrows DEF SyncedClient, IsPull

(* The handler of a call answers with labelled blocks. *)
LEMMA SyncedVisit ==
    ASSUME TypeOK, UNCHANGED labels, NEW c \in Clients, NEW b \in Blocks, NEW a \in BOOLEAN,
           NEW d, CallVisits(c, b, a, d), SyncedClient(c),
           IsPull(c) /\ a => b \in labels[PullStub(c)]
    PROVE  SyncedClient(c)'
<1> DEFINE resp == Answer(c, b, a)
<1>1. Labelled(c)' = Labelled(c) BY DEF Labelled
<1>2. /\ hdrs[c] \subseteq Labelled(c) /\ voted[c] \subseteq Labelled(c)
      /\ pull[c].resp \in Seq(Labelled(c)) /\ got[c] \in Seq(Labelled(c))
      /\ ~IsPull(c) => pull[c].todo \subseteq Labelled(c)
  BY DEF SyncedClient
<1>3. a => b \in Labelled(c)
  <2>1. b \in pull[c].todo BY DEF CallVisits
  <2> QED BY <1>2, <2>1 DEF Labelled, PullStub
<1>4. resp \in Seq(Labelled(c)) BY <1>2, <1>3, QueueType DEF Answer
<1>5. Ids(resp) \subseteq Labelled(c) BY <1>4 DEF Ids
<1>6. got[c] \o resp \in Seq(Labelled(c)) BY <1>2, <1>4
<1>7. <<>> \in Seq(Labelled(c)) OBVIOUS
<1>8. /\ UNCHANGED voted
      /\ \/ /\ pull'[c].at = pull[c].at
            /\ pull'[c].todo = pull[c].todo \ {b} /\ pull'[c].resp = resp
            /\ UNCHANGED <<hdrs, got>>
         \/ /\ NextCall(c, hdrs'[c])
            /\ \/ UNCHANGED <<hdrs, got>>
               \/ hdrs'[c] = hdrs[c] \cup Ids(resp) /\ got' = got
               \/ hdrs'[c] = hdrs[c] \ Ids(resp) /\ got'[c] = got[c] \o resp
  BY CallVisitsDoes
<1> HIDE DEF resp
<1>9. hdrs'[c] \subseteq Labelled(c) /\ got'[c] \in Seq(Labelled(c)) BY <1>2, <1>5, <1>6, <1>8
<1>10. pull'[c].resp \in Seq(Labelled(c)) /\ (~IsPull(c)' => pull'[c].todo \subseteq Labelled(c))
  <2>1. CASE /\ pull'[c].at = pull[c].at
             /\ pull'[c].todo = pull[c].todo \ {b} /\ pull'[c].resp = resp
    BY <1>2, <1>4, <2>1 DEF IsPull
  <2>2. CASE NextCall(c, hdrs'[c])
    <3>1. pull'[c].resp = <<>> /\ (pull'[c].todo = hdrs'[c] \/ pull'[c].todo = {})
      BY <2>2, NextCallDoes
    <3>2. pull'[c].resp \in Seq(Labelled(c)) BY <1>7, <3>1, Zenon
    <3> QED BY <1>9, <3>1, <3>2
  <2> QED BY <1>8, <2>1, <2>2
<1> QED BY <1>1, <1>2, <1>8, <1>9, <1>10 DEF SyncedClient

(* PullPendingBlocks starts: what it looks at need not be labelled yet. *)
LEMMA SyncedStart ==
    ASSUME TypeOK, UNCHANGED labels, NEW c \in Clients, NEW blocks, IsPull(c),
           PullStarts(c, blocks), SyncedClient(c)
    PROVE  SyncedClient(c)'
<1>1. Labelled(c)' = Labelled(c) BY DEF Labelled
<1>2. /\ UNCHANGED <<hdrs, got, voted>>
      /\ \/ NextCall(c, hdrs[c])
         \/ pull'[c].at = pull[c].at /\ pull'[c].resp = pull[c].resp
  BY PullStartsDoes
<1>3. pull'[c].resp \in Seq(Labelled(c)) /\ (~IsPull(c)' => pull'[c].todo \subseteq Labelled(c))
  <2>1. CASE NextCall(c, hdrs[c])
    <3>1. pull'[c].resp = <<>> /\ (pull'[c].todo = hdrs[c] \/ pull'[c].todo = {})
      BY <2>1, NextCallDoes
    <3>2. <<>> \in Seq(Labelled(c)) OBVIOUS
    <3>3. pull'[c].resp \in Seq(Labelled(c)) BY <3>1, <3>2, Zenon
    <3> QED BY <3>1, <3>3 DEF SyncedClient
  <2>2. CASE pull'[c].at = pull[c].at /\ pull'[c].resp = pull[c].resp
    BY <2>2 DEF SyncedClient, IsPull
  <2> QED BY <1>2, <2>1, <2>2
<1> QED BY <1>1, <1>2, <1>3 DEF SyncedClient

LEMMA SyncedPull ==
    ASSUME TypeOK, NEW c \in Clients, NEW d \in BOOLEAN, PullSteps(c, d) \/ PullFails(c),
           SyncedClient(c)
    PROVE  SyncedClient(c)'
<1>1. UNCHANGED labels
  BY DEF PullSteps, PullFails, PullSnapshot, PullVisit, GetVisit, serverVars, labelVars
<1>2. CASE PullSnapshot(c) BY <1>1, <1>2, SyncedStart DEF PullSnapshot
<1>3. CASE PullFails(c) BY <1>1, <1>3, SyncedStart DEF PullFails
<1>4. ASSUME NEW b \in Blocks, PullVisit(c, b, d) PROVE SyncedClient(c)'
  <2>1. PullSends(PullStub(c), b, c) \in BOOLEAN BY DEF PullSends
  <2>2. PullSends(PullStub(c), b, c) => b \in labels[PullStub(c)] BY DEF PullSends
  <2> QED BY <1>1, <1>4, <2>1, <2>2, SyncedVisit DEF PullVisit
<1>5. ASSUME NEW b \in Blocks, GetVisit(c, b, d) PROVE SyncedClient(c)'
  <2>1. (b \in pending[PullStub(c)]) \in BOOLEAN OBVIOUS
  <2> QED BY <1>1, <1>5, <2>1, SyncedVisit DEF GetVisit
<1> QED BY <1>2, <1>3, <1>4, <1>5 DEF PullSteps

(* The client signs a block of its queue. *)
LEMMA SyncedVote ==
    ASSUME TypeOK, NEW c \in Clients, VoteSteps(c) \/ VoteFails(c), SyncedClient(c)
    PROVE  SyncedClient(c)'
<1>1. /\ got \in [Clients -> Seq(Blocks)] /\ voted \in [Clients -> SUBSET Blocks]
      /\ \A e \in Clients : vote[e].inserting => got[e] # <<>>
  BY DEF TypeOK, ClientTypeOK
<1>2. got[c] # <<>> /\ got[c] \in Seq(Labelled(c))
  BY <1>1 DEF VoteSteps, VoteFails, VoteBlocksRelay, VoteBlocksInsert, VoteBegins, SyncedClient
<1>3. Head(got[c]) \in Labelled(c) /\ Tail(got[c]) \in Seq(Labelled(c)) BY <1>2, QueueType
<1>4. /\ UNCHANGED <<labels, hdrs, pull>>
      /\ got' = got \/ got' = [got EXCEPT ![c] = Tail(@)]
      /\ voted' = voted \/ voted' = [voted EXCEPT ![c] = @ \cup {Head(got[c])}]
  BY DEF VoteSteps, VoteFails, VoteBlocksRelay, VoteBlocksInsert, VoteEnds, VoteGoesOn, Signs,
         serverVars, labelVars
<1>5. Labelled(c)' = Labelled(c) BY <1>4 DEF Labelled
<1>6. got'[c] \in Seq(Labelled(c)) BY <1>1, <1>2, <1>3, <1>4
<1>7. voted'[c] \subseteq Labelled(c) BY <1>1, <1>3, <1>4 DEF SyncedClient
<1> QED BY <1>4, <1>5, <1>6, <1>7 DEF SyncedClient, IsPull

(* The steps of one client change nothing of the others. *)
LEMMA OtherClients ==
    ASSUME TypeOK, NEW c \in Clients, NEW e \in Clients, e # c, NEW d \in BOOLEAN,
           VoteSteps(c) \/ VoteFails(c) \/ PullSteps(c, d) \/ PullFails(c)
    PROVE  hdrs'[e] = hdrs[e] /\ got'[e] = got[e] /\ voted'[e] = voted[e] /\ pull'[e] = pull[e]
<1>1. got \in [Clients -> Seq(Blocks)] /\ voted \in [Clients -> SUBSET Blocks]
  BY DEF TypeOK, ClientTypeOK
<1>2. CASE VoteSteps(c) \/ VoteFails(c)
  BY <1>1, <1>2 DEF VoteSteps, VoteFails, VoteBlocksRelay, VoteBlocksInsert, VoteEnds, VoteGoesOn, Signs
<1>3. CASE PullSnapshot(c) \/ PullFails(c)
  BY <1>3, PullStartsDoes DEF PullSnapshot, PullFails
<1>4. ASSUME NEW b \in Blocks, PullVisit(c, b, d)
      PROVE  hdrs'[e] = hdrs[e] /\ got'[e] = got[e] /\ voted'[e] = voted[e] /\ pull'[e] = pull[e]
  <2>1. PullSends(PullStub(c), b, c) \in BOOLEAN BY DEF PullSends
  <2> QED BY <1>4, <2>1, CallVisitsDoes DEF PullVisit
<1>5. ASSUME NEW b \in Blocks, GetVisit(c, b, d)
      PROVE  hdrs'[e] = hdrs[e] /\ got'[e] = got[e] /\ voted'[e] = voted[e] /\ pull'[e] = pull[e]
  <2>1. (b \in pending[PullStub(c)]) \in BOOLEAN OBVIOUS
  <2>2. CallVisits(c, b, b \in pending[PullStub(c)], d) BY <1>5 DEF GetVisit
  <2>3. PICK a \in BOOLEAN : CallVisits(c, b, a, d) BY <2>1, <2>2, Zenon
  <2> QED BY <2>3, CallVisitsDoes
<1> QED BY <1>2, <1>3, <1>4, <1>5 DEF PullSteps

(* The steps of the servers change nothing of the clients. *)
LEMMA NoClientSteps ==
    ASSUME \/ Pack \/ RelayLoop \/ HandleBlock \/ CallFails
           \/ \E d \in BOOLEAN : RelaySend(d)
           \/ \E s \in Servers : Merge(s)
           \/ \E s \in Servers : \E t \in Servers \ {s} : PeerCall(s, t)
    PROVE  UNCHANGED clientVars
BY DEF Pack, RelayLoop, HandleBlock, CallFails, RelaySend, Merge, PeerCall

LEMMA SyncedNext == SyncedInv /\ [Next]_vars => SyncedInv'
<1> SUFFICES ASSUME SyncedInv, [Next]_vars PROVE SyncedInv' OBVIOUS
<1>1. TypeOK /\ TypeOK' BY NextType DEF SyncedInv
<1>2. ASSUME NEW c \in Clients PROVE SyncedClient(c)'
  <2>1. SyncedClient(c) BY DEF SyncedInv
  <2>2. CASE UNCHANGED clientVars BY <1>1, <2>1, <2>2, SyncedFrame DEF clientVars
  <2>3. ASSUME NEW e \in Clients, NEW d \in BOOLEAN,
               VoteSteps(e) \/ VoteFails(e) \/ PullSteps(e, d) \/ PullFails(e)
        PROVE  SyncedClient(c)'
    <3>1. CASE e = c BY <1>1, <2>1, <2>3, <3>1, SyncedPull, SyncedVote
    <3>2. CASE e # c BY <1>1, <2>1, <2>3, <3>2, OtherClients, SyncedFrame
    <3> QED BY <3>1, <3>2
  <2>4. CASE UNCHANGED vars BY <2>2, <2>4 DEF vars
  <2>5. TRUE \in BOOLEAN OBVIOUS
  <2> QED BY <2>2, <2>3, <2>4, <2>5, NoClientSteps DEF Next
<1> QED BY <1>1, <1>2 DEF SyncedInv

LEMMA SyncedInit == Init => SyncedInv
<1> SUFFICES ASSUME Init PROVE SyncedInv OBVIOUS
<1>1. \A S : <<>> \in Seq(S) OBVIOUS
<1>2. \A c \in Clients : SyncedClient(c)
  BY <1>1 DEF Init, ClientInit, SyncedClient, IsPull
<1> QED BY <1>2, InitType DEF SyncedInv

(* A client signs (VoteBlocks) only blocks for which one of its two servers *)
(* has handled RelayBlockSync or, at the packer, set the label itself, even *)
(* though headers and blocks come from different calls and the labels may   *)
(* be set between them.                                                     *)
THEOREM VotedWereSynced == Spec => []VotedOnlySynced
<1>1. SyncedInv => VotedOnlySynced
  BY DEF SyncedInv, SyncedClient, Labelled, VotedOnlySynced
<1> QED BY <1>1, SyncedInit, SyncedNext, PTL DEF Spec

-----------------------------------------------------------------------------
(* Clients vote at most twice on a block *)

(* The places of x in a queue, and queues without repetitions. *)
Copies(q, x) == {i \in 1 .. Len(q) : q[i] = x}
Distinct(q)  == \A i, j \in 1 .. Len(q) : q[i] = q[j] => i = j

(* The servers that have offered the header of b to c. *)
Offering(c, b) == {s \in Servers : b \in seen[s][c]}

One(p) == IF p THEN 1 ELSE 0

(* The answer of a call has no block twice.  A header in the answer of     *)
(* PullPendingBlocks is on its way to hdrs; GetBlocks asks for headers     *)
(* that the client keeps until it has the block.  So each server's offer   *)
(* pays for one copy of the block: an answered header, a header or a place *)
(* in the vote queue.                                                      *)
WorkClient(c) ==
    /\ Distinct(pull[c].resp) /\ Ids(pull[c].resp) \cap pull[c].todo = {}
    /\ ~pull[c].busy => pull[c].resp = <<>>
    /\ ~IsPull(c) => pull[c].todo \cup Ids(pull[c].resp) \subseteq hdrs[c]
    /\ \A b \in Blocks :
          Cardinality(Copies(got[c], b)) + One(b \in hdrs[c])
            + One(IsPull(c) /\ b \in Ids(pull[c].resp)) <= Cardinality(Offering(c, b))

WorkInv == TypeOK /\ \A c \in Clients : WorkClient(c)

LEMMA CopiesFinite ==
    ASSUME NEW S, NEW q \in Seq(S), NEW x
    PROVE  IsFiniteSet(Copies(q, x)) /\ Cardinality(Copies(q, x)) \in Nat
<1>1. IsFiniteSet(1 .. Len(q)) BY FS_Interval
<1>2. Copies(q, x) \in SUBSET (1 .. Len(q)) BY DEF Copies
<1> QED BY <1>1, <1>2, FS_Subset, FS_CardinalityType

LEMMA CopiesTail ==
    ASSUME NEW S, NEW q \in Seq(S), q # <<>>, NEW x
    PROVE  Cardinality(Copies(Tail(q), x)) <= Cardinality(Copies(q, x))
<1> DEFINE f == [i \in Copies(Tail(q), x) |-> i + 1]
<1>1. Len(Tail(q)) = Len(q) - 1 /\ Len(q) \in Nat /\ Len(q) # 0 OBVIOUS
<1>2. \A i \in 1 .. Len(Tail(q)) : Tail(q)[i] = q[i + 1] OBVIOUS
<1>3. f \in [Copies(Tail(q), x) -> Copies(q, x)] BY <1>1, <1>2 DEF Copies
<1>4. \A i, j \in Copies(Tail(q), x) : f[i] = f[j] => i = j BY <1>1 DEF Copies
<1>5. f \in Injection(Copies(Tail(q), x), Copies(q, x)) BY <1>3, <1>4 DEF Injection, IsInjective
<1> QED BY <1>5, CopiesFinite, FS_Injection

LEMMA CopiesConcat ==
    ASSUME NEW S, NEW q \in Seq(S), NEW r \in Seq(S), Distinct(r), NEW x
    PROVE  Cardinality(Copies(q \o r, x)) <= Cardinality(Copies(q, x)) + One(x \in Ids(r))
<1>1. q \o r \in Seq(S) /\ Len(q \o r) = Len(q) + Len(r) /\ Len(q) \in Nat /\ Len(r) \in Nat
  OBVIOUS
<1>2. \A i \in 1 .. Len(q \o r) : (q \o r)[i] = IF i <= Len(q) THEN q[i] ELSE r[i - Len(q)]
  OBVIOUS
<1>3. IsFiniteSet(Copies(q, x)) /\ Cardinality(Copies(q, x)) \in Nat BY CopiesFinite
<1>4. CASE x \in Ids(r)
  <2>1. PICK j \in 1 .. Len(r) : r[j] = x BY <1>4 DEF Ids
  <2>2. \A i \in 1 .. Len(r) : r[i] = x => i = j BY <2>1 DEF Distinct
  <2>3. PICK k : k = Len(q) + j OBVIOUS
  <2>4. ASSUME NEW i \in Copies(q \o r, x) PROVE i \in Copies(q, x) \cup {k}
    <3>1. i \in 1 .. Len(q \o r) /\ (q \o r)[i] = x BY DEF Copies
    <3>2. CASE i <= Len(q) BY <1>1, <1>2, <3>1, <3>2 DEF Copies
    <3>3. CASE i > Len(q)
      <4>1. i - Len(q) \in 1 .. Len(r) /\ r[i - Len(q)] = x BY <1>1, <1>2, <3>1, <3>3
      <4>2. i - Len(q) = j BY <2>2, <4>1
      <4> QED BY <1>1, <2>3, <3>1, <4>2
    <3> QED BY <1>1, <3>1, <3>2, <3>3
  <2>5. Copies(q \o r, x) \in SUBSET (Copies(q, x) \cup {k}) BY <2>4
  <2>6. /\ IsFiniteSet(Copies(q, x) \cup {k})
        /\ Cardinality(Copies(q, x) \cup {k}) \in Nat
        /\ Cardinality(Copies(q, x) \cup {k}) <= Cardinality(Copies(q, x)) + 1
    <3>1. /\ IsFiniteSet(Copies(q, x) \cup {k})
          /\ Cardinality(Copies(q, x) \cup {k}) = Cardinality(Copies(q, x))
             \/ Cardinality(Copies(q, x) \cup {k}) = Cardinality(Copies(q, x)) + 1
      BY <1>3, FS_AddElement, Zenon
    <3> QED BY <1>3, <3>1
  <2>7. Cardinality(Copies(q \o r, x)) <= Cardinality(Copies(q, x) \cup {k})
    BY <2>5, <2>6, FS_Subset
  <2>8. Cardinality(Copies(q \o r, x)) \in Nat BY <1>1, CopiesFinite
  <2> QED BY <1>3, <1>4, <2>6, <2>7, <2>8 DEF One
<1>5. CASE x \notin Ids(r)
  <2>1. \A i \in 1 .. Len(r) : r[i] # x BY <1>5 DEF Ids
  <2>2. Copies(q \o r, x) = Copies(q, x) BY <1>1, <1>2, <2>1 DEF Copies
  <2> QED BY <1>3, <1>5, <2>2 DEF One
<1> QED BY <1>4, <1>5

LEMMA OfferingFinite ==
    ASSUME NEW c, NEW b
    PROVE  IsFiniteSet(Offering(c, b)) /\ Cardinality(Offering(c, b)) \in Nat
<1>1. IsFiniteSet(Servers) BY ServerCountAssumption, FS_Interval DEF Servers
<1>2. Offering(c, b) \in SUBSET Servers BY DEF Offering
<1> QED BY <1>1, <1>2, FS_Subset, FS_CardinalityType

(* The blocks of a queue with one more at its end. *)
LEMMA IdsAppend ==
    ASSUME NEW S, NEW q \in Seq(S), NEW x \in S
    PROVE  /\ Ids(Append(q, x)) = Ids(q) \cup {x}
           /\ Distinct(q) /\ x \notin Ids(q) => Distinct(Append(q, x))
<1>1. Append(q, x) \in Seq(S) /\ Len(Append(q, x)) = Len(q) + 1 /\ Len(q) \in Nat OBVIOUS
<1>2. \A i \in 1 .. Len(q) + 1 : Append(q, x)[i] = IF i <= Len(q) THEN q[i] ELSE x OBVIOUS
<1>3. Ids(Append(q, x)) = Ids(q) \cup {x} BY <1>1, <1>2 DEF Ids
<1>4. Distinct(q) /\ x \notin Ids(q) => Distinct(Append(q, x))
  BY <1>1, <1>2 DEF Ids, Distinct
<1> QED BY <1>3, <1>4

LEMMA IdsEmpty ==
    ASSUME NEW q, q = <<>>
    PROVE  Ids(q) = {} /\ Distinct(q)
<1>1. Len(<<>>) = 0 OBVIOUS
<1>2. Len(q) = 0 BY <1>1, Zenon
<1> QED BY <1>2 DEF Ids, Distinct

(* A client and its offers that a step leaves alone. *)
LEMMA WorkFrame ==
    ASSUME NEW c \in Clients, WorkClient(c), UNCHANGED seen,
           hdrs'[c] = hdrs[c], got'[c] = got[c], pull'[c] = pull[c]
    PROVE  WorkClient(c)'
BY DEF WorkClient, IsPull, Offering

(* The handler looks at b; PullPendingBlocks marks it as seen exactly when *)
(* it answers with it.                                                     *)
LEMMA WorkVisit ==
    ASSUME TypeOK, NEW c \in Clients, NEW b \in Blocks, NEW a \in BOOLEAN, NEW d,
           CallVisits(c, b, a, d), WorkClient(c),
           IF IsPull(c) /\ a
           THEN /\ b \notin seen[PullStub(c)][c]
                /\ seen' = [seen EXCEPT ![PullStub(c)][c] = @ \cup {b}]
           ELSE UNCHANGED seen
    PROVE  WorkClient(c)'
<1> DEFINE resp == Answer(c, b, a)
           Load(x) == Cardinality(Copies(got[c], x)) + One(x \in hdrs[c])
<1>1. /\ pull \in [Clients -> [at : 1 .. 4, busy : BOOLEAN, todo : SUBSET Blocks, resp : Seq(Blocks)]]
      /\ pull[c].resp \in Seq(Blocks) /\ got[c] \in Seq(Blocks)
      /\ seen \in [Servers -> [Clients -> SUBSET Blocks]]
      /\ PullStub(c) \in Servers
  BY StubIsServer DEF TypeOK, ClientTypeOK, ServerTypeOK, PullStub
<1>2. /\ Distinct(pull[c].resp) /\ Ids(pull[c].resp) \cap pull[c].todo = {}
      /\ ~IsPull(c) => pull[c].todo \cup Ids(pull[c].resp) \subseteq hdrs[c]
      /\ \A x \in Blocks : Load(x) + One(IsPull(c) /\ x \in Ids(pull[c].resp))
                             <= Cardinality(Offering(c, x))
  BY DEF WorkClient
<1>3. b \in pull[c].todo /\ b \notin Ids(pull[c].resp) BY <1>2 DEF CallVisits
<1>4. /\ resp \in Seq(Blocks) /\ Distinct(resp)
      /\ Ids(resp) = IF a THEN Ids(pull[c].resp) \cup {b} ELSE Ids(pull[c].resp)
  <2>1. CASE a
    <3>1. resp = Append(pull[c].resp, b) BY <2>1 DEF Answer
    <3>2. /\ Append(pull[c].resp, b) \in Seq(Blocks) /\ Distinct(Append(pull[c].resp, b))
          /\ Ids(Append(pull[c].resp, b)) = Ids(pull[c].resp) \cup {b}
      BY <1>1, <1>2, <1>3, IdsAppend, QueueType
    <3> QED BY <2>1, <3>1, <3>2
  <2>2. CASE ~a
    <3>1. resp = pull[c].resp BY <2>2 DEF Answer
    <3> QED BY <1>1, <1>2, <2>2, <3>1
  <2> QED BY <2>1, <2>2
<1>5. \A x \in Blocks : Cardinality(Copies(got[c], x)) \in Nat /\ Load(x) \in Nat
  <2>1. \A x \in Blocks : Cardinality(Copies(got[c], x)) \in Nat BY <1>1, CopiesFinite
  <2> QED BY <2>1 DEF One
<1>6. /\ \A e \in Clients : e # c => pull'[e] = pull[e]
      /\ \/ /\ pull'[c].busy /\ pull'[c].at = pull[c].at
            /\ pull'[c].todo = pull[c].todo \ {b} /\ pull'[c].resp = resp
            /\ UNCHANGED <<hdrs, got>>
         \/ /\ NextCall(c, hdrs'[c])
            /\ \/ UNCHANGED <<hdrs, got>>
               \/ IsPull(c) /\ hdrs'[c] = hdrs[c] \cup Ids(resp) /\ got' = got
               \/ ~IsPull(c) /\ hdrs'[c] = hdrs[c] \ Ids(resp) /\ got'[c] = got[c] \o resp
  BY CallVisitsDoes
<1> HIDE DEF resp, Load
<1>7. ASSUME NEW x \in Blocks
      PROVE  Load(x) + One(IsPull(c) /\ x \in Ids(resp)) <= Cardinality(Offering(c, x)')
  <2>1. CASE ~(IsPull(c) /\ a)
    <3>1. Offering(c, x)' = Offering(c, x) BY <2>1 DEF Offering
    <3>2. One(IsPull(c) /\ x \in Ids(resp)) = One(IsPull(c) /\ x \in Ids(pull[c].resp))
      BY <1>4, <2>1 DEF One
    <3> QED BY <1>2, <3>1, <3>2
  <2>2. CASE IsPull(c) /\ a /\ x # b
    <3>1. Offering(c, x)' = Offering(c, x)
      <4>1. seen' = [seen EXCEPT ![PullStub(c)][c] = @ \cup {b}] BY <2>2
      <4>2. \A s \in Servers : x \in seen'[s][c] <=> x \in seen[s][c] BY <1>1, <2>2, <4>1
      <4> QED BY <4>2 DEF Offering
    <3>2. One(IsPull(c) /\ x \in Ids(resp)) = One(IsPull(c) /\ x \in Ids(pull[c].resp))
      BY <1>4, <2>2 DEF One
    <3> QED BY <1>2, <3>1, <3>2
  <2>3. CASE IsPull(c) /\ a /\ x = b
    <3>1. Offering(c, x)' = Offering(c, x) \cup {PullStub(c)} BY <1>1, <2>3 DEF Offering
    <3>2. PullStub(c) \notin Offering(c, x) BY <2>3 DEF Offering
    <3>3. Cardinality(Offering(c, x)') = Cardinality(Offering(c, x)) + 1
      BY <3>1, <3>2, OfferingFinite, FS_AddElement
    <3>4. /\ One(IsPull(c) /\ x \in Ids(resp)) = 1
          /\ One(IsPull(c) /\ x \in Ids(pull[c].resp)) = 0
      BY <1>3, <1>4, <2>3 DEF One
    <3>5. Load(x) \in Nat /\ Cardinality(Offering(c, x)) \in Nat BY <1>5, OfferingFinite
    <3> QED BY <1>2, <3>3, <3>4, <3>5
  <2> QED BY <2>1, <2>2, <2>3
<1>8. ~IsPull(c) => Ids(resp) \subseteq hdrs[c] BY <1>2, <1>3, <1>4
<1>9. CASE /\ pull'[c].busy /\ pull'[c].at = pull[c].at
           /\ pull'[c].todo = pull[c].todo \ {b} /\ pull'[c].resp = resp
           /\ UNCHANGED <<hdrs, got>>
  <2>1. IsPull(c)' = IsPull(c) BY <1>9 DEF IsPull
  <2>2. Ids(resp) \cap pull'[c].todo = {} BY <1>2, <1>4, <1>9
  <2>3. ~IsPull(c) => pull'[c].todo \cup Ids(resp) \subseteq hdrs[c] BY <1>2, <1>8, <1>9
  <2> QED BY <1>4, <1>7, <1>9, <2>1, <2>2, <2>3 DEF WorkClient, Load
<1>10. CASE NextCall(c, hdrs'[c])
  <2>1. /\ pull'[c].resp = <<>>
        /\ \/ pull'[c].todo = hdrs'[c]
           \/ ~pull'[c].busy /\ pull'[c].todo = {}
    BY <1>10, NextCallDoes
  <2>2. Ids(pull'[c].resp) = {} /\ Distinct(pull'[c].resp) BY <2>1, IdsEmpty
  <2>3. ASSUME NEW x \in Blocks
        PROVE  Cardinality(Copies(got'[c], x)) + One(x \in hdrs'[c]) <= Cardinality(Offering(c, x)')
    <3>1. Cardinality(Offering(c, x)') \in Nat
      <4>1. IsFiniteSet(Servers) BY ServerCountAssumption, FS_Interval DEF Servers
      <4>2. Offering(c, x)' \in SUBSET Servers BY DEF Offering
      <4> QED BY <4>1, <4>2, FS_Subset, FS_CardinalityType
    <3>2. Load(x) = Cardinality(Copies(got[c], x)) + One(x \in hdrs[c]) BY DEF Load
    <3>3. Load(x) <= Cardinality(Offering(c, x)')
      BY <1>5, <1>7, <3>1 DEF One
    <3>4. CASE UNCHANGED <<hdrs, got>> BY <3>2, <3>3, <3>4
    <3>5. CASE IsPull(c) /\ hdrs'[c] = hdrs[c] \cup Ids(resp) /\ got' = got
      <4>1. Cardinality(Copies(got[c], x)) + One(x \in hdrs[c]) + One(x \in Ids(resp))
              <= Cardinality(Offering(c, x)')
        BY <1>7, <3>2, <3>5
      <4>2. One(x \in hdrs'[c]) <= One(x \in hdrs[c]) + One(x \in Ids(resp)) BY <3>5 DEF One
      <4>3. One(x \in hdrs'[c]) \in Nat /\ One(x \in hdrs[c]) \in Nat /\ One(x \in Ids(resp)) \in Nat
        BY DEF One
      <4>4. got'[c] = got[c] BY <3>5
      <4> QED BY <1>5, <3>1, <4>1, <4>2, <4>3, <4>4
    <3>6. CASE ~IsPull(c) /\ hdrs'[c] = hdrs[c] \ Ids(resp) /\ got'[c] = got[c] \o resp
      <4>1. Cardinality(Copies(got'[c], x)) <= Cardinality(Copies(got[c], x)) + One(x \in Ids(resp))
        BY <1>1, <1>4, <3>6, CopiesConcat
      <4>2. One(x \in hdrs'[c]) + One(x \in Ids(resp)) = One(x \in hdrs[c])
        BY <1>8, <3>6 DEF One
      <4>3. got'[c] \in Seq(Blocks) BY <1>1, <1>4, <3>6
      <4>4. Cardinality(Copies(got'[c], x)) \in Nat BY <4>3, CopiesFinite
      <4>5. One(x \in hdrs'[c]) \in Nat /\ One(x \in hdrs[c]) \in Nat /\ One(x \in Ids(resp)) \in Nat
        BY DEF One
      <4> QED BY <1>5, <3>1, <3>2, <3>3, <4>1, <4>2, <4>4, <4>5
    <3> QED BY <1>6, <1>9, <3>4, <3>5, <3>6
  <2>4. ASSUME NEW x \in Blocks
        PROVE  Cardinality(Copies(got'[c], x)) + One(x \in hdrs'[c])
                 + One(IsPull(c)' /\ x \in Ids(pull'[c].resp)) <= Cardinality(Offering(c, x)')
    <3>1. One(IsPull(c)' /\ x \in Ids(pull'[c].resp)) = 0 BY <2>2 DEF One
    <3>2. got'[c] \in Seq(Blocks)
      <4>1. got'[c] = got[c] \/ got'[c] = got[c] \o resp BY <1>6
      <4>2. got[c] \o resp \in Seq(Blocks) BY <1>1, <1>4
      <4> QED BY <1>1, <4>1, <4>2
    <3>3. Cardinality(Copies(got'[c], x)) \in Nat /\ One(x \in hdrs'[c]) \in Nat
      BY <3>2, CopiesFinite DEF One
    <3> QED BY <2>3, <3>1, <3>3
  <2>5. pull'[c].todo \cup Ids(pull'[c].resp) \subseteq hdrs'[c] BY <2>1, <2>2
  <2>6. Ids(pull'[c].resp) \cap pull'[c].todo = {} BY <2>2
  <2> QED BY <2>1, <2>2, <2>4, <2>5, <2>6 DEF WorkClient
<1> QED BY <1>6, <1>9, <1>10

(* PullPendingBlocks starts with an empty answer. *)
LEMMA WorkStart ==
    ASSUME TypeOK, UNCHANGED seen, NEW c \in Clients, NEW blocks, IsPull(c),
           PullStarts(c, blocks), WorkClient(c)
    PROVE  WorkClient(c)'
<1>1. /\ ~pull[c].busy /\ UNCHANGED <<hdrs, got>>
      /\ \/ NextCall(c, hdrs[c])
         \/ pull'[c].busy /\ pull'[c].at = pull[c].at /\ pull'[c].resp = pull[c].resp
  BY PullStartsDoes
<1>2. pull[c].resp = <<>> BY <1>1 DEF WorkClient
<1>3. pull'[c].resp = <<>> /\ (IsPull(c)' \/ pull'[c].todo = hdrs[c])
  BY <1>1, <1>2, NextCallDoes DEF IsPull
<1>4. /\ Ids(pull'[c].resp) = {} /\ Distinct(pull'[c].resp)
      /\ Ids(pull[c].resp) = {}
  BY <1>2, <1>3, IdsEmpty
<1>5. \A x \in Blocks : /\ One(IsPull(c) /\ x \in Ids(pull[c].resp)) = 0
                        /\ One(IsPull(c)' /\ x \in Ids(pull'[c].resp)) = 0
  BY <1>4 DEF One
<1>6. \A x \in Blocks : Offering(c, x)' = Offering(c, x) BY DEF Offering
<1> QED BY <1>1, <1>3, <1>4, <1>5, <1>6 DEF WorkClient

LEMMA WorkPull ==
    ASSUME TypeOK, NEW c \in Clients, NEW d \in BOOLEAN, PullSteps(c, d) \/ PullFails(c),
           WorkClient(c)
    PROVE  WorkClient(c)'
<1>1. CASE PullSnapshot(c)
  BY <1>1, WorkStart DEF PullSnapshot, serverVars, labelVars
<1>2. CASE PullFails(c)
  BY <1>2, WorkStart DEF PullFails, serverVars, labelVars
<1>3. ASSUME NEW b \in Blocks, PullVisit(c, b, d) PROVE WorkClient(c)'
  <2> DEFINE a == PullSends(PullStub(c), b, c)
  <2>1. a \in BOOLEAN /\ (a => b \notin seen[PullStub(c)][c]) BY DEF PullSends
  <2>2. IsPull(c) /\ CallVisits(c, b, a, d) BY <1>3 DEF PullVisit
  <2>3. seen' = [seen EXCEPT ![PullStub(c)][c] = IF a THEN @ \cup {b} ELSE @]
    BY <1>3 DEF PullVisit, PullMark
  <2>4. /\ seen \in [Servers -> [Clients -> SUBSET Blocks]] /\ PullStub(c) \in Servers
    BY StubIsServer DEF TypeOK, ServerTypeOK, PullStub
  <2> HIDE DEF a
  <2>5. a => seen' = [seen EXCEPT ![PullStub(c)][c] = @ \cup {b}] BY <2>3
  <2>6. ~a => seen' = seen BY <2>3, <2>4
  <2> QED BY <2>1, <2>2, <2>5, <2>6, WorkVisit
<1>4. ASSUME NEW b \in Blocks, GetVisit(c, b, d) PROVE WorkClient(c)'
  <2>1. (b \in pending[PullStub(c)]) \in BOOLEAN OBVIOUS
  <2>2. /\ ~IsPull(c) /\ CallVisits(c, b, b \in pending[PullStub(c)], d)
        /\ UNCHANGED seen
    BY <1>4 DEF GetVisit, serverVars, labelVars
  <2>3. PICK a \in BOOLEAN : CallVisits(c, b, a, d) BY <2>1, <2>2, Zenon
  <2> QED BY <2>2, <2>3, WorkVisit
<1> QED BY <1>1, <1>2, <1>3, <1>4 DEF PullSteps

(* The vote thread takes a block from the queue when it has voted on it. *)
LEMMA WorkVote ==
    ASSUME TypeOK, NEW c \in Clients, VoteSteps(c) \/ VoteFails(c), WorkClient(c)
    PROVE  WorkClient(c)'
<1>1. /\ got \in [Clients -> Seq(Blocks)]
      /\ \A e \in Clients : vote[e].inserting => got[e] # <<>>
  BY DEF TypeOK, ClientTypeOK
<1>2. got[c] # <<>> /\ got[c] \in Seq(Blocks)
  BY <1>1 DEF VoteSteps, VoteFails, VoteBlocksRelay, VoteBlocksInsert, VoteBegins
<1>3. /\ UNCHANGED <<seen, hdrs, pull>>
      /\ got' = got \/ got' = [got EXCEPT ![c] = Tail(@)]
  BY DEF VoteSteps, VoteFails, VoteBlocksRelay, VoteBlocksInsert, VoteEnds, VoteGoesOn,
         serverVars, labelVars
<1>4. got'[c] = got[c] \/ got'[c] = Tail(got[c]) BY <1>1, <1>3
<1>5. CASE got'[c] = got[c] BY <1>3, <1>5, WorkFrame
<1>6. CASE got'[c] = Tail(got[c])
  <2>1. Tail(got[c]) \in Seq(Blocks) BY <1>2, QueueType
  <2>2. \A x \in Blocks : /\ Cardinality(Copies(got'[c], x)) <= Cardinality(Copies(got[c], x))
                          /\ Cardinality(Copies(got'[c], x)) \in Nat
                          /\ Cardinality(Copies(got[c], x)) \in Nat
    BY <1>2, <1>6, <2>1, CopiesTail, CopiesFinite
  <2>3. \A x \in Blocks : /\ Offering(c, x)' = Offering(c, x)
                          /\ Cardinality(Offering(c, x)) \in Nat
    BY <1>3, OfferingFinite DEF Offering
  <2>4. IsPull(c)' = IsPull(c) /\ pull'[c] = pull[c] /\ hdrs'[c] = hdrs[c] BY <1>3 DEF IsPull
  <2>5. ASSUME NEW x \in Blocks
        PROVE  Cardinality(Copies(got'[c], x)) + One(x \in hdrs[c])
                 + One(IsPull(c) /\ x \in Ids(pull[c].resp)) <= Cardinality(Offering(c, x))
    <3>1. Cardinality(Copies(got[c], x)) + One(x \in hdrs[c])
            + One(IsPull(c) /\ x \in Ids(pull[c].resp)) <= Cardinality(Offering(c, x))
      BY DEF WorkClient
    <3>2. One(x \in hdrs[c]) \in Nat /\ One(IsPull(c) /\ x \in Ids(pull[c].resp)) \in Nat
      BY DEF One
    <3> QED BY <2>2, <2>3, <3>1, <3>2
  <2> QED BY <2>3, <2>4, <2>5 DEF WorkClient
<1> QED BY <1>4, <1>5, <1>6

LEMMA WorkNext == WorkInv /\ [Next]_vars => WorkInv'
<1> SUFFICES ASSUME WorkInv, [Next]_vars PROVE WorkInv' OBVIOUS
<1>1. TypeOK /\ TypeOK' BY NextType DEF WorkInv
<1>2. ASSUME NEW c \in Clients PROVE WorkClient(c)'
  <2>1. WorkClient(c) BY DEF WorkInv
  <2>2. CASE UNCHANGED <<clientVars, seen>> BY <2>1, <2>2, WorkFrame DEF clientVars
  <2>3. ASSUME NEW e \in Clients, NEW d \in BOOLEAN,
               VoteSteps(e) \/ VoteFails(e) \/ PullSteps(e, d) \/ PullFails(e)
        PROVE  WorkClient(c)'
    <3>1. CASE e = c BY <1>1, <2>1, <2>3, <3>1, WorkPull, WorkVote
    <3>2. CASE e # c
      <4>1. hdrs'[c] = hdrs[c] /\ got'[c] = got[c] /\ pull'[c] = pull[c]
        BY <1>1, <2>3, <3>2, OtherClients
      <4>2. \A x \in Blocks : Offering(c, x)' = Offering(c, x)
        <5>1. seen \in [Servers -> [Clients -> SUBSET Blocks]]
          BY <1>1 DEF TypeOK, ServerTypeOK
        <5>2. \/ UNCHANGED seen
              \/ \E s \in Servers, S \in SUBSET Blocks : seen' = [seen EXCEPT ![s][e] = S]
          <6>1. CASE \E b \in Blocks : PullVisit(e, b, d)
            <7>1. PICK b \in Blocks : PullVisit(e, b, d) BY <6>1
            <7>2. PullStub(e) \in Servers BY StubIsServer DEF PullStub
            <7>3. seen[PullStub(e)][e] \cup {b} \in SUBSET Blocks
                  /\ seen[PullStub(e)][e] \in SUBSET Blocks
              BY <5>1, <7>2
            <7>4. \/ seen' = [seen EXCEPT ![PullStub(e)][e] = seen[PullStub(e)][e] \cup {b}]
                  \/ seen' = [seen EXCEPT ![PullStub(e)][e] = seen[PullStub(e)][e]]
              BY <7>1 DEF PullVisit, PullMark
            <7> QED BY <7>2, <7>3, <7>4
          <6>2. CASE ~\E b \in Blocks : PullVisit(e, b, d)
            BY <2>3, <6>2 DEF VoteSteps, VoteFails, VoteBlocksRelay, VoteBlocksInsert, PullSteps,
               PullFails, PullSnapshot, GetVisit, serverVars, labelVars
          <6> QED BY <6>1, <6>2
        <5>3. \A s \in Servers : seen'[s][c] = seen[s][c] BY <3>2, <5>1, <5>2
        <5> QED BY <5>3 DEF Offering
      <4> QED BY <2>1, <4>1, <4>2 DEF WorkClient, IsPull
    <3> QED BY <3>1, <3>2
  <2>4. CASE UNCHANGED vars BY <2>2, <2>4 DEF vars, serverVars, labelVars
  <2>5. TRUE \in BOOLEAN OBVIOUS
  <2>6. ASSUME \/ Pack \/ RelayLoop \/ HandleBlock \/ CallFails
               \/ \E d \in BOOLEAN : RelaySend(d)
               \/ \E s \in Servers : Merge(s)
               \/ \E s \in Servers : \E t \in Servers \ {s} : PeerCall(s, t)
        PROVE  UNCHANGED <<clientVars, seen>>
    <3>1. UNCHANGED clientVars BY <2>6, NoClientSteps
    <3>2. UNCHANGED seen
      BY <2>6 DEF Pack, PackPush, PackInsert, RelayLoop, RelaySend, RelayBlockPop, RelayBlockEmpty,
         RelayBlockReturn, SyncPop, SyncLocal, RelayBlockSend, RelayBlockSync, HandleBlock,
         RelayBlockHandler, CallFails, Abandon, RelayVoteFails, SPBcastCommitFails, Merge,
         MergeVotes, PeerCall, RelayVote, SPBcastCommit, labelVars
    <3> QED BY <3>1, <3>2
  <2> QED BY <2>2, <2>3, <2>4, <2>5, <2>6 DEF Next
<1> QED BY <1>1, <1>2 DEF WorkInv

LEMMA WorkInit == Init => WorkInv
<1> SUFFICES ASSUME Init PROVE WorkInv OBVIOUS
<1>1. ASSUME NEW c \in Clients PROVE WorkClient(c)
  <2>1. /\ hdrs[c] = {} /\ got[c] = <<>> /\ pull[c].resp = <<>> /\ pull[c].todo = {}
        /\ pull[c].at = 1
    BY DEF Init, ClientInit
  <2>2. Ids(pull[c].resp) = {} /\ Distinct(pull[c].resp) BY <2>1, IdsEmpty
  <2>3. ASSUME NEW x \in Blocks PROVE Cardinality(Copies(got[c], x)) = 0
    <3>1. Ids(got[c]) = {} BY <2>1, IdsEmpty
    <3>2. Copies(got[c], x) = {} BY <3>1 DEF Copies, Ids
    <3> QED BY <3>2, FS_EmptySet
  <2>4. \A x \in Blocks : Cardinality(Offering(c, x)) \in Nat BY OfferingFinite
  <2>5. \A x \in Blocks : One(x \in hdrs[c]) = 0 /\ One(IsPull(c) /\ x \in Ids(pull[c].resp)) = 0
    BY <2>1, <2>2 DEF One
  <2>6. \A b \in Blocks :
          Cardinality(Copies(got[c], b)) + One(b \in hdrs[c])
            + One(IsPull(c) /\ b \in Ids(pull[c].resp)) <= Cardinality(Offering(c, b))
    BY <2>3, <2>4, <2>5
  <2> QED BY <2>1, <2>2, <2>6 DEF WorkClient, IsPull
<1> QED BY <1>1, InitType DEF WorkInv

(* Each server that offers a header (seen_blocks in PullPendingBlocks) pays *)
(* for one copy of the block at the client: a header, or a block that       *)
(* GetBlocks has fetched and VoteBlocks has still to vote on.  Lost answers *)
(* only make it less.                                                       *)
THEOREM VoteWorkIsBounded == Spec => []VoteWorkBounded
<1>1. WorkInv => VoteWorkBounded
  <2> SUFFICES ASSUME WorkInv, NEW c \in Clients, NEW b \in Blocks
               PROVE  Cardinality({i \in 1 .. Len(got[c]) : got[c][i] = b})
                        + (IF b \in hdrs[c] THEN 1 ELSE 0)
                          <= Cardinality({s \in Servers : b \in seen[s][c]})
    BY DEF VoteWorkBounded
  <2>1. Cardinality(Copies(got[c], b)) + One(b \in hdrs[c])
          + One(IsPull(c) /\ b \in Ids(pull[c].resp)) <= Cardinality(Offering(c, b))
    BY DEF WorkInv, WorkClient
  <2>2. Cardinality(Copies(got[c], b)) \in Nat
    BY CopiesFinite DEF WorkInv, TypeOK, ClientTypeOK
  <2>3. One(b \in hdrs[c]) \in Nat /\ One(IsPull(c) /\ b \in Ids(pull[c].resp)) \in Nat BY DEF One
  <2>4. Cardinality(Copies(got[c], b)) + One(b \in hdrs[c]) <= Cardinality(Offering(c, b))
    BY <2>1, <2>2, <2>3, OfferingFinite
  <2> QED BY <2>4 DEF Copies, One, Offering
<1> QED BY <1>1, WorkInit, WorkNext, PTL DEF Spec

-----------------------------------------------------------------------------
(* A block is in one place on its way through a server *)

(* Sequences of blocks with votes in which no block is twice. *)
NoRepeat(q) == \A i, j \in 1 .. Len(q) : q[i].blk = q[j].blk => i = j

(* The pools of server s. *)
PoolInv(s) ==
    /\ pending[s] \cap committed[s] = {}
    /\ BlocksOf(mergeQ[s]) \cap (pending[s] \cup committed[s]) = {}
    /\ NoRepeat(mergeQ[s])

(* The blocks the pack thread has handed to server t: pushed to its relay  *)
(* queue, or inserted in the packer's pool.                                *)
Handed(t) == {b \in Blocks : pack.blk > b \/ (pack.blk = b /\ pack.tgt > t)}

(* The blocks in the request being filled for t, and in the calls to t     *)
(* whose handlers are still running, one after the other or, after an      *)
(* error, at the same time.                                                *)
Filling(t) == {b \in BlocksOf(rb.req) : rb.pc = "pop" /\ rb.tgt = t}
InCalls(t) == UNION {BlocksOf(m.items) : m \in {n \in blockCalls : n.dst = t}}

(* On its way to t a handed block is in the relay queue, in a request, in  *)
(* a call or in the pools of t, and never in two of them.                  *)
WayTo(t) ==
    /\ Distinct(relayBlocks[t])
    /\ Ids(relayBlocks[t]) \cap (Filling(t) \cup InCalls(t) \cup Holds(t)) = {}
    /\ Filling(t) \cap (InCalls(t) \cup Holds(t)) = {}
    /\ InCalls(t) \cap Holds(t) = {}

OnWay(t) == Ids(relayBlocks[t]) \cup Filling(t) \cup InCalls(t) \cup Holds(t)

CallsApart ==
    /\ NoRepeat(rb.req)
    /\ rb.pc = "signal" \/ rb.tgt = Packer => rb.req = <<>>
    /\ \A m \in blockCalls : m.dst \in Peers /\ NoRepeat(m.items)
    /\ \A m, n \in blockCalls :
          m # n /\ m.dst = n.dst => BlocksOf(m.items) \cap BlocksOf(n.items) = {}

WayInv ==
    /\ TypeOK
    /\ \A s \in Servers : PoolInv(s)
    /\ \A t \in Peers : WayTo(t)
    /\ \A t \in Servers : OnWay(t) \subseteq Handed(t)
    /\ CallsApart

(* What sequences of blocks with votes hold. *)
LEMMA BlocksAppend ==
    ASSUME NEW S, NEW q \in Seq(S), NEW x \in S
    PROVE  /\ BlocksOf(Append(q, x)) = BlocksOf(q) \cup {x.blk}
           /\ NoRepeat(q) /\ x.blk \notin BlocksOf(q) => NoRepeat(Append(q, x))
<1>1. Append(q, x) \in Seq(S) /\ Len(Append(q, x)) = Len(q) + 1 /\ Len(q) \in Nat OBVIOUS
<1>2. \A i \in 1 .. Len(q) + 1 : Append(q, x)[i] = IF i <= Len(q) THEN q[i] ELSE x OBVIOUS
<1>3. BlocksOf(Append(q, x)) = BlocksOf(q) \cup {x.blk} BY <1>1, <1>2 DEF BlocksOf
<1>4. NoRepeat(q) /\ x.blk \notin BlocksOf(q) => NoRepeat(Append(q, x))
  BY <1>1, <1>2 DEF BlocksOf, NoRepeat
<1> QED BY <1>3, <1>4

LEMMA BlocksEmpty ==
    ASSUME NEW q, q = <<>>
    PROVE  BlocksOf(q) = {} /\ NoRepeat(q)
<1>1. Len(<<>>) = 0 OBVIOUS
<1>2. Len(q) = 0 BY <1>1, Zenon
<1> QED BY <1>2 DEF BlocksOf, NoRepeat

LEMMA BlocksTail ==
    ASSUME NEW S, NEW q \in Seq(S), q # <<>>
    PROVE  /\ BlocksOf(q) = BlocksOf(Tail(q)) \cup {Head(q).blk}
           /\ NoRepeat(q) => NoRepeat(Tail(q)) /\ Head(q).blk \notin BlocksOf(Tail(q))
           /\ Len(q) = 1 => BlocksOf(q) = {Head(q).blk}
<1>1. Len(Tail(q)) = Len(q) - 1 /\ Len(q) \in Nat /\ Len(q) # 0 /\ Head(q) = q[1] OBVIOUS
<1>2. \A i \in 1 .. Len(q) - 1 : Tail(q)[i] = q[i + 1] OBVIOUS
<1>3. \A j \in 2 .. Len(q) : j - 1 \in 1 .. Len(q) - 1 /\ q[j] = Tail(q)[j - 1] BY <1>1, <1>2
<1>4. \A j \in 1 .. Len(q) : j = 1 \/ j \in 2 .. Len(q) BY <1>1
<1>5. BlocksOf(q) = BlocksOf(Tail(q)) \cup {Head(q).blk}
  <2>1. \A j \in 1 .. Len(q) : q[j].blk \in BlocksOf(Tail(q)) \cup {Head(q).blk}
    BY <1>1, <1>3, <1>4 DEF BlocksOf
  <2>2. BlocksOf(q) \subseteq BlocksOf(Tail(q)) \cup {Head(q).blk} BY <2>1 DEF BlocksOf
  <2>3. ASSUME NEW i \in 1 .. Len(Tail(q)) PROVE Tail(q)[i].blk \in BlocksOf(q)
    <3>1. i + 1 \in 1 .. Len(q) /\ Tail(q)[i].blk = q[i + 1].blk BY <1>1, <1>2
    <3> QED BY <3>1 DEF BlocksOf
  <2>4. BlocksOf(Tail(q)) \subseteq BlocksOf(q) BY <2>3 DEF BlocksOf
  <2>5. Head(q).blk \in BlocksOf(q) BY <1>1 DEF BlocksOf
  <2> QED BY <2>2, <2>4, <2>5
<1>6. NoRepeat(q) => NoRepeat(Tail(q)) /\ Head(q).blk \notin BlocksOf(Tail(q))
  BY <1>1, <1>2 DEF NoRepeat, BlocksOf
<1>7. Len(q) = 1 => BlocksOf(q) = {Head(q).blk} BY <1>1 DEF BlocksOf
<1> QED BY <1>5, <1>6, <1>7

LEMMA IdsTail ==
    ASSUME NEW S, NEW q \in Seq(S), q # <<>>
    PROVE  /\ Ids(q) = Ids(Tail(q)) \cup {Head(q)}
           /\ Distinct(q) => Distinct(Tail(q)) /\ Head(q) \notin Ids(Tail(q))
<1>1. Len(Tail(q)) = Len(q) - 1 /\ Len(q) \in Nat /\ Len(q) # 0 /\ Head(q) = q[1] OBVIOUS
<1>2. \A i \in 1 .. Len(q) - 1 : Tail(q)[i] = q[i + 1] OBVIOUS
<1>3. \A j \in 2 .. Len(q) : j - 1 \in 1 .. Len(q) - 1 /\ q[j] = Tail(q)[j - 1] BY <1>1, <1>2
<1>4. \A j \in 1 .. Len(q) : j = 1 \/ j \in 2 .. Len(q) BY <1>1
<1>5. Ids(q) = Ids(Tail(q)) \cup {Head(q)}
  <2>1. \A j \in 1 .. Len(q) : q[j] \in Ids(Tail(q)) \cup {Head(q)}
    BY <1>1, <1>3, <1>4 DEF Ids
  <2>2. Ids(q) \subseteq Ids(Tail(q)) \cup {Head(q)} BY <2>1 DEF Ids
  <2>3. ASSUME NEW i \in 1 .. Len(Tail(q)) PROVE Tail(q)[i] \in Ids(q)
    <3>1. i + 1 \in 1 .. Len(q) /\ Tail(q)[i] = q[i + 1] BY <1>1, <1>2
    <3> QED BY <3>1 DEF Ids
  <2>4. Ids(Tail(q)) \subseteq Ids(q) BY <2>3 DEF Ids
  <2>5. Head(q) \in Ids(q) BY <1>1 DEF Ids
  <2> QED BY <2>2, <2>4, <2>5
<1>6. Distinct(q) => Distinct(Tail(q)) /\ Head(q) \notin Ids(Tail(q))
  BY <1>1, <1>2 DEF Distinct, Ids
<1> QED BY <1>5, <1>6

(* A queue without repetitions has as many blocks as elements. *)
LEMMA BlocksCounted ==
    ASSUME NEW S, NEW q \in Seq(S), NoRepeat(q)
    PROVE  Cardinality(BlocksOf(q)) = Len(q)
<1> DEFINE f == [i \in 1 .. Len(q) |-> q[i].blk]
<1>1. f \in [1 .. Len(q) -> BlocksOf(q)] BY DEF BlocksOf
<1>2. \A i, j \in 1 .. Len(q) : f[i] = f[j] => i = j BY DEF NoRepeat
<1>3. \A b \in BlocksOf(q) : \E i \in 1 .. Len(q) : f[i] = b BY DEF BlocksOf
<1> HIDE DEF f
<1>4. f \in Injection(1 .. Len(q), BlocksOf(q)) BY <1>1, <1>2 DEF Injection, IsInjective
<1>5. f \in Surjection(1 .. Len(q), BlocksOf(q)) BY <1>1, <1>3 DEF Surjection
<1>6. ExistsBijection(1 .. Len(q), BlocksOf(q)) BY <1>4, <1>5 DEF ExistsBijection, Bijection
<1>7. Len(q) \in Nat OBVIOUS
<1> QED BY <1>6, <1>7, FS_CountingElements

(* The packer is no peer, and the peers are the servers before it. *)
LEMMA PeersAre == Peers = {t \in Servers : t < Packer} /\ Peers \subseteq Servers
BY ServerCountAssumption DEF Peers, Packer, Servers

(* A vote moves a block from the pool to the merge queue at most. *)
LEMMA PoolInsert ==
    ASSUME TypeOK, \A r \in Servers : PoolInv(r), NEW s \in Servers, NEW b \in Blocks,
           NEW c \in Clients, InsertVote(s, b, c)
    PROVE  \A r \in Servers : PoolInv(r)' /\ Holds(r)' = Holds(r)
<1> DEFINE i == [blk |-> b, votes |-> votes[s][b] \cup {c}]
<1>1. /\ pending \in [Servers -> SUBSET Blocks] /\ mergeQ \in [Servers -> Seq(Voted)]
      /\ committed \in [Servers -> SUBSET Blocks]
      /\ votes \in [Servers -> [Blocks -> SUBSET Clients]]
  BY DEF TypeOK, ServerTypeOK
<1>2. i \in Voted /\ i.blk = b BY <1>1 DEF Voted
<1>3. /\ UNCHANGED committed
      /\ \/ UNCHANGED <<pending, mergeQ>>
         \/ /\ b \in pending[s]
            /\ pending' = [pending EXCEPT ![s] = @ \ {b}]
            /\ mergeQ' = [mergeQ EXCEPT ![s] = Append(@, i)]
  BY DEF InsertVote, AddVote
<1> HIDE DEF i
<1>4. CASE UNCHANGED <<pending, mergeQ>> BY <1>3, <1>4 DEF PoolInv, Holds
<1>5. CASE /\ b \in pending[s]
           /\ pending' = [pending EXCEPT ![s] = @ \ {b}]
           /\ mergeQ' = [mergeQ EXCEPT ![s] = Append(@, i)]
  <2>1. ASSUME NEW r \in Servers, r # s PROVE PoolInv(r)' /\ Holds(r)' = Holds(r)
    <3>1. pending'[r] = pending[r] /\ mergeQ'[r] = mergeQ[r] BY <1>1, <1>5, <2>1
    <3> QED BY <1>3, <3>1 DEF PoolInv, Holds
  <2>2. pending'[s] = pending[s] \ {b} /\ mergeQ'[s] = Append(mergeQ[s], i) BY <1>1, <1>5
  <2>3. b \notin BlocksOf(mergeQ[s]) /\ b \notin committed[s] BY <1>5 DEF PoolInv
  <2>4. mergeQ[s] \in Seq(Voted) /\ NoRepeat(mergeQ[s]) BY <1>1 DEF PoolInv
  <2>5. BlocksOf(mergeQ'[s]) = BlocksOf(mergeQ[s]) \cup {b} /\ NoRepeat(mergeQ'[s])
    BY <1>2, <2>2, <2>3, <2>4, BlocksAppend
  <2>6. PoolInv(s)' BY <1>3, <2>2, <2>3, <2>5 DEF PoolInv
  <2>7. Holds(s)' = Holds(s) BY <1>3, <1>5, <2>2, <2>5 DEF Holds
  <2> QED BY <2>1, <2>6, <2>7
<1> QED BY <1>3, <1>4, <1>5

(* merge_votes moves a block from the merge queue to committed_blks. *)
LEMMA PoolMerge ==
    ASSUME TypeOK, \A r \in Servers : PoolInv(r), NEW s \in Servers, Merge(s)
    PROVE  \A r \in Servers : PoolInv(r)' /\ Holds(r)' = Holds(r)
<1> DEFINE b == Head(mergeQ[s]).blk
<1>1. /\ mergeQ \in [Servers -> Seq(Voted)] /\ committed \in [Servers -> SUBSET Blocks]
  BY DEF TypeOK, ServerTypeOK
<1>2. /\ mergeQ[s] # <<>> /\ mergeQ' = [mergeQ EXCEPT ![s] = Tail(@)]
      /\ committed' = [committed EXCEPT ![s] = @ \cup {b}] /\ UNCHANGED pending
  BY DEF Merge, MergeVotes
<1>3. mergeQ[s] \in Seq(Voted) /\ NoRepeat(mergeQ[s]) BY <1>1 DEF PoolInv
<1>4. /\ BlocksOf(mergeQ[s]) = BlocksOf(Tail(mergeQ[s])) \cup {b}
      /\ b \notin BlocksOf(Tail(mergeQ[s])) /\ NoRepeat(Tail(mergeQ[s]))
  BY <1>2, <1>3, BlocksTail
<1> HIDE DEF b
<1>5. ASSUME NEW r \in Servers, r # s PROVE PoolInv(r)' /\ Holds(r)' = Holds(r)
  <2>1. mergeQ'[r] = mergeQ[r] /\ committed'[r] = committed[r] BY <1>1, <1>2, <1>5
  <2> QED BY <1>2, <2>1 DEF PoolInv, Holds
<1>6. mergeQ'[s] = Tail(mergeQ[s]) /\ committed'[s] = committed[s] \cup {b} BY <1>1, <1>2
<1>7. PoolInv(s)' BY <1>2, <1>4, <1>6 DEF PoolInv
<1>8. Holds(s)' = Holds(s) BY <1>2, <1>4, <1>6 DEF Holds
<1> QED BY <1>5, <1>7, <1>8

(* A relayed vote is inserted; a broadcast block is adopted from the pool  *)
(* or dropped.                                                             *)
LEMMA PoolPeer ==
    ASSUME TypeOK, \A r \in Servers : PoolInv(r), NEW s \in Servers, NEW t \in Servers,
           PeerCall(s, t)
    PROVE  \A r \in Servers : PoolInv(r)' /\ Holds(r)' = Holds(r)
<1>1. CASE RelayVote(s, t)
  <2> DEFINE v == Head(relayVotes[s][t])
  <2>1. relayVotes[s][t] \in Seq(BlockVote) BY DEF TypeOK, ServerTypeOK
  <2>2. relayVotes[s][t] # <<>> /\ InsertVote(t, v.blk, v.voter) BY <1>1 DEF RelayVote
  <2>3. v \in BlockVote BY <2>1, <2>2, QueueType
  <2> HIDE DEF v
  <2>4. v.blk \in Blocks /\ v.voter \in Clients BY <2>3 DEF BlockVote
  <2> QED BY <2>2, <2>4, PoolInsert
<1>2. CASE SPBcastCommit(s, t)
  <2> DEFINE b == Head(bcast[s][t]).blk
  <2>1. /\ UNCHANGED mergeQ
        /\ \/ UNCHANGED <<pending, committed>>
           \/ /\ b \in pending[t]
              /\ committed' = [committed EXCEPT ![t] = @ \cup {b}]
              /\ pending' = [pending EXCEPT ![t] = @ \ {b}]
    BY <1>2 DEF SPBcastCommit
  <2>2. pending \in [Servers -> SUBSET Blocks] /\ committed \in [Servers -> SUBSET Blocks]
    BY DEF TypeOK, ServerTypeOK
  <2> HIDE DEF b
  <2>3. CASE UNCHANGED <<pending, committed>> BY <2>1, <2>3 DEF PoolInv, Holds
  <2>4. CASE /\ b \in pending[t]
             /\ committed' = [committed EXCEPT ![t] = @ \cup {b}]
             /\ pending' = [pending EXCEPT ![t] = @ \ {b}]
    <3>1. ASSUME NEW r \in Servers, r # t PROVE PoolInv(r)' /\ Holds(r)' = Holds(r)
      <4>1. pending'[r] = pending[r] /\ committed'[r] = committed[r] BY <2>2, <2>4, <3>1
      <4> QED BY <2>1, <4>1 DEF PoolInv, Holds
    <3>2. pending'[t] = pending[t] \ {b} /\ committed'[t] = committed[t] \cup {b} BY <2>2, <2>4
    <3>3. PoolInv(t)' BY <2>1, <2>4, <3>2 DEF PoolInv
    <3>4. Holds(t)' = Holds(t) BY <2>1, <2>4, <3>2 DEF Holds
    <3> QED BY <3>1, <3>3, <3>4
  <2> QED BY <2>1, <2>3, <2>4
<1> QED BY <1>1, <1>2 DEF PeerCall

(* A block is stored in a pool that does not have it yet. *)
LEMMA PoolStore ==
    ASSUME TypeOK, \A r \in Servers : PoolInv(r), NEW t \in Servers, NEW b, b \notin Holds(t),
           pending' = [pending EXCEPT ![t] = @ \cup {b}], UNCHANGED <<mergeQ, committed>>
    PROVE  /\ \A r \in Servers : PoolInv(r)'
           /\ \A r \in Servers : Holds(r)' = IF r = t THEN Holds(t) \cup {b} ELSE Holds(r)
<1>1. pending \in [Servers -> SUBSET Blocks] BY DEF TypeOK, ServerTypeOK
<1>2. ASSUME NEW r \in Servers, r # t PROVE PoolInv(r)' /\ Holds(r)' = Holds(r)
  <2>1. pending'[r] = pending[r] BY <1>1, <1>2
  <2> QED BY <2>1 DEF PoolInv, Holds
<1>3. pending'[t] = pending[t] \cup {b} BY <1>1
<1>4. PoolInv(t)' /\ Holds(t)' = Holds(t) \cup {b} BY <1>3 DEF PoolInv, Holds
<1> QED BY <1>2, <1>4

(* The parts of WayInv that depend on what servers hold, not on how. *)
WayRest ==
    /\ \A t \in Peers : WayTo(t)
    /\ \A t \in Servers : OnWay(t) \subseteq Handed(t)
    /\ CallsApart

LEMMA WayFrame ==
    ASSUME WayRest, \A t \in Servers : Holds(t)' = Holds(t),
           UNCHANGED <<relayBlocks, rb, blockCalls, pack>>
    PROVE  WayRest'
<1>1. Peers \subseteq Servers BY PeersAre
<1>2. \A t \in Servers : /\ Filling(t)' = Filling(t) /\ InCalls(t)' = InCalls(t)
                         /\ Handed(t)' = Handed(t) /\ Holds(t)' = Holds(t)
  BY DEF Filling, InCalls, Handed
<1>3. \A t \in Peers : WayTo(t)' BY <1>1, <1>2 DEF WayRest, WayTo
<1>4. \A t \in Servers : OnWay(t)' \subseteq Handed(t)' BY <1>2 DEF WayRest, OnWay
<1>5. CallsApart' BY DEF WayRest, CallsApart
<1> QED BY <1>3, <1>4, <1>5 DEF WayRest

(* The pack thread hands out a block it has not handed to that server yet. *)
LEMMA HandedStep ==
    ASSUME TypeOK, Pack
    PROVE  /\ \A t \in Servers : Handed(t) \subseteq Handed(t)'
           /\ pack.tgt \in Servers /\ pack.blk \notin Handed(pack.tgt)
           /\ pack.blk \in Blocks /\ \A t \in Servers : t = pack.tgt => pack.blk \in Handed(t)'
<1>1. pack \in [blk : FirstBlock .. (FirstBlock + MaxBlocks), tgt : Servers]
  BY DEF TypeOK, ServerTypeOK
<1>2. /\ pack.blk \in Blocks /\ pack.blk \in Nat /\ pack.tgt \in Nat /\ pack.tgt \in Servers
      /\ Blocks \subseteq Nat /\ Servers \subseteq Nat
  BY <1>1, BlockIds, PackerIsServer DEF Pack, PackPush, PackInsert
<1>3. \/ pack'.blk = pack.blk /\ pack'.tgt = pack.tgt + 1
      \/ pack'.blk = pack.blk + 1 /\ pack'.tgt = 1
  BY <1>1 DEF Pack, PackPush, PackInsert
<1>4. pack.blk \notin Handed(pack.tgt) BY <1>2 DEF Handed
<1>5. ASSUME NEW t \in Servers, NEW b \in Handed(t) PROVE b \in Handed(t)'
  <2>1. b \in Nat /\ t \in Nat /\ b \in Blocks /\ (pack.blk > b \/ (pack.blk = b /\ pack.tgt > t))
    BY <1>2 DEF Handed
  <2>2. pack'.blk > b \/ (pack'.blk = b /\ pack'.tgt > t) BY <1>2, <1>3, <2>1
  <2> QED BY <2>1, <2>2 DEF Handed
<1>6. \A t \in Servers : t = pack.tgt => pack.blk \in Handed(t)' BY <1>2, <1>3 DEF Handed
<1> QED BY <1>2, <1>4, <1>5, <1>6

LEMMA WayPack ==
    ASSUME WayInv, Pack
    PROVE  WayRest' /\ \A s \in Servers : PoolInv(s)'
<1>1. TypeOK /\ WayRest BY DEF WayInv, WayRest
<1>2. /\ \A t \in Servers : Handed(t) \subseteq Handed(t)'
      /\ pack.tgt \in Servers /\ pack.blk \notin Handed(pack.tgt)
      /\ pack.blk \in Blocks /\ \A t \in Servers : t = pack.tgt => pack.blk \in Handed(t)'
  BY <1>1, HandedStep
<1>3. UNCHANGED <<rb, blockCalls, mergeQ, committed>>
  BY DEF Pack, PackPush, PackInsert, poolVars
<1>4. /\ \A t \in Servers : Filling(t)' = Filling(t) /\ InCalls(t)' = InCalls(t)
      /\ CallsApart'
  BY <1>1, <1>3 DEF Filling, InCalls, CallsApart, WayRest
<1>5. /\ relayBlocks \in [Servers -> Seq(Blocks)]
      /\ \A t \in Servers : OnWay(t) \subseteq Handed(t)
      /\ \A t \in Peers : WayTo(t)
  BY <1>1 DEF TypeOK, ServerTypeOK, WayRest
<1>6. pack.blk \notin OnWay(pack.tgt) BY <1>2, <1>5
<1>7. CASE PackPush
  <2>1. /\ relayBlocks' = [relayBlocks EXCEPT ![pack.tgt] = Append(@, pack.blk)]
        /\ UNCHANGED pending
    BY <1>7 DEF PackPush, poolVars
  <2>2. \A s \in Servers : PoolInv(s)' /\ Holds(s)' = Holds(s)
    BY <1>3, <2>1 DEF WayInv, PoolInv, Holds
  <2>3. ASSUME NEW t \in Servers, t # pack.tgt PROVE relayBlocks'[t] = relayBlocks[t]
    BY <1>5, <2>1, <2>3
  <2>4. relayBlocks[pack.tgt] \in Seq(Blocks) BY <1>2, <1>5
  <2>5. relayBlocks'[pack.tgt] = Append(relayBlocks[pack.tgt], pack.blk) BY <1>2, <1>5, <2>1
  <2>6. pack.blk \notin Ids(relayBlocks[pack.tgt]) BY <1>6 DEF OnWay
  <2>7. /\ Ids(relayBlocks'[pack.tgt]) = Ids(relayBlocks[pack.tgt]) \cup {pack.blk}
        /\ Distinct(relayBlocks[pack.tgt]) => Distinct(relayBlocks'[pack.tgt])
    BY <1>2, <2>4, <2>5, <2>6, IdsAppend
  <2>8. ASSUME NEW t \in Peers PROVE WayTo(t)'
    <3>1. t \in Servers BY PeersAre
    <3>2. CASE t = pack.tgt BY <1>4, <1>5, <1>6, <2>2, <2>7, <3>1, <3>2 DEF WayTo, OnWay
    <3>3. CASE t # pack.tgt BY <1>4, <1>5, <2>2, <2>3, <3>1, <3>3 DEF WayTo
    <3> QED BY <3>2, <3>3
  <2>9. ASSUME NEW t \in Servers PROVE OnWay(t)' \subseteq Handed(t)'
    <3>1. CASE t = pack.tgt BY <1>2, <1>4, <1>5, <2>2, <2>7, <3>1 DEF OnWay
    <3>2. CASE t # pack.tgt BY <1>2, <1>4, <1>5, <2>2, <2>3, <3>2 DEF OnWay
    <3> QED BY <3>1, <3>2
  <2> QED BY <1>4, <2>2, <2>8, <2>9 DEF WayRest
<1>8. CASE PackInsert
  <2>1. /\ pending' = [pending EXCEPT ![Packer] = @ \cup {pack.blk}] /\ pack.tgt = Packer
        /\ UNCHANGED relayBlocks
    BY <1>8 DEF PackInsert
  <2>2. pack.blk \notin Holds(Packer) BY <1>6, <2>1 DEF OnWay
  <2>3. /\ \A r \in Servers : PoolInv(r)'
        /\ \A r \in Servers : Holds(r)' = IF r = Packer THEN Holds(Packer) \cup {pack.blk} ELSE Holds(r)
    BY <1>1, <1>3, <2>1, <2>2, PackerIsServer, PoolStore DEF WayInv
  <2>4. ASSUME NEW t \in Peers PROVE WayTo(t)'
    <3>1. t \in Servers /\ t # Packer BY DEF Peers
    <3> QED BY <1>4, <1>5, <2>1, <2>3, <3>1 DEF WayTo
  <2>5. ASSUME NEW t \in Servers PROVE OnWay(t)' \subseteq Handed(t)'
    BY <1>2, <1>4, <1>5, <2>1, <2>3 DEF OnWay
  <2> QED BY <1>4, <2>3, <2>4, <2>5 DEF WayRest
<1> QED BY <1>7, <1>8 DEF Pack

(* The relay-block thread moves blocks from a relay queue to its request,  *)
(* and the request to a call, or loses it.                                 *)
LEMMA WayRelay ==
    ASSUME WayInv, NEW d \in BOOLEAN, RelayLoop \/ RelaySend(d)
    PROVE  WayRest' /\ \A s \in Servers : PoolInv(s)'
<1>1. UNCHANGED <<pending, mergeQ, committed, pack>>
  BY DEF RelayLoop, RelaySend, RelayBlockPop, RelayBlockEmpty, RelayBlockReturn, SyncPop,
         SyncLocal, RelayBlockSend, RelayBlockSync, poolVars
<1>2. \A s \in Servers : PoolInv(s)' /\ Holds(s)' = Holds(s) /\ Handed(s)' = Handed(s)
  BY <1>1 DEF WayInv, PoolInv, Holds, Handed
<1>3. /\ rb \in [pc : {"pop", "wait", "signal"}, tgt : Servers,
                 req : Seq(Voted), blk : Blocks \cup {NoBlock}]
      /\ relayBlocks \in [Servers -> Seq(Blocks)]
      /\ votes \in [Servers -> [Blocks -> SUBSET Clients]]
  BY DEF WayInv, TypeOK, ServerTypeOK
<1>4. /\ \A t \in Peers : WayTo(t) /\ t \in Servers
      /\ \A t \in Servers : OnWay(t) \subseteq Handed(t)
      /\ CallsApart
  BY PeersAre DEF WayInv
<1>5. CASE RelayBlockPop
  <2> DEFINE b == Head(relayBlocks[rb.tgt])
             i == [blk |-> b, votes |-> votes[Packer][b]]
  <2>1. rb.pc = "pop" /\ rb.tgt \in Peers /\ relayBlocks[rb.tgt] # <<>>
    BY <1>3, <1>5, PeersAre DEF RelayBlockPop
  <2>2. rb.tgt \in Servers /\ relayBlocks[rb.tgt] \in Seq(Blocks) BY <1>3
  <2>3. b \in Blocks BY <2>1, <2>2, QueueType
  <2>4. /\ rb' = [rb EXCEPT !.req = Append(@, i)] /\ UNCHANGED blockCalls
        /\ relayBlocks' = [relayBlocks EXCEPT ![rb.tgt] = Tail(@)]
    BY <1>5 DEF RelayBlockPop
  <2>5. Distinct(relayBlocks[rb.tgt]) BY <1>4, <2>1 DEF WayTo
  <2>6. /\ Ids(relayBlocks[rb.tgt]) = Ids(Tail(relayBlocks[rb.tgt])) \cup {b}
        /\ Distinct(Tail(relayBlocks[rb.tgt])) /\ b \notin Ids(Tail(relayBlocks[rb.tgt]))
    BY <2>1, <2>2, <2>5, IdsTail
  <2> HIDE DEF b
  <2>7. i \in Voted /\ i.blk = b BY <1>3, <2>3, PackerIsServer DEF Voted
  <2> HIDE DEF i
  <2>8. Filling(rb.tgt) = BlocksOf(rb.req) BY <2>1 DEF Filling
  <2>9. b \notin BlocksOf(rb.req) BY <1>4, <2>1, <2>6, <2>8 DEF WayTo
  <2>10. rb.req \in Seq(Voted) /\ NoRepeat(rb.req) BY <1>3, <1>4 DEF CallsApart
  <2>11. /\ BlocksOf(Append(rb.req, i)) = BlocksOf(rb.req) \cup {b}
         /\ NoRepeat(Append(rb.req, i))
    BY <2>7, <2>9, <2>10, BlocksAppend
  <2>12. rb'.req = Append(rb.req, i) /\ rb'.pc = "pop" /\ rb'.tgt = rb.tgt BY <1>3, <2>1, <2>4
  <2>13. \A t \in Servers : /\ InCalls(t)' = InCalls(t)
                            /\ Filling(t)' = IF t = rb.tgt THEN Filling(t) \cup {b} ELSE {}
                            /\ t # rb.tgt => Filling(t) = {}
    BY <2>1, <2>4, <2>11, <2>12 DEF InCalls, Filling
  <2>14. \A t \in Servers :
            relayBlocks'[t] = IF t = rb.tgt THEN Tail(relayBlocks[rb.tgt]) ELSE relayBlocks[t]
    BY <1>3, <2>4
  <2>15. ASSUME NEW t \in Peers PROVE WayTo(t)'
    <3>1. t \in Servers /\ WayTo(t) BY <1>4
    <3>2. CASE t = rb.tgt
      <4>1. /\ Ids(relayBlocks'[t]) \subseteq Ids(relayBlocks[t]) /\ b \notin Ids(relayBlocks'[t])
            /\ Distinct(relayBlocks'[t]) /\ b \in Ids(relayBlocks[t])
        BY <2>6, <2>14, <3>1, <3>2
      <4>2. Filling(t)' = Filling(t) \cup {b} /\ InCalls(t)' = InCalls(t) /\ Holds(t)' = Holds(t)
        BY <1>2, <2>13, <3>1, <3>2
      <4> QED BY <3>1, <4>1, <4>2 DEF WayTo
    <3>3. CASE t # rb.tgt BY <1>2, <2>13, <2>14, <3>1, <3>3 DEF WayTo
    <3> QED BY <3>2, <3>3
  <2>16. ASSUME NEW t \in Servers PROVE OnWay(t)' \subseteq Handed(t)'
    <3>1. Ids(relayBlocks'[t]) \subseteq Ids(relayBlocks[t]) /\ (t = rb.tgt => b \in Ids(relayBlocks[t]))
      BY <2>6, <2>14
    <3>2. OnWay(t)' \subseteq OnWay(t) BY <1>2, <2>13, <3>1 DEF OnWay
    <3> QED BY <1>2, <1>4, <3>2
  <2>17. CallsApart'
    <3>1. rb.tgt # Packer BY <2>1 DEF Peers
    <3> QED BY <1>4, <2>4, <2>11, <2>12, <3>1 DEF CallsApart
  <2> QED BY <1>2, <2>15, <2>16, <2>17 DEF WayRest
<1>6. CASE RelayBlockEmpty \/ RelayBlockReturn \/ SyncPop \/ SyncLocal \/ RelayBlockSync(d)
  <2>1. UNCHANGED <<relayBlocks, blockCalls>>
    BY <1>6 DEF RelayBlockEmpty, RelayBlockReturn, SyncPop, SyncLocal, RelayBlockSync
  <2>2. rb.req = <<>> \/ rb.pc # "pop"
    BY <1>4, <1>6 DEF RelayBlockEmpty, RelayBlockReturn, SyncPop, SyncLocal, RelayBlockSync, CallsApart
  <2>3. rb'.req = <<>>
    <3>1. CASE RelayBlockReturn
      <4>1. rb' = [rb EXCEPT !.pc = "pop", !.tgt = @ + 1, !.req = <<>>] BY <3>1 DEF RelayBlockReturn
      <4> QED BY <1>3, <4>1
    <3>2. CASE RelayBlockEmpty \/ SyncPop \/ SyncLocal \/ RelayBlockSync(d)
      <4>1. rb.req = <<>>
        BY <1>4, <3>2 DEF RelayBlockEmpty, SyncPop, SyncLocal, RelayBlockSync, CallsApart
      <4>2. rb'.req = rb.req
        BY <1>3, <3>2 DEF RelayBlockEmpty, SyncPop, SyncLocal, RelayBlockSync
      <4> QED BY <4>1, <4>2
    <3> QED BY <1>6, <3>1, <3>2
  <2>4. BlocksOf(rb'.req) = {} /\ NoRepeat(rb'.req) BY <2>3, BlocksEmpty
  <2>5. rb.pc = "pop" => BlocksOf(rb.req) = {} BY <2>2, BlocksEmpty
  <2>6. \A t \in Servers : /\ Filling(t)' = {} /\ Filling(t) = {}
                           /\ InCalls(t)' = InCalls(t)
    BY <2>1, <2>4, <2>5 DEF Filling, InCalls
  <2>7. \A t \in Peers : WayTo(t)' BY <1>2, <1>4, <2>1, <2>6 DEF WayTo
  <2>8. \A t \in Servers : OnWay(t)' \subseteq Handed(t)' BY <1>2, <1>4, <2>1, <2>6 DEF OnWay
  <2>9. CallsApart' BY <1>4, <2>1, <2>3, <2>4 DEF CallsApart
  <2> QED BY <1>2, <2>7, <2>8, <2>9 DEF WayRest
<1>7. CASE RelayBlockSend(d)
  <2> DEFINE m == [dst |-> rb.tgt, live |-> TRUE, items |-> rb.req]
  <2>1. /\ rb.pc = "pop" /\ rb.tgt \in Peers /\ rb' = [rb EXCEPT !.pc = "wait"]
        /\ blockCalls' = blockCalls \/ blockCalls' = blockCalls \cup {m}
        /\ UNCHANGED relayBlocks
    BY <1>3, <1>7, PeersAre DEF RelayBlockSend
  <2>2. m.dst = rb.tgt /\ m.items = rb.req OBVIOUS
  <2> HIDE DEF m
  <2>3. rb'.pc = "wait" /\ rb'.tgt = rb.tgt /\ rb'.req = rb.req BY <1>3, <2>1
  <2>4. Filling(rb.tgt) = BlocksOf(rb.req) BY <2>1 DEF Filling
  <2>5. \A t \in Servers : Filling(t)' = {} BY <2>3 DEF Filling
  <2>6. \A t \in Servers : InCalls(t)' \subseteq InCalls(t) \cup Filling(t)
    <3> SUFFICES ASSUME NEW t \in Servers, NEW x \in InCalls(t)'
                 PROVE  x \in InCalls(t) \cup Filling(t)
      OBVIOUS
    <3>1. PICK n \in blockCalls' : n.dst = t /\ x \in BlocksOf(n.items) BY DEF InCalls
    <3>2. CASE n \in blockCalls BY <3>1, <3>2 DEF InCalls
    <3>3. CASE n = m BY <2>2, <2>4, <3>1, <3>3
    <3> QED BY <2>1, <3>2, <3>3
  <2>7. ASSUME NEW t \in Peers PROVE WayTo(t)'
    <3>1. t \in Servers /\ WayTo(t) BY <1>4
    <3>2. /\ InCalls(t)' \subseteq InCalls(t) \cup Filling(t) /\ Filling(t)' = {}
          /\ Holds(t)' = Holds(t) /\ relayBlocks'[t] = relayBlocks[t]
      BY <1>2, <2>1, <2>5, <2>6, <3>1
    <3> QED BY <3>1, <3>2 DEF WayTo
  <2>8. ASSUME NEW t \in Servers PROVE OnWay(t)' \subseteq Handed(t)'
    <3>1. OnWay(t)' \subseteq OnWay(t) BY <1>2, <2>1, <2>5, <2>6 DEF OnWay
    <3> QED BY <1>2, <1>4, <3>1
  <2>9. CallsApart'
    <3>1. rb.tgt # Packer BY <2>1 DEF Peers
    <3>2. \A n \in blockCalls' : n.dst \in Peers /\ NoRepeat(n.items)
      BY <1>4, <2>1, <2>2 DEF CallsApart
    <3>3. ASSUME NEW n \in blockCalls, n.dst = rb.tgt
          PROVE  BlocksOf(n.items) \cap BlocksOf(rb.req) = {}
      <4>1. BlocksOf(n.items) \subseteq InCalls(rb.tgt) BY <3>3 DEF InCalls
      <4>2. Filling(rb.tgt) \cap InCalls(rb.tgt) = {} BY <1>4, <2>1 DEF WayTo
      <4> QED BY <2>4, <4>1, <4>2
    <3>4. ASSUME NEW n \in blockCalls', NEW k \in blockCalls', n # k, n.dst = k.dst
          PROVE  BlocksOf(n.items) \cap BlocksOf(k.items) = {}
      <4>1. CASE n \in blockCalls /\ k \in blockCalls BY <1>4, <3>4, <4>1 DEF CallsApart
      <4>2. CASE n = m /\ k \in blockCalls
        <5>1. BlocksOf(k.items) \cap BlocksOf(rb.req) = {} BY <2>2, <3>3, <3>4, <4>2
        <5> QED BY <2>2, <4>2, <5>1
      <4>3. CASE k = m /\ n \in blockCalls
        <5>1. BlocksOf(n.items) \cap BlocksOf(rb.req) = {} BY <2>2, <3>3, <3>4, <4>3
        <5> QED BY <2>2, <4>3, <5>1
      <4> QED BY <2>1, <3>4, <4>1, <4>2, <4>3
    <3> QED BY <1>4, <2>3, <3>1, <3>2, <3>4 DEF CallsApart
  <2> QED BY <1>2, <2>7, <2>8, <2>9 DEF WayRest
<1> QED BY <1>5, <1>6, <1>7 DEF RelayLoop, RelaySend

(* A call of which the handler has done a part, or that is abandoned. *)
LEMMA CallsReplace ==
    ASSUME CallsApart, UNCHANGED rb, NEW m \in blockCalls, NEW k,
           k.dst = m.dst, BlocksOf(k.items) \subseteq BlocksOf(m.items), NoRepeat(k.items),
           blockCalls' \subseteq (blockCalls \ {m}) \cup {k}
    PROVE  CallsApart'
<1>1. \A n \in blockCalls' : n.dst \in Peers /\ NoRepeat(n.items) BY DEF CallsApart
<1>2. ASSUME NEW n \in blockCalls, n # m, n.dst = m.dst
      PROVE  BlocksOf(n.items) \cap BlocksOf(k.items) = {}
  BY <1>2 DEF CallsApart
<1>3. ASSUME NEW n \in blockCalls', NEW l \in blockCalls', n # l, n.dst = l.dst
      PROVE  BlocksOf(n.items) \cap BlocksOf(l.items) = {}
  <2>1. CASE n \in blockCalls \ {m} /\ l \in blockCalls \ {m} BY <1>3, <2>1 DEF CallsApart
  <2>2. CASE n = k /\ l \in blockCalls \ {m}
    <3>1. BlocksOf(l.items) \cap BlocksOf(k.items) = {} BY <1>2, <1>3, <2>2
    <3> QED BY <2>2, <3>1
  <2>3. CASE l = k /\ n \in blockCalls \ {m} BY <1>2, <1>3, <2>3
  <2> QED BY <1>3, <2>1, <2>2, <2>3
<1> QED BY <1>1, <1>3 DEF CallsApart

(* The handler of RelayBlock stores a block that its server does not hold. *)
LEMMA WayHandle ==
    ASSUME WayInv, HandleBlock
    PROVE  WayRest' /\ \A s \in Servers : PoolInv(s)'
<1>1. TypeOK /\ CallsApart /\ \A t \in Peers : WayTo(t) BY DEF WayInv
<1>2. PICK m \in blockCalls : RelayBlockHandler(m) /\ UNCHANGED <<clientVars, faults>>
  BY DEF HandleBlock
<1> DEFINE b == Head(m.items).blk
           k == [m EXCEPT !.items = Tail(@)]
<1>3. /\ m \in BlockCall /\ m.items \in Seq(Voted) /\ m.items # <<>>
      /\ m.dst \in Peers /\ m.dst \in Servers /\ NoRepeat(m.items)
  BY <1>1, BlockCallType, PeersAre DEF TypeOK, ServerTypeOK, CallsApart
<1>4. k.items = Tail(m.items) /\ k.dst = m.dst BY <1>3 DEF BlockCall
<1>5. /\ BlocksOf(m.items) = BlocksOf(Tail(m.items)) \cup {b}
      /\ NoRepeat(Tail(m.items)) /\ b \notin BlocksOf(Tail(m.items))
      /\ Len(m.items) = 1 => BlocksOf(m.items) = {b}
  BY <1>3, BlocksTail
<1>6. /\ pending' = [pending EXCEPT ![m.dst] = @ \cup {b}]
      /\ blockCalls' = (blockCalls \ {m}) \cup (IF Len(m.items) = 1 THEN {} ELSE {k})
      /\ UNCHANGED <<mergeQ, committed, relayBlocks, pack, rb>>
  BY <1>2 DEF RelayBlockHandler, Served, packVars
<1> HIDE DEF b, k
<1>7. b \in InCalls(m.dst) BY <1>5 DEF InCalls
<1>8. b \notin Holds(m.dst) BY <1>1, <1>3, <1>7 DEF WayTo
<1>9. /\ \A r \in Servers : PoolInv(r)'
      /\ \A r \in Servers : Holds(r)' = IF r = m.dst THEN Holds(m.dst) \cup {b} ELSE Holds(r)
  BY <1>1, <1>3, <1>6, <1>8, PoolStore DEF WayInv
<1>10. CallsApart' BY <1>1, <1>4, <1>5, <1>6, CallsReplace
<1>11. \A r \in Servers : InCalls(r)' \subseteq InCalls(r)
  <2> SUFFICES ASSUME NEW r \in Servers, NEW x \in InCalls(r)' PROVE x \in InCalls(r)
    OBVIOUS
  <2>1. PICK n \in blockCalls' : n.dst = r /\ x \in BlocksOf(n.items) BY DEF InCalls
  <2>2. CASE n \in blockCalls BY <2>1, <2>2 DEF InCalls
  <2>3. CASE n = k
    <3>1. m.dst = r /\ x \in BlocksOf(m.items) BY <1>4, <1>5, <2>1, <2>3
    <3> QED BY <3>1 DEF InCalls
  <2> QED BY <1>6, <2>2, <2>3
<1>12. ASSUME b \in InCalls(m.dst)' PROVE FALSE
  <2>1. PICK n \in blockCalls' : n.dst = m.dst /\ b \in BlocksOf(n.items)
    <3>1. PICK r \in Servers : r = m.dst BY <1>3
    <3>2. b \in InCalls(r)' BY <1>12, <3>1 DEF InCalls
    <3> QED BY <3>1, <3>2 DEF InCalls
  <2>2. CASE n \in blockCalls \ {m}
    <3>1. BlocksOf(n.items) \cap BlocksOf(m.items) = {} BY <1>1, <2>1, <2>2 DEF CallsApart
    <3> QED BY <1>5, <2>1, <3>1
  <2>3. CASE n = k BY <1>4, <1>5, <2>1, <2>3
  <2> QED BY <1>6, <2>2, <2>3
<1>13. \A t \in Servers : Filling(t)' = Filling(t) /\ Handed(t)' = Handed(t) BY <1>6 DEF Filling, Handed
<1>14. ASSUME NEW t \in Peers PROVE WayTo(t)'
  <2>1. t \in Servers /\ WayTo(t) BY <1>1, PeersAre
  <2>2. /\ InCalls(t)' \subseteq InCalls(t) /\ Filling(t)' = Filling(t)
        /\ relayBlocks'[t] = relayBlocks[t]
    BY <1>6, <1>11, <1>13, <2>1
  <2>3. CASE t = m.dst
    <3>1. Holds(t)' = Holds(t) \cup {b} /\ b \in InCalls(t) /\ b \notin InCalls(t)'
      BY <1>7, <1>9, <1>12, <2>1, <2>3
    <3> QED BY <2>1, <2>2, <3>1 DEF WayTo
  <2>4. CASE t # m.dst
    <3>1. Holds(t)' = Holds(t) BY <1>9, <2>1, <2>4
    <3> QED BY <2>1, <2>2, <3>1 DEF WayTo
  <2> QED BY <2>3, <2>4
<1>15. ASSUME NEW t \in Servers PROVE OnWay(t)' \subseteq Handed(t)'
  <2>1. OnWay(t)' \subseteq OnWay(t) BY <1>6, <1>7, <1>9, <1>11, <1>13 DEF OnWay
  <2> QED BY <1>13, <2>1 DEF WayInv
<1> QED BY <1>9, <1>10, <1>14, <1>15 DEF WayRest

(* Abandoning a call takes nothing from its handler. *)
LEMMA AbandonKeeps ==
    ASSUME TypeOK, NEW m \in blockCalls, Abandon(m)
    PROVE  \A t \in Servers : InCalls(t)' = InCalls(t)
<1> DEFINE k == [m EXCEPT !.live = FALSE]
<1>1. m \in BlockCall BY DEF TypeOK, ServerTypeOK
<1>2. k.dst = m.dst /\ k.items = m.items BY <1>1 DEF BlockCall
<1>3. blockCalls' = (blockCalls \ {m}) \cup {k} BY DEF Abandon
<1> HIDE DEF k
<1> SUFFICES ASSUME NEW t \in Servers, NEW x PROVE x \in InCalls(t)' <=> x \in InCalls(t)
  OBVIOUS
<1>4. x \in InCalls(t)' <=> \E n \in blockCalls' : n.dst = t /\ x \in BlocksOf(n.items)
  BY DEF InCalls
<1>5. x \in InCalls(t) <=> \E n \in blockCalls : n.dst = t /\ x \in BlocksOf(n.items)
  BY DEF InCalls
<1> QED BY <1>2, <1>3, <1>4, <1>5

(* A failing call takes no block from a handler that is running. *)
LEMMA WayFails ==
    ASSUME WayInv, CallFails
    PROVE  WayRest' /\ \A s \in Servers : PoolInv(s)'
<1>1. UNCHANGED <<pending, mergeQ, committed, relayBlocks, rb, pack>>
  BY DEF CallFails, Abandon, RelayVoteFails, SPBcastCommitFails, poolVars, packVars
<1>2. \A s \in Servers : PoolInv(s)' /\ Holds(s)' = Holds(s) /\ Handed(s)' = Handed(s)
  BY <1>1 DEF WayInv, PoolInv, Holds, Handed
<1>3. CASE UNCHANGED blockCalls BY <1>1, <1>2, <1>3, WayFrame DEF WayInv, WayRest
<1>4. ASSUME NEW m \in blockCalls, Abandon(m) PROVE WayRest'
  <2> DEFINE k == [m EXCEPT !.live = FALSE]
  <2>1. m \in BlockCall BY DEF WayInv, TypeOK, ServerTypeOK
  <2>2. k.dst = m.dst /\ k.items = m.items BY <2>1 DEF BlockCall
  <2>3. blockCalls' = (blockCalls \ {m}) \cup {k} BY <1>4 DEF Abandon
  <2> HIDE DEF k
  <2>4. CallsApart /\ NoRepeat(m.items) BY DEF WayInv, CallsApart
  <2>5. CallsApart' BY <1>1, <2>2, <2>3, <2>4, CallsReplace
  <2>6. \A t \in Servers : InCalls(t)' = InCalls(t) BY <1>4, AbandonKeeps DEF WayInv
  <2>7. \A t \in Servers : Filling(t)' = Filling(t) BY <1>1 DEF Filling
  <2>8. \A t \in Peers : WayTo(t)' BY <1>1, <1>2, <2>6, <2>7, PeersAre DEF WayInv, WayTo
  <2>9. \A t \in Servers : OnWay(t)' \subseteq Handed(t)'
    BY <1>1, <1>2, <2>6, <2>7 DEF WayInv, OnWay
  <2> QED BY <2>5, <2>8, <2>9 DEF WayRest
<1> QED BY <1>2, <1>3, <1>4 DEF CallFails, RelayVoteFails, SPBcastCommitFails

(* The steps of clients, and the handlers of their calls. *)
LEMMA WayClient ==
    ASSUME WayInv, NEW c \in Clients, NEW d \in BOOLEAN,
           VoteSteps(c) \/ VoteFails(c) \/ PullSteps(c, d) \/ PullFails(c)
    PROVE  /\ UNCHANGED <<relayBlocks, rb, blockCalls, pack>>
           /\ \A s \in Servers : PoolInv(s)' /\ Holds(s)' = Holds(s)
<1>1. UNCHANGED <<relayBlocks, rb, blockCalls, pack>>
  BY DEF VoteSteps, VoteFails, VoteBlocksRelay, VoteBlocksInsert, PullSteps, PullFails,
         PullSnapshot, PullVisit, GetVisit, serverVars, packVars
<1>2. CASE UNCHANGED <<pending, mergeQ, committed>> BY <1>1, <1>2 DEF WayInv, PoolInv, Holds
<1>3. CASE VoteBlocksInsert(c)
  <2>1. /\ got \in [Clients -> Seq(Blocks)]
        /\ vote \in [Clients -> [stub : {0, 1}, inserting : BOOLEAN]]
        /\ \A e \in Clients : vote[e].inserting => got[e] # <<>>
    BY DEF WayInv, TypeOK, ClientTypeOK
  <2>2. Head(got[c]) \in Blocks BY <1>3, <2>1, QueueType DEF VoteBlocksInsert
  <2>3. VoteStub(c) \in Servers BY <2>1, StubIsServer DEF VoteStub
  <2> QED BY <1>1, <1>3, <2>2, <2>3, PoolInsert DEF WayInv, VoteBlocksInsert
<1> QED BY <1>2, <1>3 DEF VoteSteps, VoteFails, VoteBlocksRelay, PullSteps, PullFails,
           PullSnapshot, PullVisit, GetVisit, serverVars, poolVars

LEMMA WayNext == WayInv /\ [Next]_vars => WayInv'
<1> SUFFICES ASSUME WayInv, [Next]_vars PROVE WayInv' OBVIOUS
<1>1. TypeOK' BY NextType DEF WayInv
<1>2. TypeOK /\ WayRest /\ \A s \in Servers : PoolInv(s) BY DEF WayInv, WayRest
<1>3. CASE Pack BY <1>1, <1>3, WayPack DEF WayInv, WayRest
<1>4. ASSUME NEW d \in BOOLEAN, RelayLoop \/ RelaySend(d) PROVE WayInv'
  BY <1>1, <1>4, WayRelay DEF WayInv, WayRest
<1>5. CASE HandleBlock BY <1>1, <1>5, WayHandle DEF WayInv, WayRest
<1>6. CASE CallFails BY <1>1, <1>6, WayFails DEF WayInv, WayRest
<1>7. ASSUME NEW s \in Servers, NEW t \in Servers, Merge(s) \/ PeerCall(s, t) PROVE WayInv'
  <2>1. UNCHANGED <<relayBlocks, rb, blockCalls, pack>>
    BY <1>7 DEF Merge, MergeVotes, PeerCall, RelayVote, SPBcastCommit, packVars
  <2>2. \A r \in Servers : PoolInv(r)' /\ Holds(r)' = Holds(r) BY <1>2, <1>7, PoolMerge, PoolPeer
  <2>3. WayRest' BY <1>2, <2>1, <2>2, WayFrame
  <2> QED BY <1>1, <2>2, <2>3 DEF WayInv, WayRest
<1>8. ASSUME NEW c \in Clients, NEW d \in BOOLEAN,
             VoteSteps(c) \/ VoteFails(c) \/ PullSteps(c, d) \/ PullFails(c)
      PROVE  WayInv'
  <2>1. /\ UNCHANGED <<relayBlocks, rb, blockCalls, pack>>
        /\ \A s \in Servers : PoolInv(s)' /\ Holds(s)' = Holds(s)
    BY <1>8, WayClient
  <2>2. WayRest' BY <1>2, <2>1, WayFrame
  <2> QED BY <1>1, <2>1, <2>2 DEF WayInv, WayRest
<1>9. CASE UNCHANGED vars
  <2>1. UNCHANGED <<relayBlocks, rb, blockCalls, pack, pending, mergeQ, committed>>
    BY <1>9 DEF vars, serverVars, poolVars, packVars
  <2>2. \A r \in Servers : PoolInv(r)' /\ Holds(r)' = Holds(r) BY <1>2, <2>1 DEF PoolInv, Holds
  <2>3. WayRest' BY <1>2, <2>1, <2>2, WayFrame
  <2> QED BY <1>1, <2>2, <2>3 DEF WayInv, WayRest
<1>10. TRUE \in BOOLEAN OBVIOUS
<1> QED BY <1>3, <1>4, <1>5, <1>6, <1>7, <1>8, <1>9, <1>10 DEF Next

LEMMA WayInit == Init => WayInv
<1> SUFFICES ASSUME Init PROVE WayInv OBVIOUS
<1>1. \A s \in Servers : /\ pending[s] = {} /\ committed[s] = {} /\ mergeQ[s] = <<>>
                         /\ relayBlocks[s] = <<>>
  BY DEF Init, ServerInit
<1>2. rb.req = <<>> /\ blockCalls = {} BY DEF Init, ServerInit
<1>3. BlocksOf(rb.req) = {} /\ NoRepeat(rb.req) BY <1>2, BlocksEmpty
<1>4. \A s \in Servers : /\ BlocksOf(mergeQ[s]) = {} /\ NoRepeat(mergeQ[s])
                         /\ Ids(relayBlocks[s]) = {} /\ Distinct(relayBlocks[s])
  BY <1>1, BlocksEmpty, IdsEmpty
<1>5. \A s \in Servers : PoolInv(s) /\ Holds(s) = {} BY <1>1, <1>4 DEF PoolInv, Holds
<1>6. \A t \in Servers : Filling(t) = {} /\ InCalls(t) = {} BY <1>2, <1>3 DEF Filling, InCalls
<1>7. \A t \in Servers : WayTo(t) /\ OnWay(t) = {} BY <1>4, <1>5, <1>6 DEF WayTo, OnWay
<1>8. CallsApart BY <1>2, <1>3 DEF CallsApart
<1> QED BY <1>5, <1>7, <1>8, InitType, PeersAre DEF WayInv

(* At every server a block is in one of pending_blks, pb_merge_queue and   *)
(* committed_blks, and in the queue once: a relayed block is stored at     *)
(* most once (RelayBlock of the peers), before it has been merged or       *)
(* adopted, so that no block comes back to pending_blks.                   *)
THEOREM OneStageAtATime == Spec => []OneLifecycleStage
<1>1. WayInv => OneLifecycleStage
  <2> SUFFICES ASSUME WayInv, NEW s \in Servers
               PROVE  /\ pending[s] \cap committed[s] = {}
                      /\ BlocksOf(mergeQ[s]) \cap (pending[s] \cup committed[s]) = {}
                      /\ Cardinality(BlocksOf(mergeQ[s])) = Len(mergeQ[s])
    BY DEF OneLifecycleStage
  <2>1. PoolInv(s) /\ mergeQ[s] \in Seq(Voted) BY DEF WayInv, TypeOK, ServerTypeOK
  <2> QED BY <2>1, BlocksCounted DEF PoolInv
<1> QED BY <1>1, WayInit, WayNext, PTL DEF Spec

(* No step takes a block from a server. *)
LEMMA HoldsGrow ==
    ASSUME WayInv, [Next]_vars
    PROVE  \A s \in Servers : Holds(s) \subseteq Holds(s)'
<1>1. TypeOK /\ \A s \in Servers : PoolInv(s) BY DEF WayInv
<1>2. pending \in [Servers -> SUBSET Blocks] BY <1>1 DEF TypeOK, ServerTypeOK
<1>3. CASE /\ UNCHANGED <<mergeQ, committed>>
           /\ \A s \in Servers : pending[s] \subseteq pending'[s]
  BY <1>3 DEF Holds
<1>4. CASE Pack
  BY <1>2, <1>3, <1>4 DEF Pack, PackPush, PackInsert, poolVars
<1>5. CASE HandleBlock
  BY <1>2, <1>3, <1>5 DEF HandleBlock, RelayBlockHandler
<1>6. CASE RelayLoop \/ CallFails \/ UNCHANGED vars \/ \E d \in BOOLEAN : RelaySend(d)
  BY <1>3, <1>6 DEF RelayLoop, RelaySend, RelayBlockPop, RelayBlockEmpty, RelayBlockReturn, SyncPop,
     SyncLocal, RelayBlockSend, RelayBlockSync, CallFails, Abandon, RelayVoteFails,
     SPBcastCommitFails, vars, serverVars, poolVars
<1>7. ASSUME NEW s \in Servers, NEW t \in Servers, Merge(s) \/ PeerCall(s, t)
      PROVE  \A r \in Servers : Holds(r) \subseteq Holds(r)'
  BY <1>1, <1>7, PoolMerge, PoolPeer
<1>8. ASSUME NEW c \in Clients, NEW d \in BOOLEAN,
             VoteSteps(c) \/ VoteFails(c) \/ PullSteps(c, d) \/ PullFails(c)
      PROVE  \A r \in Servers : Holds(r) \subseteq Holds(r)'
  BY <1>8, WayClient
<1>9. TRUE \in BOOLEAN OBVIOUS
<1> QED BY <1>4, <1>5, <1>6, <1>7, <1>8, <1>9 DEF Next

(* What waits to be merged is merged, and what is committed stays so. *)
LEMMA StagesGrow ==
    ASSUME WayInv, [Next]_vars
    PROVE  \A s \in Servers : /\ committed[s] \subseteq committed'[s]
                              /\ BlocksOf(mergeQ[s]) \subseteq BlocksOf(mergeQ'[s]) \cup committed'[s]
<1>1. /\ committed \in [Servers -> SUBSET Blocks] /\ mergeQ \in [Servers -> Seq(Voted)]
      /\ votes \in [Servers -> [Blocks -> SUBSET Clients]]
  BY DEF WayInv, TypeOK, ServerTypeOK
<1>2. CASE UNCHANGED <<mergeQ, committed>> BY <1>2
<1>3. ASSUME NEW s \in Servers, NEW b \in Blocks, NEW c \in Clients, InsertVote(s, b, c)
      PROVE  /\ UNCHANGED committed
             /\ \A r \in Servers : BlocksOf(mergeQ[r]) \subseteq BlocksOf(mergeQ'[r])
  <2> DEFINE i == [blk |-> b, votes |-> votes[s][b] \cup {c}]
  <2>1. i \in Voted BY <1>1 DEF Voted
  <2>2. /\ UNCHANGED committed
        /\ mergeQ' = mergeQ \/ mergeQ' = [mergeQ EXCEPT ![s] = Append(@, i)]
    BY <1>3 DEF InsertVote, AddVote
  <2> HIDE DEF i
  <2>3. BlocksOf(Append(mergeQ[s], i)) = BlocksOf(mergeQ[s]) \cup {i.blk}
    BY <1>1, <2>1, BlocksAppend
  <2>4. \A r \in Servers : mergeQ'[r] = mergeQ[r] \/ (r = s /\ mergeQ'[r] = Append(mergeQ[s], i))
    BY <1>1, <2>2
  <2> QED BY <2>2, <2>3, <2>4
<1>4. ASSUME NEW s \in Servers, Merge(s)
      PROVE  \A r \in Servers : /\ committed[r] \subseteq committed'[r]
                                /\ BlocksOf(mergeQ[r]) \subseteq BlocksOf(mergeQ'[r]) \cup committed'[r]
  <2>1. /\ mergeQ[s] # <<>> /\ mergeQ' = [mergeQ EXCEPT ![s] = Tail(@)]
        /\ committed' = [committed EXCEPT ![s] = @ \cup {Head(mergeQ[s]).blk}]
    BY <1>4 DEF Merge, MergeVotes
  <2>2. BlocksOf(mergeQ[s]) = BlocksOf(Tail(mergeQ[s])) \cup {Head(mergeQ[s]).blk}
    BY <1>1, <2>1, BlocksTail
  <2>3. ASSUME NEW r \in Servers, r # s
        PROVE  committed'[r] = committed[r] /\ mergeQ'[r] = mergeQ[r]
    BY <1>1, <2>1, <2>3
  <2>4. /\ committed'[s] = committed[s] \cup {Head(mergeQ[s]).blk}
        /\ mergeQ'[s] = Tail(mergeQ[s])
    BY <1>1, <2>1
  <2> QED BY <2>2, <2>3, <2>4
<1>5. ASSUME NEW s \in Servers, NEW t \in Servers, PeerCall(s, t)
      PROVE  \A r \in Servers : /\ committed[r] \subseteq committed'[r]
                                /\ BlocksOf(mergeQ[r]) \subseteq BlocksOf(mergeQ'[r])
  <2>1. CASE RelayVote(s, t)
    <3>1. Head(relayVotes[s][t]) \in BlockVote
      BY <2>1, QueueType DEF RelayVote, WayInv, TypeOK, ServerTypeOK
    <3>2. Head(relayVotes[s][t]).blk \in Blocks /\ Head(relayVotes[s][t]).voter \in Clients
      BY <3>1 DEF BlockVote
    <3> QED BY <1>3, <2>1, <3>2 DEF RelayVote
  <2>2. CASE SPBcastCommit(s, t)
    <3>1. /\ mergeQ' = mergeQ
          /\ \/ committed' = committed
             \/ committed' = [committed EXCEPT ![t] = @ \cup {Head(bcast[s][t]).blk}]
      BY <2>2 DEF SPBcastCommit
    <3>2. \A r \in Servers : committed[r] \subseteq committed'[r] BY <1>1, <3>1
    <3> QED BY <3>1, <3>2
  <2> QED BY <1>5, <2>1, <2>2 DEF PeerCall
<1>6. ASSUME NEW c \in Clients, VoteBlocksInsert(c)
      PROVE  /\ UNCHANGED committed
             /\ \A r \in Servers : BlocksOf(mergeQ[r]) \subseteq BlocksOf(mergeQ'[r])
  <2>1. /\ got \in [Clients -> Seq(Blocks)]
        /\ vote \in [Clients -> [stub : {0, 1}, inserting : BOOLEAN]]
        /\ \A e \in Clients : vote[e].inserting => got[e] # <<>>
    BY DEF WayInv, TypeOK, ClientTypeOK
  <2>2. Head(got[c]) \in Blocks BY <1>6, <2>1, QueueType DEF VoteBlocksInsert
  <2>3. VoteStub(c) \in Servers BY <2>1, StubIsServer DEF VoteStub
  <2> QED BY <1>3, <1>6, <2>2, <2>3 DEF VoteBlocksInsert
<1>7. \/ UNCHANGED <<mergeQ, committed>>
      \/ \E s \in Servers : Merge(s)
      \/ \E s \in Servers : \E t \in Servers : PeerCall(s, t)
      \/ \E c \in Clients : VoteBlocksInsert(c)
  BY DEF Next, Pack, PackPush, PackInsert, RelayLoop, RelaySend, RelayBlockPop, RelayBlockEmpty,
     RelayBlockReturn, SyncPop, SyncLocal, RelayBlockSend, RelayBlockSync, HandleBlock,
     RelayBlockHandler, CallFails, Abandon, RelayVoteFails, SPBcastCommitFails, VoteSteps,
     VoteFails, VoteBlocksRelay, PullSteps, PullFails, PullSnapshot, PullVisit, GetVisit, vars,
     serverVars, poolVars
<1> QED BY <1>2, <1>4, <1>5, <1>6, <1>7

(* Every block a server has stored moves on through pending_blks,          *)
(* pb_merge_queue and committed_blks and is never lost on the way, and a   *)
(* block that has left pending_blks (VoteBlocks, RelayVote, SPBcastCommit) *)
(* never comes back to it by a late RelayBlock.                            *)
THEOREM StagesGoForward == Spec => StagesForward
<1>1. ASSUME WayInv, [Next]_vars
      PROVE  \A s \in Servers :
                /\ Holds(s) \subseteq Holds(s)'
                /\ committed[s] \subseteq committed'[s]
                /\ pending'[s] \cap (BlocksOf(mergeQ[s]) \cup committed[s]) = {}
  <2>1. WayInv' BY <1>1, WayNext
  <2>2. \A s \in Servers : PoolInv(s)' BY <2>1 DEF WayInv
  <2>3. \A s \in Servers : /\ committed[s] \subseteq committed'[s]
                           /\ BlocksOf(mergeQ[s]) \subseteq BlocksOf(mergeQ'[s]) \cup committed'[s]
    BY <1>1, StagesGrow
  <2>4. \A s \in Servers : pending'[s] \cap (BlocksOf(mergeQ[s]) \cup committed[s]) = {}
    BY <2>2, <2>3 DEF PoolInv
  <2> QED BY <1>1, <2>3, <2>4, HoldsGrow
<1>2. WayInv /\ [Next]_vars =>
        [\A s \in Servers :
                /\ Holds(s) \subseteq Holds(s)'
                /\ committed[s] \subseteq committed'[s]
                /\ pending'[s] \cap (BlocksOf(mergeQ[s]) \cup committed[s]) = {}]_vars
  BY <1>1
<1> QED BY <1>2, WayInit, WayNext, PTL DEF Spec, StagesForward

-----------------------------------------------------------------------------
(* A labelled block has been relayed *)

(* The blocks that have left the relay queue of t. *)
Left(t) == Handed(t) \ Ids(relayBlocks[t])

(* The blocks whose sync signal has been sent, is being sent or waits. *)
Sent ==
    (UNION {labels[s] : s \in Servers}) \cup Ids(syncQ)
      \cup {b \in Blocks : rb.pc = "signal" /\ b = rb.blk}

(* The blocks relayed to, and those stored at, some peer. *)
LeftSome == UNION {Left(t) : t \in Peers}
HeldSome == UNION {Holds(t) : t \in Peers}

SentInv == WayInv /\ Sent \subseteq LeftSome /\ BlocksOf(rb.req) \subseteq LeftSome

(* As long as no call has failed, a signal waits for its call to be over. *)
StoredInv ==
    /\ WayInv
    /\ faults = 0 =>
          /\ Sent \subseteq HeldSome
          /\ \A m \in blockCalls : m.live
          /\ \A t \in Servers :
                rb.pc = "wait" /\ rb.tgt = t => BlocksOf(rb.req) \subseteq Holds(t) \cup InCalls(t)

LEMMA IdsConcat ==
    ASSUME NEW S, NEW q \in Seq(S), NEW r \in Seq(S)
    PROVE  Ids(q \o r) \subseteq Ids(q) \cup Ids(r)
<1>1. Len(q \o r) = Len(q) + Len(r) /\ Len(q) \in Nat /\ Len(r) \in Nat OBVIOUS
<1>2. \A i \in 1 .. Len(q \o r) : (q \o r)[i] = IF i <= Len(q) THEN q[i] ELSE r[i - Len(q)]
  OBVIOUS
<1>3. \A i \in 1 .. Len(q) + Len(r) : i \in 1 .. Len(q) \/ i - Len(q) \in 1 .. Len(r) BY <1>1
<1> SUFFICES ASSUME NEW i \in 1 .. Len(q \o r) PROVE (q \o r)[i] \in Ids(q) \cup Ids(r)
  BY DEF Ids
<1>4. CASE i <= Len(q)
  <2>1. i \in 1 .. Len(q) /\ (q \o r)[i] = q[i] BY <1>1, <1>2, <1>4
  <2> QED BY <2>1 DEF Ids
<1>5. CASE ~(i <= Len(q))
  <2>1. i - Len(q) \in 1 .. Len(r) /\ (q \o r)[i] = r[i - Len(q)] BY <1>1, <1>2, <1>5
  <2> QED BY <2>1 DEF Ids
<1> QED BY <1>4, <1>5

(* Only the return of a RelayBlock call adds signals: those of its request. *)
LEMMA SentStep ==
    ASSUME TypeOK, [Next]_vars
    PROVE  \/ Sent' \subseteq Sent
           \/ RelayLoop /\ RelayBlockReturn /\ Sent' \subseteq Sent \cup BlocksOf(rb.req)
<1>1. /\ rb \in [pc : {"pop", "wait", "signal"}, tgt : Servers,
                 req : Seq(Voted), blk : Blocks \cup {NoBlock}]
      /\ rb.pc = "signal" => rb.blk \in Blocks
      /\ labels \in [Servers -> SUBSET Blocks] /\ syncQ \in Seq(Blocks)
  BY DEF TypeOK, ServerTypeOK
<1>2. CASE UNCHANGED <<labels, syncQ>> /\ (rb'.pc = "signal" => rb.pc = "signal" /\ rb'.blk = rb.blk)
  BY <1>2 DEF Sent
<1>3. CASE Pack \/ HandleBlock \/ CallFails \/ UNCHANGED vars
  BY <1>2, <1>3 DEF Pack, PackPush, PackInsert, HandleBlock, RelayBlockHandler, CallFails, Abandon,
     RelayVoteFails, SPBcastCommitFails, vars, serverVars, labelVars, packVars
<1>4. ASSUME NEW s \in Servers, NEW t \in Servers, Merge(s) \/ PeerCall(s, t)
      PROVE  Sent' \subseteq Sent
  <2>1. UNCHANGED <<labels, syncQ, rb>>
    BY <1>4 DEF Merge, MergeVotes, PeerCall, RelayVote, SPBcastCommit, labelVars, packVars
  <2> QED BY <2>1 DEF Sent
<1>5. ASSUME NEW c \in Clients, NEW d \in BOOLEAN,
             VoteSteps(c) \/ VoteFails(c) \/ PullSteps(c, d) \/ PullFails(c)
      PROVE  Sent' \subseteq Sent
  <2>1. UNCHANGED <<labels, syncQ, rb>>
    BY <1>5 DEF VoteSteps, VoteFails, VoteBlocksRelay, VoteBlocksInsert, PullSteps, PullFails,
       PullSnapshot, PullVisit, GetVisit, serverVars, labelVars, packVars
  <2> QED BY <2>1 DEF Sent
<1>6. ASSUME NEW d \in BOOLEAN, RelayLoop \/ RelaySend(d)
      PROVE  \/ Sent' \subseteq Sent
             \/ RelayLoop /\ RelayBlockReturn /\ Sent' \subseteq Sent \cup BlocksOf(rb.req)
  <2>1. CASE RelayBlockPop \/ RelayBlockEmpty \/ RelayBlockSend(d)
    <3>1. UNCHANGED <<labels, syncQ>> /\ rb'.pc # "signal"
      BY <1>1, <2>1 DEF RelayBlockPop, RelayBlockEmpty, RelayBlockSend, labelVars
    <3> QED BY <3>1 DEF Sent
  <2>2. CASE RelayBlockReturn
    <3> DEFINE ids == [i \in 1 .. Len(rb.req) |-> rb.req[i].blk]
    <3>1. /\ UNCHANGED labels /\ syncQ' = syncQ \o ids /\ rb'.pc = "pop"
      BY <1>1, <2>2 DEF RelayBlockReturn, labelVars
    <3>2. ids \in Seq(Blocks) BY <1>1, IdsType
    <3>3. Ids(ids) = BlocksOf(rb.req)
      <4>1. Len(ids) = Len(rb.req) BY <1>1
      <4> QED BY <4>1 DEF Ids, BlocksOf
    <3> HIDE DEF ids
    <3>4. Ids(syncQ') \subseteq Ids(syncQ) \cup BlocksOf(rb.req)
      BY <1>1, <3>1, <3>2, <3>3, IdsConcat
    <3>5. Sent' \subseteq Sent \cup BlocksOf(rb.req) BY <3>1, <3>4 DEF Sent
    <3>6. RelayLoop
      BY <1>6, <2>2 DEF RelaySend, RelayBlockSend, RelayBlockSync, RelayBlockReturn
    <3> QED BY <2>2, <3>5, <3>6
  <2>3. CASE SyncPop
    <3>1. syncQ # <<>> /\ syncQ' = Tail(syncQ) /\ UNCHANGED labels /\ rb'.blk = Head(syncQ)
      BY <1>1, <2>3 DEF SyncPop, labelVars
    <3>2. Ids(syncQ) = Ids(Tail(syncQ)) \cup {Head(syncQ)} BY <1>1, <3>1, IdsTail
    <3> QED BY <3>1, <3>2 DEF Sent
  <2>4. CASE SyncLocal \/ RelayBlockSync(d)
    <3>1. /\ rb.pc = "signal" /\ UNCHANGED syncQ /\ rb.blk \in Blocks
          /\ rb'.pc = "signal" => rb'.blk = rb.blk
          /\ labels' = labels \/ \E s \in Servers : labels' = [labels EXCEPT ![s] = @ \cup {rb.blk}]
      BY <1>1, <2>4, PackerIsServer DEF SyncLocal, RelayBlockSync
    <3>2. \A s \in Servers : labels'[s] \subseteq labels[s] \cup {rb.blk} BY <1>1, <3>1
    <3> QED BY <3>1, <3>2 DEF Sent
  <2> QED BY <1>6, <2>1, <2>2, <2>3, <2>4 DEF RelayLoop, RelaySend
<1>7. TRUE \in BOOLEAN OBVIOUS
<1> QED BY <1>3, <1>4, <1>5, <1>6, <1>7 DEF Next

(* What has left a relay queue does not come back to it. *)
LEMMA LeftGrows ==
    ASSUME WayInv, [Next]_vars
    PROVE  \A t \in Servers : Left(t) \subseteq Left(t)'
<1>1. TypeOK /\ relayBlocks \in [Servers -> Seq(Blocks)] BY DEF WayInv, TypeOK, ServerTypeOK
<1>2. CASE Pack
  <2>1. /\ \A t \in Servers : Handed(t) \subseteq Handed(t)'
        /\ pack.tgt \in Servers /\ pack.blk \notin Handed(pack.tgt) /\ pack.blk \in Blocks
    BY <1>1, <1>2, HandedStep
  <2>2. \/ relayBlocks' = relayBlocks
        \/ relayBlocks' = [relayBlocks EXCEPT ![pack.tgt] = Append(@, pack.blk)]
    BY <1>2 DEF Pack, PackPush, PackInsert
  <2>3. Ids(Append(relayBlocks[pack.tgt], pack.blk)) = Ids(relayBlocks[pack.tgt]) \cup {pack.blk}
    BY <1>1, <2>1, IdsAppend
  <2>4. \A t \in Servers : \/ relayBlocks'[t] = relayBlocks[t]
                           \/ t = pack.tgt /\ relayBlocks'[t] = Append(relayBlocks[pack.tgt], pack.blk)
    BY <1>1, <2>2
  <2> QED BY <2>1, <2>3, <2>4 DEF Left
<1>3. CASE RelayBlockPop
  <2>1. /\ rb.tgt \in Servers /\ relayBlocks[rb.tgt] # <<>> /\ UNCHANGED pack
        /\ relayBlocks' = [relayBlocks EXCEPT ![rb.tgt] = Tail(@)]
    BY <1>1, <1>3 DEF RelayBlockPop, TypeOK, ServerTypeOK
  <2>2. Ids(Tail(relayBlocks[rb.tgt])) \subseteq Ids(relayBlocks[rb.tgt]) BY <1>1, <2>1, IdsTail
  <2>3. \A t \in Servers : Ids(relayBlocks'[t]) \subseteq Ids(relayBlocks[t]) BY <1>1, <2>1, <2>2
  <2> QED BY <2>1, <2>3 DEF Left, Handed
<1>4. CASE UNCHANGED <<relayBlocks, pack>> BY <1>4 DEF Left, Handed
<1>5. Pack \/ RelayBlockPop \/ UNCHANGED <<relayBlocks, pack>>
  BY DEF Next, RelayLoop, RelaySend, RelayBlockEmpty, RelayBlockReturn, SyncPop, SyncLocal,
     RelayBlockSend, RelayBlockSync, HandleBlock, RelayBlockHandler, CallFails, Abandon,
     RelayVoteFails, SPBcastCommitFails, Merge, MergeVotes, PeerCall, RelayVote, SPBcastCommit,
     VoteSteps, VoteFails, VoteBlocksRelay, VoteBlocksInsert, PullSteps, PullFails, PullSnapshot,
     PullVisit, GetVisit, vars, serverVars, packVars
<1> QED BY <1>2, <1>3, <1>4, <1>5

LEMMA SentNext == SentInv /\ [Next]_vars => SentInv'
<1> SUFFICES ASSUME SentInv, [Next]_vars PROVE SentInv' OBVIOUS
<1>1. WayInv /\ WayInv' /\ TypeOK BY WayNext DEF SentInv, WayInv
<1>2. LeftSome \subseteq LeftSome'
  <2>1. \A t \in Peers : Left(t) \subseteq Left(t)' BY <1>1, LeftGrows, PeersAre
  <2> QED BY <2>1 DEF LeftSome
<1>3. Sent' \subseteq LeftSome' BY <1>1, <1>2, SentStep DEF SentInv
<1>4. /\ rb \in [pc : {"pop", "wait", "signal"}, tgt : Servers,
                 req : Seq(Voted), blk : Blocks \cup {NoBlock}]
      /\ relayBlocks \in [Servers -> Seq(Blocks)]
      /\ votes \in [Servers -> [Blocks -> SUBSET Clients]]
  BY <1>1 DEF TypeOK, ServerTypeOK
<1>5. BlocksOf(rb'.req) \subseteq LeftSome'
  <2>1. CASE RelayBlockPop
    <3> DEFINE b == Head(relayBlocks[rb.tgt])
               i == [blk |-> b, votes |-> votes[Packer][b]]
    <3>1. rb.tgt \in Peers /\ relayBlocks[rb.tgt] # <<>> /\ rb.tgt \in Servers
      BY <1>4, <2>1, PeersAre DEF RelayBlockPop
    <3>2. /\ rb'.req = Append(rb.req, i) /\ UNCHANGED pack
          /\ relayBlocks'[rb.tgt] = Tail(relayBlocks[rb.tgt])
      BY <1>4, <2>1 DEF RelayBlockPop
    <3>3. /\ Ids(relayBlocks[rb.tgt]) = Ids(Tail(relayBlocks[rb.tgt])) \cup {b}
          /\ b \notin Ids(Tail(relayBlocks[rb.tgt])) /\ b \in Blocks
      BY <1>1, <1>4, <3>1, IdsTail, QueueType DEF WayInv, WayTo
    <3> HIDE DEF b
    <3>4. i \in Voted /\ i.blk = b BY <1>4, <3>3, PackerIsServer DEF Voted
    <3> HIDE DEF i
    <3>5. BlocksOf(rb'.req) = BlocksOf(rb.req) \cup {b} BY <1>4, <3>2, <3>4, BlocksAppend
    <3>6. PICK t \in Peers : t = rb.tgt BY <3>1
    <3>7. b \in Handed(t) BY <1>1, <3>1, <3>3, <3>6 DEF WayInv, OnWay
    <3>8. b \in Left(t)' BY <3>2, <3>3, <3>6, <3>7 DEF Left, Handed
    <3>9. b \in LeftSome' BY <3>6, <3>8 DEF LeftSome
    <3> QED BY <1>2, <3>5, <3>9 DEF SentInv
  <2>2. CASE rb'.req = <<>> BY <2>2, BlocksEmpty
  <2>3. CASE rb'.req = rb.req BY <1>2, <2>3 DEF SentInv
  <2>4. RelayBlockPop \/ RelayBlockReturn \/ rb'.req = rb.req
    <3>1. UNCHANGED rb => rb'.req = rb.req OBVIOUS
    <3>2. ASSUME NEW d \in BOOLEAN,
                 \/ RelayBlockEmpty \/ SyncPop \/ SyncLocal \/ RelayBlockSend(d) \/ RelayBlockSync(d)
          PROVE  rb'.req = rb.req
      BY <1>4, <3>2 DEF RelayBlockEmpty, SyncPop, SyncLocal, RelayBlockSend, RelayBlockSync
    <3>3. TRUE \in BOOLEAN OBVIOUS
    <3> QED BY <3>1, <3>2, <3>3
            DEF Next, Pack, PackPush, PackInsert, RelayLoop, RelaySend, HandleBlock,
                RelayBlockHandler, CallFails, Abandon, RelayVoteFails, SPBcastCommitFails, Merge,
                MergeVotes, PeerCall, RelayVote, SPBcastCommit, VoteSteps, VoteFails,
                VoteBlocksRelay, VoteBlocksInsert, PullSteps, PullFails, PullSnapshot, PullVisit,
                GetVisit, vars, serverVars, packVars
  <2>5. RelayBlockReturn => rb'.req = <<>>
    <3>1. RelayBlockReturn => rb' = [rb EXCEPT !.pc = "pop", !.tgt = @ + 1, !.req = <<>>]
      BY DEF RelayBlockReturn
    <3> QED BY <1>4, <3>1
  <2> QED BY <2>1, <2>2, <2>3, <2>4, <2>5
<1> QED BY <1>1, <1>3, <1>5 DEF SentInv

LEMMA SentInit == Init => SentInv
<1> SUFFICES ASSUME Init PROVE SentInv OBVIOUS
<1>1. /\ \A s \in Servers : labels[s] = {}
      /\ syncQ = <<>> /\ rb.pc = "pop" /\ rb.req = <<>>
  BY DEF Init, ServerInit
<1>2. Ids(syncQ) = {} /\ BlocksOf(rb.req) = {} BY <1>1, IdsEmpty, BlocksEmpty
<1>3. Sent = {} BY <1>1, <1>2 DEF Sent
<1> QED BY <1>2, <1>3, WayInit DEF SentInv

(* The handler takes a block from its call to the pool, and ends no other  *)
(* call.                                                                   *)
LEMMA HandleKeeps ==
    ASSUME WayInv, HandleBlock
    PROVE  /\ UNCHANGED <<rb, faults>>
           /\ (\A m \in blockCalls : m.live) => \A m \in blockCalls' : m.live
           /\ \A t \in Servers : Holds(t) \cup InCalls(t) \subseteq Holds(t)' \cup InCalls(t)'
<1>1. PICK m \in blockCalls : RelayBlockHandler(m) /\ UNCHANGED <<clientVars, faults>>
  BY DEF HandleBlock
<1> DEFINE b == Head(m.items).blk
           k == [m EXCEPT !.items = Tail(@)]
<1>2. /\ m \in BlockCall /\ m.items \in Seq(Voted) /\ m.items # <<>>
      /\ m.dst \in Servers /\ NoRepeat(m.items)
  BY BlockCallType DEF WayInv, TypeOK, ServerTypeOK, CallsApart
<1>3. k.items = Tail(m.items) /\ k.dst = m.dst /\ k.live = m.live BY <1>2 DEF BlockCall
<1>4. /\ BlocksOf(m.items) = BlocksOf(Tail(m.items)) \cup {b}
      /\ Len(m.items) = 1 => BlocksOf(m.items) = {b}
  BY <1>2, BlocksTail
<1>5. /\ pending' = [pending EXCEPT ![m.dst] = @ \cup {b}]
      /\ blockCalls' = (blockCalls \ {m}) \cup (IF Len(m.items) = 1 THEN {} ELSE {k})
      /\ UNCHANGED <<mergeQ, committed, rb, faults>>
  BY <1>1 DEF RelayBlockHandler, Served, packVars
<1> HIDE DEF b, k
<1>6. \A t \in Servers : Holds(t) \subseteq Holds(t)' BY HoldsGrow DEF Next
<1>7. b \in Holds(m.dst)'
  <2>1. b \in pending'[m.dst] BY <1>2, <1>5 DEF WayInv, TypeOK, ServerTypeOK
  <2> QED BY <1>2, <1>5, <2>1 DEF Holds
<1>8. ASSUME NEW t \in Servers, NEW x \in InCalls(t) PROVE x \in Holds(t)' \cup InCalls(t)'
  <2>1. PICK n \in blockCalls : n.dst = t /\ x \in BlocksOf(n.items) BY DEF InCalls
  <2>2. CASE n # m
    <3>1. n \in blockCalls' BY <1>5, <2>1, <2>2
    <3> QED BY <2>1, <3>1 DEF InCalls
  <2>3. CASE n = m /\ x = b BY <1>7, <2>1, <2>3
  <2>4. CASE n = m /\ x # b
    <3>1. x \in BlocksOf(k.items) /\ k \in blockCalls' BY <1>3, <1>4, <1>5, <2>1, <2>4
    <3> QED BY <1>3, <2>1, <2>4, <3>1 DEF InCalls
  <2> QED BY <2>2, <2>3, <2>4
<1>9. (\A n \in blockCalls : n.live) => \A n \in blockCalls' : n.live BY <1>3, <1>5
<1> QED BY <1>5, <1>6, <1>8, <1>9

(* The number of failed calls does not go down, and a step that leaves it  *)
(* as it is abandons no call and delivers what it sends.                   *)
LEMMA FaultsCount ==
    ASSUME TypeOK, [Next]_vars, faults' = 0
    PROVE  /\ faults = 0 /\ ~CallFails
           /\ RelaySend(FALSE) => FALSE
<1>1. faults \in Nat BY DEF TypeOK
<1>2. ASSUME Delivery(FALSE) PROVE FALSE BY <1>1, <1>2 DEF Delivery
<1>3. ~CallFails /\ ~RelaySend(FALSE) BY <1>2 DEF CallFails, RelaySend
<1>4. ASSUME NEW d \in BOOLEAN, Delivery(d) PROVE faults = 0 BY <1>1, <1>4 DEF Delivery
<1>5. faults = 0
  <2>1. CASE UNCHANGED faults BY <2>1
  <2>2. CASE \E d \in BOOLEAN : Delivery(d) BY <1>4, <2>2
  <2>3. FALSE \in BOOLEAN OBVIOUS
  <2> QED BY <2>1, <2>2, <2>3
          DEF Next, Pack, RelayLoop, RelaySend, HandleBlock, CallFails, Merge, PeerCall, VoteSteps,
              VoteFails, VoteBlocksRelay, VoteBlocksInsert, PullSteps, PullFails, PullSnapshot,
              PullVisit, GetVisit, vars
<1> QED BY <1>3, <1>5

LEMMA StoredNext == StoredInv /\ [Next]_vars => StoredInv'
<1> SUFFICES ASSUME StoredInv, [Next]_vars PROVE StoredInv' OBVIOUS
<1>1. WayInv /\ WayInv' /\ TypeOK BY WayNext DEF StoredInv, WayInv
<1>2. CASE faults' # 0 BY <1>1, <1>2 DEF StoredInv
<1>3. CASE faults' = 0
  <2>1. /\ Sent \subseteq HeldSome
        /\ \A m \in blockCalls : m.live
        /\ \A t \in Servers :
              rb.pc = "wait" /\ rb.tgt = t => BlocksOf(rb.req) \subseteq Holds(t) \cup InCalls(t)
    BY <1>1, <1>3, FaultsCount DEF StoredInv
  <2>2. \A t \in Servers : Holds(t) \subseteq Holds(t)' BY <1>1, HoldsGrow
  <2>3. HeldSome \subseteq HeldSome' BY <2>2, PeersAre DEF HeldSome
  <2>4. rb \in [pc : {"pop", "wait", "signal"}, tgt : Servers,
                req : Seq(Voted), blk : Blocks \cup {NoBlock}]
        /\ (rb.pc = "wait" => rb.tgt < Packer)
    BY <1>1 DEF TypeOK, ServerTypeOK
  <2>5. Sent' \subseteq HeldSome'
    <3>1. CASE Sent' \subseteq Sent BY <2>1, <2>3, <3>1
    <3>2. CASE RelayBlockReturn /\ Sent' \subseteq Sent \cup BlocksOf(rb.req)
      <4>1. blockCalls = {} /\ rb.pc = "wait" BY <2>1, <3>2 DEF RelayBlockReturn
      <4>2. PICK t \in Peers : t = rb.tgt BY <2>4, <4>1, PeersAre
      <4>3. InCalls(t) = {} BY <4>1 DEF InCalls
      <4>4. BlocksOf(rb.req) \subseteq Holds(t) BY <2>1, <4>1, <4>2, <4>3, PeersAre
      <4>5. BlocksOf(rb.req) \subseteq HeldSome BY <4>4 DEF HeldSome
      <4> QED BY <2>1, <2>3, <3>2, <4>5
    <3> QED BY <1>1, <3>1, <3>2, SentStep
  <2> DEFINE Rest == /\ \A m \in blockCalls' : m.live
                     /\ \A t \in Servers : rb'.pc = "wait" /\ rb'.tgt = t =>
                           BlocksOf(rb'.req) \subseteq Holds(t)' \cup InCalls(t)'
  <2>6. ASSUME UNCHANGED blockCalls, rb'.pc # "wait" \/ UNCHANGED rb PROVE Rest
    <3>1. \A t \in Servers : InCalls(t)' = InCalls(t) BY <2>6 DEF InCalls
    <3> QED BY <2>1, <2>2, <2>6, <3>1
  <2>7. ASSUME HandleBlock PROVE Rest BY <1>1, <2>1, <2>7, HandleKeeps
  <2>8. ASSUME RelaySend(TRUE) PROVE Rest
    <3>1. CASE RelayBlockSync(TRUE) BY <2>4, <2>6, <3>1 DEF RelayBlockSync
    <3>2. CASE RelayBlockSend(TRUE)
      <4> DEFINE m == [dst |-> rb.tgt, live |-> TRUE, items |-> rb.req]
      <4>1. blockCalls' = blockCalls \cup {m} /\ rb'.tgt = rb.tgt /\ rb'.req = rb.req
        BY <2>4, <3>2 DEF RelayBlockSend
      <4>2. ASSUME NEW t \in Servers, rb'.tgt = t PROVE BlocksOf(rb'.req) \subseteq InCalls(t)'
        <5>1. m \in blockCalls' /\ m.dst = t /\ m.items = rb'.req BY <4>1, <4>2
        <5> QED BY <5>1 DEF InCalls
      <4>3. m.live OBVIOUS
      <4> QED BY <2>1, <4>1, <4>2, <4>3
    <3> QED BY <2>8, <3>1, <3>2 DEF RelaySend
  <2>9. ASSUME Pack \/ RelayLoop \/ UNCHANGED vars PROVE Rest
    BY <2>4, <2>6, <2>9 DEF Pack, PackPush, PackInsert, RelayLoop, RelayBlockPop, RelayBlockEmpty,
       RelayBlockReturn, SyncPop, SyncLocal, vars, serverVars, packVars
  <2>10. ASSUME NEW s \in Servers, NEW t \in Servers, Merge(s) \/ PeerCall(s, t) PROVE Rest
    <3>1. UNCHANGED <<blockCalls, rb>>
      BY <2>10 DEF Merge, MergeVotes, PeerCall, RelayVote, SPBcastCommit, packVars
    <3> QED BY <2>6, <3>1
  <2>11. ASSUME NEW c \in Clients, NEW d \in BOOLEAN,
                VoteSteps(c) \/ VoteFails(c) \/ PullSteps(c, d) \/ PullFails(c)
         PROVE  Rest
    <3>1. UNCHANGED <<blockCalls, rb>> BY <1>1, <2>11, WayClient
    <3> QED BY <2>6, <3>1
  <2>12. Rest
    <3> HIDE DEF Rest
    <3>1. ~CallFails /\ \A d \in BOOLEAN : RelaySend(d) => RelaySend(TRUE)
      BY <1>1, <1>3, FaultsCount
    <3>2. TRUE \in BOOLEAN OBVIOUS
    <3> QED BY <2>7, <2>8, <2>9, <2>10, <2>11, <3>1, <3>2 DEF Next
  <2> QED BY <1>1, <2>5, <2>12 DEF StoredInv
<1> QED BY <1>2, <1>3

LEMMA StoredInit == Init => StoredInv
<1> SUFFICES ASSUME Init PROVE StoredInv OBVIOUS
<1>1. /\ \A s \in Servers : labels[s] = {}
      /\ syncQ = <<>> /\ rb.pc = "pop" /\ blockCalls = {}
  BY DEF Init, ServerInit
<1>2. Ids(syncQ) = {} BY <1>1, IdsEmpty
<1>3. Sent = {} BY <1>1, <1>2 DEF Sent
<1> QED BY <1>1, <1>3, WayInit DEF StoredInv

(* As long as no call has failed, no block that was handed out for a peer  *)
(* gets lost before the peer holds it.                                     *)
ArriveInv ==
    /\ WayInv
    /\ faults = 0 => \A t \in Peers : Handed(t) \subseteq OnWay(t)

LEMMA ArrivePack ==
    ASSUME WayInv, Pack, NEW t \in Peers, Handed(t) \subseteq OnWay(t)
    PROVE  Handed(t)' \subseteq OnWay(t)'
<1>1. /\ TypeOK /\ pack \in [blk : FirstBlock .. (FirstBlock + MaxBlocks), tgt : Servers]
      /\ relayBlocks \in [Servers -> Seq(Blocks)]
  BY DEF WayInv, TypeOK, ServerTypeOK
<1>2. /\ pack.blk \in Blocks /\ pack.blk \in Nat /\ pack.tgt \in Nat /\ pack.tgt \in Servers
      /\ Blocks \subseteq Nat /\ Servers \subseteq Nat /\ t \in Servers /\ t < Packer /\ t \in Nat
      /\ Packer \in Nat
  BY <1>1, BlockIds, PackerIsServer, PeersAre DEF Pack, PackPush, PackInsert
<1>3. UNCHANGED <<rb, blockCalls>> BY DEF Pack, PackPush, PackInsert
<1>4. Filling(t)' = Filling(t) /\ InCalls(t)' = InCalls(t) BY <1>3 DEF Filling, InCalls
<1>5. Holds(t) \subseteq Holds(t)' BY <1>2, HoldsGrow DEF Next
<1>6. t >= 1 BY <1>2 DEF Servers
<1>7. CASE PackPush
  <2>1. /\ pack'.blk = pack.blk /\ pack'.tgt = pack.tgt + 1
        /\ relayBlocks' = [relayBlocks EXCEPT ![pack.tgt] = Append(@, pack.blk)]
    BY <1>1, <1>7 DEF PackPush
  <2>2. CASE t = pack.tgt
    <3>1. relayBlocks'[t] = Append(relayBlocks[t], pack.blk) /\ relayBlocks[t] \in Seq(Blocks)
      BY <1>1, <1>2, <2>1, <2>2
    <3>2. pack.blk \notin Handed(t) BY <1>2, <2>2 DEF Handed
    <3>3. pack.blk \notin Ids(relayBlocks[t]) BY <1>2, <3>2 DEF WayInv, OnWay
    <3>4. Ids(relayBlocks'[t]) = Ids(relayBlocks[t]) \cup {pack.blk}
      BY <1>2, <3>1, <3>3, IdsAppend
    <3>5. Handed(t)' \subseteq Handed(t) \cup {pack.blk} BY <1>2, <2>1, <2>2 DEF Handed
    <3> QED BY <1>4, <1>5, <3>4, <3>5 DEF OnWay
  <2>3. CASE t # pack.tgt
    <3>1. relayBlocks'[t] = relayBlocks[t] BY <1>1, <1>2, <2>1, <2>3
    <3>2. Handed(t)' \subseteq Handed(t) BY <1>2, <2>1, <2>3 DEF Handed
    <3> QED BY <1>4, <1>5, <3>1, <3>2 DEF OnWay
  <2> QED BY <2>2, <2>3
<1>8. CASE PackInsert
  <2>1. /\ pack'.blk = pack.blk + 1 /\ pack'.tgt = 1 /\ pack.tgt = Packer
        /\ UNCHANGED relayBlocks
    BY <1>1, <1>8 DEF PackInsert
  <2>2. ASSUME NEW b \in Handed(t)' PROVE b \in Handed(t)
    <3>1. /\ b \in Blocks /\ b \in Nat
          /\ pack.blk + 1 > b \/ (pack.blk + 1 = b /\ 1 > t)
      BY <1>2, <2>1 DEF Handed
    <3>2. pack.blk > b \/ (pack.blk = b /\ pack.tgt > t) BY <1>2, <1>6, <2>1, <3>1
    <3> QED BY <3>1, <3>2 DEF Handed
  <2> QED BY <1>4, <1>5, <2>1, <2>2 DEF OnWay
<1> QED BY <1>7, <1>8 DEF Pack

(* What is on its way stays on it when the relay-block thread moves. *)
LEMMA ArriveRelay ==
    ASSUME WayInv, RelayLoop \/ RelaySend(TRUE), NEW t \in Peers
    PROVE  Handed(t)' = Handed(t) /\ OnWay(t) \subseteq OnWay(t)'
<1>1. /\ rb \in [pc : {"pop", "wait", "signal"}, tgt : Servers,
                 req : Seq(Voted), blk : Blocks \cup {NoBlock}]
      /\ relayBlocks \in [Servers -> Seq(Blocks)]
      /\ votes \in [Servers -> [Blocks -> SUBSET Clients]] /\ CallsApart /\ t \in Servers
  BY PeersAre DEF WayInv, TypeOK, ServerTypeOK
<1>2. UNCHANGED <<pending, mergeQ, committed, pack>>
  BY DEF RelayLoop, RelaySend, RelayBlockPop, RelayBlockEmpty, RelayBlockReturn, SyncPop,
         SyncLocal, RelayBlockSend, RelayBlockSync, poolVars
<1>3. Holds(t)' = Holds(t) /\ Handed(t)' = Handed(t) BY <1>2 DEF Holds, Handed
<1>4. CASE RelayBlockPop
  <2> DEFINE b == Head(relayBlocks[rb.tgt])
             i == [blk |-> b, votes |-> votes[Packer][b]]
  <2>1. rb.pc = "pop" /\ rb.tgt \in Peers /\ relayBlocks[rb.tgt] # <<>>
    BY <1>1, <1>4, PeersAre DEF RelayBlockPop
  <2>2. rb.tgt \in Servers /\ relayBlocks[rb.tgt] \in Seq(Blocks) BY <1>1
  <2>3. b \in Blocks BY <2>1, <2>2, QueueType
  <2>4. /\ rb' = [rb EXCEPT !.req = Append(@, i)] /\ UNCHANGED blockCalls
        /\ relayBlocks' = [relayBlocks EXCEPT ![rb.tgt] = Tail(@)]
    BY <1>4 DEF RelayBlockPop
  <2>5. WayTo(rb.tgt) BY <2>1 DEF WayInv
  <2>6. /\ Ids(relayBlocks[rb.tgt]) = Ids(Tail(relayBlocks[rb.tgt])) \cup {b}
        /\ Filling(rb.tgt) = BlocksOf(rb.req) /\ b \notin BlocksOf(rb.req)
    <3>1. Distinct(relayBlocks[rb.tgt]) BY <2>5 DEF WayTo
    <3>2. Ids(relayBlocks[rb.tgt]) = Ids(Tail(relayBlocks[rb.tgt])) \cup {b}
      BY <2>1, <2>2, <3>1, IdsTail
    <3> HIDE DEF b
    <3>3. Filling(rb.tgt) = BlocksOf(rb.req) BY <2>1 DEF Filling
    <3> QED BY <2>5, <3>2, <3>3 DEF WayTo
  <2> HIDE DEF b
  <2>7. i \in Voted /\ i.blk = b BY <1>1, <2>3, PackerIsServer DEF Voted
  <2> HIDE DEF i
  <2>8. BlocksOf(Append(rb.req, i)) = BlocksOf(rb.req) \cup {b}
    <3>1. rb.req \in Seq(Voted) /\ NoRepeat(rb.req) BY <1>1 DEF CallsApart
    <3> QED BY <2>6, <2>7, <3>1, BlocksAppend
  <2>9. rb'.req = Append(rb.req, i) /\ rb'.pc = "pop" /\ rb'.tgt = rb.tgt BY <1>1, <2>1, <2>4
  <2>10. InCalls(t)' = InCalls(t) BY <2>4 DEF InCalls
  <2>11. CASE t = rb.tgt
    <3>1. relayBlocks'[t] = Tail(relayBlocks[t]) BY <1>1, <2>4, <2>11
    <3>2. Filling(t)' = Filling(t) \cup {b} BY <2>6, <2>8, <2>9, <2>11 DEF Filling
    <3> QED BY <1>3, <2>6, <2>10, <2>11, <3>1, <3>2 DEF OnWay
  <2>12. CASE t # rb.tgt
    <3>1. relayBlocks'[t] = relayBlocks[t] /\ Filling(t) = {} BY <1>1, <2>4, <2>12 DEF Filling
    <3> QED BY <1>3, <2>10, <3>1 DEF OnWay
  <2> QED BY <2>11, <2>12
<1>5. CASE RelayBlockEmpty \/ RelayBlockReturn \/ SyncPop \/ SyncLocal \/ RelayBlockSync(TRUE)
  <2>1. UNCHANGED <<relayBlocks, blockCalls>>
    BY <1>5 DEF RelayBlockEmpty, RelayBlockReturn, SyncPop, SyncLocal, RelayBlockSync
  <2>2. rb.req = <<>> \/ rb.pc # "pop"
    BY <1>1, <1>5 DEF RelayBlockEmpty, RelayBlockReturn, SyncPop, SyncLocal, RelayBlockSync, CallsApart
  <2>3. Filling(t) = {} BY <2>2, BlocksEmpty DEF Filling
  <2> QED BY <1>3, <2>1, <2>3 DEF OnWay, InCalls
<1>6. CASE RelayBlockSend(TRUE)
  <2> DEFINE m == [dst |-> rb.tgt, live |-> TRUE, items |-> rb.req]
  <2>1. blockCalls' = blockCalls \cup {m} /\ UNCHANGED relayBlocks BY <1>6 DEF RelayBlockSend
  <2>2. m.dst = rb.tgt /\ m.items = rb.req OBVIOUS
  <2> HIDE DEF m
  <2>3. InCalls(t) \subseteq InCalls(t)' BY <2>1 DEF InCalls
  <2>4. ASSUME NEW x \in Filling(t) PROVE x \in InCalls(t)'
    <3>1. rb.tgt = t /\ x \in BlocksOf(rb.req) BY <2>4 DEF Filling
    <3> QED BY <2>1, <2>2, <3>1 DEF InCalls
  <2> QED BY <1>3, <2>1, <2>3, <2>4 DEF OnWay
<1> QED BY <1>3, <1>4, <1>5, <1>6 DEF RelayLoop, RelaySend

LEMMA ArriveNext == ArriveInv /\ [Next]_vars => ArriveInv'
<1> SUFFICES ASSUME ArriveInv, [Next]_vars PROVE ArriveInv' OBVIOUS
<1>1. WayInv /\ WayInv' /\ TypeOK BY WayNext DEF ArriveInv, WayInv
<1> SUFFICES ASSUME faults' = 0, NEW t \in Peers PROVE Handed(t)' \subseteq OnWay(t)'
  BY <1>1 DEF ArriveInv
<1>2. /\ Handed(t) \subseteq OnWay(t) /\ ~CallFails
      /\ \A d \in BOOLEAN : RelaySend(d) => RelaySend(TRUE)
  BY <1>1, FaultsCount DEF ArriveInv
<1>3. Holds(t) \subseteq Holds(t)' BY <1>1, HoldsGrow, PeersAre
<1> DEFINE Goal == Handed(t)' \subseteq OnWay(t)'
<1>4. ASSUME UNCHANGED <<relayBlocks, rb, blockCalls, pack>> PROVE Goal
  <2>1. /\ Filling(t)' = Filling(t) /\ InCalls(t)' = InCalls(t) /\ Handed(t)' = Handed(t)
    BY <1>4 DEF Filling, InCalls, Handed
  <2> QED BY <1>2, <1>3, <1>4, <2>1 DEF OnWay
<1>5. ASSUME Pack PROVE Goal BY <1>1, <1>2, <1>5, ArrivePack
<1>6. ASSUME RelayLoop \/ RelaySend(TRUE) PROVE Goal BY <1>1, <1>2, <1>6, ArriveRelay
<1>7. ASSUME HandleBlock PROVE Goal
  <2>1. UNCHANGED rb /\ Holds(t) \cup InCalls(t) \subseteq Holds(t)' \cup InCalls(t)'
    BY <1>1, <1>7, HandleKeeps, PeersAre
  <2>2. UNCHANGED <<relayBlocks, pack>> BY <1>7 DEF HandleBlock, RelayBlockHandler, packVars
  <2>3. Filling(t)' = Filling(t) /\ Handed(t)' = Handed(t) BY <2>1, <2>2 DEF Filling, Handed
  <2> QED BY <1>2, <2>1, <2>2, <2>3 DEF OnWay
<1>8. ASSUME NEW s \in Servers, NEW u \in Servers, Merge(s) \/ PeerCall(s, u) PROVE Goal
  <2>1. UNCHANGED <<relayBlocks, rb, blockCalls, pack>>
    BY <1>8 DEF Merge, MergeVotes, PeerCall, RelayVote, SPBcastCommit, packVars
  <2> QED BY <1>4, <2>1
<1>9. ASSUME NEW c \in Clients, NEW d \in BOOLEAN,
             VoteSteps(c) \/ VoteFails(c) \/ PullSteps(c, d) \/ PullFails(c)
      PROVE  Goal
  <2>1. UNCHANGED <<relayBlocks, rb, blockCalls, pack>> BY <1>1, <1>9, WayClient
  <2> QED BY <1>4, <2>1
<1>10. ASSUME UNCHANGED vars PROVE Goal
  <2>1. UNCHANGED <<relayBlocks, rb, blockCalls, pack>> BY <1>10 DEF vars, serverVars, packVars
  <2> QED BY <1>4, <2>1
<1> HIDE DEF Goal
<1>11. Goal
  <2>1. TRUE \in BOOLEAN OBVIOUS
  <2> QED BY <1>2, <1>5, <1>6, <1>7, <1>8, <1>9, <1>10, <2>1 DEF Next
<1> QED BY <1>11 DEF Goal

LEMMA ArriveInit == Init => ArriveInv
<1> SUFFICES ASSUME Init, NEW t \in Peers PROVE Handed(t) = {}
  BY WayInit DEF ArriveInv
<1>1. pack = [blk |-> FirstBlock, tgt |-> 1] BY DEF Init, ServerInit
<1>2. t \in Servers /\ t \in Nat /\ t >= 1 BY PeersAre, PackerIsServer DEF Servers
<1>3. \A b \in Blocks : b \in Nat /\ FirstBlock \in Nat /\ b >= FirstBlock
  BY BlockIds DEF Blocks
<1> QED BY <1>1, <1>2, <1>3 DEF Handed

(* As long as no call has failed, a block labelled anywhere is stored at   *)
(* one peer at least, and at every other peer or still on its way there:   *)
(* the label is set only after an answer (send_relay_blocks), and what     *)
(* pack_block hands to a relay queue stays in the queue, the request or    *)
(* the call until the peer's handler has stored it.                        *)
THEOREM SyncedBlocksArrive == Spec => []SyncedArrives
<1>1. StoredInv /\ SentInv /\ ArriveInv => SyncedArrives
  <2> SUFFICES ASSUME StoredInv, SentInv, ArriveInv, faults = 0,
                      NEW s \in Servers, NEW b \in labels[s]
               PROVE  /\ \E t \in Peers : b \in Holds(t)
                      /\ \A t \in Peers : b \in Holds(t) \cup ComingTo(t)
    BY DEF SyncedArrives
  <2>1. b \in Sent BY DEF Sent
  <2>2. \E t \in Peers : b \in Holds(t) BY <2>1 DEF StoredInv, HeldSome
  <2>3. PICK u \in Peers : b \in Handed(u) BY <2>1 DEF SentInv, LeftSome, Left
  <2>4. b \in Blocks /\ (pack.blk > b \/ pack.blk = b) BY <2>3 DEF Handed
  <2>5. ASSUME NEW t \in Peers PROVE b \in Holds(t) \cup ComingTo(t)
    <3>1. /\ pack.tgt \in Nat /\ t \in Nat
      <4>1. pack.tgt \in Servers BY DEF StoredInv, WayInv, TypeOK, ServerTypeOK
      <4> QED BY <4>1, PeersAre DEF Servers
    <3>2. CASE b \notin Handed(t)
      <4>1. pack.blk = b /\ pack.tgt <= t BY <2>4, <3>1, <3>2 DEF Handed
      <4> QED BY <2>4, <4>1 DEF ComingTo
    <3>3. CASE b \in Handed(t)
      <4>1. b \in OnWay(t) BY <3>3 DEF ArriveInv
      <4>2. CASE b \in Ids(relayBlocks[t]) BY <2>4, <4>2 DEF Ids, ComingTo
      <4>3. CASE b \in Filling(t) BY <2>4, <4>3 DEF Filling, ComingTo
      <4>4. CASE b \in InCalls(t) BY <2>4, <4>4 DEF InCalls, ComingTo
      <4> QED BY <4>1, <4>2, <4>3, <4>4 DEF OnWay
    <3> QED BY <3>2, <3>3
  <2> QED BY <2>2, <2>5
<1> QED BY <1>1, StoredInit, StoredNext, SentInit, SentNext, ArriveInit, ArriveNext, PTL DEF Spec

(* What waits in a relay queue has not been labelled, so nobody has signed *)
(* it and the packer's copy has no votes.                                  *)
LEMMA QueuedHaveNoVotes ==
    ASSUME ServerCount <= 2, CertInv, SyncedInv, SentInv
    PROVE  NoVoteBeforeRelay
<1> SUFFICES ASSUME NEW t \in Peers, NEW i \in 1 .. Len(relayBlocks[t]),
                    NEW c, c \in votes[Packer][relayBlocks[t][i]]
             PROVE  FALSE
  <2> SUFFICES ASSUME NEW t \in Peers, NEW i \in 1 .. Len(relayBlocks[t])
               PROVE  votes[Packer][relayBlocks[t][i]] = {}
    BY DEF NoVoteBeforeRelay
  <2>1. /\ votes \in [Servers -> [Blocks -> SUBSET Clients]]
        /\ relayBlocks \in [Servers -> Seq(Blocks)]
    BY DEF CertInv, TypeOK, ServerTypeOK
  <2>2. relayBlocks[t][i] \in Blocks BY <2>1, PeersAre
  <2>3. votes[Packer][relayBlocks[t][i]] \subseteq Clients BY <2>1, <2>2, PackerIsServer
  <2> QED BY <2>3
<1> DEFINE b == relayBlocks[t][i]
<1>1. /\ votes \in [Servers -> [Blocks -> SUBSET Clients]]
      /\ relayBlocks \in [Servers -> Seq(Blocks)] /\ labels \in [Servers -> SUBSET Blocks]
  BY DEF CertInv, TypeOK, ServerTypeOK
<1>2. t \in Servers /\ b \in Blocks BY <1>1, PeersAre
<1>3. c \in Clients BY <1>1, <1>2, PackerIsServer
<1>4. b \in voted[c]
  <2>1. [blk |-> b, votes |-> votes[Packer][b]] \in Genuine
    BY <1>2, PackerIsServer DEF CertInv, VotesGenuine
  <2> QED BY <2>1 DEF Genuine
<1>5. b \in labels[Stub(c, 0)] \cup labels[Stub(c, 1)]
  BY <1>3, <1>4 DEF SyncedInv, SyncedClient, Labelled
<1>6. b \in Sent BY <1>3, <1>5, StubIsServer DEF Sent
<1>7. PICK u \in Peers : b \in Left(u) BY <1>6 DEF SentInv, LeftSome
<1>8. u = t BY ServerCountAssumption, PeersAre DEF Servers, Packer
<1>9. b \in Ids(relayBlocks[t]) BY DEF Ids
<1> QED BY <1>7, <1>8, <1>9 DEF Left

(* With two servers the packer's copy of a block gets no vote before it    *)
(* has been serialised for the peer: a vote needs a label, a label is set  *)
(* only for a block that has left the relay queue, and what has left the   *)
(* queue never comes back.  With three servers this fails too.             *)
THEOREM NoVoteBeforeTheRelay ==
    ASSUME ServerCount <= 2
    PROVE  Spec => []NoVoteBeforeRelay
<1> DEFINE Inv == CertInv /\ SyncedInv /\ SentInv
<1>1. Init => Inv BY InitCert, SyncedInit, SentInit
<1>2. Inv /\ [Next]_vars => Inv' BY NextCert, SyncedNext, SentNext
<1>3. Inv => NoVoteBeforeRelay BY QueuedHaveNoVotes
<1> QED BY <1>1, <1>2, <1>3, PTL DEF Spec
=============================================================================
