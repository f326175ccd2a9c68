---------------------------- MODULE TcSign_proofs ----------------------------
(***************************************************************************)
(* Proofs for TcSign: what the votes of a block consist of, for every      *)
(* number of servers and clients, any clock and any number of accounts.    *)
(***************************************************************************)
EXTENDS TcSign, FiniteSetTheorems, SequenceTheorems, TLAPS

-----------------------------------------------------------------------------
(* Blocks whose votes are what their voters signed.  sg[c] is the set of   *)
(* the digests client c has signed; a block holds only votes of digests    *)
(* with all transactions and without a vote of the same client.            *)

Signable(sg, c) == {d \in sg[c] : d.tx_vec = Packed.tx_vec /\ c \notin DOMAIN d.votes}

ShareOf(c, d) ==
    [g1 |-> [key |-> Stub(c, 0), digest |-> d, by |-> c], hint |-> "hint",
     signer |-> c, t |-> ClientCount, n |-> ClientCount]

VoteOf(c, d) == [block_id |-> FirstBlock, voter_id |-> c, sig_share |-> <<ShareOf(c, d)>>]

VotesBy(sg, c) == {VoteOf(c, d) : d \in Signable(sg, c)}

(* The votes_ of a block: filed under their voters. *)
IsVoteMap(sg, f) ==
    /\ f = [v \in DOMAIN f |-> f[v]]
    /\ DOMAIN f \subseteq Clients
    /\ \A v \in DOMAIN f : f[v] \in VotesBy(sg, v)

Header == [id : {FirstBlock}, base_id : Nat, proposal_ts : Nat,
           dist_ts : Nat, commit_ts : Nat, recv_ts : Nat]
Tx     == [id : Nat, sender : Nat, receiver : Nat, value : Nat, fee : Nat]

IsBlock(sg, b) ==
    /\ b = [header |-> b.header, tx_vec |-> b.tx_vec, votes |-> b.votes, tss_sig |-> b.tss_sig]
    /\ b.header \in Header /\ b.tx_vec \in Seq(Tx)
    /\ IsVoteMap(sg, b.votes)

IsFull(sg, b) == IsBlock(sg, b) /\ b.tx_vec = Packed.tx_vec

-----------------------------------------------------------------------------
(* The encodings *)

LEMMA VoteBack ==
    ASSUME NEW sg, NEW c, NEW bv \in VotesBy(sg, c)
    PROVE  VoteFromBytes(VoteToBytes(bv)) = bv /\ bv.voter_id = c
<1>1. PICK d : bv = VoteOf(c, d) BY DEF VotesBy
<1> DEFINE s == ShareOf(c, d)
<1>2. ShareFromBytes(ShareToBytes(s)) = s BY DEF ShareFromBytes, ShareToBytes, ShareOf
<1> HIDE DEF s
<1>3. bv = [block_id |-> FirstBlock, voter_id |-> c, sig_share |-> <<s>>] BY <1>1 DEF VoteOf, s
<1>4. VoteToBytes(bv).sig_share = <<ShareToBytes(s)>>
  BY <1>3 DEF VoteToBytes
<1>5. VoteToBytes(bv) = [block_id |-> FirstBlock, voter_id |-> c, sig_share |-> <<ShareToBytes(s)>>]
  BY <1>3, <1>4 DEF VoteToBytes
<1>6. [i \in 1 .. Len(<<ShareToBytes(s)>>) |-> ShareFromBytes(<<ShareToBytes(s)>>[i])] = <<s>>
  BY <1>2
<1>7. VoteFromBytes(VoteToBytes(bv)) = [block_id |-> FirstBlock, voter_id |-> c, sig_share |-> <<s>>]
  BY <1>5, <1>6 DEF VoteFromBytes
<1> QED BY <1>3, <1>7

LEMMA TxsBack ==
    ASSUME NEW q \in Seq(Tx)
    PROVE  LET w == [i \in 1 .. Len(q) |-> TxToVector(q[i])]
           IN  [i \in 1 .. Len(w) |-> TxFromVector(w[i])] = q
<1> DEFINE w == [i \in 1 .. Len(q) |-> TxToVector(q[i])]
<1>1. ASSUME NEW x \in Tx PROVE TxFromVector(TxToVector(x)) = x
  BY DEF TxFromVector, TxToVector, Tx
<1>2. Len(q) \in Nat /\ \A i \in 1 .. Len(q) : q[i] \in Tx OBVIOUS
<1>3. Len(w) = Len(q) BY <1>2
<1>4. \A i \in 1 .. Len(q) : TxFromVector(w[i]) = q[i] BY <1>1, <1>2
<1> HIDE DEF w
<1>5. [i \in 1 .. Len(w) |-> TxFromVector(w[i])] = [i \in 1 .. Len(q) |-> q[i]] BY <1>3, <1>4
<1>6. q = [i \in 1 .. Len(q) |-> q[i]] OBVIOUS
<1> QED BY <1>5, <1>6 DEF w

LEMMA VotesBack ==
    ASSUME NEW sg, NEW f, IsVoteMap(sg, f)
    PROVE  LET w == [k \in {to_string(v) : v \in DOMAIN f} |-> VoteToBytes(f[k.numeral])]
           IN  [v \in {stoi(k) : k \in DOMAIN w} |-> VoteFromBytes(w[to_string(v)])] = f
<1> DEFINE K == {to_string(v) : v \in DOMAIN f}
           w == [k \in K |-> VoteToBytes(f[k.numeral])]
           g == [v \in {stoi(k) : k \in DOMAIN w} |-> VoteFromBytes(w[to_string(v)])]
<1>1. \A v : to_string(v).numeral = v BY DEF to_string
<1>2. \A v : stoi(to_string(v)) = v BY <1>1 DEF stoi
<1>3. DOMAIN w = K OBVIOUS
<1>4. {stoi(k) : k \in K} = DOMAIN f BY <1>2
<1>5. ASSUME NEW v \in DOMAIN f PROVE VoteFromBytes(w[to_string(v)]) = f[v]
  <2>1. to_string(v) \in K OBVIOUS
  <2>2. w[to_string(v)] = VoteToBytes(f[v]) BY <1>1, <2>1
  <2>3. f[v] \in VotesBy(sg, v) BY DEF IsVoteMap
  <2> HIDE DEF w
  <2> QED BY <2>2, <2>3, VoteBack
<1> HIDE DEF w
<1>6. g = [v \in DOMAIN f |-> f[v]] BY <1>3, <1>4, <1>5
<1> QED BY <1>6 DEF IsVoteMap, w

(* A block that is sent arrives as it was, but without its merged          *)
(* signature.                                                              *)
LEMMA SentIs ==
    ASSUME NEW sg, NEW b, IsBlock(sg, b)
    PROVE  Sent(b) = [header |-> b.header, tx_vec |-> b.tx_vec, votes |-> b.votes, tss_sig |-> <<>>]
<1>1. HeaderFromBytes(HeaderToBytes(b.header)) = b.header
  BY DEF HeaderFromBytes, HeaderToBytes, Header, IsBlock
<1> DEFINE txs == [i \in 1 .. Len(b.tx_vec) |-> TxToVector(b.tx_vec[i])]
           vs  == [k \in {to_string(v) : v \in DOMAIN b.votes} |-> VoteToBytes(b.votes[k.numeral])]
<1>2. [i \in 1 .. Len(txs) |-> TxFromVector(txs[i])] = b.tx_vec BY TxsBack DEF IsBlock
<1>3. [v \in {stoi(k) : k \in DOMAIN vs} |-> VoteFromBytes(vs[to_string(v)])] = b.votes
  BY VotesBack DEF IsBlock
<1>4. BlockToBytes(b) = [header |-> HeaderToBytes(b.header), tx_vec |-> txs, votes |-> vs]
  BY DEF BlockToBytes
<1> HIDE DEF txs, vs
<1> QED BY <1>1, <1>2, <1>3, <1>4 DEF Sent, BlockFromBytes

LEMMA SentKeeps ==
    ASSUME NEW sg, NEW b, IsBlock(sg, b)
    PROVE  /\ Sent(b) = [b EXCEPT !.tss_sig = <<>>]
           /\ IsBlock(sg, Sent(b)) /\ Sent(b).tx_vec = b.tx_vec /\ Sent(b).votes = b.votes
           /\ Sent(b).tss_sig = <<>>
<1>1. Sent(b) = [header |-> b.header, tx_vec |-> b.tx_vec, votes |-> b.votes, tss_sig |-> <<>>]
  BY SentIs
<1>2. b = [header |-> b.header, tx_vec |-> b.tx_vec, votes |-> b.votes, tss_sig |-> b.tss_sig]
  BY DEF IsBlock
<1>3. [b EXCEPT !.tss_sig = <<>>] =
         [header |-> b.header, tx_vec |-> b.tx_vec, votes |-> b.votes, tss_sig |-> <<>>]
  BY <1>2
<1> QED BY <1>1, <1>3 DEF IsBlock

-----------------------------------------------------------------------------
(* Changes of a block *)

LEMMA VoteMapInsert ==
    ASSUME NEW sg, NEW f, IsVoteMap(sg, f), NEW c \in Clients, NEW bv \in VotesBy(sg, c),
           NEW g, g = MapInsert(f, c, bv)
    PROVE  IsVoteMap(sg, g) /\ DOMAIN g = DOMAIN f \cup {c} /\ \A v \in DOMAIN f : g[v] = f[v]
<1>1. CASE c \in DOMAIN f BY <1>1 DEF MapInsert
<1>2. CASE c \notin DOMAIN f BY <1>2 DEF MapInsert, IsVoteMap
<1> QED BY <1>1, <1>2

(* Clients only add to what they have signed. *)
LEMMA MoreSigned ==
    ASSUME NEW sg, NEW sh, \A c \in Clients : sg[c] \subseteq sh[c]
    PROVE  /\ \A c \in Clients : VotesBy(sg, c) \subseteq VotesBy(sh, c)
           /\ \A b : IsBlock(sg, b) => IsBlock(sh, b)
<1>1. \A c \in Clients : VotesBy(sg, c) \subseteq VotesBy(sh, c) BY DEF VotesBy, Signable
<1>2. ASSUME NEW f, IsVoteMap(sg, f) PROVE IsVoteMap(sh, f) BY <1>1, <1>2 DEF IsVoteMap
<1> QED BY <1>1, <1>2 DEF IsBlock

LEMMA BlockVotes ==
    ASSUME NEW sg, NEW b, IsBlock(sg, b), NEW f, IsVoteMap(sg, f)
    PROVE  LET x == [b EXCEPT !.votes = f]
           IN  /\ IsBlock(sg, x) /\ x.votes = f /\ x.tx_vec = b.tx_vec
               /\ x.header = b.header /\ x.tss_sig = b.tss_sig
<1> DEFINE x == [b EXCEPT !.votes = f]
<1>1. x = [header |-> b.header, tx_vec |-> b.tx_vec, votes |-> f, tss_sig |-> b.tss_sig]
  BY DEF IsBlock
<1> HIDE DEF x
<1> QED BY <1>1 DEF IsBlock, x

LEMMA BlockHeader ==
    ASSUME NEW sg, NEW b, IsBlock(sg, b), NEW h \in Header
    PROVE  LET x == [b EXCEPT !.header = h]
           IN  IsBlock(sg, x) /\ x.votes = b.votes /\ x.tx_vec = b.tx_vec /\ x.tss_sig = b.tss_sig
<1> DEFINE x == [b EXCEPT !.header = h]
<1>1. x = [header |-> h, tx_vec |-> b.tx_vec, votes |-> b.votes, tss_sig |-> b.tss_sig]
  BY DEF IsBlock
<1> HIDE DEF x
<1> QED BY <1>1 DEF IsBlock, x

(* Block::merge_votes and the timestamps of TcServer::merge_votes. *)
LEMMA BlockMerged ==
    ASSUME NEW sg, NEW b, IsBlock(sg, b), NEW now \in Nat
    PROVE  LET x == [Merged(b) EXCEPT !.header.commit_ts = now, !.header.recv_ts = now]
           IN  /\ IsBlock(sg, x) /\ x.votes = b.votes /\ x.tx_vec = b.tx_vec
               /\ x.tss_sig = <<{b.votes[v].sig_share[1] : v \in DOMAIN b.votes}>>
<1> DEFINE sig == <<{b.votes[v].sig_share[1] : v \in DOMAIN b.votes}>>
           x == [Merged(b) EXCEPT !.header.commit_ts = now, !.header.recv_ts = now]
           h == [b.header EXCEPT !.commit_ts = now, !.recv_ts = now]
<1>1. Merged(b) = [b EXCEPT !.tss_sig = sig] BY DEF Merged
<1> HIDE DEF sig
<1>2. Merged(b) = [header |-> b.header, tx_vec |-> b.tx_vec, votes |-> b.votes, tss_sig |-> sig]
  BY <1>1 DEF IsBlock
<1>6. x = [header |-> h, tx_vec |-> b.tx_vec, votes |-> b.votes, tss_sig |-> sig]
  <2> DEFINE y == [Merged(b) EXCEPT !.header.commit_ts = now]
  <2>1. y = [header |-> [b.header EXCEPT !.commit_ts = now], tx_vec |-> b.tx_vec,
             votes |-> b.votes, tss_sig |-> sig]
    BY <1>2
  <2>2. x = [y EXCEPT !.header.recv_ts = now] OBVIOUS
  <2> HIDE DEF y, x
  <2>3. x = [header |-> [[b.header EXCEPT !.commit_ts = now] EXCEPT !.recv_ts = now],
             tx_vec |-> b.tx_vec, votes |-> b.votes, tss_sig |-> sig]
    BY <2>1, <2>2
  <2> QED BY <2>3
<1>3. h \in Header BY DEF IsBlock, Header
<1> HIDE DEF h, x
<1>4. IsBlock(sg, x) BY <1>3, <1>6 DEF IsBlock
<1>5. x.votes = b.votes /\ x.tx_vec = b.tx_vec /\ x.tss_sig = sig BY <1>6
<1> QED BY <1>4, <1>5 DEF x, sig

-----------------------------------------------------------------------------
(* Servers, clients and the first block *)

LEMMA PackerIsServer == Packer \in Servers /\ ServerCount \in Nat /\ ServerCount > 0
BY ServerCountAssumption DEF Packer, Servers

LEMMA StubIsServer == \A c \in Clients : Stub(c, 0) \in Servers /\ Stub(c, 1) \in Servers
<1> SUFFICES ASSUME NEW c \in Clients PROVE Stub(c, 0) \in Servers /\ Stub(c, 1) \in Servers
  OBVIOUS
<1>1. c - 1 \in Nat BY ClientCountAssumption DEF Clients
<1>2. (c - 1) % ServerCount \in 0 .. ServerCount - 1 BY <1>1, ServerCountAssumption
<1> QED BY <1>2, ServerCountAssumption DEF Stub, Servers

LEMMA EnoughIsAll ==
    ASSUME NEW D \in SUBSET Clients, is_vote_enough(D)
    PROVE  D = Clients
<1>1. IsFiniteSet(Clients) /\ Cardinality(Clients) = ClientCount
  BY FS_Interval, ClientCountAssumption DEF Clients
<1>2. Cardinality(D) >= Cardinality(Clients) BY <1>1 DEF is_vote_enough
<1>3. Cardinality(D) <= Cardinality(Clients) BY <1>1, FS_Subset
<1>4. Cardinality(D) \in Nat BY <1>1, FS_Subset, FS_CardinalityType
<1>5. Cardinality(D) = Cardinality(Clients) BY <1>1, <1>2, <1>3, <1>4, ClientCountAssumption
<1> QED BY <1>1, <1>5, FS_Subset

LEMMA PackedIsFull ==
    ASSUME NEW sg
    PROVE  /\ IsFull(sg, Packed) /\ Packed.votes = [v \in {} |-> <<>>] /\ Len(Packed.tx_vec) = 2
           /\ Packed.header.id = FirstBlock
<1>1. FirstBlock \in Nat BY ServerCountAssumption, BlocksBeforeAssumption DEF FirstBlock, Packer
<1>2. /\ Packed.header = [id |-> FirstBlock, base_id |-> 0, proposal_ts |-> 1,
                          dist_ts |-> 0, commit_ts |-> 0, recv_ts |-> 0]
      /\ Packed.votes = [v \in {} |-> <<>>]
      /\ Packed.tx_vec =
           <<[id |-> 1, sender |-> 1, receiver |-> AccountCount, value |-> 0, fee |-> 1],
             [id |-> 2, sender |-> AccountCount, receiver |-> 1, value |-> 0, fee |-> 2]>>
      /\ Packed = [header |-> Packed.header, tx_vec |-> Packed.tx_vec,
                   votes |-> Packed.votes, tss_sig |-> Packed.tss_sig]
  BY DEF Packed, NewBlock
<1>3. Packed.header \in Header BY <1>1, <1>2 DEF Header
<1>4. Packed.tx_vec \in Seq(Tx) /\ Len(Packed.tx_vec) = 2
  BY <1>2, LedgerAssumption DEF Tx
<1>5. IsVoteMap(sg, Packed.votes) BY <1>2 DEF IsVoteMap
<1> QED BY <1>2, <1>3, <1>4, <1>5 DEF IsFull, IsBlock

-----------------------------------------------------------------------------
(* Sequences, by their elements *)

IsSeq(q) == q \in Seq(Elements(q))

LEMMA SeqEmpty == IsSeq(<<>>) /\ Elements(<<>>) = {}
BY DEF IsSeq, Elements

LEMMA SeqOne ==
    ASSUME NEW x
    PROVE  IsSeq(<<x>>) /\ Elements(<<x>>) = {x}
<1>1. Elements(<<x>>) = {x} BY DEF Elements
<1> QED BY <1>1 DEF IsSeq

LEMMA SeqAppend ==
    ASSUME NEW q, IsSeq(q), NEW x
    PROVE  IsSeq(Append(q, x)) /\ Elements(Append(q, x)) = Elements(q) \cup {x}
<1> DEFINE S == Elements(q) \cup {x}
<1> HIDE DEF S
<1>1. q \in Seq(S) /\ x \in S BY DEF IsSeq, S
<1>2. Append(q, x) \in Seq(S) /\ Len(Append(q, x)) = Len(q) + 1 /\ Len(q) \in Nat BY <1>1
<1>3. /\ \A i \in 1 .. Len(q) : Append(q, x)[i] = q[i]
      /\ Append(q, x)[Len(q) + 1] = x
  BY <1>1
<1>4. \A i \in 1 .. Len(q) + 1 : i \in 1 .. Len(q) \/ i = Len(q) + 1 BY <1>2
<1>5. \A i \in 1 .. Len(q) : i \in 1 .. Len(q) + 1 BY <1>2
<1>6. Len(q) + 1 \in 1 .. Len(q) + 1 BY <1>2
<1>7. Elements(Append(q, x)) = S
  BY <1>2, <1>3, <1>4, <1>5, <1>6 DEF Elements, S
<1> QED BY <1>2, <1>7 DEF IsSeq, S

LEMMA SeqOf ==
    ASSUME NEW S, NEW q \in Seq(S)
    PROVE  IsSeq(q)
<1>1. q \in [1 .. Len(q) -> Elements(q)] /\ Len(q) \in Nat
  <2>1. q = [i \in 1 .. Len(q) |-> q[i]] /\ Len(q) \in Nat OBVIOUS
  <2>2. \A i \in 1 .. Len(q) : q[i] \in Elements(q) BY DEF Elements
  <2> QED BY <2>1, <2>2
<1> QED BY <1>1, SeqDef DEF IsSeq

LEMMA SeqTail ==
    ASSUME NEW q, IsSeq(q), q # <<>>
    PROVE  /\ IsSeq(Tail(q)) /\ Elements(Tail(q)) \subseteq Elements(q)
           /\ Head(q) \in Elements(q) /\ Len(q) >= 1 /\ Len(q) \in Nat
<1>1. q \in Seq(Elements(q)) /\ Len(q) \in Nat BY DEF IsSeq
<1>2. Len(q) >= 1 /\ Len(Tail(q)) = Len(q) - 1 BY <1>1
<1>3. \A i \in 1 .. Len(Tail(q)) : Tail(q)[i] = q[i + 1] /\ i + 1 \in 1 .. Len(q) BY <1>1, <1>2
<1>4. Elements(Tail(q)) \subseteq Elements(q) BY <1>3 DEF Elements
<1>5. Head(q) \in Elements(q) BY <1>1, <1>2 DEF Elements
<1>6. Tail(q) \in Seq(Elements(q)) BY <1>1, <1>2
<1> QED BY <1>1, <1>2, <1>4, <1>5, <1>6, SeqOf

-----------------------------------------------------------------------------
(* The inductive invariant *)

(* The variables are functions on servers and clients. *)
Shape ==
    /\ DOMAIN obj = Servers /\ DOMAIN relayed = Servers /\ DOMAIN bcast = Servers
    /\ \A s \in Servers : DOMAIN relayed[s] = Servers /\ DOMAIN bcast[s] = Servers
    /\ DOMAIN got = Clients /\ DOMAIN out = Clients /\ DOMAIN signed = Clients

(* A server's object has the transactions and genuine votes; on its way to *)
(* the commit it has all of them, and its merged signature is of these.    *)
ObjectOK(sg, where, b) ==
    /\ IsFull(sg, b)
    /\ where \in {"merge", "committed"} => DOMAIN b.votes = Clients
    /\ where = "committed" /\ b.tss_sig # <<>> =>
          b.tss_sig = <<{b.votes[c].sig_share[1] : c \in Clients}>>

ServerOK(s) == ObjectOK(signed, place[s], obj[s])

(* A client has copies only after it got its key. *)
KeyOK(c) ==
    /\ key[c] \in {0, Stub(c, 0)}
    /\ key[c] = 0 => at[c] = 1 /\ ~hdr[c] /\ got[c] = <<>>

ClientOK(c) ==
    /\ IsSeq(got[c]) /\ \A b \in Elements(got[c]) : IsFull(signed, b)
    /\ out[c] = <<>> \/ (out[c] = <<out[c][1]>> /\ IsBlock(signed, out[c][1]))

RelayOK(s, t) ==
    IsSeq(relayed[s][t]) /\ \A bv \in Elements(relayed[s][t]) : \E c \in Clients : bv \in VotesBy(signed, c)

BcastOK(s, t) ==
    \/ bcast[s][t] = <<>>
    \/ /\ bcast[s][t] = <<bcast[s][t][1]>>
       /\ IsFull(signed, bcast[s][t][1]) /\ DOMAIN bcast[s][t][1].votes = Clients

(* The small variables. *)
SmallOK ==
    /\ key \in [Clients -> {0} \cup Servers]
    /\ synced \in 0 .. ServerCount
    /\ place \in [Servers -> {"packing", "pending", "merge", "committed"}]
    /\ seen \in [Servers -> SUBSET Clients]
    /\ at \in [Clients -> 1 .. 4]
    /\ hdr \in [Clients -> BOOLEAN]
    /\ stub \in [Clients -> {0, 1}]

SignInv ==
    /\ SmallOK /\ Shape
    /\ \A s \in Servers : ServerOK(s)
    /\ \A c \in Clients : KeyOK(c) /\ ClientOK(c)
    /\ \A s, t \in Servers : RelayOK(s, t) /\ BcastOK(s, t)

LEMMA SignInit == Init => SignInv
<1> SUFFICES ASSUME Init PROVE SignInv OBVIOUS
<1>1. SmallOK BY PackerIsServer DEF Init, SmallOK
<1>2. Shape BY DEF Init, Shape
<1>3. ASSUME NEW s \in Servers PROVE ServerOK(s)
  <2>1. obj[s] = Packed \/ obj[s] = Sent(Packed) BY DEF Init
  <2>2. IsFull(signed, Packed) BY PackedIsFull
  <2>3. IsFull(signed, Sent(Packed)) BY <2>2, SentKeeps DEF IsFull
  <2>4. place[s] \in {"packing", "pending"} BY DEF Init
  <2> QED BY <2>1, <2>2, <2>3, <2>4 DEF ServerOK, ObjectOK
<1>4. ASSUME NEW c \in Clients PROVE KeyOK(c) /\ ClientOK(c)
  BY SeqEmpty DEF Init, KeyOK, ClientOK
<1>5. ASSUME NEW s \in Servers, NEW t \in Servers PROVE RelayOK(s, t) /\ BcastOK(s, t)
  BY SeqEmpty DEF Init, RelayOK, BcastOK
<1> QED BY <1>1, <1>2, <1>3, <1>4, <1>5 DEF SignInv

(* What an insertion of a vote does to the servers' objects. *)
LEMMA InsertKeeps ==
    ASSUME SignInv, UNCHANGED signed, NEW s \in Servers, NEW c \in Clients,
           NEW bv, bv \in VotesBy(signed, c), InsertVote(s, c, bv)
    PROVE  /\ DOMAIN obj' = Servers
           /\ place' \in [Servers -> {"packing", "pending", "merge", "committed"}]
           /\ \A r \in Servers : ServerOK(r)'
           /\ \A r \in Servers : \A v \in DOMAIN obj[r].votes :
                 v \in DOMAIN obj'[r].votes /\ obj'[r].votes[v] = obj[r].votes[v]
<1>1. /\ place \in [Servers -> {"packing", "pending", "merge", "committed"}]
      /\ DOMAIN obj = Servers /\ \A r \in Servers : ServerOK(r)
  BY DEF SignInv, SmallOK, Shape
<1>2. CASE UNCHANGED <<obj, place>> BY <1>1, <1>2 DEF ServerOK
<1>3. CASE place[s] = "pending"
  <2> DEFINE v == MapInsert(obj[s].votes, c, bv)
  <2>1. /\ obj' = [obj EXCEPT ![s].votes = v]
        /\ place' = IF is_vote_enough(DOMAIN v) THEN [place EXCEPT ![s] = "merge"] ELSE place
    BY <1>3 DEF InsertVote
  <2>2. IsFull(signed, obj[s]) /\ IsVoteMap(signed, obj[s].votes)
    BY <1>1 DEF ServerOK, ObjectOK, IsFull, IsBlock
  <2>3. /\ IsVoteMap(signed, v) /\ DOMAIN v \subseteq Clients
        /\ \A w \in DOMAIN obj[s].votes : w \in DOMAIN v /\ v[w] = obj[s].votes[w]
    <3>1. /\ IsVoteMap(signed, v) /\ DOMAIN v = DOMAIN obj[s].votes \cup {c}
          /\ \A w \in DOMAIN obj[s].votes : v[w] = obj[s].votes[w]
      BY <2>2, VoteMapInsert
    <3> QED BY <3>1 DEF IsVoteMap
  <2> HIDE DEF v
  <2>4. obj'[s] = [obj[s] EXCEPT !.votes = v] /\ \A r \in Servers \ {s} : obj'[r] = obj[r]
    BY <1>1, <2>1
  <2>5. IsFull(signed, obj'[s]) /\ obj'[s].votes = v
    BY <2>2, <2>3, <2>4, BlockVotes DEF IsFull
  <2>6. /\ place' \in [Servers -> {"packing", "pending", "merge", "committed"}]
        /\ \A r \in Servers \ {s} : place'[r] = place[r]
        /\ place'[s] = "pending" \/ (place'[s] = "merge" /\ is_vote_enough(DOMAIN v))
    BY <1>1, <1>3, <2>1
  <2>7. is_vote_enough(DOMAIN v) => DOMAIN v = Clients BY <2>3, EnoughIsAll
  <2>8. ServerOK(s)' BY <2>5, <2>6, <2>7 DEF ServerOK, ObjectOK
  <2>9. \A r \in Servers \ {s} : ServerOK(r)' BY <1>1, <2>4, <2>6 DEF ServerOK
  <2>10. DOMAIN obj' = Servers BY <1>1, <2>1
  <2> QED BY <2>3, <2>4, <2>5, <2>6, <2>8, <2>9, <2>10
<1> QED BY <1>2, <1>3 DEF InsertVote

-----------------------------------------------------------------------------
(* The steps *)

(* The votes of a block that stays on its way to the merge queue stay. *)
VotesKept ==
    \A s \in Servers : place[s] = "pending" /\ place'[s] \in {"pending", "merge"} =>
        \A v \in DOMAIN obj[s].votes : v \in DOMAIN obj'[s].votes
                                       /\ obj'[s].votes[v] = obj[s].votes[v]

(* What a step that signs nothing leaves as it is. *)
LEMMA SameParts ==
    ASSUME SignInv, UNCHANGED signed
    PROVE  /\ UNCHANGED <<obj, place>> => VotesKept /\ \A s \in Servers : ServerOK(s)'
           /\ UNCHANGED <<got, out>> => \A c \in Clients : ClientOK(c)'
           /\ UNCHANGED <<key, at, hdr, got>> => \A c \in Clients : KeyOK(c)'
           /\ UNCHANGED relayed => \A s, t \in Servers : RelayOK(s, t)'
           /\ UNCHANGED bcast => \A s, t \in Servers : BcastOK(s, t)'
<1>1. UNCHANGED <<obj, place>> => VotesKept /\ \A s \in Servers : ServerOK(s)'
  BY DEF SignInv, ServerOK, VotesKept
<1>2. UNCHANGED <<got, out>> => \A c \in Clients : ClientOK(c)' BY DEF SignInv, ClientOK
<1>3. UNCHANGED <<key, at, hdr, got>> => \A c \in Clients : KeyOK(c)' BY DEF SignInv, KeyOK
<1>4. UNCHANGED relayed => \A s, t \in Servers : RelayOK(s, t)' BY DEF SignInv, RelayOK
<1>5. UNCHANGED bcast => \A s, t \in Servers : BcastOK(s, t)' BY DEF SignInv, BcastOK
<1> QED BY <1>1, <1>2, <1>3, <1>4, <1>5

LEMMA SignStart ==
    ASSUME SignInv, PackInsert \/ RelayBlockSync \/ UNCHANGED vars \/ \E c \in Clients : Register(c)
    PROVE  SignInv' /\ VotesKept
<1>1. SmallOK /\ Shape /\ (\A s \in Servers : ServerOK(s)) /\ \A c \in Clients : KeyOK(c)
  BY DEF SignInv
<1>2. UNCHANGED <<obj, got, out, relayed, bcast, signed, at, hdr>>
  BY DEF PackInsert, RelayBlockSync, Register, vars, serverVars, clientVars
<1>3. Shape' BY <1>1, <1>2 DEF Shape
<1>4. SmallOK'
  BY <1>1, PackerIsServer, StubIsServer
     DEF SmallOK, PackInsert, RelayBlockSync, Register, vars, serverVars, clientVars
<1>5. VotesKept BY <1>2 DEF VotesKept
<1>6. \A s \in Servers : ServerOK(s)'
  <2>1. \A s \in Servers : place'[s] = place[s] \/ place'[s] = "pending"
    BY <1>1 DEF SmallOK, PackInsert, RelayBlockSync, Register, vars, serverVars
  <2> QED BY <1>1, <1>2, <2>1 DEF ServerOK, ObjectOK
<1>7. \A c \in Clients : KeyOK(c)'
  <2>1. \A c \in Clients : key'[c] = key[c] \/ key'[c] = Stub(c, 0)
    BY <1>1 DEF SmallOK, PackInsert, RelayBlockSync, Register, vars
  <2>2. \A c \in Clients : key'[c] = 0 => key[c] = 0
    BY <1>1, <2>1, StubIsServer DEF KeyOK, Servers
  <2> QED BY <1>1, <1>2, <2>1, <2>2 DEF KeyOK
<1> QED BY <1>2, <1>3, <1>4, <1>5, <1>6, <1>7, SameParts DEF SignInv

LEMMA StubOfCall ==
    ASSUME NEW c \in Clients, NEW k \in {0, 1}
    PROVE  Stub(c, k) \in Servers
BY StubIsServer

LEMMA SignPull ==
    ASSUME SignInv, NEW c \in Clients, NEW now \in Times, PullPendingBlocks(c, now)
    PROVE  SignInv' /\ VotesKept
<1> DEFINE s == Stub(c, at[c] - 1)
           h == [obj[s].header EXCEPT !.dist_ts = now]
<1>1. SmallOK /\ Shape /\ (\A r \in Servers : ServerOK(r)) /\ \A d \in Clients : KeyOK(d)
  BY DEF SignInv
<1>2. /\ key[c] # 0 /\ at[c] \in {1, 2}
      /\ UNCHANGED <<key, synced, place, got, out, stub, relayed, bcast, signed>>
  BY DEF PullPendingBlocks
<1>3. s \in Servers /\ now \in Nat
  <2>1. at[c] - 1 \in {0, 1} BY <1>2
  <2> QED BY <2>1, StubOfCall, TimesAssumption
<1>4. obj' = obj \/ obj' = [obj EXCEPT ![s].header.dist_ts = now] BY DEF PullPendingBlocks
<1>5. /\ seen' = seen \/ seen' = [seen EXCEPT ![s] = @ \cup {c}]
      /\ \E p \in BOOLEAN : hdr' = [hdr EXCEPT ![c] = p]
      /\ \E a \in {1, at[c] + 1} : at' = [at EXCEPT ![c] = a]
  <2>1. hdr' = [hdr EXCEPT ![c] = @ \/ (place[s] = "pending" /\ s <= synced /\ c \notin seen[s])]
    BY DEF PullPendingBlocks
  <2>2. hdr[c] \in BOOLEAN BY <1>1 DEF SmallOK
  <2>3. \E p \in BOOLEAN : hdr' = [hdr EXCEPT ![c] = p] BY <2>1, <2>2
  <2>4. at' = [at EXCEPT ![c] = IF @ = 2 /\ ~hdr'[c] THEN 1 ELSE @ + 1] BY DEF PullPendingBlocks
  <2>5. \E a \in {1, at[c] + 1} : at' = [at EXCEPT ![c] = a] BY <2>4
  <2> QED BY <2>3, <2>5 DEF PullPendingBlocks
<1> HIDE DEF s
<1>6. SmallOK' BY <1>1, <1>2, <1>3, <1>5 DEF SmallOK
<1>7. obj' = obj \/ obj' = [obj EXCEPT ![s] = [obj[s] EXCEPT !.header = h]] BY <1>4
<1>8. /\ ObjectOK(signed, place[s], [obj[s] EXCEPT !.header = h])
      /\ [obj[s] EXCEPT !.header = h].votes = obj[s].votes
  <2>1. ObjectOK(signed, place[s], obj[s]) BY <1>1, <1>3 DEF ServerOK
  <2>2. IsBlock(signed, obj[s]) /\ obj[s].tx_vec = Packed.tx_vec BY <2>1 DEF ObjectOK, IsFull
  <2>3. h \in Header BY <1>3, <2>2 DEF IsBlock, Header
  <2> DEFINE x == [obj[s] EXCEPT !.header = h]
  <2>4. /\ IsBlock(signed, x) /\ x.votes = obj[s].votes /\ x.tx_vec = obj[s].tx_vec
        /\ x.tss_sig = obj[s].tss_sig
    BY <2>2, <2>3, BlockHeader
  <2> HIDE DEF x
  <2>5. ObjectOK(signed, place[s], x) BY <2>1, <2>2, <2>4 DEF ObjectOK, IsFull
  <2> QED BY <2>4, <2>5 DEF x
<1>9. \A r \in Servers : ServerOK(r)' /\ obj'[r].votes = obj[r].votes
  <2>1. ASSUME NEW r \in Servers
        PROVE  obj'[r] = obj[r] \/ (r = s /\ obj'[r] = [obj[s] EXCEPT !.header = h])
    BY <1>1, <1>7 DEF Shape
  <2> QED BY <1>1, <1>2, <1>8, <2>1 DEF ServerOK
<1>10. VotesKept BY <1>9 DEF VotesKept
<1>11. Shape' BY <1>1, <1>2, <1>7 DEF Shape
<1>12. \A d \in Clients : KeyOK(d)' BY <1>1, <1>2, <1>5 DEF KeyOK, SmallOK
<1> QED BY <1>2, <1>6, <1>9, <1>10, <1>11, <1>12, SameParts DEF SignInv

LEMMA SignGet ==
    ASSUME SignInv, NEW c \in Clients, GetBlocks(c)
    PROVE  SignInv' /\ VotesKept
<1> DEFINE s == Stub(c, at[c] - 3)
<1>1. SmallOK /\ Shape /\ \A r \in Servers : ServerOK(r) BY DEF SignInv
<1>2. \A d \in Clients : KeyOK(d) /\ ClientOK(d) BY DEF SignInv
<1>3. /\ at[c] \in {3, 4}
      /\ UNCHANGED <<key, out, stub, signed, synced, obj, place, seen, relayed, bcast>>
      /\ got' = got \/ got' = [got EXCEPT ![c] = Append(@, Sent(obj[s]))]
  BY DEF GetBlocks, serverVars
<1>4. s \in Servers
  <2>1. at[c] - 3 \in {0, 1} BY <1>3
  <2> QED BY <2>1, StubOfCall
<1>5. key[c] # 0 BY <1>2, <1>3 DEF KeyOK
<1>6. /\ \E p \in BOOLEAN : hdr' = [hdr EXCEPT ![c] = p]
      /\ \E a \in {1, 4} : at' = [at EXCEPT ![c] = a]
  <2>1. hdr' = [hdr EXCEPT ![c] = @ /\ ~(hdr[c] /\ place[s] = "pending")] BY DEF GetBlocks
  <2>2. at' = [at EXCEPT ![c] = IF @ = 3 /\ hdr'[c] THEN 4 ELSE 1] BY DEF GetBlocks
  <2>3. \E a \in {1, 4} : at' = [at EXCEPT ![c] = a] BY <2>2
  <2>4. (hdr[c] /\ ~(hdr[c] /\ place[s] = "pending")) \in BOOLEAN OBVIOUS
  <2>5. \E p \in BOOLEAN : hdr' = [hdr EXCEPT ![c] = p] BY <2>1, <2>4
  <2> QED BY <2>3, <2>5
<1> HIDE DEF s
<1>7. SmallOK' BY <1>1, <1>3, <1>6 DEF SmallOK
<1>8. IsFull(signed, Sent(obj[s]))
  <2>1. IsFull(signed, obj[s]) BY <1>1, <1>4 DEF ServerOK, ObjectOK
  <2> QED BY <2>1, SentKeeps DEF IsFull
<1>9. ASSUME NEW d \in Clients PROVE ClientOK(d)'
  <2>1. \/ got'[d] = got[d]
        \/ d = c /\ got'[d] = Append(got[c], Sent(obj[s]))
    BY <1>1, <1>3 DEF Shape
  <2>2. CASE got'[d] = got[d] BY <1>2, <1>3, <2>2 DEF ClientOK
  <2>3. CASE d = c /\ got'[d] = Append(got[c], Sent(obj[s]))
    <3>1. IsSeq(got[c]) /\ \A b \in Elements(got[c]) : IsFull(signed, b) BY <1>2 DEF ClientOK
    <3>2. IsSeq(got'[d]) /\ Elements(got'[d]) = Elements(got[c]) \cup {Sent(obj[s])}
      BY <2>3, <3>1, SeqAppend
    <3>3. \A b \in Elements(got'[d]) : IsFull(signed, b) BY <1>8, <3>1, <3>2
    <3> QED BY <1>2, <1>3, <3>2, <3>3 DEF ClientOK
  <2> QED BY <2>1, <2>2, <2>3
<1>10. ASSUME NEW d \in Clients PROVE KeyOK(d)'
  BY <1>1, <1>2, <1>3, <1>5, <1>6 DEF KeyOK, SmallOK, Shape
<1>11. Shape' BY <1>1, <1>3 DEF Shape
<1> QED BY <1>3, <1>7, <1>9, <1>10, <1>11, SameParts DEF SignInv

(* The client signs its copy; the vote it puts in covers none of its own. *)
LEMMA SignVote ==
    ASSUME SignInv, NEW c \in Clients, VoteSign(c)
    PROVE  SignInv' /\ VotesKept
<1> DEFINE b == Head(got[c])
           d == get_sha256(b)
           bv == [block_id |-> b.header.id, voter_id |-> c, sig_share |-> <<sign(c, d)>>]
           f == MapInsert(b.votes, c, bv)
<1>1. SmallOK /\ Shape /\ \A r \in Servers : ServerOK(r) BY DEF SignInv
<1>2. \A e \in Clients : KeyOK(e) /\ ClientOK(e) BY DEF SignInv
<1>3. /\ got[c] # <<>> /\ got' = [got EXCEPT ![c] = Tail(@)]
      /\ signed' = [signed EXCEPT ![c] = @ \cup {d}]
      /\ out' = [out EXCEPT ![c] = <<[b EXCEPT !.tx_vec = <<>>, !.votes = f]>>]
      /\ UNCHANGED <<key, at, hdr, stub, synced, obj, place, seen, relayed, bcast>>
  BY DEF VoteSign, serverVars
<1>4. IsSeq(got[c]) /\ \A x \in Elements(got[c]) : IsFull(signed, x) BY <1>2 DEF ClientOK
<1>5. IsSeq(Tail(got[c])) /\ Elements(Tail(got[c])) \subseteq Elements(got[c]) /\ b \in Elements(got[c])
  BY <1>3, <1>4, SeqTail
<1>6. IsFull(signed, b) BY <1>4, <1>5
<1>7. key[c] = Stub(c, 0) BY <1>2, <1>3 DEF KeyOK
<1>8. d.tx_vec = Packed.tx_vec /\ d.votes = b.votes BY <1>6 DEF get_sha256, pack_Block, IsFull
<1>9. bv = VoteOf(c, d)
  <2>1. b.header.id = FirstBlock BY <1>6 DEF IsFull, IsBlock, Header
  <2>2. sign(c, d) = ShareOf(c, d) BY <1>7 DEF sign, ShareOf
  <2> QED BY <2>1, <2>2 DEF VoteOf
<1>10. \A e \in Clients : signed[e] \subseteq signed'[e] BY <1>1, <1>3 DEF Shape
<1>11. d \in signed'[c] BY <1>1, <1>3 DEF Shape
<1>12. /\ \A e \in Clients : VotesBy(signed, e) \subseteq VotesBy(signed', e)
       /\ \A x : IsBlock(signed, x) => IsBlock(signed', x)
  BY <1>10, MoreSigned
<1>13. \A x : IsFull(signed, x) => IsFull(signed', x) BY <1>12 DEF IsFull
<1> HIDE DEF b, d, bv
<1>14. IsVoteMap(signed', b.votes) BY <1>6, <1>12 DEF IsFull, IsBlock
<1>15. IsVoteMap(signed', f)
  <2>1. CASE c \in DOMAIN b.votes
    <3>1. f = b.votes BY <2>1 DEF MapInsert
    <3> QED BY <1>14, <3>1
  <2>2. CASE c \notin DOMAIN b.votes
    <3>1. d \in Signable(signed', c) BY <1>8, <1>11, <2>2 DEF Signable
    <3>2. bv \in VotesBy(signed', c) BY <1>9, <3>1 DEF VotesBy
    <3> QED BY <1>14, <3>2, VoteMapInsert
  <2> QED BY <2>1, <2>2
<1> HIDE DEF f
<1> DEFINE x == [b EXCEPT !.tx_vec = <<>>, !.votes = f]
<1>16. IsBlock(signed', x)
  <2>1. b = [header |-> b.header, tx_vec |-> b.tx_vec, votes |-> b.votes, tss_sig |-> b.tss_sig]
    BY <1>6 DEF IsFull, IsBlock
  <2>2. x = [header |-> b.header, tx_vec |-> <<>>, votes |-> f, tss_sig |-> b.tss_sig]
    <3> DEFINE y == [b EXCEPT !.tx_vec = <<>>]
    <3>1. y = [header |-> b.header, tx_vec |-> <<>>, votes |-> b.votes, tss_sig |-> b.tss_sig]
      BY <2>1
    <3>2. x = [y EXCEPT !.votes = f] OBVIOUS
    <3> HIDE DEF x, y
    <3> QED BY <3>1, <3>2
  <2>3. b.header \in Header /\ <<>> \in Seq(Tx) BY <1>6 DEF IsFull, IsBlock
  <2> HIDE DEF x
  <2> QED BY <1>15, <2>2, <2>3 DEF IsBlock
<1> HIDE DEF x
<1>17. ASSUME NEW e \in Clients PROVE ClientOK(e)'
  <2>1. CASE e = c
    <3>1. got'[e] = Tail(got[c]) /\ out'[e] = <<x>> BY <1>1, <1>3, <2>1 DEF Shape, x
    <3>2. out'[e] = <<out'[e][1]>> /\ out'[e][1] = x BY <3>1
    <3>3. \A y \in Elements(got'[e]) : IsFull(signed', y) BY <1>4, <1>5, <1>13, <3>1
    <3> QED BY <1>5, <1>16, <3>1, <3>2, <3>3 DEF ClientOK
  <2>2. CASE e # c
    <3>1. got'[e] = got[e] /\ out'[e] = out[e] BY <1>1, <1>3, <2>2 DEF Shape
    <3> QED BY <1>2, <1>12, <1>13, <3>1 DEF ClientOK
  <2> QED BY <2>1, <2>2
<1>18. \A r \in Servers : ServerOK(r)' BY <1>1, <1>3, <1>13 DEF ServerOK, ObjectOK
<1>19. \A r, t \in Servers : RelayOK(r, t)' /\ BcastOK(r, t)'
  <2>1. \A r, t \in Servers : RelayOK(r, t) /\ BcastOK(r, t) BY DEF SignInv
  <2>2. \A r, t \in Servers : RelayOK(r, t)' BY <1>3, <1>12, <2>1 DEF RelayOK
  <2>3. \A r, t \in Servers : BcastOK(r, t)' BY <1>3, <1>13, <2>1 DEF BcastOK
  <2> QED BY <2>2, <2>3
<1>20. ASSUME NEW e \in Clients PROVE KeyOK(e)'
  <2>1. CASE e = c BY <1>2, <1>3, <1>7, <2>1, StubIsServer DEF KeyOK, Servers
  <2>2. CASE e # c BY <1>1, <1>2, <1>3, <2>2 DEF KeyOK, Shape
  <2> QED BY <2>1, <2>2
<1>21. Shape' BY <1>1, <1>3 DEF Shape
<1>22. SmallOK' BY <1>1, <1>3 DEF SmallOK
<1>23. VotesKept BY <1>3 DEF VotesKept
<1> QED BY <1>17, <1>18, <1>19, <1>20, <1>21, <1>22, <1>23 DEF SignInv

(* The handler VoteBlocks uses the sender's vote, which is genuine. *)
LEMMA SignVoteBlocks ==
    ASSUME SignInv, NEW c \in Clients, VoteBlocks(c)
    PROVE  SignInv' /\ VotesKept
<1> DEFINE s == Stub(c, stub[c])
           b == Sent(out[c][1])
           bps == get_server_id(b.header.id)
<1>1. SmallOK /\ Shape /\ \A r \in Servers : ServerOK(r) BY DEF SignInv
<1>2. \A e \in Clients : KeyOK(e) /\ ClientOK(e) BY DEF SignInv
<1>3. \A r, t \in Servers : RelayOK(r, t) /\ BcastOK(r, t) BY DEF SignInv
<1>4. /\ out[c] # <<>>
      /\ relayed' = [relayed EXCEPT ![s] = [t \in Servers |->
             IF c \in DOMAIN b.votes /\ t \in bps \ {s} THEN Append(@[t], b.votes[c]) ELSE @[t]]]
      /\ IF c \in DOMAIN b.votes /\ s \in bps
         THEN InsertVote(s, c, b.votes[c]) ELSE UNCHANGED <<obj, place>>
      /\ stub' = [stub EXCEPT ![c] = 1 - @]
      /\ out' = [out EXCEPT ![c] = <<>>] \/ out' = out
      /\ UNCHANGED <<key, synced, seen, at, hdr, got, bcast, signed>>
  BY DEF VoteBlocks
<1>5. s \in Servers
  <2>1. stub[c] \in {0, 1} BY <1>1 DEF SmallOK
  <2> QED BY <2>1, StubOfCall
<1>6. IsBlock(signed, out[c][1]) BY <1>2, <1>4 DEF ClientOK
<1>7. IsBlock(signed, b) BY <1>6, SentKeeps
<1> HIDE DEF b, s
<1>8. c \in DOMAIN b.votes => b.votes[c] \in VotesBy(signed, c) BY <1>7 DEF IsBlock, IsVoteMap
<1>9. /\ DOMAIN obj' = Servers
      /\ place' \in [Servers -> {"packing", "pending", "merge", "committed"}]
      /\ VotesKept /\ \A r \in Servers : ServerOK(r)'
  <2>1. CASE UNCHANGED <<obj, place>>
    BY <1>1, <1>4, <2>1, SameParts DEF Shape, SmallOK
  <2>2. CASE c \in DOMAIN b.votes /\ InsertVote(s, c, b.votes[c])
    <3>1. PICK bv : bv = b.votes[c] OBVIOUS
    <3>2. /\ DOMAIN obj' = Servers
          /\ place' \in [Servers -> {"packing", "pending", "merge", "committed"}]
          /\ \A r \in Servers : ServerOK(r)'
          /\ \A r \in Servers : \A v \in DOMAIN obj[r].votes :
                v \in DOMAIN obj'[r].votes /\ obj'[r].votes[v] = obj[r].votes[v]
      BY <1>4, <1>5, <1>8, <2>2, <3>1, InsertKeeps
    <3>3. VotesKept BY <3>2 DEF VotesKept
    <3> QED BY <3>2, <3>3
  <2> QED BY <1>4, <2>1, <2>2
<1>10. ASSUME NEW r \in Servers, NEW t \in Servers PROVE RelayOK(r, t)'
  <2>1. \/ relayed'[r][t] = relayed[r][t]
        \/ c \in DOMAIN b.votes /\ relayed'[r][t] = Append(relayed[r][t], b.votes[c])
    <3> HIDE DEF bps
    <3>1. CASE r = s
      <4>1. relayed'[r] = [u \in Servers |->
               IF c \in DOMAIN b.votes /\ u \in bps \ {s}
               THEN Append(relayed[r][u], b.votes[c]) ELSE relayed[r][u]]
        BY <1>1, <1>4, <3>1 DEF Shape
      <4> QED BY <4>1
    <3>2. CASE r # s
      <4>1. relayed'[r] = relayed[r] BY <1>1, <1>4, <3>2 DEF Shape
      <4> QED BY <4>1
    <3> QED BY <3>1, <3>2
  <2>2. CASE relayed'[r][t] = relayed[r][t] BY <1>3, <1>4, <2>2 DEF RelayOK
  <2>3. CASE c \in DOMAIN b.votes /\ relayed'[r][t] = Append(relayed[r][t], b.votes[c])
    <3>1. IsSeq(relayed[r][t]) BY <1>3 DEF RelayOK
    <3>2. /\ IsSeq(relayed'[r][t])
          /\ Elements(relayed'[r][t]) = Elements(relayed[r][t]) \cup {b.votes[c]}
      BY <2>3, <3>1, SeqAppend
    <3> QED BY <1>3, <1>4, <1>8, <2>3, <3>2 DEF RelayOK
  <2> QED BY <2>1, <2>2, <2>3
<1>11. Shape'
  <2>1. DOMAIN relayed' = Servers /\ \A r \in Servers : DOMAIN relayed'[r] = Servers
    <3> DEFINE row == [t \in Servers |-> IF c \in DOMAIN b.votes /\ t \in bps \ {s}
                                         THEN Append(relayed[s][t], b.votes[c]) ELSE relayed[s][t]]
    <3>1. relayed' = [relayed EXCEPT ![s] = row] BY <1>4
    <3>2. DOMAIN row = Servers OBVIOUS
    <3> HIDE DEF row
    <3> QED BY <1>1, <3>1, <3>2 DEF Shape
  <2> QED BY <1>1, <1>4, <1>9, <2>1 DEF Shape
<1>12. SmallOK'
  <2>1. stub' \in [Clients -> {0, 1}] BY <1>1, <1>4 DEF SmallOK
  <2> QED BY <1>1, <1>4, <1>9, <2>1 DEF SmallOK
<1>13. \A e \in Clients : ClientOK(e)'
  <2>1. \A e \in Clients : out'[e] = <<>> \/ out'[e] = out[e] BY <1>1, <1>4 DEF Shape
  <2> QED BY <1>2, <1>4, <2>1 DEF ClientOK
<1> QED BY <1>4, <1>9, <1>10, <1>11, <1>12, <1>13, SameParts DEF SignInv

LEMMA SignRelay ==
    ASSUME SignInv, NEW s \in Servers, NEW t \in Servers, RelayVote(s, t)
    PROVE  SignInv' /\ VotesKept
<1>1. SmallOK /\ Shape /\ \A r \in Servers : ServerOK(r) BY DEF SignInv
<1>2. \A r, u \in Servers : RelayOK(r, u) BY DEF SignInv
<1> DEFINE hd == Head(relayed[s][t])
           bv == VoteFromBytes(VoteToBytes(hd))
<1>3. /\ relayed[s][t] # <<>> /\ InsertVote(t, bv.voter_id, bv)
      /\ relayed' = [relayed EXCEPT ![s][t] = Tail(@)]
      /\ UNCHANGED <<key, synced, seen, bcast, at, hdr, got, out, stub, signed>>
  BY DEF RelayVote, clientVars
<1>4. /\ IsSeq(Tail(relayed[s][t])) /\ Elements(Tail(relayed[s][t])) \subseteq Elements(relayed[s][t])
      /\ hd \in Elements(relayed[s][t])
  BY <1>2, <1>3, SeqTail DEF RelayOK
<1>5. PICK c \in Clients : hd \in VotesBy(signed, c) BY <1>2, <1>4 DEF RelayOK
<1> HIDE DEF hd
<1>6. bv = hd /\ bv.voter_id = c BY <1>5, VoteBack
<1> HIDE DEF bv
<1>7. InsertVote(t, c, bv) /\ bv \in VotesBy(signed, c) BY <1>3, <1>5, <1>6
<1>8. /\ DOMAIN obj' = Servers
      /\ place' \in [Servers -> {"packing", "pending", "merge", "committed"}]
      /\ \A r \in Servers : ServerOK(r)'
      /\ \A r \in Servers : \A v \in DOMAIN obj[r].votes :
            v \in DOMAIN obj'[r].votes /\ obj'[r].votes[v] = obj[r].votes[v]
  BY <1>3, <1>7, InsertKeeps
<1>9. VotesKept BY <1>8 DEF VotesKept
<1>10. ASSUME NEW r \in Servers, NEW u \in Servers PROVE RelayOK(r, u)'
  <2>1. \/ relayed'[r][u] = relayed[r][u]
        \/ r = s /\ u = t /\ relayed'[r][u] = Tail(relayed[s][t])
    BY <1>1, <1>3 DEF Shape
  <2> QED BY <1>2, <1>3, <1>4, <2>1 DEF RelayOK
<1>11. Shape' BY <1>1, <1>3, <1>8 DEF Shape
<1>12. SmallOK' BY <1>1, <1>3, <1>8 DEF SmallOK
<1> QED BY <1>3, <1>8, <1>9, <1>10, <1>11, <1>12, SameParts DEF SignInv

LEMMA SignMerge ==
    ASSUME SignInv, NEW s \in Servers, NEW now \in Times, MergeVotes(s, now)
    PROVE  SignInv' /\ VotesKept
<1> DEFINE b == [Merged(obj[s]) EXCEPT !.header.commit_ts = now, !.header.recv_ts = now]
<1>1. SmallOK /\ Shape /\ \A r \in Servers : ServerOK(r) BY DEF SignInv
<1>2. \A r, u \in Servers : BcastOK(r, u) BY DEF SignInv
<1>3. /\ place[s] = "merge" /\ obj' = [obj EXCEPT ![s] = b]
      /\ place' = [place EXCEPT ![s] = "committed"]
      /\ bcast' = [bcast EXCEPT ![s] = [t \in Servers |-> IF t # s THEN <<b>> ELSE <<>>]]
      /\ UNCHANGED <<key, synced, seen, relayed, at, hdr, got, out, stub, signed>>
  BY DEF MergeVotes, clientVars
<1>4. IsFull(signed, obj[s]) /\ DOMAIN obj[s].votes = Clients
  BY <1>1, <1>3 DEF ServerOK, ObjectOK
<1>5. /\ IsBlock(signed, b) /\ b.votes = obj[s].votes /\ b.tx_vec = obj[s].tx_vec
      /\ b.tss_sig = <<{obj[s].votes[v].sig_share[1] : v \in DOMAIN obj[s].votes}>>
  BY <1>4, BlockMerged, TimesAssumption DEF IsFull
<1> HIDE DEF b
<1>6. IsFull(signed, b) /\ DOMAIN b.votes = Clients BY <1>4, <1>5 DEF IsFull
<1>7. ObjectOK(signed, "committed", b) BY <1>4, <1>5, <1>6 DEF ObjectOK
<1>8. ASSUME NEW r \in Servers PROVE ServerOK(r)'
  <2>1. CASE r = s
    <3>1. obj'[r] = b /\ place'[r] = "committed" BY <1>1, <1>3, <2>1 DEF Shape, SmallOK
    <3> QED BY <1>3, <1>7, <3>1 DEF ServerOK
  <2>2. CASE r # s
    <3>1. obj'[r] = obj[r] /\ place'[r] = place[r] BY <1>1, <1>3, <2>2 DEF Shape, SmallOK
    <3> QED BY <1>1, <1>3, <3>1 DEF ServerOK
  <2> QED BY <2>1, <2>2
<1>9. VotesKept
  <2>1. \A r \in Servers \ {s} : obj'[r] = obj[r] BY <1>1, <1>3 DEF Shape
  <2> QED BY <1>3, <2>1 DEF VotesKept
<1>10. ASSUME NEW r \in Servers, NEW t \in Servers PROVE BcastOK(r, t)'
  <2>1. bcast'[r][t] = bcast[r][t] \/ bcast'[r][t] = <<>> \/ bcast'[r][t] = <<b>>
    BY <1>1, <1>3 DEF Shape
  <2>2. CASE bcast'[r][t] = <<b>>
    <3>1. bcast'[r][t][1] = b BY <2>2
    <3> QED BY <1>3, <1>6, <2>2, <3>1 DEF BcastOK
  <2> QED BY <1>2, <1>3, <2>1, <2>2 DEF BcastOK
<1>11. Shape'
  <2>1. DOMAIN bcast' = Servers /\ \A r \in Servers : DOMAIN bcast'[r] = Servers
    BY <1>1, <1>3 DEF Shape
  <2> QED BY <1>1, <1>3, <2>1 DEF Shape
<1>12. SmallOK' BY <1>1, <1>3 DEF SmallOK
<1> QED BY <1>3, <1>8, <1>9, <1>10, <1>11, <1>12, SameParts DEF SignInv

LEMMA SignCommit ==
    ASSUME SignInv, NEW s \in Servers, NEW t \in Servers, NEW now \in Times, SPBcastCommit(s, t, now)
    PROVE  SignInv' /\ VotesKept
<1> DEFINE a == Sent(bcast[s][t][1])
           b == [a EXCEPT !.header.recv_ts = now]
           h == [a.header EXCEPT !.recv_ts = now]
<1>1. SmallOK /\ Shape /\ \A r \in Servers : ServerOK(r) BY DEF SignInv
<1>2. \A r, u \in Servers : BcastOK(r, u) BY DEF SignInv
<1>3. /\ bcast[s][t] # <<>> /\ bcast' = [bcast EXCEPT ![s][t] = <<>>]
      /\ \/ UNCHANGED <<obj, place>>
         \/ /\ obj' = [obj EXCEPT ![t] = b]
            /\ place' = [place EXCEPT ![t] = "committed"]
      /\ UNCHANGED <<key, synced, seen, relayed, at, hdr, got, out, stub, signed>>
  BY DEF SPBcastCommit, clientVars
<1>4. IsFull(signed, bcast[s][t][1]) /\ DOMAIN bcast[s][t][1].votes = Clients
  BY <1>2, <1>3 DEF BcastOK
<1>5. IsFull(signed, a) /\ DOMAIN a.votes = Clients /\ a.tss_sig = <<>>
  BY <1>4, SentKeeps DEF IsFull
<1> HIDE DEF a
<1>6. h \in Header BY <1>5, TimesAssumption DEF IsFull, IsBlock, Header
<1>7. b = [a EXCEPT !.header = h] OBVIOUS
<1> HIDE DEF h, b
<1>8. IsBlock(signed, b) /\ b.votes = a.votes /\ b.tx_vec = a.tx_vec /\ b.tss_sig = a.tss_sig
  BY <1>5, <1>6, <1>7, BlockHeader DEF IsFull
<1>9. ObjectOK(signed, "committed", b) BY <1>5, <1>8 DEF ObjectOK, IsFull
<1>10. ASSUME NEW r \in Servers
       PROVE  \/ obj'[r] = obj[r] /\ place'[r] = place[r]
              \/ obj'[r] = b /\ place'[r] = "committed"
  BY <1>1, <1>3 DEF Shape, SmallOK
<1>11. \A r \in Servers : ServerOK(r)' BY <1>1, <1>3, <1>9, <1>10 DEF ServerOK
<1>12. VotesKept BY <1>10 DEF VotesKept
<1>13. \A r, u \in Servers : BcastOK(r, u)'
  <2>1. \A r, u \in Servers : bcast'[r][u] = bcast[r][u] \/ bcast'[r][u] = <<>>
    BY <1>1, <1>3 DEF Shape
  <2> QED BY <1>2, <1>3, <2>1 DEF BcastOK
<1>14. Shape' BY <1>1, <1>3 DEF Shape
<1>15. SmallOK' BY <1>1, <1>3 DEF SmallOK
<1> QED BY <1>3, <1>11, <1>12, <1>13, <1>14, <1>15, SameParts DEF SignInv

LEMMA SignNext == SignInv /\ [Next]_vars => SignInv' /\ VotesKept
BY SignStart, SignPull, SignGet, SignVote, SignVoteBlocks, SignRelay, SignMerge, SignCommit
   DEF Next, Done

-----------------------------------------------------------------------------
(* What follows for copies and votes *)

LEMMA CopiesAreBlocks ==
    ASSUME SignInv
    PROVE  \A b \in Copies : IsBlock(signed, b)
<1>1. \A s \in Servers : IsBlock(signed, obj[s]) BY DEF SignInv, ServerOK, ObjectOK, IsFull
<1>2. \A c \in Clients : ClientOK(c) BY DEF SignInv
<1>3. ASSUME NEW c \in Clients, NEW b \in Elements(got[c]) PROVE IsBlock(signed, b)
  BY <1>2 DEF ClientOK, IsFull
<1>4. ASSUME NEW c \in Clients, NEW b \in Elements(out[c]) PROVE IsBlock(signed, b)
  <2>1. CASE out[c] = <<>> BY <2>1, SeqEmpty
  <2>2. CASE out[c] = <<out[c][1]>> /\ IsBlock(signed, out[c][1]) BY <2>2, SeqOne
  <2> QED BY <1>2, <2>1, <2>2 DEF ClientOK
<1>5. ASSUME NEW s \in Servers, NEW t \in Servers, NEW b \in Elements(bcast[s][t])
      PROVE  IsBlock(signed, b)
  <2>1. BcastOK(s, t) BY DEF SignInv
  <2>2. CASE bcast[s][t] = <<>> BY <2>2, SeqEmpty
  <2>3. CASE bcast[s][t] = <<bcast[s][t][1]>> /\ IsFull(signed, bcast[s][t][1])
    BY <2>3, SeqOne DEF IsFull
  <2> QED BY <2>1, <2>2, <2>3 DEF BcastOK
<1> QED BY <1>1, <1>3, <1>4, <1>5 DEF Copies

LEMMA VotesAreGenuine ==
    ASSUME SignInv, NEW bv \in Votes
    PROVE  \E c \in Clients : bv \in VotesBy(signed, c)
<1>1. CASE \E b \in Copies : \E v \in DOMAIN b.votes : bv = b.votes[v]
  <2>1. PICK b \in Copies : \E v \in DOMAIN b.votes : bv = b.votes[v] BY <1>1
  <2>2. PICK v \in DOMAIN b.votes : bv = b.votes[v] BY <2>1
  <2>3. IsVoteMap(signed, b.votes) BY CopiesAreBlocks DEF IsBlock
  <2> QED BY <2>2, <2>3 DEF IsVoteMap
<1>2. CASE \E s, t \in Servers : bv \in Elements(relayed[s][t])
  BY <1>2 DEF SignInv, RelayOK
<1> QED BY <1>1, <1>2 DEF Votes

LEMMA VoteParts ==
    ASSUME NEW sg, NEW c, NEW bv \in VotesBy(sg, c)
    PROVE  \E d \in Signable(sg, c) :
              /\ bv.voter_id = c /\ bv.sig_share[1].signer = c
              /\ bv.sig_share[1].g1 = [key |-> Stub(c, 0), digest |-> d, by |-> c]
BY DEF VotesBy, VoteOf, ShareOf

LEMMA SignInvariant == Spec => []SignInv
BY SignInit, SignNext, PTL DEF Spec

(* The servers' objects, the clients' copies and the queues keep their     *)
(* types; the objects are those of the one block and hold votes of clients *)
(* only.                                                                   *)
THEOREM SignTypeCorrect == Spec => []TypeOK
<1>1. SignInv => TypeOK
  <2> SUFFICES ASSUME SignInv PROVE TypeOK OBVIOUS
  <2>1. \A s \in Servers : IsBlock(signed, obj[s]) BY DEF SignInv, ServerOK, ObjectOK, IsFull
  <2>2. ASSUME NEW s \in Servers
        PROVE  obj[s].header.id = FirstBlock /\ DOMAIN obj[s].votes \subseteq Clients
    BY <2>1 DEF IsBlock, Header, IsVoteMap
  <2>3. ASSUME NEW c \in Clients PROVE Len(out[c]) <= 1
    <3>1. out[c] = <<>> \/ out[c] = <<out[c][1]>> BY DEF SignInv, ClientOK
    <3>2. CASE out[c] = <<>> BY <3>2
    <3>3. CASE out[c] = <<out[c][1]>>
      <4>1. PICK x : x = out[c][1] OBVIOUS
      <4>2. out[c] = <<x>> BY <3>3, <4>1
      <4> QED BY <4>2
    <3> QED BY <3>1, <3>2, <3>3
  <2> QED BY <2>2, <2>3 DEF SignInv, SmallOK, TypeOK
<1> QED BY <1>1, SignInvariant, PTL

(* Every vote, in whatever copy or queue, holds a share its voter made     *)
(* (VoteBlocks of the client) with the key from its first server, over a   *)
(* copy with all transactions, and copies file votes under their voters.   *)
THEOREM SharesAreGenuine == Spec => []SharesGenuine
<1>1. SignInv => SharesGenuine
  <2> SUFFICES ASSUME SignInv PROVE SharesGenuine OBVIOUS
  <2>1. ASSUME NEW bv \in Votes
        PROVE  LET g1 == bv.sig_share[1].g1
               IN  /\ g1.by = bv.voter_id /\ g1.key = Stub(g1.by, 0)
                   /\ g1.digest \in signed[g1.by] /\ g1.digest.tx_vec = Packed.tx_vec
    <3>1. PICK c \in Clients : bv \in VotesBy(signed, c) BY VotesAreGenuine
    <3>2. PICK d \in Signable(signed, c) :
              /\ bv.voter_id = c
              /\ bv.sig_share[1].g1 = [key |-> Stub(c, 0), digest |-> d, by |-> c]
      BY <3>1, VoteParts
    <3>3. d \in signed[c] /\ d.tx_vec = Packed.tx_vec BY DEF Signable
    <3> QED BY <3>2, <3>3
  <2>2. ASSUME NEW b \in Copies, NEW v \in DOMAIN b.votes PROVE b.votes[v].voter_id = v
    <3>1. b.votes[v] \in VotesBy(signed, v) BY CopiesAreBlocks DEF IsBlock, IsVoteMap
    <3> QED BY <3>1, VoteBack
  <2> QED BY <2>1, <2>2 DEF SharesGenuine
<1> QED BY <1>1, SignInvariant, PTL

(* No share covers an earlier vote of its own signer: a client may sign    *)
(* such a copy, but votes_.insert keeps the vote that is there.            *)
THEOREM NoShareOfOwnVote == Spec => []NoSelfEndorsement
<1>1. SignInv => NoSelfEndorsement
  <2> SUFFICES ASSUME SignInv, NEW bv \in Votes
               PROVE  bv.voter_id \notin DOMAIN bv.sig_share[1].g1.digest.votes
    BY DEF NoSelfEndorsement
  <2>1. PICK c \in Clients : bv \in VotesBy(signed, c) BY VotesAreGenuine
  <2>2. PICK d \in Signable(signed, c) :
            /\ bv.voter_id = c
            /\ bv.sig_share[1].g1 = [key |-> Stub(c, 0), digest |-> d, by |-> c]
    BY <2>1, VoteParts
  <2>3. c \notin DOMAIN d.votes BY DEF Signable
  <2> QED BY <2>2, <2>3
<1> QED BY <1>1, SignInvariant, PTL

(* A committed block, merged here or adopted from a broadcast, holds a     *)
(* share of every client, and its merged signature is of these shares.     *)
THEOREM CommittedHaveShares == Spec => []CommittedHasShares
<1>1. SignInv => CommittedHasShares
  <2> SUFFICES ASSUME SignInv, NEW s \in Servers, place[s] = "committed"
               PROVE  /\ DOMAIN obj[s].votes = Clients
                      /\ \A c \in Clients : obj[s].votes[c].sig_share[1].signer = c
                      /\ obj[s].tss_sig # <<>> =>
                            obj[s].tss_sig[1] = {obj[s].votes[c].sig_share[1] : c \in Clients}
    BY DEF CommittedHasShares
  <2>1. ObjectOK(signed, "committed", obj[s]) BY DEF SignInv, ServerOK
  <2>2. IsVoteMap(signed, obj[s].votes) /\ DOMAIN obj[s].votes = Clients
    BY <2>1 DEF ObjectOK, IsFull, IsBlock
  <2>3. ASSUME NEW c \in Clients PROVE obj[s].votes[c].sig_share[1].signer = c
    <3>1. obj[s].votes[c] \in VotesBy(signed, c) BY <2>2 DEF IsVoteMap
    <3>2. PICK bv : bv = obj[s].votes[c] OBVIOUS
    <3>3. bv \in VotesBy(signed, c) BY <3>1, <3>2
    <3>4. PICK d \in Signable(signed, c) :
              /\ bv.voter_id = c /\ bv.sig_share[1].signer = c
              /\ bv.sig_share[1].g1 = [key |-> Stub(c, 0), digest |-> d, by |-> c]
      BY <3>3, VoteParts
    <3> QED BY <3>2, <3>4
  <2> DEFINE shares == {obj[s].votes[c].sig_share[1] : c \in Clients}
  <2>4. obj[s].tss_sig # <<>> => obj[s].tss_sig = <<shares>> BY <2>1 DEF ObjectOK
  <2> HIDE DEF shares
  <2>5. obj[s].tss_sig # <<>> => obj[s].tss_sig[1] = shares BY <2>4
  <2> QED BY <2>2, <2>3, <2>5 DEF shares
<1> QED BY <1>1, SignInvariant, PTL

(* Whatever copy of a block is encoded and decoded (flexbuffers_adapter),  *)
(* it comes back as it was but for its merged signature.                   *)
THEOREM EncodingsRoundTrip == Spec => []RoundTrip
<1>1. SignInv => RoundTrip BY CopiesAreBlocks, SentKeeps DEF RoundTrip
<1> QED BY <1>1, SignInvariant, PTL

(* The first vote of a client in a server's pending block is never         *)
(* replaced (votes_.insert in VoteBlocks and RelayVote).                   *)
THEOREM FirstVotesKept == Spec => FirstVoteKept
<1>1. SignInv /\ [Next]_vars => [VotesKept]_vars BY SignNext
<1> QED BY <1>1, SignInvariant, PTL DEF Spec, FirstVoteKept, VotesKept
=============================================================================
