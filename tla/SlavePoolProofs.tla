-------------------------- MODULE SlavePoolProofs ---------------------------
(***************************************************************************)
(* Safety of the slave pool, for any finite set of slave connections, any  *)
(* dispatch workers and requests and any retry limit: what a connection    *)
(* carries is tied to the state of its node and to the dispatch worker     *)
(* that works with it, and what has been executed to what has been sent.   *)
(***************************************************************************)
EXTENDS SlavePool, FiniteSetTheorems, SequenceTheorems, TLAPS

(* A dispatch worker has a node exactly while it sends over its connection *)
(* or waits for an answer, and a request exactly while it owes one.        *)
WorkerInv ==
  \A d \in Dispatchers :
    /\ pc[d] \in {"query", "heartbeat", "send", "await"} <=> node[d] # None
    /\ pc[d] \in {"send", "await", "seek"} <=> job[d] # None

(* A node is listed once and after its handshake.                          *)
ListInv ==
  /\ \A i \in DOMAIN slist : nstate[slist[i]] # None
  /\ \A i, j \in DOMAIN slist : slist[i] = slist[j] => i = j
  /\ \A n \in Nodes : slave[n] = "new" => nstate[n] = None /\ spawning # n
  /\ spawning # None => nstate[spawning] = None

(* The two directions of a connection hold one message between them at     *)
(* most, and none while the node is not in use: an answer that is still on *)
(* the way belongs to the worker that waits for it or to a node in error.  *)
LinkInv ==
  /\ \A n \in Nodes :
       /\ inbox[n] = <<>> \/ outbox[n] = <<>>
       /\ Len(inbox[n]) <= 1 /\ Len(outbox[n]) <= 1
       /\ nstate[n] \in {None, "ready"} => inbox[n] = <<>> /\ outbox[n] = <<>>
  /\ \A d \in Dispatchers :
       /\ pc[d] \in {"send", "query"} => inbox[node[d]] = <<>> /\ outbox[node[d]] = <<>>
       /\ pc[d] = "await" => /\ inbox[node[d]] \in {<<>>, <<job[d]>>}
                             /\ outbox[node[d]] \in {<<>>, <<job[d]>>}
       /\ pc[d] = "heartbeat" => /\ inbox[node[d]] \in {<<>>, <<Query>>}
                                 /\ outbox[node[d]] \in {<<>>, <<Confirm>>}

(* A request that is owed an answer is in the hands of one worker.         *)
JobInv ==
  /\ \A d \in Dispatchers : job[d] # None => session[job[d]] = "taken"
  /\ \A d, e \in Dispatchers : job[d] # None /\ job[d] = job[e] => d = e

(* How often the request was executed or may still be.                     *)
Carriers(q) == {n \in Nodes : inbox[n] = <<q>>}
Load(q)     == executed[q] + Cardinality(Carriers(q))
Limit(q)    == IF q \in Retriable THEN 1 + DispatchRetry ELSE 1

LoadInv ==
  \A q \in Requests :
    /\ Load(q) <= Limit(q)
    /\ session[q] \in {"new", "queued"} => Load(q) = 0 /\ attempts[q] = 0
    /\ q \notin Retriable => attempts[q] = 0
    /\ \A d \in Dispatchers :
         job[d] = q =>
           /\ attempts[q] <= DispatchRetry
           /\ pc[d] = "send" => Load(q) <= attempts[q]
           /\ pc[d] = "await" => Load(q) <= attempts[q] + 1
           /\ pc[d] = "seek" => Load(q) <= attempts[q] /\ q \in Retriable

AnswerInv ==
  /\ AnswerMatches
  /\ \A n \in Nodes, q \in Requests : outbox[n] = <<q>> => executed[q] >= 1

(* The ranks of the listed nodes, the recycled ones and that of the node   *)
(* in its handshake are pairwise distinct and below their number.          *)
Given == Len(slist) + Len(deprecated) + (IF spawning = None THEN 0 ELSE 1)
RankInv ==
  HandshakesOk =>
    /\ \A i \in DOMAIN slist : rank[slist[i]] < Given
    /\ \A k \in DOMAIN deprecated : deprecated[k] < Given
    /\ \A i, j \in DOMAIN slist : rank[slist[i]] = rank[slist[j]] => i = j
    /\ \A k, l \in DOMAIN deprecated : deprecated[k] = deprecated[l] => k = l
    /\ \A i \in DOMAIN slist, k \in DOMAIN deprecated : rank[slist[i]] # deprecated[k]
    /\ spawning # None =>
         /\ rank[spawning] < Given
         /\ \A i \in DOMAIN slist : rank[slist[i]] # rank[spawning]
         /\ \A k \in DOMAIN deprecated : deprecated[k] # rank[spawning]

IInv ==
  /\ TypeOK /\ WorkerInv /\ NodesExact /\ ListInv /\ LinkInv /\ JobInv /\ LoadInv
  /\ AnswerInv /\ RankInv
-----------------------------------------------------------------------------
(* The scan of the slave list.                                             *)

(* What it does to the list and to the recycled ranks: g has the old       *)
(* position of a node that stays, h that of a node that was erased.        *)
Moved(g, h) ==
  /\ slist' \in Seq(Nodes) /\ deprecated' \in Seq(Ranks)
  /\ g \in [DOMAIN slist' -> DOMAIN slist] /\ h \in [DOMAIN h -> DOMAIN slist]
  /\ \A i, j \in DOMAIN g : g[i] = g[j] => i = j
  /\ \A i, j \in DOMAIN h : h[i] = h[j] => i = j
  /\ \A i \in DOMAIN g, j \in DOMAIN h : g[i] # h[j]
  /\ \A i \in DOMAIN g : slist'[i] = slist[g[i]]
  /\ \A k \in DOMAIN deprecated' :
       \/ k \in DOMAIN deprecated /\ deprecated'[k] = deprecated[k]
       \/ /\ k \notin DOMAIN deprecated /\ k - Len(deprecated) \in DOMAIN h
          /\ deprecated'[k] = rank[slist[h[k - Len(deprecated)]]]
  /\ Len(slist') + Len(deprecated') = Len(slist) + Len(deprecated)

Scanned == \E g, h : Moved(g, h)

(* A listing goes up, so no position is listed twice.                      *)
LEMMA ListingOnce ==
  ASSUME NEW P, \A p \in P : p \in Nat, IsFiniteSet(P), NEW f \in Listings(P)
  PROVE  /\ Cardinality(P) \in Nat /\ DOMAIN f = 1 .. Cardinality(P)
         /\ \A i \in DOMAIN f : f[i] \in P
         /\ \A i, j \in DOMAIN f : f[i] = f[j] => i = j
<1>1. Cardinality(P) \in Nat
  BY FS_CardinalityType
<1>2. /\ f \in [1 .. Cardinality(P) -> P]
      /\ \A i, j \in DOMAIN f : i < j => f[i] < f[j]
  BY DEF Listings
<1>3. ASSUME NEW i \in DOMAIN f, NEW j \in DOMAIN f, f[i] = f[j], i # j
      PROVE  FALSE
  <2>1. i \in Nat /\ j \in Nat /\ f[i] \in Nat /\ f[j] \in Nat
    BY <1>1, <1>2
  <2>2. i < j \/ j < i
    BY <1>3, <2>1
  <2> QED
    BY <1>2, <1>3, <2>1, <2>2
<1> QED
  BY <1>1, <1>2, <1>3

(* rest has the nodes behind position k, in the order of r.                *)
Behind(k, rest, r) ==
  /\ rest \in Seq(Nodes) /\ Len(rest) = Len(slist) - k
  /\ r \in [1 .. Len(slist) - k -> (k + 1) .. Len(slist)]
  /\ \A i, j \in DOMAIN r : r[i] = r[j] => i = j
  /\ \A i \in DOMAIN r : rest[i] = slist[r[i]]

(* Erasing among the first k positions, with the others behind in some     *)
(* order r, moves every node to one place.                                 *)
LEMMA EraseScans ==
  ASSUME TypeOK, NEW k \in 0 .. Len(slist), NEW rest, NEW r, Behind(k, rest, r),
         Erase(k, rest)
  PROVE  Scanned
<1> DEFINE P == Failed(k)
           Q == (1 .. k) \ P
<1>1. PICK gone \in Listings(P), kept \in Listings(Q) :
        /\ deprecated' = deprecated \o At(rank, At(slist, gone))
        /\ slist' = At(slist, kept) \o rest
  BY DEF Erase
<1>2. slist \in Seq(Nodes) /\ Len(slist) \in Nat /\ DOMAIN slist = 1 .. Len(slist)
  BY DEF TypeOK
<1>3. /\ \A i \in P \cup Q : i \in 1 .. Len(slist) /\ i <= k /\ i \in Nat
      /\ \A i \in P : i \notin Q
      /\ P \cup Q = 1 .. k /\ P \cap Q = {}
  BY DEF Failed
<1> HIDE DEF P, Q
<1>4. /\ IsFiniteSet(P) /\ IsFiniteSet(Q)
      /\ Cardinality(P) + Cardinality(Q) = k
  <2>1. IsFiniteSet(1 .. k) /\ Cardinality(1 .. k) = k /\ k \in Nat
    BY <1>2, FS_Interval
  <2>2. IsFiniteSet(P) /\ IsFiniteSet(Q)
    BY <1>3, <2>1, FS_Subset
  <2>3. Cardinality(P \cup Q) = Cardinality(P) + Cardinality(Q) - Cardinality(P \cap Q)
    BY <2>2, FS_Union
  <2>4. Cardinality(P \cap Q) = 0
    BY <1>3, FS_EmptySet
  <2>5. Cardinality(P) \in Nat /\ Cardinality(Q) \in Nat
    BY <2>2, FS_CardinalityType
  <2>6. Cardinality(P \cup Q) = k
    BY <1>3, <2>1
  <2> QED
    BY <2>1, <2>2, <2>3, <2>4, <2>5, <2>6
<1>5. /\ Cardinality(P) \in Nat /\ DOMAIN gone = 1 .. Cardinality(P)
      /\ \A i \in DOMAIN gone : gone[i] \in P
      /\ \A i, j \in DOMAIN gone : gone[i] = gone[j] => i = j
  BY <1>3, <1>4, ListingOnce
<1>6. /\ Cardinality(Q) \in Nat /\ DOMAIN kept = 1 .. Cardinality(Q)
      /\ \A i \in DOMAIN kept : kept[i] \in Q
      /\ \A i, j \in DOMAIN kept : kept[i] = kept[j] => i = j
  BY <1>3, <1>4, ListingOnce
<1>7. /\ At(slist, kept) \in Seq(Nodes) /\ Len(At(slist, kept)) = Cardinality(Q)
      /\ \A i \in DOMAIN kept : At(slist, kept)[i] = slist[kept[i]]
  <2>1. \A i \in 1 .. Cardinality(Q) : slist[kept[i]] \in Nodes
    BY <1>2, <1>3, <1>6
  <2> QED
    BY <1>6, <2>1, IsASeq DEF At
<1>8. /\ At(rank, At(slist, gone)) \in Seq(Ranks)
      /\ Len(At(rank, At(slist, gone))) = Cardinality(P)
      /\ \A i \in DOMAIN gone : At(rank, At(slist, gone))[i] = rank[slist[gone[i]]]
  <2>1. ASSUME NEW i \in 1 .. Cardinality(P) PROVE rank[slist[gone[i]]] \in Ranks
    <3>1. slist[gone[i]] \in Nodes
      BY <1>2, <1>3, <1>5
    <3> QED
      BY <3>1 DEF TypeOK
  <2>2. At(rank, At(slist, gone)) = [i \in 1 .. Cardinality(P) |-> rank[slist[gone[i]]]]
    BY <1>5 DEF At
  <2> QED
    BY <1>5, <2>1, <2>2, IsASeq
<1> DEFINE g == [i \in 1 .. Cardinality(Q) + (Len(slist) - k) |->
                  IF i <= Cardinality(Q) THEN kept[i] ELSE r[i - Cardinality(Q)]]
<1>9. /\ slist' \in Seq(Nodes) /\ Len(slist') = Cardinality(Q) + (Len(slist) - k)
      /\ DOMAIN slist' = 1 .. Cardinality(Q) + (Len(slist) - k)
      /\ \A i \in DOMAIN slist' : slist'[i] = slist[g[i]]
  <2>1. /\ slist' \in Seq(Nodes) /\ Len(slist') = Cardinality(Q) + (Len(slist) - k)
        /\ DOMAIN slist' = 1 .. Cardinality(Q) + (Len(slist) - k)
    BY <1>1, <1>2, <1>6, <1>7 DEF Behind
  <2>2. ASSUME NEW i \in DOMAIN slist', i <= Cardinality(Q)
        PROVE  slist'[i] = slist[g[i]]
    BY <1>1, <1>6, <1>7, <2>1, <2>2
  <2>3. ASSUME NEW i \in DOMAIN slist', ~(i <= Cardinality(Q))
        PROVE  slist'[i] = slist[g[i]]
    <3>1. slist'[i] = rest[i - Cardinality(Q)]
      BY <1>1, <1>2, <1>6, <1>7, <2>1, <2>3, ConcatProperties DEF Behind
    <3>2. i - Cardinality(Q) \in DOMAIN r /\ g[i] = r[i - Cardinality(Q)]
      BY <1>2, <1>6, <2>1, <2>3 DEF Behind
    <3> QED
      BY <3>1, <3>2 DEF Behind
  <2> QED
    BY <2>1, <2>2, <2>3
<1>10. /\ deprecated' \in Seq(Ranks)
       /\ Len(deprecated') = Len(deprecated) + Cardinality(P)
       /\ \A j \in DOMAIN deprecated' :
            \/ j \in DOMAIN deprecated /\ deprecated'[j] = deprecated[j]
            \/ /\ j \notin DOMAIN deprecated /\ j - Len(deprecated) \in DOMAIN gone
               /\ deprecated'[j] = rank[slist[gone[j - Len(deprecated)]]]
  <2> DEFINE e == At(rank, At(slist, gone))
  <2>1. deprecated \in Seq(Ranks) /\ e \in Seq(Ranks) /\ Len(e) = Cardinality(P)
    BY <1>8 DEF TypeOK
  <2>2. \A i \in DOMAIN gone : e[i] = rank[slist[gone[i]]]
    BY <1>8
  <2>3. deprecated' = deprecated \o e
    BY <1>1
  <2> HIDE DEF e
  <2>4. /\ deprecated' \in Seq(Ranks) /\ Len(deprecated) \in Nat
        /\ Len(deprecated') = Len(deprecated) + Cardinality(P)
        /\ DOMAIN deprecated' = 1 .. Len(deprecated) + Cardinality(P)
        /\ DOMAIN deprecated = 1 .. Len(deprecated)
    BY <1>5, <2>1, <2>3
  <2>5. ASSUME NEW j \in DOMAIN deprecated', j \notin DOMAIN deprecated
        PROVE  /\ j - Len(deprecated) \in DOMAIN gone
               /\ deprecated'[j] = rank[slist[gone[j - Len(deprecated)]]]
    <3>1. j - Len(deprecated) \in DOMAIN gone
      BY <1>5, <2>4, <2>5
    <3>2. deprecated'[j] = e[j - Len(deprecated)]
      BY <1>5, <2>1, <2>3, <2>4, <2>5, ConcatProperties
    <3> QED
      BY <2>2, <3>1, <3>2
  <2>6. ASSUME NEW j \in DOMAIN deprecated PROVE deprecated'[j] = deprecated[j]
    BY <2>1, <2>3, <2>4, <2>6, <1>5
  <2> QED
    BY <2>4, <2>5, <2>6
<1>11. g \in [DOMAIN slist' -> DOMAIN slist] /\ gone \in [DOMAIN gone -> DOMAIN slist]
  <2>1. ASSUME NEW i \in DOMAIN slist' PROVE g[i] \in DOMAIN slist
    BY <1>2, <1>3, <1>6, <1>9 DEF Behind
  <2>2. gone \in [DOMAIN gone -> DOMAIN slist]
    <3>1. gone \in [1 .. Cardinality(P) -> P]
      BY DEF Listings
    <3> QED
      BY <1>2, <1>3, <1>5, <3>1
  <2> QED
    BY <1>9, <2>1, <2>2
<1>12. \A i, j \in DOMAIN g : g[i] = g[j] => i = j
  <2> SUFFICES ASSUME NEW i \in DOMAIN g, NEW j \in DOMAIN g, g[i] = g[j]
               PROVE  i = j
    OBVIOUS
  <2>1. CASE i <= Cardinality(Q) /\ j <= Cardinality(Q)
    BY <1>6, <2>1
  <2>2. CASE ~(i <= Cardinality(Q)) /\ ~(j <= Cardinality(Q))
    <3>1. /\ i - Cardinality(Q) \in DOMAIN r /\ j - Cardinality(Q) \in DOMAIN r
          /\ r[i - Cardinality(Q)] = r[j - Cardinality(Q)]
      BY <1>2, <1>6, <2>2 DEF Behind
    <3> QED
      BY <1>2, <1>6, <3>1 DEF Behind
  <2>3. CASE (i <= Cardinality(Q)) # (j <= Cardinality(Q))
    BY <1>2, <1>3, <1>6, <2>3, SMTT(30) DEF Behind
  <2> QED
    BY <2>1, <2>2, <2>3
<1>13. \A i \in DOMAIN g, j \in DOMAIN gone : g[i] # gone[j]
  BY <1>2, <1>3, <1>5, <1>6 DEF Behind
<1>14. Len(slist') + Len(deprecated') = Len(slist) + Len(deprecated)
  <2>1. Len(deprecated) \in Nat
    BY DEF TypeOK
  <2>2. Len(slist') = Cardinality(Q) + (Len(slist) - k)
    BY <1>9
  <2>3. Len(deprecated') = Len(deprecated) + Cardinality(P)
    BY <1>10
  <2>4. Cardinality(P) \in Nat /\ Cardinality(Q) \in Nat /\ Len(slist) \in Nat /\ k \in Nat
    BY <1>2, <1>5, <1>6
  <2>5. Cardinality(P) + Cardinality(Q) = k
    BY <1>4
  <2> QED
    BY <2>1, <2>2, <2>3, <2>4, <2>5
<1>15. Moved(g, gone)
  <2> HIDE DEF g
  <2>1. DOMAIN g = DOMAIN slist'
    BY <1>11
  <2> QED
    BY <1>5, <1>9, <1>10, <1>11, <1>12, <1>13, <1>14, <2>1 DEF Moved
<1> QED
  BY <1>15 DEF Scanned

(* A scan that finds a ready node, and one that does not.                  *)
LEMMA PickScans ==
  ASSUME TypeOK, NEW i \in DOMAIN slist, Pick(i)
  PROVE  Scanned
<1> DEFINE rest == Append(SubSeq(slist, i + 1, Len(slist)), slist[i])
           r == [j \in 1 .. Len(slist) - (i - 1) |->
                  IF j = Len(slist) - (i - 1) THEN i ELSE i + j]
<1>1. /\ slist \in Seq(Nodes) /\ Len(slist) \in Nat /\ i \in 1 .. Len(slist)
      /\ i - 1 \in 0 .. Len(slist)
  BY DEF TypeOK
<1>2. /\ rest \in Seq(Nodes) /\ Len(rest) = Len(slist) - (i - 1)
      /\ \A j \in 1 .. Len(slist) - (i - 1) : rest[j] = slist[r[j]]
  BY <1>1, SMTT(30)
<1>3. r \in [1 .. Len(slist) - (i - 1) -> ((i - 1) + 1) .. Len(slist)]
  BY <1>1
<1>4. \A j, l \in DOMAIN r : r[j] = r[l] => j = l
  BY <1>1
<1>5. Erase(i - 1, rest)
  BY DEF Pick
<1> QED
  <2> HIDE DEF rest, r
  <2>1. DOMAIN r = 1 .. Len(slist) - (i - 1)
    BY <1>3
  <2> DEFINE k == i - 1
  <2>2. k \in 0 .. Len(slist) /\ Behind(k, rest, r) /\ Erase(k, rest)
    BY <1>1, <1>2, <1>3, <1>4, <1>5, <2>1 DEF Behind
  <2> HIDE DEF k
  <2> QED
    BY <2>2, EraseScans

LEMMA SweepScans ==
  ASSUME TypeOK, NEW d \in Dispatchers, Sweep(d)
  PROVE  Scanned
<1> DEFINE r == [j \in 1 .. Len(slist) - Len(slist) |-> j]
<1>1. Len(slist) \in 0 .. Len(slist) /\ <<>> \in Seq(Nodes) /\ Len(slist) \in Nat
  BY DEF TypeOK
<1>2. r \in [1 .. Len(slist) - Len(slist) -> (Len(slist) + 1) .. Len(slist)]
      /\ DOMAIN r = {} /\ Len(<<>>) = Len(slist) - Len(slist)
  BY <1>1
<1>3. Erase(Len(slist), <<>>)
  BY DEF Sweep
<1> QED
  <2> HIDE DEF r
  <2>1. Behind(Len(slist), <<>>, r)
    BY <1>1, <1>2 DEF Behind
  <2> QED
    BY <1>1, <1>3, <2>1, EraseScans

LEMMA PickedReady ==
  ASSUME TypeOK, NEW i \in DOMAIN slist, Pick(i)
  PROVE  slist[i] \in Nodes /\ nstate[slist[i]] = "ready" /\ Scanned
<1>1. slist[i] \in Nodes
  BY DEF TypeOK
<1> QED
  BY <1>1, PickScans DEF Pick, FirstReady

(* The three steps that take a ready node, without the scan's details.     *)
LEMMA DispatchPicks ==
  ASSUME TypeOK, NEW d \in Dispatchers, Dispatch(d)
  PROVE  \E n \in Nodes, q \in Requests :
           /\ pc[d] = "scan" /\ nstate[n] = "ready" /\ session[q] = "queued"
           /\ Scanned /\ Engage(d, n, q, "send")
           /\ session' = [session EXCEPT ![q] = "taken"]
           /\ UNCHANGED <<rank, spawning, link, response, attempts, executed>>
<1>1. PICK i \in DOMAIN slist, q \in Requests :
        /\ session[q] = "queued"
        /\ Pick(i) /\ Engage(d, slist[i], q, "send")
        /\ session' = [session EXCEPT ![q] = "taken"]
  BY DEF Dispatch
<1>2. slist[i] \in Nodes /\ nstate[slist[i]] = "ready" /\ Scanned
  BY <1>1, PickedReady
<1> QED
  BY <1>1, <1>2 DEF Dispatch

LEMMA HeartbeatPicks ==
  ASSUME TypeOK, NEW d \in Dispatchers, Heartbeat(d)
  PROVE  /\ pc[d] = "scan" /\ Scanned
         /\ \/ \E n \in Nodes : nstate[n] = "ready" /\ Engage(d, n, None, "query")
            \/ UNCHANGED <<nstate, disp>>
         /\ UNCHANGED <<rank, spawning, link, requests>>
<1>1. PICK i \in DOMAIN slist :
        /\ Pick(i)
        /\ \/ Engage(d, slist[i], None, "query")
           \/ UNCHANGED <<nstate, disp>>
  BY DEF Heartbeat
<1>2. slist[i] \in Nodes /\ nstate[slist[i]] = "ready" /\ Scanned
  BY <1>1, PickedReady
<1> QED
  BY <1>1, <1>2 DEF Heartbeat

LEMMA SeekPicks ==
  ASSUME TypeOK, NEW d \in Dispatchers, Seek(d)
  PROVE  \E n \in Nodes :
           /\ pc[d] = "seek" /\ nstate[n] = "ready"
           /\ Scanned /\ Engage(d, n, job[d], "send")
           /\ UNCHANGED <<rank, spawning, link, requests>>
<1>1. PICK i \in DOMAIN slist : Pick(i) /\ Engage(d, slist[i], job[d], "send")
  BY DEF Seek
<1>2. slist[i] \in Nodes /\ nstate[slist[i]] = "ready" /\ Scanned
  BY <1>1, PickedReady
<1> QED
  BY <1>1, <1>2 DEF Seek

LEMMA ScannedType ==
  ASSUME Scanned
  PROVE  slist' \in Seq(Nodes) /\ deprecated' \in Seq(Ranks)
BY DEF Scanned, Moved

(* One message more or less on a connection.                               *)
LEMMA SeqType ==
  ASSUME NEW S, NEW box \in Seq(S)
  PROVE  /\ \A m \in S : Append(box, m) \in Seq(S)
         /\ box # <<>> => Head(box) \in S /\ Tail(box) \in Seq(S)
OBVIOUS

LEMMA SendType ==
  ASSUME TypeOK, NEW d \in Dispatchers, node[d] \in Nodes, NEW m \in Requests \cup {Query},
         NEW to, Send(d, m, to)
  PROVE  inbox' \in [Nodes -> Seq(Requests \cup {Query})]
<1>1. inbox \in [Nodes -> Seq(Requests \cup {Query})]
  BY DEF TypeOK
<1>2. Append(inbox[node[d]], m) \in Seq(Requests \cup {Query})
  BY <1>1, SeqType
<1> QED
  BY <1>1, <1>2 DEF Send

LEMMA ReplyType ==
  ASSUME TypeOK, NEW n \in Nodes, NEW m \in Requests \cup {Confirm}, Reply(n, m)
  PROVE  outbox' \in [Nodes -> Seq(Requests \cup {Confirm})]
<1>1. outbox \in [Nodes -> Seq(Requests \cup {Confirm})]
  BY DEF TypeOK
<1>2. Append(outbox[n], m) \in Seq(Requests \cup {Confirm})
  BY <1>1, SeqType
<1> QED
  BY <1>1, <1>2 DEF Reply

LEMMA UpTo ==
  ASSUME NEW k \in Nat
  PROVE  IsFiniteSet(1 .. k) /\ Cardinality(1 .. k) = k
BY FS_Interval

(* As nodes are listed once, the list is no longer than there are nodes.   *)
LEMMA ListShort ==
  ASSUME TypeOK, ListInv
  PROVE  Len(slist) \in Ranks
<1>1. slist \in [1 .. Len(slist) -> Nodes] /\ Len(slist) \in Nat
  BY DEF TypeOK
<1>2. Cardinality(Nodes) \in Nat /\ IsFiniteSet(Nodes)
  BY PoolAssumption, FS_CardinalityType
<1>3. ASSUME Cardinality(Nodes) < Len(slist)
      PROVE  FALSE
  <2>1. IsFiniteSet(1 .. Len(slist)) /\ Cardinality(1 .. Len(slist)) = Len(slist)
    BY <1>1, UpTo
  <2>2. \E i, j \in 1 .. Len(slist) : i # j /\ slist[i] = slist[j]
    BY <1>1, <1>2, <1>3, <2>1, FS_PigeonHole
  <2> QED
    BY <1>1, <2>2 DEF ListInv
<1> QED
  BY <1>1, <1>2, <1>3 DEF Ranks
-----------------------------------------------------------------------------
(* A step preserves each part of the invariant.                            *)

SpawnStep == (\E n \in Nodes : SpawnAccept(n)) \/ SpawnOk \/ SpawnFails
SlaveStep(n) == SlaveConfirms(n) \/ SlaveExecutes(n) \/ SlaveLeaves(n)

LEMMA NextCases ==
  ASSUME Next
  PROVE  \/ SpawnStep \/ (\E n \in Nodes : SlaveStep(n)) \/ (\E q \in Requests : Arrive(q))
         \/ \E d \in Dispatchers : DispatcherStep(d) \/ SeekTimeout(d)
BY DEF Next, SpawnStep, SlaveStep

PoolType ==
  /\ slist \in Seq(Nodes) /\ nstate \in [Nodes -> {None, "ready", "busy", "error"}]
  /\ rank \in [Nodes -> Ranks] /\ deprecated \in Seq(Ranks)
  /\ spawning \in Nodes \cup {None}
LinkType ==
  /\ slave \in [Nodes -> {"new", "up", "gone"}]
  /\ inbox \in [Nodes -> Seq(Requests \cup {Query})]
  /\ outbox \in [Nodes -> Seq(Requests \cup {Confirm})]
RequestType ==
  /\ session \in [Requests -> {"new", "queued", "taken", "done"}]
  /\ response \in [Requests -> Requests \cup {None, Confirm, Failure}]
  /\ attempts \in [Requests -> 0 .. DispatchRetry + 1]
  /\ executed \in [Requests -> Nat]
WorkerType ==
  /\ pc \in [Dispatchers -> {"scan", "query", "heartbeat", "send", "await", "seek"}]
  /\ node \in [Dispatchers -> Nodes \cup {None}]
  /\ job \in [Dispatchers -> Requests \cup {None}]

LEMMA TypeParts == TypeOK <=> PoolType /\ LinkType /\ RequestType /\ WorkerType
BY DEF TypeOK, PoolType, LinkType, RequestType, WorkerType

LEMMA TypePartsNext == TypeOK' <=> PoolType' /\ LinkType' /\ RequestType' /\ WorkerType'
BY DEF TypeOK, PoolType, LinkType, RequestType, WorkerType

LEMMA TypeStep ==
  ASSUME IInv, Next
  PROVE  TypeOK'
<1>0. TypeOK /\ PoolType /\ LinkType /\ RequestType /\ WorkerType
  BY TypeParts DEF IInv
<1>a. ASSUME NEW d \in Dispatchers
      PROVE  /\ pc[d] \in {"query", "heartbeat", "send", "await"} => node[d] \in Nodes
             /\ pc[d] \in {"send", "await", "seek"} => job[d] \in Requests
  BY <1>0 DEF IInv, WorkerInv, WorkerType
<1>1. ASSUME NEW n \in Nodes, SpawnAccept(n) PROVE TypeOK'
  <2>1. Len(slist) \in Ranks
    BY <1>0, ListShort DEF IInv
  <2>2. deprecated # <<>> => Head(deprecated) \in Ranks /\ Tail(deprecated) \in Seq(Ranks)
    BY <1>0 DEF PoolType
  <2>3. PoolType'
    BY <1>0, <1>1, <2>1, <2>2 DEF SpawnAccept, PoolType
  <2>4. LinkType'
    BY <1>0, <1>1 DEF SpawnAccept, LinkType
  <2>5. RequestType' /\ WorkerType'
    BY <1>0, <1>1 DEF SpawnAccept, RequestType, WorkerType, requests, disp
  <2> QED
    BY <2>3, <2>4, <2>5, TypePartsNext
<1>2. CASE SpawnOk \/ SpawnFails
  <2>0. Append(slist, spawning) \in Seq(Nodes)
    BY <1>0, <1>2, SeqType DEF SpawnOk, SpawnFails, PoolType
  <2>1. PoolType'
    BY <1>0, <1>2, <2>0 DEF SpawnOk, SpawnFails, PoolType
  <2>2. LinkType'
    BY <1>0, <1>2 DEF SpawnOk, SpawnFails, LinkType, PoolType, link
  <2>3. RequestType' /\ WorkerType'
    BY <1>0, <1>2 DEF SpawnOk, SpawnFails, RequestType, WorkerType, requests, disp
  <2> QED
    BY <2>1, <2>2, <2>3, TypePartsNext
<1>3. ASSUME NEW n \in Nodes, SlaveStep(n) PROVE TypeOK'
  <2>1. PoolType' /\ WorkerType'
    BY <1>0, <1>3 DEF SlaveStep, SlaveConfirms, SlaveExecutes, SlaveLeaves, pool, disp,
       PoolType, WorkerType
  <2>2. inbox \in [Nodes -> Seq(Requests \cup {Query})]
    BY <1>0 DEF LinkType
  <2>3. inbox' \in [Nodes -> Seq(Requests \cup {Query})]
    <3>1. inbox[n] # <<>> => Tail(inbox[n]) \in Seq(Requests \cup {Query})
      BY <2>2, SeqType
    <3>2. <<>> \in Seq(Requests \cup {Query})
      OBVIOUS
    <3> QED
      BY <1>3, <2>2, <3>1, <3>2 DEF SlaveStep, SlaveConfirms, SlaveExecutes, SlaveLeaves
  <2>4. outbox' \in [Nodes -> Seq(Requests \cup {Confirm})]
    BY <1>0, <1>3, ReplyType DEF SlaveStep, SlaveConfirms, SlaveExecutes, SlaveLeaves,
       LinkType
  <2>5. LinkType'
    BY <1>0, <1>3, <2>3, <2>4 DEF SlaveStep, SlaveConfirms, SlaveExecutes, SlaveLeaves,
       LinkType
  <2>6. executed' \in [Requests -> Nat]
    BY <1>0, <1>3 DEF SlaveStep, SlaveConfirms, SlaveExecutes, SlaveLeaves, RequestType,
       requests
  <2>7. UNCHANGED <<session, response, attempts>>
    BY <1>3 DEF SlaveStep, SlaveConfirms, SlaveExecutes, SlaveLeaves, requests
  <2>8. RequestType'
    BY <1>0, <2>6, <2>7 DEF RequestType
  <2> QED
    BY <2>1, <2>5, <2>8, TypePartsNext
<1>4. ASSUME NEW q \in Requests, Arrive(q) PROVE TypeOK'
  <2>1. PoolType' /\ LinkType' /\ WorkerType'
    BY <1>0, <1>4 DEF Arrive, pool, link, disp, PoolType, LinkType, WorkerType
  <2>2. RequestType'
    BY <1>0, <1>4 DEF Arrive, RequestType
  <2> QED
    BY <2>1, <2>2, TypePartsNext
<1>5. ASSUME NEW d \in Dispatchers, Sweep(d) PROVE TypeOK'
  <2>1. Scanned
    BY <1>0, <1>5, SweepScans
  <2>2. PoolType'
    BY <1>0, <1>5, <2>1, ScannedType DEF Sweep, PoolType
  <2>3. LinkType' /\ RequestType' /\ WorkerType'
    BY <1>0, <1>5 DEF Sweep, link, requests, disp, LinkType, RequestType, WorkerType
  <2> QED
    BY <2>2, <2>3, TypePartsNext
<1>6. ASSUME NEW d \in Dispatchers, NEW n \in Nodes, NEW q \in Requests \cup {None},
             NEW to \in {"query", "send"}, Scanned, Engage(d, n, q, to),
             UNCHANGED <<rank, spawning, link>>, RequestType'
      PROVE  TypeOK'
  <2>1. PoolType'
    BY <1>0, <1>6, ScannedType DEF Engage, PoolType
  <2>2. LinkType'
    BY <1>0, <1>6 DEF link, LinkType
  <2>3. WorkerType'
    BY <1>0, <1>6 DEF Engage, WorkerType
  <2> QED
    BY <1>6, <2>1, <2>2, <2>3, TypePartsNext
<1>7. ASSUME NEW d \in Dispatchers, Dispatch(d) PROVE TypeOK'
  <2>1. PICK n \in Nodes, q \in Requests :
           /\ Scanned /\ Engage(d, n, q, "send")
           /\ session' = [session EXCEPT ![q] = "taken"]
           /\ UNCHANGED <<rank, spawning, link, response, attempts, executed>>
    BY <1>0, <1>7, DispatchPicks
  <2>2. RequestType'
    BY <1>0, <2>1 DEF RequestType
  <2> QED
    BY <1>6, <2>1, <2>2
<1>8. ASSUME NEW d \in Dispatchers, Heartbeat(d) PROVE TypeOK'
  <2>1. Scanned /\ UNCHANGED <<rank, spawning, link, requests>>
    BY <1>0, <1>8, HeartbeatPicks
  <2>2. RequestType'
    BY <1>0, <2>1 DEF RequestType, requests
  <2>3. CASE \E n \in Nodes : Engage(d, n, None, "query")
    BY <1>6, <2>1, <2>2, <2>3
  <2>4. CASE UNCHANGED <<nstate, disp>>
    <3>1. PoolType'
      BY <1>0, <2>1, <2>4, ScannedType DEF PoolType
    <3>2. LinkType' /\ WorkerType'
      BY <1>0, <2>1, <2>4 DEF LinkType, WorkerType, disp, link
    <3> QED
      BY <2>2, <3>1, <3>2, TypePartsNext
  <2> QED
    BY <1>0, <1>8, <2>3, <2>4, HeartbeatPicks
<1>9. ASSUME NEW d \in Dispatchers, Seek(d) PROVE TypeOK'
  <2>1. PICK n \in Nodes :
           /\ pc[d] = "seek" /\ Scanned /\ Engage(d, n, job[d], "send")
           /\ UNCHANGED <<rank, spawning, link, requests>>
    BY <1>0, <1>9, SeekPicks
  <2>2. RequestType'
    BY <1>0, <2>1 DEF RequestType, requests
  <2> QED
    BY <1>6, <1>a, <2>1, <2>2
<1>10. ASSUME NEW d \in Dispatchers, HeartbeatOk(d) \/ HeartbeatFails(d) PROVE TypeOK'
  <2>1. node[d] \in Nodes
    BY <1>a, <1>10 DEF HeartbeatOk, HeartbeatFails
  <2>2. PoolType'
    BY <1>0, <1>10, <2>1 DEF HeartbeatOk, HeartbeatFails, PoolType
  <2>3. outbox' \in [Nodes -> Seq(Requests \cup {Confirm})]
    <3>1. outbox[node[d]] # <<>> => Tail(outbox[node[d]]) \in Seq(Requests \cup {Confirm})
      BY <1>0, <2>1, SeqType DEF LinkType
    <3> QED
      BY <1>0, <1>10, <2>1, <3>1 DEF HeartbeatOk, HeartbeatFails, LinkType, link
  <2>4. LinkType'
    BY <1>0, <1>10, <2>3 DEF HeartbeatOk, HeartbeatFails, LinkType, link
  <2>5. RequestType' /\ WorkerType'
    BY <1>0, <1>10 DEF HeartbeatOk, HeartbeatFails, Release, requests, RequestType, WorkerType
  <2> QED
    BY <2>2, <2>4, <2>5, TypePartsNext
<1>11. ASSUME NEW d \in Dispatchers, AwaitOk(d) PROVE TypeOK'
  <2>1. node[d] \in Nodes /\ job[d] \in Requests
    BY <1>a, <1>11 DEF AwaitOk
  <2>2. PoolType'
    BY <1>0, <1>11, <2>1 DEF AwaitOk, PoolType
  <2>3. /\ outbox' \in [Nodes -> Seq(Requests \cup {Confirm})]
        /\ Head(outbox[node[d]]) \in Requests \cup {Confirm}
    <3>1. outbox[node[d]] # <<>> =>
            /\ Head(outbox[node[d]]) \in Requests \cup {Confirm}
            /\ Tail(outbox[node[d]]) \in Seq(Requests \cup {Confirm})
      BY <1>0, <2>1, SeqType DEF LinkType
    <3> QED
      BY <1>0, <1>11, <2>1, <3>1 DEF AwaitOk, LinkType
  <2>4. LinkType'
    BY <1>0, <1>11, <2>3 DEF AwaitOk, LinkType
  <2>5. RequestType' /\ WorkerType'
    BY <1>0, <1>11, <2>1, <2>3 DEF AwaitOk, Respond, Release, RequestType, WorkerType
  <2> QED
    BY <2>2, <2>4, <2>5, TypePartsNext
<1>12. ASSUME NEW d \in Dispatchers, SendFails(d) \/ AwaitFails(d) PROVE TypeOK'
  <2>1. node[d] \in Nodes /\ job[d] \in Requests /\ attempts[job[d]] <= DispatchRetry
    BY <1>a, <1>12 DEF SendFails, AwaitFails, IInv, LoadInv
  <2>2. PoolType' /\ LinkType'
    BY <1>0, <1>12, <2>1 DEF SendFails, AwaitFails, GiveUp, PoolType, LinkType, link
  <2>3. attempts' \in [Requests -> 0 .. DispatchRetry + 1]
    BY <1>0, <1>12, <2>1, PoolAssumption DEF SendFails, AwaitFails, GiveUp, RequestType
  <2>4. RequestType' /\ WorkerType'
    BY <1>0, <1>12, <2>1, <2>3 DEF SendFails, AwaitFails, GiveUp, Respond, Release,
       RequestType, WorkerType
  <2> QED
    BY <2>2, <2>4, TypePartsNext
<1>13. ASSUME NEW d \in Dispatchers, SeekTimeout(d) PROVE TypeOK'
  <2>1. job[d] \in Requests
    BY <1>a, <1>13 DEF SeekTimeout
  <2>2. PoolType' /\ LinkType'
    BY <1>0, <1>13 DEF SeekTimeout, pool, link, PoolType, LinkType
  <2>3. RequestType' /\ WorkerType'
    BY <1>0, <1>13, <2>1 DEF SeekTimeout, Respond, RequestType, WorkerType
  <2> QED
    BY <2>2, <2>3, TypePartsNext
<1>14. ASSUME NEW d \in Dispatchers, RequestSent(d) \/ QuerySent(d) PROVE TypeOK'
  <2>1. PICK m \in Requests \cup {Query}, to \in {"heartbeat", "await"} : Send(d, m, to)
    BY <1>a, <1>14 DEF RequestSent, QuerySent
  <2>2. node[d] \in Nodes
    BY <1>a, <1>14 DEF RequestSent, QuerySent
  <2>3. LinkType'
    BY <1>0, <2>1, <2>2, SendType DEF Send, LinkType
  <2>4. PoolType' /\ RequestType' /\ WorkerType'
    BY <1>0, <2>1 DEF Send, pool, requests, PoolType, RequestType, WorkerType
  <2> QED
    BY <2>3, <2>4, TypePartsNext
<1> QED
  BY <1>1, <1>2, <1>3, <1>4, <1>5, <1>7, <1>8, <1>9, <1>10, <1>11, <1>12, <1>13, <1>14, NextCases
  DEF SpawnStep, DispatcherStep

(* Steps that no dispatch worker takes leave the workers alone.            *)
LEMMA WorkersSame ==
  ASSUME SpawnStep \/ (\E n \in Nodes : SlaveStep(n)) \/ (\E q \in Requests : Arrive(q))
  PROVE  UNCHANGED disp
BY DEF SpawnStep, SpawnAccept, SpawnOk, SpawnFails, SlaveStep, SlaveConfirms, SlaveExecutes,
   SlaveLeaves, Arrive, disp

LEMMA WorkerStep ==
  ASSUME IInv, Next
  PROVE  WorkerInv'
<1>0. TypeOK /\ WorkerInv /\ WorkerType /\ None \notin Nodes /\ None \notin Requests
  BY TypeParts, NamesAssumption DEF IInv
<1>1. CASE UNCHANGED disp
  BY <1>0, <1>1 DEF disp, WorkerInv
<1>2. ASSUME NEW d \in Dispatchers, Dispatch(d) \/ Heartbeat(d) \/ Seek(d) PROVE WorkerInv'
  <2>1. CASE Dispatch(d)
    BY <1>0, <2>1, DispatchPicks DEF Engage, WorkerInv, WorkerType
  <2>2. CASE Heartbeat(d)
    BY <1>0, <1>1, <2>2, HeartbeatPicks DEF Engage, WorkerInv, WorkerType
  <2>3. CASE Seek(d)
    BY <1>0, <2>3, SeekPicks DEF Engage, WorkerInv, WorkerType
  <2> QED
    BY <1>2, <2>1, <2>2, <2>3
<1>3. ASSUME NEW d \in Dispatchers, HeartbeatOk(d) \/ HeartbeatFails(d) PROVE WorkerInv'
  BY <1>0, <1>3 DEF HeartbeatOk, HeartbeatFails, Release, WorkerInv, WorkerType
<1>4. ASSUME NEW d \in Dispatchers, AwaitOk(d) PROVE WorkerInv'
  BY <1>0, <1>4 DEF AwaitOk, Release, Respond, WorkerInv, WorkerType
<1>5. ASSUME NEW d \in Dispatchers, SendFails(d) \/ AwaitFails(d) PROVE WorkerInv'
  BY <1>0, <1>5 DEF SendFails, AwaitFails, GiveUp, Release, Respond, WorkerInv, WorkerType
<1>6. ASSUME NEW d \in Dispatchers, SeekTimeout(d) PROVE WorkerInv'
  BY <1>0, <1>6 DEF SeekTimeout, Respond, WorkerInv, WorkerType
<1>7. ASSUME NEW d \in Dispatchers, Sweep(d) PROVE WorkerInv'
  BY <1>1, <1>7 DEF Sweep
<1>8. ASSUME NEW d \in Dispatchers, RequestSent(d) \/ QuerySent(d) PROVE WorkerInv'
  BY <1>0, <1>8 DEF RequestSent, QuerySent, Send, WorkerInv, WorkerType
<1> QED
  BY <1>1, <1>2, <1>3, <1>4, <1>5, <1>6, <1>7, <1>8, NextCases, WorkersSame DEF DispatcherStep

(* master_pick_slave returns a ready node and the caller marks it before   *)
(* it waits; whatever ends the exchange takes the mark away.               *)
LEMMA NodesStep ==
  ASSUME IInv, Next
  PROVE  NodesExact'
<1>0. TypeOK /\ WorkerInv /\ NodesExact /\ WorkerType /\ PoolType /\ None \notin Nodes
  BY TypeParts, NamesAssumption DEF IInv
<1>1. CASE UNCHANGED <<node, nstate>>
  BY <1>0, <1>1 DEF NodesExact
<1>2. CASE SpawnOk
  <2>1. nstate[spawning] = None /\ spawning \in Nodes
    BY <1>0, <1>2 DEF IInv, ListInv, SpawnOk, PoolType
  <2> QED
    BY <1>0, <1>2, <2>1 DEF SpawnOk, NodesExact, PoolType, disp, None
<1>3. ASSUME NEW d \in Dispatchers, NEW n \in Nodes, nstate[n] = "ready", node[d] = None,
             node' = [node EXCEPT ![d] = n], nstate' = [nstate EXCEPT ![n] = "busy"]
      PROVE  NodesExact'
  <2>1. \A e \in Dispatchers : node[e] # n
    BY <1>0, <1>3 DEF NodesExact
  <2> QED
    BY <1>0, <1>3, <2>1 DEF NodesExact, WorkerType, PoolType
<1>4. ASSUME NEW d \in Dispatchers, node[d] \in Nodes, NEW x \in {"ready", "error"},
             node' = [node EXCEPT ![d] = None], nstate' = [nstate EXCEPT ![node[d]] = x]
      PROVE  NodesExact'
  BY <1>0, <1>4 DEF NodesExact, WorkerType, PoolType
<1>5. ASSUME NEW d \in Dispatchers, Dispatch(d) \/ Heartbeat(d) \/ Seek(d) PROVE NodesExact'
  <2>1. pc[d] \in {"scan", "seek"} /\ node[d] = None
    BY <1>0, <1>5 DEF Dispatch, Heartbeat, Seek, WorkerInv
  <2>2. CASE Dispatch(d)
    BY <1>0, <1>3, <2>1, <2>2, DispatchPicks DEF Engage
  <2>3. CASE Heartbeat(d)
    BY <1>0, <1>1, <1>3, <2>1, <2>3, HeartbeatPicks DEF Engage, disp
  <2>4. CASE Seek(d)
    BY <1>0, <1>3, <2>1, <2>4, SeekPicks DEF Engage
  <2> QED
    BY <1>5, <2>2, <2>3, <2>4
<1>6. ASSUME NEW d \in Dispatchers,
             HeartbeatOk(d) \/ HeartbeatFails(d) \/ AwaitOk(d) \/ SendFails(d) \/ AwaitFails(d)
      PROVE  NodesExact'
  <2>1. node[d] \in Nodes
    BY <1>0, <1>6 DEF HeartbeatOk, HeartbeatFails, AwaitOk, SendFails, AwaitFails, WorkerInv,
       WorkerType
  <2>2. /\ node' = [node EXCEPT ![d] = None]
        /\ \/ nstate' = [nstate EXCEPT ![node[d]] = "ready"]
           \/ nstate' = [nstate EXCEPT ![node[d]] = "error"]
    BY <1>6 DEF HeartbeatOk, HeartbeatFails, AwaitOk, SendFails, AwaitFails, GiveUp, Release
  <2> QED
    BY <1>4, <2>1, <2>2
<1>7. ASSUME NEW d \in Dispatchers, Sweep(d) \/ SeekTimeout(d) \/ RequestSent(d) \/ QuerySent(d)
      PROVE  NodesExact'
  BY <1>1, <1>7 DEF Sweep, SeekTimeout, RequestSent, QuerySent, Send, pool, disp
<1>8. CASE (\E n \in Nodes : SpawnAccept(n) \/ SlaveStep(n)) \/ SpawnFails
           \/ \E q \in Requests : Arrive(q)
  BY <1>1, <1>8 DEF SpawnAccept, SpawnFails, SlaveStep, SlaveConfirms, SlaveExecutes,
     SlaveLeaves, Arrive, pool, disp
<1> QED
  BY <1>2, <1>5, <1>6, <1>7, <1>8, NextCases DEF DispatcherStep, SpawnStep

(* A scan keeps the list without repetition.                               *)
LEMMA ListStep ==
  ASSUME IInv, Next
  PROVE  ListInv'
<1>0. TypeOK /\ ListInv /\ PoolType /\ LinkType /\ None \notin Nodes
  BY TypeParts, NamesAssumption DEF IInv
<1>1. ASSUME slist' = slist, UNCHANGED spawning,
             \A n \in Nodes : nstate'[n] = None <=> nstate[n] = None,
             \A n \in Nodes : slave'[n] = "new" <=> slave[n] = "new"
      PROVE  ListInv'
  BY <1>0, <1>1 DEF ListInv, PoolType
<1>2. ASSUME Scanned, UNCHANGED <<spawning, slave>>,
             \A n \in Nodes : nstate'[n] = None <=> nstate[n] = None
      PROVE  ListInv'
  <2>1. PICK g, h : Moved(g, h)
    BY <1>2 DEF Scanned
  <2>2. ASSUME NEW i \in DOMAIN slist'
        PROVE  g[i] \in DOMAIN slist /\ slist'[i] = slist[g[i]] /\ slist[g[i]] \in Nodes
    BY <1>0, <2>1 DEF Moved, PoolType
  <2>3. \A i \in DOMAIN slist' : nstate'[slist'[i]] # None
    BY <1>0, <1>2, <2>2 DEF ListInv
  <2>4. \A i, j \in DOMAIN slist' : slist'[i] = slist'[j] => i = j
    BY <1>0, <2>1, <2>2 DEF ListInv, Moved
  <2> QED
    BY <1>0, <1>2, <2>3, <2>4 DEF ListInv, PoolType
<1>3. ASSUME NEW n \in Nodes, SpawnAccept(n) PROVE ListInv'
  BY <1>0, <1>3 DEF SpawnAccept, ListInv, PoolType, LinkType
<1>4. CASE SpawnOk
  <2>1. spawning \in Nodes /\ nstate[spawning] = None /\ slave[spawning] # "new"
    BY <1>0, <1>4 DEF SpawnOk, ListInv, PoolType
  <2>2. \A i \in DOMAIN slist : slist[i] # spawning /\ slist[i] \in Nodes
    BY <1>0, <2>1 DEF ListInv, PoolType
  <2>3. /\ DOMAIN slist' = 1 .. Len(slist) + 1 /\ DOMAIN slist = 1 .. Len(slist)
        /\ Len(slist) \in Nat /\ slist'[Len(slist) + 1] = spawning
        /\ \A i \in DOMAIN slist : slist'[i] = slist[i]
    BY <1>0, <1>4, <2>1 DEF SpawnOk, PoolType
  <2>4. nstate' = [nstate EXCEPT ![spawning] = "ready"] /\ spawning' = None /\ slave' = slave
    BY <1>4 DEF SpawnOk, link
  <2>5. \A i \in DOMAIN slist' : i = Len(slist) + 1 \/ i \in DOMAIN slist
    BY <2>3
  <2>6. \A i \in DOMAIN slist' : nstate'[slist'[i]] # None
    BY <1>0, <2>1, <2>2, <2>3, <2>4, <2>5 DEF ListInv, PoolType, None
  <2>7. \A i, j \in DOMAIN slist' : slist'[i] = slist'[j] => i = j
    BY <1>0, <2>2, <2>3, <2>5 DEF ListInv
  <2> QED
    BY <1>0, <2>1, <2>4, <2>6, <2>7 DEF ListInv, PoolType
<1>5. CASE SpawnFails
  BY <1>0, <1>5 DEF SpawnFails, ListInv, PoolType, LinkType
<1>6. ASSUME NEW n \in Nodes, SlaveStep(n) PROVE ListInv'
  <2>1. slist' = slist /\ UNCHANGED <<spawning, nstate>>
    BY <1>6 DEF SlaveStep, SlaveConfirms, SlaveExecutes, SlaveLeaves, pool
  <2>2. \A m \in Nodes : slave'[m] = "new" <=> slave[m] = "new"
    BY <1>0, <1>6 DEF SlaveStep, SlaveConfirms, SlaveExecutes, SlaveLeaves, LinkType
  <2> QED
    BY <1>1, <2>1, <2>2
<1>7. ASSUME NEW q \in Requests, Arrive(q) PROVE ListInv'
  BY <1>1, <1>7 DEF Arrive, pool, link
<1>8. ASSUME NEW d \in Dispatchers, Dispatch(d) \/ Heartbeat(d) \/ Seek(d) \/ Sweep(d)
      PROVE  ListInv'
  <2>1. CASE Dispatch(d)
    <3>1. PICK n \in Nodes : nstate[n] = "ready" /\ nstate' = [nstate EXCEPT ![n] = "busy"]
      BY <1>0, <2>1, DispatchPicks DEF Engage
    <3>2. Scanned /\ UNCHANGED <<spawning, slave>>
      BY <1>0, <2>1, DispatchPicks DEF link
    <3> QED
      BY <1>0, <1>2, <3>1, <3>2 DEF PoolType, None
  <2>2. CASE Heartbeat(d)
    <3>1. nstate' = nstate
          \/ \E n \in Nodes : nstate[n] = "ready" /\ nstate' = [nstate EXCEPT ![n] = "busy"]
      BY <1>0, <2>2, HeartbeatPicks DEF Engage
    <3>2. Scanned /\ UNCHANGED <<spawning, slave>>
      BY <1>0, <2>2, HeartbeatPicks DEF link
    <3> QED
      BY <1>0, <1>2, <3>1, <3>2 DEF PoolType, None
  <2>3. CASE Seek(d)
    <3>1. PICK n \in Nodes : nstate[n] = "ready" /\ nstate' = [nstate EXCEPT ![n] = "busy"]
      BY <1>0, <2>3, SeekPicks DEF Engage
    <3>2. Scanned /\ UNCHANGED <<spawning, slave>>
      BY <1>0, <2>3, SeekPicks DEF link
    <3> QED
      BY <1>0, <1>2, <3>1, <3>2 DEF PoolType, None
  <2>4. CASE Sweep(d)
    BY <1>0, <1>2, <2>4, SweepScans DEF Sweep, link
  <2> QED
    BY <1>8, <2>1, <2>2, <2>3, <2>4
<1>9. ASSUME NEW d \in Dispatchers,
             HeartbeatOk(d) \/ HeartbeatFails(d) \/ AwaitOk(d) \/ SendFails(d) \/ AwaitFails(d)
      PROVE  ListInv'
  <2>1. node[d] \in Nodes /\ nstate[node[d]] = "busy"
    BY <1>9, TypeParts DEF HeartbeatOk, HeartbeatFails, AwaitOk, SendFails, AwaitFails, IInv,
       WorkerInv, WorkerType, NodesExact
  <2>2. \/ nstate' = [nstate EXCEPT ![node[d]] = "ready"]
        \/ nstate' = [nstate EXCEPT ![node[d]] = "error"]
    BY <1>9 DEF HeartbeatOk, HeartbeatFails, AwaitOk, SendFails, AwaitFails, GiveUp
  <2>3. slist' = slist /\ UNCHANGED <<spawning, slave>>
    BY <1>9 DEF HeartbeatOk, HeartbeatFails, AwaitOk, SendFails, AwaitFails, GiveUp, link
  <2> QED
    BY <1>0, <1>1, <2>1, <2>2, <2>3 DEF PoolType, None
<1>10. ASSUME NEW d \in Dispatchers, SeekTimeout(d) \/ RequestSent(d) \/ QuerySent(d)
       PROVE  ListInv'
  BY <1>1, <1>10 DEF SeekTimeout, RequestSent, QuerySent, Send, pool, link
<1> QED
  BY <1>3, <1>4, <1>5, <1>6, <1>7, <1>8, <1>9, <1>10, NextCases DEF DispatcherStep, SpawnStep

LEMMA OneMessage ==
  ASSUME NEW S, NEW box \in Seq(S), Len(box) <= 1, box # <<>>
  PROVE  Head(box) \in S /\ box = <<Head(box)>> /\ Tail(box) = <<>>
<1>1. Len(box) = 1
  <2>1. Len(box) \in Nat \ {0}
    BY EmptySeq
  <2> QED
    BY <2>1
<1>2. /\ Head(box) = box[1] /\ box[1] \in S
      /\ Tail(box) \in Seq(S) /\ Len(Tail(box)) = 0
  BY <1>1, HeadTailProperties
<1>3. box = <<box[1]>>
  BY <1>1
<1>4. Tail(box) = <<>>
  BY <1>2, EmptySeq
<1> QED
  BY <1>2, <1>3, <1>4

LEMMA FirstMessage ==
  ASSUME NEW m
  PROVE  Append(<<>>, m) = <<m>> /\ <<m>> # <<>> /\ Len(<<m>>) <= 1
OBVIOUS

(* What is sent goes over a connection that is empty, and what comes back  *)
(* is read before the node is ready again; a node in error is never used   *)
(* again, so that a late answer stays where it is.                         *)
LEMMA LinkStep ==
  ASSUME IInv, Next
  PROVE  LinkInv'
<1>0. /\ TypeOK /\ LinkInv /\ WorkerInv /\ NodesExact /\ PoolType /\ LinkType /\ WorkerType
      /\ None \notin Nodes /\ None \notin Requests /\ Query \notin Requests
      /\ Len(<<>>) = 0
  BY TypeParts, NamesAssumption DEF IInv
<1>a. ASSUME NEW d \in Dispatchers
      PROVE  /\ pc[d] \in {"query", "heartbeat", "send", "await"} => node[d] \in Nodes
             /\ pc[d] \in {"send", "await", "seek"} => job[d] \in Requests
  BY <1>0 DEF WorkerInv, WorkerType
<1>1. ASSUME UNCHANGED <<inbox, outbox, disp>>,
             \A n \in Nodes : nstate'[n] \in {None, "ready"} => inbox[n] = <<>> /\ outbox[n] = <<>>
      PROVE  LinkInv'
  BY <1>0, <1>1 DEF LinkInv, disp
<1>2. ASSUME NEW d \in Dispatchers, NEW n \in Nodes, nstate[n] = "ready",
             NEW q, NEW to \in {"query", "send"}, Engage(d, n, q, to), UNCHANGED link
      PROVE  LinkInv'
  <2>1. inbox[n] = <<>> /\ outbox[n] = <<>>
    BY <1>0, <1>2 DEF LinkInv
  <2>2. inbox' = inbox /\ outbox' = outbox
    BY <1>2 DEF link
  <2>3. /\ node'[d] = n /\ job'[d] = q /\ pc'[d] = to /\ nstate'[n] = "busy"
        /\ \A e \in Dispatchers : e # d => node'[e] = node[e] /\ job'[e] = job[e] /\ pc'[e] = pc[e]
        /\ \A k \in Nodes : k # n => nstate'[k] = nstate[k]
    BY <1>0, <1>2 DEF Engage, WorkerType, PoolType
  <2> QED
    BY <1>0, <1>2, <2>1, <2>2, <2>3 DEF LinkInv, None
<1>10. ASSUME NEW d \in Dispatchers, NEW m, NEW to, Send(d, m, to),
              \/ pc[d] = "send" /\ to = "await" /\ m = job[d]
              \/ pc[d] = "query" /\ to = "heartbeat" /\ m = Query
       PROVE  LinkInv'
  <2> DEFINE n == node[d]
  <2>1. n \in Nodes /\ inbox[n] = <<>> /\ outbox[n] = <<>>
    BY <1>0, <1>a, <1>10 DEF LinkInv
  <2>2. /\ inbox'[n] = <<>> \/ inbox'[n] = <<m>>
        /\ \A k \in Nodes : k # n => inbox'[k] = inbox[k]
    BY <1>0, <1>10, <2>1, FirstMessage DEF Send, LinkType
  <2>3. nstate[n] = "busy" /\ \A e \in Dispatchers : e # d => node[e] # n
    BY <1>0, <2>1 DEF NodesExact
  <2>4. /\ UNCHANGED <<nstate, node, job, outbox>> /\ pc'[d] = to
        /\ \A e \in Dispatchers : e # d => pc'[e] = pc[e]
    BY <1>0, <1>10 DEF Send, WorkerType, pool
  <2> HIDE DEF n
  <2>5. ASSUME NEW k \in Nodes
        PROVE  /\ inbox'[k] = <<>> \/ outbox'[k] = <<>>
               /\ Len(inbox'[k]) <= 1 /\ Len(outbox'[k]) <= 1
               /\ nstate'[k] \in {None, "ready"} => inbox'[k] = <<>> /\ outbox'[k] = <<>>
    <3>1. CASE k = n
      <4>0. Len(<<>>) <= 1 /\ Len(<<m>>) <= 1
        OBVIOUS
      <4>1. Len(inbox'[n]) <= 1
        BY <2>2, <4>0
      <4> QED
        BY <1>0, <2>1, <2>3, <2>4, <3>1, <4>1 DEF None
    <3>2. CASE k # n
      BY <1>0, <2>2, <2>4, <3>2 DEF LinkInv
    <3> QED
      BY <3>1, <3>2
  <2>6. ASSUME NEW e \in Dispatchers
        PROVE  /\ pc'[e] \in {"send", "query"} =>
                    inbox'[node'[e]] = <<>> /\ outbox'[node'[e]] = <<>>
               /\ pc'[e] = "await" => /\ inbox'[node'[e]] \in {<<>>, <<job'[e]>>}
                                      /\ outbox'[node'[e]] \in {<<>>, <<job'[e]>>}
               /\ pc'[e] = "heartbeat" => /\ inbox'[node'[e]] \in {<<>>, <<Query>>}
                                          /\ outbox'[node'[e]] \in {<<>>, <<Confirm>>}
    <3>1. CASE e = d
      BY <1>10, <2>1, <2>2, <2>4, <3>1 DEF n
    <3>2. CASE e # d
      BY <1>0, <1>a, <2>2, <2>3, <2>4, <3>2 DEF LinkInv
    <3> QED
      BY <3>1, <3>2
  <2> QED
    BY <2>5, <2>6 DEF LinkInv
<1>3. ASSUME NEW n \in Nodes, SlaveConfirms(n) \/ SlaveExecutes(n) PROVE LinkInv'
  <2> DEFINE m == Head(inbox[n])
             r == IF m = Query THEN Confirm ELSE m
  <2>1. inbox[n] # <<>> /\ m \in Requests \cup {Query}
    BY <1>3 DEF SlaveConfirms, SlaveExecutes
  <2>2. inbox[n] = <<m>> /\ Tail(inbox[n]) = <<>> /\ outbox[n] = <<>>
    BY <1>0, <2>1, OneMessage DEF LinkInv, LinkType
  <2>3. Reply(n, r)
    BY <1>0, <1>3 DEF SlaveConfirms, SlaveExecutes
  <2> HIDE DEF m, r
  <2>4. /\ inbox'[n] = <<>> /\ \A k \in Nodes : k # n => inbox'[k] = inbox[k]
    BY <1>0, <1>3, <2>2 DEF SlaveConfirms, SlaveExecutes, LinkType
  <2>5. /\ outbox'[n] = <<>> \/ outbox'[n] = <<r>>
        /\ \A k \in Nodes : k # n => outbox'[k] = outbox[k]
    BY <1>0, <2>2, <2>3, FirstMessage DEF Reply, LinkType
  <2>6. nstate' = nstate /\ UNCHANGED disp
    BY <1>3 DEF SlaveConfirms, SlaveExecutes, pool
  <2>7. nstate[n] \notin {None, "ready"}
    BY <1>0, <2>1 DEF LinkInv
  <2>8. ASSUME NEW k \in Nodes
        PROVE  /\ inbox'[k] = <<>> \/ outbox'[k] = <<>>
               /\ Len(inbox'[k]) <= 1 /\ Len(outbox'[k]) <= 1
               /\ nstate'[k] \in {None, "ready"} => inbox'[k] = <<>> /\ outbox'[k] = <<>>
    <3>1. CASE k = n
      <4>0. Len(<<>>) <= 1 /\ Len(<<r>>) <= 1
        OBVIOUS
      <4>1. Len(outbox'[n]) <= 1
        BY <2>5, <4>0
      <4> QED
        BY <1>0, <2>4, <2>6, <2>7, <3>1, <4>1
    <3>2. CASE k # n
      BY <1>0, <2>4, <2>5, <2>6, <3>2 DEF LinkInv
    <3> QED
      BY <3>1, <3>2
  <2>9. ASSUME NEW e \in Dispatchers
        PROVE  /\ pc[e] \in {"send", "query"} =>
                    inbox'[node[e]] = <<>> /\ outbox'[node[e]] = <<>>
               /\ pc[e] = "await" => /\ inbox'[node[e]] \in {<<>>, <<job[e]>>}
                                     /\ outbox'[node[e]] \in {<<>>, <<job[e]>>}
               /\ pc[e] = "heartbeat" => /\ inbox'[node[e]] \in {<<>>, <<Query>>}
                                         /\ outbox'[node[e]] \in {<<>>, <<Confirm>>}
    <3>1. CASE pc[e] = "await" /\ node[e] = n
      <4>1. <<m>> = <<job[e]>> /\ job[e] \in Requests
        BY <1>0, <1>a, <2>1, <2>2, <3>1 DEF LinkInv
      <4>2. r = job[e]
        BY <1>0, <4>1 DEF r
      <4> QED
        BY <2>4, <2>5, <3>1, <4>2
    <3>2. CASE pc[e] = "heartbeat" /\ node[e] = n
      <4>1. <<m>> = <<Query>>
        BY <1>0, <2>1, <2>2, <3>2 DEF LinkInv
      <4>2. r = Confirm
        BY <4>1 DEF r
      <4> QED
        BY <2>4, <2>5, <3>2, <4>2
    <3>3. CASE pc[e] \in {"send", "query", "await", "heartbeat"} /\ node[e] # n
      BY <1>0, <1>a, <2>4, <2>5, <3>3 DEF LinkInv
    <3>4. pc[e] \in {"send", "query"} => node[e] # n
      BY <1>0, <2>1 DEF LinkInv
    <3> QED
      BY <3>1, <3>2, <3>3, <3>4
  <2> QED
    BY <2>6, <2>8, <2>9 DEF LinkInv, disp
<1>4. ASSUME NEW n \in Nodes, SlaveLeaves(n) PROVE LinkInv'
  <2>1. /\ inbox'[n] = <<>> /\ \A k \in Nodes : k # n => inbox'[k] = inbox[k]
        /\ outbox' = outbox /\ nstate' = nstate /\ UNCHANGED disp
    BY <1>0, <1>4 DEF SlaveLeaves, LinkType, pool
  <2>2. \A k \in Nodes : inbox'[k] = <<>> \/ inbox'[k] = inbox[k]
    BY <2>1
  <2> QED
    BY <1>0, <1>a, <2>1, <2>2 DEF LinkInv, disp
<1>5. ASSUME NEW d \in Dispatchers, HeartbeatOk(d) \/ AwaitOk(d) PROVE LinkInv'
  <2> DEFINE n == node[d]
  <2>1. n \in Nodes /\ outbox[n] # <<>>
    BY <1>a, <1>5 DEF HeartbeatOk, AwaitOk
  <2>2. Tail(outbox[n]) = <<>> /\ inbox[n] = <<>>
    BY <1>0, <2>1, OneMessage DEF LinkInv, LinkType
  <2>3. /\ outbox'[n] = <<>> /\ \A k \in Nodes : k # n => outbox'[k] = outbox[k]
        /\ inbox' = inbox /\ nstate' = [nstate EXCEPT ![n] = "ready"]
    BY <1>0, <1>5, <2>1, <2>2 DEF HeartbeatOk, AwaitOk, LinkType
  <2>4. /\ pc'[d] = "scan"
        /\ \A e \in Dispatchers : e # d => node'[e] = node[e] /\ job'[e] = job[e] /\ pc'[e] = pc[e]
    BY <1>0, <1>5 DEF HeartbeatOk, AwaitOk, Release, Respond, WorkerType
  <2>5. \A k \in Nodes : k # n => nstate'[k] = nstate[k]
    BY <1>0, <2>1, <2>3 DEF PoolType
  <2> HIDE DEF n
  <2>6. \A k \in Nodes : outbox'[k] = <<>> \/ outbox'[k] = outbox[k]
    BY <2>3
  <2>7. ASSUME NEW k \in Nodes
        PROVE  /\ inbox'[k] = <<>> \/ outbox'[k] = <<>>
               /\ Len(inbox'[k]) <= 1 /\ Len(outbox'[k]) <= 1
               /\ nstate'[k] \in {None, "ready"} => inbox'[k] = <<>> /\ outbox'[k] = <<>>
    BY <1>0, <2>2, <2>3, <2>5, <2>6 DEF LinkInv
  <2>8. ASSUME NEW e \in Dispatchers
        PROVE  /\ pc'[e] \in {"send", "query"} =>
                    inbox'[node'[e]] = <<>> /\ outbox'[node'[e]] = <<>>
               /\ pc'[e] = "await" => /\ inbox'[node'[e]] \in {<<>>, <<job'[e]>>}
                                      /\ outbox'[node'[e]] \in {<<>>, <<job'[e]>>}
               /\ pc'[e] = "heartbeat" => /\ inbox'[node'[e]] \in {<<>>, <<Query>>}
                                          /\ outbox'[node'[e]] \in {<<>>, <<Confirm>>}
    BY <1>0, <1>a, <2>3, <2>4, <2>6 DEF LinkInv
  <2> QED
    BY <2>7, <2>8 DEF LinkInv
<1>6. ASSUME NEW d \in Dispatchers, HeartbeatFails(d) \/ SendFails(d) \/ AwaitFails(d)
      PROVE  LinkInv'
  <2>1. /\ inbox' = inbox /\ outbox' = outbox
        /\ pc'[d] \in {"scan", "seek"}
        /\ \A e \in Dispatchers : e # d => node'[e] = node[e] /\ job'[e] = job[e] /\ pc'[e] = pc[e]
    BY <1>0, <1>6 DEF HeartbeatFails, SendFails, AwaitFails, GiveUp, Release, Respond,
       WorkerType, link
  <2>2. node[d] \in Nodes /\ nstate' = [nstate EXCEPT ![node[d]] = "error"]
    BY <1>a, <1>6 DEF HeartbeatFails, SendFails, AwaitFails, GiveUp
  <2>3. \A k \in Nodes : nstate'[k] \in {None, "ready"} => nstate'[k] = nstate[k]
    BY <1>0, <2>2 DEF PoolType, None
  <2> QED
    BY <1>0, <2>1, <2>3 DEF LinkInv
<1>7. ASSUME NEW d \in Dispatchers, SeekTimeout(d) PROVE LinkInv'
  <2>1. /\ inbox' = inbox /\ outbox' = outbox /\ nstate' = nstate /\ pc'[d] = "scan"
        /\ \A e \in Dispatchers : e # d => node'[e] = node[e] /\ job'[e] = job[e] /\ pc'[e] = pc[e]
    BY <1>0, <1>7 DEF SeekTimeout, Respond, WorkerType, link, pool
  <2> QED
    BY <1>0, <2>1 DEF LinkInv
<1>8. CASE SpawnStep \/ (\E q \in Requests : Arrive(q)) \/ (\E d \in Dispatchers : Sweep(d))
  <2>1. UNCHANGED <<inbox, outbox, disp>>
    BY <1>8 DEF SpawnStep, SpawnAccept, SpawnOk, SpawnFails, Arrive, Sweep, link
  <2>2. CASE nstate' = nstate
    BY <1>0, <1>1, <2>1, <2>2 DEF LinkInv
  <2>3. CASE SpawnOk
    <3>1. spawning \in Nodes /\ nstate[spawning] = None
      BY <1>0, <2>3 DEF SpawnOk, PoolType, IInv, ListInv
    <3>2. nstate' = [nstate EXCEPT ![spawning] = "ready"]
      BY <2>3 DEF SpawnOk
    <3>3. \A n \in Nodes : nstate'[n] \in {None, "ready"} => nstate[n] \in {None, "ready"}
      BY <1>0, <3>1, <3>2 DEF PoolType
    <3> QED
      BY <1>0, <1>1, <2>1, <3>3 DEF LinkInv
  <2> QED
    BY <1>8, <2>2, <2>3 DEF SpawnStep, SpawnAccept, SpawnFails, Arrive, Sweep, pool
<1>9. ASSUME NEW d \in Dispatchers, Dispatch(d) \/ Heartbeat(d) \/ Seek(d) PROVE LinkInv'
  <2>1. CASE Dispatch(d)
    BY <1>0, <1>2, <2>1, DispatchPicks
  <2>2. CASE Heartbeat(d)
    <3>1. CASE \E n \in Nodes : nstate[n] = "ready" /\ Engage(d, n, None, "query")
      BY <1>0, <1>2, <2>2, <3>1, HeartbeatPicks
    <3>2. CASE UNCHANGED <<nstate, disp>>
      BY <1>0, <1>1, <2>2, <3>2, HeartbeatPicks DEF LinkInv, link
    <3> QED
      BY <1>0, <2>2, <3>1, <3>2, HeartbeatPicks
  <2>3. CASE Seek(d)
    BY <1>0, <1>2, <2>3, SeekPicks
  <2> QED
    BY <1>9, <2>1, <2>2, <2>3
<1>11. ASSUME NEW d \in Dispatchers, RequestSent(d) \/ QuerySent(d) PROVE LinkInv'
  BY <1>10, <1>11 DEF RequestSent, QuerySent
<1> QED
  BY <1>3, <1>4, <1>5, <1>6, <1>7, <1>8, <1>9, <1>11, NextCases DEF SlaveStep, DispatcherStep

(* A request leaves the queue once, with the worker that takes it.         *)
LEMMA JobStep ==
  ASSUME IInv, Next
  PROVE  JobInv'
<1>0. TypeOK /\ WorkerInv /\ JobInv /\ RequestType /\ WorkerType /\ None \notin Requests
  BY TypeParts, NamesAssumption DEF IInv
<1>1. CASE UNCHANGED <<session, job>>
  BY <1>0, <1>1 DEF JobInv
<1>2. ASSUME NEW d \in Dispatchers, NEW r, Respond(d, r), job[d] \in Requests PROVE JobInv'
  <2>1. /\ job'[d] = None
        /\ \A e \in Dispatchers : e # d => job'[e] = job[e] /\ (job[e] # None => job[e] # job[d])
    BY <1>0, <1>2 DEF Respond, JobInv, WorkerType
  <2>2. \A q \in Requests : q # job[d] => session'[q] = session[q]
    BY <1>0, <1>2 DEF Respond, RequestType
  <2> QED
    BY <1>0, <2>1, <2>2 DEF JobInv, WorkerType
<1>3. ASSUME NEW d \in Dispatchers, Dispatch(d) PROVE JobInv'
  <2>1. PICK q \in Requests :
          /\ session[q] = "queued" /\ session' = [session EXCEPT ![q] = "taken"]
          /\ job' = [job EXCEPT ![d] = q]
    BY <1>0, <1>3, DispatchPicks DEF Engage
  <2>2. \A e \in Dispatchers : job[e] # q
    BY <1>0, <2>1 DEF JobInv
  <2> QED
    BY <1>0, <2>1, <2>2 DEF JobInv, WorkerType, RequestType
<1>4. ASSUME NEW d \in Dispatchers, Heartbeat(d) \/ Seek(d) PROVE JobInv'
  <2>1. session' = session /\ (Heartbeat(d) => job[d] = None)
    BY <1>0, <1>4 DEF Heartbeat, Seek, requests, WorkerInv
  <2>2. job' = job
    BY <1>0, <1>4, <2>1, HeartbeatPicks, SeekPicks DEF Engage, disp, WorkerType
  <2> QED
    BY <1>1, <2>1, <2>2
<1>5. ASSUME NEW d \in Dispatchers,
             AwaitOk(d) \/ SendFails(d) \/ AwaitFails(d) \/ SeekTimeout(d)
      PROVE  JobInv'
  <2>1. job[d] \in Requests
    BY <1>0, <1>5 DEF AwaitOk, SendFails, AwaitFails, SeekTimeout, WorkerInv, WorkerType
  <2>2. (\E r : Respond(d, r)) \/ UNCHANGED <<session, job>>
    BY <1>5 DEF AwaitOk, SendFails, AwaitFails, GiveUp, SeekTimeout
  <2> QED
    BY <1>1, <1>2, <2>1, <2>2
<1>6. ASSUME NEW d \in Dispatchers, Sweep(d) \/ HeartbeatOk(d) \/ HeartbeatFails(d)
                                   \/ RequestSent(d) \/ QuerySent(d)
      PROVE  JobInv'
  BY <1>1, <1>6 DEF Sweep, HeartbeatOk, HeartbeatFails, RequestSent, QuerySent, Send, requests, disp
<1>7. CASE SpawnStep \/ \E n \in Nodes : SlaveStep(n)
  BY <1>1, <1>7 DEF SpawnStep, SpawnAccept, SpawnOk, SpawnFails, SlaveStep, SlaveConfirms,
     SlaveExecutes, SlaveLeaves, requests, disp
<1>8. ASSUME NEW q \in Requests, Arrive(q) PROVE JobInv'
  BY <1>0, <1>8 DEF Arrive, JobInv, disp, RequestType
<1> QED
  BY <1>3, <1>4, <1>5, <1>6, <1>7, <1>8, NextCases DEF DispatcherStep

(* The load of a request.                                                  *)
LEMMA LoadNat ==
  ASSUME RequestType, NEW q \in Requests
  PROVE  /\ IsFiniteSet(Carriers(q)) /\ Cardinality(Carriers(q)) \in Nat
         /\ executed[q] \in Nat /\ Load(q) \in Nat /\ executed[q] <= Load(q)
<1>1. IsFiniteSet(Carriers(q))
  BY PoolAssumption, FS_Subset DEF Carriers
<1>2. Cardinality(Carriers(q)) \in Nat
  BY <1>1, FS_CardinalityType
<1>3. executed[q] \in Nat
  BY DEF RequestType
<1> QED
  BY <1>1, <1>2, <1>3 DEF Load

LEMMA LoadShrinks ==
  ASSUME RequestType, NEW q \in Requests, executed'[q] = executed[q],
         \A n \in Nodes : inbox'[n] = <<q>> => inbox[n] = <<q>>
  PROVE  Load(q)' \in Nat /\ Load(q)' <= Load(q)
<1> DEFINE C == Carriers(q)
           D == Carriers(q)'
<1>1. D \in SUBSET C
  BY DEF Carriers
<1>2. IsFiniteSet(C) /\ Cardinality(C) \in Nat /\ executed[q] \in Nat
  BY LoadNat
<1>3. Load(q) = executed[q] + Cardinality(C) /\ Load(q)' = executed[q] + Cardinality(D)
  BY DEF Load
<1> HIDE DEF C, D
<1>4. IsFiniteSet(D) /\ Cardinality(D) <= Cardinality(C)
  BY <1>1, <1>2, FS_Subset
<1>5. Cardinality(D) \in Nat
  BY <1>4, FS_CardinalityType
<1> QED
  BY <1>2, <1>3, <1>4, <1>5

LEMMA LoadGrows ==
  ASSUME RequestType, NEW q \in Requests, executed'[q] = executed[q], NEW n \in Nodes,
         \A k \in Nodes : k # n /\ inbox'[k] = <<q>> => inbox[k] = <<q>>
  PROVE  Load(q)' \in Nat /\ Load(q)' <= Load(q) + 1
<1> DEFINE C == Carriers(q)
           D == Carriers(q)'
<1>1. D \in SUBSET (C \cup {n})
  BY DEF Carriers
<1>2. IsFiniteSet(C) /\ Cardinality(C) \in Nat /\ executed[q] \in Nat
  BY LoadNat
<1>3. Load(q) = executed[q] + Cardinality(C) /\ Load(q)' = executed[q] + Cardinality(D)
  BY DEF Load
<1> HIDE DEF C, D
<1>4. IsFiniteSet(C \cup {n}) /\ Cardinality(C \cup {n}) <= Cardinality(C) + 1
  BY <1>2, FS_AddElement
<1>5. IsFiniteSet(D) /\ Cardinality(D) <= Cardinality(C \cup {n})
  BY <1>1, <1>4, FS_Subset
<1>6. Cardinality(D) \in Nat /\ Cardinality(C \cup {n}) \in Nat
  BY <1>4, <1>5, FS_CardinalityType
<1> QED
  BY <1>2, <1>3, <1>4, <1>5, <1>6

(* A slave that reads a request turns what may be executed into what was.  *)
LEMMA LoadMoves ==
  ASSUME RequestType, LinkType, NEW q \in Requests, NEW n \in Nodes, inbox[n] = <<q>>,
         inbox' = [inbox EXCEPT ![n] = <<>>], executed'[q] = executed[q] + 1
  PROVE  Load(q)' \in Nat /\ Load(q)' <= Load(q)
<1> DEFINE C == Carriers(q)
           D == Carriers(q)'
<1>1. D = C \ {n} /\ n \in C
  <2>1. <<q>> # <<>>
    OBVIOUS
  <2>2. inbox'[n] # <<q>> /\ \A k \in Nodes : k # n => inbox'[k] = inbox[k]
    BY <2>1 DEF LinkType
  <2> QED
    BY <2>2 DEF Carriers
<1>2. IsFiniteSet(C) /\ Cardinality(C) \in Nat /\ executed[q] \in Nat
  BY LoadNat
<1>3. Load(q) = executed[q] + Cardinality(C) /\ Load(q)' = executed[q] + 1 + Cardinality(D)
  BY DEF Load
<1> HIDE DEF C, D
<1>4. IsFiniteSet(D) /\ Cardinality(D) = Cardinality(C) - 1
  BY <1>1, <1>2, FS_RemoveElement
<1>5. Cardinality(D) \in Nat
  BY <1>4, FS_CardinalityType
<1> QED
  BY <1>2, <1>3, <1>4, <1>5

(* A dispatch adds at most one execution, and only a request that may be   *)
(* repeated is dispatched again, after dispatch_attempts was raised.       *)
LEMMA LoadStep ==
  ASSUME IInv, Next
  PROVE  LoadInv'
<1>0. /\ TypeOK /\ WorkerInv /\ LinkInv /\ JobInv /\ LoadInv /\ RequestType /\ LinkType /\ WorkerType
      /\ None \notin Requests /\ Query \notin Requests /\ DispatchRetry \in Nat
  BY TypeParts, NamesAssumption, PoolAssumption DEF IInv
<1>a. \A q \in Requests : Load(q) \in Nat /\ attempts[q] \in Nat
  BY <1>0, LoadNat DEF RequestType
<1>1. ASSUME \A q \in Requests : Load(q)' \in Nat /\ Load(q)' <= Load(q),
             attempts' = attempts,
             \A q \in Requests :
               session'[q] \in {"new", "queued"} => session[q] \in {"new", "queued"},
             \A d \in Dispatchers :
               job'[d] # None => job'[d] = job[d] /\ pc'[d] = pc[d]
      PROVE  LoadInv'
  <2> SUFFICES ASSUME NEW q \in Requests
               PROVE  /\ Load(q)' <= Limit(q)
                      /\ session'[q] \in {"new", "queued"} => Load(q)' = 0 /\ attempts'[q] = 0
                      /\ q \notin Retriable => attempts'[q] = 0
                      /\ \A d \in Dispatchers :
                           job'[d] = q =>
                             /\ attempts'[q] <= DispatchRetry
                             /\ pc'[d] = "send" => Load(q)' <= attempts'[q]
                             /\ pc'[d] = "await" => Load(q)' <= attempts'[q] + 1
                             /\ pc'[d] = "seek" => Load(q)' <= attempts'[q] /\ q \in Retriable
    BY DEF LoadInv, Limit
  <2>1. Load(q)' \in Nat /\ Load(q)' <= Load(q) /\ Load(q) \in Nat /\ attempts[q] \in Nat
    BY <1>1, <1>a
  <2>2. Load(q)' <= Limit(q)
    BY <1>0, <2>1 DEF LoadInv, Limit
  <2>3. session'[q] \in {"new", "queued"} => Load(q)' = 0 /\ attempts'[q] = 0
    BY <1>0, <1>1, <2>1 DEF LoadInv
  <2>4. ASSUME NEW d \in Dispatchers, job'[d] = q
        PROVE  /\ attempts'[q] <= DispatchRetry
               /\ pc'[d] = "send" => Load(q)' <= attempts'[q]
               /\ pc'[d] = "await" => Load(q)' <= attempts'[q] + 1
               /\ pc'[d] = "seek" => Load(q)' <= attempts'[q] /\ q \in Retriable
    BY <1>0, <1>1, <2>1, <2>4 DEF LoadInv
  <2> QED
    BY <1>0, <1>1, <2>2, <2>3, <2>4 DEF LoadInv
<1>2. ASSUME NEW d \in Dispatchers, NEW q \in Requests, UNCHANGED <<attempts, executed>>,
             Load(q)' \in Nat, Load(q)' <= Limit(q), attempts[q] <= DispatchRetry,
             job'[d] = q, session'[q] = "taken",
             \/ pc'[d] = "send" /\ Load(q)' <= attempts[q]
             \/ pc'[d] = "await" /\ Load(q)' <= attempts[q] + 1,
             \A p \in Requests : p # q => /\ session'[p] = session[p]
                                         /\ Load(p)' \in Nat /\ Load(p)' <= Load(p),
             \A e \in Dispatchers : e # d => /\ job'[e] = job[e] /\ pc'[e] = pc[e]
                                            /\ job[e] # q
      PROVE  LoadInv'
  <2>1. ASSUME NEW p \in Requests
        PROVE  /\ Load(p)' <= Limit(p)
               /\ session'[p] \in {"new", "queued"} => Load(p)' = 0 /\ attempts'[p] = 0
               /\ p \notin Retriable => attempts'[p] = 0
               /\ \A e \in Dispatchers :
                    job'[e] = p =>
                      /\ attempts'[p] <= DispatchRetry
                      /\ pc'[e] = "send" => Load(p)' <= attempts'[p]
                      /\ pc'[e] = "await" => Load(p)' <= attempts'[p] + 1
                      /\ pc'[e] = "seek" => Load(p)' <= attempts'[p] /\ p \in Retriable
    <3>1. CASE p = q
      <4>1. \A e \in Dispatchers : job'[e] = q => e = d
        BY <1>2
      <4>2. attempts'[q] = attempts[q] /\ (q \notin Retriable => attempts[q] = 0)
        BY <1>0, <1>2 DEF LoadInv
      <4> QED
        BY <1>2, <3>1, <4>1, <4>2
    <3>2. CASE p # q
      <4>1. Load(p)' \in Nat /\ Load(p)' <= Load(p) /\ Load(p) \in Nat /\ attempts[p] \in Nat
        BY <1>2, <1>a, <3>2
      <4>2. \A e \in Dispatchers : job'[e] = p => job[e] = p /\ pc'[e] = pc[e]
        BY <1>2, <3>2
      <4>3. Load(p)' <= Limit(p)
        BY <1>0, <4>1 DEF LoadInv, Limit
      <4> QED
        BY <1>0, <1>2, <3>2, <4>1, <4>2, <4>3 DEF LoadInv
    <3> QED
      BY <3>1, <3>2
  <2> QED
    BY <2>1 DEF LoadInv, Limit
<1>b. ASSUME executed' = executed, \A n \in Nodes : \A q \in Requests :
               inbox'[n] = <<q>> => inbox[n] = <<q>>
      PROVE  \A q \in Requests : Load(q)' \in Nat /\ Load(q)' <= Load(q)
  BY <1>0, <1>b, LoadShrinks
<1>3. ASSUME NEW d \in Dispatchers, Dispatch(d) PROVE LoadInv'
  <2>1. PICK n \in Nodes, q \in Requests :
          /\ session[q] = "queued" /\ Engage(d, n, q, "send")
          /\ session' = [session EXCEPT ![q] = "taken"]
          /\ UNCHANGED <<inbox, attempts, executed>>
    BY <1>0, <1>3, DispatchPicks DEF link
  <2>2. \A p \in Requests : Load(p)' \in Nat /\ Load(p)' <= Load(p)
    BY <1>b, <2>1
  <2>3. Load(q) = 0 /\ attempts[q] = 0
    BY <1>0, <2>1 DEF LoadInv
  <2>4. Load(q)' <= Limit(q) /\ Load(q)' <= attempts[q] /\ attempts[q] <= DispatchRetry
    BY <1>0, <2>2, <2>3 DEF Limit
  <2>5. \A e \in Dispatchers : job[e] # q
    BY <1>0, <2>1 DEF JobInv
  <2>6. session'[q] = "taken" /\ \A p \in Requests : p # q => session'[p] = session[p]
    BY <1>0, <2>1 DEF RequestType
  <2>7. /\ job'[d] = q /\ pc'[d] = "send"
        /\ \A e \in Dispatchers : e # d => job'[e] = job[e] /\ pc'[e] = pc[e]
    BY <1>0, <2>1 DEF Engage, WorkerType
  <2> QED
    BY <1>2, <2>1, <2>2, <2>4, <2>5, <2>6, <2>7
<1>4. ASSUME NEW d \in Dispatchers, Seek(d) PROVE LoadInv'
  <2>1. PICK n \in Nodes :
          /\ pc[d] = "seek" /\ Engage(d, n, job[d], "send")
          /\ UNCHANGED <<inbox, session, attempts, executed>>
    BY <1>0, <1>4, SeekPicks DEF requests, link
  <2>2. PICK q \in Requests : q = job[d] /\ session[q] = "taken"
    BY <1>0, <2>1 DEF WorkerInv, WorkerType, JobInv
  <2>3. \A p \in Requests : Load(p)' \in Nat /\ Load(p)' <= Load(p)
    BY <1>b, <2>1
  <2>4. Load(q) <= attempts[q] /\ attempts[q] <= DispatchRetry /\ Load(q) <= Limit(q)
    BY <1>0, <2>1, <2>2 DEF LoadInv
  <2>5. Load(q)' <= attempts[q] /\ Load(q)' <= Limit(q)
    <3>1. Limit(q) \in Nat
      BY <1>0 DEF Limit
    <3> QED
      BY <1>a, <2>3, <2>4, <3>1
  <2>6. \A e \in Dispatchers : e # d => job[e] # q
    BY <1>0, <2>2 DEF JobInv
  <2>7. /\ job'[d] = q /\ pc'[d] = "send"
        /\ \A e \in Dispatchers : e # d => job'[e] = job[e] /\ pc'[e] = pc[e]
    BY <1>0, <2>1, <2>2 DEF Engage, WorkerType
  <2> QED
    BY <1>2, <2>1, <2>2, <2>3, <2>4, <2>5, <2>6, <2>7
<1>5. ASSUME NEW d \in Dispatchers, Heartbeat(d) PROVE LoadInv'
  <2>1. /\ UNCHANGED <<inbox, session, attempts, executed>>
        /\ \/ UNCHANGED disp
           \/ \E n \in Nodes : Engage(d, n, None, "query")
    BY <1>0, <1>5, HeartbeatPicks DEF requests, link
  <2>2. \A e \in Dispatchers : job'[e] # None => job'[e] = job[e] /\ pc'[e] = pc[e]
    BY <1>0, <2>1 DEF Engage, disp, WorkerType
  <2>3. \A q \in Requests : Load(q)' \in Nat /\ Load(q)' <= Load(q)
    BY <1>b, <2>1
  <2> QED
    BY <1>1, <2>1, <2>2, <2>3
<1>11. ASSUME NEW d \in Dispatchers, RequestSent(d) PROVE LoadInv'
  <2>1. PICK n \in Nodes, q \in Requests : n = node[d] /\ q = job[d] /\ session[q] = "taken"
    BY <1>0, <1>11 DEF RequestSent, WorkerInv, WorkerType, JobInv
  <2>2. /\ inbox'[n] = <<>> \/ inbox'[n] = <<q>>
        /\ \A k \in Nodes : k # n => inbox'[k] = inbox[k]
    <3>1. inbox[n] = <<>>
      BY <1>0, <1>11, <2>1 DEF RequestSent, LinkInv
    <3> QED
      BY <1>0, <1>11, <2>1, <3>1, FirstMessage DEF RequestSent, Send, LinkType
  <2>3. UNCHANGED <<session, attempts, executed>>
    BY <1>11 DEF RequestSent, Send, requests
  <2>4. Load(q)' \in Nat /\ Load(q)' <= Load(q) + 1
    BY <1>0, <2>2, <2>3, LoadGrows
  <2>5. ASSUME NEW p \in Requests, p # q
        PROVE  Load(p)' \in Nat /\ Load(p)' <= Load(p)
    <3>1. <<p>> # <<>> /\ <<p>> # <<q>>
      BY <2>5
    <3>2. \A k \in Nodes : inbox'[k] = <<p>> => inbox[k] = <<p>>
      BY <2>2, <3>1
    <3> QED
      BY <1>0, <2>3, <3>2, LoadShrinks
  <2>6. /\ Load(q) <= attempts[q] /\ attempts[q] <= DispatchRetry
        /\ q \notin Retriable => attempts[q] = 0
    BY <1>0, <1>11, <2>1 DEF RequestSent, LoadInv
  <2>7. Load(q)' <= attempts[q] + 1 /\ Load(q)' <= Limit(q)
    BY <1>0, <1>a, <2>4, <2>6 DEF Limit
  <2>8. \A e \in Dispatchers : e # d => job[e] # q
    BY <1>0, <2>1 DEF JobInv
  <2>9. /\ job'[d] = q /\ pc'[d] = "await"
        /\ \A e \in Dispatchers : e # d => job'[e] = job[e] /\ pc'[e] = pc[e]
    BY <1>0, <1>11, <2>1 DEF RequestSent, Send, WorkerType
  <2> QED
    BY <1>2, <2>1, <2>3, <2>4, <2>5, <2>6, <2>7, <2>8, <2>9
<1>12. ASSUME NEW d \in Dispatchers, QuerySent(d) PROVE LoadInv'
  <2>1. UNCHANGED <<session, attempts, executed, job>>
    BY <1>12 DEF QuerySent, Send, requests
  <2>2. \A e \in Dispatchers : job'[e] # None => job'[e] = job[e] /\ pc'[e] = pc[e]
    BY <1>0, <1>12 DEF QuerySent, Send, WorkerType, WorkerInv
  <2>3. ASSUME NEW k \in Nodes, NEW q \in Requests, inbox'[k] = <<q>>
        PROVE  inbox[k] = <<q>>
    <3>1. node[d] \in Nodes /\ inbox[node[d]] = <<>>
      BY <1>0, <1>12 DEF QuerySent, WorkerInv, WorkerType, LinkInv
    <3>2. /\ inbox'[node[d]] = <<>> \/ inbox'[node[d]] = <<Query>>
          /\ k # node[d] => inbox'[k] = inbox[k]
      BY <1>0, <1>12, <3>1, FirstMessage DEF QuerySent, Send, LinkType
    <3>3. <<q>> # <<>> /\ <<q>> # <<Query>>
      BY <1>0
    <3> QED
      BY <2>3, <3>2, <3>3
  <2>4. \A q \in Requests : Load(q)' \in Nat /\ Load(q)' <= Load(q)
    BY <1>b, <2>1, <2>3
  <2> QED
    BY <1>1, <2>1, <2>2, <2>4
<1>6. ASSUME NEW n \in Nodes, SlaveExecutes(n) PROVE LoadInv'
  <2>1. PICK p \in Requests :
          p = Head(inbox[n]) /\ inbox[n] = <<p>> /\ Tail(inbox[n]) = <<>>
    BY <1>0, <1>6, OneMessage DEF SlaveExecutes, LinkInv, LinkType
  <2>2. /\ inbox' = [inbox EXCEPT ![n] = <<>>] /\ executed' = [executed EXCEPT ![p] = @ + 1]
        /\ UNCHANGED <<session, attempts, disp>>
    BY <1>6, <2>1 DEF SlaveExecutes
  <2>3. Load(p)' \in Nat /\ Load(p)' <= Load(p)
    <3>1. executed'[p] = executed[p] + 1
      BY <1>0, <2>1, <2>2 DEF RequestType
    <3> QED
      BY <1>0, <2>1, <2>2, <3>1, LoadMoves
  <2>4. ASSUME NEW q \in Requests, q # p PROVE Load(q)' \in Nat /\ Load(q)' <= Load(q)
    <3>1. executed'[q] = executed[q]
      BY <1>0, <2>2, <2>4 DEF RequestType
    <3>2. <<q>> # <<>>
      OBVIOUS
    <3>3. \A k \in Nodes : inbox'[k] = <<q>> => inbox[k] = <<q>>
      BY <1>0, <2>2, <3>2 DEF LinkType
    <3> QED
      BY <1>0, <3>1, <3>3, LoadShrinks
  <2> QED
    BY <1>1, <2>2, <2>3, <2>4 DEF disp
<1>7. ASSUME NEW n \in Nodes, SlaveConfirms(n) \/ SlaveLeaves(n) PROVE LoadInv'
  <2>1. UNCHANGED <<session, attempts, executed, disp>>
    BY <1>7 DEF SlaveConfirms, SlaveLeaves, requests
  <2>2. inbox[n] # <<>> => Tail(inbox[n]) = <<>>
    BY <1>0, OneMessage DEF LinkInv, LinkType
  <2>3. inbox' = [inbox EXCEPT ![n] = <<>>]
    BY <1>7, <2>2 DEF SlaveConfirms, SlaveLeaves
  <2>4. ASSUME NEW k \in Nodes, NEW q \in Requests, inbox'[k] = <<q>> PROVE inbox[k] = <<q>>
    <3>1. <<q>> # <<>>
      OBVIOUS
    <3> QED
      BY <1>0, <2>3, <2>4, <3>1 DEF LinkType
  <2>5. \A q \in Requests : Load(q)' \in Nat /\ Load(q)' <= Load(q)
    BY <1>b, <2>1, <2>4
  <2> QED
    BY <1>1, <2>1, <2>5 DEF disp
<1>8. ASSUME NEW d \in Dispatchers, SendFails(d) \/ AwaitFails(d) PROVE LoadInv'
  <2>1. PICK p \in Requests : p = job[d]
    BY <1>0, <1>8 DEF SendFails, AwaitFails, WorkerInv, WorkerType
  <2>2. /\ attempts' = [attempts EXCEPT ![p] = IF p \in Retriable THEN @ + 1 ELSE @]
        /\ executed' = executed /\ inbox' = inbox /\ pc[d] \in {"send", "await"}
    BY <1>8, <2>1 DEF SendFails, AwaitFails, GiveUp, link
  <2>3. \/ /\ p \in Retriable /\ attempts[p] + 1 <= DispatchRetry /\ pc'[d] = "seek"
           /\ UNCHANGED <<session, job>>
        \/ /\ pc'[d] = "scan" /\ job'[d] = None
           /\ session' = [session EXCEPT ![p] = "done"]
    BY <1>0, <1>8, <2>1 DEF SendFails, AwaitFails, GiveUp, Release, Respond, WorkerType
  <2>4. \A e \in Dispatchers : e # d => job'[e] = job[e] /\ pc'[e] = pc[e] /\ job[e] # p
    BY <1>0, <1>8, <2>1 DEF SendFails, AwaitFails, GiveUp, Release, Respond, WorkerType, JobInv
  <2>5. session[p] = "taken"
    BY <1>0, <2>1 DEF JobInv
  <2>6. \A q \in Requests : Load(q)' \in Nat /\ Load(q)' <= Load(q)
    BY <1>b, <2>2
  <2>7. Load(p) <= attempts[p] + 1 /\ attempts[p] <= DispatchRetry
    BY <1>0, <1>a, <2>1, <2>2 DEF LoadInv
  <2>8. job'[d] = p \/ job'[d] = None
    BY <2>1, <2>3
  <2>9. session'[p] \in {"taken", "done"} /\ \A q \in Requests : q # p => session'[q] = session[q]
    BY <1>0, <2>1, <2>3, <2>5 DEF RequestType
  <2>10. ASSUME NEW q \in Requests
         PROVE  /\ Load(q)' <= Limit(q)
                /\ session'[q] \in {"new", "queued"} => Load(q)' = 0 /\ attempts'[q] = 0
                /\ q \notin Retriable => attempts'[q] = 0
                /\ \A e \in Dispatchers :
                     job'[e] = q =>
                       /\ attempts'[q] <= DispatchRetry
                       /\ pc'[e] = "send" => Load(q)' <= attempts'[q]
                       /\ pc'[e] = "await" => Load(q)' <= attempts'[q] + 1
                       /\ pc'[e] = "seek" => Load(q)' <= attempts'[q] /\ q \in Retriable
    <3>1. Load(q)' \in Nat /\ Load(q)' <= Load(q) /\ Load(q) \in Nat /\ attempts[q] \in Nat
      BY <1>a, <2>6
    <3>2. Load(q)' <= Limit(q)
      BY <1>0, <3>1 DEF LoadInv, Limit
    <3>3. CASE q = p
      <4>1. attempts'[p] = IF p \in Retriable THEN attempts[p] + 1 ELSE attempts[p]
        BY <1>0, <2>1, <2>2 DEF RequestType
      <4>2. p \notin Retriable => attempts'[p] = 0
        BY <1>0, <2>1, <4>1 DEF LoadInv
      <4>3. ASSUME NEW e \in Dispatchers, job'[e] = p
            PROVE  /\ e = d /\ attempts'[p] <= DispatchRetry /\ pc'[e] = "seek"
                   /\ Load(p)' <= attempts'[p] /\ p \in Retriable
        <5>1. e = d
          BY <2>4, <4>3
        <5>2. p \in Retriable /\ attempts[p] + 1 <= DispatchRetry /\ pc'[d] = "seek"
          BY <1>0, <2>1, <2>3, <4>3, <5>1
        <5> QED
          BY <2>7, <3>1, <3>3, <4>1, <5>1, <5>2
      <4> QED
        BY <2>9, <3>2, <3>3, <4>2, <4>3
    <3>4. CASE q # p
      <4>1. attempts'[q] = attempts[q] /\ session'[q] = session[q]
        BY <1>0, <2>1, <2>2, <2>9, <3>4 DEF RequestType
      <4>2. \A e \in Dispatchers : job'[e] = q => job[e] = q /\ pc'[e] = pc[e]
        BY <1>0, <2>4, <2>8, <3>4
      <4> QED
        BY <1>0, <3>1, <3>2, <4>1, <4>2 DEF LoadInv
    <3> QED
      BY <3>3, <3>4
  <2> QED
    BY <2>10 DEF LoadInv, Limit
<1>9. ASSUME NEW d \in Dispatchers,
             AwaitOk(d) \/ SeekTimeout(d) \/ HeartbeatOk(d) \/ HeartbeatFails(d) \/ Sweep(d)
      PROVE  LoadInv'
  <2>1. UNCHANGED <<inbox, attempts, executed>>
    BY <1>9 DEF AwaitOk, SeekTimeout, HeartbeatOk, HeartbeatFails, Sweep, link, requests
  <2>2. \A q \in Requests : Load(q)' \in Nat /\ Load(q)' <= Load(q)
    BY <1>b, <2>1
  <2>3. \A e \in Dispatchers : job'[e] # None => job'[e] = job[e] /\ pc'[e] = pc[e]
    BY <1>0, <1>9 DEF AwaitOk, SeekTimeout, HeartbeatOk, HeartbeatFails, Sweep, Release, Respond,
       WorkerType, WorkerInv, disp
  <2>4. \A q \in Requests : session'[q] \in {"new", "queued"} => session[q] \in {"new", "queued"}
    BY <1>0, <1>9 DEF AwaitOk, SeekTimeout, HeartbeatOk, HeartbeatFails, Sweep, Respond,
       requests, RequestType
  <2> QED
    BY <1>1, <2>1, <2>2, <2>3, <2>4
<1>10. CASE SpawnStep \/ \E q \in Requests : Arrive(q)
  <2>1. UNCHANGED <<inbox, attempts, executed, disp>>
    BY <1>10 DEF SpawnStep, SpawnAccept, SpawnOk, SpawnFails, Arrive, link, requests
  <2>2. \A q \in Requests : Load(q)' \in Nat /\ Load(q)' <= Load(q)
    BY <1>b, <2>1
  <2>3. \A q \in Requests : session'[q] \in {"new", "queued"} => session[q] \in {"new", "queued"}
    BY <1>0, <1>10 DEF SpawnStep, SpawnAccept, SpawnOk, SpawnFails, Arrive, requests, RequestType
  <2> QED
    BY <1>1, <2>1, <2>2, <2>3 DEF disp
<1> QED
  BY <1>3, <1>4, <1>5, <1>6, <1>7, <1>8, <1>9, <1>10, <1>11, <1>12, NextCases
  DEF SlaveStep, DispatcherStep

(* A worker reads the connection of its own node, which carries nothing    *)
(* but the answer to what it sent.                                         *)
LEMMA AnswerStep ==
  ASSUME IInv, Next
  PROVE  AnswerInv'
<1>0. /\ TypeOK /\ WorkerInv /\ LinkInv /\ AnswerInv /\ RequestType /\ LinkType /\ WorkerType
      /\ Requests \cap {None, Query, Confirm, Failure} = {}
  BY TypeParts, NamesAssumption DEF IInv
<1> DEFINE Grows == \A q \in Requests : executed'[q] \in Nat /\ executed[q] <= executed'[q]
           Fits(q) == \/ response'[q] = response[q]
                      \/ response'[q] = Failure
                      \/ response'[q] = q /\ executed[q] >= 1
           Earned == \A n \in Nodes, q \in Requests :
                       outbox'[n] = <<q>> => outbox[n] = <<q>> \/ executed'[q] >= 1
<1>1. ASSUME Grows, \A q \in Requests : Fits(q), Earned PROVE AnswerInv'
  <2>1. \A q \in Requests : executed[q] \in Nat
    BY <1>0 DEF RequestType
  <2>2. ASSUME NEW q \in Requests
        PROVE  response'[q] \in {None, Failure, q} /\ (response'[q] = q => executed'[q] >= 1)
    <3>1. q # Failure
      BY <1>0
    <3>2. response[q] \in {None, Failure, q} /\ (response[q] = q => executed[q] >= 1)
      BY <1>0 DEF AnswerInv, AnswerMatches
    <3>3. executed[q] >= 1 => executed'[q] >= 1
      BY <1>1, <2>1
    <3> QED
      BY <1>1, <3>1, <3>2, <3>3
  <2>3. ASSUME NEW n \in Nodes, NEW q \in Requests, outbox'[n] = <<q>>
        PROVE  executed'[q] >= 1
    <3>1. outbox[n] = <<q>> => executed[q] >= 1
      BY <1>0 DEF AnswerInv
    <3> QED
      BY <1>1, <2>1, <2>3, <3>1
  <2> QED
    BY <2>2, <2>3 DEF AnswerInv, AnswerMatches
<1>2. ASSUME UNCHANGED <<response, executed, outbox>> PROVE AnswerInv'
  BY <1>0, <1>2 DEF AnswerInv, AnswerMatches
<1>3. ASSUME NEW n \in Nodes, SlaveExecutes(n) PROVE AnswerInv'
  <2>1. PICK p \in Requests :
          p = Head(inbox[n]) /\ inbox[n] = <<p>> /\ outbox[n] = <<>>
    BY <1>0, <1>3, OneMessage DEF SlaveExecutes, LinkInv, LinkType
  <2>2. response' = response /\ executed' = [executed EXCEPT ![p] = @ + 1] /\ Reply(n, p)
    BY <1>3, <2>1 DEF SlaveExecutes
  <2>3. \A q \in Requests : executed'[q] \in Nat /\ executed[q] <= executed'[q]
    BY <1>0, <2>2 DEF RequestType
  <2>4. executed'[p] >= 1
    BY <1>0, <2>2 DEF RequestType
  <2>5. ASSUME NEW k \in Nodes, NEW q \in Requests, outbox'[k] = <<q>>
        PROVE  outbox[k] = <<q>> \/ executed'[q] >= 1
    <3>1. k # n => outbox'[k] = outbox[k]
      BY <1>0, <2>2 DEF Reply, LinkType
    <3>2. outbox'[n] = <<>> \/ outbox'[n] = <<p>>
      BY <1>0, <2>1, <2>2, FirstMessage DEF Reply, LinkType
    <3>3. <<q>> # <<>> /\ (<<q>> = <<p>> => q = p)
      OBVIOUS
    <3> QED
      BY <2>4, <2>5, <3>1, <3>2, <3>3
  <2>6. Grows /\ Earned /\ \A q \in Requests : Fits(q)
    BY <2>2, <2>3, <2>5
  <2> QED
    BY <1>1, <2>6
<1>4. ASSUME NEW n \in Nodes, SlaveConfirms(n) PROVE AnswerInv'
  <2>1. outbox[n] = <<>>
    BY <1>0, <1>4 DEF SlaveConfirms, LinkInv
  <2>2. UNCHANGED <<response, executed>> /\ Reply(n, Confirm)
    BY <1>4 DEF SlaveConfirms, requests
  <2>3. ASSUME NEW k \in Nodes, NEW q \in Requests, outbox'[k] = <<q>>
        PROVE  outbox[k] = <<q>>
    <3>1. k # n => outbox'[k] = outbox[k]
      BY <1>0, <2>2 DEF Reply, LinkType
    <3>2. outbox'[n] = <<>> \/ outbox'[n] = <<Confirm>>
      BY <1>0, <2>1, <2>2, FirstMessage DEF Reply, LinkType
    <3>3. <<q>> # <<>> /\ <<q>> # <<Confirm>>
      BY <1>0
    <3> QED
      BY <2>3, <3>1, <3>2, <3>3
  <2>4. \A q \in Requests : executed'[q] \in Nat /\ executed[q] <= executed'[q]
    BY <1>0, <2>2 DEF RequestType
  <2>5. Grows /\ Earned /\ \A q \in Requests : Fits(q)
    BY <2>2, <2>3, <2>4
  <2> QED
    BY <1>1, <2>5
<1>5. ASSUME NEW d \in Dispatchers, HeartbeatOk(d) \/ AwaitOk(d) PROVE AnswerInv'
  <2>1. node[d] \in Nodes /\ outbox[node[d]] # <<>>
    BY <1>0, <1>5 DEF HeartbeatOk, AwaitOk, WorkerInv, WorkerType
  <2>2. Tail(outbox[node[d]]) = <<>> /\ outbox[node[d]] = <<Head(outbox[node[d]])>>
    BY <1>0, <2>1, OneMessage DEF LinkInv, LinkType
  <2>3. outbox' = [outbox EXCEPT ![node[d]] = <<>>] /\ executed' = executed
    BY <1>5, <2>2 DEF HeartbeatOk, AwaitOk, requests
  <2>4. ASSUME NEW k \in Nodes, NEW q \in Requests, outbox'[k] = <<q>>
        PROVE  outbox[k] = <<q>>
    <3>1. <<q>> # <<>>
      OBVIOUS
    <3> QED
      BY <1>0, <2>3, <2>4, <3>1 DEF LinkType
  <2>5. \A q \in Requests : executed'[q] \in Nat /\ executed[q] <= executed'[q]
    BY <1>0, <2>3 DEF RequestType
  <2>6. CASE HeartbeatOk(d)
    <3>1. response' = response
      BY <2>6 DEF HeartbeatOk, requests
    <3>2. Grows /\ Earned /\ \A q \in Requests : Fits(q)
      BY <2>4, <2>5, <3>1
    <3> QED
      BY <1>1, <3>2
  <2>7. CASE AwaitOk(d)
    <3>1. job[d] \in Requests /\ outbox[node[d]] = <<job[d]>>
      BY <1>0, <2>1, <2>7 DEF AwaitOk, WorkerInv, WorkerType, LinkInv
    <3>2. executed[job[d]] >= 1
      BY <1>0, <2>1, <3>1 DEF AnswerInv
    <3>3. Head(outbox[node[d]]) = job[d]
      BY <3>1
    <3>4. response' = [response EXCEPT ![job[d]] = job[d]]
      BY <2>7, <3>3 DEF AwaitOk, Respond
    <3>5. ASSUME NEW q \in Requests PROVE Fits(q)
      <4>1. CASE q = job[d]
        BY <1>0, <3>1, <3>2, <3>4, <4>1 DEF RequestType
      <4>2. CASE q # job[d]
        BY <1>0, <3>1, <3>4, <4>2 DEF RequestType
      <4> QED
        BY <4>1, <4>2
    <3>6. Grows /\ Earned
      BY <2>4, <2>5
    <3> QED
      BY <1>1, <3>5, <3>6
  <2> QED
    BY <1>5, <2>6, <2>7
<1>6. ASSUME NEW d \in Dispatchers, SendFails(d) \/ AwaitFails(d) \/ SeekTimeout(d)
      PROVE  AnswerInv'
  <2>1. UNCHANGED <<executed, outbox>>
    BY <1>6 DEF SendFails, AwaitFails, GiveUp, SeekTimeout, link
  <2>2. response' = response \/ response' = [response EXCEPT ![job[d]] = Failure]
    BY <1>6 DEF SendFails, AwaitFails, GiveUp, SeekTimeout, Respond
  <2>3. \A q \in Requests : response'[q] = response[q] \/ response'[q] = Failure
    BY <1>0, <2>2 DEF RequestType
  <2>4. \A q \in Requests : executed'[q] \in Nat /\ executed[q] <= executed'[q]
    BY <1>0, <2>1 DEF RequestType
  <2>5. Grows /\ Earned /\ \A q \in Requests : Fits(q)
    BY <2>1, <2>3, <2>4
  <2> QED
    BY <1>1, <2>5
<1>7. ASSUME NEW d \in Dispatchers, Dispatch(d) \/ Heartbeat(d) \/ Seek(d) \/ Sweep(d)
                                   \/ HeartbeatFails(d) \/ RequestSent(d) \/ QuerySent(d)
      PROVE  AnswerInv'
  BY <1>2, <1>7 DEF Dispatch, Heartbeat, Seek, Sweep, HeartbeatFails, RequestSent, QuerySent, Send,
     link, requests
<1>8. CASE SpawnStep \/ (\E n \in Nodes : SlaveLeaves(n)) \/ \E q \in Requests : Arrive(q)
  BY <1>2, <1>8 DEF SpawnStep, SpawnAccept, SpawnOk, SpawnFails, SlaveLeaves, Arrive, link, requests
<1> QED
  BY <1>3, <1>4, <1>5, <1>6, <1>7, <1>8, NextCases DEF SlaveStep, DispatcherStep

(* A handshake that failed is not made good by anything that follows.      *)
LEMMA HandshakesStep ==
  ASSUME IInv, Next, HandshakesOk'
  PROVE  HandshakesOk
<1>0. PoolType /\ LinkType /\ WorkerType /\ ListInv /\ WorkerInv /\ None \notin Nodes /\ TypeOK
  BY TypeParts, NamesAssumption DEF IInv
<1>1. ASSUME NEW n \in Nodes, n # spawning, slave[n] = "gone" PROVE nstate[n] # None
  <2>1. slave'[n] = "gone" /\ n # spawning'
    <3>1. CASE SpawnStep
      BY <1>0, <1>1, <3>1 DEF SpawnStep, SpawnAccept, SpawnOk, SpawnFails, PoolType, LinkType, link
    <3>2. CASE \E k \in Nodes : SlaveStep(k)
      BY <1>0, <1>1, <3>2 DEF SlaveStep, SlaveConfirms, SlaveExecutes, SlaveLeaves, LinkType, pool
    <3>3. CASE \E d \in Dispatchers : DispatcherStep(d) \/ SeekTimeout(d)
      BY <1>1, <3>3 DEF DispatcherStep, SeekTimeout, Sweep, Dispatch, Heartbeat, HeartbeatOk,
         HeartbeatFails, AwaitOk, SendFails, AwaitFails, GiveUp, Seek, RequestSent, QuerySent, Send,
         pool, link
    <3>4. CASE \E q \in Requests : Arrive(q)
      BY <1>1, <3>4 DEF Arrive, pool, link
    <3> QED
      BY <3>1, <3>2, <3>3, <3>4, NextCases
  <2>2. nstate'[n] # None
    BY <2>1 DEF HandshakesOk
  <2>3. ASSUME nstate[n] = None PROVE nstate'[n] = None
    <3>1. CASE SpawnStep
      BY <1>0, <1>1, <2>3, <3>1 DEF SpawnStep, SpawnAccept, SpawnOk, SpawnFails, PoolType
    <3>2. CASE \E k \in Nodes : SlaveStep(k)
      BY <2>3, <3>2 DEF SlaveStep, SlaveConfirms, SlaveExecutes, SlaveLeaves, pool
    <3>3. ASSUME NEW d \in Dispatchers, Dispatch(d) \/ Heartbeat(d) \/ Seek(d)
          PROVE  nstate'[n] = None
      <4>1. nstate' = nstate
            \/ \E k \in Nodes : nstate[k] = "ready" /\ nstate' = [nstate EXCEPT ![k] = "busy"]
        BY <1>0, <3>3, DispatchPicks, HeartbeatPicks, SeekPicks DEF Engage
      <4> QED
        BY <1>0, <2>3, <4>1 DEF PoolType, None
    <3>4. ASSUME NEW d \in Dispatchers,
                 \/ HeartbeatOk(d) \/ HeartbeatFails(d) \/ AwaitOk(d)
                 \/ SendFails(d) \/ AwaitFails(d)
          PROVE  nstate'[n] = None
      <4>1. node[d] \in Nodes /\ nstate[node[d]] = "busy"
        BY <1>0, <3>4 DEF HeartbeatOk, HeartbeatFails, AwaitOk, SendFails, AwaitFails, IInv,
           WorkerInv, WorkerType, NodesExact
      <4>2. \E x : nstate' = [nstate EXCEPT ![node[d]] = x]
        BY <3>4 DEF HeartbeatOk, HeartbeatFails, AwaitOk, SendFails, AwaitFails, GiveUp
      <4> QED
        BY <1>0, <2>3, <4>1, <4>2 DEF PoolType, None
    <3>5. ASSUME NEW d \in Dispatchers,
                 Sweep(d) \/ SeekTimeout(d) \/ RequestSent(d) \/ QuerySent(d)
          PROVE  nstate'[n] = None
      BY <2>3, <3>5 DEF Sweep, SeekTimeout, RequestSent, QuerySent, Send, pool
    <3>6. CASE \E q \in Requests : Arrive(q)
      BY <2>3, <3>6 DEF Arrive, pool
    <3> QED
      BY <3>1, <3>2, <3>3, <3>4, <3>5, <3>6, NextCases DEF DispatcherStep
  <2> QED
    BY <2>2, <2>3
<1> QED
  BY <1>1 DEF HandshakesOk

(* The parts of RankInv.                                                   *)
Numbered(sl, dep, rk, sp, top) ==
  /\ \A i \in DOMAIN sl : rk[sl[i]] < top
  /\ \A k \in DOMAIN dep : dep[k] < top
  /\ \A i, j \in DOMAIN sl : rk[sl[i]] = rk[sl[j]] => i = j
  /\ \A k, l \in DOMAIN dep : dep[k] = dep[l] => k = l
  /\ \A i \in DOMAIN sl, k \in DOMAIN dep : rk[sl[i]] # dep[k]
  /\ sp # None =>
       /\ rk[sp] < top
       /\ \A i \in DOMAIN sl : rk[sl[i]] # rk[sp]
       /\ \A k \in DOMAIN dep : dep[k] # rk[sp]

LEMMA RankParts ==
  /\ RankInv <=> (HandshakesOk => Numbered(slist, deprecated, rank, spawning, Given))
  /\ RankInv' <=> (HandshakesOk' => Numbered(slist', deprecated', rank', spawning', Given'))
BY DEF RankInv, Numbered

(* A rank is given out with the node that gets it, or stays in one of the  *)
(* two lists.                                                              *)
LEMMA RankStep ==
  ASSUME IInv, Next
  PROVE  RankInv'
<1> SUFFICES ASSUME HandshakesOk'
             PROVE  Numbered(slist', deprecated', rank', spawning', Given')
  BY RankParts
<1>0. /\ TypeOK /\ PoolType /\ ListInv /\ None \notin Nodes
      /\ Numbered(slist, deprecated, rank, spawning, Given)
  BY TypeParts, NamesAssumption, HandshakesStep, RankParts DEF IInv
<1>a. /\ Len(slist) \in Nat /\ DOMAIN slist = 1 .. Len(slist)
      /\ Len(deprecated) \in Nat /\ DOMAIN deprecated = 1 .. Len(deprecated)
      /\ Given \in Nat /\ \A n \in Nodes : rank[n] \in Nat
      /\ \A i \in DOMAIN slist : slist[i] \in Nodes
      /\ \A k \in DOMAIN deprecated : deprecated[k] \in Nat
  <2>1. Ranks \subseteq Nat
    BY DEF Ranks
  <2>2. Given \in Nat
    BY <1>0 DEF PoolType, Given
  <2>3. \A n \in Nodes : rank[n] \in Ranks
    BY <1>0 DEF PoolType
  <2>4. \A i \in DOMAIN slist : slist[i] \in Nodes
    BY <1>0 DEF PoolType
  <2>5. \A k \in DOMAIN deprecated : deprecated[k] \in Ranks
    BY <1>0 DEF PoolType
  <2>6. /\ Len(slist) \in Nat /\ DOMAIN slist = 1 .. Len(slist)
        /\ Len(deprecated) \in Nat /\ DOMAIN deprecated = 1 .. Len(deprecated)
    BY <1>0 DEF PoolType
  <2> QED
    BY <2>1, <2>2, <2>3, <2>4, <2>5, <2>6
<1>1. CASE UNCHANGED <<slist, deprecated, rank, spawning>>
  BY <1>0, <1>1 DEF Given
<1>2. ASSUME NEW n \in Nodes, SpawnAccept(n)
      PROVE  Numbered(slist', deprecated', rank', spawning', Given')
  <2>1. /\ spawning = None /\ spawning' = n /\ slist' = slist
        /\ \A i \in DOMAIN slist : slist[i] # n
    BY <1>0, <1>2 DEF SpawnAccept, ListInv
  <2>2. CASE deprecated # <<>>
    <3>1. rank' = [rank EXCEPT ![n] = Head(deprecated)] /\ deprecated' = Tail(deprecated)
      BY <1>2, <2>2 DEF SpawnAccept
    <3>2. /\ Len(deprecated) >= 1 /\ Head(deprecated) = deprecated[1]
          /\ Len(deprecated') = Len(deprecated) - 1 /\ DOMAIN deprecated' = 1 .. Len(deprecated) - 1
          /\ \A k \in DOMAIN deprecated' : deprecated'[k] = deprecated[k + 1]
      BY <1>0, <2>2, <3>1 DEF PoolType
    <3>3. Given' = Given
      BY <1>0, <1>a, <2>1, <3>2 DEF Given
    <3>4. /\ rank'[n] = deprecated[1]
          /\ \A i \in DOMAIN slist : rank'[slist[i]] = rank[slist[i]]
      BY <1>0, <1>a, <2>1, <3>1, <3>2 DEF PoolType
    <3>5. \A k \in DOMAIN deprecated' : k + 1 \in DOMAIN deprecated /\ k + 1 # 1 /\ k \in Nat
      BY <1>a, <3>2
    <3>6. 1 \in DOMAIN deprecated
      BY <1>a, <3>2
    <3> QED
      BY <1>0, <2>1, <3>2, <3>3, <3>4, <3>5, <3>6 DEF Numbered
  <2>3. CASE deprecated = <<>>
    <3>1. rank' = [rank EXCEPT ![n] = Len(slist)] /\ deprecated' = deprecated
      BY <1>2, <2>3 DEF SpawnAccept
    <3>2. Len(deprecated) = 0 /\ DOMAIN deprecated = {}
      BY <2>3
    <3>3. Given = Len(slist) /\ Given' = Given + 1
      BY <1>0, <1>a, <2>1, <3>1, <3>2 DEF Given
    <3>4. /\ rank'[n] = Given
          /\ \A i \in DOMAIN slist : rank'[slist[i]] = rank[slist[i]]
      BY <1>0, <1>a, <2>1, <3>1, <3>3 DEF PoolType
    <3>5. \A i \in DOMAIN slist : rank[slist[i]] \in Nat /\ rank[slist[i]] < Given
      BY <1>0, <1>a DEF Numbered
    <3> QED
      BY <1>0, <1>a, <2>1, <3>1, <3>2, <3>3, <3>4, <3>5 DEF Numbered
  <2> QED
    BY <2>2, <2>3
<1>3. CASE SpawnOk
  <2>1. /\ spawning \in Nodes /\ spawning # None /\ spawning' = None
        /\ deprecated' = deprecated /\ rank' = rank
    BY <1>0, <1>3 DEF SpawnOk, PoolType
  <2>2. /\ Len(slist') = Len(slist) + 1 /\ DOMAIN slist' = 1 .. Len(slist) + 1
        /\ slist'[Len(slist) + 1] = spawning
        /\ \A i \in DOMAIN slist : slist'[i] = slist[i]
    BY <1>0, <1>3, <2>1 DEF SpawnOk, PoolType
  <2>3. Given' = Given
    BY <1>0, <1>a, <2>1, <2>2 DEF Given
  <2>4. \A i \in DOMAIN slist' : i = Len(slist) + 1 \/ i \in DOMAIN slist
    BY <1>a, <2>2
  <2> QED
    BY <1>0, <2>1, <2>2, <2>3, <2>4 DEF Numbered
<1>4. ASSUME SpawnFails PROVE FALSE
  <2>1. spawning \in Nodes /\ nstate'[spawning] = None /\ spawning' = None
    BY <1>0, <1>4 DEF SpawnFails, PoolType, ListInv
  <2>2. slave'[spawning] = "gone"
    BY <1>4, <2>1, TypeParts, <1>0 DEF SpawnFails, LinkType
  <2> QED
    BY <1>0, <2>1, <2>2 DEF HandshakesOk
<1>5. ASSUME Scanned, UNCHANGED <<rank, spawning>>
      PROVE  Numbered(slist', deprecated', rank', spawning', Given')
  <2>1. PICK g, h : Moved(g, h)
    BY <1>5 DEF Scanned
  <2>2. Given' = Given
    BY <1>0, <1>a, <1>5, <2>1 DEF Given, Moved
  <2>3. ASSUME NEW i \in DOMAIN slist'
        PROVE  g[i] \in DOMAIN slist /\ slist'[i] = slist[g[i]] /\ i \in DOMAIN g
    BY <2>1 DEF Moved
  <2>4. ASSUME NEW k \in DOMAIN deprecated'
        PROVE  \/ k \in DOMAIN deprecated /\ deprecated'[k] = deprecated[k]
               \/ /\ k \notin DOMAIN deprecated /\ k - Len(deprecated) \in DOMAIN h
                  /\ h[k - Len(deprecated)] \in DOMAIN slist
                  /\ deprecated'[k] = rank[slist[h[k - Len(deprecated)]]]
    BY <2>1 DEF Moved
  <2>5. \A i \in DOMAIN slist' : rank'[slist'[i]] < Given'
    BY <1>0, <1>5, <2>2, <2>3 DEF Numbered
  <2>6. \A k \in DOMAIN deprecated' : deprecated'[k] < Given'
    BY <1>0, <2>2, <2>4 DEF Numbered
  <2>7. \A i, j \in DOMAIN slist' : rank'[slist'[i]] = rank'[slist'[j]] => i = j
    BY <1>0, <1>5, <2>1, <2>3 DEF Numbered, Moved
  <2>8. ASSUME NEW k \in DOMAIN deprecated', NEW l \in DOMAIN deprecated',
               deprecated'[k] = deprecated'[l]
        PROVE  k = l
    <3>1. CASE k \in DOMAIN deprecated /\ l \in DOMAIN deprecated
      BY <1>0, <2>4, <2>8, <3>1 DEF Numbered
    <3>2. CASE k \notin DOMAIN deprecated /\ l \notin DOMAIN deprecated
      <4>1. h[k - Len(deprecated)] = h[l - Len(deprecated)]
        BY <1>0, <2>4, <2>8, <3>2 DEF Numbered
      <4>2. k - Len(deprecated) = l - Len(deprecated)
        BY <2>1, <2>4, <3>2, <4>1 DEF Moved
      <4>3. k \in Nat /\ l \in Nat
        BY <2>1 DEF Moved
      <4> QED
        BY <1>a, <4>2, <4>3
    <3>3. CASE (k \in DOMAIN deprecated) # (l \in DOMAIN deprecated)
      BY <1>0, <2>4, <2>8, <3>3 DEF Numbered
    <3> QED
      BY <3>1, <3>2, <3>3
  <2>9. ASSUME NEW i \in DOMAIN slist', NEW k \in DOMAIN deprecated'
        PROVE  rank'[slist'[i]] # deprecated'[k]
    <3>1. CASE k \in DOMAIN deprecated
      BY <1>0, <1>5, <2>3, <2>4, <3>1 DEF Numbered
    <3>2. CASE k \notin DOMAIN deprecated
      <4>1. g[i] # h[k - Len(deprecated)]
        BY <2>1, <2>3, <2>4, <3>2 DEF Moved
      <4> QED
        BY <1>0, <1>5, <2>3, <2>4, <3>2, <4>1 DEF Numbered
    <3> QED
      BY <3>1, <3>2
  <2>10. spawning' # None =>
           /\ rank'[spawning'] < Given'
           /\ \A i \in DOMAIN slist' : rank'[slist'[i]] # rank'[spawning']
           /\ \A k \in DOMAIN deprecated' : deprecated'[k] # rank'[spawning']
    BY <1>0, <1>5, <2>2, <2>3, <2>4 DEF Numbered
  <2> QED
    BY <2>5, <2>6, <2>7, <2>8, <2>9, <2>10 DEF Numbered
<1>6. ASSUME NEW d \in Dispatchers, Dispatch(d) \/ Heartbeat(d) \/ Seek(d) \/ Sweep(d)
      PROVE  Numbered(slist', deprecated', rank', spawning', Given')
  <2>1. Scanned
    BY <1>0, <1>6, DispatchPicks, HeartbeatPicks, SeekPicks, SweepScans
  <2>2. UNCHANGED <<rank, spawning>>
    BY <1>6 DEF Dispatch, Heartbeat, Seek, Sweep
  <2> QED
    BY <1>5, <2>1, <2>2
<1>7. ASSUME NEW d \in Dispatchers, HeartbeatOk(d) \/ HeartbeatFails(d) \/ AwaitOk(d)
                                   \/ SendFails(d) \/ AwaitFails(d) \/ SeekTimeout(d)
                                   \/ RequestSent(d) \/ QuerySent(d)
      PROVE  Numbered(slist', deprecated', rank', spawning', Given')
  BY <1>1, <1>7 DEF HeartbeatOk, HeartbeatFails, AwaitOk, SendFails, AwaitFails, GiveUp,
     SeekTimeout, RequestSent, QuerySent, Send, pool
<1>8. CASE (\E n \in Nodes : SlaveStep(n)) \/ \E q \in Requests : Arrive(q)
  BY <1>1, <1>8 DEF SlaveStep, SlaveConfirms, SlaveExecutes, SlaveLeaves, Arrive, pool
<1> QED
  BY <1>2, <1>3, <1>4, <1>6, <1>7, <1>8, NextCases DEF SpawnStep, DispatcherStep
-----------------------------------------------------------------------------
(* The theorems.                                                           *)

LEMMA InitInv == Init => IInv
<1> SUFFICES ASSUME Init PROVE IInv
  OBVIOUS
<1> USE DEF Init
<1>0. Len(<<>>) = 0 /\ \A S : <<>> \in Seq(S)
  OBVIOUS
<1>1. TypeOK
  <2>1. 0 \in Ranks /\ DispatchRetry \in Nat
    BY PoolAssumption, FS_CardinalityType DEF Ranks
  <2> QED
    BY <1>0, <2>1 DEF TypeOK
<1>2. WorkerInv /\ NodesExact /\ JobInv
  BY NamesAssumption DEF WorkerInv, NodesExact, JobInv, None
<1>3. ListInv
  BY NamesAssumption DEF ListInv
<1>4. LinkInv
  BY <1>0 DEF LinkInv
<1>5. LoadInv
  <2> SUFFICES ASSUME NEW q \in Requests
               PROVE  Load(q) = 0 /\ attempts[q] = 0
    BY PoolAssumption, NamesAssumption DEF LoadInv, Limit
  <2>1. <<q>> # <<>>
    OBVIOUS
  <2>2. Carriers(q) = {}
    BY <2>1 DEF Carriers
  <2> QED
    BY <2>2, FS_EmptySet DEF Load
<1>6. AnswerInv
  <2>1. \A q : <<q>> # <<>>
    OBVIOUS
  <2>2. \A q \in Requests : q # None
    BY NamesAssumption
  <2> QED
    BY <2>1, <2>2 DEF AnswerInv, AnswerMatches
<1>7. RankInv
  BY DEF RankInv
<1> QED
  BY <1>1, <1>2, <1>3, <1>4, <1>5, <1>6, <1>7 DEF IInv

(* The inductive invariant holds in every behaviour of the slave pool.     *)
THEOREM PoolInvariant == Spec => []IInv
<1>1. IInv /\ [Next]_vars => IInv'
  <2>1. CASE Next
    BY <2>1, TypeStep, WorkerStep, NodesStep, ListStep, LinkStep, JobStep, LoadStep, AnswerStep,
       RankStep DEF IInv
  <2>2. CASE UNCHANGED vars
    <3> USE <2>2 DEF vars, pool, link, requests, disp, IInv
    <3>1. IInv => TypeOK' /\ WorkerInv' /\ NodesExact' /\ ListInv'
      BY DEF TypeOK, WorkerInv, NodesExact, ListInv
    <3>2. IInv => LinkInv' /\ JobInv' /\ AnswerInv'
      BY DEF LinkInv, JobInv, AnswerInv, AnswerMatches
    <3>3. IInv => LoadInv'
      BY DEF LoadInv, Load, Carriers, Limit
    <3>4. IInv => RankInv'
      BY DEF RankInv, Given, HandshakesOk
    <3> QED
      BY <3>1, <3>2, <3>3, <3>4
  <2> QED
    BY <2>1, <2>2
<1> QED
  BY <1>1, InitInv, PTL DEF Spec

(* Whatever slaves time out, die or come back, a request that is not       *)
(* idempotent is executed at most once, and an idempotent one at most once *)
(* for each dispatch that master_dispatch_retry allows (netutils.ecs,      *)
(* master_dispatch_worker and slave_worker).                               *)
THEOREM ExecutionsLimited == Spec => []ExecutionBounded
<1>1. IInv => ExecutionBounded
  <2> SUFFICES ASSUME IInv, NEW q \in Requests
               PROVE  executed[q] <= IF q \in Retriable THEN 1 + DispatchRetry ELSE 1
    BY DEF ExecutionBounded
  <2>1. executed[q] \in Nat /\ Load(q) \in Nat /\ executed[q] <= Load(q)
    BY LoadNat, TypeParts DEF IInv
  <2>2. Load(q) <= Limit(q)
    BY DEF IInv, LoadInv
  <2> QED
    BY <2>1, <2>2, PoolAssumption DEF Limit
<1> QED
  BY <1>1, PoolInvariant, PTL

(* A client's response is its own request's, from a handler that ran, or   *)
(* an error: no late answer and no heartbeat's is taken for it.            *)
THEOREM AnswersOwn == Spec => []AnswerMatches
<1>1. IInv => AnswerMatches
  BY DEF IInv, AnswerInv
<1> QED
  BY <1>1, PoolInvariant, PTL

(* A slave node is busy exactly while one dispatch worker works with it.   *)
THEOREM NodesOwned == Spec => []NodesExact
<1>1. IInv => NodesExact
  BY DEF IInv
<1> QED
  BY <1>1, PoolInvariant, PTL

(* Ranks are unique among the listed slaves and the recycled ranks as long *)
(* as no handshake failed (master_spawn_worker, master_pick_slave).        *)
THEOREM RanksUnique == Spec => []RanksDistinct
<1>1. IInv => RanksDistinct
  BY DEF IInv, RankInv, RanksDistinct
<1> QED
  BY <1>1, PoolInvariant, PTL
=============================================================================
