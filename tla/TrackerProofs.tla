---------------------------- MODULE TrackerProofs ----------------------------
(***************************************************************************)
(* Proofs about the announce path of Tracker, for every value of the       *)
(* constants that satisfies TrackerAssumptions.                            *)
(***************************************************************************)
EXTENDS Tracker, FiniteSetTheorems, TLAPS

(* The count ScrapeSwarm reports for a set of peers is a natural number.   *)
LEMMA PeerCountType ==
    ASSUME NEW S \in SUBSET Endpoints
    PROVE  Cardinality(S) \in Nat
BY TrackerAssumptions, FS_Subset, FS_CardinalityType

(* AnnouncePeers returns peers of the store.                               *)
LEMMA AnnouncePeersType ==
    ASSUME NEW h, NEW seeding, NEW n, NEW e,
           seeders[h] \in SUBSET Endpoints, leechers[h] \in SUBSET Endpoints
    PROVE  AnnouncePeers(h, seeding, n, e) \subseteq SUBSET Endpoints
<1> DEFINE L == leechers[h] \ {e}
           S == seeders[h] \ {e}
           Ls == kSubset(Min({n, Cardinality(L)}), L)
<1>1. Ls \subseteq SUBSET Endpoints
  BY DEF kSubset
<1>2. ASSUME NEW l \in Ls, NEW k
      PROVE  {l \cup s : s \in kSubset(k, S)} \subseteq SUBSET Endpoints
  BY <1>1, <1>2 DEF kSubset
<1>3. UNION {{l \cup s : s \in kSubset(Min({n - Cardinality(l), Cardinality(S)}), S)}
            : l \in Ls} \subseteq SUBSET Endpoints
  <2> SUFFICES ASSUME NEW x \in UNION {{l \cup s :
                      s \in kSubset(Min({n - Cardinality(l), Cardinality(S)}), S)}
                      : l \in Ls}
               PROVE  x \in SUBSET Endpoints
    OBVIOUS
  <2>1. PICK l \in Ls : x \in {l \cup s : s \in kSubset(Min({n - Cardinality(l),
                                                       Cardinality(S)}), S)}
    OBVIOUS
  <2> QED
    BY <2>1, <1>2
<1>4. QED
  BY <1>1, <1>3 DEF AnnouncePeers

(* What appendPeers keeps is drawn from the peers it was given.            *)
LEMMA UniquePrefixesType ==
    ASSUME NEW m \in SUBSET Endpoints, NEW sp \in SUBSET Endpoints, NEW max
    PROVE  UniquePrefixes(m, sp, max) \subseteq SUBSET Endpoints
BY DEF UniquePrefixes, kSubset

-----------------------------------------------------------------------------
(* Every state the announce path reaches is well typed.                    *)
THEOREM TypeCorrect == Spec => []TypeOK
<1>1. Init => TypeOK
  <2>1. AnnounceRequest # {}
    <3>1. PICK e \in Endpoints : TRUE
      BY TrackerAssumptions
    <3>2. PICK h \in AnnouncedHashes : TRUE
      BY TrackerAssumptions
    <3>3. PICK f \in SkipFlags : TRUE
      BY TrackerAssumptions
    <3>4. [peer |-> e, infoHash |-> h, event |-> "none", left |-> 0,
           numWant |-> 0, skipSwarm |-> f, skipResponse |-> f] \in AnnounceRequest
      BY <3>1, <3>2, <3>3, TrackerAssumptions DEF AnnounceRequest, Events
    <3>5. QED
      BY <3>4
  <2>2. (CHOOSE r \in AnnounceRequest : TRUE) \in AnnounceRequest
    BY <2>1
  <2>3. QED
    BY <2>2, TrackerAssumptions DEF Init, TypeOK, Stages
<1>2. TypeOK /\ [Next]_vars => TypeOK'
  <2> SUFFICES ASSUME TypeOK, [Next]_vars PROVE TypeOK'
    OBVIOUS
  <2>1. ASSUME NEW w \in Workers, ReceiveAnnounce(w) PROVE TypeOK'
    <3>1. PICK r \in AnnounceRequest : req' = [req EXCEPT ![w] = r]
      BY <2>1 DEF ReceiveAnnounce
    <3>2. req' \in [Workers -> AnnounceRequest]
      BY <3>1 DEF TypeOK
    <3>3. resp' \in [Workers -> [complete : Nat, incomplete : Nat,
                                 peers : SUBSET Endpoints]]
      BY <2>1, TrackerAssumptions DEF ReceiveAnnounce, TypeOK
    <3>4. pc' \in [Workers -> Stages] /\ issued' \in 0..MaxRequests
      BY <2>1, TrackerAssumptions DEF ReceiveAnnounce, TypeOK, Stages
    <3>5. QED
      BY <2>1, <3>2, <3>3, <3>4 DEF ReceiveAnnounce, TypeOK, storeVars
  <2>2. ASSUME NEW w \in Workers, StopDeleteSeeder(w) PROVE TypeOK'
    <3>1. WriteKey(w) \in InfoHashes
      BY TrackerAssumptions DEF TypeOK, WriteKey, TruncateV1, IsV2,
                                AnnounceRequest, InfoHashes
    <3>2. QED
      BY <2>2, <3>1 DEF StopDeleteSeeder, DeleteSeeder, TypeOK, Stages
  <2>3. ASSUME NEW w \in Workers, StopDeleteLeecher(w) PROVE TypeOK'
    <3>1. WriteKey(w) \in InfoHashes
      BY TrackerAssumptions DEF TypeOK, WriteKey, TruncateV1, IsV2,
                                AnnounceRequest, InfoHashes
    <3>2. QED
      BY <2>3, <3>1 DEF StopDeleteLeecher, DeleteLeecher, AfterStore,
                        TypeOK, Stages
  <2>4. ASSUME NEW w \in Workers, Graduate(w) PROVE TypeOK'
    <3>1. WriteKey(w) \in InfoHashes
      BY TrackerAssumptions DEF TypeOK, WriteKey, TruncateV1, IsV2,
                                AnnounceRequest, InfoHashes
    <3>2. QED
      BY <2>4, <3>1 DEF Graduate, GraduateLeecher, PutPeer, AfterStore,
                        TypeOK, Stages, AnnounceRequest
  <2>5. ASSUME NEW w \in Workers, AnnounceSeeder(w) PROVE TypeOK'
    <3>1. WriteKey(w) \in InfoHashes
      BY TrackerAssumptions DEF TypeOK, WriteKey, TruncateV1, IsV2,
                                AnnounceRequest, InfoHashes
    <3>2. QED
      BY <2>5, <3>1 DEF AnnounceSeeder, PutSeeder, PutPeer, AfterStore,
                        TypeOK, Stages, AnnounceRequest
  <2>6. ASSUME NEW w \in Workers, AnnounceLeecher(w) PROVE TypeOK'
    <3>1. WriteKey(w) \in InfoHashes
      BY TrackerAssumptions DEF TypeOK, WriteKey, TruncateV1, IsV2,
                                AnnounceRequest, InfoHashes
    <3>2. QED
      BY <2>6, <3>1 DEF AnnounceLeecher, PutLeecher, PutPeer, AfterStore,
                        TypeOK, Stages, AnnounceRequest
  <2>7. ASSUME NEW w \in Workers, Scrape(w) PROVE TypeOK'
    <3> DEFINE h == req[w].infoHash
    <3>1. h \in InfoHashes
      BY TrackerAssumptions DEF TypeOK, AnnounceRequest, InfoHashes
    <3>2. Incomplete(h) \in Nat /\ Complete(h) \in Nat
      BY <3>1, PeerCountType DEF TypeOK, Incomplete, Complete
    <3>3. QED
      BY <2>7, <3>2 DEF Scrape, TypeOK, Stages, storeVars
  <2>8. ASSUME NEW w \in Workers, ScrapeV1(w) PROVE TypeOK'
    <3> DEFINE h == TruncateV1(req[w].infoHash)
    <3>1. h \in InfoHashes
      BY TrackerAssumptions DEF TypeOK, TruncateV1, IsV2, AnnounceRequest,
                                InfoHashes
    <3>2. Incomplete(h) \in Nat /\ Complete(h) \in Nat
      BY <3>1, PeerCountType DEF TypeOK, Incomplete, Complete
    <3>3. resp[w].incomplete \in Nat /\ resp[w].complete \in Nat
      BY DEF TypeOK
    <3>4. resp' = [resp EXCEPT ![w].incomplete = @ + Incomplete(h),
                               ![w].complete = @ + Complete(h)]
      BY <2>8 DEF ScrapeV1
    <3> DEFINE RespRec == [complete : Nat, incomplete : Nat, peers : SUBSET Endpoints]
    <3>5. resp'[w] = [complete |-> resp[w].complete + Complete(h),
                      incomplete |-> resp[w].incomplete + Incomplete(h),
                      peers |-> resp[w].peers]
      BY <3>4 DEF TypeOK
    <3>6. resp'[w] \in RespRec
      BY <3>2, <3>3, <3>5 DEF TypeOK
    <3>7. resp' = [resp EXCEPT ![w] = resp'[w]]
      BY <3>4 DEF TypeOK
    <3>8. resp' \in [Workers -> RespRec]
      BY <3>6, <3>7 DEF TypeOK
    <3>9. QED
      BY <2>8, <3>8 DEF ScrapeV1, TypeOK, Stages, storeVars
  <2>9. ASSUME NEW w \in Workers, AppendPeers(w) PROVE TypeOK'
    <3> DEFINE r == req[w]
               m == resp[w].peers
               sp0 == AnnouncePeers(r.infoHash, r.left = 0, r.numWant, r.peer)
    <3>1. r \in AnnounceRequest /\ r.infoHash \in InfoHashes
      BY TrackerAssumptions DEF TypeOK, AnnounceRequest, InfoHashes
    <3>2. PICK sp \in sp0 :
            IF m \cup sp = {}
            THEN resp' = [resp EXCEPT ![w].peers = {r.peer},
                            ![w].complete = IF r.left = 0 THEN @ + 1 ELSE @,
                            ![w].incomplete = IF r.left = 0 THEN @ ELSE @ + 1]
            ELSE \E kept \in UniquePrefixes(m, sp, r.numWant) :
                   resp' = [resp EXCEPT ![w].peers = kept]
      BY <2>9 DEF AppendPeers
    <3>3. sp \in SUBSET Endpoints /\ m \in SUBSET Endpoints
      BY <3>1, AnnouncePeersType DEF TypeOK
    <3>4. resp' \in [Workers -> [complete : Nat, incomplete : Nat,
                                 peers : SUBSET Endpoints]]
      <4>1. CASE m \cup sp = {}
        BY <3>1, <3>2, <4>1 DEF TypeOK, AnnounceRequest
      <4>2. CASE m \cup sp # {}
        <5>1. PICK kept \in UniquePrefixes(m, sp, r.numWant) :
                resp' = [resp EXCEPT ![w].peers = kept]
          BY <3>2, <4>2
        <5>2. kept \in SUBSET Endpoints
          BY <3>3, UniquePrefixesType
        <5>3. QED
          BY <5>1, <5>2 DEF TypeOK
      <4>3. QED
        BY <4>1, <4>2
    <3>5. QED
      BY <2>9, <3>4 DEF AppendPeers, TypeOK, Stages, storeVars
  <2>14. ASSUME NEW w \in Workers, SkipSwarmInteraction(w) \/ SkipResponseHook(w)
         PROVE  TypeOK'
    BY <2>14 DEF SkipSwarmInteraction, SkipResponseHook, TypeOK, Stages, storeVars
  <2>10. ASSUME NEW h \in InfoHashes, CollectGarbage(h) PROVE TypeOK'
    BY <2>10 DEF CollectGarbage, TypeOK, workerVars
  <2>11. CASE Tick
    BY <2>11, TrackerAssumptions DEF Tick, TypeOK, storeVars, workerVars
  <2>12. CASE Quiet \/ UNCHANGED vars
    BY <2>12 DEF Quiet, vars, TypeOK
  <2>13. QED
    BY <2>1, <2>2, <2>3, <2>4, <2>5, <2>6, <2>7, <2>8, <2>9, <2>10,
       <2>11, <2>12, <2>14 DEF Next, Worker
<1>3. QED
  BY <1>1, <1>2, PTL DEF Spec
-----------------------------------------------------------------------------
(* A worker's store writes go to an infohash of the store, for its peer.   *)
LEMMA WriteKeyType ==
    ASSUME TypeOK, NEW w \in Workers
    PROVE  WriteKey(w) \in InfoHashes /\ req[w].peer \in Endpoints
BY TrackerAssumptions DEF TypeOK, AnnounceRequest, WriteKey, TruncateV1, IsV2, InfoHashes

-----------------------------------------------------------------------------
(* The answer of a worker that appendPeers has finished: the requester     *)
(* alone, or other peers, no more than NumWant of them.                    *)
AnswerOk(w) ==
    \/ resp[w].peers = {req[w].peer}
    \/ /\ req[w].peer \notin resp[w].peers
       /\ Cardinality(resp[w].peers) <= req[w].numWant

(* Until appendPeers runs, a worker's response holds the pre-hooks' peers; *)
(* after it, an answer AnswerOk describes.                                 *)
WorkerResponseOk(w) ==
    /\ pc[w] \notin {"idle", "done"} => resp[w].peers = MiddlewarePeers
    /\ pc[w] = "done" => AnswerOk(w)

ResponseInv == \A w \in Workers : WorkerResponseOk(w)

(* The minimum of two integers.                                            *)
LEMMA MinPair ==
    \A a, b \in Int : /\ Min({a, b}) <= a /\ Min({a, b}) <= b
                     /\ Min({a, b}) \in {a, b}
BY DEF Min

(* AnnouncePeers never hands the requester its own endpoint, and returns   *)
(* at most n peers.                                                        *)
LEMMA AnnouncePeersBound ==
    ASSUME NEW h, NEW seeding \in BOOLEAN, NEW n \in Nat, NEW e,
           seeders[h] \in SUBSET Endpoints, leechers[h] \in SUBSET Endpoints,
           NEW sp \in AnnouncePeers(h, seeding, n, e)
    PROVE  e \notin sp /\ IsFiniteSet(sp) /\ Cardinality(sp) <= n
<1> DEFINE L == leechers[h] \ {e}
           S == seeders[h] \ {e}
           Ls == kSubset(Min({n, Cardinality(L)}), L)
<1>1. IsFiniteSet(L) /\ IsFiniteSet(S)
      /\ Cardinality(L) \in Nat /\ Cardinality(S) \in Nat
  BY TrackerAssumptions, FS_Subset, FS_CardinalityType
<1>2. ASSUME NEW l \in Ls
      PROVE  l \subseteq L /\ IsFiniteSet(l) /\ Cardinality(l) <= n
             /\ Cardinality(l) \in Nat
  <2>1. l \subseteq L /\ Cardinality(l) = Min({n, Cardinality(L)})
    BY DEF kSubset
  <2>2. Min({n, Cardinality(L)}) <= n
    <3>1. n \in Int /\ Cardinality(L) \in Int
      BY <1>1
    <3> QED
      BY <3>1, MinPair, Zenon
  <2> QED
    BY <1>1, <2>1, <2>2, FS_Subset, FS_CardinalityType
<1>3. CASE ~swarm[h]
  <2>1. sp = {}
    BY <1>3 DEF AnnouncePeers
  <2> QED
    BY <2>1, FS_EmptySet
<1>4. CASE swarm[h] /\ seeding
  <2>1. sp \in Ls
    BY <1>4 DEF AnnouncePeers
  <2> QED
    BY <1>2, <2>1
<1>5. CASE swarm[h] /\ ~seeding
  <2>0. sp \in UNION {{l \cup s : s \in kSubset(Min({n - Cardinality(l),
                                                    Cardinality(S)}), S)} : l \in Ls}
    BY <1>5 DEF AnnouncePeers
  <2>1. PICK l \in Ls :
          \E s \in kSubset(Min({n - Cardinality(l), Cardinality(S)}), S) : sp = l \cup s
    BY <2>0
  <2>2. PICK s \in kSubset(Min({n - Cardinality(l), Cardinality(S)}), S) : sp = l \cup s
    BY <2>1
  <2>3. l \subseteq L /\ IsFiniteSet(l) /\ Cardinality(l) <= n /\ Cardinality(l) \in Nat
    BY <1>2
  <2>4. s \subseteq S /\ Cardinality(s) = Min({n - Cardinality(l), Cardinality(S)})
    BY <2>2 DEF kSubset
  <2>5. Cardinality(s) <= n - Cardinality(l)
    <3>1. n - Cardinality(l) \in Int /\ Cardinality(S) \in Int
      BY <1>1, <2>3
    <3>2. Min({n - Cardinality(l), Cardinality(S)}) <= n - Cardinality(l)
      BY <3>1, MinPair, Zenon
    <3> QED
      BY <2>4, <3>2
  <2>6. IsFiniteSet(s) /\ Cardinality(s) \in Nat
    BY <1>1, <2>4, FS_Subset, FS_CardinalityType
  <2>7. IsFiniteSet(l \cup s) /\ Cardinality(l \cup s) <= Cardinality(l) + Cardinality(s)
    <3>1. IsFiniteSet(l \cup s)
          /\ Cardinality(l \cup s) = Cardinality(l) + Cardinality(s) - Cardinality(l \cap s)
      BY <2>3, <2>6, FS_Union
    <3>2. IsFiniteSet(l \cap s) /\ Cardinality(l \cap s) \in Nat
      BY <2>3, FS_Subset, FS_CardinalityType
    <3> QED
      BY <2>3, <2>6, <3>1, <3>2
  <2>8. e \notin sp
    BY <2>2, <2>3, <2>4 DEF L, S
  <2>9. Cardinality(sp) <= n
    <3>1. Cardinality(sp) = Cardinality(l \cup s)
      BY <2>2
    <3>2. \A x, y, z \in Nat : x <= y + z /\ z <= n - y => x <= n
      OBVIOUS
    <3>3. Cardinality(l \cup s) \in Nat
      BY <2>7, FS_CardinalityType
    <3>4. Cardinality(l \cup s) <= n
      BY <2>3, <2>5, <2>6, <2>7, <3>2, <3>3, Zenon
    <3> QED
      BY <3>1, <3>4
  <2> QED
    BY <2>2, <2>7, <2>8, <2>9
<1> QED
  BY <1>3, <1>4, <1>5

(* The same, for every swarm of a well-typed store.                        *)
LEMMA AnnouncePeersBoundAll ==
    TypeOK => \A h \in InfoHashes, seeding \in BOOLEAN, n \in Nat, e \in Endpoints :
                 \A sp \in AnnouncePeers(h, seeding, n, e) :
                     e \notin sp /\ IsFiniteSet(sp) /\ Cardinality(sp) <= n
<1> SUFFICES ASSUME TypeOK, NEW h \in InfoHashes, NEW seeding \in BOOLEAN,
                    NEW n \in Nat, NEW e \in Endpoints,
                    NEW sp \in AnnouncePeers(h, seeding, n, e)
             PROVE  e \notin sp /\ IsFiniteSet(sp) /\ Cardinality(sp) <= n
  OBVIOUS
<1>1. seeders[h] \in SUBSET Endpoints /\ leechers[h] \in SUBSET Endpoints
  BY DEF TypeOK
<1> QED
  BY <1>1, AnnouncePeersBound

(* With no pre-hook peers and at most max store peers, appendPeers keeps   *)
(* every store peer.                                                       *)
LEMMA UniquePrefixesAll ==
    ASSUME NEW sp, IsFiniteSet(sp), NEW max \in Nat, Cardinality(sp) <= max,
           NEW kept \in UniquePrefixes({}, sp, max)
    PROVE  kept = sp
<1>1. {} \cup sp = sp
  OBVIOUS
<1>2. Cardinality({} \cup sp) <= max + 1
  BY <1>1, FS_CardinalityType
<1> QED
  BY <1>1, <1>2 DEF UniquePrefixes

(* The response of a worker other than the one that steps is left alone.   *)
LEMMA OtherWorkerKept ==
    ASSUME NEW u, WorkerResponseOk(u),
           pc'[u] = pc[u], req'[u] = req[u], resp'[u] = resp[u]
    PROVE  WorkerResponseOk(u)'
BY DEF WorkerResponseOk, AnswerOk

(* appendPeers, with no pre-hook peers, finishes with an answer AnswerOk   *)
(* describes.                                                              *)
LEMMA AppendPeersAnswer ==
    ASSUME TypeOK, MiddlewarePeers = {}, NEW w \in Workers,
           WorkerResponseOk(w), AppendPeers(w)
    PROVE  WorkerResponseOk(w)'
<1>1. req[w] \in AnnounceRequest /\ req[w].infoHash \in InfoHashes /\ req[w].numWant \in Nat
      /\ req[w].peer \in Endpoints
  BY TrackerAssumptions DEF TypeOK, AnnounceRequest, InfoHashes
<1>2. pc[w] = "peers" /\ pc'[w] = "done" /\ req' = req
  BY DEF AppendPeers, TypeOK
<1>3. resp[w].peers = {}
  BY <1>2 DEF WorkerResponseOk
<1>4. PICK sp \in AnnouncePeers(req[w].infoHash, (req[w].left = 0), req[w].numWant, req[w].peer) :
        IF {} \cup sp = {}
        THEN resp' = [resp EXCEPT ![w].peers = {req[w].peer},
                        ![w].complete = IF (req[w].left = 0) THEN @ + 1 ELSE @,
                        ![w].incomplete = IF (req[w].left = 0) THEN @ ELSE @ + 1]
        ELSE \E kept \in UniquePrefixes({}, sp, req[w].numWant) :
               resp' = [resp EXCEPT ![w].peers = kept]
  BY <1>3 DEF AppendPeers
<1>5. req[w].peer \notin sp /\ IsFiniteSet(sp) /\ Cardinality(sp) <= req[w].numWant
  <2>1. /\ (req[w].left = 0) \in BOOLEAN
        /\ seeders[req[w].infoHash] \in SUBSET Endpoints
        /\ leechers[req[w].infoHash] \in SUBSET Endpoints
    BY <1>1 DEF TypeOK
  <2>2. \A sd \in BOOLEAN, n \in Nat, e \in Endpoints :
          \A sp2 \in AnnouncePeers(req[w].infoHash, sd, n, e) :
             e \notin sp2 /\ IsFiniteSet(sp2) /\ Cardinality(sp2) <= n
    BY <1>1, AnnouncePeersBoundAll
  <2>3. \A sp2 \in AnnouncePeers(req[w].infoHash, req[w].left = 0, req[w].numWant, req[w].peer) :
             req[w].peer \notin sp2 /\ IsFiniteSet(sp2) /\ Cardinality(sp2) <= req[w].numWant
    BY <1>1, <2>1, <2>2
  <2> QED
    BY <2>3
<1>6. CASE sp = {}
  <2>1. resp'[w].peers = {req[w].peer}
    BY <1>4, <1>6 DEF TypeOK
  <2> QED
    BY <1>2, <2>1 DEF WorkerResponseOk, AnswerOk
<1>7. CASE sp # {}
  <2>1. PICK kept \in UniquePrefixes({}, sp, req[w].numWant) :
          resp' = [resp EXCEPT ![w].peers = kept]
    BY <1>4, <1>7
  <2>2. kept = sp
    BY <1>1, <1>5, UniquePrefixesAll
  <2>3. resp'[w].peers = sp
    BY <2>1, <2>2 DEF TypeOK
  <2> QED
    BY <1>2, <1>5, <2>3 DEF WorkerResponseOk, AnswerOk
<1> QED
  BY <1>6, <1>7

(* Every step keeps ResponseInv: a worker's own step moves its response    *)
(* along, and no step touches another worker's.                            *)
LEMMA ResponseStep ==
    ASSUME TypeOK, ResponseInv, MiddlewarePeers = {}, [Next]_vars
    PROVE  ResponseInv'
<1> SUFFICES ASSUME NEW u \in Workers PROVE WorkerResponseOk(u)'
  BY DEF ResponseInv
<1>0. WorkerResponseOk(u)
  BY DEF ResponseInv
<1>1. ASSUME NEW w \in Workers, Worker(w), w # u
      PROVE  WorkerResponseOk(u)'
  <2>1. pc'[u] = pc[u] /\ req'[u] = req[u] /\ resp'[u] = resp[u]
    BY <1>1 DEF Worker, ReceiveAnnounce, StopDeleteSeeder, StopDeleteLeecher,
                Graduate, AnnounceSeeder, AnnounceLeecher, Scrape, ScrapeV1,
                AppendPeers, SkipSwarmInteraction, SkipResponseHook, TypeOK
  <2> QED
    BY <1>0, <2>1, OtherWorkerKept
<1>2. ASSUME ReceiveAnnounce(u) PROVE WorkerResponseOk(u)'
  BY <1>2 DEF ReceiveAnnounce, WorkerResponseOk, TypeOK
<1>3. ASSUME \/ StopDeleteSeeder(u) \/ StopDeleteLeecher(u) \/ Graduate(u)
             \/ AnnounceSeeder(u) \/ AnnounceLeecher(u)
      PROVE  WorkerResponseOk(u)'
  <2>1. pc[u] \notin {"idle", "done"} /\ pc'[u] \notin {"idle", "done"}
        /\ resp' = resp
    BY <1>3 DEF StopDeleteSeeder, StopDeleteLeecher, Graduate, AnnounceSeeder,
                AnnounceLeecher, AfterStore, TypeOK
  <2> QED
    BY <1>0, <2>1 DEF WorkerResponseOk
<1>4. ASSUME Scrape(u) \/ ScrapeV1(u) PROVE WorkerResponseOk(u)'
  <2>1. pc[u] \in {"scrape", "scrapeV1"} /\ pc'[u] \in {"scrapeV1", "peers"}
        /\ resp'[u].peers = resp[u].peers
    BY <1>4 DEF Scrape, ScrapeV1, TypeOK
  <2> QED
    BY <1>0, <2>1 DEF WorkerResponseOk
<1>5. ASSUME AppendPeers(u) PROVE WorkerResponseOk(u)'
  BY <1>0, <1>5, AppendPeersAnswer
<1>6. ASSUME NEW h \in InfoHashes, CollectGarbage(h) PROVE WorkerResponseOk(u)'
  BY <1>0, <1>6, OtherWorkerKept DEF CollectGarbage, workerVars
<1>8. ASSUME SkipSwarmInteraction(u) PROVE WorkerResponseOk(u)'
  <2>1. pc[u] = "interact" /\ pc'[u] = "scrape" /\ resp' = resp
    BY <1>8 DEF SkipSwarmInteraction, SkipsSwarm, TypeOK
  <2> QED
    BY <1>0, <2>1 DEF WorkerResponseOk
<1>9. ASSUME SkipResponseHook(u) PROVE WorkerResponseOk(u)'
  <2>1. pc[u] = "scrape" /\ pc'[u] = "done" /\ resp' = resp /\ req' = req
    BY <1>9 DEF SkipResponseHook, TypeOK
  <2>2. resp[u].peers = {}
    BY <1>0, <2>1 DEF WorkerResponseOk
  <2>3. req[u].numWant \in Nat /\ Cardinality({}) = 0
    BY FS_EmptySet DEF TypeOK, AnnounceRequest
  <2> QED
    BY <2>1, <2>2, <2>3 DEF WorkerResponseOk, AnswerOk
<1>7. CASE Tick \/ Quiet \/ UNCHANGED vars
  BY <1>0, <1>7, OtherWorkerKept DEF Tick, Quiet, vars, workerVars
<1> QED
  BY <1>1, <1>2, <1>3, <1>4, <1>5, <1>6, <1>7, <1>8, <1>9 DEF Next, Worker

(* With no pre-hook peers, as no hook under src/ adds any, every reachable *)
(* state satisfies ResponseInv.                                            *)
LEMMA ResponseInvariant ==
    ASSUME MiddlewarePeers = {}
    PROVE  Spec => []ResponseInv
<1>1. Init => ResponseInv
  BY DEF Init, ResponseInv, WorkerResponseOk
<1>2. TypeOK /\ ResponseInv /\ [Next]_vars => ResponseInv'
  BY ResponseStep
<1> QED
  BY <1>1, <1>2, TypeCorrect, PTL DEF Spec

(* appendPeers never hands a requester its own endpoint except as the      *)
(* single peer of an otherwise empty answer, however the announces of      *)
(* other workers and the GC interleave with its AnnouncePeers call.  It    *)
(* holds when the pre-hooks add no peers (a pre-hook that added the        *)
(* requester would break it), which is so of every hook under src/.        *)
THEOREM NoSelfInResponseHolds ==
    ASSUME MiddlewarePeers = {}
    PROVE  Spec => []NoSelfInResponse
<1>1. ResponseInv => NoSelfInResponse
  BY DEF ResponseInv, WorkerResponseOk, AnswerOk, NoSelfInResponse
<1> QED
  BY <1>1, ResponseInvariant, PTL

-----------------------------------------------------------------------------
(* The mirrored write, handled by one worker at a time.                    *)

(* The announce of worker w stores its peer as a seeder.                   *)
SeedsIn(w) == req[w].event = "completed" \/ (req[w].event = "none" /\ req[w].left = 0)

(* A live peer of the V2 swarm h is in the swarm of its truncation in the  *)
(* same role, last seen there no earlier than in h (so a sweep of the V1   *)
(* swarm keeps it while it is live in h).                                  *)
Mirrored(h, e) ==
    /\ e \in seeders[h] /\ ~Stale(h, e) => e \in seeders[Trunc[h]]
    /\ e \in leechers[h] /\ ~Stale(h, e) => e \in leechers[Trunc[h]]
    /\ e \in seeders[h] \cup leechers[h] /\ ~Stale(h, e)
           => lastSeen[h][e] <= lastSeen[Trunc[h]][e]

(* Worker w has written its peer under the V2 hash and not yet under the   *)
(* truncation.                                                             *)
PendingMirror(w, h, e) ==
    /\ pc[w] = "mirror" /\ req[w].event # "stopped"
    /\ h = req[w].infoHash /\ e = req[w].peer

LastSeenBound == \A h \in InfoHashes, e \in Endpoints : lastSeen[h][e] <= clock

MirrorsHold ==
    \A h \in V2Hashes, e \in Endpoints :
        Mirrored(h, e) \/ \E w \in Workers : PendingMirror(w, h, e)

(* Where worker w is between its writes, what its peer's role in the V2    *)
(* swarm already is.                                                       *)
StageFacts(w) ==
    LET h == req[w].infoHash
        p == req[w].peer
    IN  /\ pc[w] = "mirror" /\ req[w].event # "stopped"
               => p \notin IF SeedsIn(w) THEN leechers[h] ELSE seeders[h]
        /\ pc[w] \in {"mirror", "mirrorDelLeecher"} /\ req[w].event = "stopped"
               => p \notin seeders[h] \cup leechers[h]
        /\ pc[w] = "interactDelLeecher" => p \notin seeders[h]
        /\ pc[w] \in {"interactDelLeecher", "mirrorDelLeecher"} => req[w].event = "stopped"

MirrorInv == LastSeenBound /\ MirrorsHold /\ \A w \in Workers : StageFacts(w)

(* The hypotheses under which the mirror is kept: one worker, announcing   *)
(* V2 hashes only, whose truncations are distinct.                         *)
SequentialV2 ==
    /\ AnnouncedHashes \subseteq V2Hashes
    /\ \A a, b \in Workers : a = b
    /\ \A a, b \in V2Hashes : Trunc[a] = Trunc[b] => a = b

(* The store stamps a write with the current time, which never goes back.  *)
LEMMA LastSeenStep ==
    ASSUME TypeOK, LastSeenBound, [Next]_vars
    PROVE  LastSeenBound'
<1>1. ASSUME NEW w \in Workers, Worker(w) PROVE LastSeenBound'
  <2>1. WriteKey(w) \in InfoHashes /\ req[w].peer \in Endpoints
    BY WriteKeyType
  <2>2. CASE lastSeen' = lastSeen /\ clock' = clock
    BY <2>2 DEF LastSeenBound
  <2>3. CASE \E sd \in BOOLEAN : PutPeer(WriteKey(w), req[w].peer, sd) /\ clock' = clock
    BY <2>1, <2>3 DEF PutPeer, LastSeenBound, TypeOK
  <2> QED
    BY <1>1, <2>2, <2>3 DEF Worker, ReceiveAnnounce, StopDeleteSeeder,
       StopDeleteLeecher, Graduate, AnnounceSeeder, AnnounceLeecher, Scrape,
       ScrapeV1, AppendPeers, SkipSwarmInteraction, SkipResponseHook,
       PutSeeder, PutLeecher, GraduateLeecher, DeleteSeeder, DeleteLeecher,
       storeVars
<1>2. ASSUME NEW h \in InfoHashes, CollectGarbage(h) PROVE LastSeenBound'
  BY <1>2 DEF CollectGarbage, LastSeenBound
<1>3. CASE Tick
  BY <1>3 DEF Tick, storeVars, LastSeenBound, TypeOK
<1>4. CASE Quiet \/ UNCHANGED vars
  BY <1>4 DEF Quiet, vars, LastSeenBound
<1> QED
  BY <1>1, <1>2, <1>3, <1>4 DEF Next

(* Where a worker's store calls go when it announces a V2 hash.            *)
LEMMA KeyFacts ==
    ASSUME SequentialV2, TypeOK, NEW w \in Workers
    PROVE  /\ req[w].infoHash \in V2Hashes /\ req[w].peer \in Endpoints
           /\ Trunc[req[w].infoHash] \in V1Hashes
           /\ Trunc[req[w].infoHash] # req[w].infoHash
           /\ pc[w] \in {"interact", "interactDelLeecher"}
                 => WriteKey(w) = req[w].infoHash /\ AfterStore(w) = "mirror"
           /\ pc[w] \in {"mirror", "mirrorDelLeecher"}
                 => WriteKey(w) = Trunc[req[w].infoHash] /\ AfterStore(w) = "scrape"
<1>1. req[w].infoHash \in V2Hashes /\ req[w].peer \in Endpoints
  BY DEF SequentialV2, TypeOK, AnnounceRequest
<1>2. Trunc[req[w].infoHash] \in V1Hashes /\ Trunc[req[w].infoHash] # req[w].infoHash
  BY <1>1, TrackerAssumptions
<1> QED
  BY <1>1, <1>2 DEF WriteKey, AfterStore, TruncateV1, IsV2

(* The stage facts survive every step: the worker's own writes establish   *)
(* them, a sweep only removes peers.                                       *)
LEMMA StageStep ==
    ASSUME SequentialV2, TypeOK, MirrorInv, [Next]_vars
    PROVE  \A u \in Workers : StageFacts(u)'
<1> SUFFICES ASSUME NEW u \in Workers PROVE StageFacts(u)'
  OBVIOUS
<1>0. StageFacts(u)
  BY DEF MirrorInv
<1>1. ASSUME NEW w \in Workers, Worker(w) PROVE StageFacts(u)'
  <2> u = w
    BY DEF SequentialV2
  <2>1. /\ req[w].infoHash \in V2Hashes /\ Trunc[req[w].infoHash] # req[w].infoHash
        /\ pc[w] \in {"interact", "interactDelLeecher"}
              => WriteKey(w) = req[w].infoHash /\ AfterStore(w) = "mirror"
        /\ pc[w] \in {"mirror", "mirrorDelLeecher"}
              => WriteKey(w) = Trunc[req[w].infoHash] /\ AfterStore(w) = "scrape"
    BY KeyFacts
  <2>2. CASE ReceiveAnnounce(w)
    <3>1. pc'[w] = "interact"
      BY <2>2 DEF ReceiveAnnounce, TypeOK
    <3> QED
      BY <3>1 DEF StageFacts
  <2>3. CASE StopDeleteSeeder(w)
    <3>1. req' = req /\ leechers' = leechers
          /\ seeders' = [seeders EXCEPT ![WriteKey(w)] = @ \ {req[w].peer}]
      BY <2>3 DEF StopDeleteSeeder, DeleteSeeder
    <3>2. CASE pc[w] = "interact"
      <4>1. pc'[w] = "interactDelLeecher" /\ seeders'[req[w].infoHash] = seeders[req[w].infoHash] \ {req[w].peer}
        BY <2>1, <2>3, <3>1, <3>2 DEF StopDeleteSeeder, TypeOK, InfoHashes
      <4> QED
        BY <2>3, <3>1, <4>1 DEF StageFacts, StopDeleteSeeder
    <3>3. CASE pc[w] = "mirror"
      <4>1. pc'[w] = "mirrorDelLeecher" /\ seeders'[req[w].infoHash] = seeders[req[w].infoHash]
            /\ req[w].event = "stopped"
        BY <2>1, <2>3, <3>1, <3>3 DEF StopDeleteSeeder, TypeOK
      <4> QED
        BY <1>0, <3>1, <3>3, <4>1 DEF StageFacts
    <3> QED
      BY <2>3, <3>2, <3>3 DEF StopDeleteSeeder
  <2>4. CASE StopDeleteLeecher(w)
    <3>1. req' = req /\ seeders' = seeders
          /\ leechers' = [leechers EXCEPT ![WriteKey(w)] = @ \ {req[w].peer}]
      BY <2>4 DEF StopDeleteLeecher, DeleteLeecher
    <3>2. CASE pc[w] = "interactDelLeecher"
      <4>1. pc'[w] = "mirror" /\ leechers'[req[w].infoHash] = leechers[req[w].infoHash] \ {req[w].peer}
            /\ req[w].event = "stopped"
        BY <1>0, <2>1, <2>4, <3>1, <3>2 DEF StopDeleteLeecher, TypeOK, InfoHashes, StageFacts
      <4> QED
        BY <1>0, <3>1, <3>2, <4>1 DEF StageFacts
    <3>3. CASE pc[w] = "mirrorDelLeecher"
      <4>1. pc'[w] = "scrape"
        BY <2>1, <2>4, <3>3 DEF StopDeleteLeecher, TypeOK
      <4> QED
        BY <4>1 DEF StageFacts
    <3> QED
      BY <2>4, <3>2, <3>3 DEF StopDeleteLeecher
  <2>5. ASSUME NEW sd \in BOOLEAN,
               /\ pc[w] \in {"interact", "mirror"}
               /\ req[w].event # "stopped"
               /\ sd = SeedsIn(w)
               /\ PutPeer(WriteKey(w), req[w].peer, sd)
               /\ pc' = [pc EXCEPT ![w] = AfterStore(w)]
               /\ req' = req
        PROVE  StageFacts(w)'
    <3>1. CASE pc[w] = "interact"
      <4>1. pc'[w] = "mirror" /\ WriteKey(w) = req[w].infoHash
        BY <2>1, <2>5, <3>1 DEF TypeOK
      <4>2. IF sd THEN req[w].peer \notin leechers'[req[w].infoHash] ELSE req[w].peer \notin seeders'[req[w].infoHash]
        BY <2>1, <2>5, <4>1 DEF PutPeer, TypeOK, InfoHashes
      <4> QED
        BY <2>5, <4>1, <4>2 DEF StageFacts, SeedsIn
    <3>2. CASE pc[w] = "mirror"
      <4>1. pc'[w] = "scrape"
        BY <2>1, <2>5, <3>2 DEF TypeOK
      <4> QED
        BY <4>1 DEF StageFacts
    <3> QED
      BY <2>5, <3>1, <3>2
  <2>6. CASE Graduate(w) \/ AnnounceSeeder(w) \/ AnnounceLeecher(w)
    <3>1. req[w].event \in Events
      BY DEF TypeOK, AnnounceRequest
    <3>2. CASE Graduate(w)
      BY <2>5, <3>2 DEF Graduate, GraduateLeecher, SeedsIn
    <3>3. CASE AnnounceSeeder(w)
      BY <2>5, <3>1, <3>3 DEF AnnounceSeeder, PutSeeder, SeedsIn, Events
    <3>4. CASE AnnounceLeecher(w)
      BY <2>5, <3>1, <3>4 DEF AnnounceLeecher, PutLeecher, SeedsIn, Events
    <3> QED
      BY <2>6, <3>2, <3>3, <3>4
  <2>8. CASE Scrape(w) \/ ScrapeV1(w) \/ AppendPeers(w)
    <3>1. pc'[w] \in {"scrapeV1", "peers", "done"}
      BY <2>8 DEF Scrape, ScrapeV1, AppendPeers, TypeOK
    <3> QED
      BY <3>1 DEF StageFacts
  <2>9. CASE SkipSwarmInteraction(w) \/ SkipResponseHook(w)
    <3>1. pc'[w] \in {"scrape", "done"}
      BY <2>9 DEF SkipSwarmInteraction, SkipResponseHook, TypeOK
    <3> QED
      BY <3>1 DEF StageFacts
  <2> QED
    BY <1>1, <2>2, <2>3, <2>4, <2>6, <2>8, <2>9 DEF Worker
<1>2. ASSUME NEW h \in InfoHashes, CollectGarbage(h) PROVE StageFacts(u)'
  BY <1>0, <1>2 DEF CollectGarbage, StageFacts, SeedsIn, workerVars, TypeOK
<1>3. CASE Tick \/ Quiet \/ UNCHANGED vars
  BY <1>0, <1>3 DEF Tick, Quiet, vars, storeVars, workerVars, StageFacts, SeedsIn
<1> QED
  BY <1>1, <1>2, <1>3 DEF Next

(* Mirrored(h, e) survives a step that adds e to neither swarm, does not   *)
(* restamp it, lets no time go back, and removes it from the V1 swarm only *)
(* where it is stale there.                                                *)
LEMMA MirroredMono ==
    ASSUME TypeOK, NEW h \in V2Hashes, NEW e \in Endpoints, Mirrored(h, e),
           clock' \in Nat, clock <= clock',
           e \in seeders'[h] => e \in seeders[h],
           e \in leechers'[h] => e \in leechers[h],
           lastSeen'[h][e] = lastSeen[h][e],
           lastSeen'[Trunc[h]][e] = lastSeen[Trunc[h]][e],
           e \in seeders[Trunc[h]] /\ ~Stale(Trunc[h], e) => e \in seeders'[Trunc[h]],
           e \in leechers[Trunc[h]] /\ ~Stale(Trunc[h], e) => e \in leechers'[Trunc[h]]
    PROVE  Mirrored(h, e)'
<1>1. Trunc[h] \in InfoHashes /\ h \in InfoHashes
  BY TrackerAssumptions DEF InfoHashes
<1>2. lastSeen[h][e] \in Nat /\ lastSeen[Trunc[h]][e] \in Nat /\ clock \in Nat
      /\ PeerLifetime \in Nat
  BY <1>1, TrackerAssumptions DEF TypeOK
<1>3. ~Stale(h, e)' => ~Stale(h, e)
  BY <1>2 DEF Stale
<1>4. ~Stale(h, e) /\ lastSeen[h][e] <= lastSeen[Trunc[h]][e] => ~Stale(Trunc[h], e)
  BY <1>2 DEF Stale
<1> QED
  BY <1>3, <1>4 DEF Mirrored

(* A store write of worker w touches only the swarm it writes, and there   *)
(* only the worker's own peer.                                             *)
LEMMA WriteFrame ==
    ASSUME TypeOK, NEW w \in Workers,
           \/ StopDeleteSeeder(w) \/ StopDeleteLeecher(w) \/ Graduate(w)
           \/ AnnounceSeeder(w) \/ AnnounceLeecher(w)
    PROVE  /\ clock' = clock
           /\ \A x \in InfoHashes \ {WriteKey(w)} :
                 /\ seeders'[x] = seeders[x] /\ leechers'[x] = leechers[x]
                 /\ lastSeen'[x] = lastSeen[x]
           /\ \A x \in InfoHashes, e \in Endpoints \ {req[w].peer} :
                 /\ e \in seeders'[x] <=> e \in seeders[x]
                 /\ e \in leechers'[x] <=> e \in leechers[x]
                 /\ lastSeen'[x][e] = lastSeen[x][e]
<1>1. WriteKey(w) \in InfoHashes /\ req[w].peer \in Endpoints
  BY WriteKeyType
<1>2. CASE \E sd \in BOOLEAN : PutPeer(WriteKey(w), req[w].peer, sd) /\ clock' = clock
  BY <1>1, <1>2 DEF PutPeer, TypeOK
<1>3. CASE DeleteSeeder(WriteKey(w), req[w].peer) /\ clock' = clock
  BY <1>1, <1>3 DEF DeleteSeeder, TypeOK
<1>4. CASE DeleteLeecher(WriteKey(w), req[w].peer) /\ clock' = clock
  BY <1>1, <1>4 DEF DeleteLeecher, TypeOK
<1> QED
  BY <1>2, <1>3, <1>4 DEF StopDeleteSeeder, StopDeleteLeecher, Graduate,
     AnnounceSeeder, AnnounceLeecher, PutSeeder, PutLeecher, GraduateLeecher

(* Every V2 entry stays mirrored or pending: a worker's write either sets  *)
(* the mirror up, completes it, or removes what needs none; a sweep of the *)
(* V1 swarm keeps whatever is live in the V2 swarm, as its stamp is newer. *)
LEMMA MirrorsStep ==
    ASSUME SequentialV2, TypeOK, MirrorInv, [Next]_vars
    PROVE  MirrorsHold'
<1> SUFFICES ASSUME NEW h \in V2Hashes, NEW e \in Endpoints
             PROVE  Mirrored(h, e)' \/ \E u \in Workers : PendingMirror(u, h, e)'
  BY DEF MirrorsHold
<1>0. Mirrored(h, e) \/ \E u \in Workers : PendingMirror(u, h, e)
  BY DEF MirrorInv, MirrorsHold
<1>a. /\ Trunc[h] \in V1Hashes /\ Trunc[h] # h
      /\ h \in InfoHashes /\ Trunc[h] \in InfoHashes
  BY TrackerAssumptions DEF InfoHashes
<1>b. clock \in Nat
  BY TrackerAssumptions DEF TypeOK
<1>1. ASSUME NEW w \in Workers, Worker(w)
      PROVE  Mirrored(h, e)' \/ \E u \in Workers : PendingMirror(u, h, e)'
  <2>0. /\ req[w].infoHash \in V2Hashes /\ req[w].peer \in Endpoints
        /\ Trunc[req[w].infoHash] \in V1Hashes
        /\ pc[w] \in {"interact", "interactDelLeecher"}
              => WriteKey(w) = req[w].infoHash /\ AfterStore(w) = "mirror"
        /\ pc[w] \in {"mirror", "mirrorDelLeecher"}
              => WriteKey(w) = Trunc[req[w].infoHash] /\ AfterStore(w) = "scrape"
    BY KeyFacts
  <2>p. (\E u \in Workers : PendingMirror(u, h, e)) => PendingMirror(w, h, e)
    BY DEF SequentialV2
  <2>1. CASE \/ ReceiveAnnounce(w) \/ Scrape(w) \/ ScrapeV1(w) \/ AppendPeers(w)
             \/ SkipSwarmInteraction(w) \/ SkipResponseHook(w)
    <3>1. pc[w] # "mirror"
      BY <2>1 DEF ReceiveAnnounce, Scrape, ScrapeV1, AppendPeers,
                  SkipSwarmInteraction, SkipsSwarm, SkipResponseHook
    <3>2. Mirrored(h, e)
      BY <1>0, <2>p, <3>1 DEF PendingMirror
    <3>3. UNCHANGED <<seeders, leechers, lastSeen, clock>>
      BY <2>1 DEF ReceiveAnnounce, Scrape, ScrapeV1, AppendPeers,
                  SkipSwarmInteraction, SkipResponseHook, storeVars
    <3> QED
      BY <3>2, <3>3 DEF Mirrored, Stale
  <2>2. CASE \/ StopDeleteSeeder(w) \/ StopDeleteLeecher(w) \/ Graduate(w)
             \/ AnnounceSeeder(w) \/ AnnounceLeecher(w)
    <3>1. /\ clock' = clock
          /\ \A x \in InfoHashes \ {WriteKey(w)} :
                /\ seeders'[x] = seeders[x] /\ leechers'[x] = leechers[x]
                /\ lastSeen'[x] = lastSeen[x]
          /\ \A x \in InfoHashes, d \in Endpoints \ {req[w].peer} :
                /\ d \in seeders'[x] <=> d \in seeders[x]
                /\ d \in leechers'[x] <=> d \in leechers[x]
                /\ lastSeen'[x][d] = lastSeen[x][d]
      BY <2>2, WriteFrame
    <3>2. pc[w] \in {"interact", "interactDelLeecher", "mirror", "mirrorDelLeecher"}
      BY <2>2 DEF StopDeleteSeeder, StopDeleteLeecher, Graduate, AnnounceSeeder,
                  AnnounceLeecher
    <3>3. CASE h # req[w].infoHash
      <4>1. WriteKey(w) # h /\ WriteKey(w) # Trunc[h]
        BY <1>a, <2>0, <3>2, <3>3, TrackerAssumptions DEF SequentialV2
      <4>2. Mirrored(h, e)
        BY <1>0, <2>p, <3>3 DEF PendingMirror
      <4>3. /\ seeders'[h] = seeders[h] /\ leechers'[h] = leechers[h]
            /\ lastSeen'[h] = lastSeen[h]
            /\ seeders'[Trunc[h]] = seeders[Trunc[h]]
            /\ leechers'[Trunc[h]] = leechers[Trunc[h]]
            /\ lastSeen'[Trunc[h]] = lastSeen[Trunc[h]]
        BY <1>a, <3>1, <4>1
      <4> QED
        BY <3>1, <4>2, <4>3 DEF Mirrored, Stale
    <3>4. CASE e # req[w].peer
      <4>2. Mirrored(h, e)
        BY <1>0, <2>p, <3>4 DEF PendingMirror
      <4>3. /\ e \in seeders'[h] <=> e \in seeders[h]
            /\ e \in leechers'[h] <=> e \in leechers[h]
            /\ lastSeen'[h][e] = lastSeen[h][e]
            /\ e \in seeders'[Trunc[h]] <=> e \in seeders[Trunc[h]]
            /\ e \in leechers'[Trunc[h]] <=> e \in leechers[Trunc[h]]
            /\ lastSeen'[Trunc[h]][e] = lastSeen[Trunc[h]][e]
        BY <1>a, <3>1, <3>4
      <4> QED
        BY <3>1, <4>2, <4>3 DEF Mirrored, Stale
    <3>5. CASE h = req[w].infoHash /\ e = req[w].peer
      <4>0. /\ seeders[Trunc[h]] \subseteq Endpoints
            /\ leechers[Trunc[h]] \subseteq Endpoints
        BY <1>a DEF TypeOK
      <4>1. CASE /\ pc[w] \in {"interact", "interactDelLeecher"}
                 /\ StopDeleteSeeder(w) \/ StopDeleteLeecher(w)
        <5>1. Mirrored(h, e)
          BY <1>0, <2>p, <4>1 DEF PendingMirror
        <5>2. WriteKey(w) = h
          BY <2>0, <3>5, <4>1
        <5>3. /\ lastSeen' = lastSeen /\ clock' = clock
              /\ seeders'[h] \subseteq seeders[h] /\ leechers'[h] \subseteq leechers[h]
          BY <1>a, <4>1, <5>2 DEF StopDeleteSeeder, StopDeleteLeecher,
             DeleteSeeder, DeleteLeecher, TypeOK
        <5>4. seeders'[Trunc[h]] = seeders[Trunc[h]] /\ leechers'[Trunc[h]] = leechers[Trunc[h]]
          BY <1>a, <3>1, <5>2
        <5>5. /\ clock' \in Nat /\ clock <= clock'
              /\ e \in seeders'[h] => e \in seeders[h]
              /\ e \in leechers'[h] => e \in leechers[h]
              /\ lastSeen'[h][e] = lastSeen[h][e]
              /\ lastSeen'[Trunc[h]][e] = lastSeen[Trunc[h]][e]
              /\ e \in seeders[Trunc[h]] /\ ~Stale(Trunc[h], e) => e \in seeders'[Trunc[h]]
              /\ e \in leechers[Trunc[h]] /\ ~Stale(Trunc[h], e) => e \in leechers'[Trunc[h]]
          BY <1>b, <5>3, <5>4
        <5>6. Mirrored(h, e)'
          BY <5>1, <5>5, MirroredMono
        <5> QED
          BY <5>6
      <4>2. CASE /\ pc[w] \in {"mirror", "mirrorDelLeecher"}
                 /\ StopDeleteSeeder(w) \/ StopDeleteLeecher(w)
        <5>1. req[w].event = "stopped"
          <6>1. CASE StopDeleteSeeder(w)
            BY <6>1 DEF StopDeleteSeeder
          <6>2. CASE StopDeleteLeecher(w)
            <7>1. pc[w] = "mirrorDelLeecher"
              BY <4>2, <6>2 DEF StopDeleteLeecher
            <7> QED
              BY <7>1 DEF StageFacts, MirrorInv
          <6> QED
            BY <4>2, <6>1, <6>2
        <5>2. req[w].peer \notin seeders[req[w].infoHash] \cup leechers[req[w].infoHash]
          BY <4>2, <5>1 DEF StageFacts, MirrorInv
        <5>3. seeders'[h] = seeders[h] /\ leechers'[h] = leechers[h]
          BY <1>a, <2>0, <3>1, <3>5, <4>2
        <5> QED
          BY <3>5, <5>2, <5>3 DEF Mirrored
      <4>3. CASE /\ pc[w] = "interact"
                 /\ Graduate(w) \/ AnnounceSeeder(w) \/ AnnounceLeecher(w)
        <5>1. pc'[w] = "mirror" /\ req' = req /\ req[w].event # "stopped"
          BY <2>0, <4>3 DEF Graduate, AnnounceSeeder, AnnounceLeecher, TypeOK
        <5> QED
          BY <3>5, <5>1 DEF PendingMirror
      <4>4. CASE /\ pc[w] = "mirror"
                 /\ Graduate(w) \/ AnnounceSeeder(w) \/ AnnounceLeecher(w)
        <5>1. req[w].event # "stopped" /\ req[w].event \in Events
          BY <4>4 DEF Graduate, AnnounceSeeder, AnnounceLeecher, TypeOK, AnnounceRequest
        <5>2. req[w].peer \notin IF SeedsIn(w) THEN leechers[req[w].infoHash]
                                               ELSE seeders[req[w].infoHash]
          BY <4>4, <5>1 DEF StageFacts, MirrorInv
        <5>3. \E sd \in BOOLEAN : sd = SeedsIn(w) /\ PutPeer(WriteKey(w), req[w].peer, sd)
          BY <4>4, <5>1 DEF Graduate, GraduateLeecher, AnnounceSeeder, PutSeeder,
             AnnounceLeecher, PutLeecher, SeedsIn, Events
        <5>4. PICK sd \in BOOLEAN : sd = SeedsIn(w) /\ PutPeer(Trunc[h], e, sd)
          BY <2>0, <3>5, <4>4, <5>3
        <5>5. /\ seeders'[h] = seeders[h] /\ leechers'[h] = leechers[h]
              /\ lastSeen'[h] = lastSeen[h] /\ clock' = clock
          BY <1>a, <2>0, <3>1, <3>5, <4>4
        <5>6. /\ e \in seeders'[Trunc[h]] <=> sd
              /\ e \in leechers'[Trunc[h]] <=> ~sd
              /\ lastSeen'[Trunc[h]][e] = clock
          BY <1>a, <4>0, <5>4 DEF PutPeer, TypeOK
        <5>7. lastSeen[h][e] <= clock
          BY <1>a DEF MirrorInv, LastSeenBound
        <5> QED
          BY <3>5, <5>2, <5>4, <5>5, <5>6, <5>7 DEF Mirrored
      <4> QED
        BY <2>2, <3>2, <4>1, <4>2, <4>3, <4>4 DEF StopDeleteSeeder, StopDeleteLeecher,
           Graduate, AnnounceSeeder, AnnounceLeecher
    <3> QED
      BY <3>3, <3>4, <3>5
  <2> QED
    BY <1>1, <2>1, <2>2 DEF Worker
<1>2. ASSUME NEW g \in InfoHashes, CollectGarbage(g)
      PROVE  Mirrored(h, e)' \/ \E u \in Workers : PendingMirror(u, h, e)'
  <2>1. CASE \E u \in Workers : PendingMirror(u, h, e)
    BY <1>2, <2>1 DEF CollectGarbage, workerVars, PendingMirror
  <2>2. CASE Mirrored(h, e)
    <3>1. /\ clock' = clock /\ lastSeen' = lastSeen
          /\ e \in seeders'[h] => e \in seeders[h]
          /\ e \in leechers'[h] => e \in leechers[h]
          /\ e \in seeders[Trunc[h]] /\ ~Stale(Trunc[h], e) => e \in seeders'[Trunc[h]]
          /\ e \in leechers[Trunc[h]] /\ ~Stale(Trunc[h], e) => e \in leechers'[Trunc[h]]
      BY <1>2, <1>a DEF CollectGarbage, TypeOK
    <3> QED
      BY <1>b, <2>2, <3>1, MirroredMono
  <2> QED
    BY <1>0, <2>1, <2>2
<1>3. CASE Tick
  <2>1. CASE \E u \in Workers : PendingMirror(u, h, e)
    BY <1>3, <2>1 DEF Tick, workerVars, PendingMirror
  <2>2. CASE Mirrored(h, e)
    <3>1. clock' = clock + 1 /\ UNCHANGED <<seeders, leechers, lastSeen>>
      BY <1>3 DEF Tick, storeVars
    <3> QED
      BY <1>b, <2>2, <3>1, MirroredMono
  <2> QED
    BY <1>0, <2>1, <2>2
<1>4. CASE Quiet \/ UNCHANGED vars
  BY <1>0, <1>4 DEF Quiet, vars, Mirrored, Stale, PendingMirror
<1> QED
  BY <1>1, <1>2, <1>3, <1>4 DEF Next

(* The strengthening of MirrorConsistent is inductive under SequentialV2.  *)
LEMMA MirrorInvariant ==
    ASSUME SequentialV2
    PROVE  Spec => []MirrorInv
<1>1. Init => MirrorInv
  <2> SUFFICES ASSUME Init PROVE MirrorInv
    OBVIOUS
  <2>1. LastSeenBound
    BY DEF Init, LastSeenBound
  <2>2. MirrorsHold
    BY TrackerAssumptions DEF Init, MirrorsHold, Mirrored, InfoHashes
  <2>3. \A w \in Workers : StageFacts(w)
    BY DEF Init, StageFacts
  <2> QED
    BY <2>1, <2>2, <2>3 DEF MirrorInv
<1>2. TypeOK /\ MirrorInv /\ [Next]_vars => MirrorInv'
  BY LastSeenStep, StageStep, MirrorsStep DEF MirrorInv
<1> QED
  BY <1>1, <1>2, TypeCorrect, PTL DEF Spec

(* Once no announce is in flight, every live peer of a V2 swarm is in the  *)
(* same role in the swarm of its V1 truncation: the mirrored storeFn call  *)
(* of the V2 middleware has followed each write, and GC of the V1 swarm    *)
(* has not dropped a peer that is live in the V2 swarm.  It holds for one  *)
(* worker announcing V2 infohashes whose truncations differ; two workers   *)
(* break it (run mirror_race).                                             *)
THEOREM MirrorConsistentHolds ==
    ASSUME SequentialV2
    PROVE  Spec => []MirrorConsistent
<1>1. MirrorInv => MirrorConsistent
  <2> SUFFICES ASSUME MirrorInv, Quiescent, NEW h \in V2Hashes, NEW e \in Endpoints
               PROVE  /\ e \in seeders[h] /\ ~Stale(h, e) => e \in seeders[Trunc[h]]
                      /\ e \in leechers[h] /\ ~Stale(h, e) => e \in leechers[Trunc[h]]
    BY DEF MirrorConsistent
  <2>1. ~\E w \in Workers : PendingMirror(w, h, e)
    BY DEF Quiescent, PendingMirror
  <2> QED
    BY <2>1 DEF MirrorInv, MirrorsHold, Mirrored
<1> QED
  BY <1>1, MirrorInvariant, PTL
====
