------------------------------- MODULE Tracker -------------------------------
(***************************************************************************)
(* The core of the tracker: the announce path of the middleware logic      *)
(* (swarmInteractionHook.HandleAnnounce and responseHook.HandleAnnounce /  *)
(* appendPeers) running in several frontend workers at once over the       *)
(* in-memory peer store, together with the store's garbage collector.      *)
(*                                                                         *)
(* Every call into the store is one atomic step: the store takes the       *)
(* shard's mutex for the whole operation.  A handler makes several such    *)
(* calls (the write under the request's infohash, the mirrored write under *)
(* its V1 truncation, one or two ScrapeSwarm calls, AnnouncePeers), and    *)
(* other workers and the GC may run between any two of them.               *)
(*                                                                         *)
(* Peers are identified by endpoint, as the store does; the response is    *)
(* the set of endpoints it lists.                                          *)
(***************************************************************************)
EXTENDS Naturals, FiniteSets, FiniteSetsExt

CONSTANTS
    Endpoints,        \* peer endpoints (IP and port)
    V1Hashes,         \* 20-byte infohashes
    V2Hashes,         \* 32-byte infohashes
    Trunc,            \* Trunc[h]: the first 20 bytes of the V2 hash h (BEP 52)
    AnnouncedHashes,  \* the infohashes clients announce
    Workers,          \* frontend goroutines that run the middleware chain
    MiddlewarePeers,  \* peers a pre-hook has already put into the response
    SkipFlags,        \* whether a pre-hook may have set a skip key: {FALSE} if none does
    MaxNumWant,       \* the largest NumWant the logic passes to the hooks
    PeerLifetime,     \* GC evicts a peer when now - lastSeen > PeerLifetime
    MaxTime,          \* bound on the clock
    MaxRequests       \* bound on the number of announces handled

InfoHashes == V1Hashes \cup V2Hashes

ASSUME TrackerAssumptions ==
    /\ V1Hashes \cap V2Hashes = {}
    /\ Trunc \in [V2Hashes -> V1Hashes]
    /\ AnnouncedHashes \subseteq InfoHashes
    /\ MiddlewarePeers \subseteq Endpoints
    /\ SkipFlags \subseteq BOOLEAN /\ SkipFlags # {}
    /\ IsFiniteSet(Endpoints) /\ Endpoints # {}
    /\ AnnouncedHashes # {}
    /\ MaxNumWant \in Nat
    /\ PeerLifetime \in Nat
    /\ MaxTime \in Nat
    /\ MaxRequests \in Nat

VARIABLES
    seeders,    \* seeders[h]: endpoints in the swarm's seeder set
    leechers,   \* leechers[h]: endpoints in the swarm's leecher set
    swarm,      \* swarm[h]: the store has an entry for h
    snatches,   \* snatches[h]: completed downloads counted for h
    lastSeen,   \* lastSeen[h][e]: time of the last write of e under h
    clock,      \* the store's time cache
    pc,         \* pc[w]: where worker w is in the announce path
    req,        \* req[w]: the AnnounceRequest worker w handles
    resp,       \* resp[w]: the AnnounceResponse worker w builds
    issued      \* number of announces handled so far

storeVars == <<seeders, leechers, swarm, snatches, lastSeen>>
workerVars == <<pc, req, resp>>
vars == <<seeders, leechers, swarm, snatches, lastSeen, clock, pc, req, resp, issued>>

Events == {"none", "completed", "stopped"}

(* An announce with the two skip keys of its context: skipSwarm for       *)
(* SkipSwarmInteractionKey, skipResponse for SkipResponseHookKey.          *)
AnnounceRequest ==
    [peer : Endpoints, infoHash : AnnouncedHashes, event : Events,
     left : {0, 1}, numWant : 0..MaxNumWant,
     skipSwarm : SkipFlags, skipResponse : SkipFlags]

Stages == {"idle", "interact", "interactDelLeecher", "mirror",
           "mirrorDelLeecher", "scrape", "scrapeV1", "peers", "done"}

(* The infohash a store write of worker w goes to: the request's own, or   *)
(* its V1 truncation for the mirrored write of a V2 request.               *)
IsV2(h) == h \in V2Hashes
TruncateV1(h) == IF IsV2(h) THEN Trunc[h] ELSE h
(* Defect variant: the mirrored call goes to the request's own infohash.   *)
WriteKeyUntruncated(w) == req[w].infoHash

WriteKey(w) ==
    IF pc[w] \in {"mirror", "mirrorDelLeecher"}
    THEN TruncateV1(req[w].infoHash) ELSE req[w].infoHash

(* After storeFn returns: the mirrored call for a V2 hash, else the        *)
(* response hook.                                                          *)
AfterStore(w) ==
    IF pc[w] \in {"interact", "interactDelLeecher"} /\ IsV2(req[w].infoHash)
    THEN "mirror" ELSE "scrape"

-----------------------------------------------------------------------------
(* The peer store operations, each under the shard lock.                   *)

PutPeer(h, e, asSeeder) ==
    /\ seeders' = [seeders EXCEPT ![h] = IF asSeeder THEN @ \cup {e} ELSE @ \ {e}]
    /\ leechers' = [leechers EXCEPT ![h] = IF asSeeder THEN @ \ {e} ELSE @ \cup {e}]
    /\ swarm' = [swarm EXCEPT ![h] = TRUE]
    /\ lastSeen' = [lastSeen EXCEPT ![h][e] = clock]

PutSeeder(h, e) == PutPeer(h, e, TRUE) /\ UNCHANGED snatches

PutLeecher(h, e) == PutPeer(h, e, FALSE) /\ UNCHANGED snatches

(* A graduation counts a snatch unless the peer already was a seeder.      *)
GraduateLeecher(h, e) ==
    /\ PutPeer(h, e, TRUE)
    /\ snatches' = [snatches EXCEPT ![h] = IF e \in seeders[h] THEN @ ELSE @ + 1]

(* ErrResourceDoesNotExist, which the hook ignores, leaves the store as is.*)
DeleteSeeder(h, e) ==
    /\ seeders' = [seeders EXCEPT ![h] = @ \ {e}]
    /\ UNCHANGED <<leechers, swarm, snatches, lastSeen>>

DeleteLeecher(h, e) ==
    /\ leechers' = [leechers EXCEPT ![h] = @ \ {e}]
    /\ UNCHANGED <<seeders, swarm, snatches, lastSeen>>

(* The results AnnouncePeers may return: up to n peers other than the      *)
(* requester e, only leechers for a seeder, else leechers then seeders.    *)
(* No swarm: ErrResourceDoesNotExist, which appendPeers treats as none.    *)
(* Defect variant: the requester is not excluded.                         *)
AnnouncePeersWithRequester(h, seeding, n, e) ==
    LET Ls == kSubset(Min({n, Cardinality(leechers[h])}), leechers[h]) IN
    IF ~swarm[h] THEN {{}}
    ELSE IF seeding THEN Ls
    ELSE UNION {{l \cup s : s \in kSubset(Min({n - Cardinality(l),
                                         Cardinality(seeders[h])}), seeders[h])}
                : l \in Ls}

AnnouncePeers(h, seeding, n, e) ==
    LET L == leechers[h] \ {e}
        S == seeders[h] \ {e}
        Ls == kSubset(Min({n, Cardinality(L)}), L)
    IN  IF ~swarm[h] THEN {{}}
        ELSE IF seeding THEN Ls
        ELSE UNION {{l \cup s : s \in kSubset(Min({n - Cardinality(l),
                                                     Cardinality(S)}), S)}
                    : l \in Ls}

(* The peers appendPeers keeps of the middleware peers m followed by the   *)
(* store peers sp: its loop stops once the set of unique peers has more    *)
(* than max elements, so it keeps the first max + 1 distinct ones.         *)
UniquePrefixes(m, sp, max) ==
    IF Cardinality(m \cup sp) <= max + 1 THEN {m \cup sp}
    ELSE IF Cardinality(m) >= max + 1 THEN kSubset(max + 1, m)
    ELSE {m \cup x : x \in kSubset(max + 1 - Cardinality(m), sp \ m)}

(* ScrapeSwarm: (incomplete, complete); a missing swarm has empty sets.    *)
Incomplete(h) == Cardinality(leechers[h])
Complete(h) == Cardinality(seeders[h])

-----------------------------------------------------------------------------
(* The announce path of one worker.                                        *)

Init ==
    /\ seeders = [h \in InfoHashes |-> {}]
    /\ leechers = [h \in InfoHashes |-> {}]
    /\ swarm = [h \in InfoHashes |-> FALSE]
    /\ snatches = [h \in InfoHashes |-> 0]
    /\ lastSeen = [h \in InfoHashes |-> [e \in Endpoints |-> 0]]
    /\ clock = 0
    /\ pc = [w \in Workers |-> "idle"]
    \* an idle worker's request and response are never read
    /\ req = [w \in Workers |-> CHOOSE r \in AnnounceRequest : TRUE]
    /\ resp = [w \in Workers |-> [complete |-> 0, incomplete |-> 0, peers |-> {}]]
    /\ issued = 0

(* A frontend hands a parsed announce to the logic; the pre-hooks have run *)
(* and may have put peers into the response.                               *)
ReceiveAnnounce(w) ==
    /\ pc[w] \in {"idle", "done"}
    /\ issued < MaxRequests
    /\ \E r \in AnnounceRequest : req' = [req EXCEPT ![w] = r]
    /\ pc' = [pc EXCEPT ![w] = "interact"]
    /\ resp' = [resp EXCEPT ![w] = [complete |-> 0, incomplete |-> 0,
                                    peers |-> MiddlewarePeers]]
    /\ issued' = issued + 1
    /\ UNCHANGED <<storeVars, clock>>

(* swarmInteractionHook returns at once when the context holds           *)
(* SkipSwarmInteractionKey: no store call, on to the response hook.        *)
SkipsSwarm(w) == pc[w] = "interact" /\ req[w].skipSwarm

SkipSwarmInteraction(w) ==
    /\ SkipsSwarm(w)
    /\ pc' = [pc EXCEPT ![w] = "scrape"]
    /\ UNCHANGED <<storeVars, clock, req, resp, issued>>

(* storeFn for event = stopped: DeleteSeeder, then DeleteLeecher.          *)
StopDeleteSeeder(w) ==
    /\ pc[w] \in {"interact", "mirror"}
    /\ ~SkipsSwarm(w)
    /\ req[w].event = "stopped"
    /\ DeleteSeeder(WriteKey(w), req[w].peer)
    /\ pc' = [pc EXCEPT ![w] = IF @ = "interact" THEN "interactDelLeecher"
                                                 ELSE "mirrorDelLeecher"]
    /\ UNCHANGED <<clock, req, resp, issued>>

StopDeleteLeecher(w) ==
    /\ pc[w] \in {"interactDelLeecher", "mirrorDelLeecher"}
    /\ DeleteLeecher(WriteKey(w), req[w].peer)
    /\ pc' = [pc EXCEPT ![w] = AfterStore(w)]
    /\ UNCHANGED <<clock, req, resp, issued>>

(* storeFn for event = completed.                                          *)
Graduate(w) ==
    /\ pc[w] \in {"interact", "mirror"}
    /\ ~SkipsSwarm(w)
    /\ req[w].event = "completed"
    /\ GraduateLeecher(WriteKey(w), req[w].peer)
    /\ pc' = [pc EXCEPT ![w] = AfterStore(w)]
    /\ UNCHANGED <<clock, req, resp, issued>>

(* storeFn for left = 0 and for everything else.                           *)
AnnounceSeeder(w) ==
    /\ pc[w] \in {"interact", "mirror"}
    /\ ~SkipsSwarm(w)
    /\ req[w].event \notin {"stopped", "completed"}
    /\ req[w].left = 0
    /\ PutSeeder(WriteKey(w), req[w].peer)
    /\ pc' = [pc EXCEPT ![w] = AfterStore(w)]
    /\ UNCHANGED <<clock, req, resp, issued>>

AnnounceLeecher(w) ==
    /\ pc[w] \in {"interact", "mirror"}
    /\ ~SkipsSwarm(w)
    /\ req[w].event \notin {"stopped", "completed"}
    /\ req[w].left # 0
    /\ PutLeecher(WriteKey(w), req[w].peer)
    /\ pc' = [pc EXCEPT ![w] = AfterStore(w)]
    /\ UNCHANGED <<clock, req, resp, issued>>

(* responseHook: ScrapeSwarm of the request's infohash, then, for a V2     *)
(* hash, of its truncation, the counts being added.                        *)
Scrape(w) ==
    LET h == req[w].infoHash IN
    /\ pc[w] = "scrape"
    /\ ~req[w].skipResponse
    /\ resp' = [resp EXCEPT ![w].incomplete = Incomplete(h),
                            ![w].complete = Complete(h)]
    /\ pc' = [pc EXCEPT ![w] = IF IsV2(h) THEN "scrapeV1" ELSE "peers"]
    /\ UNCHANGED <<storeVars, clock, req, issued>>

(* responseHook returns at once when the context holds SkipResponseHookKey: *)
(* the response is what the pre-hooks left in it.                          *)
SkipResponseHook(w) ==
    /\ pc[w] = "scrape"
    /\ req[w].skipResponse
    /\ pc' = [pc EXCEPT ![w] = "done"]
    /\ UNCHANGED <<storeVars, clock, req, resp, issued>>

ScrapeV1(w) ==
    LET h == TruncateV1(req[w].infoHash) IN
    /\ pc[w] = "scrapeV1"
    /\ resp' = [resp EXCEPT ![w].incomplete = @ + Incomplete(h),
                            ![w].complete = @ + Complete(h)]
    /\ pc' = [pc EXCEPT ![w] = "peers"]
    /\ UNCHANGED <<storeVars, clock, req, issued>>

(* appendPeers: AnnouncePeers under the request's own infohash, then the   *)
(* middleware peers and the store peers deduplicated and capped; with no   *)
(* peer at all the requester itself is returned and counted.               *)
AppendPeers(w) ==
    LET r == req[w]
        seeding == r.left = 0
        m == resp[w].peers
    IN
    /\ pc[w] = "peers"
    /\ \E sp \in AnnouncePeers(r.infoHash, seeding, r.numWant, r.peer) :
         IF m \cup sp = {}
         THEN resp' = [resp EXCEPT ![w].peers = {r.peer},
                         ![w].complete = IF seeding THEN @ + 1 ELSE @,
                         ![w].incomplete = IF seeding THEN @ ELSE @ + 1]
         ELSE \E kept \in UniquePrefixes(m, sp, r.numWant) :
                resp' = [resp EXCEPT ![w].peers = kept]
    /\ pc' = [pc EXCEPT ![w] = "done"]
    /\ UNCHANGED <<storeVars, clock, req, issued>>

-----------------------------------------------------------------------------
(* Background work of the store.                                           *)

Stale(h, e) == lastSeen[h][e] + PeerLifetime < clock

(* One shard's part of a GC sweep: evict the stale peers of the swarm and  *)
(* delete the swarm if that empties it.                                    *)
CollectGarbage(h) ==
    LET s == {e \in seeders[h] : ~Stale(h, e)}
        l == {e \in leechers[h] : ~Stale(h, e)}
    IN
    /\ swarm[h]
    /\ seeders' = [seeders EXCEPT ![h] = s]
    /\ leechers' = [leechers EXCEPT ![h] = l]
    /\ swarm' = [swarm EXCEPT ![h] = s \cup l # {}]
    /\ snatches' = [snatches EXCEPT ![h] = IF s \cup l = {} THEN 0 ELSE @]
    /\ UNCHANGED <<lastSeen, clock, workerVars, issued>>

Tick ==
    /\ clock < MaxTime
    /\ clock' = clock + 1
    /\ UNCHANGED <<storeVars, workerVars, issued>>

(* Every announce has been answered: the tracker waits for more.           *)
Quiet ==
    /\ issued = MaxRequests
    /\ \A w \in Workers : pc[w] \in {"idle", "done"}
    /\ UNCHANGED vars

Worker(w) ==
    \/ ReceiveAnnounce(w)
    \/ SkipSwarmInteraction(w)
    \/ StopDeleteSeeder(w)
    \/ StopDeleteLeecher(w)
    \/ Graduate(w)
    \/ AnnounceSeeder(w)
    \/ AnnounceLeecher(w)
    \/ Scrape(w)
    \/ SkipResponseHook(w)
    \/ ScrapeV1(w)
    \/ AppendPeers(w)

Next ==
    \/ \E w \in Workers : Worker(w)
    \/ \E h \in InfoHashes : CollectGarbage(h)
    \/ Tick
    \/ Quiet

Spec == Init /\ [][Next]_vars

-----------------------------------------------------------------------------
(* Properties.                                                             *)

TypeOK ==
    /\ seeders \in [InfoHashes -> SUBSET Endpoints]
    /\ leechers \in [InfoHashes -> SUBSET Endpoints]
    /\ swarm \in [InfoHashes -> BOOLEAN]
    /\ snatches \in [InfoHashes -> Nat]
    /\ lastSeen \in [InfoHashes -> [Endpoints -> 0..MaxTime]]
    /\ clock \in 0..MaxTime
    /\ pc \in [Workers -> Stages]
    /\ req \in [Workers -> AnnounceRequest]
    /\ resp \in [Workers -> [complete : Nat, incomplete : Nat,
                             peers : SUBSET Endpoints]]
    /\ issued \in 0..MaxRequests

(* appendPeers never returns the requester to itself, except as the single *)
(* peer of an otherwise empty answer.                                      *)
NoSelfInResponse ==
    \A w \in Workers :
        pc[w] = "done" /\ req[w].peer \in resp[w].peers
            => resp[w].peers = {req[w].peer}

(* An answer never lists more peers than NumWant asked for (one, the       *)
(* requester, when NumWant is 0).                                          *)
ResponseWithinNumWant ==
    \A w \in Workers :
        pc[w] = "done" => Cardinality(resp[w].peers) <= Max({req[w].numWant, 1})

(* Once no write is in flight, every live peer of a V2 swarm is in the     *)
(* swarm of its V1 truncation, in the same role: a V1 client scraping the  *)
(* truncated hash sees the V2 swarm.                                       *)
Quiescent == \A w \in Workers : pc[w] \in {"idle", "done"}

MirrorConsistent ==
    Quiescent =>
        \A h \in V2Hashes, e \in Endpoints :
            /\ e \in seeders[h] /\ ~Stale(h, e) => e \in seeders[Trunc[h]]
            /\ e \in leechers[h] /\ ~Stale(h, e) => e \in leechers[Trunc[h]]

(* The counts of an answer never exceed the number of peers there are.     *)
CountsWithinPeers ==
    \A w \in Workers :
        pc[w] = "done" =>
            resp[w].complete + resp[w].incomplete <= Cardinality(Endpoints)
=============================================================================
