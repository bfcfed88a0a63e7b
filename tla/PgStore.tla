------------------------------ MODULE PgStore ------------------------------
(***************************************************************************)
(* The PostgreSQL peer store of src/unnamed/part_002: the configuration    *)
(* check (Config.Validate), the peer table written by putPeer, delPeer and *)
(* GraduateLeecher, the periodic GC query, and the two read paths:         *)
(* AnnouncePeers (one or two getPeers queries, each resolving its result   *)
(* columns by name) and ScrapeSwarm (countPeers).                          *)
(*                                                                         *)
(* The SQL text is configuration.  The model gives each configured query  *)
(* the meaning its arguments imply: AddQuery upserts the row of (infohash, *)
(* peer), DelQuery deletes the row of (infohash, peer, role), the          *)
(* GraduateQuery turns a leecher row into a seeder row, the Announce query *)
(* selects the rows of one infohash and role, CountQuery with its          *)
(* ByInfoHashClause counts the rows of one infohash by role, and GCQuery   *)
(* deletes the rows older than its cutoff.  A column name is a model value *)
(* of Names and strings.ToUpper is the constant function Upper.            *)
(***************************************************************************)
EXTENDS Naturals, Sequences, FiniteSets

CONSTANTS
    Endpoints,      \* peers, identified by (peer ID, address, port)
    Hashes,         \* infohashes
    Workers,        \* goroutines calling AnnouncePeers or ScrapeSwarm
    Names,          \* column names, in every case
    Upper,          \* strings.ToUpper on column names
    RawConfigs,     \* the column names an operator may configure
    MaxNumWant,
    PeerLifetime,
    MaxTime,
    MaxRequests     \* bound on reads and writes issued

Row == [ih : Hashes, ep : Endpoints, seeder : BOOLEAN, ts : 0..MaxTime]

ColumnConfig == [peerID : Names, address : Names, port : Names,
                 countSeeders : Names, countLeechers : Names]

\* strings.ToUpper is idempotent; the configured count columns are distinct
\* once upper-cased (the query cannot return one column for both).  There
\* is some infohash (an idle worker's request names one).
ASSUME PgAssumptions ==
    /\ Hashes # {}
    /\ Upper \in [Names -> Names]
    /\ \A n \in Names : Upper[Upper[n]] = Upper[n]
    /\ RawConfigs \subseteq ColumnConfig
    /\ \A c \in RawConfigs : Upper[c.countSeeders] # Upper[c.countLeechers]
    /\ MaxNumWant \in Nat /\ PeerLifetime \in Nat
    /\ MaxTime \in Nat /\ MaxRequests \in Nat

VARIABLES
    cfg,        \* the store's Config, as Validate returned it
    annFields,  \* field names of the Announce query's result set
    cntFields,  \* field names of the CountQuery's result set
    rows,       \* the peer table
    clock,      \* timecache seconds
    pc,         \* stage of each worker
    req,        \* the call each worker is making
    out,        \* what the call returns so far
    served,     \* per worker: a row the call should return was in the table
                \* when it started, and no write happened since
    issued

vars == <<cfg, annFields, cntFields, rows, clock, pc, req, out, served, issued>>

\* Validate (lines 131-218): every name is required; then the announce
\* column names are upper-cased, each assignment writing PeerIDColumn, and
\* the count column names are upper-cased.
Validate(raw) ==
    LET c1 == [raw EXCEPT !.peerID = Upper[raw.peerID]]
        c2 == [c1 EXCEPT !.peerID = Upper[c1.address]]
        c3 == [c2 EXCEPT !.peerID = Upper[c2.port]]
    IN  [c3 EXCEPT !.countSeeders = Upper[c3.countSeeders],
                   !.countLeechers = Upper[c3.countLeechers]]

\* A result set selecting the configured column n names it in any case.
CasesOf(n) == {m \in Names : Upper[m] = Upper[n]}

\* The indices the header loop of getPeers and countPeers assigns to a
\* column: the switch tests the cases in order, so a field matching an
\* earlier case is never taken for a later one.
FieldIndex(fields, col, earlier) ==
    {i \in DOMAIN fields : Upper[fields[i]] = col /\ Upper[fields[i]] \notin earlier}

\* getPeers (lines 367-382): idIndex, ipIndex and portIndex are all found.
AnnounceColumnsFound ==
    /\ FieldIndex(annFields, cfg.peerID, {}) # {}
    /\ FieldIndex(annFields, cfg.address, {cfg.peerID}) # {}
    /\ FieldIndex(annFields, cfg.port, {cfg.peerID, cfg.address}) # {}

\* countPeers (lines 470-482): si and li are both found.
CountColumnsFound ==
    /\ FieldIndex(cntFields, cfg.countSeeders, {}) # {}
    /\ FieldIndex(cntFields, cfg.countLeechers, {cfg.countSeeders}) # {}

Peer == [ep : Endpoints, seeder : BOOLEAN]
Errors == {"nil", "columns", "scan", "notExist"}
\* What a call returns: the peers and error of AnnouncePeers, the counts of
\* ScrapeSwarm, and beside them the counts the table held when it was read.
Outcome == [peers : Seq(Peer), err : Errors, leechers : Nat, seeders : Nat,
            trueLeechers : Nat, trueSeeders : Nat]
NoOutcome == [peers |-> <<>>, err |-> "nil", leechers |-> 0, seeders |-> 0,
              trueLeechers |-> 0, trueSeeders |-> 0]

\* The end of AnnouncePeers (lines 442-453): no peer and no error is
\* ErrResourceDoesNotExist; an error with some peers is dropped.
AnnounceOutcome(r) ==
    IF r.err = "nil" THEN (IF r.peers = <<>> THEN [r EXCEPT !.err = "notExist"] ELSE r)
    ELSE IF r.peers # <<>> THEN [r EXCEPT !.err = "nil"] ELSE r

\* countPeers (lines 458-499) for one infohash returns (leechers, seeders).
Count(ih, seeders) == Cardinality({r \in rows : r.ih = ih /\ r.seeder = seeders})
CountPeersAllHashes(ih) ==
    IF CountColumnsFound
    THEN [leechers |-> Cardinality({r \in rows : ~r.seeder}),
          seeders |-> Cardinality({r \in rows : r.seeder})]
    ELSE [leechers |-> 0, seeders |-> 0]
CountPeers(ih) ==
    IF CountColumnsFound
    THEN [leechers |-> Count(ih, FALSE), seeders |-> Count(ih, TRUE)]
    ELSE [leechers |-> 0, seeders |-> 0]

Request == [kind : {"announce"}, ih : Hashes, forSeeder : BOOLEAN, numWant : 0..MaxNumWant]
           \cup [kind : {"scrape"}, ih : Hashes]
Stages == {"idle", "first", "finish", "scrape", "done"}

Init ==
    /\ \E raw \in RawConfigs :
         /\ cfg = Validate(raw)
         /\ \E a \in CasesOf(raw.peerID), b \in CasesOf(raw.address), c \in CasesOf(raw.port) :
               annFields = <<a, b, c>>
         /\ \E a \in CasesOf(raw.countSeeders), b \in CasesOf(raw.countLeechers) :
               cntFields = <<a, b>>
    /\ rows = {}
    /\ clock = 0
    /\ pc = [w \in Workers |-> "idle"]
    /\ req = [w \in Workers |-> [kind |-> "scrape", ih |-> CHOOSE h \in Hashes : TRUE]]
    /\ out = [w \in Workers |-> NoOutcome]
    /\ served = [w \in Workers |-> FALSE]
    /\ issued = 0
(***************************************************************************)
(* Writes.  Each is one Exec of a configured statement, atomic in the      *)
(* database; a call in flight no longer reads a quiet table.               *)
(***************************************************************************)
Write(newRows) ==
    /\ issued < MaxRequests
    /\ rows' = newRows
    /\ issued' = issued + 1
    /\ served' = [w \in Workers |-> FALSE]
    /\ UNCHANGED <<cfg, annFields, cntFields, clock, pc, req, out>>

\* putPeer (lines 315-327) behind PutSeeder and PutLeecher (339-349): the
\* row carries the role and, the store being GC aware, tc.Now().
PutPeer(ih, ep, seeder) ==
    Write({r \in rows : ~(r.ih = ih /\ r.ep = ep)}
          \cup {[ih |-> ih, ep |-> ep, seeder |-> seeder, ts |-> clock]})

\* delPeer (lines 329-337) behind DeleteSeeder and DeleteLeecher.
DelPeer(ih, ep, seeder) ==
    Write({r \in rows : ~(r.ih = ih /\ r.ep = ep /\ r.seeder = seeder)})

\* GraduateLeecher (lines 355-362).
GraduateLeecher(ih, ep) ==
    Write({IF r.ih = ih /\ r.ep = ep /\ ~r.seeder THEN [r EXCEPT !.seeder = TRUE] ELSE r
           : r \in rows})

\* One round of the ScheduleGC goroutine (lines 255-279): GCQuery with the
\* cutoff time.Now() - peerLifeTime.
CollectGarbage ==
    /\ \E r \in rows : r.ts + PeerLifetime < clock
    /\ Write({r \in rows : r.ts + PeerLifetime >= clock})

Tick ==
    /\ clock < MaxTime
    /\ clock' = clock + 1
    /\ UNCHANGED <<cfg, annFields, cntFields, rows, pc, req, out, served, issued>>

(***************************************************************************)
(* Reads.                                                                  *)
(***************************************************************************)
\* The rows a call for r should hand back: for a seeder the leechers, for a
\* leecher the seeders and the leechers.
Eligible(r) == {x \in rows : x.ih = r.ih /\ (r.forSeeder => ~x.seeder)}

Call(w) ==
    /\ pc[w] = "idle"
    /\ issued < MaxRequests
    /\ \E r \in Request :
         /\ req' = [req EXCEPT ![w] = r]
         /\ pc' = [pc EXCEPT ![w] = IF r.kind = "scrape" THEN "scrape" ELSE "first"]
         /\ served' = [served EXCEPT ![w] = r.kind = "announce" /\ r.numWant > 0 /\ Eligible(r) # {}]
    /\ out' = [out EXCEPT ![w] = NoOutcome]
    /\ issued' = issued + 1
    /\ UNCHANGED <<cfg, annFields, cntFields, rows, clock>>

\* AnnouncePeers (lines 429-440) calls getPeers, for a seeder on the
\* leechers and for a leecher first on the seeders.  getPeers (lines
\* 364-386) runs the Announce query and resolves its columns; it returns
\* the columns error when one is missing.  Validate leaves the port column
\* unresolvable for every configuration (PgStoreProofs), so the rows loop
\* (lines 398-424) and a leecher's second call (lines 435-439) are never
\* reached: the guard ~AnnounceColumnsFound always holds, and a state where
\* it did not would be a deadlock for TLC.
GetPeers(w) ==
    /\ pc[w] = "first"
    /\ ~AnnounceColumnsFound
    /\ out' = [out EXCEPT ![w].peers = <<>>, ![w].err = "columns"]
    /\ pc' = [pc EXCEPT ![w] = "finish"]
    /\ UNCHANGED <<cfg, annFields, cntFields, rows, clock, req, served, issued>>

Finish(w) ==
    /\ pc[w] = "finish"
    /\ out' = [out EXCEPT ![w] = AnnounceOutcome(out[w])]
    /\ pc' = [pc EXCEPT ![w] = "done"]
    /\ UNCHANGED <<cfg, annFields, cntFields, rows, clock, req, served, issued>>

\* ScrapeSwarm (lines 501-508): the (leechers, seeders) of countPeers are
\* bound to (sc, lc) and returned as seeders = sc, leechers = lc; snatched
\* stays 0.  The scrape counts, read in the same step, are kept beside it.
ScrapeSwarm(w) ==
    /\ pc[w] = "scrape"
    /\ LET c == CountPeers(req[w].ih) IN
         out' = [out EXCEPT ![w].leechers = c.seeders, ![w].seeders = c.leechers,
                            ![w].trueLeechers = Count(req[w].ih, FALSE),
                            ![w].trueSeeders = Count(req[w].ih, TRUE)]
    /\ pc' = [pc EXCEPT ![w] = "done"]
    /\ UNCHANGED <<cfg, annFields, cntFields, rows, clock, req, served, issued>>

Quiet ==
    /\ issued = MaxRequests
    /\ \A w \in Workers : pc[w] \in {"idle", "done"}
    /\ UNCHANGED vars

Next ==
    \/ \E ih \in Hashes, ep \in Endpoints, sd \in BOOLEAN :
          PutPeer(ih, ep, sd) \/ DelPeer(ih, ep, sd)
    \/ \E ih \in Hashes, ep \in Endpoints : GraduateLeecher(ih, ep)
    \/ CollectGarbage
    \/ Tick
    \/ \E w \in Workers :
          Call(w) \/ GetPeers(w) \/ Finish(w) \/ ScrapeSwarm(w)
    \/ Quiet

Spec == Init /\ [][Next]_vars

(***************************************************************************)
(* Properties                                                              *)
(***************************************************************************)
TypeOK ==
    /\ cfg \in ColumnConfig
    /\ annFields \in [1..3 -> Names]
    /\ cntFields \in [1..2 -> Names]
    /\ rows \subseteq Row
    /\ clock \in 0..MaxTime
    /\ pc \in [Workers -> Stages]
    /\ req \in [Workers -> Request]
    /\ out \in [Workers -> Outcome]
    /\ served \in [Workers -> BOOLEAN]
    /\ issued \in 0..MaxRequests

Done(w, kind) == pc[w] = "done" /\ req[w].kind = kind

\* ScrapeSwarm (countPeers with the ByInfoHashClause) accounts for every row
\* of the swarm it is asked about and for no row of another swarm: the
\* seeders and leechers it returns add up to the rows of that infohash.
ScrapeTotalMatches ==
    \A w \in Workers : Done(w, "scrape") =>
        out[w].seeders + out[w].leechers = out[w].trueSeeders + out[w].trueLeechers

\* ScrapeSwarm reports as seeders the seeder rows of the swarm and as
\* leechers its leecher rows (the spec: Complete counts the seeders).
ScrapeCountsMatch ==
    \A w \in Workers : Done(w, "scrape") =>
        out[w].seeders = out[w].trueSeeders /\ out[w].leechers = out[w].trueLeechers
====
