--------------------------- MODULE PgStoreProofs ---------------------------
(***************************************************************************)
(* What the PostgreSQL store's Config.Validate (src/unnamed/part_002,      *)
(* lines 131-218) does to the column lookups of getPeers and countPeers,   *)
(* for every configuration and every casing the database gives the result *)
(* columns.                                                                *)
(***************************************************************************)
EXTENDS PgStore, FiniteSetTheorems, TLAPS

\* Validate upper-cases the port column name into PeerIDColumn and leaves
\* PortColumn as configured, so no result field can be taken for the port:
\* a field whose upper-cased name is PortColumn also equals PeerIDColumn
\* (ToUpper being idempotent), and the switch of getPeers takes it for the
\* peer ID first.
LEMMA PortNeverResolved ==
    ASSUME NEW raw \in ColumnConfig, NEW fields \in [1..3 -> Names]
    PROVE  LET c == Validate(raw)
           IN  FieldIndex(fields, c.port, {c.peerID, c.address}) = {}
<1> DEFINE c == Validate(raw)
<1>1. c.port = raw.port /\ c.peerID = Upper[raw.port]
  BY DEF Validate, ColumnConfig
<1>2. SUFFICES ASSUME NEW i \in 1..3, Upper[fields[i]] = c.port
               PROVE  Upper[fields[i]] \in {c.peerID, c.address}
  BY DEF FieldIndex
<1>3. fields[i] \in Names
  OBVIOUS
<1>4. Upper[Upper[fields[i]]] = Upper[fields[i]]
  BY <1>3, PgAssumptions
<1>5. Upper[fields[i]] = c.peerID
  BY <1>1, <1>2, <1>4
<1> QED
  BY <1>5

\* The count columns are upper-cased properly: the CountQuery's result,
\* naming the configured seeder and leecher columns in any case, always
\* yields both indices in countPeers.
LEMMA CountResolved ==
    ASSUME NEW raw \in RawConfigs,
           NEW a \in CasesOf(raw.countSeeders), NEW b \in CasesOf(raw.countLeechers)
    PROVE  LET c == Validate(raw)
           IN  /\ FieldIndex(<<a, b>>, c.countSeeders, {}) # {}
               /\ FieldIndex(<<a, b>>, c.countLeechers, {c.countSeeders}) # {}
<1> DEFINE c == Validate(raw)
<1>1. raw \in ColumnConfig
  BY PgAssumptions
<1>2. c.countSeeders = Upper[raw.countSeeders] /\ c.countLeechers = Upper[raw.countLeechers]
  BY <1>1 DEF Validate, ColumnConfig
<1>3. Upper[a] = Upper[raw.countSeeders] /\ Upper[b] = Upper[raw.countLeechers]
  BY DEF CasesOf
<1>4. Upper[raw.countSeeders] # Upper[raw.countLeechers]
  BY PgAssumptions
<1>5. 1 \in FieldIndex(<<a, b>>, c.countSeeders, {})
  BY <1>2, <1>3 DEF FieldIndex
<1>6. 2 \in FieldIndex(<<a, b>>, c.countLeechers, {c.countSeeders})
  BY <1>2, <1>3, <1>4 DEF FieldIndex
<1> QED
  BY <1>5, <1>6

\* The configuration and the result columns are fixed when the store is
\* built: the validated config of some allowed configuration, the announce
\* fields in Names, the count fields naming the configured count columns.
ConfigInv ==
    /\ annFields \in [1..3 -> Names]
    /\ \E raw \in RawConfigs :
         /\ cfg = Validate(raw)
         /\ \E a \in CasesOf(raw.countSeeders), b \in CasesOf(raw.countLeechers) :
              cntFields = <<a, b>>

LEMMA ConfigInvariant == Spec => []ConfigInv
<1>1. Init => ConfigInv
  <2> SUFFICES ASSUME Init PROVE ConfigInv
    OBVIOUS
  <2>1. PICK raw \in RawConfigs :
          /\ cfg = Validate(raw)
          /\ \E a \in CasesOf(raw.peerID), b \in CasesOf(raw.address), c \in CasesOf(raw.port) :
                annFields = <<a, b, c>>
          /\ \E a \in CasesOf(raw.countSeeders), b \in CasesOf(raw.countLeechers) :
                cntFields = <<a, b>>
    BY DEF Init
  <2>2. annFields \in [1..3 -> Names]
    BY <2>1 DEF CasesOf
  <2> QED
    BY <2>1, <2>2 DEF ConfigInv
<1>2. ConfigInv /\ [Next]_vars => ConfigInv'
  <2> SUFFICES ASSUME ConfigInv, [Next]_vars
               PROVE  ConfigInv'
    OBVIOUS
  <2>1. UNCHANGED <<cfg, annFields, cntFields>>
    BY DEF Next, vars, Write, PutPeer, DelPeer, GraduateLeecher, CollectGarbage, Tick,
           Call, GetPeers, Finish, ScrapeSwarm, Quiet
  <2> QED
    BY <2>1 DEF ConfigInv
<1> QED
  BY <1>1, <1>2, PTL DEF Spec

\* Every AnnouncePeers of the PostgreSQL store fails: in every reachable
\* state the Announce query's columns do not resolve, whatever the
\* configuration, so getPeers returns its columns error and never a peer.
THEOREM AnnounceColumnsNeverFound == Spec => []~AnnounceColumnsFound
<1>1. ConfigInv => ~AnnounceColumnsFound
  <2> SUFFICES ASSUME ConfigInv PROVE ~AnnounceColumnsFound
    OBVIOUS
  <2>1. PICK raw \in RawConfigs : cfg = Validate(raw)
    BY DEF ConfigInv
  <2>2. raw \in ColumnConfig
    BY PgAssumptions
  <2>3. FieldIndex(annFields, cfg.port, {cfg.peerID, cfg.address}) = {}
    BY <2>1, <2>2, PortNeverResolved DEF ConfigInv
  <2> QED
    BY <2>3 DEF AnnounceColumnsFound
<1> QED
  BY <1>1, ConfigInvariant, PTL

\* countPeers, by contrast, finds its seeder and leecher columns in every
\* reachable state, so ScrapeSwarm always counts the table.
THEOREM CountColumnsAlwaysFound == Spec => []CountColumnsFound
<1>1. ConfigInv => CountColumnsFound
  <2> SUFFICES ASSUME ConfigInv PROVE CountColumnsFound
    OBVIOUS
  <2>1. PICK raw \in RawConfigs :
          /\ cfg = Validate(raw)
          /\ \E a \in CasesOf(raw.countSeeders), b \in CasesOf(raw.countLeechers) :
               cntFields = <<a, b>>
    BY DEF ConfigInv
  <2>2. PICK a \in CasesOf(raw.countSeeders), b \in CasesOf(raw.countLeechers) :
          cntFields = <<a, b>>
    BY <2>1
  <2> QED
    BY <2>1, <2>2, CountResolved DEF CountColumnsFound
<1> QED
  BY <1>1, ConfigInvariant, PTL

(***************************************************************************)
(* The peer table.  AddQuery is an upsert (putPeer deletes the rows of     *)
(* (infohash, peer) before adding one), so the table holds at most one     *)
(* row per peer and swarm; it is finite, so countPeers' counts are         *)
(* numbers.                                                                *)
(***************************************************************************)
OneRowPerPeer(S) == \A r1, r2 \in S : r1.ih = r2.ih /\ r1.ep = r2.ep => r1 = r2
RowsOk(S) == S \subseteq Row /\ IsFiniteSet(S) /\ OneRowPerPeer(S)

LEMMA FilterOk ==
    ASSUME NEW S, RowsOk(S), NEW T \in SUBSET S
    PROVE  RowsOk(T)
  BY FS_Subset DEF RowsOk, OneRowPerPeer

LEMMA PutOk ==
    ASSUME NEW S, RowsOk(S), NEW ih \in Hashes, NEW ep \in Endpoints,
           NEW sd \in BOOLEAN, NEW t \in 0..MaxTime
    PROVE  RowsOk({r \in S : ~(r.ih = ih /\ r.ep = ep)}
                  \cup {[ih |-> ih, ep |-> ep, seeder |-> sd, ts |-> t]})
<1> DEFINE K == {r \in S : ~(r.ih = ih /\ r.ep = ep)}
           n == [ih |-> ih, ep |-> ep, seeder |-> sd, ts |-> t]
<1>1. RowsOk(K)
  BY FilterOk
<1>2. IsFiniteSet(K \cup {n})
  BY <1>1, FS_Singleton, FS_Union DEF RowsOk
<1>3. n \in Row
  BY DEF Row
<1>4. OneRowPerPeer(K \cup {n})
  BY <1>1 DEF RowsOk, OneRowPerPeer
<1> QED
  BY <1>1, <1>2, <1>3, <1>4 DEF RowsOk

\* With one row per peer, GraduateQuery changes at most one row: the
\* leecher row of (ih, ep), if there is one.
Graduated(S, ih, ep) ==
    {IF r.ih = ih /\ r.ep = ep /\ ~r.seeder THEN [r EXCEPT !.seeder = TRUE] ELSE r : r \in S}

LEMMA GraduateRows ==
    ASSUME NEW S, RowsOk(S), NEW ih, NEW ep
    PROVE  \/ /\ \E g \in S : g.ih = ih /\ g.ep = ep /\ ~g.seeder
              /\ \A g \in S : g.ih = ih /\ g.ep = ep /\ ~g.seeder =>
                    Graduated(S, ih, ep) = (S \ {g}) \cup {[g EXCEPT !.seeder = TRUE]}
           \/ /\ ~\E g \in S : g.ih = ih /\ g.ep = ep /\ ~g.seeder
              /\ Graduated(S, ih, ep) = S
<1>1. CASE \E g \in S : g.ih = ih /\ g.ep = ep /\ ~g.seeder
  <2>1. ASSUME NEW g \in S, g.ih = ih /\ g.ep = ep /\ ~g.seeder
        PROVE  Graduated(S, ih, ep) = (S \ {g}) \cup {[g EXCEPT !.seeder = TRUE]}
    <3>1. \A r \in S : r.ih = ih /\ r.ep = ep => r = g
      BY <2>1 DEF RowsOk, OneRowPerPeer
    <3> QED
      BY <2>1, <3>1 DEF Graduated
  <2> QED
    BY <1>1, <2>1
<1>2. CASE ~\E g \in S : g.ih = ih /\ g.ep = ep /\ ~g.seeder
  BY <1>2 DEF Graduated
<1> QED
  BY <1>1, <1>2

LEMMA GraduateOk ==
    ASSUME NEW S, RowsOk(S), NEW ih, NEW ep
    PROVE  RowsOk(Graduated(S, ih, ep))
<1>1. CASE \E g \in S : g.ih = ih /\ g.ep = ep /\ ~g.seeder
  <2>1. PICK g \in S : g.ih = ih /\ g.ep = ep /\ ~g.seeder
    BY <1>1
  <2>2. Graduated(S, ih, ep) = (S \ {g}) \cup {[g EXCEPT !.seeder = TRUE]}
    BY <2>1, GraduateRows
  <2>3. RowsOk(S \ {g})
    BY FilterOk
  <2>4. [g EXCEPT !.seeder = TRUE] \in Row
    BY <2>1 DEF RowsOk, Row
  <2>5. IsFiniteSet((S \ {g}) \cup {[g EXCEPT !.seeder = TRUE]})
    BY <2>3, FS_Singleton, FS_Union DEF RowsOk
  <2>6. OneRowPerPeer((S \ {g}) \cup {[g EXCEPT !.seeder = TRUE]})
    BY <2>1, <2>4 DEF RowsOk, OneRowPerPeer, Row
  <2> QED
    BY <2>2, <2>3, <2>4, <2>5, <2>6 DEF RowsOk
<1>2. CASE ~\E g \in S : g.ih = ih /\ g.ep = ep /\ ~g.seeder
  BY <1>2, GraduateRows
<1> QED
  BY <1>1, <1>2

TypeInv == TypeOK /\ RowsOk(rows)

LEMMA CountIsNat ==
    ASSUME RowsOk(rows), NEW ih, NEW b
    PROVE  Count(ih, b) \in Nat
  BY FS_Subset, FS_CardinalityType DEF RowsOk, Count

\* Every write keeps the table well formed and takes one of the
\* MaxRequests.
LEMMA WriteStep ==
    ASSUME TypeInv, NEW N, RowsOk(N), Write(N)
    PROVE  TypeInv'
  BY PgAssumptions DEF Write, TypeInv, TypeOK, RowsOk

LEMMA TypeInvariant == Spec => []TypeInv
<1>1. Init => TypeInv
  <2> SUFFICES ASSUME Init PROVE TypeInv
    OBVIOUS
  <2>1. PICK raw \in RawConfigs :
          /\ cfg = Validate(raw)
          /\ \E a \in CasesOf(raw.peerID), b \in CasesOf(raw.address), c \in CasesOf(raw.port) :
                annFields = <<a, b, c>>
          /\ \E a \in CasesOf(raw.countSeeders), b \in CasesOf(raw.countLeechers) :
                cntFields = <<a, b>>
    BY DEF Init
  <2>2. cfg \in ColumnConfig
    BY <2>1, PgAssumptions DEF Validate, ColumnConfig
  <2>3. annFields \in [1..3 -> Names] /\ cntFields \in [1..2 -> Names]
    BY <2>1 DEF CasesOf
  <2>4. req \in [Workers -> Request]
    BY PgAssumptions DEF Init, Request
  <2>5. out \in [Workers -> Outcome]
    BY DEF Init, NoOutcome, Outcome, Errors
  <2>6. RowsOk(rows)
    BY FS_EmptySet DEF Init, RowsOk, OneRowPerPeer
  <2> QED
    BY <2>2, <2>3, <2>4, <2>5, <2>6, PgAssumptions DEF Init, TypeInv, TypeOK, Stages
<1>2. TypeInv /\ [Next]_vars => TypeInv'
  <2> SUFFICES ASSUME TypeInv, [Next]_vars PROVE TypeInv'
    OBVIOUS
  <2>1. ASSUME NEW ih \in Hashes, NEW ep \in Endpoints, NEW sd \in BOOLEAN,
               PutPeer(ih, ep, sd)
        PROVE  TypeInv'
    BY <2>1, PutOk, WriteStep DEF PutPeer, TypeInv, TypeOK
  <2>2. ASSUME NEW ih \in Hashes, NEW ep \in Endpoints, NEW sd \in BOOLEAN,
               DelPeer(ih, ep, sd)
        PROVE  TypeInv'
    BY <2>2, FilterOk, WriteStep DEF DelPeer, TypeInv
  <2>3. ASSUME NEW ih \in Hashes, NEW ep \in Endpoints, GraduateLeecher(ih, ep)
        PROVE  TypeInv'
    BY <2>3, GraduateOk, WriteStep DEF GraduateLeecher, Graduated, TypeInv
  <2>4. CASE CollectGarbage
    BY <2>4, FilterOk, WriteStep DEF CollectGarbage, TypeInv
  <2>5. CASE Tick
    BY <2>5, PgAssumptions DEF Tick, TypeInv, TypeOK
  <2>6. ASSUME NEW w \in Workers, Call(w) PROVE TypeInv'
    BY <2>6, PgAssumptions DEF Call, TypeInv, TypeOK, NoOutcome, Outcome, Errors, Stages, RowsOk, OneRowPerPeer
  <2>7. ASSUME NEW w \in Workers, GetPeers(w) PROVE TypeInv'
    <3>1. out[w] \in Outcome /\ <<>> \in Seq(Peer)
      BY DEF TypeInv, TypeOK
    <3>2. out' = [out EXCEPT ![w] = [out[w] EXCEPT !.peers = <<>>, !.err = "columns"]]
      BY <2>7 DEF GetPeers, TypeInv, TypeOK
    <3>3. [out[w] EXCEPT !.peers = <<>>, !.err = "columns"] \in Outcome
      BY <3>1 DEF Outcome, Errors
    <3> QED
      BY <2>7, <3>2, <3>3 DEF GetPeers, TypeInv, TypeOK, Stages, RowsOk, OneRowPerPeer
  <2>8. ASSUME NEW w \in Workers, Finish(w) PROVE TypeInv'
    <3>1. out[w] \in Outcome
      BY DEF TypeInv, TypeOK
    <3>2. AnnounceOutcome(out[w]) \in Outcome
      BY <3>1 DEF AnnounceOutcome, Outcome, Errors
    <3> QED
      BY <2>8, <3>2 DEF Finish, TypeInv, TypeOK, Stages, RowsOk, OneRowPerPeer
  <2>9. ASSUME NEW w \in Workers, ScrapeSwarm(w) PROVE TypeInv'
    <3>1. /\ Count(req[w].ih, TRUE) \in Nat /\ Count(req[w].ih, FALSE) \in Nat
          /\ CountPeers(req[w].ih).seeders \in Nat
          /\ CountPeers(req[w].ih).leechers \in Nat
      BY CountIsNat DEF TypeInv, CountPeers
    <3> DEFINE c == CountPeers(req[w].ih)
               o == [out[w] EXCEPT !.leechers = c.seeders, !.seeders = c.leechers,
                                   !.trueLeechers = Count(req[w].ih, FALSE),
                                   !.trueSeeders = Count(req[w].ih, TRUE)]
    <3>2. out' = [out EXCEPT ![w] = o]
      BY <2>9 DEF ScrapeSwarm, TypeInv, TypeOK
    <3>3. o \in Outcome
      BY <3>1 DEF TypeInv, TypeOK, Outcome
    <3> QED
      BY <2>9, <3>2, <3>3 DEF ScrapeSwarm, TypeInv, TypeOK, Stages, RowsOk, OneRowPerPeer
  <2>10. CASE Quiet \/ UNCHANGED vars
    BY <2>10 DEF Quiet, vars, TypeInv, TypeOK, RowsOk, OneRowPerPeer
  <2> QED
    BY <2>1, <2>2, <2>3, <2>4, <2>5, <2>6, <2>7, <2>8, <2>9, <2>10 DEF Next
<1> QED
  BY <1>1, <1>2, PTL DEF Spec

\* Every reachable state of the PostgreSQL store model is well typed, for
\* every set of peers, infohashes, workers and column names: in
\* particular the counts ScrapeSwarm returns are numbers.
THEOREM TypeCorrect == Spec => []TypeOK
  BY TypeInvariant, PTL DEF TypeInv

\* Every worker's outcome keeps its two pairs of counts equal in total:
\* Call resets them, the announce steps do not touch them, and ScrapeSwarm
\* sets them from one reading of the table.
SumInv ==
    \A w \in Workers :
        out[w].seeders + out[w].leechers = out[w].trueSeeders + out[w].trueLeechers

LEMMA SumStep ==
    ASSUME TypeInv, CountColumnsFound, SumInv, [Next]_vars
    PROVE  SumInv'
<1> SUFFICES ASSUME NEW v \in Workers
             PROVE  out'[v].seeders + out'[v].leechers
                       = out'[v].trueSeeders + out'[v].trueLeechers
  BY DEF SumInv
<1>1. CASE UNCHANGED out
  BY <1>1 DEF SumInv
<1>2. ASSUME NEW w \in Workers, Call(w) PROVE out'[v] = out[v] \/ out'[v] = NoOutcome
  BY <1>2 DEF Call, TypeInv, TypeOK
<1>3. ASSUME NEW w \in Workers, GetPeers(w)
      PROVE  out'[v] = out[v] \/ out'[v] = [out[v] EXCEPT !.peers = <<>>, !.err = "columns"]
  BY <1>3 DEF GetPeers, TypeInv, TypeOK
<1>4. ASSUME NEW w \in Workers, Finish(w)
      PROVE  out'[v] = out[v] \/ out'[v] = AnnounceOutcome(out[v])
  BY <1>4 DEF Finish, TypeInv, TypeOK
<1>5. ASSUME NEW w \in Workers, ScrapeSwarm(w)
      PROVE  out'[v].seeders + out'[v].leechers = out'[v].trueSeeders + out'[v].trueLeechers
  <2>1. CASE v = w
    <3>1. Count(req[w].ih, TRUE) \in Nat /\ Count(req[w].ih, FALSE) \in Nat
      BY CountIsNat DEF TypeInv
    <3>2. CountPeers(req[w].ih) = [leechers |-> Count(req[w].ih, FALSE),
                                   seeders |-> Count(req[w].ih, TRUE)]
      BY DEF CountPeers
    <3>3. out[w] \in Outcome
      BY DEF TypeInv, TypeOK
    <3> DEFINE o == [out[w] EXCEPT !.leechers = Count(req[w].ih, TRUE),
                                   !.seeders = Count(req[w].ih, FALSE),
                                   !.trueLeechers = Count(req[w].ih, FALSE),
                                   !.trueSeeders = Count(req[w].ih, TRUE)]
    <3>4. out'[w] = o
      BY <1>5, <3>2 DEF ScrapeSwarm, TypeInv, TypeOK
    <3>5. /\ o.seeders = Count(req[w].ih, FALSE) /\ o.leechers = Count(req[w].ih, TRUE)
          /\ o.trueSeeders = Count(req[w].ih, TRUE) /\ o.trueLeechers = Count(req[w].ih, FALSE)
      BY <3>3 DEF Outcome, o
    <3>6. \A a, b \in Nat : a + b = b + a
      OBVIOUS
    <3>7. o.seeders + o.leechers = o.trueSeeders + o.trueLeechers
      BY <3>1, <3>5, <3>6, Zenon
    <3> QED
      BY <2>1, <3>4, <3>7
  <2>2. CASE v # w
    BY <1>5, <2>2 DEF ScrapeSwarm, TypeInv, TypeOK, SumInv
  <2> QED
    BY <2>1, <2>2
<1>6. out[v] \in Outcome
  BY DEF TypeInv, TypeOK
<1>7. out[v].seeders + out[v].leechers = out[v].trueSeeders + out[v].trueLeechers
  BY DEF SumInv
<1>8. \A o \in Outcome :
        /\ [o EXCEPT !.peers = <<>>, !.err = "columns"].seeders = o.seeders
        /\ [o EXCEPT !.peers = <<>>, !.err = "columns"].leechers = o.leechers
        /\ [o EXCEPT !.peers = <<>>, !.err = "columns"].trueSeeders = o.trueSeeders
        /\ [o EXCEPT !.peers = <<>>, !.err = "columns"].trueLeechers = o.trueLeechers
        /\ AnnounceOutcome(o).seeders = o.seeders
        /\ AnnounceOutcome(o).leechers = o.leechers
        /\ AnnounceOutcome(o).trueSeeders = o.trueSeeders
        /\ AnnounceOutcome(o).trueLeechers = o.trueLeechers
  BY DEF Outcome, AnnounceOutcome
<1> QED
  <2>1. NoOutcome.seeders + NoOutcome.leechers = NoOutcome.trueSeeders + NoOutcome.trueLeechers
    BY DEF NoOutcome
  <2>2. CASE \E w \in Workers : Call(w)
    BY <2>2, <1>2, <1>7, <2>1
  <2>3. CASE \E w \in Workers : GetPeers(w)
    BY <2>3, <1>3, <1>6, <1>7, <1>8
  <2>4. CASE \E w \in Workers : Finish(w)
    BY <2>4, <1>4, <1>6, <1>7, <1>8
  <2>5. CASE \E w \in Workers : ScrapeSwarm(w)
    BY <2>5, <1>5
  <2>6. CASE ~\E w \in Workers : Call(w) \/ GetPeers(w) \/ Finish(w) \/ ScrapeSwarm(w)
    <3>1. UNCHANGED out
      BY <2>6 DEF Next, vars, Write, PutPeer, DelPeer, GraduateLeecher, CollectGarbage,
                  Tick, Quiet
    <3> QED
      BY <3>1, <1>1
  <2> QED
    BY <2>2, <2>3, <2>4, <2>5, <2>6

\* ScrapeSwarm of the PostgreSQL store accounts for every row of the swarm
\* asked about and for no other, however writes, GC rounds and other
\* calls interleave: its seeders and leechers add up to the rows of that
\* infohash (which one it calls which is another matter: pg_scrape_swap).
THEOREM ScrapeTotalMatchesHolds == Spec => []ScrapeTotalMatches
<1>1. Init => SumInv
  BY DEF Init, SumInv, NoOutcome
<1>2. SumInv => ScrapeTotalMatches
  BY DEF SumInv, ScrapeTotalMatches
<1>3. TypeInv /\ CountColumnsFound /\ SumInv /\ [Next]_vars => SumInv'
  BY SumStep
<1> QED
  BY <1>1, <1>2, <1>3, TypeInvariant, CountColumnsAlwaysFound, PTL DEF Spec
====
