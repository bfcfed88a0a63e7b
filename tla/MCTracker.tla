------------------------------ MODULE MCTracker ------------------------------
(* Small instances of Tracker for TLC: one V2 infohash h2 whose truncation *)
(* is the V1 infohash h1.                                                   *)
EXTENDS Tracker, TLC

CONSTANTS e1, e2, e3, h1, h2, w1, w2

MCTrunc == h2 :> h1

(* Workers are interchangeable; so are endpoints when no pre-hook peer     *)
(* singles one out.                                                        *)
MCWorkerSymmetry == Permutations({w1, w2})
MCSymmetry == Permutations({w1, w2}) \cup Permutations({e1, e2, e3})
=============================================================================
