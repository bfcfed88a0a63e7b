------------------------- MODULE MCAnnounceInterval -------------------------
(* AnnounceInterval with a second of two ticks: intervals of one second    *)
(* and more (the hypothesis of MinNotAboveIntervalHolds), min intervals    *)
(* below a second, and the rounding of the division both occur.            *)
EXTENDS AnnounceInterval
====
