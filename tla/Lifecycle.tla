----------------------------- MODULE Lifecycle -----------------------------
(***************************************************************************)
(* The process lifecycle of src/cmd/chihaya/main.go: NewRun and Run.Start  *)
(* bring up the stop group (metrics server and frontends), the tracker     *)
(* logic and the peer store; RootRunCmdFunc then waits in a select on the  *)
(* reload (SIGUSR1) and quit (SIGINT, SIGTERM) channels.  A reload is      *)
(* Stop(true) then Start with the kept store; a quit is Stop(false) and a  *)
(* return.  Each component's Stop().Wait() is one step of the main         *)
(* goroutine, except the store's: its Stop hands back a result the store  *)
(* completes from its own goroutine, which the memory store does and the  *)
(* PostgreSQL store (src/unnamed/part_002, Stop) never does.               *)
(*                                                                         *)
(* signal.Notify delivers with a non-blocking send, and both channels are  *)
(* unbuffered: a signal reaches the loop only while it waits in the        *)
(* select, and is dropped otherwise.                                       *)
(***************************************************************************)
EXTENDS Naturals

CONSTANTS
    StoreKind,      \* "memory" or "pg"
    MaxSignals      \* signals the environment sends

ASSUME LifecycleAssumptions ==
    /\ StoreKind \in {"memory", "pg"}
    /\ MaxSignals \in Nat

Comps == {"frontends", "logic", "storage"}
Phases == {"start", "select", "stopFrontends", "stopLogic", "stopStorage",
           "waitStorage", "restart", "exited", "failed"}
Ended == {"exited", "failed"}

VARIABLES
    main,       \* where the main goroutine is
    keep,       \* keepPeerStore of the Stop in progress
    kept,       \* the store Stop returned: "store" or "nil"
    comps,      \* state of each component
    storeGen,   \* how many peer stores were created
    storeStop,  \* the store's Stop result: "none", "pending", "done"
    sigs,       \* signals sent so far
    termSent    \* a SIGINT or SIGTERM was sent

vars == <<main, keep, kept, comps, storeGen, storeStop, sigs, termSent>>

Init ==
    /\ main = "start"
    /\ keep = FALSE
    /\ kept = "nil"
    /\ comps = [c \in Comps |-> "off"]
    /\ storeGen = 0
    /\ storeStop = "none"
    /\ sigs = 0
    /\ termSent = FALSE

(***************************************************************************)
(* Run.Start (lines 44-104): with no store given it creates one; it fails *)
(* when the configuration, the store, the hooks or a frontend cannot be    *)
(* built, and RootRunCmdFunc (or NewRun) returns that error.               *)
(***************************************************************************)
StartOk ==
    /\ main \in {"start", "restart"}
    /\ comps' = [c \in Comps |-> "running"]
    /\ storeGen' = IF kept = "nil" THEN storeGen + 1 ELSE storeGen
    /\ main' = "select"
    /\ UNCHANGED <<keep, kept, storeStop, sigs, termSent>>

StartFails ==
    /\ main \in {"start", "restart"}
    /\ main' = "failed"
    /\ UNCHANGED <<keep, kept, comps, storeGen, storeStop, sigs, termSent>>

(***************************************************************************)
(* Signals (lines 151-154, 156-176).                                       *)
(***************************************************************************)
\* The select receives the signal: SIGUSR1 starts Stop(true), SIGINT or
\* SIGTERM starts Stop(false).
DeliverSignal ==
    /\ sigs < MaxSignals
    /\ main = "select"
    /\ \E quit \in BOOLEAN :
         /\ keep' = ~quit
         /\ termSent' = (termSent \/ quit)
    /\ main' = "stopFrontends"
    /\ sigs' = sigs + 1
    /\ UNCHANGED <<kept, comps, storeGen, storeStop>>

\* No receiver is waiting (a reload or a shutdown is running): the
\* non-blocking send drops the signal.  Signals are only routed to the
\* channels once NewRun has returned.
DropSignal ==
    /\ sigs < MaxSignals
    /\ main \notin {"start", "select"} \cup Ended
    /\ \E quit \in BOOLEAN : termSent' = (termSent \/ quit)
    /\ sigs' = sigs + 1
    /\ UNCHANGED <<main, keep, kept, comps, storeGen, storeStop>>

(***************************************************************************)
(* Run.Stop (lines 116-136).                                               *)
(***************************************************************************)
\* r.sg.Stop().Wait(): the metrics server and frontends; an error returns.
StopFrontendsSkipped ==
    /\ main = "stopFrontends"
    /\ main' = "stopLogic"
    /\ UNCHANGED <<keep, kept, comps, storeGen, storeStop, sigs, termSent>>

StopFrontends ==
    /\ main = "stopFrontends"
    /\ comps' = [comps EXCEPT !["frontends"] = "stopped"]
    /\ \E ok \in BOOLEAN : main' = IF ok THEN "stopLogic" ELSE "failed"
    /\ UNCHANGED <<keep, kept, storeGen, storeStop, sigs, termSent>>

\* r.logic.Stop().Wait(); with keepPeerStore the store is returned.
StopLogicDroppingStore ==
    /\ main = "stopLogic"
    /\ comps' = [comps EXCEPT !["logic"] = "stopped"]
    /\ \E ok \in BOOLEAN :
         /\ main' = IF ~ok THEN "failed" ELSE IF keep THEN "restart" ELSE "stopStorage"
         /\ kept' = "nil"
    /\ UNCHANGED <<keep, storeGen, storeStop, sigs, termSent>>

StopLogic ==
    /\ main = "stopLogic"
    /\ comps' = [comps EXCEPT !["logic"] = "stopped"]
    /\ \E ok \in BOOLEAN :
         /\ main' = IF ~ok THEN "failed" ELSE IF keep THEN "restart" ELSE "stopStorage"
         /\ kept' = IF keep THEN "store" ELSE "nil"
    /\ UNCHANGED <<keep, storeGen, storeStop, sigs, termSent>>

\* r.storage.Stop(): the store begins to stop and hands back its result.
StopStorage ==
    /\ main = "stopStorage"
    /\ comps' = [comps EXCEPT !["storage"] = "stopped"]
    /\ storeStop' = "pending"
    /\ main' = "waitStorage"
    /\ UNCHANGED <<keep, kept, storeGen, sigs, termSent>>

\* The memory store completes the result once its goroutines are done; the
\* PostgreSQL store's Stop closes the pool and returns a result nobody
\* completes (part_002, lines 515-519).
StoreStopDone ==
    /\ storeStop = "pending"
    /\ StoreKind = "memory"
    /\ storeStop' = "done"
    /\ UNCHANGED <<main, keep, kept, comps, storeGen, sigs, termSent>>

\* .Wait() returns; Stop(false) returns and RootRunCmdFunc returns nil, or
\* the store's errors.
WaitStorageLooping ==
    /\ main = "waitStorage"
    /\ storeStop = "done"
    /\ main' = "select"
    /\ UNCHANGED <<keep, kept, comps, storeGen, storeStop, sigs, termSent>>

WaitStorage ==
    /\ main = "waitStorage"
    /\ storeStop = "done"
    /\ \E ok \in BOOLEAN : main' = IF ok THEN "exited" ELSE "failed"
    /\ UNCHANGED <<keep, kept, comps, storeGen, storeStop, sigs, termSent>>

\* The process is serving and the environment sends nothing more, or it
\* has exited.
Idle ==
    /\ \/ main \in Ended
       \/ main = "select" /\ sigs = MaxSignals
    /\ UNCHANGED vars

MainStep == StartOk \/ StartFails \/ StopFrontends \/ StopLogic \/ StopStorage \/ WaitStorage

Next ==
    \/ MainStep
    \/ DeliverSignal \/ DropSignal
    \/ StoreStopDone
    \/ Idle

\* The main goroutine and the store's goroutine are scheduled whenever they
\* can run; nothing obliges the environment to send a signal.
Spec == Init /\ [][Next]_vars /\ WF_vars(MainStep) /\ WF_vars(StoreStopDone)

(***************************************************************************)
(* Properties                                                              *)
(***************************************************************************)
Running(c) == comps[c] = "running"

\* Run.Stop takes the process down from the top: a frontend (which hands
\* requests to the logic) never runs on a stopped logic, and the logic
\* (which reads and writes the store) never on a stopped store, whatever
\* reloads, shutdowns and failures came before.
StopsTopDown ==
    /\ Running("frontends") => Running("logic")
    /\ Running("logic") => Running("storage")

\* A reload keeps the peer store (Stop(true) hands it to Start): a new
\* store is only ever created by the first Start, so no reload loses the
\* swarms.
StoreKeptAcrossReload ==
    [][storeGen' # storeGen => main = "start"]_vars

\* A shutdown the loop has begun (Stop(false)) ends: RootRunCmdFunc
\* returns, nil or an error.
ShutdownCompletes ==
    (main = "stopFrontends" /\ ~keep) ~> (main \in Ended)

\* Sending SIGINT or SIGTERM to the tracker makes it exit.
QuitHonoured ==
    termSent ~> (main \in Ended)
====
