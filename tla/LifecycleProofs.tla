--------------------------- MODULE LifecycleProofs ---------------------------
(***************************************************************************)
(* Safety of the process lifecycle (src/cmd/chihaya/main.go) for every     *)
(* store kind and every number of signals.                                 *)
(***************************************************************************)
EXTENDS Lifecycle, TLAPS

\* StopsTopDown is not inductive: a Stop in progress must also remember
\* what it has already stopped, and a reload must hold the kept store.
IInv ==
    /\ main \in Phases
    /\ comps \in [Comps -> {"off", "running", "stopped"}]
    /\ kept \in {"store", "nil"}
    /\ StopsTopDown
    /\ main = "stopLogic" => ~Running("frontends")
    /\ main \in {"stopStorage", "waitStorage"} => ~Running("frontends") /\ ~Running("logic")
    /\ main = "restart" => kept = "store"

LEMMA Inductive == Spec => []IInv
<1>1. Init => IInv
  BY DEF Init, IInv, Phases, StopsTopDown, Running, Comps
<1>2. IInv /\ [Next]_vars => IInv'
  <2> SUFFICES ASSUME IInv, [Next]_vars PROVE IInv'
    OBVIOUS
  <2>1. CASE StartOk
    BY <2>1 DEF StartOk, IInv, Phases, StopsTopDown, Running, Comps
  <2>2. CASE StartFails
    BY <2>2 DEF StartFails, IInv, Phases, StopsTopDown, Running, Comps
  <2>3. CASE DeliverSignal
    BY <2>3 DEF DeliverSignal, IInv, Phases, StopsTopDown, Running, Comps
  <2>4. CASE DropSignal
    BY <2>4 DEF DropSignal, IInv, Phases, StopsTopDown, Running, Comps
  <2>5. CASE StopFrontends
    BY <2>5 DEF StopFrontends, IInv, Phases, StopsTopDown, Running, Comps
  <2>6. CASE StopLogic
    BY <2>6 DEF StopLogic, IInv, Phases, StopsTopDown, Running, Comps
  <2>7. CASE StopStorage
    BY <2>7 DEF StopStorage, IInv, Phases, StopsTopDown, Running, Comps
  <2>8. CASE StoreStopDone
    BY <2>8 DEF StoreStopDone, IInv, Phases, StopsTopDown, Running, Comps
  <2>9. CASE WaitStorage
    BY <2>9 DEF WaitStorage, IInv, Phases, StopsTopDown, Running, Comps
  <2>10. CASE Idle \/ UNCHANGED vars
    BY <2>10 DEF Idle, vars, IInv, Phases, StopsTopDown, Running, Comps
  <2> QED
    BY <2>1, <2>2, <2>3, <2>4, <2>5, <2>6, <2>7, <2>8, <2>9, <2>10 DEF Next, MainStep
<1> QED
  BY <1>1, <1>2, PTL DEF Spec

\* Run.Stop stops the stop group, then the logic, then the store, so in no
\* reachable state does a frontend run on a stopped logic or the logic on a
\* stopped store, through any sequence of reloads, failures and shutdowns.
THEOREM StopsTopDownHolds == Spec => []StopsTopDown
  BY Inductive, PTL DEF IInv

\* Only the first Start creates a peer store: a reload always restarts with
\* the store Stop(true) kept, so no reload loses the swarms.
THEOREM StoreKeptHolds == Spec => StoreKeptAcrossReload
<1>1. IInv /\ [Next]_vars => [storeGen' # storeGen => main = "start"]_vars
  <2> SUFFICES ASSUME IInv, [Next]_vars, storeGen' # storeGen
               PROVE  main = "start"
    BY DEF vars
  <2>1. StartOk
    BY DEF Next, MainStep, vars, StartFails, DeliverSignal, DropSignal, StopFrontends,
           StopLogic, StopStorage, StoreStopDone, WaitStorage, Idle
  <2>2. kept = "nil"
    BY <2>1 DEF StartOk
  <2> QED
    BY <2>1, <2>2 DEF StartOk, IInv
<1>2. Spec => [][Next]_vars
  BY PTL DEF Spec
<1> QED
  BY <1>1, <1>2, Inductive, PTL DEF StoreKeptAcrossReload
====
