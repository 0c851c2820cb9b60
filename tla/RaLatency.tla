------------------------------ MODULE RaLatency ------------------------------
(***************************************************************************)
(* The measurement raLatency as a whole: RaExport, with the import half,   *)
(* which is one step there, step by step as in RaImport.  The halves share *)
(* the main goroutine and the WaitGroup, whose counter is the sum of wg    *)
(* (export workers) and importWg (import workers).  There is a pod to ping *)
(* in the import half when there is a subnet.                              *)
(***************************************************************************)
EXTENDS RaExport

CONSTANTS NIfaces,       \* numDummyIfaces
          NAddrs,        \* numAddressOnDummyIface
          ImportWorkers, \* the importWorkerCount goroutines
          StaleCount     \* importRoutesCount as an earlier job or its default left it

ASSUME SizesAssumption == NIfaces \in 1..256 /\ NAddrs \in 1..255 /\ StaleCount \in Nat
ASSUME ImportWorkersAssumption == IsFiniteSet(ImportWorkers)

\* The variables of RaImport; those that RaExport has a namesake of are renamed.
VARIABLES ifaces, addrs, importPc, next, desired, chan, importDone, importWpc, item,
          recorded, importVerified, importWg, created, undeleted

importVars == <<ifaces, addrs, importPc, next, desired, chan, importDone, importWpc, item,
                recorded, importVerified, importWg, created, undeleted>>

Scenario == INSTANCE RaImport WITH
  Workers <- ImportWorkers, havePods <- Subnets # {}, mainPc <- importPc, wpc <- importWpc,
  verified <- importVerified, wg <- importWg

RaInit == Init /\ Scenario!Init

-----------------------------------------------------------------------------
(* The main goroutine, from startImportScenario to StopMeasurement *)

\* The scenario is started, its routes are waited for and its workers told to stop.
RunScenario ==
  /\ mainPc = "import" /\ importPc # "wgWait"
  /\ Scenario!Main
  /\ UNCHANGED vars

\* Stop has come to wg.Wait, or returns the error of startImportScenario.
ScenarioOver ==
  /\ Import
  /\ importPc = IF mainPc' = "failed" THEN "failed" ELSE "wgWait"
  /\ UNCHANGED importVars

\* wg.Wait waits for the workers of both halves; then the interfaces are deleted.
WaitAndDelete ==
  /\ mainPc = "wgWait" /\ wg = 0
  /\ Scenario!Main
  /\ UNCHANGED vars

\* StopMeasurement calls normalizeMetrics.
BeginNormalize ==
  /\ importPc = "stopped"
  /\ WgWait
  /\ UNCHANGED importVars

RaMain ==
  \/ Own /\ UNCHANGED importVars
  \/ RunScenario \/ ScenarioOver \/ WaitAndDelete \/ BeginNormalize

ImportWorker(w) == Scenario!Worker(w) /\ UNCHANGED vars

RaNext ==
  \/ RaMain
  \/ Others /\ UNCHANGED importVars
  \/ \E w \in ImportWorkers : ImportWorker(w)
  \/ Over /\ UNCHANGED importVars

whole == <<vars, importVars>>

\* As in the two halves: goroutines are scheduled, and a subscription whose done channel
\* is closed ends.
RaFairness ==
  /\ WF_whole(RaMain)
  /\ WF_whole(exportDone /\ SubscriptionEnds /\ UNCHANGED importVars)
  /\ \A w \in Workers : WF_whole(Worker(w) /\ UNCHANGED importVars)
  /\ \A w \in ImportWorkers : WF_whole(ImportWorker(w))

RaSpec == RaInit /\ [][RaNext]_whole /\ RaFairness

-----------------------------------------------------------------------------
(* Properties *)

\* What normalizeMetrics finds of the import half is final: the shared wg.Wait waits for
\* import workers, although it does not wait for export workers (WorkersStopped).
ImportResults == <<recorded, importVerified>>
IndexedImportFinal ==
  [][(mainPc \in {"normalize", "done"}) => UNCHANGED ImportResults]_whole

\* The halves take turns: the import half begins once the export workers were told to stop,
\* and is over when Stop normalises.
Turns ==
  /\ mainPc \in {"import", "wgWait", "normalize"} => exportDone
  /\ importPc = "start" => created = {}
  /\ importPc # "start" =>
       exportDone /\ mainPc \in {"import", "wgWait", "normalize", "done", "failed"}
  /\ mainPc \in {"normalize", "done"} => importPc = "stopped"
=============================================================================
