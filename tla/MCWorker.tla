------------------------------ MODULE MCWorker ------------------------------
(* Three sides of one worker, one of them per behaviour: what the phases   *)
(* of its startup leave behind, how it sizes its cache, and how it sleeps. *)
(* They share no state; the two that are not looked at stay as they are.   *)
(*                                                                         *)
(* The compile ranges: with a captured size, with a size both captured and *)
(* asked for, with a size asked for, with none of them.                    *)
EXTENDS WorkerStartup, MemoryBudget, SleepWake

Asked   == {4, 8}
Graphed == {2, 4}
Ranges  == {<<1, 3>>, <<4, 5>>, <<6, 9>>, <<10, 16>>}

VARIABLE side   \* the side that is looked at

workerVars == <<vars, budgetVars, sleepVars, side>>

WorkerInit ==
  /\ side \in {"startup", "memory", "sleep"}
  /\ Init
  /\ side # "startup" => serveNeed = 0 /\ \A flag \in DOMAIN settings : ~settings[flag]
  /\ BudgetInit
  /\ side # "memory" => others = 0
  /\ SleepInit

WorkerNext ==
  /\ UNCHANGED side
  /\ \/ side = "startup" /\ Next       /\ UNCHANGED <<budgetVars, sleepVars>>
     \/ side = "memory"  /\ BudgetNext /\ UNCHANGED <<vars, sleepVars>>
     \/ side = "sleep"   /\ SleepNext  /\ UNCHANGED <<vars, budgetVars>>

WorkerSpec == WorkerInit /\ [][WorkerNext]_workerVars
=============================================================================
