------------------------- MODULE MemoryBudgetProofs -------------------------
(* Theorems about MemoryBudget, for any amounts of memory, any behaviour   *)
(* of the rest of the machine and any number of boots.                     *)
EXTENDS MemoryBudget, TLAPS

USE AmountsAssumption, EstimatesAssumption, NoPlanAssumption, ModeAssumption

Late == {"profiled", "allocated", "serving", "oom"}

(* What the worker holds is what the boot has got to.                      *)
OwnIsKnown ==
  /\ phase \in {"off", "snapshot"} => own = 0
  /\ phase = "profiled" => own = Kept
  /\ phase = "allocated" => own = Kept + cache
  /\ phase = "serving" => own = Kept + cache + Graphs

(* The profile never underestimates by more than the others released.      *)
ConsumedEnough ==
  phase \in Late /\ Measures =>
    totalConsumed >= Kept + othersAtProfile - (Total - initFree)

MeasuredCache ==
  phase \in Late /\ Measures =>
    cache <= Requested - totalConsumed - Peak - applied

PlanCounts ==
  plan # NoPlan => plan <= Requested - Kept - planDrift - Peak - Graphs - Buffer

PinnedCache ==
  /\ pin # NoPlan => pin = plan
  /\ phase \in Late /\ ~Measures => cache <= pin

(* All that a boot needs together is more than there was.                  *)
OomIsShortage ==
  phase = "oom" => Kept + cache + Graphs + Peak > Total - others

IInv ==
  /\ BudgetTypeOK
  /\ OwnIsKnown /\ ConsumedEnough /\ MeasuredCache
  /\ PlanCounts /\ PinnedCache
  /\ OomIsShortage

LEMMA InitIsGood == BudgetInit => IInv
BY DEF BudgetInit, IInv, BudgetTypeOK, BudgetPhases, Free, OwnIsKnown, ConsumedEnough, MeasuredCache,
       PlanCounts, PinnedCache, OomIsShortage, Late

LEMMA ProfileKeeps == ASSUME IInv, Profile PROVE IInv'
<1> USE DEF Profile, IInv, BudgetTypeOK, BudgetPhases, Kept, Late, Measures
<1>1. Consumed \in Nat /\ Consumed >= Kept + others - (Total - initFree)
  BY DEF Consumed, FreeAfterProfile, Free, OwnIsKnown
<1>2. applied' \in Nat /\ cache' \in Nat
      /\ cache' <= Requested - Consumed - Peak - applied'
  <2>1. PICK a \in Nat : applied' = a
    OBVIOUS
  <2>2. PICK n \in Nat : n = Consumed
    BY <1>1
  <2>3. PICK c \in 1 .. Requested - (n + Peak) - a : cache' = c
    BY <2>1, <2>2 DEF Sized, NonKvCache
  <2>4. c \in Nat /\ c <= Requested - n - Peak - a
    OBVIOUS
  <2> QED BY <2>1, <2>2, <2>3, <2>4
<1>3. UNCHANGED <<others, initFree, pin, boots, plan, planDrift>>
  BY DEF planning
<1>4. BudgetTypeOK'
  BY <1>1, <1>2, <1>3 DEF Free, OwnIsKnown
<1>5. OwnIsKnown' /\ OomIsShortage'
  BY <1>3 DEF OwnIsKnown, OomIsShortage
<1>6. ConsumedEnough' /\ MeasuredCache'
  BY <1>1, <1>2, <1>3 DEF ConsumedEnough, MeasuredCache
<1>7. PlanCounts' /\ PinnedCache'
  BY <1>3 DEF PlanCounts, PinnedCache
<1> QED BY <1>4, <1>5, <1>6, <1>7

(* A plan counts what the profile consumed, and the graphs on top.         *)
LEMMA CaptureKeeps == ASSUME IInv, CaptureGraphs PROVE IInv'
<1> USE DEF CaptureGraphs, IInv, BudgetTypeOK, BudgetPhases, Kept, Late, Measures
<1>1. UNCHANGED <<others, pin, cache, boots, initFree, totalConsumed, applied, othersAtProfile>>
  BY DEF profile
<1>2. /\ plan' \in Int \cup {NoPlan} /\ planDrift' \in Int
      /\ pin # NoPlan => plan' = plan
      /\ PlanCounts'
  <2>1. CASE pin = NoPlan
    BY <2>1 DEF SavePlan, ToRequestedLimit, PlanCounts, ConsumedEnough
  <2>2. CASE pin # NoPlan
    BY <2>2 DEF SavePlan, planning, PlanCounts
  <2> QED BY <2>1, <2>2
<1>3. BudgetTypeOK'
  BY <1>1, <1>2 DEF Free
<1>4. OwnIsKnown' /\ OomIsShortage' /\ ConsumedEnough' /\ MeasuredCache'
  BY <1>1 DEF OwnIsKnown, OomIsShortage, ConsumedEnough, MeasuredCache
<1>5. PinnedCache'
  BY <1>1, <1>2 DEF PinnedCache
<1> QED BY <1>2, <1>3, <1>4, <1>5

LEMMA OomKeeps == ASSUME IInv, OutOfMemory PROVE IInv'
<1> USE DEF OutOfMemory, IInv, BudgetTypeOK, BudgetPhases, Kept, Late, Measures, profile, planning
<1>1. phase \in {"profiled", "allocated", "serving"}
  BY DEF NeedsMemory, Free
<1>2. Kept + cache + Graphs + Peak > Total - others
  BY <1>1 DEF NeedsMemory, Free, OwnIsKnown
<1>3. BudgetTypeOK' /\ OwnIsKnown' /\ OomIsShortage'
  BY <1>2 DEF Free, OwnIsKnown, OomIsShortage
<1>4. ConsumedEnough' /\ MeasuredCache' /\ PlanCounts' /\ PinnedCache'
  BY <1>1 DEF ConsumedEnough, MeasuredCache, PlanCounts, PinnedCache
<1> QED BY <1>3, <1>4

LEMMA OtherStepsKeep ==
  ASSUME IInv,
         \/ Snapshot \/ ProfilePinned \/ GiveUp \/ AllocateCache \/ Stop \/ OthersMove
         \/ UNCHANGED budgetVars
  PROVE  IInv'
<1> USE DEF IInv, BudgetTypeOK, BudgetPhases, Kept, Late, Measures, Free, profile, planning,
            OwnIsKnown, ConsumedEnough, MeasuredCache, PlanCounts, PinnedCache, OomIsShortage
<1>1. CASE Snapshot
  BY <1>1 DEF Snapshot
<1>2. CASE ProfilePinned
  BY <1>2 DEF ProfilePinned, Sized
<1>3. CASE GiveUp
  BY <1>3 DEF GiveUp
<1>4. CASE AllocateCache
  BY <1>4 DEF AllocateCache
<1>5. CASE Stop
  BY <1>5 DEF Stop
<1>6. CASE OthersMove
  <2>1. PICK m \in 0 .. Total - own : others' = m
    BY <1>6 DEF OthersMove
  <2>2. UNCHANGED <<phase, own, pin, cache, boots, profile, planning>> /\ phase # "oom"
    BY <1>6 DEF OthersMove
  <2>3. own \in Nat /\ Total - own \in Int
    OBVIOUS
  <2>4. m \in Nat /\ Total - m - own >= 0
    BY <2>3
  <2> QED BY <2>1, <2>2, <2>4
<1>7. CASE UNCHANGED budgetVars
  BY <1>7 DEF budgetVars
<1> QED BY <1>1, <1>2, <1>3, <1>4, <1>5, <1>6, <1>7

THEOREM InvariantHolds == BudgetSpec => []IInv
<1>1. IInv /\ [BudgetNext]_budgetVars => IInv'
  BY ProfileKeeps, CaptureKeeps, OomKeeps, OtherStepsKeep DEF BudgetNext
<1> QED BY <1>1, InitIsGood, PTL DEF BudgetSpec

(* Nobody holds memory that is not there, and no profile is negative.      *)
THEOREM TypeCorrect == BudgetSpec => []BudgetTypeOK
BY InvariantHolds, PTL DEF IInv

(* A boot that measured never runs out by its own doing.                   *)
THEOREM MeasuredBootsFit == BudgetSpec => []MeasuredBootFits
<1>1. IInv => MeasuredBootFits
  BY DEF IInv, BudgetTypeOK, Kept, Late, Measures, ConsumedEnough, MeasuredCache,
         OomIsShortage, MeasuredBootFits
<1> QED BY <1>1, InvariantHolds, PTL

(* A boot pinned to a plan runs out only against the drift of that plan.   *)
THEOREM PlannedBootsFit == BudgetSpec => []PlannedBootFits
<1>1. IInv => PlannedBootFits
  BY DEF IInv, BudgetTypeOK, Kept, Late, Measures, PlanCounts, PinnedCache,
         OomIsShortage, PlannedBootFits
<1> QED BY <1>1, InvariantHolds, PTL
=============================================================================
