-------------------------- MODULE SleepWakeProofs ---------------------------
(* Theorems about SleepWake, with and without a draft model, for any       *)
(* number of updates and faults.                                           *)
EXTENDS SleepWake, TLAPS

Usable == "weights" \in believed /\ Awake

(* A caller that takes the weights for awake is right, unless it takes all *)
(* for awake (after a sleep that raised).                                  *)
BeliefIsRight == believed # Tags /\ "weights" \in believed => Awake

(* Of a lost buffer there is a copy, and usable weights have lost none.    *)
CopyExists ==
  \A m \in Models : buffers[m] = Lost => saved[m] # None /\ ~Usable

(* Every copy is of the buffers last loaded, and stands for those lost.    *)
CopiesCurrent ==
  ~outdated => \A m \in Models :
    /\ saved[m] \in {None, version[m]}
    /\ buffers[m] \in {Lost, version[m]}

(* Usable weights need no copies: only a sleep that raised leaves some.    *)
CopiesPutBack == Usable /\ ~leftover => \A m \in Models : saved[m] = None

IInv == SleepTypeOK /\ BeliefIsRight /\ CopyExists /\ CopiesCurrent /\ CopiesPutBack

USE DEF Tags, Versions, Lost, None

LEMMA InitIsGood == SleepInit => IInv
<1> SUFFICES ASSUME SleepInit PROVE IInv
  OBVIOUS
<1>1. SleepTypeOK
  <2>1. /\ [m \in Models |-> 0] \in [Models -> Versions]
        /\ [m \in Models |-> 0] \in [Models -> Versions \cup {Lost}]
        /\ [m \in Models |-> None] \in [Models -> Versions \cup {None}]
    BY BoundsAssumption
  <2>2. faults \in 0 .. MaxFaults
    BY BoundsAssumption DEF SleepInit
  <2>3. leftover = FALSE /\ outdated = FALSE
    BY DEF SleepInit
  <2> QED BY <2>1, <2>2, <2>3 DEF SleepInit, SleepTypeOK
<1>2. BeliefIsRight /\ CopyExists /\ CopiesCurrent /\ CopiesPutBack
  BY BoundsAssumption
  DEF SleepInit, BeliefIsRight, CopyExists, CopiesCurrent, CopiesPutBack, Usable, Awake
<1> QED BY <1>1, <1>2 DEF IInv

(* What a copying loop leaves in the dicts when all weights are usable.    *)
LEMMA CopiesAreGood ==
  ASSUME IInv, Usable, NEW copied \in SUBSET Models, Copies(copied)
  PROVE  /\ saved' \in [Models -> Versions \cup {None}]
         /\ \A m \in Models : saved'[m] = buffers[m] \/ saved'[m] = saved[m]
         /\ \A m \in copied : saved'[m] = buffers[m] /\ saved'[m] # None
<1>1. \A m \in Models : buffers[m] \in Versions /\ saved[m] \in Versions \cup {None}
  BY DEF IInv, SleepTypeOK, CopyExists
<1> QED BY <1>1, BoundsAssumption DEF Copies

(* What a restoring loop leaves when it stops after the models `restored`. *)
LEMMA RestoredAreGood ==
  ASSUME IInv, NEW restored \in SUBSET Models, Restored(restored), Awake', version' = version
  PROVE  /\ buffers' \in [Models -> Versions \cup {Lost}]
         /\ saved' \in [Models -> Versions \cup {None}]
         /\ \A m \in Models : buffers'[m] = Lost => saved'[m] # None /\ m \notin restored
         /\ \A m \in restored : saved'[m] = None
         /\ ~outdated => \A m \in Models :
              saved'[m] \in {None, version[m]} /\ buffers'[m] \in {Lost, version[m]}
<1>1. /\ buffers' = [m \in Models |-> IF m \in restored /\ saved[m] # None THEN saved[m] ELSE buffers[m]]
      /\ saved' = [m \in Models |-> IF m \in restored THEN None ELSE saved[m]]
  BY DEF Restored, Copied, Dropped, Awake
<1>2. \A m \in Models :
        /\ buffers[m] \in Versions \cup {Lost} /\ saved[m] \in Versions \cup {None}
        /\ buffers[m] = Lost => saved[m] # None
  BY DEF IInv, SleepTypeOK, CopyExists
<1>3. ~outdated => \A m \in Models :
        saved[m] \in {None, version[m]} /\ buffers[m] \in {Lost, version[m]}
  BY DEF IInv, CopiesCurrent
<1> HIDE DEF IInv
<1> QED BY <1>1, <1>2, <1>3, BoundsAssumption

LEMMA NextKeepsIt == IInv /\ [SleepNext]_sleepVars => IInv'
<1> SUFFICES ASSUME IInv, [SleepNext]_sleepVars PROVE IInv'
  OBVIOUS
<1> USE BoundsAssumption
<1>1. ASSUME NEW level \in {1, 2}, Sleep(level) PROVE IInv'
  <2>1. CASE level = 1
    <3>1. SleepTypeOK'
      BY <1>1, <2>1 DEF IInv, SleepTypeOK, Sleep, Saves, Suspends, Faulty
    <3>2. BeliefIsRight' /\ CopyExists' /\ CopiesCurrent' /\ CopiesPutBack'
      BY <1>1, <2>1
      DEF IInv, Sleep, Saves, Suspends, BeliefIsRight, CopyExists, CopiesCurrent,
          CopiesPutBack, Usable, Awake
    <3> QED BY <3>1, <3>2 DEF IInv
  <2>2. CASE level = 2
    <3>1. Usable /\ Copies(Models)
      BY <1>1, <2>2 DEF Sleep, Saves, Usable
    <3>2. /\ saved' \in [Models -> Versions \cup {None}]
          /\ \A m \in Models : saved'[m] = buffers[m] /\ saved'[m] # None
      BY <3>1, CopiesAreGood
    <3>3. SleepTypeOK'
      BY <1>1, <2>2, <3>2 DEF IInv, SleepTypeOK, Sleep, Suspends, Faulty
    <3>4. BeliefIsRight' /\ CopyExists' /\ CopiesPutBack'
      BY <1>1, <2>2, <3>2
      DEF Sleep, Suspends, BeliefIsRight, CopyExists, CopiesPutBack, Usable, Awake
    <3>5. \A m \in Models : buffers[m] # Lost
      BY <3>1 DEF IInv, CopyExists
    <3>6. CopiesCurrent'
      BY <1>1, <2>2, <3>2, <3>5 DEF IInv, Sleep, Suspends, CopiesCurrent
    <3> QED BY <3>3, <3>4, <3>6 DEF IInv
  <2> QED BY <2>1, <2>2
<1>2. CASE SleepRaises
  <2>1. Usable /\ \E copied \in SUBSET Models : Copies(copied)
    BY <1>2 DEF SleepRaises, Usable, InOrder, Models
  <2>2. /\ saved' \in [Models -> Versions \cup {None}]
        /\ \A m \in Models : saved'[m] = buffers[m] \/ saved'[m] = saved[m]
    BY <2>1, CopiesAreGood
  <2>3. \A m \in Models : buffers[m] # Lost
    BY <2>1 DEF IInv, CopyExists
  <2>4. SleepTypeOK'
    BY <1>2, <2>2 DEF IInv, SleepTypeOK, SleepRaises, Faulty
  <2>5. BeliefIsRight' /\ CopyExists' /\ CopiesPutBack'
    BY <1>2, <2>3 DEF IInv, SleepRaises, BeliefIsRight, CopyExists, CopiesPutBack, Awake
  <2>6. CopiesCurrent'
    BY <1>2, <2>2, <2>3 DEF IInv, SleepRaises, CopiesCurrent
  <2> QED BY <2>4, <2>5, <2>6 DEF IInv
<1>3. ASSUME NEW tags \in SUBSET Tags, WakeUp(tags) PROVE IInv'
  <2>1. CASE "weights" \in tags
    <3>1. Restored(Models) /\ Awake' /\ version' = version /\ UNCHANGED outdated
      BY <1>3, <2>1 DEF WakeUp, WakesWeights, Awake
    <3>2. /\ buffers' \in [Models -> Versions \cup {Lost}]
          /\ saved' \in [Models -> Versions \cup {None}]
          /\ \A m \in Models : buffers'[m] # Lost /\ saved'[m] = None
          /\ ~outdated => \A m \in Models :
               saved'[m] \in {None, version[m]} /\ buffers'[m] \in {Lost, version[m]}
      BY <3>1, RestoredAreGood
    <3>3. SleepTypeOK'
      BY <1>3, <2>1, <3>2 DEF IInv, SleepTypeOK, WakeUp, WakesWeights
    <3>4. BeliefIsRight' /\ CopyExists' /\ CopiesPutBack'
      BY <3>1, <3>2 DEF BeliefIsRight, CopyExists, CopiesPutBack
    <3>5. CopiesCurrent'
      BY <3>1, <3>2 DEF CopiesCurrent
    <3> QED BY <3>3, <3>4, <3>5 DEF IInv
  <2>2. CASE "weights" \notin tags
    <3>1. SleepTypeOK'
      BY <1>3, <2>2 DEF IInv, SleepTypeOK, WakeUp, WakesWeights
    <3>2. BeliefIsRight' /\ CopyExists' /\ CopiesCurrent' /\ CopiesPutBack'
      BY <1>3, <2>2
      DEF IInv, WakeUp, WakesWeights, MayWake, BeliefIsRight, CopyExists,
          CopiesCurrent, CopiesPutBack, Usable, Awake
    <3> QED BY <3>1, <3>2 DEF IInv
  <2> QED BY <2>1, <2>2
<1>4. ASSUME NEW tags \in SUBSET Tags, ResumeRaises(tags) PROVE IInv'
  <2>1. PICK resumed \in SUBSET tags : resident' = resident \cup resumed
    BY <1>4 DEF ResumeRaises
  <2>2. SleepTypeOK'
    BY <1>4, <2>1 DEF IInv, SleepTypeOK, ResumeRaises, Faulty, history
  <2>3. Usable' => Usable
    BY <1>4 DEF IInv, BeliefIsRight, ResumeRaises, MayWake, Usable
  <2>4. BeliefIsRight' /\ CopyExists' /\ CopiesCurrent' /\ CopiesPutBack'
    BY <1>4, <2>1, <2>3
    DEF IInv, ResumeRaises, history, BeliefIsRight, CopyExists, CopiesCurrent,
        CopiesPutBack, Awake
  <2> QED BY <2>2, <2>4 DEF IInv
<1>5. ASSUME NEW tags \in SUBSET Tags, RestoreRaises(tags) PROVE IInv'
  <2>1. PICK first \in SUBSET Models :
          Restored(first) /\ leftover' = (leftover /\ first # Models)
    BY <1>5 DEF RestoreRaises, InOrder, Models
  <2>2. Awake' /\ version' = version /\ UNCHANGED <<believed, outdated>>
    BY <1>5 DEF RestoreRaises, WakesWeights, Awake
  <2>3. /\ buffers' \in [Models -> Versions \cup {Lost}]
        /\ saved' \in [Models -> Versions \cup {None}]
        /\ \A m \in Models : buffers'[m] = Lost => saved'[m] # None /\ m \notin first
        /\ \A m \in first : saved'[m] = None
        /\ ~outdated => \A m \in Models :
             saved'[m] \in {None, version[m]} /\ buffers'[m] \in {Lost, version[m]}
    BY <2>1, <2>2, RestoredAreGood
  <2>4. SleepTypeOK'
    BY <1>5, <2>1, <2>3 DEF IInv, SleepTypeOK, RestoreRaises, Faulty
  <2>5. Usable' => Usable
    BY <1>5, <2>2 DEF IInv, BeliefIsRight, RestoreRaises, MayWake, Usable
  <2>6. \A m \in Models : m \notin first => buffers'[m] = buffers[m] /\ saved'[m] = saved[m]
    BY <2>1 DEF Restored, Copied, Dropped
  <2>7. CopyExists' /\ CopiesPutBack'
    BY <2>1, <2>2, <2>3, <2>5, <2>6 DEF IInv, CopyExists, CopiesPutBack
  <2>8. BeliefIsRight' /\ CopiesCurrent'
    BY <2>2, <2>3 DEF BeliefIsRight, CopiesCurrent
  <2> QED BY <2>4, <2>7, <2>8 DEF IInv
<1>6. ASSUME NEW m \in Models, Update(m) PROVE IInv'
  <2>1. SleepTypeOK'
    BY <1>6 DEF IInv, SleepTypeOK, Update
  <2>2. Usable /\ UNCHANGED <<resident, saved, believed, leftover>>
    BY <1>6 DEF Update, Usable
  <2>3. /\ version' = [version EXCEPT ![m] = @ + 1]
        /\ buffers' = [buffers EXCEPT ![m] = version[m] + 1]
        /\ version[m] \in Nat
    BY <1>6 DEF Update, IInv, SleepTypeOK
  <2>4. BeliefIsRight' /\ CopiesPutBack'
    BY <2>2 DEF IInv, BeliefIsRight, CopiesPutBack, Usable, Awake
  <2>5. CopyExists'
    BY <2>2, <2>3 DEF IInv, SleepTypeOK, CopyExists
  <2>6. CopiesCurrent'
    BY <1>6, <2>2, <2>3 DEF IInv, SleepTypeOK, Update, CopiesCurrent, CopiesPutBack
  <2> QED BY <2>1, <2>4, <2>5, <2>6 DEF IInv
<1>7. ASSUME NEW level \in {1, 2}, SuspendRaises(level) PROVE IInv'
  <2>1. PICK gone \in SUBSET resident :
          /\ resident' = resident \ gone
          /\ IF level = 2 /\ "weights" \in gone
             THEN buffers' = [m \in Models |-> Lost] ELSE UNCHANGED buffers
          /\ leftover' = IF level = 2 THEN "weights" \notin gone ELSE leftover
    BY <1>7 DEF SuspendRaises
  <2>2. believed = Tags /\ UNCHANGED <<believed, version, outdated>> /\ Faulty
    BY <1>7 DEF SuspendRaises
  <2>3. CASE level = 1
    <3>1. UNCHANGED <<buffers, saved, leftover>>
      BY <1>7, <2>1, <2>3 DEF SuspendRaises, Saves
    <3>2. SleepTypeOK'
      BY <2>1, <2>2, <3>1 DEF IInv, SleepTypeOK, Faulty
    <3>3. BeliefIsRight' /\ CopyExists' /\ CopiesCurrent' /\ CopiesPutBack'
      BY <2>1, <2>2, <3>1
      DEF IInv, BeliefIsRight, CopyExists, CopiesCurrent, CopiesPutBack, Usable, Awake
    <3> QED BY <3>2, <3>3 DEF IInv
  <2>4. CASE level = 2
    <3>1. Usable /\ Copies(Models)
      BY <1>7, <2>4 DEF SuspendRaises, Saves, Usable
    <3>2. /\ saved' \in [Models -> Versions \cup {None}]
          /\ \A m \in Models : saved'[m] = buffers[m] /\ saved'[m] # None
      BY <3>1, CopiesAreGood
    <3>3. \A m \in Models : buffers[m] # Lost
      BY <3>1 DEF IInv, CopyExists
    <3>4. \/ buffers' = buffers /\ leftover'
          \/ buffers' = [m \in Models |-> Lost] /\ ~Usable' /\ leftover' = FALSE
      BY <2>1, <2>4 DEF Usable, Awake
    <3>5. SleepTypeOK'
      BY <2>1, <2>2, <2>4, <3>2, <3>4 DEF IInv, SleepTypeOK, Faulty
    <3>6. BeliefIsRight' /\ CopyExists' /\ CopiesPutBack'
      BY <2>2, <3>2, <3>3, <3>4 DEF BeliefIsRight, CopyExists, CopiesPutBack
    <3>7. CopiesCurrent'
      BY <2>2, <3>2, <3>3, <3>4 DEF IInv, CopiesCurrent
    <3> QED BY <3>5, <3>6, <3>7 DEF IInv
  <2> QED BY <2>3, <2>4
<1>8. CASE UNCHANGED sleepVars
  BY <1>8
  DEF sleepVars, history, IInv, SleepTypeOK, BeliefIsRight, CopyExists, CopiesCurrent,
      CopiesPutBack, Usable, Awake
<1> QED BY <1>1, <1>2, <1>3, <1>4, <1>5, <1>6, <1>7, <1>8 DEF SleepNext

THEOREM InvariantHolds == SleepSpec => []IInv
BY InitIsGood, NextKeepsIt, PTL DEF SleepSpec

(* Every variable keeps its type: in particular no copy is ever made of a  *)
(* buffer that is lost.                                                    *)
THEOREM TypeCorrect == SleepSpec => []SleepTypeOK
<1>1. IInv => SleepTypeOK
  BY DEF IInv
<1> QED BY <1>1, InvariantHolds, PTL

(* Weights a caller rightly takes for awake have the buffers last loaded.  *)
THEOREM BuffersAreKept == SleepSpec => []BuffersSurvive
<1>1. IInv => BuffersSurvive
  <2> SUFFICES ASSUME IInv, ~outdated, Usable PROVE buffers = version
    BY DEF BuffersSurvive, Usable
  <2>1. \A m \in Models : buffers[m] = version[m]
    BY DEF IInv, CopyExists, CopiesCurrent
  <2> QED BY <2>1 DEF IInv, SleepTypeOK
<1> QED BY <1>1, InvariantHolds, PTL

(* The copy of a lost buffer is kept, and it is the right one.             *)
THEOREM LostAreSaved == SleepSpec => []LostIsSaved
<1>1. IInv => LostIsSaved
  BY DEF IInv, CopyExists, CopiesCurrent, LostIsSaved
<1> QED BY <1>1, InvariantHolds, PTL
=============================================================================
