--------------------------- MODULE BootGateProofs ---------------------------
(* Theorems about BootGate, for any number of nodes, any amounts of memory *)
(* and any bounds.                                                         *)
EXTENDS BootGate, TLAPS

Past(n) == n < node \/ pc = "exit"

(* What the script left behind stays, unless somebody disturbs it; and the *)
(* node it is about to evict had the memory when it was read.              *)
PastIsFree ==
  rc = 0 => \A n \in Nodes \ (disturbed \cup unevicted) :
              Past(n) => Free(n) >= Need

ReadIsAvailable ==
  pc = "evict" /\ rc = 0 /\ node \notin disturbed => Available(node) >= Need

(* Only nodes that were read can be short, and each of them but the one    *)
(* still polled has set the status.                                        *)
ShortWereRead == \A n \in short : n <= node

StatusSoFar == rc = 1 <=> \E n \in short : n < node \/ pc # "poll"

IInv == TypeOK /\ PastIsFree /\ ReadIsAvailable /\ ShortWereRead /\ StatusSoFar

LEMMA InitIsGood == Init => IInv
<1> SUFFICES ASSUME Init PROVE IInv
  OBVIOUS
<1> USE NodesAssumption, MemoryAssumption, BoundsAssumption DEF Init
<1>1. TypeOK
  BY DEF TypeOK, Nodes
<1>2. PastIsFree /\ ReadIsAvailable
  BY DEF PastIsFree, ReadIsAvailable, Past, Nodes
<1>3. ShortWereRead /\ StatusSoFar
  BY DEF ShortWereRead, StatusSoFar
<1> QED BY <1>1, <1>2, <1>3 DEF IInv

(* The step to the next node, common to both outcomes of an eviction.      *)
LEMMA NextNodeKeepsStatus ==
  ASSUME IInv, pc = "evict", NextNode, UNCHANGED short
  PROVE  /\ ShortWereRead' /\ StatusSoFar'
         /\ pc' \in {"poll", "exit"} /\ node' \in Nodes /\ polls' = 0
         /\ \A n \in Nodes : Past(n)' => n < node \/ n = node
<1>1. CASE node + 1 \in Nodes
  BY <1>1, NodesAssumption
  DEF IInv, TypeOK, NextNode, ShortWereRead, StatusSoFar, Past, Nodes
<1>2. CASE node + 1 \notin Nodes
  BY <1>2, NodesAssumption
  DEF IInv, TypeOK, NextNode, ShortWereRead, StatusSoFar, Past, Nodes
<1> QED BY <1>1, <1>2

LEMMA NextKeepsIt == IInv /\ [Next]_vars => IInv'
<1> SUFFICES ASSUME IInv, [Next]_vars PROVE IInv'
  OBVIOUS
<1> USE NodesAssumption, MemoryAssumption, BoundsAssumption
<1>1. CASE MemoryIsBack
  <2>1. PICK m \in 0 .. Total : Reads(m) /\ m >= Need
    BY <1>1 DEF MemoryIsBack, Enough
  <2>2. m = Available(node) /\ UNCHANGED sshFailures
    BY <2>1 DEF Reads
  <2>3. TypeOK'
    BY <1>1, <2>1, <2>2
    DEF IInv, TypeOK, MemoryIsBack, Reads, memory, Free
  <2>4. PastIsFree' /\ ReadIsAvailable'
    BY <1>1, <2>1, <2>2
    DEF IInv, TypeOK, MemoryIsBack, Reads, memory, Free, Available, PastIsFree,
        ReadIsAvailable, Past, Nodes
  <2>5. ShortWereRead' /\ StatusSoFar'
    BY <1>1 DEF IInv, TypeOK, MemoryIsBack, ShortWereRead, StatusSoFar, Nodes
  <2> QED BY <2>3, <2>4, <2>5 DEF IInv
<1>2. CASE Waits
  <2>1. PICK m \in 0 .. Total : Reads(m)
    BY <1>2 DEF Waits
  <2>2. TypeOK'
    BY <1>2, <2>1
    DEF IInv, TypeOK, Waits, Reads, memory, Free, OutOfTime, Counted
  <2>3. PastIsFree' /\ ReadIsAvailable'
    BY <1>2, <2>1
    DEF IInv, TypeOK, Waits, Reads, memory, Free, PastIsFree, ReadIsAvailable, Past, Nodes
  <2>4. ShortWereRead' /\ StatusSoFar'
    BY <1>2 DEF IInv, TypeOK, Waits, ShortWereRead, StatusSoFar, Nodes
  <2> QED BY <2>2, <2>3, <2>4 DEF IInv
<1>3. CASE GivesUp
  <2>1. PICK m \in 0 .. Total : Reads(m)
    BY <1>3 DEF GivesUp
  <2>2. TypeOK'
    BY <1>3, <2>1 DEF IInv, TypeOK, GivesUp, Reads, memory, Free
  <2>3. PastIsFree' /\ ReadIsAvailable'
    BY <1>3 DEF GivesUp, PastIsFree, ReadIsAvailable
  <2>4. ShortWereRead' /\ StatusSoFar'
    BY <1>3 DEF IInv, TypeOK, GivesUp, ShortWereRead, StatusSoFar, Nodes
  <2> QED BY <2>2, <2>3, <2>4 DEF IInv
<1>4. CASE Evict
  <2>1. /\ ShortWereRead' /\ StatusSoFar'
        /\ pc' \in {"poll", "exit"} /\ node' \in Nodes /\ polls' = 0
        /\ \A n \in Nodes : Past(n)' => n < node \/ n = node
    BY <1>4, NextNodeKeepsStatus DEF Evict, history
  <2>2. TypeOK'
    BY <1>4, <2>1 DEF IInv, TypeOK, Evict, NextNode, history, Free
  <2>3. ReadIsAvailable'
    BY <2>1 DEF ReadIsAvailable
  <2>4. /\ pc = "evict" /\ node \in Nodes /\ UNCHANGED <<rc, disturbed, unevicted>>
        /\ \A n \in Nodes : used[n] \in Nat /\ cache[n] \in Nat
        /\ \A n \in Nodes : used'[n] = used[n] /\ cache'[n] = IF n = node THEN 0 ELSE cache[n]
    BY <1>4 DEF IInv, TypeOK, Evict, NextNode, history
  <2>5. ASSUME NEW n \in Nodes \ (disturbed \cup unevicted), rc = 0, n < node
        PROVE  Free(n)' >= Need
    BY <2>4, <2>5 DEF IInv, PastIsFree, Past, Free, Nodes
  <2>6. ASSUME node \notin disturbed, rc = 0
        PROVE  Total - used'[node] - cache'[node] >= Need
    BY <2>4, <2>6 DEF IInv, ReadIsAvailable, Free, Available
  <2>7. PastIsFree'
    <3> SUFFICES ASSUME rc' = 0, NEW n \in Nodes \ (disturbed' \cup unevicted'), Past(n)'
                 PROVE  Free(n)' >= Need
      BY DEF PastIsFree
    <3>1. CASE n < node
      BY <2>4, <2>5, <3>1
    <3>2. CASE n = node
      BY <2>4, <2>6, <3>2 DEF Free
    <3> QED BY <2>1, <3>1, <3>2
  <2> QED BY <2>1, <2>2, <2>3, <2>7 DEF IInv
<1>5. CASE EvictFails
  <2>1. /\ ShortWereRead' /\ StatusSoFar'
        /\ pc' \in {"poll", "exit"} /\ node' \in Nodes /\ polls' = 0
        /\ \A n \in Nodes : Past(n)' => n < node \/ n = node
    BY <1>5, NextNodeKeepsStatus DEF EvictFails
  <2>2. TypeOK'
    BY <1>5, <2>1 DEF IInv, TypeOK, EvictFails, NextNode, memory, Free
  <2>3. ReadIsAvailable'
    BY <2>1 DEF ReadIsAvailable
  <2>4. PastIsFree'
    BY <1>5, <2>1
    DEF IInv, TypeOK, EvictFails, NextNode, memory, Free, PastIsFree, Past, Nodes
  <2> QED BY <2>1, <2>2, <2>3, <2>4 DEF IInv
<1>6. ASSUME NEW n \in Nodes, Returned(n) PROVE IInv'
  <2>1. TypeOK'
    BY <1>6 DEF IInv, TypeOK, Returned, script, history, Free
  <2>2. PastIsFree' /\ ReadIsAvailable'
    BY <1>6
    DEF IInv, TypeOK, Returned, script, history, Free, Available, PastIsFree,
        ReadIsAvailable, Past
  <2>3. ShortWereRead' /\ StatusSoFar'
    BY <1>6 DEF IInv, Returned, script, history, ShortWereRead, StatusSoFar
  <2> QED BY <2>1, <2>2, <2>3 DEF IInv
<1>7. ASSUME NEW n \in Nodes, Taken(n) \/ Cached(n) PROVE IInv'
  <2>1. TypeOK'
    <3>1. CASE Taken(n)
      BY <3>1 DEF IInv, TypeOK, Taken, Disturbs, script, Free, Available
    <3>2. CASE Cached(n)
      BY <3>2 DEF IInv, TypeOK, Cached, Disturbs, script, Free
    <3> QED BY <1>7, <3>1, <3>2
  <2>2. /\ UNCHANGED <<pc, node, rc, unevicted>>
        /\ disturbed' = disturbed \cup {n}
        /\ \A m \in Nodes \ {n} : used'[m] = used[m] /\ cache'[m] = cache[m]
    BY <1>7 DEF IInv, TypeOK, Taken, Cached, Disturbs, script
  <2>3. PastIsFree' /\ ReadIsAvailable'
    BY <2>2 DEF IInv, TypeOK, Free, Available, PastIsFree, ReadIsAvailable, Past
  <2>4. ShortWereRead' /\ StatusSoFar'
    BY <1>7 DEF IInv, Taken, Cached, Disturbs, script, ShortWereRead, StatusSoFar
  <2> QED BY <2>1, <2>3, <2>4 DEF IInv
<1>8. ASSUME NEW n \in Nodes, Hangs(n) PROVE IInv'
  BY <1>8
  DEF Hangs, script, memory, history, IInv, TypeOK, Free, Available, PastIsFree,
      ReadIsAvailable, ShortWereRead, StatusSoFar, Past
<1>9. CASE UNCHANGED vars
  BY <1>9
  DEF vars, script, memory, history, IInv, TypeOK, Free, Available, PastIsFree,
      ReadIsAvailable, ShortWereRead, StatusSoFar, Past
<1> QED
  BY <1>1, <1>2, <1>3, <1>4, <1>5, <1>6, <1>7, <1>8, <1>9 DEF Next, ScriptNext

THEOREM InvariantHolds == Spec => []IInv
BY InitIsGood, NextKeepsIt, PTL DEF Spec

(* Every variable keeps its type: the script does not poll more often than *)
(* it says, and no node accounts for more memory than it has.              *)
THEOREM TypeCorrect == Spec => []TypeOK
<1>1. IInv => TypeOK
  BY DEF IInv
<1> QED BY <1>1, InvariantHolds, PTL

(* An exit status of 0 means free memory on every node that nobody         *)
(* disturbed since and where the eviction worked.                          *)
THEOREM PassesAreFree == Spec => []PassMeansFree
<1>1. IInv => PassMeansFree
  BY DEF IInv, PassMeansFree, PastIsFree, Past
<1> QED BY <1>1, InvariantHolds, PTL

(* The exit status is 1 exactly if the last reading of some node was short.*)
THEOREM StatusIsTheReadings == Spec => []StatusSumsUp
<1>1. IInv => StatusSumsUp
  BY DEF IInv, StatusSumsUp, StatusSoFar
<1> QED BY <1>1, InvariantHolds, PTL
=============================================================================
