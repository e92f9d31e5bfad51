------------------------------ MODULE BootGate ------------------------------
(* tools/pool_boot_gate.sh: before a boot, wait until every node has its   *)
(* memory back, then evict its page cache.  The nodes are taken one after  *)
(* the other while the others, and the ones already passed, go on: memory  *)
(* of a killed container returns, another process takes some, files are    *)
(* read into the page cache.                                               *)
(*                                                                         *)
(* A node's memory is Total units: used, page cache, and free.  The gate   *)
(* reads MemAvailable, which counts the page cache in; the driver of a     *)
(* unified-memory host needs free pages (lines 6-7 of the script).         *)
EXTENDS Integers, FiniteSets

CONSTANTS
  NumNodes,         \* nodes, 0 is the head and runs in place
  Total,            \* memory of a node
  Need,             \* NEED_GIB
  MaxPolls,         \* MAX_WAIT in steps of the 5 s between two readings
  MaxSshFailures,   \* bound: readings that get no answer
  MaxDisturbances,  \* bound: times memory is taken or cached by others
  MaxHangs          \* bound: nodes on which calls stop returning

ASSUME NodesAssumption == NumNodes \in Nat \ {0}
ASSUME MemoryAssumption == Total \in Nat /\ Need \in 1 .. Total
ASSUME BoundsAssumption ==
  /\ MaxPolls \in Nat /\ MaxSshFailures \in Nat
  /\ MaxDisturbances \in Nat /\ MaxHangs \in Nat

Nodes == 0 .. NumNodes - 1

VARIABLES
  pc,            \* "poll" and "evict" on the current node, then "exit"
  node,          \* h
  polls,         \* t / 5
  rc,            \* the exit status
  used, cache,   \* the memory of each node
  sshFailures, disturbances,
  hung,          \* nodes on which a call does not return any more
  short,         \* history: nodes whose last reading was below Need
  unevicted,     \* history: nodes where the eviction failed
  disturbed      \* history: nodes disturbed since their last reading

script  == <<pc, node, polls, rc>>
memory  == <<used, cache>>
history == <<short, unevicted, disturbed>>
vars    == <<script, memory, sshFailures, disturbances, hung, history>>

Available(n) == Total - used[n]
Free(n)      == Total - used[n] - cache[n]

(* The types of the variables; no node has more memory than it has.        *)
TypeOK ==
  /\ pc \in {"poll", "evict", "exit"}
  /\ node \in Nodes
  /\ polls \in 0 .. MaxPolls
  /\ rc \in {0, 1}
  /\ used \in [Nodes -> 0 .. Total]
  /\ cache \in [Nodes -> 0 .. Total]
  /\ \A n \in Nodes : Free(n) >= 0
  /\ sshFailures \in 0 .. MaxSshFailures
  /\ disturbances \in 0 .. MaxDisturbances
  /\ hung \subseteq Nodes
  /\ short \subseteq Nodes /\ unevicted \subseteq Nodes /\ disturbed \subseteq Nodes

Init ==
  /\ pc = "poll" /\ node = 0 /\ polls = 0 /\ rc = 0
  /\ used \in [Nodes -> 0 .. Total]
  /\ cache \in [Nodes -> 0 .. Total]
  /\ \A n \in Nodes : Free(n) >= 0
  /\ sshFailures = 0 /\ disturbances = 0 /\ hung = {}
  /\ short = {} /\ unevicted = {} /\ disturbed = {}

-----------------------------------------------------------------------------
(* The script.                                                             *)
(* (A definition whose name ends in _Something is a plausible bug in the   *)
(* definition of that name, kept to see that the properties notice it.)    *)

(* Nothing limits the time of a call that got through (ConnectTimeout only *)
(* limits getting through), nor that of a sync.  A reading on the head is  *)
(* one of /proc, which does not block.                                     *)
Returns == node \in hung => node = 0 /\ pc = "poll"

(* One reading of MemAvailable; without an answer it counts as 0.          *)
Reads(m) ==
  /\ Returns /\ UNCHANGED hung
  /\ disturbed' = disturbed \ {node}
  /\ \/ m = Available(node) /\ UNCHANGED sshFailures
     \/ /\ m = 0
        /\ node > 0 /\ sshFailures < MaxSshFailures
        /\ sshFailures' = sshFailures + 1

Enough_OffByOne(m) == m >= Need - 1

Enough(m) == m >= Need

OutOfTime_Strict == polls > MaxPolls

OutOfTime == polls >= MaxPolls

MemoryIsBack ==
  /\ pc = "poll"
  /\ \E m \in 0 .. Total : Reads(m) /\ Enough(m)
  /\ pc' = "evict"
  /\ short' = short \ {node}
  /\ UNCHANGED <<node, polls, rc, memory, disturbances, unevicted>>

Counted_Never == polls' = polls

Counted == polls' = polls + 1

Waits ==
  /\ pc = "poll"
  /\ \E m \in 0 .. Total : Reads(m) /\ ~Enough(m)
  /\ ~OutOfTime
  /\ Counted
  /\ short' = short \cup {node}
  /\ UNCHANGED <<pc, node, rc, memory, disturbances, unevicted>>

(* "continuing anyway": to the eviction, and to an exit status of 1.       *)
GivesUp ==
  /\ pc = "poll"
  /\ \E m \in 0 .. Total : Reads(m) /\ ~Enough(m)
  /\ OutOfTime
  /\ rc' = 1 /\ pc' = "evict"
  /\ short' = short \cup {node}
  /\ UNCHANGED <<node, polls, memory, disturbances, unevicted>>

NextNode_ClearsStatus ==
  /\ polls' = 0
  /\ IF node + 1 \in Nodes
     THEN node' = node + 1 /\ pc' = "poll" /\ rc' = 0
     ELSE pc' = "exit" /\ UNCHANGED <<node, rc>>

NextNode ==
  /\ polls' = 0
  /\ IF node + 1 \in Nodes
     THEN node' = node + 1 /\ pc' = "poll"
     ELSE pc' = "exit" /\ UNCHANGED node
  /\ UNCHANGED rc

Evict ==
  /\ pc = "evict" /\ Returns
  /\ cache' = [cache EXCEPT ![node] = 0]
  /\ NextNode
  /\ UNCHANGED <<used, sshFailures, disturbances, hung, history>>

(* No ssh, or no right to drop caches: nobody looks at the outcome.        *)
EvictFails ==
  /\ pc = "evict" /\ Returns
  /\ unevicted' = unevicted \cup {node}
  /\ NextNode
  /\ UNCHANGED <<memory, sshFailures, disturbances, hung, short, disturbed>>

-----------------------------------------------------------------------------
(* The nodes.                                                              *)

Disturbs(n) ==
  /\ pc # "exit" /\ disturbances < MaxDisturbances
  /\ disturbances' = disturbances + 1
  /\ disturbed' = disturbed \cup {n}
  /\ UNCHANGED <<script, sshFailures, hung, short, unevicted>>

Returned(n) ==
  /\ pc # "exit" /\ used[n] > 0
  /\ used' = [used EXCEPT ![n] = @ - 1]
  /\ UNCHANGED <<script, cache, sshFailures, disturbances, hung, history>>

Taken(n) ==
  /\ Disturbs(n)
  /\ Available(n) > 0
  /\ used' = [used EXCEPT ![n] = @ + 1]
  /\ cache' = IF Free(n) > 0 THEN cache ELSE [cache EXCEPT ![n] = @ - 1]

Cached(n) ==
  /\ Disturbs(n)
  /\ Free(n) > 0
  /\ cache' = [cache EXCEPT ![n] = @ + 1]
  /\ UNCHANGED used

(* The node stalls: a call is accepted there, or a sync begun, and no more.*)
(* (A node the script has left is not called again.)                       *)
Hangs(n) ==
  /\ pc # "exit" /\ n >= node /\ Cardinality(hung) < MaxHangs
  /\ hung' = hung \cup {n}
  /\ UNCHANGED <<script, memory, sshFailures, disturbances, history>>

-----------------------------------------------------------------------------
ScriptNext == MemoryIsBack \/ Waits \/ GivesUp \/ Evict \/ EvictFails

Next ==
  \/ ScriptNext
  \/ \E n \in Nodes : Returned(n) \/ Taken(n) \/ Cached(n) \/ Hangs(n)

Spec == Init /\ [][Next]_vars

(* The script goes on as long as what it calls returns, with an answer or  *)
(* without; that a call returns is not assumed.                            *)
FairSpec == Spec /\ WF_vars(ScriptNext)

-----------------------------------------------------------------------------
(* Properties.                                                             *)

(* "every node really has its memory back" (lines 2-3): an exit status of  *)
(* 0 says that every node has the memory it needs, free of page cache -    *)
(* save the nodes disturbed since they were read, and those where the      *)
(* eviction failed, both of which the script does not notice.              *)
PassMeansFree ==
  pc = "exit" /\ rc = 0 =>
    \A n \in Nodes \ (disturbed \cup unevicted) : Free(n) >= Need

(* The status sums up all nodes: it is 1 exactly if the last reading of    *)
(* some node was short, whatever the nodes after it said (line 39).        *)
StatusSumsUp == pc = "exit" => (rc = 1 <=> short # {})

(* The gate ends, whether nodes stay short for good or never answer for    *)
(* the whole of MAX_WAIT (line 37) - or it waits for a call to a node that *)
(* stalls, or for its sync there, which nothing in it limits.              *)
GateEnds == <>(pc = "exit" \/ ~Returns)

(* "seconds to keep polling before giving up" (line 19), as the run        *)
(* BootGateHangs checks it: the polling of a node comes to its end.        *)
PollingEnds == pc = "poll" ~> pc = "evict"
=============================================================================
