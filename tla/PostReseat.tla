----------------------------- MODULE PostReseat ------------------------------
(* tools/post_reseat_recover.sh: after a cable has moved, count the shards  *)
(* each node sees, read each node's RoCE v2 GID index, restart the engine.  *)
(* Every probe runs over ssh under a timeout and may come back empty; mounts *)
(* and indices may change between two probes, so a probe may find anything. *)
EXTENDS Naturals

CONSTANTS
  NumNodes,     \* nodes of NODES
  Indices       \* GID indices a node may have

Nodes    == 1 .. NumNodes
NoAnswer == "none"       \* ssh failed, or no GID matches the ring address
NoIp     == "no-ip"      \* what a node without a ring address prints
Mismatch == "MISMATCH"

ASSUME NodesAssumption == NumNodes \in Nat \ {0}
ASSUME IndicesAssumption == Indices \cap {NoAnswer, NoIp, Mismatch} = {}

VARIABLES
  reseat, node,   \* where the script is
  common,         \* its variable `common`, NoAnswer while it is empty
  warned,         \* it has printed a line with "!!"
  seen,           \* history: nodes that had every shard when last counted
  readings,       \* history: node -> the index it was taken to have
  restarted       \* history: no restart was asked for, or it went well

reseatVars == <<reseat, node, common, warned, seen, readings, restarted>>

ReseatTypeOK ==
  /\ reseat \in {"off", "count", "remount", "gid", "restart", "exit0", "exit1"}
  /\ node \in Nodes
  /\ common \in Indices \cup {NoAnswer, NoIp, Mismatch}
  /\ warned \in BOOLEAN
  /\ seen \subseteq Nodes
  /\ readings \in [Nodes -> Indices \cup {NoAnswer, NoIp}]
  /\ restarted \in BOOLEAN

ReseatOff ==
  /\ reseat = "off" /\ node = 1
  /\ common = NoAnswer /\ warned = FALSE
  /\ seen = {} /\ readings = [n \in Nodes |-> NoAnswer]
  /\ restarted = TRUE

-----------------------------------------------------------------------------
(* (A definition whose name ends in _Something is a plausible bug in the   *)
(* definition of that name, kept to see that the properties notice it.)    *)

StartReseat ==
  /\ reseat = "off" /\ reseat' = "count"
  /\ UNCHANGED <<node, common, warned, seen, readings, restarted>>

(* The loop goes on with the next node, or the script with what follows.   *)
NextNode(loop, next) ==
  IF node = NumNodes
  THEN reseat' = next /\ node' = 1
  ELSE reseat' = loop /\ node' = node + 1

CountShards ==
  /\ reseat = "count"
  /\ \/ seen' = seen \cup {node} /\ NextNode("count", "gid")
     \/ reseat' = "remount" /\ UNCHANGED <<node, seen>>
  /\ UNCHANGED <<common, warned, readings, restarted>>

(* Short, or no answer in time: remount, and count once more.              *)
RemountAndCount ==
  /\ reseat = "remount"
  /\ \/ seen' = seen \cup {node} /\ UNCHANGED warned
     \/ warned' = TRUE /\ UNCHANGED seen
  /\ NextNode("count", "gid")
  /\ UNCHANGED <<common, readings, restarted>>

Agreed_LastTwo(idx) ==
  CASE idx = NoAnswer     -> common
    [] common = NoAnswer  -> idx
    [] OTHER              -> IF common = idx THEN common ELSE idx

(* The index all nodes up to this one have; Mismatch is no node's index,   *)
(* so it stays.                                                            *)
Agreed(idx) ==
  CASE idx = NoAnswer     -> common
    [] common = NoAnswer  -> idx
    [] OTHER              -> IF common = idx THEN common ELSE Mismatch

ReadIndex ==
  /\ reseat = "gid"
  /\ \E idx \in Indices \cup {NoAnswer, NoIp} :
       /\ readings' = [readings EXCEPT ![node] = idx]
       /\ common' = Agreed(idx)
       /\ warned' = (warned \/ idx = NoAnswer \/ Agreed(idx) = Mismatch)
  /\ NextNode("gid", "restart")
  /\ UNCHANGED <<seen, restarted>>

(* The restart runs, if asked for, whatever was found; nobody looks at how *)
(* it went.                                                                *)
RestartEngine ==
  /\ reseat = "restart"
  /\ restarted' \in BOOLEAN
  /\ reseat' = IF common = Mismatch THEN "exit1" ELSE "exit0"
  /\ UNCHANGED <<node, common, warned, seen, readings>>

ReseatNext ==
  StartReseat \/ CountShards \/ RemountAndCount \/ ReadIndex \/ RestartEngine

ReseatSpec == ReseatOff /\ [][ReseatNext]_reseatVars

-----------------------------------------------------------------------------
(* Properties.                                                             *)

Differ == \E n, m \in Nodes : NoAnswer \notin {readings[n], readings[m]} /\ readings[n] # readings[m]

(* What status 0 can be relied on for: no two nodes were read to have      *)
(* different indices, however many gave none and whatever agreed again     *)
(* after (lines 79-85); and if no line with "!!" was printed above it,     *)
(* every node had its shards when last counted and all were read alike,    *)
(* be it "no-ip" (lines 46, 77, 83).                                       *)
QuietMeansHealed ==
  reseat = "exit0" =>
    /\ ~Differ
    /\ ~warned => /\ seen = Nodes
                  /\ \E idx \in Indices \cup {NoIp} : \A n \in Nodes : readings[n] = idx

(* "0 = mounts healthy, one common GID index found on all nodes, optional  *)
(* restart OK" (line 22).  The run ReseatStatus shows that it is not.      *)
ZeroMeansHealed ==
  reseat = "exit0" =>
    /\ seen = Nodes
    /\ \E idx \in Indices : \A n \in Nodes : readings[n] = idx
    /\ restarted
=============================================================================
