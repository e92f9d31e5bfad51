------------------------------- MODULE MCTools -------------------------------
(* The tools an operator runs by hand, one of them per behaviour; the      *)
(* others stay off.  mounts.txt lists two patch files with a comment       *)
(* before or between them, or one patch file.                              *)
EXTENDS MCPreflight, AcceptanceGates, StreamClients, PostReseat

ASSUME SomeListAssumption == MountLists # {}

VARIABLE tool   \* the tool that was started

toolVars == <<vars, gatesVars, streamVars, reseatVars, tool>>

(* Preflight's variables while another tool runs.                          *)
PreflightOff ==
  /\ asked = {} /\ have = [r \in Ranks |-> Items]
  /\ lines = [r \in Ranks |-> CHOOSE list \in MountLists : TRUE] /\ newline = [r \in Ranks |-> TRUE]
  /\ rank = NumRanks /\ pc = "exit" /\ input = <<>> /\ fail = FALSE
  /\ sshFailures = 0 /\ unlisted = {}

ToolsInit ==
  /\ tool \in {"preflight", "gates", "clients", "reseat"}
  /\ IF tool = "preflight" THEN Init ELSE PreflightOff
  /\ GatesOff /\ StreamOff /\ ReseatOff

ToolsNext ==
  /\ UNCHANGED tool
  /\ \/ tool = "preflight" /\ Next       /\ UNCHANGED <<gatesVars, streamVars, reseatVars>>
     \/ tool = "gates"     /\ GatesNext  /\ UNCHANGED <<vars, streamVars, reseatVars>>
     \/ tool = "clients"   /\ StreamNext /\ UNCHANGED <<vars, gatesVars, reseatVars>>
     \/ tool = "reseat"    /\ ReseatNext /\ UNCHANGED <<vars, gatesVars, streamVars>>

ToolsSpec == ToolsInit /\ [][ToolsNext]_toolVars

(* The types of every tool's variables.                                    *)
ToolsTypeOK == TypeOK /\ GatesTypeOK /\ StreamTypeOK /\ ReseatTypeOK
=============================================================================
