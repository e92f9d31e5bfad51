---------------------------- MODULE WorkerStartup ----------------------------
(* How a worker of patches/gpu_worker_cachefix.py comes up: it profiles    *)
(* memory, allocates the KV cache, compiles and warms up, captures the     *)
(* CUDA graphs, clears what the dummy runs left, and only then serves.     *)
(*                                                                         *)
(* The model runner is external.  What matters of a run of it, dummy or    *)
(* real: it needs some amount of the shared workspace, which is reallocated*)
(* when it is too small, and it may leave garbage (NaNs) in the caches.    *)
(* Captured graphs point into the workspace and into the caches.           *)
EXTENDS Integers, FiniteSets

CONSTANTS
  CompileSizes,    \* compile_sizes of the compilation config
  CaptureSizes,    \* cudagraph_capture_sizes
  CompileRanges,   \* get_compile_ranges(): pairs <<start, end>>, both included
  OtherCaches,     \* caches of the model that the cleanup has no name for
  MaxNeed          \* bound: the most workspace any run needs

ASSUME NeedAssumption == MaxNeed \in Nat
ASSUME SizesAssumption == CompileSizes \subseteq Nat /\ CaptureSizes \subseteq Nat
ASSUME RangesAssumption ==
  CompileRanges \subseteq Nat \X Nat /\ \A range \in CompileRanges : range[1] <= range[2]

Named == {"kv", "ngram", "rows", "window"}   \* what the cleanup knows by name

ASSUME CachesAssumption == OtherCaches \cap Named = {}

Areas == Named \cup OtherCaches              \* what a dummy run may write

(* (vLLM's configuration turns cudagraph_mode off under enforce_eager.)     *)
Settings ==
  {s \in [v2 : BOOLEAN, lastRank : BOOLEAN, compiles : BOOLEAN, graphs : BOOLEAN,
          eager : BOOLEAN, kvBytesGiven : BOOLEAN, skipProfile : BOOLEAN, clear : BOOLEAN] :
     s.eager => ~s.graphs}

VARIABLES
  settings,    \* command line and environment, fixed for the boot
  serveNeed,   \* the workspace that real requests need at most
  pc,
  toWarm,      \* compile_or_warm_up_model: sizes still to run
  workspace,   \* how large the workspace is
  graphs,      \* the state of captured graphs: none, valid, dangling
  garbage,     \* the areas that hold values of dummy runs
  compiled     \* the sizes that were run or captured

vars == <<settings, serveNeed, pc, toWarm, workspace, graphs, garbage, compiled>>

(* The order of the phases.                                                *)
(* (A definition whose name ends in _Something is a plausible bug in the   *)
(* definition of that name, kept to see that the properties notice it.)    *)
After_StockOrder ==
  [profile |-> "profileGraphs", profileGraphs |-> "allocate", allocate |-> "compile",
   compile |-> "kernels", kernels |-> "capture", warmup |-> "sampler",
   capture |-> "warmup", sampler |-> "clear", clear |-> "serving"]

After ==
  [profile |-> "profileGraphs", profileGraphs |-> "allocate", allocate |-> "compile",
   compile |-> "kernels", kernels |-> "warmup", warmup |-> "capture",
   capture |-> "sampler", sampler |-> "clear", clear |-> "serving"]

Phases == DOMAIN After \cup {"serving", "raised"}

(* The types of the variables; no size is run that nobody asked for.       *)
TypeOK ==
  /\ settings \in Settings
  /\ serveNeed \in 0 .. MaxNeed
  /\ pc \in Phases
  /\ toWarm \subseteq CompileSizes \cup {range[2] : range \in CompileRanges}
  /\ workspace \in 0 .. MaxNeed
  /\ graphs \in {"none", "valid", "dangling"}
  /\ garbage \subseteq Areas
  /\ compiled \subseteq CompileSizes \cup CaptureSizes \cup {range[2] : range \in CompileRanges}

Init ==
  /\ settings \in Settings
  /\ serveNeed \in 0 .. MaxNeed
  /\ pc = "profile"
  /\ toWarm = {}
  /\ workspace = 0
  /\ graphs = "none"
  /\ garbage = {}
  /\ compiled = {}

-----------------------------------------------------------------------------
(* The model runner.                                                       *)

(* A run that needs more than there is makes the workspace grow, and frees *)
(* what captured graphs point at.                                          *)
Grows(need) ==
  workspace' = IF need > workspace THEN need ELSE workspace

Frees(need) ==
  graphs' = IF need > workspace /\ graphs # "none" THEN "dangling" ELSE graphs

Scribbles(areas) == \E left \in SUBSET areas : garbage' = garbage \cup left

DummyRun(need, areas) == Grows(need) /\ Frees(need) /\ Scribbles(areas)

Setup == <<settings, serveNeed>>
Device == <<workspace, graphs, garbage>>

Passes(phase) == pc = phase /\ pc' = After[phase] /\ UNCHANGED Setup
Raises(phase) == pc = phase /\ pc' = "raised" /\ UNCHANGED <<Setup, Device, toWarm, compiled>>

-----------------------------------------------------------------------------
(* determine_available_memory: there is no KV cache yet.                   *)

Needs   == 0 .. MaxNeed
Weights == Areas \ {"kv"}

ProfileRun ==
  /\ Passes("profile")
  /\ \E need \in Needs : DummyRun(need, Weights)
  /\ UNCHANGED <<toWarm, compiled>>

(* Somebody else released memory meanwhile, and the snapshots are compared.*)
ProfileRaises == ~settings.kvBytesGiven /\ Raises("profile")

(* The graphs of the estimate are thrown away.                             *)
ProfileGraphs ==
  /\ Passes("profileGraphs")
  /\ IF ~settings.kvBytesGiven /\ settings.graphs /\ ~settings.skipProfile
     THEN \E need \in Needs : DummyRun(need, Weights)
     ELSE UNCHANGED Device
  /\ UNCHANGED <<toWarm, compiled>>

-----------------------------------------------------------------------------
(* initialize_from_config, and what compile_or_warm_up_model starts from:  *)
(* the sizes asked for that capture will not run anyway, and the end of    *)
(* every range that holds no size at all.                                  *)

In(x, range) == range[1] <= x /\ x <= range[2]

Captured == IF settings.graphs THEN CaptureSizes ELSE {}

WarmupSizes_OfConfig ==
  LET asked == CompileSizes \ Captured
      all   == CaptureSizes \cup asked
  IN  asked \cup {range[2] : range \in {r \in CompileRanges : ~\E x \in all : In(x, r)}}

WarmupSizes_PastTheEnd ==
  LET asked == CompileSizes \ Captured
      all   == Captured \cup asked
  IN  asked \cup {range[2] + 1 : range \in {r \in CompileRanges : ~\E x \in all : In(x, r)}}

WarmupSizes ==
  LET asked == CompileSizes \ Captured
      all   == Captured \cup asked
  IN  asked \cup {range[2] : range \in {r \in CompileRanges : ~\E x \in all : In(x, r)}}

Allocate ==
  /\ Passes("allocate")
  /\ toWarm' = IF settings.compiles THEN WarmupSizes ELSE {}
  /\ UNCHANGED <<Device, compiled>>

(* One size after the other, the largest first.                            *)
Compile ==
  /\ pc = "compile"
  /\ \E size \in toWarm :
       /\ \A other \in toWarm : other <= size
       /\ toWarm' = toWarm \ {size}
       /\ compiled' = compiled \cup {size}
  /\ \E need \in Needs : DummyRun(need, Areas)
  /\ UNCHANGED <<pc, Setup>>

CompileEnds ==
  /\ Passes("compile") /\ toWarm = {}
  /\ UNCHANGED <<Device, toWarm, compiled>>

KernelWarmup ==
  /\ Passes("kernels")
  /\ \E need \in Needs : DummyRun(need, Areas)
  /\ UNCHANGED <<toWarm, compiled>>

(* warmup_kernels drives execute_model and sample_tokens as serving will.  *)
WarmupKernels ==
  /\ Passes("warmup")
  /\ IF settings.v2 THEN DummyRun(serveNeed, Areas) ELSE UNCHANGED Device
  /\ UNCHANGED <<toWarm, compiled>>

(* capture_model; without cudagraph mode there is nothing to capture.      *)
Capture ==
  /\ Passes("capture")
  /\ IF settings.eager
     THEN UNCHANGED <<Device, compiled>>
     ELSE /\ \E need \in 0 .. serveNeed : Grows(need)
          /\ graphs' = IF settings.graphs THEN "valid" ELSE "none"
          /\ Scribbles(Areas)
          /\ compiled' = compiled \cup Captured
  /\ UNCHANGED toWarm

(* Only the last rank of a V1 runner warms up its sampler, after capture.  *)
SamplerWarmup ==
  /\ Passes("sampler")
  /\ IF ~settings.v2 /\ settings.lastRank
     THEN \E need \in Needs : DummyRun(need, Areas)
     ELSE UNCHANGED Device
  /\ UNCHANGED <<toWarm, compiled>>

-----------------------------------------------------------------------------
(* DSV41_CLEAR_STATE_AFTER_CAPTURE and real requests.                      *)

Cleared_KvOnly == {"kv"}

Cleared == {"kv", "ngram", "rows", "window"}

ClearState ==
  /\ Passes("clear")
  /\ settings.clear => settings.v2
  /\ garbage' = IF settings.clear THEN garbage \ Cleared ELSE garbage
  /\ UNCHANGED <<workspace, graphs, toWarm, compiled>>

ClearRaises == settings.clear /\ ~settings.v2 /\ Raises("clear")

(* A real request; the garbage is what startup left.                       *)
Serve ==
  /\ pc = "serving"
  /\ \E need \in 0 .. serveNeed : Grows(need) /\ Frees(need)
  /\ UNCHANGED <<pc, Setup, garbage, toWarm, compiled>>

Next ==
  \/ ProfileRun \/ ProfileRaises \/ ProfileGraphs
  \/ Allocate \/ Compile \/ CompileEnds \/ KernelWarmup \/ WarmupKernels
  \/ Capture \/ SamplerWarmup \/ ClearState \/ ClearRaises
  \/ Serve

Spec == Init /\ [][Next]_vars

-----------------------------------------------------------------------------
(* Properties.                                                             *)

(* With the V2 runner no run, dummy or real, resizes the workspace after   *)
(* the graphs that point into it were captured: the patch moved the kernel *)
(* warmup before capture for it (lines 794-796).                           *)
GraphsIntact == settings.v2 => graphs # "dangling"

(* Where the cleanup is asked for, requests see nothing a dummy run left in*)
(* any of the four kinds of cache it names, although the cleanup comes     *)
(* after the last dummy run of every setting; a runner it is not written   *)
(* for never serves (901-919).  A cache it has no name for keeps what is   *)
(* in it: the cleanup goes by names and cannot notice one.                 *)
ServesCleanState == pc = "serving" /\ settings.clear => garbage \subseteq OtherCaches

(* Where the model is compiled, every range and every size asked for has   *)
(* been compiled before serving, by a dummy run or by capture (761-787).   *)
RangesCompiled ==
  pc = "serving" /\ settings.compiles =>
    /\ CompileSizes \subseteq compiled
    /\ \A range \in CompileRanges : \E size \in compiled : In(size, range)
=============================================================================
