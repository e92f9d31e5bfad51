------------------------- MODULE WorkerStartupProofs -------------------------
(* What a worker's startup leaves behind, for any sizes, ranges and needs. *)
EXTENDS WorkerStartup, TLAPS

USE NeedAssumption

(* The phases up to capture, and those from capture on.                    *)
Early == {"profile", "profileGraphs", "allocate", "compile", "kernels", "warmup", "capture"}
Ready == {"capture", "sampler", "clear", "serving"}

(* The kernel warmup has run what serving will run, capture comes after,   *)
(* and every later run fits in the workspace it left.                      *)
GraphsInv ==
  /\ graphs \in {"none", "valid", "dangling"}
  /\ pc \in Early => graphs = "none"
  /\ settings.v2 /\ pc \in Ready => serveNeed <= workspace
  /\ settings.v2 => graphs # "dangling"

Numbers == serveNeed \in 0 .. MaxNeed /\ workspace \in 0 .. MaxNeed

CleanInv ==
  /\ garbage \subseteq Areas
  /\ pc = "serving" /\ settings.clear => garbage \subseteq OtherCaches

(* What is still to run, or was run, covers what was asked for.            *)
SizesInv ==
  settings.compiles =>
    /\ pc = "compile" => WarmupSizes \subseteq toWarm \cup compiled
    /\ pc \in {"kernels", "warmup"} \cup Ready => WarmupSizes \subseteq compiled
    /\ pc \in Ready \ {"capture"} => Captured \subseteq compiled

Inv == settings \in Settings /\ Numbers /\ GraphsInv /\ CleanInv /\ SizesInv

-----------------------------------------------------------------------------
(* Every action takes the phases in the order of `After`.                  *)
LEMMA Order ==
  /\ After["profile"] = "profileGraphs" /\ After["profileGraphs"] = "allocate"
  /\ After["allocate"] = "compile" /\ After["compile"] = "kernels"
  /\ After["kernels"] = "warmup" /\ After["warmup"] = "capture"
  /\ After["capture"] = "sampler" /\ After["sampler"] = "clear"
  /\ After["clear"] = "serving"
BY DEF After

LEMMA InitInv == Init => Inv
BY DEF Init, Inv, Numbers, GraphsInv, CleanInv, SizesInv, Early, Ready, Areas

LEMMA SettingsKept == Next => UNCHANGED <<settings, serveNeed>>
BY DEF Next, ProfileRun, ProfileRaises, ProfileGraphs, Allocate, Compile, CompileEnds,
   KernelWarmup, WarmupKernels, Capture, SamplerWarmup, ClearState, ClearRaises,
   Serve, Passes, Raises, Setup

LEMMA NumbersInv == Inv /\ Next => Numbers'
<1> SUFFICES ASSUME Inv, Next PROVE workspace' \in 0 .. MaxNeed
  BY SettingsKept DEF Inv, Numbers
<1>1. workspace' = workspace \/ \E need \in 0 .. MaxNeed : Grows(need)
  BY DEF Next, ProfileRun, ProfileRaises, ProfileGraphs, Allocate, Compile, CompileEnds,
     KernelWarmup, WarmupKernels, Capture, SamplerWarmup, ClearState, ClearRaises,
     Serve, Raises, Device, DummyRun, Needs, Inv, Numbers
<1> QED BY <1>1 DEF Grows, Inv, Numbers

LEMMA GraphsKept == Inv /\ Next => GraphsInv'
<1> SUFFICES ASSUME Inv, Next PROVE GraphsInv'
  OBVIOUS
<1> USE Order DEF GraphsInv, Early, Ready
<1>0. UNCHANGED settings /\ UNCHANGED serveNeed
  BY SettingsKept
<1>1. GraphsInv /\ Numbers
  BY DEF Inv
<1>2. ASSUME pc \in Early, pc # "capture", pc # "warmup"
      PROVE  GraphsInv'
  <2>1. graphs' = "none" /\ pc' \in Early \cup {"raised"} /\ pc' # "capture"
    BY <1>1, <1>2 DEF Next, ProfileRun, ProfileRaises, ProfileGraphs, Allocate, Compile,
       CompileEnds, KernelWarmup, WarmupKernels, Capture, SamplerWarmup, ClearState,
       ClearRaises, Serve, Passes, Raises, Device, DummyRun, Frees
  <2> QED BY <2>1
<1>3. CASE WarmupKernels
  <2>1. pc' = "capture" /\ graphs' = "none"
    BY <1>1, <1>3 DEF WarmupKernels, Passes, DummyRun, Frees, Device
  <2>2. settings.v2 => serveNeed <= workspace'
    BY <1>1, <1>3 DEF WarmupKernels, DummyRun, Grows, Numbers
  <2> QED BY <1>0, <2>1, <2>2
<1>4. CASE Capture
  <2>1. pc = "capture" /\ pc' = "sampler" /\ graphs' \in {"none", "valid"}
    BY <1>1, <1>4 DEF Capture, Passes, Device
  <2>2. workspace' = workspace \/ \E need \in 0 .. serveNeed : Grows(need)
    BY <1>4 DEF Capture, Device
  <2>3. serveNeed <= workspace => serveNeed <= workspace'
    BY <1>1, <2>2 DEF Grows, Numbers
  <2> QED BY <1>0, <1>1, <2>1, <2>3
<1>5. CASE SamplerWarmup
  <2>1. pc = "sampler" /\ pc' = "clear"
    BY <1>5 DEF SamplerWarmup, Passes
  <2>2. settings.v2 => UNCHANGED <<workspace, graphs>>
    BY <1>5 DEF SamplerWarmup, Device
  <2>3. graphs' \in {"none", "valid", "dangling"}
    BY <1>1, <1>5 DEF SamplerWarmup, Device, DummyRun, Frees
  <2> QED BY <1>0, <1>1, <2>1, <2>2, <2>3
<1>6. CASE Serve
  <2>1. pc = "serving" /\ pc' = "serving"
    BY <1>6 DEF Serve
  <2>2. PICK need \in 0 .. serveNeed : Grows(need) /\ Frees(need)
    BY <1>6 DEF Serve
  <2>3. settings.v2 => UNCHANGED <<workspace, graphs>>
    BY <1>1, <2>1, <2>2 DEF Grows, Frees, Numbers
  <2>4. graphs' \in {"none", "valid", "dangling"}
    BY <1>1, <2>2 DEF Frees
  <2> QED BY <1>0, <1>1, <2>1, <2>3, <2>4
<1>7. CASE ClearState \/ ClearRaises
  <2>1. UNCHANGED <<workspace, graphs>>
    BY <1>7 DEF ClearState, ClearRaises, Raises, Device
  <2>2. pc = "clear" /\ pc' \in {"serving", "raised"}
    BY <1>7 DEF ClearState, ClearRaises, Raises, Passes
  <2> QED BY <1>0, <1>1, <2>1, <2>2
<1>8. WarmupKernels \/ Capture \/ SamplerWarmup \/ Serve
        \/ (ClearState \/ ClearRaises)
        \/ (pc \in Early /\ pc # "capture" /\ pc # "warmup")
  BY DEF Next, ProfileRun, ProfileRaises, ProfileGraphs, Allocate, Compile, CompileEnds,
     KernelWarmup, Passes, Raises
<1> QED BY <1>2, <1>3, <1>4, <1>5, <1>6, <1>7, <1>8

LEMMA CleanKept == Inv /\ Next => CleanInv'
<1> SUFFICES ASSUME Inv, Next PROVE CleanInv'
  OBVIOUS
<1> USE Order
<1>0. UNCHANGED settings /\ CleanInv
  BY SettingsKept DEF Inv
<1>1. CASE ClearState
  BY <1>0, <1>1 DEF ClearState, Passes, CleanInv, Cleared, Areas, Named
<1>2. CASE Serve
  BY <1>0, <1>2 DEF Serve, Passes, CleanInv
<1>3. CASE ~ClearState /\ ~Serve
  <2>1. garbage' = garbage \/ \E areas \in SUBSET Areas : Scribbles(areas)
    BY <1>3 DEF Next, ProfileRun, ProfileRaises, ProfileGraphs, Allocate, Compile,
       CompileEnds, KernelWarmup, WarmupKernels, Capture, SamplerWarmup, ClearRaises, Passes,
       Raises, Device, DummyRun, Weights
  <2>2. garbage' \subseteq Areas
    BY <1>0, <2>1 DEF Scribbles, CleanInv
  <2>3. pc' # "serving"
    BY <1>3 DEF Next, ProfileRun, ProfileRaises, ProfileGraphs, Allocate, Compile,
       CompileEnds, KernelWarmup, WarmupKernels, Capture, SamplerWarmup, ClearRaises, Passes,
       Raises
  <2> QED BY <2>2, <2>3 DEF CleanInv
<1> QED BY <1>1, <1>2, <1>3

LEMMA SizesKept == Inv /\ Next => SizesInv'
<1> SUFFICES ASSUME Inv, Next, settings.compiles PROVE SizesInv'
  BY SettingsKept DEF SizesInv
<1> USE Order DEF Ready
<1>0. /\ UNCHANGED settings /\ SizesInv /\ settings \in Settings
      /\ WarmupSizes' = WarmupSizes /\ Captured' = Captured
  BY SettingsKept DEF Inv, WarmupSizes, Captured
<1>1. CASE Allocate
  BY <1>0, <1>1 DEF Allocate, Passes, SizesInv
<1>2. CASE Compile
  <2>1. pc' = "compile" /\ toWarm \cup compiled \subseteq toWarm' \cup compiled'
    BY <1>2 DEF Compile
  <2> QED BY <1>0, <1>2, <2>1 DEF Compile, SizesInv
<1>3. CASE CompileEnds
  BY <1>0, <1>3 DEF CompileEnds, Passes, SizesInv
<1>4. CASE Capture
  <2>1. pc = "capture" /\ pc' = "sampler"
    BY <1>4 DEF Capture, Passes
  <2>2. compiled \subseteq compiled' /\ Captured \subseteq compiled'
    BY <1>0, <1>4 DEF Capture, Captured, Settings
  <2> QED BY <1>0, <2>1, <2>2 DEF SizesInv
<1>5. CASE ~Allocate /\ ~Compile /\ ~CompileEnds /\ ~Capture
  <2>1. UNCHANGED compiled
    BY <1>5 DEF Next, ProfileRun, ProfileRaises, ProfileGraphs, KernelWarmup, WarmupKernels,
       SamplerWarmup, ClearState, ClearRaises, Serve, Raises
  <2>2. \/ pc' \in {"profileGraphs", "allocate", "raised"}
        \/ pc = "kernels" /\ pc' = "warmup"
        \/ pc = "warmup" /\ pc' = "capture"
        \/ pc \in Ready \ {"capture"} /\ pc' \in Ready \ {"capture"}
    BY <1>5 DEF Next, ProfileRun, ProfileRaises, ProfileGraphs, KernelWarmup, WarmupKernels,
       SamplerWarmup, ClearState, ClearRaises, Serve, Passes, Raises
  <2> QED BY <1>0, <2>1, <2>2 DEF SizesInv
<1> QED BY <1>1, <1>2, <1>3, <1>4, <1>5

-----------------------------------------------------------------------------
(* The theorems.                                                           *)

(* The invariant holds of every startup.                                   *)
THEOREM InvariantHolds == Spec => []Inv
<1>1. Init => Inv
  BY InitInv
<1>2. Inv /\ [Next]_vars => Inv'
  <2>1. Inv /\ Next => Inv'
    BY SettingsKept, NumbersInv, GraphsKept, CleanKept, SizesKept DEF Inv
  <2>2. Inv /\ UNCHANGED vars => Inv'
    BY DEF vars, Inv, Numbers, GraphsInv, CleanInv, SizesInv, WarmupSizes, Captured
  <2> QED BY <2>1, <2>2
<1> QED BY <1>1, <1>2, PTL DEF Spec

(* With the V2 runner nothing resizes the workspace under captured graphs, *)
(* because the kernel warmup runs before capture (lines 794-800).          *)
THEOREM GraphsStayIntact == Spec => []GraphsIntact
<1>1. Inv => GraphsIntact
  BY DEF Inv, GraphsInv, GraphsIntact
<1> QED BY <1>1, InvariantHolds, PTL

(* With the cleanup asked for, serving starts from clean caches of each    *)
(* kind it names, whatever the dummy runs wrote (lines 898-920).           *)
THEOREM ServingStartsClean == Spec => []ServesCleanState
<1>1. Inv => ServesCleanState
  BY DEF Inv, CleanInv, ServesCleanState
<1> QED BY <1>1, InvariantHolds, PTL

(* What is warmed up and what is captured together hold every size asked   *)
(* for and one size at least of every range (lines 761-787).               *)
LEMMA SizesCover ==
  ASSUME NEW sizes, WarmupSizes \subseteq sizes, Captured \subseteq sizes
  PROVE  /\ CompileSizes \subseteq sizes
         /\ \A range \in CompileRanges : \E size \in sizes : In(size, range)
<1>1. CompileSizes \ Captured \subseteq sizes
  BY DEF WarmupSizes
<1>2. ASSUME NEW range \in CompileRanges PROVE \E size \in sizes : In(size, range)
  <2> DEFINE all == Captured \cup (CompileSizes \ Captured)
  <2>1. CASE \E x \in all : In(x, range)
    BY <1>1, <2>1
  <2>2. CASE ~\E x \in all : In(x, range)
    <3>1. range[2] \in WarmupSizes
      BY <2>2 DEF WarmupSizes
    <3>2. In(range[2], range)
      BY RangesAssumption DEF In
    <3> QED BY <3>1, <3>2
  <2> QED BY <2>1, <2>2
<1> QED BY <1>1, <1>2

(* A compiled model serves only with every size and range compiled.        *)
THEOREM EverythingIsCompiled == Spec => []RangesCompiled
<1>1. Inv => RangesCompiled
  <2> SUFFICES ASSUME Inv, pc = "serving", settings.compiles
               PROVE  /\ CompileSizes \subseteq compiled
                      /\ \A range \in CompileRanges : \E size \in compiled : In(size, range)
    BY DEF RangesCompiled
  <2>1. WarmupSizes \subseteq compiled /\ Captured \subseteq compiled
    BY DEF Inv, SizesInv, Ready
  <2> QED BY <2>1, SizesCover
<1> QED BY <1>1, InvariantHolds, PTL

-----------------------------------------------------------------------------
(* What is run is among what the configuration asks for.                   *)

Ends == {range[2] : range \in CompileRanges}

SizesTyped ==
  /\ toWarm \subseteq CompileSizes \cup Ends
  /\ compiled \subseteq CompileSizes \cup CaptureSizes \cup Ends

PhaseTyped == pc \in Phases

LEMMA SizesTypedKept == SizesTyped /\ Next => SizesTyped'
<1> SUFFICES ASSUME SizesTyped, Next PROVE SizesTyped'
  OBVIOUS
<1>1. WarmupSizes \subseteq CompileSizes \cup Ends
  BY DEF WarmupSizes, Ends
<1>2. toWarm' \subseteq toWarm \cup WarmupSizes
  BY DEF Next, ProfileRun, ProfileRaises, ProfileGraphs, Allocate, Compile, CompileEnds,
     KernelWarmup, WarmupKernels, Capture, SamplerWarmup, ClearState, ClearRaises,
     Serve, Raises
<1>3. compiled' \subseteq compiled \cup toWarm \cup Captured
  BY DEF Next, ProfileRun, ProfileRaises, ProfileGraphs, Allocate, Compile, CompileEnds,
     KernelWarmup, WarmupKernels, Capture, SamplerWarmup, ClearState, ClearRaises,
     Serve, Raises
<1>4. Captured \subseteq CaptureSizes
  BY DEF Captured
<1> QED BY <1>1, <1>2, <1>3, <1>4 DEF SizesTyped

LEMMA PhaseTypedKept == PhaseTyped /\ Next => PhaseTyped'
<1> SUFFICES ASSUME PhaseTyped, Next PROVE PhaseTyped'
  OBVIOUS
<1> QED
  BY DEF Next, ProfileRun, ProfileRaises, ProfileGraphs, Allocate, Compile, CompileEnds,
     KernelWarmup, WarmupKernels, Capture, SamplerWarmup, ClearState, ClearRaises,
     Serve, Raises, Passes, Phases, After, PhaseTyped

(* The types of the variables: nothing is compiled that nobody asked for.  *)
THEOREM TypeCorrect == Spec => []TypeOK
<1>1. Init => SizesTyped /\ PhaseTyped
  BY DEF Init, SizesTyped, PhaseTyped, Phases, After
<1>2. SizesTyped /\ PhaseTyped /\ [Next]_vars => SizesTyped' /\ PhaseTyped'
  BY SizesTypedKept, PhaseTypedKept DEF vars, SizesTyped, PhaseTyped
<1>3. Inv /\ SizesTyped /\ PhaseTyped => TypeOK
  BY DEF Inv, Numbers, GraphsInv, CleanInv, SizesTyped, PhaseTyped, Ends, TypeOK
<1> QED BY <1>1, <1>2, <1>3, InvariantHolds, PTL DEF Spec
=============================================================================
