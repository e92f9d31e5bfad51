------------------------- MODULE WeightUpdateProofs -------------------------
(* What weight updates keep for any number of workers, calls and faults.   *)
EXTENDS WeightUpdate, TLAPS

USE SizesAssumption, BoundsAssumption, FlagsAssumption

-----------------------------------------------------------------------------
(* TypeOK, with the bounds that depend on a worker's place spelled out.    *)
Typed ==
  /\ calls \in Seq(Calls)
  /\ handled \in [Workers -> Nat]
  /\ \A w \in Workers : handled[w] <= Len(calls)
  /\ refused \in [Workers -> SUBSET Nat]
  /\ \A w \in Workers : \A c \in refused[w] : 1 <= c /\ c <= handled[w]
  /\ active \in [Workers -> BOOLEAN]
  /\ isDraft \in [Workers -> BOOLEAN]
  /\ target \in [Workers -> Models]
  /\ Len(calls) <= MaxCalls

LoadsTyped ==
  /\ loads \in [1 .. MaxCalls -> [Workers -> [model : Models \cup {"none"}, part : Int]]]
  /\ faults \in 0 .. MaxFaults

LoraTyped == loraStale \in [Workers -> BOOLEAN] /\ aborted \in [Workers -> BOOLEAN]

LEMMA TypedInit == Init => Typed /\ LoadsTyped /\ LoraTyped
BY DEF Init, Typed, LoadsTyped, LoraTyped, Models, Nothing

LEMMA CallTyped == ASSUME Typed, NEW call \in Calls, Call(call) PROVE Typed'
BY DEF Typed, Call, session

(* What a worker's step leaves of the other workers, and of the past.      *)
LEMMA TakesTyped ==
  ASSUME Typed, NEW w \in Workers, WorkerNext(w)
  PROVE  Typed'
<1> USE DEF Typed, Takes, Next_, session
<1>1. CASE StartAccepted(w)
  BY <1>1 DEF StartAccepted, Returns, WantsDraft, Models
<1>2. CASE StartRefused(w)
  BY <1>2 DEF StartRefused, Raises
<1>3. CASE StartFails(w)
  BY <1>3 DEF StartFails, Raises, ResetTarget, Models
<1>4. CASE UpdateLoads(w)
  BY <1>4 DEF UpdateLoads, Returns
<1>5. CASE UpdateRefused(w)
  BY <1>5 DEF UpdateRefused, Raises
<1>6. CASE UpdateFails(w)
  BY <1>6 DEF UpdateFails, Raises, ResetTarget, Models
<1>7. CASE FinishAccepted(w)
  BY <1>7 DEF FinishAccepted, Returns, ResetTarget, Models
<1>8. CASE FinishRefused(w)
  BY <1>8 DEF FinishRefused, Raises
<1>9. CASE FinishRaises(w)
  BY <1>9 DEF FinishRaises, Raises, ResetTarget, Models
<1> QED BY <1>1, <1>2, <1>3, <1>4, <1>5, <1>6, <1>7, <1>8, <1>9 DEF WorkerNext

LEMMA PartIsInt == ASSUME NEW w \in Workers PROVE Part(w) \in Int
<1>1. w[1] \in Int /\ w[2] \in Int /\ WorldSize \in Int
  BY DEF Workers
<1>2. PartOf(w) \in Int
  BY <1>1 DEF PartOf
<1> QED BY <1>2 DEF Part

LEMMA LoadsTypedStep ==
  ASSUME Typed, LoadsTyped, NEW w \in Workers, WorkerNext(w)
  PROVE  LoadsTyped'
<1> DEFINE Table == [1 .. MaxCalls -> [Workers -> [model : Models \cup {"none"}, part : Int]]]
<1>1. ASSUME Loads(w) PROVE loads' \in Table
  <2> DEFINE one == [model |-> target[w], part |-> Part(w)]
             c   == Next_(w)
  <2>1. one \in [model : Models \cup {"none"}, part : Int]
    BY PartIsInt DEF Typed
  <2>2. loads' = [loads EXCEPT ![c][w] = one]
    BY <1>1 DEF Loads
  <2> HIDE DEF one, c
  <2> QED BY <2>1, <2>2 DEF LoadsTyped
<1>2. loads' = loads \/ Loads(w)
  BY DEF WorkerNext, StartAccepted, StartRefused, StartFails, UpdateLoads,
         UpdateRefused, UpdateFails, FinishAccepted, FinishRaises, FinishRefused
<1>3. faults' = faults \/ EngineFails
  BY DEF WorkerNext, StartAccepted, StartRefused, StartFails, UpdateLoads,
         UpdateRefused, UpdateFails, FinishAccepted, FinishRaises, FinishRefused
<1>4. faults' \in 0 .. MaxFaults
  BY <1>3 DEF LoadsTyped, EngineFails
<1> QED BY <1>1, <1>2, <1>4 DEF LoadsTyped

LEMMA LoraTypedStep ==
  ASSUME LoraTyped, NEW w \in Workers, WorkerNext(w)
  PROVE  LoraTyped'
<1>1. \/ loraStale' = loraStale
      \/ loraStale' = [loraStale EXCEPT ![w] = FALSE]
      \/ loraStale' = [loraStale EXCEPT ![w] = @ \/ target[w] = "main"]
  BY DEF WorkerNext, StartAccepted, StartRefused, StartFails, UpdateLoads, Loads,
         UpdateRefused, UpdateFails, FinishAccepted, FinishRaises, FinishRefused, lora
<1>2. loraStale' \in [Workers -> BOOLEAN]
  BY <1>1 DEF LoraTyped
<1>3. \/ aborted' = aborted
      \/ aborted' = [aborted EXCEPT ![w] = FALSE]
      \/ aborted' = [aborted EXCEPT ![w] = @ \/ loraStale'[w]]
      \/ aborted' = [aborted EXCEPT ![w] = @ \/ loraStale[w]]
  BY DEF WorkerNext, StartAccepted, StartRefused, StartFails, UpdateLoads, Loads,
         UpdateRefused, UpdateFails, FinishAccepted, FinishRaises, FinishRefused, lora
<1>4. aborted' \in [Workers -> BOOLEAN]
  BY <1>2, <1>3 DEF LoraTyped
<1> QED BY <1>2, <1>4 DEF LoraTyped

AllTyped == Typed /\ LoadsTyped /\ LoraTyped

LEMMA TypedStep == AllTyped /\ [Next]_vars => AllTyped'
<1> SUFFICES ASSUME AllTyped, [Next]_vars PROVE AllTyped'
  OBVIOUS
<1>1. CASE UNCHANGED vars
  <2>1. Typed'
    BY <1>1 DEF AllTyped, Typed, vars, session
  <2>2. LoadsTyped' /\ LoraTyped'
    BY <1>1 DEF AllTyped, LoadsTyped, LoraTyped, vars, lora
  <2> QED BY <2>1, <2>2 DEF AllTyped
<1>2. ASSUME NEW call \in Calls, Call(call) PROVE AllTyped'
  <2>1. LoadsTyped' /\ LoraTyped'
    BY <1>2 DEF AllTyped, LoadsTyped, LoraTyped, Call, lora
  <2> QED BY <1>2, <2>1, CallTyped DEF AllTyped
<1> QED BY <1>1, <1>2, TakesTyped, LoadsTypedStep, LoraTypedStep DEF Next, AllTyped

LEMMA AllTypedIsTypeOK == AllTyped => TypeOK
<1> SUFFICES ASSUME AllTyped PROVE TypeOK
  OBVIOUS
<1>1. handled \in [Workers -> 0 .. Len(calls)]
  BY DEF AllTyped, Typed
<1>2. refused \in [Workers -> SUBSET (1 .. Len(calls))]
  BY DEF AllTyped, Typed
<1> QED BY <1>1, <1>2 DEF AllTyped, Typed, LoadsTyped, LoraTyped, TypeOK

(* No call leaves a worker with a value of the wrong type, and a worker    *)
(* has refused only calls it has executed.                                 *)
THEOREM TypeCorrect == Spec => []TypeOK
<1>1. Init => AllTyped
  BY TypedInit DEF AllTyped
<1> QED BY <1>1, TypedStep, AllTypedIsTypeOK, PTL DEF Spec

-----------------------------------------------------------------------------
(* The target follows the session.                                         *)

LEMMA TargetStep ==
  ASSUME Typed, TargetFollowsSession, [Next]_vars
  PROVE  TargetFollowsSession'
<1> USE DEF Typed, TargetFollowsSession
<1>1. ASSUME NEW call \in Calls, Call(call) PROVE TargetFollowsSession'
  BY <1>1 DEF Call, session
<1>2. ASSUME NEW w \in Workers, WorkerNext(w) PROVE TargetFollowsSession'
  <2>1. CASE StartAccepted(w)
    BY <2>1 DEF StartAccepted, MayStart, WantsDraft
  <2>2. CASE StartFails(w)
    BY <2>2 DEF StartFails, MayStart, ResetTarget
  <2>3. CASE UpdateFails(w)
    BY <2>3 DEF UpdateFails, ResetTarget
  <2>4. CASE FinishAccepted(w) \/ FinishRaises(w)
    BY <2>4 DEF FinishAccepted, FinishRaises, ResetTarget
  <2>5. CASE \/ StartRefused(w) \/ UpdateLoads(w) \/ UpdateRefused(w) \/ FinishRefused(w)
    BY <2>5 DEF StartRefused, UpdateLoads, UpdateRefused, FinishRefused, session
  <2> QED BY <1>2, <2>1, <2>2, <2>3, <2>4, <2>5 DEF WorkerNext
<1>3. CASE UNCHANGED vars
  BY <1>3 DEF vars, session
<1> QED BY <1>1, <1>2, <1>3 DEF Next

(* No failure leaves the engine aimed at the draft outside a draft session,*)
(* or at the base model inside one.                                        *)
THEOREM TargetIsTheSessions == Spec => []TargetFollowsSession
<1>1. Init => AllTyped /\ TargetFollowsSession
  BY TypedInit DEF AllTyped, Init, TargetFollowsSession
<1>2. AllTyped /\ TargetFollowsSession /\ [Next]_vars => AllTyped' /\ TargetFollowsSession'
  BY TypedStep, TargetStep DEF AllTyped
<1> QED BY <1>1, <1>2, PTL DEF Spec
-----------------------------------------------------------------------------
(* Chunks go where the session's start call selected.                      *)

(* Every open session was opened by a call and matches what it selected;   *)
(* nothing is loaded ahead of the calls.                                   *)
SessionGoverned ==
  \A w \in Workers : active[w] =>
    \E s \in 1 .. handled[w] :
      /\ Governs(w, s, handled[w] + 1)
      /\ Selects(calls[s].op) = IF isDraft[w] THEN "draft" ELSE "main"

FutureEmpty ==
  \A w \in Workers : \A c \in 1 .. MaxCalls : c > handled[w] => loads[c][w] = Nothing

ChunksInv ==
  AllTyped /\ TargetFollowsSession /\ SessionGoverned /\ FutureEmpty /\ ChunksGoWhereSelected

(* A step of w, or of the trainer, rewrites nothing that was executed.     *)
PastKept ==
  /\ Len(calls') >= Len(calls) /\ \A t \in 1 .. Len(calls) : calls'[t] = calls[t]
  /\ \A v \in Workers : \A t \in 1 .. handled[v] : t \in refused'[v] <=> t \in refused[v]

LEMMA CallKeepsPast == ASSUME Typed, NEW call \in Calls, Call(call) PROVE PastKept
BY DEF Typed, Call, PastKept

LEMMA WorkerKeepsPast ==
  ASSUME Typed, NEW w \in Workers, WorkerNext(w)
  PROVE  PastKept
<1>1. calls' = calls
  BY DEF WorkerNext, StartAccepted, StartRefused, StartFails, UpdateLoads,
         UpdateRefused, UpdateFails, FinishAccepted, FinishRaises, FinishRefused, Takes
<1>2. refused' = refused \/ refused' = [refused EXCEPT ![w] = @ \cup {handled[w] + 1}]
  BY DEF WorkerNext, StartAccepted, StartRefused, StartFails, UpdateLoads, UpdateRefused,
         UpdateFails, FinishAccepted, FinishRaises, FinishRefused, Returns, Raises, Next_
<1> QED BY <1>1, <1>2 DEF Typed, PastKept

LEMMA GovernsKept ==
  ASSUME Typed, PastKept, NEW v \in Workers, NEW c \in 1 .. handled[v] + 1,
         NEW s \in 1 .. c - 1, Governs(v, s, c)
  PROVE  Governs(v, s, c)' /\ calls'[s] = calls[s]
<1>1. handled[v] \in Nat /\ handled[v] <= Len(calls) /\ Len(calls) \in Nat
  BY DEF Typed
<1>2. \A t \in 1 .. c - 1 : calls'[t] = calls[t] /\ (t \in refused'[v] <=> t \in refused[v])
  BY <1>1 DEF PastKept
<1> QED BY <1>2 DEF Governs

(* What was loaded before this step stays governed.                        *)
LEMMA OldChunksKept ==
  ASSUME ChunksInv, PastKept, NEW v \in Workers, NEW c \in 1 .. handled[v],
         loads'[c][v] = loads[c][v], loads'[c][v] # Nothing
  PROVE  \E s \in 1 .. c - 1 :
           Governs(v, s, c)' /\ loads'[c][v].model = Selects(calls'[s].op)
<1>1. PICK s \in 1 .. c - 1 : Governs(v, s, c) /\ loads[c][v].model = Selects(calls[s].op)
  BY DEF ChunksInv, ChunksGoWhereSelected
<1>2. c \in 1 .. handled[v] + 1 /\ Typed
  BY DEF ChunksInv, AllTyped, Typed
<1>3. Governs(v, s, c)' /\ calls'[s] = calls[s]
  BY <1>1, <1>2, GovernsKept
<1> QED BY <1>1, <1>3

(* What a worker's step does to its own clock, and leaves of the others.   *)
LEMMA OthersKept ==
  ASSUME Typed, NEW w \in Workers, WorkerNext(w)
  PROVE  /\ handled' = [handled EXCEPT ![w] = handled[w] + 1]
         /\ handled[w] < Len(calls) /\ calls' = calls
         /\ \A v \in Workers \ {w} : active'[v] = active[v] /\ isDraft'[v] = isDraft[v]
BY DEF Typed, WorkerNext, StartAccepted, StartRefused, StartFails, UpdateLoads,
       UpdateRefused, UpdateFails, FinishAccepted, FinishRaises, FinishRefused, Takes,
       Next_, session

LEMMA SessionStep ==
  ASSUME ChunksInv, NEW w \in Workers, WorkerNext(w)
  PROVE  SessionGoverned'
<1>0. Typed /\ PastKept
  BY WorkerKeepsPast DEF ChunksInv, AllTyped
<1>a. /\ handled' = [handled EXCEPT ![w] = handled[w] + 1]
      /\ handled[w] < Len(calls) /\ calls' = calls
      /\ \A v \in Workers \ {w} : active'[v] = active[v] /\ isDraft'[v] = isDraft[v]
  BY <1>0, OthersKept
<1>b. /\ handled \in [Workers -> Nat] /\ refused \in [Workers -> SUBSET Nat]
      /\ \A v \in Workers : \A c \in refused[v] : c <= handled[v]
      /\ active \in [Workers -> BOOLEAN] /\ isDraft \in [Workers -> BOOLEAN]
  BY <1>0 DEF Typed
<1> DEFINE n == handled[w] + 1
           Matches(v, s) == Selects(calls[s].op) = IF isDraft[v] THEN "draft" ELSE "main"
<1> SUFFICES ASSUME NEW v \in Workers, active'[v]
             PROVE  \E s \in 1 .. handled'[v] :
                      Governs(v, s, handled[v] + 1)' /\ Matches(v, s)'
  BY DEF SessionGoverned
<1>1. ASSUME active[v]
      PROVE  \E s \in 1 .. handled[v] :
               /\ calls'[s] = calls[s] /\ Matches(v, s)
               /\ calls'[s].op \in {"start", "start_draft"} /\ s \notin refused'[v]
               /\ \A t \in s + 1 .. handled[v] :
                    \/ calls'[t].op = "update" /\ t \notin refused'[v]
                    \/ calls'[t].op \in {"start", "start_draft", "finish"} /\ t \in refused'[v]
  <2>1. PICK s \in 1 .. handled[v] : Governs(v, s, handled[v] + 1) /\ Matches(v, s)
    BY <1>1 DEF ChunksInv, SessionGoverned
  <2>2. \A t \in 1 .. handled[v] : t \in refused'[v] <=> t \in refused[v]
    BY <1>0 DEF PastKept
  <2> QED BY <1>a, <1>b, <2>1, <2>2 DEF Governs
<1>2. CASE v # w
  <2>1. active[v] /\ isDraft'[v] = isDraft[v] /\ handled'[v] = handled[v]
    BY <1>2, <1>a, <1>b
  <2> QED BY <1>1, <1>b, <2>1 DEF Governs
<1>3. CASE v = w
  <2>0. handled'[v] = n
    BY <1>3, <1>a, <1>b
  <2>1. CASE StartAccepted(w)
    <3>0. PICK m \in Nat : m = n
      BY <1>b
    <3>1. calls'[m].op \in {"start", "start_draft"} /\ m \notin refused'[v]
      BY <1>3, <1>a, <1>b, <2>1, <3>0 DEF StartAccepted, Takes, Returns, Next_
    <3>2. isDraft' = [isDraft EXCEPT ![w] = (calls[m].op = "start_draft")]
      BY <2>1, <3>0 DEF StartAccepted, WantsDraft, Next_
    <3>3. isDraft'[v] = (calls'[m].op = "start_draft")
      BY <1>3, <1>a, <1>b, <3>2
    <3>4. Selects(calls'[m].op) = IF isDraft'[v] THEN "draft" ELSE "main"
      BY <3>3 DEF Selects
    <3>5. Governs(v, m, handled[v] + 1)'
      BY <1>b, <1>3, <2>0, <3>0, <3>1 DEF Governs
    <3> QED BY <1>b, <1>3, <2>0, <3>0, <3>4, <3>5
  <2>2. ASSUME active[v], isDraft'[v] = isDraft[v],
               \/ calls'[n].op = "update" /\ n \notin refused'[v]
               \/ calls'[n].op \in {"start", "start_draft", "finish"} /\ n \in refused'[v]
        PROVE  \E s \in 1 .. handled'[v] :
                 Governs(v, s, handled[v] + 1)' /\ Matches(v, s)'
    <3>1. PICK s \in 1 .. handled[v] :
            /\ calls'[s] = calls[s] /\ Matches(v, s)
            /\ calls'[s].op \in {"start", "start_draft"} /\ s \notin refused'[v]
            /\ \A t \in s + 1 .. handled[v] :
                 \/ calls'[t].op = "update" /\ t \notin refused'[v]
                 \/ calls'[t].op \in {"start", "start_draft", "finish"} /\ t \in refused'[v]
      BY <1>1, <2>2
    <3>2. \A t \in s + 1 .. n :
            \/ calls'[t].op = "update" /\ t \notin refused'[v]
            \/ calls'[t].op \in {"start", "start_draft", "finish"} /\ t \in refused'[v]
      BY <1>b, <1>3, <2>2, <3>1
    <3>3. Governs(v, s, handled[v] + 1)'
      BY <1>b, <2>0, <3>1, <3>2 DEF Governs
    <3> QED BY <1>b, <1>3, <2>0, <2>2, <3>1, <3>3
  <2>3. CASE StartRefused(w)
    BY <1>3, <1>b, <2>2, <2>3, <1>a DEF StartRefused, Takes, Raises, Next_, session
  <2>4. CASE UpdateLoads(w)
    BY <1>3, <1>b, <2>2, <2>4, <1>a DEF UpdateLoads, Takes, Returns, Next_, MayUpdate, session
  <2>5. CASE FinishRefused(w)
    BY <1>3, <1>b, <2>2, <2>5, <1>a DEF FinishRefused, Takes, Raises, Next_, session
  <2>6. CASE \/ StartFails(w) \/ UpdateRefused(w) \/ UpdateFails(w)
             \/ FinishAccepted(w) \/ FinishRaises(w)
    BY <1>3, <1>b, <2>6
    DEF StartFails, MayStart, UpdateRefused, MayUpdate, UpdateFails, FinishAccepted,
        FinishRaises, session
  <2> QED BY <2>1, <2>3, <2>4, <2>5, <2>6 DEF WorkerNext
<1> QED BY <1>2, <1>3

(* A worker's step writes at most its own entry, of the call it executes,  *)
(* and only in an open session, with the engine's target.                  *)
LEMMA LoadsWritten ==
  ASSUME Typed, LoadsTyped, NEW w \in Workers, WorkerNext(w),
         NEW v \in Workers, NEW c \in 1 .. MaxCalls, loads'[c][v] # loads[c][v]
  PROVE  /\ v = w /\ c = handled[w] + 1 /\ active[w]
         /\ loads'[c][v].model = target[w]
<1> DEFINE n == handled[w] + 1
           one == [model |-> target[w], part |-> Part(w)]
<1>1. loads' = [loads EXCEPT ![n][w] = one] /\ active[w]
  BY DEF WorkerNext, StartAccepted, StartRefused, StartFails, UpdateLoads, UpdateRefused,
         UpdateFails, FinishAccepted, FinishRaises, FinishRefused, Loads, Next_, MayUpdate
<1>2. one.model = target[w]
  OBVIOUS
<1> HIDE DEF one, n
<1>3. v = w /\ c = n
  BY <1>1 DEF LoadsTyped
<1>4. loads'[c][v] = one
  BY <1>1, <1>3 DEF LoadsTyped
<1> QED BY <1>1, <1>2, <1>3, <1>4 DEF n

LEMMA FutureStep ==
  ASSUME ChunksInv, NEW w \in Workers, WorkerNext(w)
  PROVE  FutureEmpty'
<1>1. Typed /\ LoadsTyped
  BY DEF ChunksInv, AllTyped
<1> SUFFICES ASSUME NEW v \in Workers, NEW c \in 1 .. MaxCalls, c > handled'[v]
             PROVE  loads'[c][v] = Nothing
  BY DEF FutureEmpty, Nothing
<1>2. handled \in [Workers -> Nat] /\ handled' = [handled EXCEPT ![w] = handled[w] + 1]
  BY <1>1, OthersKept DEF Typed
<1>3. c > handled[v]
  BY <1>2
<1>4. loads[c][v] = Nothing
  BY <1>3 DEF ChunksInv, FutureEmpty
<1>5. ~(v = w /\ c = handled[w] + 1)
  BY <1>2
<1> QED BY <1>1, <1>4, <1>5, LoadsWritten

LEMMA ChunksStep ==
  ASSUME ChunksInv, NEW w \in Workers, WorkerNext(w)
  PROVE  ChunksGoWhereSelected'
<1>1. Typed /\ LoadsTyped /\ PastKept
  BY WorkerKeepsPast DEF ChunksInv, AllTyped
<1>2. /\ handled \in [Workers -> Nat] /\ handled' = [handled EXCEPT ![w] = handled[w] + 1]
      /\ handled[w] < Len(calls) /\ Len(calls) <= MaxCalls /\ Len(calls) \in Nat
      /\ \A v \in Workers : handled[v] <= Len(calls)
  BY <1>1, OthersKept DEF Typed
<1> SUFFICES ASSUME NEW v \in Workers, NEW c \in 1 .. handled'[v], loads'[c][v] # Nothing
             PROVE  \E s \in 1 .. c - 1 :
                      Governs(v, s, c)' /\ loads'[c][v].model = Selects(calls'[s].op)
  BY DEF ChunksGoWhereSelected, Nothing
<1>3. c \in 1 .. MaxCalls /\ c <= handled[v] + 1
  BY <1>2
<1>4. CASE loads'[c][v] = loads[c][v]
  <2>1. c \in 1 .. handled[v]
    BY <1>2, <1>3, <1>4 DEF ChunksInv, FutureEmpty
  <2> QED BY <1>1, <1>4, <2>1, OldChunksKept
<1>5. CASE loads'[c][v] # loads[c][v]
  <2>1. v = w /\ c = handled[w] + 1 /\ active[w] /\ loads'[c][v].model = target[w]
    BY <1>1, <1>3, <1>5, LoadsWritten
  <2>2. PICK s \in 1 .. handled[w] :
          /\ Governs(w, s, handled[w] + 1)
          /\ Selects(calls[s].op) = IF isDraft[w] THEN "draft" ELSE "main"
    BY <2>1 DEF ChunksInv, SessionGoverned
  <2>3. target[w] = Selects(calls[s].op)
    BY <2>1, <2>2 DEF ChunksInv, TargetFollowsSession
  <2>4. s \in 1 .. c - 1 /\ c \in 1 .. handled[v] + 1
    BY <1>2, <2>1
  <2>5. Governs(v, s, c)' /\ calls'[s] = calls[s]
    BY <1>1, <2>1, <2>2, <2>4, GovernsKept
  <2> QED BY <2>1, <2>3, <2>4, <2>5
<1> QED BY <1>4, <1>5

LEMMA ChunksInvStep == ChunksInv /\ [Next]_vars => ChunksInv'
<1> SUFFICES ASSUME ChunksInv, [Next]_vars PROVE ChunksInv'
  OBVIOUS
<1>1. AllTyped' /\ TargetFollowsSession'
  BY TypedStep, TargetStep DEF ChunksInv, AllTyped
<1>2. ASSUME NEW w \in Workers, WorkerNext(w)
      PROVE  SessionGoverned' /\ FutureEmpty' /\ ChunksGoWhereSelected'
  BY <1>2, SessionStep, FutureStep, ChunksStep
<1>3. ASSUME \/ \E call \in Calls : Call(call)
             \/ UNCHANGED vars
      PROVE  SessionGoverned' /\ FutureEmpty' /\ ChunksGoWhereSelected'
  <2>1. Typed /\ PastKept
    BY <1>3, CallKeepsPast DEF ChunksInv, AllTyped, Typed, PastKept, vars
  <2>2. UNCHANGED <<handled, active, isDraft, loads>>
    BY <1>3 DEF Call, vars, session
  <2>3. handled \in [Workers -> Nat]
    BY <2>1 DEF Typed
  <2>4. SessionGoverned'
    <3> SUFFICES ASSUME NEW v \in Workers, active[v]
                 PROVE  \E s \in 1 .. handled[v] :
                          /\ Governs(v, s, handled[v] + 1)'
                          /\ Selects(calls'[s].op) = IF isDraft[v] THEN "draft" ELSE "main"
      BY <2>2 DEF SessionGoverned
    <3>1. PICK s \in 1 .. handled[v] :
            /\ Governs(v, s, handled[v] + 1)
            /\ Selects(calls[s].op) = IF isDraft[v] THEN "draft" ELSE "main"
      BY DEF ChunksInv, SessionGoverned
    <3>2. PICK c \in 1 .. handled[v] + 1 : c = handled[v] + 1
      BY <2>3
    <3>3. Governs(v, s, c)' /\ calls'[s] = calls[s]
      BY <2>1, <2>3, <3>1, <3>2, GovernsKept
    <3> QED BY <2>2, <3>1, <3>2, <3>3
  <2>5. FutureEmpty'
    BY <2>2 DEF ChunksInv, FutureEmpty, Nothing
  <2>6. ChunksGoWhereSelected'
    BY <2>1, <2>2, OldChunksKept DEF ChunksGoWhereSelected, Nothing
  <2> QED BY <2>4, <2>5, <2>6
<1> QED BY <1>1, <1>2, <1>3 DEF Next, ChunksInv

LEMMA ChunksInit == Init => ChunksInv
<1> SUFFICES ASSUME Init PROVE ChunksInv
  OBVIOUS
<1>1. AllTyped /\ TargetFollowsSession
  BY TypedInit DEF AllTyped, Init, TargetFollowsSession
<1>2. SessionGoverned /\ FutureEmpty /\ ChunksGoWhereSelected
  BY DEF Init, SessionGoverned, FutureEmpty, ChunksGoWhereSelected
<1> QED BY <1>1, <1>2 DEF ChunksInv

(* Whatever order calls come in and whichever of them fail: a chunk that a *)
(* worker loads goes into the model its session's start call selected.     *)
THEOREM ChunksAreInTheirModel == Spec => []ChunksGoWhereSelected
<1>1. Init => ChunksInv
  BY ChunksInit
<1>2. ChunksInv => ChunksGoWhereSelected
  BY DEF ChunksInv
<1> QED BY <1>1, <1>2, ChunksInvStep, PTL DEF Spec

(* Two workers that load one chunk of a session which nothing disturbed    *)
(* since the start that all accepted load it into the same model: for each *)
(* of them that start is the one that governs the chunk.                   *)
THEOREM AllLoadTheSameModel == Spec => []SameModelEverywhere
<1>1. Init => ChunksInv
  BY ChunksInit
<1>2. ChunksInv => SameModelEverywhere
  <2> SUFFICES ASSUME ChunksInv, NEW c \in 1 .. Len(calls), InSharedSession(c)
               PROVE  \A v, w \in Workers :
                        loads[c][v] = Nothing \/ loads[c][w] = Nothing
                          \/ loads[c][v].model = loads[c][w].model
    BY DEF SameModelEverywhere
  <2>0. /\ Len(calls) \in Nat /\ Len(calls) <= MaxCalls /\ handled \in [Workers -> Nat]
        /\ FutureEmpty /\ ChunksGoWhereSelected
    BY DEF ChunksInv, AllTyped, Typed
  <2>1. PICK s \in 1 .. c - 1 :
          /\ calls[s].op \in {"start", "start_draft"}
          /\ \A t \in s .. c - 1 : AcceptedByAll(t) /\ (t # s => calls[t].op = "update")
    BY DEF InSharedSession
  <2>2. ASSUME NEW w \in Workers, loads[c][w] # Nothing
        PROVE  loads[c][w].model = Selects(calls[s].op)
    <3>1. c \in 1 .. handled[w]
      BY <2>0, <2>2 DEF FutureEmpty
    <3>2. PICK r \in 1 .. c - 1 : Governs(w, r, c) /\ loads[c][w].model = Selects(calls[r].op)
      BY <2>0, <2>2, <3>1 DEF ChunksGoWhereSelected
    <3>3. ~(r < s)
      <4>1. s \notin refused[w]
        BY <2>0, <2>1 DEF AcceptedByAll
      <4>2. calls[s].op # "update"
        BY <2>1
      <4> QED BY <2>0, <3>2, <4>1, <4>2 DEF Governs
    <3>4. ~(r > s)
      BY <2>0, <2>1, <3>2 DEF Governs
    <3>5. r = s
      BY <2>0, <3>3, <3>4
    <3> QED BY <3>2, <3>5
  <2> QED BY <2>2
<1> QED BY <1>1, <1>2, ChunksInvStep, PTL DEF Spec

-----------------------------------------------------------------------------
(* The LoRA state is reset once the base weights have changed.             *)

(* A draft session finds it as the last base session left it, and leaves   *)
(* it alone, for the engine loads into the draft meanwhile.                *)
DraftLeavesLora ==
  \A w \in Workers : active[w] /\ isDraft[w] /\ ~aborted[w] => ~loraStale[w]

LoraInv == AllTyped /\ TargetFollowsSession /\ LoraFresh /\ DraftLeavesLora

LEMMA LoraStep ==
  ASSUME LoraInv, NEW w \in Workers, WorkerNext(w)
  PROVE  LoraFresh' /\ DraftLeavesLora'
<1> DEFINE Fresh(v) == /\ ~active[v] /\ ~aborted[v] => ~loraStale[v]
                       /\ active[v] /\ isDraft[v] /\ ~aborted[v] => ~loraStale[v]
<1> SUFFICES ASSUME NEW v \in Workers PROVE Fresh(v)'
  BY DEF LoraFresh, DraftLeavesLora
<1>0. /\ Fresh(v) /\ (target[v] = "main" => ~(active[v] /\ isDraft[v]))
      /\ active \in [Workers -> BOOLEAN] /\ isDraft \in [Workers -> BOOLEAN]
      /\ loraStale \in [Workers -> BOOLEAN] /\ aborted \in [Workers -> BOOLEAN]
  BY DEF LoraInv, AllTyped, Typed, LoraTyped, LoraFresh, DraftLeavesLora,
         TargetFollowsSession
<1>1. CASE StartAccepted(w)
  BY <1>0, <1>1 DEF StartAccepted, MayStart, lora
<1>2. CASE StartRefused(w) \/ UpdateRefused(w) \/ FinishRefused(w)
  BY <1>0, <1>2 DEF StartRefused, UpdateRefused, FinishRefused, session, lora
<1>3. CASE StartFails(w)
  BY <1>0, <1>3 DEF StartFails, lora
<1>4. CASE UpdateLoads(w)
  BY <1>0, <1>4 DEF UpdateLoads, MayUpdate, Loads, session
<1>5. CASE UpdateFails(w)
  <2>1. /\ active' = [active EXCEPT ![w] = FALSE] /\ active[w] /\ isDraft' = isDraft
        /\ aborted' = [aborted EXCEPT ![w] = aborted[w] \/ loraStale'[w]]
    BY <1>5 DEF UpdateFails, MayUpdate
  <2>2. \/ loraStale' = loraStale
        \/ loraStale' = [loraStale EXCEPT ![w] = loraStale[w] \/ target[w] = "main"]
    BY <1>5 DEF UpdateFails, Loads
  <2> QED BY <1>0, <2>1, <2>2
<1>6. CASE FinishAccepted(w)
  BY <1>0, <1>6 DEF FinishAccepted, TouchedBase, lora
<1>7. CASE FinishRaises(w)
  BY <1>0, <1>7 DEF FinishRaises
<1> QED BY <1>1, <1>2, <1>3, <1>4, <1>5, <1>6, <1>7 DEF WorkerNext

(* Between sessions no request is served with adapters merged for weights  *)
(* that were replaced, unless the session that replaced them was aborted.  *)
THEOREM LoraIsFresh == Spec => []LoraFresh
<1>1. Init => LoraInv
  BY TypedInit DEF AllTyped, Init, TargetFollowsSession, LoraInv, LoraFresh, DraftLeavesLora
<1>2. LoraInv /\ [Next]_vars => LoraInv'
  <2> SUFFICES ASSUME LoraInv, [Next]_vars PROVE LoraInv'
    OBVIOUS
  <2>1. AllTyped' /\ TargetFollowsSession'
    BY TypedStep, TargetStep DEF LoraInv, AllTyped
  <2>2. ASSUME (\E call \in Calls : Call(call)) \/ UNCHANGED vars
        PROVE  LoraFresh' /\ DraftLeavesLora'
    BY <2>2 DEF Call, vars, session, lora, LoraInv, LoraFresh, DraftLeavesLora
  <2> QED BY <2>1, <2>2, LoraStep DEF Next, LoraInv
<1>3. LoraInv => LoraFresh
  BY DEF LoraInv
<1> QED BY <1>1, <1>2, <1>3, PTL DEF Spec

-----------------------------------------------------------------------------
(* Lists of parts.                                                         *)

(* The index over all replicas tells any two workers apart.                *)
LEMMA PartsDiffer ==
  ASSUME NEW v \in Workers, NEW w \in Workers, PartOf(v) = PartOf(w)
  PROVE  v = w
<1> DEFINE W == WorldSize
<1>0. ASSUME NEW a \in Nat, NEW b \in Nat, a < b PROVE a * W + W <= b * W
  <2>1. PICK d \in Nat : b = a + 1 + d
    <3>1. b - a - 1 \in Nat /\ b = a + 1 + (b - a - 1)
      BY <1>0
    <3> QED BY <3>1
  <2>2. b * W = a * W + W + d * W /\ d * W \in Nat /\ a * W \in Nat
    BY <2>1
  <2> QED BY <2>2
<1>1. /\ v[1] \in Nat /\ v[2] \in Nat /\ v[2] < W /\ w[1] \in Nat /\ w[2] \in Nat /\ w[2] < W
      /\ v = <<v[1], v[2]>> /\ w = <<w[1], w[2]>>
  BY DEF Workers
<1>2. v[1] * W + v[2] = w[1] * W + w[2] /\ v[1] * W \in Nat /\ w[1] * W \in Nat
  BY <1>1 DEF PartOf
<1>3. ~(v[1] < w[1])
  <2> SUFFICES ASSUME v[1] < w[1] PROVE FALSE
    OBVIOUS
  <2>1. v[1] * W + W <= w[1] * W
    BY <1>0, <1>1
  <2> QED BY <1>1, <1>2, <2>1
<1>4. ~(w[1] < v[1])
  <2> SUFFICES ASSUME w[1] < v[1] PROVE FALSE
    OBVIOUS
  <2>1. w[1] * W + W <= v[1] * W
    BY <1>0, <1>1
  <2> QED BY <1>1, <1>2, <2>1
<1>5. v[1] = w[1]
  BY <1>1, <1>3, <1>4
<1>6. v[2] = w[2]
  BY <1>1, <1>2, <1>5
<1> QED BY <1>1, <1>5, <1>6

(* Whatever a worker loaded from a list was the part with its index.       *)
PartsAreOwn ==
  \A c \in 1 .. Len(calls) : \A w \in Workers :
    calls[c].op = "update" /\ calls[c].parts # 0 /\ loads[c][w] # Nothing
      => loads[c][w].part = PartOf(w)

LEMMA PartsStep ==
  ASSUME AllTyped, FutureEmpty, PartsAreOwn, NEW w \in Workers, WorkerNext(w)
  PROVE  PartsAreOwn'
<1> DEFINE n == handled[w] + 1
           one == [model |-> target[w], part |-> Part(w)]
<1>0. /\ calls' = calls /\ Len(calls) <= MaxCalls /\ Len(calls) \in Nat
      /\ loads \in [1 .. MaxCalls -> [Workers -> [model : Models \cup {"none"}, part : Int]]]
  BY OthersKept DEF AllTyped, Typed, LoadsTyped
<1> SUFFICES ASSUME NEW c \in 1 .. Len(calls), NEW v \in Workers,
                    calls[c].op = "update", calls[c].parts # 0, loads'[c][v] # Nothing
             PROVE  loads'[c][v].part = PartOf(v)
  BY <1>0 DEF PartsAreOwn, Nothing
<1>1. CASE loads'[c][v] = loads[c][v]
  BY <1>1 DEF PartsAreOwn
<1>2. CASE loads'[c][v] # loads[c][v]
  <2>1. v = w /\ c = n
    BY <1>0, <1>2, LoadsWritten DEF AllTyped
  <2>2. loads' = [loads EXCEPT ![n][w] = one]
    BY <1>2 DEF WorkerNext, StartAccepted, StartRefused, StartFails, UpdateLoads,
       UpdateRefused, UpdateFails, FinishAccepted, FinishRaises, FinishRefused, Loads, Next_
  <2>3. one.part = PartOf(w)
    BY <2>1 DEF Part, Next_
  <2> HIDE DEF one, n
  <2>4. loads'[c][v] = one
    BY <1>0, <2>1, <2>2
  <2> QED BY <2>1, <2>3, <2>4
<1> QED BY <1>1, <1>2

(* No two workers, of whatever replicas, load the same part of a list.     *)
THEOREM PartsAreDistinct == Spec => []OwnParts
<1> DEFINE I == ChunksInv /\ PartsAreOwn
<1>1. Init => I
  BY ChunksInit DEF Init, PartsAreOwn
<1>2. I /\ [Next]_vars => I'
  <2> SUFFICES ASSUME I, [Next]_vars PROVE PartsAreOwn'
    BY ChunksInvStep
  <2>1. CASE \E w \in Workers : WorkerNext(w)
    BY <2>1, PartsStep DEF ChunksInv
  <2>2. ASSUME NEW call \in Calls, Call(call) PROVE PartsAreOwn'
    <3>1. /\ calls \in Seq(Calls) /\ calls' = Append(calls, call) /\ loads' = loads
          /\ Len(calls) < MaxCalls /\ handled \in [Workers -> Nat]
          /\ \A w \in Workers : handled[w] <= Len(calls)
      BY <2>2 DEF Call, ChunksInv, AllTyped, Typed
    <3>2. \A w \in Workers : loads[Len(calls) + 1][w] = Nothing
      BY <3>1 DEF ChunksInv, FutureEmpty
    <3> QED BY <3>1, <3>2 DEF PartsAreOwn, Nothing
  <2>3. CASE UNCHANGED vars
    BY <2>3 DEF vars, PartsAreOwn, Nothing
  <2> QED BY <2>1, <2>2, <2>3 DEF Next
<1>3. I => OwnParts
  BY PartsDiffer DEF OwnParts, PartsAreOwn
<1> QED BY <1>1, <1>2, <1>3, PTL DEF Spec
=============================================================================
