---------------------------- MODULE PipelineProofs ----------------------------
(* The pipeline keeps its steps apart, for any number of ranks and steps.  *)
EXTENDS PipelineParallel, TLAPS

USE RanksAssumption, StepsAssumption

-----------------------------------------------------------------------------
(* Types.                                                                  *)

StepsTyped ==
  /\ issued \in Seq(Kinds) /\ Len(issued) <= MaxSteps
  /\ done \in [Ranks -> Nat]
  /\ running \in [Ranks -> BOOLEAN]
  /\ \A r \in Ranks : done[r] <= Len(issued)
  /\ \A r \in Ranks : running[r] => done[r] < Len(issued)

LinksTyped ==
  /\ sendWork \in [Ranks -> SUBSET Steps]
  /\ sends \in [Ranks -> Seq(Steps)]
  /\ receives \in [Ranks -> Seq(Steps)]

TensorsTyped ==
  /\ output \in [Ranks -> Steps \cup {Torn}]
  /\ received \in [Ranks -> Steps \cup {Torn}]
  /\ commWaited \in [Ranks -> BOOLEAN]
  /\ postprocessed \in [Ranks -> Nat]
  /\ seen \in [Ranks -> SUBSET ((Steps \cup {Torn}) \X Nat)]

(* What is on a link: at most the last step its sender finished, in the    *)
(* buffer and awaited before the buffer is touched again; at most the step *)
(* its receiver is in.                                                     *)
Sending(r) ==
  /\ sends[r] = <<done[r]>> /\ ~running[r]
  /\ r < Last /\ done[r] > 0 /\ issued[done[r]] = "tokens"
  /\ output[r] = done[r] /\ done[r] \in sendWork[r]

Receiving(r) == receives[r] = <<Step(r)>> /\ running[r] /\ Receives(r) /\ ~commWaited[r]

LinksInv ==
  \A r \in Ranks :
    /\ sends[r] = <<>> \/ Sending(r)
    /\ receives[r] = <<>> \/ Receiving(r)

(* What the model of a rank has seen of its input.                         *)
InputInv ==
  \A r \in Ranks : running[r] /\ Receives(r) =>
    /\ postprocessed[r] = IF commWaited[r] THEN 1 ELSE 0
    /\ receives[r] = <<>> => received[r] = Step(r)
    /\ commWaited[r] => receives[r] = <<>>
    /\ seen[r] # {} => commWaited[r]

(* Exactly the steps with tokens that left a rank have reached the next.   *)
Gone(r, n) == n <= done[r] /\ sends[r] # <<n>>
Got(r, n)  == n <= done[r] \/ (n = Step(r) /\ running[r] /\ receives[r] = <<>>)

Matched ==
  \A r \in Ranks : \A n \in 1 .. Len(issued) :
    r < Last /\ issued[n] = "tokens" => (Gone(r, n) <=> Got(r + 1, n))

SeenInv == \A r \in Ranks : running[r] => seen[r] \subseteq {<<Step(r), 1>>}

Inv ==
  /\ StepsTyped /\ LinksTyped /\ TensorsTyped
  /\ LinksInv /\ InputInv /\ Matched /\ SeenInv

-----------------------------------------------------------------------------
(* Types are kept.                                                         *)

LEMMA RankFacts ==
  /\ \A r \in Ranks : r \in Nat /\ r <= Last
  /\ Last \in Nat
  /\ \A r \in Ranks : r < Last => r + 1 \in Ranks /\ r + 1 > 0 /\ r + 1 # r
  /\ \A r \in Ranks : r > 0 => r - 1 \in Ranks /\ r - 1 < Last /\ (r - 1) + 1 = r
BY DEF Ranks, Last

LEMMA InitInv == Init => Inv
BY RankFacts DEF Init, Inv, StepsTyped, LinksTyped, TensorsTyped, LinksInv, InputInv, Matched,
     SeenInv, Gone, Got, Step

LEMMA IssueInv == ASSUME Inv, Issue PROVE Inv'
<1> USE RankFacts DEF Issue, links, tensors
<1>1. PICK kind \in Kinds : issued' = Append(issued, kind)
  OBVIOUS
<1>2. StepsTyped'
  BY <1>1 DEF Inv, StepsTyped
<1>3. LinksTyped' /\ TensorsTyped'
  BY DEF Inv, LinksTyped, TensorsTyped
<1>4. /\ Len(issued') = Len(issued) + 1
      /\ \A n \in 1 .. Len(issued) : issued'[n] = issued[n]
  BY <1>1 DEF Inv, StepsTyped
<1>5. \A r \in Ranks : running[r] => (Receives(r)' <=> Receives(r))
  BY <1>4 DEF Inv, StepsTyped, Receives, Forward, Step
<1>6. LinksInv'
  BY <1>4, <1>5 DEF Inv, StepsTyped, LinksInv, Sending, Receiving, Step
<1>7. InputInv'
  BY <1>5 DEF Inv, InputInv, Step
<1>8. Matched'
  BY <1>4 DEF Inv, StepsTyped, Matched, Gone, Got, Step
<1>9. SeenInv'
  BY DEF Inv, SeenInv, Step
<1> QED BY <1>2, <1>3, <1>6, <1>7, <1>8, <1>9 DEF Inv

-----------------------------------------------------------------------------
(* A rank begins a step.                                                   *)

LEMMA BeginInv == ASSUME Inv, NEW r \in Ranks, BeginStep(r) PROVE Inv'
<1> USE RankFacts DEF BeginStep
<1>0. /\ ~running[r] /\ done[r] < Len(issued)
      /\ issued' = issued /\ done' = done /\ sends' = sends
      /\ running' = [running EXCEPT ![r] = TRUE]
      /\ sendWork' = [sendWork EXCEPT ![r] = {}]
      /\ seen' = [seen EXCEPT ![r] = {}]
  OBVIOUS
<1>1. sends[r] = <<>>
  <2> SUFFICES ASSUME sends[r] # <<>> PROVE FALSE
    OBVIOUS
  <2>1. sends[r] = <<done[r]>> /\ done[r] \in sendWork[r]
    BY DEF Inv, LinksInv, Sending
  <2>2. done[r] \in Posted(sends[r])
    BY <2>1 DEF Posted
  <2> QED BY <2>1, <2>2 DEF SendsDone
<1>2. receives[r] = <<>>
  BY <1>0 DEF Inv, LinksInv, Receiving
<1>3. Step(r) \in Steps
  BY <1>0 DEF Inv, StepsTyped, Step, Steps
<1>4. StepsTyped'
  BY <1>0 DEF Inv, StepsTyped
<1>5. receives' = receives \/ (Receives(r) /\ receives' = [receives EXCEPT ![r] = <<Step(r)>>])
  BY <1>2 DEF Inv, LinksTyped
<1>6. LinksTyped'
  <2>0. LinksTyped
    BY DEF Inv
  <2>1. sendWork' \in [Ranks -> SUBSET Steps]
    BY ONLY <1>0, <2>0 DEF LinksTyped
  <2>2. sends' \in [Ranks -> Seq(Steps)]
    BY ONLY <1>0, <2>0 DEF LinksTyped
  <2>3. <<Step(r)>> \in Seq(Steps)
    BY <1>3
  <2>4. receives' \in [Ranks -> Seq(Steps)]
    BY ONLY <1>5, <2>0, <2>3 DEF LinksTyped
  <2> QED BY <2>1, <2>2, <2>4 DEF LinksTyped
<1>7. TensorsTyped'
  <2>1. output' \in [Ranks -> Steps \cup {Torn}]
    BY DEF Inv, TensorsTyped
  <2>2. received' \in [Ranks -> Steps \cup {Torn}] /\ postprocessed' \in [Ranks -> Nat]
    <3>0. received \in [Ranks -> Steps \cup {Torn}] /\ postprocessed \in [Ranks -> Nat]
      BY DEF Inv, TensorsTyped
    <3>1. CASE Receives(r)
      <4>1. received' = [received EXCEPT ![r] = Torn] /\ postprocessed' = [postprocessed EXCEPT ![r] = 0]
        BY <3>1
      <4> QED BY ONLY <3>0, <4>1
    <3>2. CASE ~Receives(r)
      BY <3>0, <3>2
    <3> QED BY <3>1, <3>2
  <2>3. commWaited' \in [Ranks -> BOOLEAN]
    BY DEF Inv, TensorsTyped
  <2>4. seen' \in [Ranks -> SUBSET ((Steps \cup {Torn}) \X Nat)]
    BY <1>0 DEF Inv, TensorsTyped
  <2> QED BY <2>1, <2>2, <2>3, <2>4 DEF TensorsTyped
<1>8. \A q \in Ranks : q # r =>
        /\ running'[q] = running[q] /\ sendWork'[q] = sendWork[q] /\ receives'[q] = receives[q]
        /\ output'[q] = output[q] /\ received'[q] = received[q] /\ seen'[q] = seen[q]
        /\ commWaited'[q] = commWaited[q] /\ postprocessed'[q] = postprocessed[q]
  BY DEF Inv, StepsTyped, LinksTyped, TensorsTyped
<1>9. \A q \in Ranks : (Receives(q)' <=> Receives(q)) /\ Step(q)' = Step(q)
  BY <1>0 DEF Receives, Forward, Step
<1>10. /\ running'[r] /\ seen'[r] = {}
       /\ Receives(r) => receives'[r] = <<Step(r)>> /\ ~commWaited'[r] /\ postprocessed'[r] = 0
       /\ ~Receives(r) => receives'[r] = <<>>
  BY <1>0, <1>2 DEF Inv, StepsTyped, LinksTyped, TensorsTyped
<1>11. LinksInv'
  <2> SUFFICES ASSUME NEW q \in Ranks
               PROVE  /\ sends'[q] = <<>> \/ Sending(q)'
                      /\ receives'[q] = <<>> \/ Receiving(q)'
    BY DEF LinksInv
  <2>1. CASE q = r
    <3>1. sends'[q] = <<>>
      BY <1>0, <1>1, <2>1
    <3>2. CASE ~Receives(r)
      BY <1>10, <2>1, <3>1, <3>2
    <3>3. CASE Receives(r)
      <4>1. Receives(r)' /\ Step(r)' = Step(r)
        BY <1>9, <3>3
      <4>2. receives'[r] = <<Step(r)>> /\ running'[r] /\ ~commWaited'[r]
        BY <1>10, <3>3
      <4>3. Receiving(r)'
        BY <4>1, <4>2 DEF Receiving
      <4> QED BY <2>1, <3>1, <4>3
    <3> QED BY <3>2, <3>3
  <2>2. CASE q # r
    <3>1. Sending(q) => Sending(q)'
      BY <1>0, <1>8, <2>2 DEF Sending
    <3>2. Receiving(q) => Receiving(q)'
      BY <1>8, <1>9, <2>2 DEF Receiving
    <3> QED BY <1>0, <1>8, <2>2, <3>1, <3>2 DEF Inv, LinksInv
  <2> QED BY <2>1, <2>2
<1>12. InputInv'
  <2> SUFFICES ASSUME NEW q \in Ranks, running'[q], Receives(q)'
               PROVE  /\ postprocessed'[q] = IF commWaited'[q] THEN 1 ELSE 0
                      /\ receives'[q] = <<>> => received'[q] = Step(q)'
                      /\ commWaited'[q] => receives'[q] = <<>>
                      /\ seen'[q] # {} => commWaited'[q]
    BY DEF InputInv
  <2>1. CASE q = r
    <3>1. Receives(r)
      BY <1>9, <2>1
    <3>2. /\ receives'[q] = <<Step(r)>> /\ <<Step(r)>> # <<>>
          /\ ~commWaited'[q] /\ postprocessed'[q] = 0 /\ seen'[q] = {}
      BY <1>10, <2>1, <3>1
    <3> QED BY ONLY <3>2
  <2>2. CASE q # r
    BY <1>8, <1>9, <2>2 DEF Inv, InputInv
  <2> QED BY <2>1, <2>2
<1>13. Matched'
  <2> SUFFICES ASSUME NEW q \in Ranks, NEW n \in 1 .. Len(issued), q < Last, issued[n] = "tokens"
               PROVE  Gone(q, n)' <=> Got(q + 1, n)'
    BY <1>0 DEF Matched
  <2>1. Gone(q, n)' <=> Gone(q, n)
    BY <1>0 DEF Gone
  <2>2. Got(q + 1, n)' <=> Got(q + 1, n)
    <3>1. CASE q + 1 # r
      BY <1>0, <1>8, <3>1 DEF Got, Step
    <3>2. CASE q + 1 = r
      <4>1. n = Step(r) => Receives(r)
        BY <3>2 DEF Receives, Forward
      <4>2. Got(r, n)' <=> n <= done[r]
        <5>1. n = Step(r) => receives'[r] # <<>>
          <6>1. n = Step(r) => receives'[r] = <<Step(r)>>
            BY <1>10, <4>1
          <6>2. <<Step(r)>> # <<>>
            OBVIOUS
          <6> QED BY ONLY <6>1, <6>2
        <5>2. Step(r)' = Step(r)
          BY <1>9
        <5> QED BY <1>0, <5>1, <5>2 DEF Got
      <4>3. Got(r, n) <=> n <= done[r]
        BY <1>0 DEF Got
      <4> QED BY <3>2, <4>2, <4>3
    <3> QED BY <3>1, <3>2
  <2> QED BY <2>1, <2>2 DEF Inv, Matched
<1>14. SeenInv'
  BY <1>8, <1>9, <1>10 DEF Inv, SeenInv
<1> QED BY <1>4, <1>6, <1>7, <1>11, <1>12, <1>13, <1>14 DEF Inv

-----------------------------------------------------------------------------
(* A link moves a message.                                                 *)

LEMMA TransferIsOfOneStep ==
  ASSUME Inv, NEW r \in Ranks, Transfer(r)
  PROVE  /\ done[r] = Step(r + 1) /\ output[r] = Step(r + 1)
         /\ sends[r] = <<done[r]>> /\ receives[r + 1] = <<Step(r + 1)>>
         /\ running[r + 1] /\ Receives(r + 1)
<1> USE RankFacts DEF Transfer
<1>1. Sending(r) /\ Receiving(r + 1)
  BY DEF Inv, LinksInv
<1>2. /\ done[r] \in 1 .. Len(issued) /\ issued[done[r]] = "tokens"
      /\ Step(r + 1) \in 1 .. Len(issued) /\ issued[Step(r + 1)] = "tokens"
      /\ done[r] \in Nat /\ done[r + 1] \in Nat
  BY <1>1 DEF Inv, StepsTyped, Sending, Receiving, Receives, Forward, Step
<1>3. Gone(r, done[r]) <=> Got(r + 1, done[r])
  BY <1>2 DEF Inv, Matched
<1>4. Gone(r, Step(r + 1)) <=> Got(r + 1, Step(r + 1))
  BY <1>2 DEF Inv, Matched
<1>5. done[r] > done[r + 1]
  BY <1>1, <1>2, <1>3 DEF Gone, Got, Sending
<1>6. ~Got(r + 1, Step(r + 1))
  BY <1>1, <1>2 DEF Got, Receiving, Step
<1>7. done[r] = Step(r + 1)
  BY <1>1, <1>2, <1>4, <1>5, <1>6 DEF Gone, Sending, Step
<1> QED BY <1>1, <1>7 DEF Sending, Receiving

LEMMA TransferInv == ASSUME Inv, NEW r \in Ranks, Transfer(r) PROVE Inv'
<1> USE RankFacts DEF Transfer
<1>0. /\ r < Last /\ r + 1 \in Ranks /\ r + 1 # r
      /\ issued' = issued /\ done' = done /\ running' = running /\ seen' = seen
      /\ sendWork' = sendWork /\ output' = output
      /\ commWaited' = commWaited /\ postprocessed' = postprocessed
  OBVIOUS
<1>1. /\ done[r] = Step(r + 1) /\ output[r] = Step(r + 1)
      /\ sends[r] = <<done[r]>> /\ receives[r + 1] = <<Step(r + 1)>>
      /\ running[r + 1] /\ Receives(r + 1)
  BY TransferIsOfOneStep
<1>2. /\ sends' = [sends EXCEPT ![r] = <<>>]
      /\ receives' = [receives EXCEPT ![r + 1] = <<>>]
      /\ received' = [received EXCEPT ![r + 1] = Step(r + 1)]
  BY <1>1
<1>3. StepsTyped'
  BY <1>0 DEF Inv, StepsTyped
<1>4. LinksTyped'
  BY <1>0, <1>2 DEF Inv, LinksTyped
<1>5. TensorsTyped'
  <2>1. Step(r + 1) \in Steps
    BY <1>0, <1>1 DEF Inv, StepsTyped, Steps, Step
  <2>2. received' \in [Ranks -> Steps \cup {Torn}]
    BY <1>2, <2>1 DEF Inv, TensorsTyped
  <2> QED BY <1>0, <2>2 DEF Inv, TensorsTyped
<1>6. \A q \in Ranks : (Receives(q)' <=> Receives(q)) /\ Step(q)' = Step(q)
  BY <1>0 DEF Receives, Forward, Step
<1>7. /\ \A q \in Ranks : sends'[q] = IF q = r THEN <<>> ELSE sends[q]
      /\ \A q \in Ranks : receives'[q] = IF q = r + 1 THEN <<>> ELSE receives[q]
      /\ \A q \in Ranks : received'[q] = IF q = r + 1 THEN Step(r + 1) ELSE received[q]
  <2>1. sends \in [Ranks -> Seq(Steps)] /\ receives \in [Ranks -> Seq(Steps)]
    BY DEF Inv, LinksTyped
  <2>2. received \in [Ranks -> Steps \cup {Torn}]
    BY DEF Inv, TensorsTyped
  <2>3. \A q \in Ranks : sends'[q] = IF q = r THEN <<>> ELSE sends[q]
    BY ONLY <1>2, <2>1
  <2>4. \A q \in Ranks : receives'[q] = IF q = r + 1 THEN <<>> ELSE receives[q]
    BY ONLY <1>2, <2>1
  <2>5. \A q \in Ranks : received'[q] = IF q = r + 1 THEN Step(r + 1) ELSE received[q]
    BY ONLY <1>2, <2>2
  <2> QED BY <2>3, <2>4, <2>5
<1>8. LinksInv'
  <2> SUFFICES ASSUME NEW q \in Ranks
               PROVE  /\ sends'[q] = <<>> \/ Sending(q)'
                      /\ receives'[q] = <<>> \/ Receiving(q)'
    BY DEF LinksInv
  <2>1. q # r => (Sending(q) => Sending(q)')
    BY <1>0, <1>7 DEF Sending
  <2>2. q # r + 1 => (Receiving(q) => Receiving(q)')
    BY <1>0, <1>6, <1>7 DEF Receiving
  <2> QED BY <1>7, <2>1, <2>2 DEF Inv, LinksInv
<1>9. InputInv'
  BY <1>0, <1>6, <1>7 DEF Inv, InputInv
<1>10. Matched'
  <2> SUFFICES ASSUME NEW q \in Ranks, NEW n \in 1 .. Len(issued), q < Last, issued[n] = "tokens"
               PROVE  Gone(q, n)' <=> Got(q + 1, n)'
    BY <1>0 DEF Matched
  <2>0. (Gone(q, n) <=> Got(q + 1, n)) /\ q + 1 \in Ranks
    BY DEF Inv, Matched
  <2>1. CASE q = r
    <3>1. Gone(q, n)' <=> n <= done[r]
      <4>1. sends'[q] = <<>>
        BY <1>7, <2>1
      <4>2. <<>> # <<n>>
        OBVIOUS
      <4> QED BY <1>0, <2>1, <4>1, <4>2 DEF Gone
    <3>2. Got(q + 1, n)' <=> n <= done[r + 1] \/ n = Step(r + 1)
      BY <1>0, <1>1, <1>6, <1>7, <2>1 DEF Got
    <3> QED BY <1>0, <1>1, <3>1, <3>2 DEF Inv, StepsTyped, Step
  <2>2. CASE q # r
    <3>1. Gone(q, n)' <=> Gone(q, n)
      BY <1>0, <1>7, <2>2 DEF Gone
    <3>2. q + 1 # r + 1
      BY <2>2 DEF Ranks
    <3>3. Got(q + 1, n)' <=> Got(q + 1, n)
      BY <1>0, <1>6, <1>7, <2>0, <3>2 DEF Got
    <3> QED BY <2>0, <3>1, <3>3
  <2> QED BY <2>1, <2>2
<1>11. SeenInv'
  BY <1>0, <1>6 DEF Inv, SeenInv
<1> QED BY <1>3, <1>4, <1>5, <1>8, <1>9, <1>10, <1>11 DEF Inv

-----------------------------------------------------------------------------
(* The model reads its input.                                              *)

LEMMA AccessInv == ASSUME Inv, NEW r \in Ranks, AccessTensors(r) PROVE Inv'
<1> USE RankFacts
<1>0. /\ running[r] /\ Receives(r)
      /\ issued' = issued /\ done' = done /\ running' = running
      /\ sendWork' = sendWork /\ sends' = sends /\ receives' = receives
      /\ output' = output /\ received' = received
      /\ seen' = [seen EXCEPT ![r] = @ \cup {<<received[r], postprocessed'[r]>>}]
  BY DEF AccessTensors, links
<1>t. /\ commWaited \in [Ranks -> BOOLEAN] /\ postprocessed \in [Ranks -> Nat]
      /\ seen \in [Ranks -> SUBSET ((Steps \cup {Torn}) \X Nat)]
      /\ received \in [Ranks -> Steps \cup {Torn}]
  BY DEF Inv, TensorsTyped
<1>1. /\ postprocessed[r] = IF commWaited[r] THEN 1 ELSE 0
      /\ receives[r] = <<>> => received[r] = Step(r)
      /\ commWaited[r] => receives[r] = <<>>
  BY <1>0 DEF Inv, InputInv
<1>2. receives[r] = <<>>
  BY <1>1 DEF AccessTensors, Arrived
<1>3. /\ commWaited' = [commWaited EXCEPT ![r] = TRUE]
      /\ postprocessed' = [postprocessed EXCEPT ![r] = 1]
  <2>1. CASE commWaited[r]
    <3>1. commWaited' = commWaited /\ postprocessed' = postprocessed
      BY <2>1 DEF AccessTensors
    <3>2. postprocessed[r] = 1
      BY <1>1, <2>1
    <3> QED BY ONLY <1>t, <2>1, <3>1, <3>2
  <2>2. CASE ~commWaited[r]
    <3>1. /\ commWaited' = [commWaited EXCEPT ![r] = TRUE]
          /\ postprocessed' = [postprocessed EXCEPT ![r] = @ + 1]
      BY <2>2 DEF AccessTensors, Waited
    <3>2. postprocessed[r] = 0
      BY <1>1, <2>2
    <3> QED BY ONLY <3>1, <3>2
  <2> QED BY <2>1, <2>2
<1>4. commWaited'[r] = TRUE /\ postprocessed'[r] = 1
  BY ONLY <1>3, <1>t, r \in Ranks
<1>5. \A q \in Ranks : q # r =>
        commWaited'[q] = commWaited[q] /\ postprocessed'[q] = postprocessed[q]
  BY ONLY <1>3, <1>t
<1>6. /\ seen'[r] = seen[r] \cup {<<Step(r), 1>>}
      /\ \A q \in Ranks : q # r => seen'[q] = seen[q]
  <2>1. received[r] = Step(r)
    BY <1>1, <1>2
  <2> QED BY ONLY <1>0, <1>4, <1>t, <2>1, r \in Ranks
<1>7. StepsTyped' /\ LinksTyped'
  BY <1>0 DEF Inv, StepsTyped, LinksTyped
<1>8. TensorsTyped'
  <2>1. commWaited' \in [Ranks -> BOOLEAN]
    BY ONLY <1>3, <1>t
  <2>2. postprocessed' \in [Ranks -> Nat]
    BY ONLY <1>3, <1>t
  <2>3. <<received[r], postprocessed'[r]>> \in (Steps \cup {Torn}) \X Nat
    BY <1>4, <1>t
  <2>4. seen' \in [Ranks -> SUBSET ((Steps \cup {Torn}) \X Nat)]
    BY ONLY <1>0, <1>t, <2>3
  <2> QED BY <1>0, <1>t, <2>1, <2>2, <2>4 DEF Inv, TensorsTyped
<1>9. \A q \in Ranks : (Receives(q)' <=> Receives(q)) /\ Step(q)' = Step(q)
  BY <1>0 DEF Receives, Forward, Step
<1>10. LinksInv'
  <2> SUFFICES ASSUME NEW q \in Ranks
               PROVE  /\ sends'[q] = <<>> \/ Sending(q)'
                      /\ receives'[q] = <<>> \/ Receiving(q)'
    BY DEF LinksInv
  <2>1. Sending(q) => Sending(q)'
    BY <1>0 DEF Sending
  <2>2. q # r => (Receiving(q) => Receiving(q)')
    BY <1>0, <1>5, <1>9 DEF Receiving
  <2> QED BY <1>0, <1>2, <2>1, <2>2 DEF Inv, LinksInv
<1>11. InputInv'
  <2> SUFFICES ASSUME NEW q \in Ranks, running'[q], Receives(q)'
               PROVE  /\ postprocessed'[q] = IF commWaited'[q] THEN 1 ELSE 0
                      /\ receives'[q] = <<>> => received'[q] = Step(q)'
                      /\ commWaited'[q] => receives'[q] = <<>>
                      /\ seen'[q] # {} => commWaited'[q]
    BY DEF InputInv
  <2>1. CASE q = r
    BY <1>0, <1>1, <1>2, <1>4, <1>9, <2>1
  <2>2. CASE q # r
    BY <1>0, <1>5, <1>6, <1>9, <2>2 DEF Inv, InputInv
  <2> QED BY <2>1, <2>2
<1>12. Matched'
  BY <1>0 DEF Inv, Matched, Gone, Got, Step
<1>13. SeenInv'
  BY <1>0, <1>6, <1>9 DEF Inv, SeenInv
<1> QED BY <1>7, <1>8, <1>10, <1>11, <1>12, <1>13 DEF Inv
-----------------------------------------------------------------------------
(* A rank finishes a step.                                                 *)

LEMMA FinishHasInput ==
  ASSUME Inv, NEW r \in Ranks, FinishStep(r)
  PROVE  sends[r] = <<>> /\ receives[r] = <<>>
<1>1. running[r] /\ (Receives(r) => seen[r] # {})
  BY DEF FinishStep
<1>2. sends[r] = <<>>
  BY <1>1 DEF Inv, LinksInv, Sending
<1>3. receives[r] = <<>>
  BY <1>1 DEF Inv, LinksInv, Receiving, InputInv
<1> QED BY <1>2, <1>3

LEMMA FinishInv == ASSUME Inv, NEW r \in Ranks, FinishStep(r) PROVE Inv'
<1> USE RankFacts
<1>0. /\ running[r] /\ sends[r] = <<>> /\ receives[r] = <<>>
      /\ issued' = issued /\ receives' = receives /\ received' = received /\ seen' = seen
      /\ commWaited' = commWaited /\ postprocessed' = postprocessed
      /\ done' = [done EXCEPT ![r] = Step(r)]
      /\ running' = [running EXCEPT ![r] = FALSE]
  BY FinishHasInput DEF FinishStep
<1>t. /\ issued \in Seq(Kinds) /\ Len(issued) \in Nat /\ Len(issued) <= MaxSteps
      /\ done \in [Ranks -> Nat] /\ running \in [Ranks -> BOOLEAN]
      /\ sendWork \in [Ranks -> SUBSET Steps] /\ sends \in [Ranks -> Seq(Steps)]
      /\ output \in [Ranks -> Steps \cup {Torn}]
      /\ done[r] < Len(issued)
  BY <1>0 DEF Inv, StepsTyped, LinksTyped, TensorsTyped
<1>1. /\ Step(r) \in 1 .. Len(issued) /\ Step(r) \in Steps /\ Step(r) = done[r] + 1
      /\ Step(r) \in Nat /\ done[r] \in Nat
  BY <1>t DEF Step, Steps
<1>2. \/ /\ Sends(r)
         /\ output' = [output EXCEPT ![r] = Step(r)]
         /\ sends' = [sends EXCEPT ![r] = <<Step(r)>>]
         /\ sendWork' = [sendWork EXCEPT ![r] = {Step(r)}]
      \/ /\ ~Sends(r)
         /\ output' = output /\ sends' = sends /\ sendWork' = sendWork
  BY <1>0 DEF FinishStep
<1>3. done'[r] = Step(r) /\ ~running'[r]
  BY ONLY <1>0, <1>t, r \in Ranks
<1>4. \A q \in Ranks : q # r => done'[q] = done[q] /\ running'[q] = running[q]
  BY ONLY <1>0, <1>t
<1>5. \A q \in Ranks : q # r =>
        sends'[q] = sends[q] /\ sendWork'[q] = sendWork[q] /\ output'[q] = output[q]
  BY ONLY <1>2, <1>t
<1>6. /\ Sends(r) => /\ sends'[r] = <<Step(r)>> /\ output'[r] = Step(r)
                     /\ Step(r) \in sendWork'[r]
      /\ ~Sends(r) => sends'[r] = <<>>
  BY ONLY <1>0, <1>2, <1>t, r \in Ranks
<1>7. StepsTyped'
  <2>1. done' \in [Ranks -> Nat]
    BY ONLY <1>0, <1>1, <1>t
  <2>2. running' \in [Ranks -> BOOLEAN]
    BY ONLY <1>0, <1>t
  <2>3. \A q \in Ranks : done'[q] <= Len(issued)
    BY <1>1, <1>3, <1>4 DEF Inv, StepsTyped
  <2>4. \A q \in Ranks : running'[q] => done'[q] < Len(issued)
    BY <1>3, <1>4 DEF Inv, StepsTyped
  <2> QED BY <1>0, <1>t, <2>1, <2>2, <2>3, <2>4 DEF StepsTyped
<1>8. LinksTyped'
  <2>1. <<Step(r)>> \in Seq(Steps)
    BY <1>1
  <2>2. sends' \in [Ranks -> Seq(Steps)]
    BY ONLY <1>2, <1>t, <2>1
  <2>3. sendWork' \in [Ranks -> SUBSET Steps]
    <3>1. {Step(r)} \in SUBSET Steps
      BY <1>1
    <3> QED BY ONLY <1>2, <1>t, <3>1
  <2> QED BY <1>0, <2>2, <2>3 DEF Inv, LinksTyped
<1>9. TensorsTyped'
  <2>1. output' \in [Ranks -> Steps \cup {Torn}]
    BY ONLY <1>1, <1>2, <1>t
  <2> QED BY <1>0, <2>1 DEF Inv, TensorsTyped
<1>10. \A q \in Ranks : q # r => (Receives(q)' <=> Receives(q)) /\ Step(q)' = Step(q)
  BY <1>0, <1>4 DEF Receives, Forward, Step
<1>11. LinksInv'
  <2> SUFFICES ASSUME NEW q \in Ranks
               PROVE  /\ sends'[q] = <<>> \/ Sending(q)'
                      /\ receives'[q] = <<>> \/ Receiving(q)'
    BY DEF LinksInv
  <2>1. CASE q = r
    <3>1. Sends(r) => r < Last /\ issued[Step(r)] = "tokens"
      BY DEF Sends, Forward
    <3>2. Step(r) > 0
      BY <1>1
    <3>3. Sends(r) => Sending(r)'
      BY <1>0, <1>3, <1>6, <3>1, <3>2 DEF Sending
    <3> QED BY <1>0, <1>6, <2>1, <3>3
  <2>2. CASE q # r
    <3>1. Sending(q) => Sending(q)'
      BY <1>0, <1>4, <1>5, <2>2 DEF Sending
    <3>2. Receiving(q) => Receiving(q)'
      BY <1>0, <1>4, <1>10, <2>2 DEF Receiving
    <3> QED BY <1>0, <1>5, <2>2, <3>1, <3>2 DEF Inv, LinksInv
  <2> QED BY <2>1, <2>2
<1>12. InputInv'
  BY <1>0, <1>3, <1>4, <1>10 DEF Inv, InputInv
<1>13. Matched'
  <2> SUFFICES ASSUME NEW q \in Ranks, NEW n \in 1 .. Len(issued), q < Last, issued[n] = "tokens"
               PROVE  Gone(q, n)' <=> Got(q + 1, n)'
    BY <1>0 DEF Matched
  <2>0. (Gone(q, n) <=> Got(q + 1, n)) /\ q + 1 \in Ranks /\ n \in Nat
    BY DEF Inv, Matched
  <2>1. Gone(q, n)' <=> Gone(q, n)
    <3>1. CASE q # r
      BY <1>4, <1>5, <3>1 DEF Gone
    <3>2. CASE q = r /\ Sends(r)
      <4>1. sends'[r] # <<n>> <=> n # Step(r)
        BY <1>6, <3>2
      <4>2. sends[r] # <<n>>
        BY <1>0
      <4> QED BY <1>1, <1>3, <2>0, <3>2, <4>1, <4>2 DEF Gone
    <3>3. CASE q = r /\ ~Sends(r)
      <4>1. n # Step(r)
        BY <3>3 DEF Sends, Forward
      <4>2. sends[r] # <<n>> /\ sends'[r] # <<n>>
        <5>1. <<>> # <<n>>
          OBVIOUS
        <5>2. sends[r] = <<>> /\ sends'[r] = <<>>
          BY <1>0, <1>6, <3>3
        <5> QED BY <5>1, <5>2
      <4> QED BY <1>1, <1>3, <2>0, <3>3, <4>1, <4>2 DEF Gone
    <3> QED BY <3>1, <3>2, <3>3
  <2>2. PICK p \in Ranks : p = q + 1
    BY <2>0
  <2>3. Got(p, n)' <=> Got(p, n)
    <3>1. CASE p # r
      BY <1>0, <1>4, <1>10, <3>1 DEF Got
    <3>2. CASE p = r
      <4>1. Got(r, n)' <=> n <= Step(r)
        BY <1>1, <1>3, <2>0 DEF Got
      <4>2. Got(r, n) <=> n <= Step(r)
        BY <1>0, <1>1, <2>0 DEF Got
      <4> QED BY <3>2, <4>1, <4>2
    <3> QED BY <3>1, <3>2
  <2>4. Gone(q, n)' <=> Got(p, n)'
    BY <2>0, <2>1, <2>2, <2>3
  <2> QED BY <2>2, <2>4
<1>14. SeenInv'
  BY <1>0, <1>3, <1>4, <1>10 DEF Inv, SeenInv
<1> QED BY <1>7, <1>8, <1>9, <1>11, <1>12, <1>13, <1>14 DEF Inv

-----------------------------------------------------------------------------
(* The theorems.                                                           *)

LEMMA NextInv == Inv /\ [Next]_vars => Inv'
<1> SUFFICES ASSUME Inv, [Next]_vars PROVE Inv'
  OBVIOUS
<1>1. CASE Issue
  BY <1>1, IssueInv
<1>2. ASSUME NEW r \in Ranks, BeginStep(r) PROVE Inv'
  BY <1>2, BeginInv
<1>3. ASSUME NEW r \in Ranks, Transfer(r) PROVE Inv'
  BY <1>3, TransferInv
<1>4. ASSUME NEW r \in Ranks, AccessTensors(r) PROVE Inv'
  BY <1>4, AccessInv
<1>5. ASSUME NEW r \in Ranks, FinishStep(r) PROVE Inv'
  BY <1>5, FinishInv
<1>6. CASE UNCHANGED vars
  BY <1>6 DEF vars, links, tensors, Inv, StepsTyped, LinksTyped, TensorsTyped, LinksInv,
     Sending, Receiving, InputInv, Matched, Gone, Got, SeenInv, Receives, Forward, Step
<1> QED BY <1>1, <1>2, <1>3, <1>4, <1>5, <1>6 DEF Next

(* The invariant holds of every behaviour of the pipeline.                 *)
THEOREM InvariantHolds == Spec => []Inv
<1>1. Init => Inv
  BY InitInv
<1>2. Inv /\ [Next]_vars => Inv'
  BY NextInv
<1> QED BY <1>1, <1>2, PTL DEF Spec

(* Every variable keeps its type and no link ever carries two messages:    *)
(* the sends of a step are awaited before the next step (lines 1145-1150). *)
THEOREM TypeCorrect == Spec => []TypeOK
<1>1. Inv => TypeOK
  <2> SUFFICES ASSUME Inv PROVE TypeOK
    OBVIOUS
  <2>1. issued \in Seq(Kinds) /\ Len(issued) <= MaxSteps /\ running \in [Ranks -> BOOLEAN]
    BY DEF Inv, StepsTyped
  <2>2. done \in [Ranks -> 0 .. MaxSteps]
    BY DEF Inv, StepsTyped
  <2>3. /\ sendWork \in [Ranks -> SUBSET Steps]
        /\ sends \in [Ranks -> Seq(Steps)] /\ receives \in [Ranks -> Seq(Steps)]
    BY DEF Inv, LinksTyped
  <2>4. \A r \in Ranks : Len(sends[r]) <= 1 /\ Len(receives[r]) <= 1
    <3> SUFFICES ASSUME NEW r \in Ranks PROVE Len(sends[r]) <= 1 /\ Len(receives[r]) <= 1
      OBVIOUS
    <3>1. Len(<<>>) = 0 /\ Len(<<done[r]>>) = 1 /\ Len(<<Step(r)>>) = 1
      OBVIOUS
    <3>2. sends[r] = <<>> \/ sends[r] = <<done[r]>>
      BY DEF Inv, LinksInv, Sending
    <3>3. receives[r] = <<>> \/ receives[r] = <<Step(r)>>
      BY DEF Inv, LinksInv, Receiving
    <3>4. Len(sends[r]) \in {0, 1} /\ Len(receives[r]) \in {0, 1}
      BY <3>1, <3>2, <3>3
    <3>5. \A k \in {0, 1} : k <= 1
      OBVIOUS
    <3> QED BY ONLY <3>4, <3>5
  <2> QED BY <2>1, <2>2, <2>3, <2>4 DEF Inv, TensorsTyped, TypeOK
<1> QED BY <1>1, InvariantHolds, PTL

(* A model only ever reads the tensors the rank before computed in the     *)
(* same step, complete and postprocessed once (lines 159-174, 1145-1196).  *)
THEOREM TensorsAreOfTheStep == Spec => []TensorsOfThisStep
<1>1. Inv => TensorsOfThisStep
  BY DEF Inv, SeenInv, TensorsOfThisStep
<1> QED BY <1>1, InvariantHolds, PTL

LEMMA FinishIsInOrder ==
  ASSUME Inv, NEW r \in Ranks, FinishStep(r) PROVE Order!FinishStep(r)
<1> USE RankFacts
<1>1. running[r] /\ receives[r] = <<>>
  BY FinishHasInput DEF FinishStep
<1>2. done[r] < Len(issued) /\ done \in [Ranks -> Nat] /\ Len(issued) \in Nat
  BY <1>1 DEF Inv, StepsTyped
<1>3. ASSUME issued[done[r] + 1] = "tokens", r > 0 PROVE done[r - 1] > done[r]
  <2>1. PICK p \in Ranks : p = r - 1 /\ p < Last /\ p + 1 = r
    BY <1>3
  <2>2. Step(r) \in 1 .. Len(issued) /\ issued[Step(r)] = "tokens" /\ Step(r) = done[r] + 1
    BY <1>2, <1>3 DEF Step
  <2>3. Got(r, Step(r))
    BY <1>1 DEF Got
  <2>4. Gone(p, Step(r))
    BY <2>1, <2>2, <2>3 DEF Inv, Matched
  <2> QED BY <1>2, <2>1, <2>2, <2>4 DEF Gone
<1> QED BY <1>2, <1>3 DEF FinishStep, Step, Order!FinishStep

(* The pipeline implements the abstract one: the ranks finish the steps in *)
(* the order of issue, a step with tokens after the rank before has.       *)
THEOREM OrderIsKept == Spec => KeepsOrder
<1>1. Init => Order!Init
  BY DEF Init, Order!Init, Ranks, Order!Ranks
<1>2. Inv /\ [Next]_vars => [Order!Next]_<<issued, done>>
  <2> SUFFICES ASSUME Inv, [Next]_vars PROVE [Order!Next]_<<issued, done>>
    OBVIOUS
  <2>1. CASE Issue
    BY <2>1 DEF Issue, Kinds, Order!Next, Order!Issue, Order!Kinds
  <2>2. ASSUME NEW r \in Ranks, FinishStep(r) PROVE [Order!Next]_<<issued, done>>
    BY <2>2, FinishIsInOrder DEF Order!Next, Ranks, Order!Ranks
  <2>3. ASSUME NEW r \in Ranks, BeginStep(r) \/ Transfer(r) \/ AccessTensors(r)
        PROVE  UNCHANGED <<issued, done>>
    BY <2>3 DEF BeginStep, Transfer, AccessTensors
  <2>4. CASE UNCHANGED vars
    BY <2>4 DEF vars
  <2> QED BY <2>1, <2>2, <2>3, <2>4 DEF Next
<1> QED BY <1>1, <1>2, InvariantHolds, PTL DEF Spec, KeepsOrder, Order!Spec
=============================================================================
