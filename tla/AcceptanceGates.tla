--------------------------- MODULE AcceptanceGates ---------------------------
(* tools/acceptance_gates.py: up to three suites of requests against a     *)
(* served model, and an exit status a deploy script can go by.  A suite    *)
(* hands its requests to a pool of threads, which answer them in any       *)
(* order, and counts the answers in the order of the requests.             *)
(*                                                                         *)
(* An answer is told apart by what the suites make of it: "good", "bad"    *)
(* (garbled, or the wrong answer), or "error" - the request failed, and    *)
(* its text is "ERR ...".                                                  *)
EXTENDS Integers, FiniteSets, Sequences

CONSTANTS
  NumJobs,      \* requests of a suite: 30, 30 and 12
  Workers,      \* threads of the pool: 6
  MaxGarbled,   \* garbled answers the garble suite tolerates: 10% of its requests
  MaxMissed     \* missed items the other suites tolerate: 2

ASSUME JobsAssumption   == NumJobs \in Nat /\ Workers \in Nat
ASSUME LimitsAssumption == MaxGarbled \in Nat /\ MaxMissed \in Nat

SuiteOrder == <<"garble", "quality", "ability">>
Suites     == {SuiteOrder[i] : i \in DOMAIN SuiteOrder}
Misspelled == "garbel"

AnswerKinds == {"good", "bad", "error"}
Jobs        == 1 .. NumJobs

VARIABLES
  gates,      \* what main is doing
  wanted,     \* the names given to --suites
  turn,       \* the suite main has come to
  answer,     \* request -> its answer, "none" until a thread has it
  counted,    \* requests that ex.map has yielded
  tally,      \* `bad` of the garble suite, `good` of the others
  results,    \* suite -> the suite's verdict, for the suites that ran
  against     \* history: suite -> answers its rule does not accept

gatesVars == <<gates, wanted, turn, answer, counted, tally, results, against>>

Unanswered == [j \in Jobs |-> "none"]

GatesTypeOK ==
  /\ gates \in {"off", "next", "suite", "exit0", "exit1"}
  /\ wanted \subseteq Suites \cup {Misspelled}
  /\ turn \in 1 .. Len(SuiteOrder) + 1
  /\ answer \in [Jobs -> AnswerKinds \cup {"none"}]
  /\ counted \in 0 .. NumJobs
  /\ tally \in 0 .. NumJobs
  /\ DOMAIN results \subseteq wanted /\ \A s \in DOMAIN results : results[s] \in BOOLEAN
  /\ against \in [Suites -> 0 .. NumJobs]

(* The variables of a run that has not been started.                       *)
GatesOff ==
  /\ gates = "off" /\ wanted = {} /\ turn = 1
  /\ answer = Unanswered /\ counted = 0 /\ tally = 0
  /\ results = [s \in {} |-> TRUE]
  /\ against = [s \in Suites |-> 0]

-----------------------------------------------------------------------------
(* (A definition whose name ends in _Something is a plausible bug in the   *)
(* definition of that name, kept to see that the properties notice it.)    *)

suite == SuiteOrder[turn]

StartGates ==
  /\ gates = "off" /\ gates' = "next"
  /\ wanted' \in SUBSET (Suites \cup {Misspelled})
  /\ UNCHANGED <<turn, answer, counted, tally, results, against>>

NextSuite ==
  /\ gates = "next" /\ turn \in DOMAIN SuiteOrder
  /\ IF suite \in wanted
     THEN gates' = "suite" /\ UNCHANGED turn
     ELSE turn' = turn + 1 /\ UNCHANGED gates
  /\ answer' = Unanswered /\ counted' = 0 /\ tally' = 0
  /\ UNCHANGED <<wanted, results, against>>

(* The threads take the requests in order, so those under way are the      *)
(* first unanswered ones.                                                  *)
UnderWay(j) ==
  /\ answer[j] = "none"
  /\ Cardinality({i \in 1 .. j - 1 : answer[i] = "none"}) < Workers

(* The rule of a suite: what counts against the endpoint.  No garble rule  *)
(* rejects the text of a failed request.                                   *)
Rejects(s, a) == IF s = "garble" THEN a = "bad" ELSE a # "good"

Answered(j) ==
  /\ gates = "suite" /\ UnderWay(j)
  /\ \E a \in AnswerKinds :
       /\ answer' = [answer EXCEPT ![j] = a]
       /\ against' = [against EXCEPT ![suite] = IF Rejects(suite, a) THEN @ + 1 ELSE @]
  /\ UNCHANGED <<gates, wanted, turn, counted, tally, results>>

Counts(a) == IF suite = "garble" THEN a = "bad" ELSE a = "good"

(* ex.map yields the answers in the order of the requests.                 *)
CountOne ==
  /\ gates = "suite" /\ counted < NumJobs
  /\ answer[counted + 1] # "none"
  /\ counted' = counted + 1
  /\ tally' = IF Counts(answer[counted + 1]) THEN tally + 1 ELSE tally
  /\ UNCHANGED <<gates, wanted, turn, answer, results, against>>

Verdict_Strict ==
  IF suite = "garble" THEN tally <= MaxGarbled ELSE tally > NumJobs - MaxMissed

Verdict ==
  IF suite = "garble" THEN tally <= MaxGarbled ELSE tally >= NumJobs - MaxMissed

EndSuite ==
  /\ gates = "suite" /\ counted = NumJobs
  /\ results' = [s \in DOMAIN results \cup {suite} |->
                   IF s = suite THEN Verdict ELSE results[s]]
  /\ gates' = "next" /\ turn' = turn + 1
  /\ UNCHANGED <<wanted, answer, counted, tally, against>>

AllPassed == \A s \in DOMAIN results : results[s]

ExitGates ==
  /\ gates = "next" /\ turn = Len(SuiteOrder) + 1
  /\ gates' = IF AllPassed THEN "exit0" ELSE "exit1"
  /\ UNCHANGED <<wanted, turn, answer, counted, tally, results, against>>

GatesNext ==
  \/ StartGates \/ NextSuite \/ CountOne \/ EndSuite \/ ExitGates
  \/ \E j \in Jobs : Answered(j)

GatesSpec == GatesOff /\ [][GatesNext]_gatesVars

-----------------------------------------------------------------------------
(* Properties.                                                             *)

Tolerated(s) == IF s = "garble" THEN MaxGarbled ELSE MaxMissed

(* "Exit code is non-zero if a gate fails, so it can gate a deploy script" *)
(* (line 23): the status is 1 exactly if some suite that was asked for by  *)
(* name got more answers it does not accept than it tolerates, in whatever *)
(* order the threads got them.  So an endpoint that answers nothing fails  *)
(* wherever a suite of items runs; it passes the garble suite alone, and   *)
(* everything passes when no suite was named (lines 97, 219).              *)
StatusIsTheAnswers ==
  /\ gates = "exit0" => \A s \in wanted \cap Suites : against[s] <= Tolerated(s)
  /\ gates = "exit1" => \E s \in wanted \cap Suites : against[s] > Tolerated(s)
=============================================================================
