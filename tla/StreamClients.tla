---------------------------- MODULE StreamClients ----------------------------
(* The two streaming clients, tools/stream_bench.py and                    *)
(* tools/ctx_decode_bench.py, reading the same answer.  The server sends   *)
(* lines: chunks with any number of tokens, of the answer or of its        *)
(* reasoning, chunks with neither, and at last [DONE] or nothing more.     *)
(* Each client keeps marks of its own and reports what it makes of them.   *)
EXTENDS Integers, Sequences

CONSTANTS
  MaxChunks,    \* bound: chunks with tokens
  MaxTokens,    \* bound: tokens in a chunk
  MaxClock,     \* bound: time
  MinMarks,     \* marks ctx_decode_bench.py wants before it makes windows: 8
  NumWindows    \* windows it makes: 4

ASSUME BoundsAssumption  == MaxChunks \in Nat /\ MaxTokens \in Nat /\ MaxClock \in Nat
ASSUME WindowsAssumption == MinMarks \in Nat \ {0} /\ NumWindows \in Nat \ {0}

VARIABLES
  stream,       \* the connection
  clock,        \* time.time() - t0
  perToken,     \* the deltas carry one logprob entry per token
  first, prev,  \* stream_bench: time of the first and of the last chunk
  gaps,         \* stream_bench: times between chunks
  ttft,         \* ctx_decode_bench: time of the first chunk
  marks,        \* ctx_decode_bench: <<time, tokens so far>>, chunk by chunk
  arrivals,     \* history: what the server sent of the answer, chunk by chunk
  reasoned      \* history: chunks of the reasoning

streamVars == <<stream, clock, perToken, first, prev, gaps, ttft, marks, arrivals, reasoned>>

Never == -1   \* None

StreamTypeOK ==
  /\ stream \in {"off", "open", "closed"}
  /\ clock \in 0 .. MaxClock
  /\ perToken \in BOOLEAN
  /\ first \in Never .. MaxClock /\ prev \in Never .. MaxClock /\ ttft \in Never .. MaxClock
  /\ gaps \in Seq(0 .. MaxClock)
  /\ marks \in Seq((0 .. MaxClock) \X Nat)
  /\ arrivals \in Seq([at : 0 .. MaxClock, tokens : 1 .. MaxTokens])
  /\ reasoned \in 0 .. MaxChunks

StreamOff ==
  /\ stream = "off" /\ clock = 0 /\ perToken = FALSE
  /\ first = Never /\ prev = Never /\ gaps = <<>>
  /\ ttft = Never /\ marks = <<>>
  /\ arrivals = <<>> /\ reasoned = 0

-----------------------------------------------------------------------------
(* (A definition whose name ends in _Something is a plausible bug in the   *)
(* definition of that name, kept to see that the properties notice it.)    *)

OpenStream ==
  /\ stream = "off" /\ stream' = "open"
  /\ perToken' \in BOOLEAN
  /\ UNCHANGED <<clock, first, prev, gaps, ttft, marks, arrivals, reasoned>>

Pass ==
  /\ stream = "open" /\ clock < MaxClock
  /\ clock' = clock + 1
  /\ UNCHANGED <<stream, perToken, first, prev, gaps, ttft, marks, arrivals, reasoned>>

(* stream_bench.py takes the reasoning for part of the answer.             *)
BenchReads ==
  /\ IF first = Never
     THEN first' = clock /\ UNCHANGED gaps
     ELSE gaps' = Append(gaps, clock - prev) /\ UNCHANGED first
  /\ prev' = clock

SoFar == IF marks = <<>> THEN 0 ELSE marks[Len(marks)][2]

Counted(n) == IF perToken THEN n ELSE 1

MarkOf(n) == <<clock, SoFar + Counted(n)>>

CtxReads(n) ==
  /\ ttft' = IF ttft = Never THEN clock ELSE ttft
  /\ marks' = Append(marks, MarkOf(n))

More == stream = "open" /\ Len(arrivals) + reasoned < MaxChunks

Chunk ==
  /\ More
  /\ \E n \in 1 .. MaxTokens :
       /\ arrivals' = Append(arrivals, [at |-> clock, tokens |-> n])
       /\ CtxReads(n)
  /\ BenchReads
  /\ UNCHANGED <<stream, clock, perToken, reasoned>>

(* ctx_decode_bench.py reads the content alone.                            *)
Reasoning ==
  /\ More
  /\ reasoned' = reasoned + 1
  /\ BenchReads
  /\ UNCHANGED <<stream, clock, perToken, ttft, marks, arrivals>>

SkipsLine_AfterTheClock ==
  /\ prev' = IF first = Never THEN prev ELSE clock
  /\ UNCHANGED <<first, gaps, ttft, marks>>

(* A comment, a broken line, a role, the usage: no client marks the time.  *)
SkipsLine == UNCHANGED <<first, prev, gaps, ttft, marks>>

OtherLine ==
  /\ stream = "open"
  /\ SkipsLine
  /\ UNCHANGED <<stream, clock, perToken, arrivals, reasoned>>

(* [DONE], or the connection closes: the clients stop either way.          *)
CloseStream ==
  /\ stream = "open" /\ stream' = "closed"
  /\ UNCHANGED <<clock, perToken, first, prev, gaps, ttft, marks, arrivals, reasoned>>

StreamNext == OpenStream \/ Pass \/ Chunk \/ Reasoning \/ OtherLine \/ CloseStream

StreamSpec == StreamOff /\ [][StreamNext]_streamVars

-----------------------------------------------------------------------------
(* What ctx_decode_bench.py makes of its marks.                            *)

Start(i)   == marks[i][1] - marks[1][1]
Span       == Start(Len(marks))
Reports    == Len(marks) >= MinMarks /\ ttft > 0
Windows    == 0 .. NumWindows - 1

(* The marks of window k; the edges are fractions of the span.             *)
InWindow_Inclusive(k) ==
  {i \in DOMAIN marks : Span * k <= NumWindows * Start(i) /\ NumWindows * Start(i) <= Span * (k + 1)}

InWindow(k) ==
  {i \in DOMAIN marks : Span * k <= NumWindows * Start(i) /\ NumWindows * Start(i) < Span * (k + 1)}

FirstOf(S) == CHOOSE i \in S : \A j \in S : i <= j
LastOf(S)  == CHOOSE i \in S : \A j \in S : i >= j

(* A window reports the tokens and seconds between its outer marks.        *)
WindowTokens(k)  == marks[LastOf(InWindow(k))][2] - marks[FirstOf(InWindow(k))][2]
WindowSeconds(k) == marks[LastOf(InWindow(k))][1] - marks[FirstOf(InWindow(k))][1]

-----------------------------------------------------------------------------
(* Properties.                                                             *)

(* f[1] + ... + f[n]                                                       *)
SumOf(f, n) ==
  LET sum[i \in 0 .. n] == IF i = 0 THEN 0 ELSE sum[i - 1] + f[i] IN sum[n]

ServerTokens == SumOf([i \in DOMAIN arrivals |-> arrivals[i].tokens], Len(arrivals))

(* "A claim of a stall must show up as gaps, or it is not happening"       *)
(* (lines 17-20 of stream_bench.py): every silence between two chunks of   *)
(* an answer is a gap of stream_bench.py, whole, whatever else the server  *)
(* sent meanwhile, and the same time between two marks of                  *)
(* ctx_decode_bench.py, which loops on its own (lines 62-83 and 86-112).   *)
(* The two also agree on the time to the first token and, when every delta *)
(* lists its tokens, the marks end at the server's count.  All this        *)
(* without reasoning: ctx_decode_bench.py takes it for part of the prefill *)
(* or for a silence, and stream_bench.py for part of the answer.           *)
ClientsAgree ==
  reasoned = 0 =>
    /\ ttft = first
    /\ Len(marks) = Len(arrivals)
    /\ gaps = [i \in 1 .. Len(marks) - 1 |-> marks[i + 1][1] - marks[i][1]]
    /\ perToken => SoFar = ServerTokens

(* What arrived with the chunks of window k after its first.               *)
ArrivedIn(k) ==
  [i \in DOMAIN arrivals |->
     IF i \in InWindow(k) /\ i # FirstOf(InWindow(k)) THEN Counted(arrivals[i].tokens) ELSE 0]

(* The windows divide the answer: each chunk falls in exactly one, except   *)
(* those of the last instant, which fall in none; and a window reports the *)
(* tokens that arrived in its seconds, those of its chunks but the first,  *)
(* and seconds shorter than its share of the span (lines 116-132).         *)
WindowsAreOfTheAnswer ==
  stream = "closed" /\ Reports =>
    /\ UNION {InWindow(k) : k \in Windows} = {i \in DOMAIN marks : Start(i) < Span}
    /\ \A k \in Windows :
         /\ \A j \in Windows \ {k} : InWindow(j) \cap InWindow(k) = {}
         /\ InWindow(k) # {} =>
              /\ WindowTokens(k) = SumOf(ArrivedIn(k), Len(arrivals))
              /\ WindowSeconds(k) * NumWindows < Span
=============================================================================
